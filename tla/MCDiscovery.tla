------------------------------ MODULE MCDiscovery ------------------------------
(* Discovery on two processes: two file servers, or a file server and a user  *)
(* server, which nobody declared and which listens before it registers.       *)
EXTENDS Discovery, TLC

CONSTANTS f1, f2, u, h1, h2

FileService == <<"service", "file_service">>

\* -instance_name given on the command line: every process has its own key.
FileKeys == f1 :> Append(FileService, "a") @@ f2 :> Append(FileService, "b")
FileHosts == f1 :> h1 @@ f2 :> h2

\* The defaults of file_server.cc:14-16 and user_server.cc:11-12, 18.
DefaultKeys == f1 :> Append(FileService, "instance")
               @@ u :> <<"service", "user_service", "instance">>
DefaultHosts == f1 :> h1 @@ u :> h2

FileOnly == {FileService}

\* The default of user_server.cc:19.
DefaultDeclared == {<<"service", "file">>}
================================================================================
