---------------------------- MODULE MCServiceManager ---------------------------
(* ServiceManager with one declared service and one nobody asked for.         *)
EXTENDS ManagedService
================================================================================
