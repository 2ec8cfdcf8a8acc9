# A verification project for the IM back end

The repository is the server side of an instant-messaging system in C++: small RPC servers (brpc) that find each other through etcd and keep their data in MySQL (ODB), Redis, Elasticsearch and on the disks of the file servers. This directory holds TLA+ modules translated from the code under `src/code/server`, the configurations TLC checks them with, and theorems whose proofs TLAPS checks. `PROJECT.json` maps every definition to the lines it models.

Contents: [1 the system](#1-the-system), [2 the modules](#2-the-modules), [3 the runs](#3-the-runs), [4 bounds and fairness](#4-bounds-and-fairness), [5 proofs](#5-proofs), [6 disagreements found](#6-disagreements-between-the-code-and-its-words), [7 what is not modelled](#7-what-is-not-modelled), [8 plan](#8-plan).

## 1. The system

### Servers

| server | registers | listens | uses |
|---|---|---|---|
| user (`user/source`) | after it listens | 10003 | discovery of the file servers, MySQL, Redis, Elasticsearch, SMS |
| file (`file/source`) | before it listens | 10002 | its own storage directory |
| speech (`speech/source`) | before it listens | 10001 | a speech SDK |

The other services the `.proto` files declare (friend, gateway, message, notify, transmite) have no implementation yet.

### Components, their state and their operations

| component | state | operations | who calls it, on which thread |
|---|---|---|---|
| `Registry` (`etcd.hpp`) | a lease of three seconds, kept alive by a thread of the etcd client | constructor (grant), `registry` (put), destructor (stop of the keep-alive) | `main`, once |
| `Discovery` (`etcd.hpp`) | a watcher, two callbacks | constructor (`ls`, then the watcher), `callback` | `main`; afterwards the watcher's thread |
| `ServiceManager` (`channel.hpp`) | `_services`, `_follow_services`, a mutex | `declared`, `choose`, `onServiceOnline`, `onServiceOffline` | handlers call `choose`, Discovery's callbacks the others |
| `ServiceChannel` (`channel.hpp`) | `_channels` (vector), `_hosts` (map), `_index`, a mutex | `append`, `remove`, `choose` | the ServiceManager |
| `UserServiceImpl` (`user_server.hpp`) | none of its own | eleven RPC handlers | brpc's workers, concurrently |
| `UserTable`, `User` | the MySQL table `user`, with unique indexes on id, nickname and phone | `insert`, `update`, four selects, each a transaction that turns an exception into `false` or "no user" | handlers |
| `Session`, `Status`, `Codes` | Redis keys: session id to user id, login marks, verification codes that live sixty seconds | `append`, `exists`, `code`, `remove`, `uid` | handlers; an exception of the Redis client is caught nowhere |
| `ESUser`, `icsearch.hpp` | the index `user`, one document per user | `createIndex`, `appendData`, `search` | handlers |
| `DMSClient` | none | `send`: a code, or `""` | `GetPhoneVerifyCode` |
| `FileServiceImpl` | the files of one node | `GetSingleFile`, `GetMultiFile`, `PutSingleFile`, `PutMultiFile` | the user server, clients |
| `SpeechServiceImpl`, `ASRClient` | none | `SpeechRecognition` | clients |
| `MQClient` (`rabbitmq.hpp`) | a connection, an event loop thread | `declareComponents`, `publish`, `consume`, destructor | the two example programs; main calls, the loop thread handles answers and deliveries |
| `utils.hpp` | the 16-bit counter of `uuid` | `uuid`, `readFile`, `writeFile` | all |

### How they interact

1. A server's `Registry` grants a lease, puts `base_service + instance_name -> access_host` under it and keeps it alive. When the process dies, etcd deletes the key some seconds later.
2. The user server's `Discovery` lists `/service`, runs `onServiceOnline` for each key, creates a watcher, and runs `onServiceOnline` or `onServiceOffline` for each later change. The service name is the key up to its last `/`; services nobody declared are ignored.
3. A handler that needs a file server asks `choose` for the next channel of the rotation, keeps the shared pointer, and calls the node, which may be removed meanwhile.
4. A setter reads a row, changes its copy, writes the whole row back, then sends the whole document to Elasticsearch. Nothing spans the two stores.
5. The file server writes each picture under a fresh id and reads it back by that id; the user server keeps the ids in its rows.
6. An `MQClient` has two threads on one connection: main sends commands, the loop thread runs the callbacks.
7. Login looks the user up, tests the mark in Redis, stores a session, sets the mark, and answers with the session id.

### Which behaviours are hard, and what correct means

- **The pool**: a vector, a map and a counter that must agree after any sequence of joins, leaves and repeated announcements; a counter that wraps. Correct: `remove` takes all of a host's channels out and no other's; nobody reads past the vector; the rotation is fair.
- **The locks**: two mutexes, one thread of callbacks, many handlers, and statements outside the locks. Correct: the operations are atomic to each other, nothing waits for ever.
- **Discovery**: two requests with a gap, batches, leases that outlive their process, restarts before and after the expiry. Correct: when every event is handled the pools are the registry; a dead node leaves; a live one joins.
- **The profile**: concurrent read-modify-write of one row, three stores without a common transaction, failures and crashes between them. Correct: what was reported stored stays; no row names a picture that was never stored; names stay unique; the index follows the table.
- **Files**: a stream that reports errors only for what is larger than its buffer, requests of several files that stop half way, crashes, one 16-bit counter that keeps the ids of all threads apart. Correct: what a client was told is there, whole, and never changes.
- **The queue client**: crashes between callback and acknowledgement, deliveries that overtake the callback's installation, a destructor that stops a loop wherever it is. Correct: nothing is lost, everything is handled, the destructor returns.
- **Registration and login**: check-then-act on MySQL and on Redis, crashes between two Redis commands and before the reply. Correct: one account per name, no mark without session, a mark only on who is logged in, one login at a time.

`PROJECT.json` lists the hazards at their lines.

## 2. The modules

```
ChannelPool            the value of a pool and what each method makes of it (no variables)
 |-- ServiceChannel    one pool, a method call is a step                (abstract)
 |    '-- RoundRobin          + a history of what choose returned
 |-- ServiceManager    two mutexes, every section a step
 |    '-- ManagedService      one service of it                -- refines --> ServiceChannel
 '-- Discovery         processes, etcd, watch, pools       -- refines --> ServiceDirectory
ServiceDirectory       the registry as a log and a view that follows it (abstract)
UserProfile            setters and readers over table, index and files
UserSession            registration, login, verification codes
 '-- FormatChecks      what a nickname, a password, a number may be (operators)
FileService            four handlers, uuid, streams, a disk -- refines --> FileStore
FileStore              contents under ids, for good       (abstract)
MQClient               two threads, a connection, a broker
MC*                    instances for TLC
*Proofs                theorems: ChannelPool (lemmas only), ServiceChannel (with RoundRobin),
                       ServiceManager (with ManagedService), Discovery (with ServiceDirectory),
                       UserProfile, UserSession (with FormatChecks), FileService, MQClient
```

**ChannelPool.** A pool is `[hosts, channels, index]` for `_hosts`, `_channels`, `_index`. A channel object is a record of its host and of an address (`ChannelId`) that no live object has. `Appended`, `Removed`, `Chosen` and `Advanced` are the method bodies; `EraseChannel` follows the loop that breaks after the first match, `Bump` the signed increment that wraps, `AsSize` the conversion to `size_t` before `%`. The counter has `2 * HalfRange` values and `size_t` has `SizeRange`.

**ServiceChannel** makes each method a step and remembers the last result in `chosen`. `Reannounce` is the set of hosts that may be appended while they are in the pool: etcd makes that happen when a server restarts within its lease. What holds only of hosts announced once says so.

**ServiceManager** takes the methods apart. A worker runs `choose`, the updater thread runs the callbacks; a step is the code between two lock operations (or the part of it that another thread could see), and `manager`'s and each pool's mutex is a variable holding its owner. A pool is made when the first node of its service comes online (`Managing`). **ManagedService** says that any one service, `Watched`, is a `ServiceChannel`, under a mapping that shows the pool as it is before an unfinished append or remove, and the counter as it is before an unfinished choose. As in `ServiceChannel`, the hosts of `Reannounce` may be announced while the pool has them (`Announced`); `UnlockedConsistent` asks of all others that map and vector agree in both directions.

**Discovery** has the registering processes (`stage` counts the steps of `main` done), etcd (`leases`, `kv`, and `log`, all changes by revision) and the observing server (`phase`, `todo`, `rev`, `pools`). `ls` lists in any order; `watch` remembers the revision at which it was created; `respond` takes a batch of any length; `callback` runs one `put_cb` or `del_cb`. Keys are sequences of path segments, `getServiceName` drops the last. Four switches turn on what may go wrong: `Gap`, `QuickRestart`, `Partition`, `CallsFail`.

**ServiceDirectory** is what an observer promises: its view of every declared service is the registry after one and the same number of changes, and that number grows.

**UserProfile.** `rows`, `docs`, `files` are the three stores; a worker's `copy` is the `User` object between `select_by_id` and `update`. Each call to a store is a step that may fail, before or after it took effect; `crash` ends all handlers at once. The fields are kept in one function so that one set of actions stands for the four setters, which differ only in the field and, for the avatar, in the upload. `acked` and `told` are histories of what clients were told.

**UserSession.** `rows` holds nickname, password and phone; `session`, `status`, `codes` are the three kinds of Redis keys. The handlers share the actions for steps they share in the code (the look-up before an insert, the check of a code). Both mistaken tests `if(user)` are modelled as written: `insert` always replies with an error, and `selectPhone` goes on without a user, until `nullUser` ends the process. `appendSession`, `appendStatus` and `answer` are three steps, and a crash may fall between any two. `UserLogin` compares with `*user->password()`, which for a user without a password reads the empty string (`PasswordRead`), and such a user has his id for a nickname: logins by a user id and with an empty password are among the requests. `told` is the history of the session ids that were sent.

**FormatChecks.** A string is a sequence of chars, a char an integer of eight bits with sign. `At` is `operator[]`, which answers NUL at the string's end. `PhoneReads` is the set of indices the check looks at before it returns. `IsPassword` and `IsPhone` are what the comments ask for.

**FileService.** A worker's `handler` record holds its place, its request, the file it is at and the response so far; a single request is a list of one. `uuid`, `openWrite`, `write`, `close`, `openRead`, `size`, `read` are the calls of `utils.hpp`, each with the failure it can report. A body has a length in units; up to `Buffer` units (1023 bytes in libstdc++) stay in the stream until `close`, whose result nobody asks for, so such a body may be cut off unnoticed; a longer one goes to the disk in `write`. A file is one body and how much of it was written. `told` and `lost` are histories. The empty id opens the storage directory: reading it fails, or `resize` throws and ends the process.

**FileStore** is what a client may rely on: `store` maps each id it was told to one content for ever, and a reply lists contents of the store only. `FileService` implements it with `store` as the part of the disk that was told.

**MQClient.** `proc` has the two threads of each process, `link` its connection with the frames on their way. A call with an answer is several steps of main, the sending and the setting of each callback (`onReceived` and `onError` of `consume` are set one after the other), between which the loop thread may run. An `onError` set on a call that has failed already fires at once and ends the process (`SetOnError`); so does one that is set when the refusal is read (`onError`) or when the connection is lost with the call unanswered (`disconnected`). `Die` is every end of a process; the broker may go on with what was sent, and `requeue` is the moment it notices. Exchange, queue and binding are declared the same way and stand as one command. Broker, network and library are external: commands of one connection are taken in order, a message is delivered to one subscriber and waits for its acknowledgement.

Definitions marked "Faulty" are mutated forms of the definition that follows: each property of a passing run is violated when one of them is put in the place of the original, which shows that the run would notice that bug.

## 3. The runs

### Passing

| run | what is checked | what it shows |
|---|---|---|
| `pool` | `TypeOK`, `OneEntryPerHost`, `NoChannelTwice`, `NoStaleChannel`, `RoundRobinBetweenWraps`, `RemoveReleases`, `NoStarvation` | three hosts, one announced again while it is known, one whose channel may fail: the map never points at a channel the vector lost; for hosts announced once map and vector agree exactly; a round visits every channel once unless the counter wraps inside it; once nodes settle, each channel is handed out again and again |
| `manager_locks` | `TypeOK`, `TurnStillThere`, `UnlockedConsistent`, `ChooseReturns`, `ImplementsServiceChannel` | one of two hosts may be announced again: no deadlock, no read past the vector, map and vector agree whenever the pool's mutex is free (but for that host's second channels), a `choose` that has the manager's mutex returns, methods are atomic |
| `dir_follow` | `TypeOK`, `Agreement`, `OneTurnEach`, `ImplementsDirectory`, `DeadNodeLeaves`, `LiveNodeJoins` | without gap and quick restart, pools follow the registry change by change and agree with it in the end |
| `dir_faults` | `OnlyAnnounced`, `OnlyRegistered` | a file server and a server nobody declared; calls to etcd and channels may fail, leases may be lost, no gap and no quick restart: pools hold no host that was not announced under their service, and, though they may miss hosts, none that is not registered once every event is handled |
| `profile_race` | `TypeOK`, `AckedSurvives`, `SuccessMeansIndexed`, `NoDanglingAvatar`, `OneOwner` | two handlers at a time, every call may fail, the process may crash: what must hold whatever overlaps, and, for setters that no other setter of their user ran beside, that a success is stored, indexed and stays |
| `session_race` | `TypeOK`, `OneAccount`, `StoredAreWellFormed`, `MarkHasSession`, `SuccessIsRecorded` | two handlers at a time, well and badly formed requests, look-ups and inserts may fail, the process may crash between any two steps of a login: one account per name and number, names and passwords of the documented form, no mark without a session, a session id that was sent is good for ever |
| `file_disk` | `TypeOK`, `ToldIsWhole`, `OneWriterPerFile`, `OnlyBrokenAreForgotten`, `ImplementsFileStore` | two requests of one or two files at a time, a disk that may refuse every call, crashes: ids that were told name whole files that stay, the reply of a failed request still lists the files it stored, the server is a store |
| `mq_redeliver` | `TypeOK`, `NothingLost`, `AtLeastOnce`, `DestructorReturns` | a producer, a consumer that may start again, two crashes or cut connections, refusals before and after the callbacks are set: nothing is lost between delivery and acknowledgement, everything is handled while a consumer stays, the destructor returns |

### Violated

Each of these runs checks one property that quotes a comment or a message of the repository; TLC's counterexample is what the code does. Section 6 tells them: `dir_gap`, `dir_quick`, `profile_lost`, `session_twice`.

## 4. Bounds and fairness

- **Pools**: three hosts and three addresses, so that the vector can hold one channel per host, or several of one host. Two channels are not enough for a round robin (every counter that wraps at a power of two is even for two); three leave the remainder modulo 3 that 2^32 and 2^64 leave when the counter has 4 bits and `size_t` has 8. `manager_locks` runs with two bits and a `size_t` of four; `TypeOK` is proved for every width.
- **ServiceManager**: two hosts, one of which may be announced again, and three addresses, so that the vector holds a channel the map lacks; two workers, one callback thread (the etcd client has one), a declared service and one nobody declared. Two workers are enough for one to be between any two sections of another.
- **Discovery**: `Declared` is the file service's real name in all runs: the default of the client's flag is another (section 6). Two processes that start at most twice (`MaxStarts`). A second start meets what the first left: an old key, an old lease, an old channel. `log` is bounded by the starts.
- **UserProfile**: two users, two names, one phone number to race for, one picture, two handlers. `FileId` bounds the uploads: an upload with no id left waits for a failure. A description is a field like the others and is left empty in `profile_race`; `profile_lost` has one.
- **UserSession**: nicknames of 21 and 22 bytes and the user ids (the nicknames of who registered by phone), passwords of 5 and 6 and, for a login, the empty one, numbers of 10 and 11 digits, one code and one code id (a request with an id that is not stored is a wrong one); `SessionId` bounds the logins, `UserId` the accounts (three: as many as the accepted names and numbers). `CodeId` gives an id again after its code is gone; no property depends on it. What the checks say of all other strings is proved.
- **FileService**: two workers, a body of two units and one of one unit, `Buffer` one, so that the first is written through and the second waits for `close`; requests of up to two files; a counter of one bit, so that it wraps after two ids; at most two files when an id is taken (`MaxFiles`, three files on the disk when both workers take one), and two rounds of the counter (`MaxRound`: a wrap or a crash). Files are independent of each other but for their ids, so that more files would repeat the same cases. `write` is taken to reach the kernel's cache when it reports success; a crash is one of the process, not of the machine.
- **MQClient**: two messages, so that one can be in a callback while another waits; one consumer process that may start twice, so that one life meets the broker's memory of the other; two faults. With two consumers at once and one message the same properties hold as far as they were followed (450,000 states); the run's time limit keeps that instance out.

Fairness is assumed where threads and timers justify it and nowhere else:

- `choose` is called again and again (`ServiceChannel!FairSpec`): an assumption on clients, without which a fair rotation means nothing.
- Each thread takes its next step when it can for ever (`ServiceManager!FairSpec`, weak fairness per worker and for the updater). Mutexes are not assumed fair beyond that.
- Both threads of an `MQClient` and the broker go on, and the user's callback returns (`MQClient!Fairness`). `AtLeastOnce` is about consumers that stay subscribed; no process need start, end its sleep, crash or lose its connection.
- Discovery's thread runs, etcd answers and delivers; a lease nobody renews expires; a process that runs finishes `main` (`Discovery!FairSpec`). No process need start again, none need crash, and a running process's lease need not expire.

## 5. Proofs

Each theorem holds for every value of the constants that meets the assumptions the modules name: any number of hosts, processes, workers, users, files and messages, and every width of the counters. Every invariant the runs check is proved here, and the safety of all three refinements.

| module | theorem | states | with |
|---|---|---|---|
| `ServiceChannelProofs` | `PoolConsistent`, `TypeCorrect` | the inductive invariant of the pool, `TypeOK` | |
| | `ChannelsDistinct`, `HostsServed` | `NoChannelTwice`, `OneEntryPerHost` | |
| | `NothingStale`, `RemoveReleasesAll` | `NoStaleChannel`, `RemoveReleases` | of hosts that are not announced twice |
| | `RotationBetweenWraps` | `RoundRobinBetweenWraps` | |
| `ServiceManagerProofs` | `LocksKeepPools`, `TypeCorrect` | the inductive invariant, `TypeOK` | |
| | `TurnsStay` | `TurnStillThere` | |
| | `UnlockedAgree` | `UnlockedConsistent` | one direction: of hosts that are not announced again |
| | `ServiceChannelImplemented` | `ImplementsServiceChannel` | |
| `DiscoveryProofs` | `TypeCorrect`, `AnnouncedOnly` | `TypeOK`, `OnlyAnnounced` | |
| | `RegisteredOnly`, `TurnsAreFair` | `OnlyRegistered`, `OneTurnEach` | `Orderly` |
| | `ViewAgrees` | `Agreement` | `Undisturbed` |
| | `DirectoryImplemented` | the safety part of `ImplementsDirectory` | `Undisturbed` |
| | `ViewIsPast`, `PoolsAreThePast` | `ViewIsPrefix` of the abstract directory, and of the pools | the second: `Undisturbed` |
| `UserProfileProofs` | `ProfilesKept`, `TypeCorrect` | the inductive invariant, `TypeOK` | |
| | `PicturesAreStored`, `OwnersAreUnique` | `NoDanglingAvatar`, `OneOwner` | |
| | `AckedStays`, `IndexShowsRow` | `AckedSurvives`, `SuccessMeansIndexed` | `~Beside` |
| `UserSessionProofs` | `TypeCorrect`, `AccountsAreUnique`, `RowsAreWellFormed` | `TypeOK`, `OneAccount`, `StoredAreWellFormed` | |
| | `MarksHaveSessions`, `SuccessStays` | `MarkHasSession`, `SuccessIsRecorded` | |
| | `PhoneReadsInBounds`, `PhoneMeaning` | for every string, what `phone_check` reads and what it accepts | |
| | `PasswordSound`, `PasswordNarrow` | for every string, that `password_check` lets nothing forbidden through, and what it refuses beyond that | |
| `FileServiceProofs` | `TypeCorrect`, `ToldFilesAreWhole`, `OneWriter`, `ForgottenAreBroken` | `TypeOK`, `ToldIsWhole`, `OneWriterPerFile`, `OnlyBrokenAreForgotten` | |
| | `StoreImplemented` | `ImplementsFileStore` | |
| `MQClientProofs` | `TypeCorrect`, `NoMessageLost` | `TypeOK`, `NothingLost` | |

### Assumptions and hypotheses

The assumptions name the domains of the constants, and otherwise say: a null pointer, an unknown id, the storage directory or the absence of a reply is not one of the things it stands in for (`NoChannelAssumption`, `NullAssumption`, `NamesAssumption`, `ReplyAssumption`); the counter of a pool is at least one bit wide and `size_t` at least as wide as the counter (`RangeAssumption`); the callback thread is none of the workers (`ThreadAssumption`); the nickname a user starts with is his own (`FirstAssumption`: rows begin under the unique index); requests are sequences of chars (`StringsAssumption`); a key has at least one segment (`InstAssumption`).

Three hypotheses stand before theorems, and each is the condition of a passing run:

- `Orderly` (`dir_faults`): nothing is registered or expires between `ls` and the watcher, no process is back before its old lease is gone, and a key, and a host within its service, belongs to one process. Crashes, restarts, batches, failing calls and leases that a partition takes from running processes remain. `dir_gap` and `dir_quick` show that the first two are needed; of two processes of one service with one host an entry stays in the vector after both are gone.
- `Undisturbed` (`dir_follow`): `Orderly`, and calls to etcd and to `brpc::Channel::Init` succeed. A failed listing or channel leaves a pool incomplete for good.
- `~Beside` (`profile_race`): the histories only count a success no other setter of the same user ran beside. `profile_lost` shows what happens to the others.

### Along which arguments

**The pool.** Neither `OneEntryPerHost` nor `NoChannelTwice` is inductive alone. That one entry of the vector equals the map's channel is kept by `append` only if the new object's address is not in the vector, and by `remove` only if no other host's entry is the erased one: so `PoolInv` says that the pool is typed, that every channel of the map is in the vector and was made for its host, and that the vector is injective. `AppendedKeepsPool`, `RemovedKeepsPool` and `AdvancedKeepsPool` in `ChannelPoolProofs` show that each method body keeps it (`RemoveAtElements` and `PositionFound` are the facts on sequences they need; `SlotInVector` bounds `Chosen` by the arithmetic of `%`); three modules use them. `NothingStale` adds the converse, that the vector's channels are known to the map (`ChannelsKnown`), which holds of the hosts outside `Reannounce`. `RotationBetweenWraps` needs to know of each element of the history at which value of the counter it was read (`History`); two equal ones within a round would be values that agree modulo the number of channels and differ by less.

**The locks.** Between two halves of an append or remove the pool does not satisfy `PoolInv`; `Shown(s)` is the pool with the half undone, and the invariant says `PoolInv(Shown(s))` for every service, together with who holds which lock at each place of the code and what he knows there. The step simulation of `ServiceChannel` follows from it: the last half is the abstract step, the others are invisible, because the owner of the pool's lock is alone with the pool.

**Discovery, whatever fails.** A key is in the registry only under a lease of the process that put it, that process is past its put if it still runs under that lease, and there is a put of the key in the log; what the observer has to handle or holds was announced.

**Discovery, orderly and undisturbed.** `After(s, n)` is what the first n changes leave of service s. The invariant says that the keys are the changes so far (`LogOK`), that no host is put that is there, that a process has one lease at a time, and, by phase: while listing, the keys are divided among callbacks run and to run (`Listing`); while watching, what is still to be handled is a section of the log and the pools are `After` the changes before it (`Following`), or, when calls failed, a part of it (`Shows`): a deletion takes its host from both, an announcement may add it to the registry alone. That map and vector of a pool have the same hosts, each once (`Exact`), turns what a callback does to the pool into what a change does to a set. `PastIsFixed` says that the past does not change when the log grows, `OneChange` what one more change does. A put of a key that is there already (`FreshKey` excludes it) is where the argument would break, and where `dir_quick` breaks the code.

**Profiles.** `OneOwner` survives stale copies because `update` is refused by the unique index (`Conflict`); `NoDanglingAvatar` must be known of copies and requests, not only of rows, since a copy is written back later. The two about successes need `AloneOK`, that no two handlers of one user are both alone, and from it that what an alone setter wrote is still there when it indexes (`IndexOK`), and that each copy has what others were told before (`CopyOK`).

**Sessions.** `AtPlace` says what a handler knows at each place: that its request has passed its checks, that its user is in the table, that its session is stored and its user's, that its user is marked before it answers. Rows, sessions and marks are never taken away (`StoresGrow`), so what one handler knows survives the others.

**Files.** An id belongs to the handler that took it until its reply tells it (`Mine`, `Separate`), ids given out are below the counter or of an earlier round (`Used`), and a handler's lists are what is on the disk. That is why nobody writes to a file somebody was told of.

**The queue client.** Frames of one kind on a wire are about different messages; a message on its way to a consumer is unacknowledged by it, an acknowledgement on its way is of a message that was handled and is not in a callback, and no message has both on their way (`Apart`). Without the last an acknowledgement could strike a message off the consumer's account before it is delivered.

**The format checks.** `phone_check` compares the size only with 1. It reads index i only after every smaller one was accepted, and the NUL at the string's end is accepted nowhere: hence it stops there at the latest, and what it accepts has eleven characters.

### Only model-checked

Liveness under fairness is out of the prover's reach: `NoStarvation`, `ChooseReturns`, `DeadNodeLeaves`, `LiveNodeJoins`, `AtLeastOnce`, `DestructorReturns`, and the fairness part of `ImplementsDirectory`. Everything else the passing runs check is proved. Recursive definitions are avoided or written as recursive functions, so that the modules stay provable.

## 6. Disagreements between the code and its words

Each has a run that shows it:

| run | the code | its words |
|---|---|---|
| `dir_gap` | the watcher starts after the listing, at no revision: a change between the two is missed | `etcd.hpp:57, 68` first what is there, then every change |
| `dir_quick` | a restart within the lease is a second PUT: a second channel, of which `remove` later finds one | `channel.hpp:45` a node that went offline is released |
| `profile_lost` | whole rows are written back from copies: one of two setters of different fields is undone | `user_server.hpp:460, 473` the value is stored, the reply says so |
| `session_twice` | mark tested and set by separate commands: two logins at once both succeed | `user_server.hpp:118` the mark decides |

The models contain more of them, without a run of their own. Checking the named property with the named change shows each:

| property | in | the code | its words |
|---|---|---|---|
| `RoundRobinOrder` | `pool` as it is | the signed counter wraps at 2^32; with three channels one call in that round repeats | `channel.hpp:65` calls rotate in turn |
| `NeededAreFound` | `dir_follow` with `Declared <- DefaultDeclared` and the keys and hosts of `dir_faults` | the user server declares `/service/file`, the file server registers `/service/file_service/instance`: its nodes are ignored until somebody sets the flags | `user_server.cc:19` the file service's name |
| `IndexSettles` | `profile_lost` | the document is sent after the transaction: two setters may index in the other order than they updated, and the index keeps the older row | `user_server.hpp:467` the index is brought up to date |
| `StoredPhonesAreNumbers` | `session_twice` with `Phone <- OddPhones` | `phone_check` accepts what follows eleven digits | `user_server.hpp:147` nine digits after the second, and nothing else |
| `MarkMeansLoggedIn` | `session_twice` with `Failures = TRUE` | the mark is set before the reply is sent, and never taken away: a crash between leaves a user marked whom no client has a session of, and every later login is refused | `user_server.hpp:118` the mark tells who is logged in |
| `AvatarReadable` | `profile_lost` with two nodes | pictures are put on one node and asked of another | `user_server.hpp:288` the avatar is fetched by its id |
| `AsksForPictures` | `profile_lost` | a null avatar id is dereferenced and asked for | `user.hxx:53` it need not exist |
| `UnregisteredIsTold` | `session_twice` | `if(user)` instead of `if(!user)`: a registered number is refused, an unknown one with a valid code ends the process | `user_server.hpp:245` the number is not registered |
| `RegisterTellsTruth` | `session_twice` | `if(user)` instead of `if(!ret)`: stored, answered with an error, never indexed | `user_server.hpp:84` the insert failed |

Three more need no run. A body of less than 1024 bytes may be cut off at `close` and be reported as written (`ToldIsWhole` exempts such bodies): `utils.hpp:65` says the data is written to the file. `password_check` refuses eight characters (`PasswordNarrow`) that `user_server.hpp:66` allows. `nickname_check` refuses 22 bytes, `user_server.hpp:60` allows them.

## 7. What is not modelled

- Most of the repository's lines: of 38,270 lines of implementation 33,104 are vendored (`httplib.h`, the AIP SDK) and a part of the rest is generated or example code. The models cover the servers' own logic; a larger share of all lines could only be had by modelling somebody else's.
- `SpeechService` and `ASRClient`: one stateless call. Its only state, the access token, is inside the vendored SDK, and so is what can go wrong with it.
- Data races inside libraries: `MQClient` calls the AMQP library and `ev_async_start` from two threads without a lock, the SDK client is shared by workers. What a torn call may do has no end; the models take a call as one step, and say so.
- Two `MQClient`s in one process: they would share the default event loop (`rabbitmq.hpp:26`). No program makes two.
- Random bits of `uuid` that collide: ids of different rounds of the counter are taken as different.
- Crashes of the machine: files that were written but not yet on the disk (nothing calls `fsync`).
- `search`, `createIndex` and the JSON of `icsearch.hpp`: nobody in the repository searches; the wrappers build and send a text.
- The logger, message layout, vendored code, examples: stateless or not this program's logic.
- Calls that never return (`timeout_ms` is -1): a hung call stops one worker; the code promises nothing about it.
- The destruction of a `Discovery` while its watcher's thread runs: objects live as long as their server.
- Aborts of the builders for a missing part: `main` always makes every part.
- Two processes with one registry key: keys are per instance. That a key lost to a partition is put again is promised nowhere, and does not happen.
- etcd, MySQL, Redis, Elasticsearch and brpc are external: modelled by what the code relies on.

## 8. Plan

Done: every module of section 2 and the proofs of section 5. Left:

1. A composition of `Discovery`'s pools, `UserProfile`'s readers and several file nodes: a handler holds a channel to a node that dies between `choose` and the call.
2. The composition of `Discovery` with `ServiceManager`'s sections: that a callback is one step is proved per service (`ServiceChannelImplemented`), and used in `Discovery` as its grain.
3. A watch stream that ends leaves the pools at a past state of the registry, also when other calls fail: `PoolsAreThePast` now excludes failures (`RegisteredOnly` and `TurnsAreFair` do not).
