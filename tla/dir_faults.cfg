\* Listings, puts, channels and streams fail, leases are lost; no gap, no quick restart.
\* Processes may all be down for good: no deadlock check.
CHECK_DEADLOCK FALSE
SPECIFICATION Spec
CONSTANTS
  f1 = f1
  f2 = f2
  u = u
  h1 = h1
  h2 = h2
  ChannelId = {a1, a2}
  NoChannel = NoChannel
  HalfRange = 2
  SizeRange = 16
  Host = {h1, h2}
  Inst = {f1, u}
  KeyOf <- DefaultKeys
  HostOf <- DefaultHosts
  ListenFirst = {u}
  Needed = {f1}
  Declared <- FileOnly
  MaxStarts = 2
  Flaky = {h1}
  Gap = FALSE
  QuickRestart = FALSE
  Partition = TRUE
  CallsFail = TRUE
INVARIANTS
  OnlyAnnounced
  OnlyRegistered
