\* The registry changes between the listing and the watch.
\* Processes may all be down for good: no deadlock check.
CHECK_DEADLOCK FALSE
SPECIFICATION FairSpec
CONSTANTS
  f1 = f1
  f2 = f2
  u = u
  h1 = h1
  h2 = h2
  ChannelId = {a1, a2}
  NoChannel = NoChannel
  HalfRange = 2
  SizeRange = 16
  Host = {h1, h2}
  Inst = {f1, f2}
  KeyOf <- FileKeys
  HostOf <- FileHosts
  ListenFirst = {}
  Needed = {f1}
  Declared <- FileOnly
  MaxStarts = 2
  Flaky = {}
  Gap = TRUE
  QuickRestart = FALSE
  Partition = FALSE
  CallsFail = FALSE
INVARIANT Agreement
