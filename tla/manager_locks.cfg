\* Callbacks of one thread against two workers, every interleaving of sections.
SPECIFICATION FairSpec
CONSTANTS
  Host = {h1, h2}
  ChannelId = {a1, a2, a3}
  NoChannel = NoChannel
  HalfRange = 2
  SizeRange = 16
  Service = {file, speech}
  Declared = {file}
  Flaky = {h2}
  Reannounce = {h2}
  Worker = {w1, w2}
  Updater = updater
  Free = Free
  Watched = file
INVARIANTS
  TypeOK
  TurnStillThere
  UnlockedConsistent
PROPERTIES
  ChooseReturns
  ImplementsServiceChannel
