\* One host may be announced while it is in the pool, another may fail.
SPECIFICATION HFairSpec
CONSTANTS
  Host = {h1, h2, h3}
  ChannelId = {a1, a2, a3}
  NoChannel = NoChannel
  HalfRange = 8
  SizeRange = 256
  Flaky = {h2}
  Reannounce = {h1}
INVARIANTS
  TypeOK
  OneEntryPerHost
  NoChannelTwice
  NoStaleChannel
  RoundRobinBetweenWraps
PROPERTIES
  RemoveReleases
  NoStarvation
