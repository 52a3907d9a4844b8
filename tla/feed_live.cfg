CONSTANTS
  a = a b = b g = g h = h c1 = c1 c2 = c2
  Conns = {c1}
  Streams = {}
  Events <- Mixed
  Kind <- MixedKinds
  Listener = Listener
  Idle = Idle
SPECIFICATION FairSpec
PROPERTIES BroadcastsEnd Reconnects
