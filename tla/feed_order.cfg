CONSTANTS
  a = a b = b g = g h = h c1 = c1 c2 = c2
  Conns = {c1, c2}
  Streams = {s1}
  Events <- TwoArticles
  Kind <- TwoArticlesKinds
  Listener = Listener
  Idle = Idle
SPECIFICATION Spec
INVARIANTS AtMostOncePerChannel RedisOrderKept StreamIsExact
PROPERTY FollowersMissNothing
