CONSTANTS
  Callers = {a, b}
  RedisClients = {p1, p2, p3, p4}
  MaxFaults = 2
  NoPool = NoPool
  NoCaller = NoCaller
SPECIFICATION FairSpec
INVARIANTS OneCreator
PROPERTIES CallersReturn PoolRecovers
