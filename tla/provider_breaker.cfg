CONSTANTS
  c1 = c1
  c2 = c2
  Calls = {c1, c2}
  Threshold = 3
  RateThreshold = 2
  RetryCount = 4
  RateRetry = 2
  ServerRetry = 2
  AuthCooldown = 3
  RateCooldown = 2
  ConnectCooldown = 2
  ServerCooldown = 2
  BackoffMax = 1
SPECIFICATION FairSpec
INVARIANTS DegradedMeansTripped AuthCooldownHonoured
PROPERTIES CallsEnd ProviderComesBack
