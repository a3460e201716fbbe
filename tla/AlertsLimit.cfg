\* One group that may be calm for less than the rate limit.
SPECIFICATION AlertsSpec
CONSTANTS
  Group = {nginx}
  Sample <- MCSample
  RateLimit = 3
  None = None
PROPERTIES AlertsRateLimited
