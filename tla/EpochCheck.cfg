SPECIFICATION CheckFairSpec
CONSTANTS
  Requests = {r1, r2, r3}
  Interval = 5
  Backoff = 2
  Timeout = 2
PROPERTIES FreshWhileAnswering Recovers
