\* One unit is two seconds.  Delays are 2 to 10 s, a connect times out after 10 s,
\* the pong is due after 10 s, the ping thread polls every 2 s, refreshes take up to
\* 6 s; the 120 s of on_message are scaled down to 20 s.
SPECIFICATION FairSpec
CONSTANTS
  MinDelay = 1
  MaxDelay = 5
  ConnectTimeout = 5
  RetryMax = 5
  PingAfter = 5
  PollEvery = 1
  RefreshMax = 3
  FallbackAfter = 10
  Fallback = TRUE
  Horizon = 13
INVARIANTS
  TypeOK
  OneAttempt
  BackoffLaw
  ReconnectSoon
  PongOnTime
  StampNotAhead
PROPERTIES
  Reconnects
