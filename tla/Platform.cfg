\* Two instances with their own caches, of which one takes the requests and
\* either may handle a suspension; two calls in flight; one event to two
\* subscriptions with the code's three attempts.
CONSTANTS
  Proc = {p1, p2}
  Front = {p1}
  Req = {r1, r2}
  User = {u1}
  TTL = 2
  Idle = Idle
  NoEntry = NoEntry
  Unread = Unread
  Event = {e1}
  Sub = {s1, s2}
  MAX_RETRY_ATTEMPTS = 3
  None = None
SPECIFICATION PlatformSpec
INVARIANTS
  PlatformTypeOK
  NoAnswerOlderThanTtl
  ServingInstanceCurrent
  DuplicatesBounded
PROPERTIES
  EventuallyLockedOut
  EventuallyReinstated
  SettledIsFinal
  EveryFailureSettles
