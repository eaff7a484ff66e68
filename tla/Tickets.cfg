SPECIFICATION FairSpec
CONSTANTS
  Emails = {e1, e2}
  Passwords = {p1}
  Signups = {s1, s2}
  Handshakes = {h1, h2}
  TTL = 1
  MaxTickets = 2
  MaxClock = 3
  MaxRestarts = 1
INVARIANT IdentityInv
PROPERTIES KeepsPromise ExpiredIsReaped
CHECK_DEADLOCK FALSE
