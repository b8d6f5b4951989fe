\* What an offline message says when it is delivered.
CONSTANTS
  c1 = c1
  alice = alice
  bob = bob
  Conns = {c1, c2}
  Users = {alice, bob}
  Workers = {w1}
  User <- MCUser
  Peer <- MCPeer
  Plans <- OneToBob
  NoConn = NoConn
  NoTask = NoTask
  Garbage = Garbage
SPECIFICATION Spec
INVARIANTS MailIntact
\* All is read, or the process has died.
CHECK_DEADLOCK FALSE
