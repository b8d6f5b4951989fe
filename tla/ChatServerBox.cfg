\* What an existing mailbox holds when a message is saved.
CONSTANTS
  c1 = c1
  alice = alice
  bob = bob
  Conns = {c1, c2}
  Users = {alice, bob}
  Workers = {w1, w2}
  User <- MCUser
  Peer <- MCPeer
  Plans <- TwoToBob
  NoConn = NoConn
  NoTask = NoTask
  Garbage = Garbage
SPECIFICATION Spec
INVARIANTS BoxHasMail
\* All is read, or the process has died.
CHECK_DEADLOCK FALSE
