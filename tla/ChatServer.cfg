\* Two workers; alice sends bob two messages and he connects once, or one and he
\* connects twice, with a socket for each connection or not.
CONSTANTS
  c1 = c1
  alice = alice
  bob = bob
  Conns = {c1, c2, c3}
  Users = {alice, bob}
  Workers = {w1, w2}
  User <- MCUser
  Peer <- MCPeer
  Plans <- Varied
  NoConn = NoConn
  NoTask = NoTask
  Garbage = Garbage
SPECIFICATION Spec
SYMMETRY Symmetry
INVARIANTS TypeOK OnePlace UnreadWasMerged DeathHasCause
PROPERTIES MessengerSpec
\* All is read, or the process has died.
CHECK_DEADLOCK FALSE
