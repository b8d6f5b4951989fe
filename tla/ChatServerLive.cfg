\* Liveness, so no symmetry: two workers, one message, bob connects once.
CONSTANTS
  c1 = c1
  alice = alice
  bob = bob
  Conns = {c1, c2}
  Users = {alice, bob}
  Workers = {w1, w2}
  User <- MCUser
  Peer <- MCPeer
  Plans <- OneToBob
  NoConn = NoConn
  NoTask = NoTask
  Garbage = Garbage
SPECIFICATION FairSpec
PROPERTIES EdgeServed MailArrives OnlineNotStored
\* All is read, or the process has died.
CHECK_DEADLOCK FALSE
