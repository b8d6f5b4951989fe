\* One producer and one consumer together, two and two one after the other;
\* three addresses, so that with five messages every one is used again.
CONSTANTS
  p1 = p1
  p2 = p2
  c1 = c1
  c2 = c2
  Producers = {p1, p2}
  Consumers = {c1, c2}
  Nodes = {n1, n2, n3}
  Count = 5
  Uses <- TwoUses
  Null = Null
SPECIFICATION FairSpec
INVARIANTS TypeOK NoUseAfterFree TailNearEnd
PROPERTIES NullMeansEmpty QueueSpec LinkedIsTaken EnqueueReturns
