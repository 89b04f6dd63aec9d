\* j1 and j2 are in db1, j3 and j4 in db2 with the creation orders of j2 and j1.
CONSTANTS
  root = root
  sub = sub
  leaf = leaf
  unknown = unknown
  j1 = j1
  j2 = j2
  j3 = j3
  j4 = j4
  db1 = db1
  db2 = db2
  Job <- MCJob
  Channel <- MCChannel
  Root = root
  Parent <- MCParent
  Capacity <- MCCapacity
  Sequential <- MCSequential
  Row <- MCRow
  Time = {0, 1}
  Seq <- MCSeq
  Database = {db1, db2}
  DbOf <- MCDbOf
SPECIFICATION Spec
INVARIANTS
  TypeOK
  FlowInv
  CapacityHonoured
PROPERTIES
  RoundIsComplete
  PoolSpec
