\* A canceled job is performed: see CanceledNeverPerformed.
CONSTANTS
  root = root
  sub = sub
  Job = {j1}
  Req = {r1, r2}
  NoJob = NoJob
  MaxRetries = 0
  Outcome = {"nothing to do", "error"}
  Vacuuming = FALSE
  Channel <- MCChannel
  Root = root
  Parent <- MCParent
  Capacity <- MCCapacity
  Sequential = {}
  ChannelOf <- MCChannelOf
SPECIFICATION Spec
INVARIANTS
  CanceledNeverPerformed
