\* Two jobs competing for one slot, two requests; jobs that return, fail or
\* collide with another transaction, without limit of retries.
CONSTANTS
  root = root
  sub = sub
  Job = {j1, j2}
  Req = {r1, r2}
  NoJob = NoJob
  MaxRetries = 0
  Outcome = {"return", "conflict", "error"}
  Vacuuming = FALSE
  Channel <- MCChannel
  Root = root
  Parent <- MCParent
  Capacity <- MCCapacity
  Sequential = {}
  ChannelOf <- MCChannelOf
SPECIFICATION Spec
SYMMETRY Symmetry
INVARIANTS
  NoLostNotification
  StartedIsExecuted
