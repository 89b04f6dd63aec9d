\* A pending job is deleted as done: see AutovacuumOnlyDone.
CONSTANTS
  root = root
  sub = sub
  Job = {j1}
  Req = {r1, r2}
  NoJob = NoJob
  MaxRetries = 0
  Outcome = {"return", "error"}
  Vacuuming = TRUE
  Channel <- MCChannel
  Root = root
  Parent <- MCParent
  Capacity <- MCCapacity
  Sequential = {}
  ChannelOf <- MCChannelOf
SPECIFICATION Spec
PROPERTIES
  AutovacuumOnlyDone
