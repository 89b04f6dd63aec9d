\* A started job waits to be sent: see MarkedRunningInParents.
CONSTANTS
  root = root
  sub = sub
  Job = {j1, j2}
  Req = {r1, r2}
  NoJob = NoJob
  MaxRetries = 0
  Outcome = {"return", "error"}
  Vacuuming = FALSE
  Channel <- MCChannel
  Root = root
  Parent <- MCParent
  Capacity <- MCCapacity
  Sequential = {}
  ChannelOf <- MCChannelOf
SPECIFICATION Spec
PROPERTIES
  MarkedRunningInParents
