\* One job, two requests: the job may be executed twice at a time.  Every way
\* to end but the one without retry.  No symmetry, which liveness forbids.
CONSTANTS
  root = root
  sub = sub
  Job = {j1}
  Req = {r1, r2}
  NoJob = NoJob
  MaxRetries = 0
  Outcome = {"return", "conflict", "retryable", "error"}
  Vacuuming = FALSE
  Channel <- MCChannel
  Root = root
  Parent <- MCParent
  Capacity <- MCCapacity
  Sequential = {}
  ChannelOf <- MCChannelOf
SPECIFICATION FairSpec
PROPERTIES
  EnqueuedEnds
  StartedEnds
  PendingIsSent
