\* One job and two requests, so that the job may be executed twice at a time;
\* all outcomes, two retries, and the autovacuum cron.
CONSTANTS
  root = root
  sub = sub
  Job = {j1}
  Req = {r1, r2}
  NoJob = NoJob
  MaxRetries = 2
  Outcome = {"return", "conflict", "retryable", "nothing to do", "error"}
  Vacuuming = TRUE
  Channel <- MCChannel
  Root = root
  Parent <- MCParent
  Capacity <- MCCapacity
  Sequential = {}
  ChannelOf <- MCChannelOf
SPECIFICATION Spec
SYMMETRY Symmetry
INVARIANTS
  NoOrphanEnqueued

