------------------------------ MODULE JobRunner ------------------------------
(***************************************************************************)
(* The job runner of the connector and everything it shares the table      *)
(* queue_job with:                                                         *)
(*                                                                         *)
(*  - the runner's thread (connector/jobrunner/runner.py), which follows   *)
(*    the table through PostgreSQL notifications, keeps the channels in    *)
(*    memory and asks the server to run jobs;                              *)
(*  - the threads that carry those requests and wait one second for the    *)
(*    answer (_async_http_get);                                            *)
(*  - the server's /connector/runjob (connector/controllers/main.py),      *)
(*    which loads a job, performs it and stores it (queue/job.py);         *)
(*  - the users and crons that create, requeue, close and delete jobs      *)
(*    (queue/model.py);                                                    *)
(*  - crashes of the runner's loop, of a server process, of the server.    *)
(*                                                                         *)
(* A step is one committed transaction, or one step of the runner's thread *)
(* in memory.  Which of the jobs in a queue is popped first is left open   *)
(* here: ConnectorChannels has the order.                                  *)
(***************************************************************************)
EXTENDS Channels

CONSTANTS
  ChannelOf,    \* the channel of each job
  MaxRetries,   \* max_retries of every job, 0 for no limit
  Outcome,      \* what the jobs' functions may do
  Vacuuming,    \* is the autovacuum cron active?
  Req,          \* requests to the server: at most that many at a time
  NoJob

ASSUME RunnerAssumption ==
  /\ ChannelOf \in [Job -> Channel]
  /\ MaxRetries \in Nat
  /\ Outcome \subseteq {"return", "conflict", "retryable", "nothing to do", "error"}
  /\ Vacuuming \in BOOLEAN
  /\ NoJob \notin Job

VARIABLES
  row,          \* the table queue_job
  later,        \* the jobs whose eta is still to come
  runner,       \* what the runner's thread is at
  tree,         \* the channels in its memory
  changed,      \* the jobs whose eta differs from the one in its memory
  notified,     \* the notifications on its connection
  dispatching,  \* the job it is about to send, or NoJob
  req,          \* the requests
  stale         \* history: jobs whose row a crash left behind

vars == <<row, later, runner, tree, changed, notified, dispatching, req, stale>>

runnerVars == <<runner, tree, changed, dispatching>>

JobState == {"none", "pending", "enqueued", "started", "failed", "done"}

(***************************************************************************)
(* The current try counts up to MaxRetries: perform only compares it with  *)
(* max_retries, and larger values compare alike; without limit it is never *)
(* compared.                                                               *)
(***************************************************************************)
Retry == 0 .. MaxRetries

NextTry(n) == IF n = MaxRetries THEN n ELSE n + 1

\* ignore_retry takes the try back.
UncountedTry(n) == IF n = 0 THEN n ELSE n - 1

\* date_done: never set, set, or set longer ago than _removal_interval; only
\* autovacuum reads it.
DoneAt == {"never", "recent", "old"}

DoneNow == IF Vacuuming THEN "recent" ELSE "never"

Row == [state : JobState, retry : Retry, active : BOOLEAN, doneAt : DoneAt]

NoRow == [state |-> "none", retry |-> 0, active |-> TRUE, doneAt |-> "never"]

(***************************************************************************)
(* A request: what the server has done with it (srv), whether the thread   *)
(* that sent it still waits, the Job object loaded for it (copy), and      *)
(* whether nobody else wrote the row since the request loaded it or began  *)
(* to perform it (fresh).  PostgreSQL's REPEATABLE READ makes a store fail *)
(* when another transaction wrote the row after the storing one began.     *)
(***************************************************************************)
Copy == [retry : Retry, active : BOOLEAN, doneAt : DoneAt]

Blank == [retry |-> 0, active |-> TRUE, doneAt |-> "never"]

Request == [job    : Job \cup {NoJob},
            srv    : {"idle", "sent", "loaded", "started", "running", "ok", "error"},
            client : {"waiting", "gone"},
            copy   : Copy,
            fresh  : BOOLEAN]

Idle == [job |-> NoJob, srv |-> "idle", client |-> "gone", copy |-> Blank,
         fresh |-> FALSE]

TypeOK ==
  /\ row \in [Job -> Row]
  /\ later \subseteq Job
  /\ runner \in {"down", "listening", "notify", "run"}
  /\ tree \in Trees
  /\ changed \subseteq Job
  /\ notified \subseteq Job
  /\ dispatching \in Job \cup {NoJob}
  /\ req \in [Req -> Request]
  /\ stale \subseteq Job

\* The server starts with an empty table; Delay fills it.
Init ==
  /\ row = [j \in Job |-> NoRow]
  /\ later = {}
  /\ runner = "down"
  /\ tree = EmptyTree
  /\ changed = {}
  /\ notified = {}
  /\ dispatching = NoJob
  /\ req = [r \in Req |-> Idle]
  /\ stale = {}

-----------------------------------------------------------------------------
(* The table and its trigger. *)

\* The trigger's notifications reach the runner when it listens.
Announced(J) == IF runner = "down" THEN notified ELSE notified \cup J

\* The requests, after others than they wrote the rows of J.
Outdated(q, J) ==
  [r \in Req |-> IF q[r].job \in J THEN [q[r] EXCEPT !.fresh = FALSE] ELSE q[r]]

\* One transaction that writes the row of j and leaves the requests as q.
Write(j, new, q) ==
  /\ row' = [row EXCEPT ![j] = new]
  /\ notified' = Announced({j})
  /\ req' = Outdated(q, {j})
  /\ stale' = stale \ {j}

\* store: the fields of the Job object over the row, or in a new row when
\* there is none; active is only ever set to False.
Stored(j, c, state) ==
  [state |-> state, retry |-> c.retry, active |-> c.active /\ row[j].active,
   doneAt |-> c.doneAt]

\* load: the Job object of a row.
Loaded(j) == [retry  |-> row[j].retry,
              active |-> row[j].active,
              doneAt |-> row[j].doneAt]

-----------------------------------------------------------------------------
(* The runner's thread. *)

\* Database._initialize: the trigger, then LISTEN.
Listen ==
  /\ runner = "down"
  /\ runner' = "listening"
  /\ UNCHANGED <<row, later, tree, changed, notified, dispatching, req, stale>>

\* As a bug would have it: only the jobs that were sent are read.
SentInChannels ==
  LET sent == {j \in Job : row[j].state \in {"enqueued", "started"}}
  IN  [EmptyTree EXCEPT !.running =
         [c \in Channel |-> {j \in sent : c \in Path[ChannelOf[j]]}]]

\* initialize_databases: every job that is not done goes into the channels,
\* which are empty.
InChannels ==
  LET are(states) == {j \in Job : row[j].state \in states}
  IN  [queue   |-> [c \in Channel |->
                      {j \in are({"pending"}) : c = ChannelOf[j]}],
       running |-> [c \in Channel |->
                      {j \in are({"enqueued", "started"}) : c \in Path[ChannelOf[j]]}],
       failed  |-> [c \in Channel |->
                      {j \in are({"failed"}) : c = ChannelOf[j]}]]

LoadJobs ==
  /\ runner = "listening"
  /\ runner' = "notify"
  /\ tree' = InChannels
  /\ changed' = {}
  /\ UNCHANGED <<row, later, notified, dispatching, req, stale>>

\* process_notifications: whatever the notification was sent for, the row is
\* read now.
ProcessNotification(j) ==
  LET c == ChannelOf[j]
      t == IF j \in changed THEN Remove(tree, j, c) ELSE tree
  IN  /\ runner = "notify"
      /\ j \in notified
      /\ notified' = notified \ {j}
      /\ changed' = changed \ {j}
      /\ tree' = IF row[j].state = "none" THEN Remove(tree, j, c)
                 ELSE Notified(t, j, c, row[j].state)
      /\ UNCHANGED <<row, later, runner, dispatching, req, stale>>

\* As a bug would have it: what is left of the notifications is dropped.
StartRunJobsAnew ==
  /\ runner = "notify"
  /\ runner' = "run"
  /\ notified' = {}
  /\ UNCHANGED <<row, later, tree, changed, dispatching, req, stale>>

\* Notifications not received yet are left for the next turn.
StartRunJobs ==
  /\ runner = "notify"
  /\ runner' = "run"
  /\ UNCHANGED <<row, later, tree, changed, notified, dispatching, req, stale>>

Poppable(c) == tree.queue[c] \ later

Exhausted(c) == ~ MayPull(tree, c) \/ Poppable(c) = {}

\* get_jobs_to_run: channels below first, then c; what the root pops, run_jobs
\* has to send before it asks for more.
Pull(c, j) ==
  /\ runner = "run"
  /\ dispatching = NoJob
  /\ \A d \in Channel \ {c} : c \in Path[d] => Exhausted(d)
  /\ MayPull(tree, c)
  /\ j \in Poppable(c)
  /\ tree' = Pulled(tree, j, c)
  /\ dispatching' = IF c = Root THEN j ELSE NoJob
  /\ UNCHANGED <<row, later, runner, changed, notified, req, stale>>

\* run_jobs: set_job_enqueued, an UPDATE of the state where only the uuid is
\* compared, then _async_http_get.
SetJobEnqueued(j) ==
  IF row[j].state = "none" THEN row[j] ELSE [row[j] EXCEPT !.state = "enqueued"]

RunJob(r) ==
  LET j == dispatching
      q == [req EXCEPT ![r] = [Idle EXCEPT !.job = j, !.srv = "sent",
                                           !.client = "waiting"]]
  IN  /\ runner = "run"
      /\ j # NoJob
      /\ req[r] = Idle
      /\ IF row[j].state = "none"
           THEN req' = q /\ UNCHANGED <<row, notified, stale>>
           ELSE Write(j, SetJobEnqueued(j), q)
      /\ dispatching' = NoJob
      /\ UNCHANGED <<later, runner, tree, changed>>

EndRunJobs ==
  /\ runner = "run"
  /\ dispatching = NoJob
  /\ \A c \in Channel : Exhausted(c)
  /\ runner' = "notify"
  /\ UNCHANGED <<row, later, tree, changed, notified, dispatching, req, stale>>

\* An exception in the loop: the databases are closed, their jobs removed.
LoseRunner ==
  /\ runner' = "down"
  /\ tree' = EmptyTree
  /\ changed' = {}
  /\ notified' = {}
  /\ dispatching' = NoJob

RunnerFails ==
  /\ runner # "down"
  /\ LoseRunner
  /\ UNCHANGED <<row, later, req, stale>>

-----------------------------------------------------------------------------
(* The server: /connector/runjob. *)

\* The server is through with a request.
Answered(q, answer) ==
  IF q.client = "gone" THEN Idle
  ELSE [q EXCEPT !.srv = answer, !.copy = Blank, !.fresh = FALSE]

Become(r, q) == [req EXCEPT ![r] = q]

\* A transaction of request r that stores its Job object c in state s.
Store(r, c, s, q) == Write(req[r].job, Stored(req[r].job, c, s), Become(r, q))

\* _load_job in a first transaction, then the check of the loaded state.
LoadJob(r) ==
  /\ req[r].srv = "sent"
  /\ req' = Become(r, IF row[req[r].job].state = "enqueued"
                        THEN [req[r] EXCEPT !.srv = "loaded", !.fresh = TRUE,
                                            !.copy = Loaded(req[r].job)]
                        ELSE Answered(req[r], "ok"))
  /\ UNCHANGED <<row, later, runnerVars, notified, stale>>

\* set_started and store, whatever the row has become since.
SetStarted(r) ==
  /\ req[r].srv = "loaded"
  /\ Store(r, req[r].copy, "started", [req[r] EXCEPT !.srv = "started"])
  /\ UNCHANGED <<later, runnerVars>>

\* perform: its transaction begins, the try is counted.
Perform(r) ==
  /\ req[r].srv = "started"
  /\ req[r].copy.active
  /\ req' = Become(r, [req[r] EXCEPT !.srv = "running", !.fresh = TRUE,
                                     !.copy.retry = NextTry(@)])
  /\ UNCHANGED <<row, later, runnerVars, notified, stale>>

\* As a bug would have it: the failure is answered and not stored.
AnswerFailure(r) ==
  /\ req' = Become(r, Answered(req[r], "error"))
  /\ UNCHANGED <<row, notified, stale>>

\* Any other exception: set_failed, and an error is answered.
SetFailedJob(r) == Store(r, req[r].copy, "failed", Answered(req[r], "error"))

\* perform asserts that the job is not canceled.
RefuseCanceled(r) ==
  /\ req[r].srv = "started"
  /\ ~ req[r].copy.active
  /\ SetFailedJob(r)
  /\ UNCHANGED <<later, runnerVars>>

\* The job's function returns; set_done commits with what it did.
Succeed(r) ==
  /\ req[r].srv = "running"
  /\ "return" \in Outcome
  /\ req[r].fresh
  /\ Store(r, [req[r].copy EXCEPT !.doneAt = DoneNow], "done",
           Answered(req[r], "ok"))
  /\ UNCHANGED <<later, runnerVars>>

\* retry_postpone: pending again, at a later eta.
RetryPostpone(r, c) ==
  LET j == req[r].job
  IN  /\ Store(r, c, "pending", Answered(req[r], "ok"))
      /\ later' = later \cup {j}
      /\ changed' = changed \cup {j}
      /\ UNCHANGED <<runner, tree, dispatching>>

\* A serialization failure: of the function, or of the store of set_started or
\* set_done because the row was written meanwhile.
Conflict(r) ==
  \/ /\ req[r].srv = "running" /\ "conflict" \in Outcome
     /\ RetryPostpone(r, req[r].copy)
  \/ /\ req[r].srv = "running" /\ "return" \in Outcome /\ ~ req[r].fresh
     /\ RetryPostpone(r, [req[r].copy EXCEPT !.doneAt = DoneNow])
  \/ /\ req[r].srv = "loaded" /\ ~ req[r].fresh
     /\ RetryPostpone(r, req[r].copy)

\* RetryableJobError: failed once max_retries tries are counted.  With
\* ignore_retry the try does not count.
RetryableError(r) ==
  /\ req[r].srv = "running"
  /\ "retryable" \in Outcome
  /\ \/ RetryPostpone(r, [req[r].copy EXCEPT !.retry = UncountedTry(@)])
     \/ /\ MaxRetries = 0 \/ req[r].copy.retry < MaxRetries
        /\ RetryPostpone(r, req[r].copy)
     \/ /\ MaxRetries # 0 /\ req[r].copy.retry >= MaxRetries
        /\ SetFailedJob(r)
        /\ UNCHANGED <<later, runnerVars>>

\* NothingToDoJob: cancel.
NothingToDo(r) ==
  /\ req[r].srv = "running"
  /\ "nothing to do" \in Outcome
  /\ Store(r, [req[r].copy EXCEPT !.active = FALSE, !.doneAt = DoneNow],
           "done", Answered(req[r], "ok"))
  /\ UNCHANGED <<later, runnerVars>>

JobError(r) ==
  /\ req[r].srv = "running"
  /\ "error" \in Outcome
  /\ SetFailedJob(r)
  /\ UNCHANGED <<later, runnerVars>>

\* The store of a handler of runjob fails in turn, as the row was written
\* meanwhile.  After an OperationalError, the outer handler sets the job to
\* failed; after any other exception nothing is left but to answer an error.
HandlerFails(r) ==
  /\ req[r].srv = "running"
  /\ ~ req[r].fresh
  /\ \/ /\ "conflict" \in Outcome
        /\ SetFailedJob(r)
        /\ UNCHANGED <<later, runnerVars>>
     \/ /\ "return" \in Outcome
        /\ Store(r, [req[r].copy EXCEPT !.doneAt = DoneNow], "failed",
                 Answered(req[r], "error"))
        /\ UNCHANGED <<later, runnerVars>>
     \/ /\ {"retryable", "nothing to do", "error"} \cap Outcome # {}
        /\ req' = Become(r, Answered(req[r], "error"))
        /\ UNCHANGED <<row, later, runnerVars, notified, stale>>

-----------------------------------------------------------------------------
(* The threads that sent the requests. *)

Gone(q) == IF q.srv \in {"ok", "error"} THEN Idle ELSE [q EXCEPT !.client = "gone"]

\* As a bug would have it: any answer will do, without raise_for_status.
GetAnyAnswer(r) ==
  /\ req[r].client = "waiting"
  /\ req[r].srv \in {"ok", "error"}
  /\ req' = Become(r, Gone(req[r]))
  /\ UNCHANGED <<row, later, runnerVars, notified, stale>>

GetAnswer(r) ==
  /\ req[r].client = "waiting"
  /\ req[r].srv = "ok"
  /\ req' = Become(r, Gone(req[r]))
  /\ UNCHANGED <<row, later, runnerVars, notified, stale>>

\* A timeout, however far the server is, or an error: set_job_pending, for a
\* row that is enqueued.
SetJobPending(j) ==
  IF row[j].state = "enqueued" THEN [row[j] EXCEPT !.state = "pending"]
  ELSE row[j]

GiveUp(r) ==
  LET j == req[r].job
  IN  /\ req[r].client = "waiting"
      /\ IF SetJobPending(j) # row[j]
           THEN Write(j, SetJobPending(j), Become(r, Gone(req[r])))
           ELSE /\ req' = Become(r, Gone(req[r]))
                /\ UNCHANGED <<row, notified, stale>>
      /\ UNCHANGED <<later, runnerVars>>

-----------------------------------------------------------------------------
(* The users, the crons and the clock. *)

\* delay: a new job, with a uuid nothing refers to.
Delay(j) ==
  /\ row[j] = NoRow
  /\ j \notin notified /\ j # dispatching
  /\ \A r \in Req : req[r].job # j
  /\ \A c \in Channel : j \notin tree.queue[c] \cup tree.running[c] \cup tree.failed[c]
  /\ Write(j, [NoRow EXCEPT !.state = "pending"], req)
  /\ later' = later \ {j}
  /\ UNCHANGED runnerVars

\* button_done, shown on pending, enqueued and failed jobs.
ButtonDone(j) ==
  /\ row[j].state \in {"pending", "enqueued", "failed"}
  /\ Write(j, Stored(j, [Loaded(j) EXCEPT !.doneAt = DoneNow], "done"), req)
  /\ UNCHANGED <<later, runnerVars>>

\* requeue, from the job or, with the wizard, from a selection in any state.
Requeue(j) ==
  /\ row[j].state # "none"
  /\ Write(j, Stored(j, [Loaded(j) EXCEPT !.retry = 0], "pending"), req)
  /\ UNCHANGED <<later, runnerVars>>

\* autovacuum: every row with an old date_done.
Vacuumed == {j \in Job : row[j].doneAt = "old"}

Autovacuum ==
  /\ Vacuumed # {}
  /\ row' = [j \in Job |-> IF j \in Vacuumed THEN NoRow ELSE row[j]]
  /\ notified' = Announced({j \in Vacuumed : row[j].state # "done"})
  /\ req' = Outdated(req, Vacuumed)
  /\ stale' = stale \ Vacuumed
  /\ UNCHANGED <<later, runnerVars>>

\* Thirty days are longer than any request.
MonthPasses(j) ==
  /\ row[j].doneAt = "recent"
  /\ \A r \in Req : req[r].job # j
  /\ row' = [row EXCEPT ![j].doneAt = "old"]
  /\ UNCHANGED <<later, runnerVars, notified, req, stale>>

EtaPasses(j) ==
  /\ j \in later
  /\ later' = later \ {j}
  /\ UNCHANGED <<row, runnerVars, notified, req, stale>>

-----------------------------------------------------------------------------
(* Crashes. *)

LeftBehind(J, states) == stale \cup {j \in J : row[j].state \in states}

\* A request is refused, or the server process that works on it is killed.
KillWorker(r) ==
  /\ req[r].srv \in {"sent", "loaded", "started", "running"}
  /\ req' = Become(r, Answered(req[r], "error"))
  /\ stale' = IF req[r].srv \in {"sent", "loaded"} THEN stale
              ELSE LeftBehind({req[r].job}, {"started"})
  /\ UNCHANGED <<row, later, runnerVars, notified>>

\* The whole server, with the runner's thread in its main process.
ServerCrash ==
  /\ LoseRunner
  /\ req' = [r \in Req |-> Idle]
  /\ stale' = LeftBehind(Job, {"enqueued", "started"})
  /\ UNCHANGED <<row, later>>

-----------------------------------------------------------------------------

RunnerStep ==
  \/ Listen
  \/ LoadJobs
  \/ \E j \in Job : ProcessNotification(j)
  \/ StartRunJobs
  \/ \E c \in Channel, j \in Job : Pull(c, j)
  \/ \E r \in Req : RunJob(r)
  \/ EndRunJobs

ServerStep(r) ==
  \/ LoadJob(r)
  \/ SetStarted(r)
  \/ Perform(r)
  \/ RefuseCanceled(r)
  \/ Succeed(r)
  \/ Conflict(r)
  \/ RetryableError(r)
  \/ NothingToDo(r)
  \/ JobError(r)
  \/ HandlerFails(r)

ClientStep(r) == GetAnswer(r) \/ GiveUp(r)

UserStep ==
  \/ \E j \in Job : Delay(j) \/ ButtonDone(j) \/ Requeue(j)
  \/ Autovacuum

TimeStep == \E j \in Job : MonthPasses(j) \/ EtaPasses(j)

Crash ==
  \/ RunnerFails
  \/ \E r \in Req : KillWorker(r)
  \/ ServerCrash

Next ==
  \/ RunnerStep
  \/ \E r \in Req : ServerStep(r) \/ ClientStep(r)
  \/ UserStep
  \/ TimeStep
  \/ Crash

Spec == Init /\ [][Next]_vars

-----------------------------------------------------------------------------
(* Properties. *)

\* The sets of the several channels agree on where each job is (see Channels).
FlowInv == \A j \in Job : FlowOf(tree, j, ChannelOf[j])

\* What the channels hold of a job whose row is in that state.  A job that was
\* pulled out of its channel's queue and is then found running may still wait
\* in a queue downstream: set_running leaves it there.
Reflects(j, state) ==
  CASE state = "pending"                 -> j \in Waiting(tree)
    [] state \in {"enqueued", "started"} -> j \in tree.running[ChannelOf[j]]
    [] state = "failed"                  -> j \in tree.failed[ChannelOf[j]]
    [] state \in {"done", "none"}        ->
         \A c \in Channel : ~ Within(tree, j, c) /\ j \notin tree.failed[c]

\* The runner never works on an outdated view for good: whenever its channels
\* disagree with the row of a job, a notification of that job is on its way,
\* or it is about to write that row.  Connection, trigger, initial load and
\* reconnection leave no gap in which a change is missed.
NoLostNotification ==
  \A j \in Job :
    runner \in {"notify", "run"} /\ j \notin notified /\ j # dispatching
      => Reflects(j, row[j].state)

\* No job stays enqueued with nobody behind it: unless a crash left the row
\* behind, some thread still waits for the answer to a request that the server
\* has not dismissed, and will set the job to pending if there is none.
NoOrphanEnqueued ==
  \A j \in Job :
    row[j].state = "enqueued" /\ j \notin stale =>
      \E r \in Req : /\ req[r].job = j
                     /\ req[r].client = "waiting"
                     /\ req[r].srv # "ok"

\* No job stays started with nobody executing it, unless a crash left it so:
\* every way out of runjob stores another state, also when several requests
\* execute the job at once and overwrite each other's states.
StartedIsExecuted ==
  \A j \in Job :
    row[j].state = "started" /\ j \notin stale =>
      \E r \in Req : req[r].job = j /\ req[r].srv \in {"started", "running"}

-----------------------------------------------------------------------------
(* What a comment, an assertion or a doc of the code says, and the code does *)
(* not do: TLC shows how.                                                    *)

\* queue/job.py:320: "The start state is pending and the final state is done."
\* Only a user's requeue could then take a job out of done.
DoneIsFinal ==
  [][\A j \in Job : row[j].state = "done" /\ ~ Requeue(j) =>
                      row'[j].state \in {"done", "none"}]_vars

\* queue/model.py:204, autovacuum: "Delete all jobs (active or not) done since
\* more than ``_removal_interval`` days."
AutovacuumOnlyDone ==
  [][\A j \in Job : row'[j].state = "none" =>
                      row[j].state \in {"done", "none"}]_vars

\* queue/job.py:507, perform: assert not self.canceled.
CanceledNeverPerformed ==
  \A r \in Req : req[r].srv = "started" => req[r].copy.active

\* jobrunner/channels.py:412, set_running: "This also marks the job as running
\* in parent channels."
MarkedRunningInParents ==
  [][\A j \in Job :
       ProcessNotification(j) /\ row[j].state \in {"enqueued", "started"} =>
         \A c \in Path[ChannelOf[j]] : j \in tree'.running[c]]_vars

-----------------------------------------------------------------------------
(* Fairness and liveness. *)

(***************************************************************************)
(* The runner's thread and the server's processes go on, and every thread  *)
(* that sent a request gets an answer or a timeout.  Users, crashes and    *)
(* the outcome of a job owe nothing.  The runner's phases end: it processes *)
(* finitely many notifications and jobs in each.  A notification not       *)
(* received before one turn of its loop is polled before the next and then *)
(* processed, hence strong fairness: its phase comes again and again.      *)
(***************************************************************************)
Fairness ==
  /\ WF_vars(Listen \/ LoadJobs)
  /\ \A j \in Job : SF_vars(ProcessNotification(j))
  /\ WF_vars(StartRunJobs)
  /\ WF_vars(EndRunJobs \/ (\E c \in Channel, j \in Job : Pull(c, j))
                        \/ (\E r \in Req : RunJob(r)))
  /\ \A j \in Job : WF_vars(EtaPasses(j))
  /\ \A r \in Req : WF_vars(ServerStep(r)) /\ WF_vars(ClientStep(r))

FairSpec == Spec /\ Fairness

\* A job that was sent to the server is started, or pending or closed again.
EnqueuedEnds ==
  \A j \in Job : row[j].state = "enqueued" ~> row[j].state # "enqueued" \/ j \in stale

\* A job that was started ends, one way or another.
StartedEnds ==
  \A j \in Job : row[j].state = "started" ~> row[j].state # "started" \/ j \in stale

\* When the channels have room for every job, a pending job is sent to the
\* server sooner or later, however often it was postponed, sent in vain or
\* requeued before, if only the runner and the server stop crashing.
PendingIsSent ==
  <>[][~ RunnerFails /\ ~ ServerCrash]_vars =>
    \A j \in Job : row[j].state = "pending" ~> row[j].state # "pending"
=============================================================================
