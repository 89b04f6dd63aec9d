----------------------------- MODULE WorkerQueue -----------------------------
(***************************************************************************)
(* The legacy job workers of the connector, used when no channel is        *)
(* configured (connector/queue/worker.py, model.py, queue.py):             *)
(*                                                                         *)
(*  - in every server process, a worker: a thread with a queue in memory,  *)
(*    which takes jobs from it one at a time and performs them;            *)
(*  - its watcher, which writes in queue_worker that the worker is alive   *)
(*    and deletes the rows of workers not heard of for too long;           *)
(*  - its cron, which assigns the free jobs to the worker and puts the     *)
(*    jobs assigned to it in its queue;                                    *)
(*  - the users, who requeue jobs or declare them done;                    *)
(*  - crashes of a process.  A restarted process has a worker with a new   *)
(*    uuid: a worker here is one such incarnation.                         *)
(*                                                                         *)
(* A step is one committed transaction or one step of a thread in memory.  *)
(* The only transaction long enough to conflict with others is the one     *)
(* that performs a job.  A queue gives its jobs in any order.              *)
(***************************************************************************)
EXTENDS Naturals

CONSTANTS
  Job, Worker,
  NoJob, NoWorker,
  LateBound,   \* living workers are late to say so at most that many times
  TouchBound,  \* users touch jobs at most that many times
  Outcome,     \* what the jobs' functions may do
  QueueBound   \* a queue holds a job at most that many times

ASSUME WorkerAssumption ==
  /\ NoJob \notin Job
  /\ NoWorker \notin Worker
  /\ LateBound \in Nat
  /\ TouchBound \in Nat
  /\ Outcome \subseteq {"return", "retryable", "nothing to do", "error", "connection lost"}
  /\ QueueBound \in Nat \ {0}

VARIABLES
  row,         \* the table queue_job
  life,        \* what became of each worker
  heard,       \* the table queue_worker: is there a row, is it up to date?
  late,        \* how often a worker was late
  touched,     \* how often a user touched a job
  queue,       \* how often a job is in the queue of a worker
  listed,      \* the jobs the cron of a worker still has to enqueue
  putting,     \* the job it has stored as enqueued, not yet in the queue
  thread,      \* what the thread of a worker is at
  disturbed,   \* history: jobs a user touched, or whose living worker was purged
  stuck,       \* history: jobs left as started by a lost connection
  effects      \* history: how often the effects of a job were committed

vars == <<row, life, heard, late, touched, queue, listed, putting, thread, disturbed, stuck, effects>>

JobState == {"none", "pending", "enqueued", "started", "failed", "done"}

Row == [state : JobState, worker : Worker \cup {NoWorker}, active : BOOLEAN]

(***************************************************************************)
(* What a thread keeps of its job: active (not canceled) was read when the *)
(* job was loaded; fresh tells that nobody wrote the job's row since the           *)
(* transaction that performs it began.                                     *)
(***************************************************************************)
Thread == [at : {"idle", "resetting", "loaded", "started", "performing"},
           job : Job \cup {NoJob}, active : BOOLEAN, fresh : BOOLEAN]

Idle == [at |-> "idle", job |-> NoJob, active |-> TRUE, fresh |-> FALSE]

TypeOK ==
  /\ row \in [Job -> Row]
  /\ life \in [Worker -> {"unborn", "up", "dead"}]
  /\ heard \in [Worker -> {"no", "lately", "long ago"}]
  /\ late \in 0 .. LateBound
  /\ touched \in 0 .. TouchBound
  /\ queue \in [Worker -> [Job -> 0 .. QueueBound]]
  /\ listed \in [Worker -> SUBSET Job]
  /\ putting \in [Worker -> Job \cup {NoJob}]
  /\ thread \in [Worker -> Thread]
  /\ disturbed \subseteq Job
  /\ stuck \subseteq Job
  /\ effects \in [Job -> 0 .. 2]

Init ==
  /\ row = [j \in Job |-> [state |-> "none", worker |-> NoWorker, active |-> TRUE]]
  /\ life = [w \in Worker |-> "unborn"]
  /\ heard = [w \in Worker |-> "no"]
  /\ late = 0
  /\ touched = 0
  /\ queue = [w \in Worker |-> [j \in Job |-> 0]]
  /\ listed = [w \in Worker |-> {}]
  /\ putting = [w \in Worker |-> NoJob]
  /\ thread = [w \in Worker |-> Idle]
  /\ disturbed = {}
  /\ stuck = {}
  /\ effects = [j \in Job |-> 0]

-----------------------------------------------------------------------------
(* The table queue_job *)

\* Writing rows makes the snapshots of those who perform these jobs stale.
Written(S, t) ==
  [w \in Worker |-> IF t[w].job \in S THEN [t[w] EXCEPT !.fresh = FALSE] ELSE t[w]]

\* _worker_id: the worker's row, if it still has one.
WorkerId(w) == IF heard[w] = "no" THEN NoWorker ELSE w

\* store, of a job whose worker_uuid is that of w.
Stored(j, s, w) == [row EXCEPT ![j].state = s, ![j].worker = w]

-----------------------------------------------------------------------------
(* Users *)

\* OpenERPJobStorage.enqueue
Delay(j) ==
  /\ row[j].state = "none"
  /\ row' = Stored(j, "pending", NoWorker)
  /\ UNCHANGED <<late, touched, life, heard, queue, listed, putting, thread, disturbed, stuck, effects>>

\* button_done and requeue
ChangeJobState(j, s) ==
  /\ touched < TouchBound
  /\ row[j].state # "none"
  /\ touched' = touched + 1
  /\ row' = Stored(j, s, NoWorker)
  /\ thread' = Written({j}, thread)
  /\ disturbed' = disturbed \cup {j}
  /\ UNCHANGED <<late, life, heard, queue, listed, putting, stuck, effects>>

Users == \E j \in Job : Delay(j) \/ ChangeJobState(j, "pending") \/ ChangeJobState(j, "done")

-----------------------------------------------------------------------------
(* The cron of a process: assign_then_enqueue *)

Up(w) == life[w] = "up"

\* As a bug would have it: only jobs waiting as pending are assigned.
OnlyPending == {j \in Job : row[j].worker = NoWorker /\ row[j].state = "pending" /\ row[j].active}

\* As a bug would have it: failed jobs are assigned as well.
FailedAsWell == {j \in Job : row[j].worker = NoWorker /\ row[j].state \notin {"none", "done"} /\ row[j].active}

\* As a bug would have it: the jobs of other workers are assigned as well.
AssignedElsewhere == {j \in Job : row[j].state \notin {"none", "failed", "done"} /\ row[j].active}

\* _assign_jobs selects them with FOR UPDATE NOWAIT.
Assignable ==
  {j \in Job : /\ row[j].worker = NoWorker
               /\ row[j].state \notin {"none", "failed", "done"}
               /\ row[j].active}

\* _assign_jobs takes up to max_jobs of them; _worker finds the worker's row.
AssignJobs(w) ==
  /\ Up(w)
  /\ listed[w] = {} /\ putting[w] = NoJob
  /\ heard[w] # "no"
  /\ \E S \in SUBSET Assignable \ {{}} :
       /\ row' = [j \in Job |-> IF j \in S THEN [row[j] EXCEPT !.state = "pending", !.worker = w]
                                ELSE row[j]]
       /\ thread' = Written(S, thread)
  /\ UNCHANGED <<late, touched, life, heard, queue, listed, putting, disturbed, stuck, effects>>

\* _enqueue_jobs, its search
ListAssigned(w) ==
  /\ Up(w)
  /\ listed[w] = {} /\ putting[w] = NoJob
  /\ heard[w] # "no"
  /\ listed' = [listed EXCEPT ![w] = {j \in Job : row[j].worker = w /\ row[j].state = "pending"
                                                 /\ row[j].active}]
  /\ listed'[w] # {}
  /\ UNCHANGED <<late, touched, row, life, heard, queue, putting, thread, disturbed, stuck, effects>>

\* As a bug would have it: the job is in the queue before it is stored.
PutFirst(w, j) ==
  /\ Up(w)
  /\ j \in listed[w]
  /\ IF putting[w] = j
     THEN /\ row' = Stored(j, "enqueued", WorkerId(w))
          /\ thread' = Written({j}, thread)
          /\ listed' = [listed EXCEPT ![w] = @ \ {j}]
          /\ putting' = [putting EXCEPT ![w] = NoJob]
          /\ UNCHANGED queue
     ELSE /\ putting[w] = NoJob
          /\ queue[w][j] < QueueBound
          /\ queue' = [queue EXCEPT ![w][j] = @ + 1]
          /\ putting' = [putting EXCEPT ![w] = j]
          /\ UNCHANGED <<late, touched, row, thread, listed>>
  /\ UNCHANGED <<late, touched, life, heard, disturbed, stuck, effects>>

\* enqueue_job_uuid, its transaction: whatever the state it finds
EnqueueStore(w, j) ==
  /\ Up(w)
  /\ j \in listed[w] /\ putting[w] = NoJob
  /\ row' = Stored(j, "enqueued", WorkerId(w))
  /\ thread' = Written({j}, thread)
  /\ listed' = [listed EXCEPT ![w] = @ \ {j}]
  /\ putting' = [putting EXCEPT ![w] = j]
  /\ UNCHANGED <<late, touched, life, heard, queue, disturbed, stuck, effects>>

\* enqueue_job_uuid, after the commit
EnqueuePut(w) ==
  /\ Up(w)
  /\ putting[w] \in Job
  /\ putting[w] \notin listed[w]
  /\ queue[w][putting[w]] < QueueBound
  /\ queue' = [queue EXCEPT ![w][putting[w]] = @ + 1]
  /\ putting' = [putting EXCEPT ![w] = NoJob]
  /\ UNCHANGED <<late, touched, row, life, heard, listed, thread, disturbed, stuck, effects>>

Cron(w) == AssignJobs(w) \/ ListAssigned(w) \/ (\E j \in Job : EnqueueStore(w, j)) \/ EnqueuePut(w)

-----------------------------------------------------------------------------
(* The worker's thread: run_job *)

\* The thread w goes on to a, for the same job.
Goes(t, w, a) == [t EXCEPT ![w].at = a]

Rests(t, w) == [t EXCEPT ![w] = Idle]

\* The job read is to be performed by w.
IsMine(w, j) == row[j].state \notin {"done", "pending"} /\ row[j].worker = w

\* dequeue and _load_job: the job is skipped, linked to another worker, or ours.
\* (A job whose eta is to come goes back to the queue: nothing changes.)
Load(w, j) ==
  /\ Up(w)
  /\ thread[w].at = "idle"
  /\ queue[w][j] > 0
  /\ queue' = [queue EXCEPT ![w][j] = @ - 1]
  /\ thread' = [thread EXCEPT ![w] =
       CASE IsMine(w, j) ->
              [at |-> "loaded", job |-> j, active |-> row[j].active, fresh |-> FALSE]
         [] row[j].state \in {"done", "pending"} -> Idle
         [] OTHER -> [at |-> "resetting", job |-> j, active |-> row[j].active, fresh |-> FALSE]]
  /\ UNCHANGED <<late, touched, row, life, heard, listed, putting, disturbed, stuck, effects>>

\* run_job: "Reset to pending"
ResetToPending(w) ==
  /\ Up(w)
  /\ thread[w].at = "resetting"
  /\ row' = Stored(thread[w].job, "pending", NoWorker)
  /\ thread' = Rests(Written({thread[w].job}, thread), w)
  /\ UNCHANGED <<late, touched, life, heard, queue, listed, putting, disturbed, stuck, effects>>

\* run_job: set_started, in a transaction of its own
SetStarted(w) ==
  /\ Up(w)
  /\ thread[w].at = "loaded"
  /\ row' = Stored(thread[w].job, "started", WorkerId(w))
  /\ thread' = Goes(Written({thread[w].job}, thread), w, "started")
  /\ UNCHANGED <<late, touched, life, heard, queue, listed, putting, disturbed, stuck, effects>>

\* perform: "Canceled job" is an assertion
BeginPerform(w) ==
  /\ Up(w)
  /\ thread[w].at = "started"
  /\ thread[w].active
  /\ thread' = [thread EXCEPT ![w].at = "performing", ![w].fresh = TRUE]
  /\ UNCHANGED <<late, touched, row, life, heard, queue, listed, putting, disturbed, stuck, effects>>

\* The end of a job by a store of its own: the row may have changed meanwhile.
EndsAs(w, r) ==
  /\ row' = r
  /\ thread' = Rests(Written({thread[w].job}, thread), w)
  /\ UNCHANGED <<late, touched, life, heard, queue, listed, putting, disturbed, stuck, effects>>

Performing(w) == Up(w) /\ thread[w].at = "performing"

\* perform and set_done commit together.
Succeed(w) ==
  /\ Performing(w)
  /\ "return" \in Outcome
  /\ thread[w].fresh
  /\ row' = Stored(thread[w].job, "done", NoWorker)
  /\ thread' = Rests(Written({thread[w].job}, thread), w)
  /\ effects' = [effects EXCEPT ![thread[w].job] = IF @ < 2 THEN @ + 1 ELSE @]
  /\ UNCHANGED <<late, touched, life, heard, queue, listed, putting, disturbed, stuck>>

\* retry_postpone: asked for, or the end of perform conflicts with another write.
RetryPostpone(w) ==
  /\ Performing(w)
  /\ "retryable" \in Outcome \/ ~thread[w].fresh
  /\ queue[w][thread[w].job] < QueueBound
  /\ row' = Stored(thread[w].job, "enqueued", WorkerId(w))
  /\ queue' = [queue EXCEPT ![w][thread[w].job] = @ + 1]
  /\ thread' = Rests(Written({thread[w].job}, thread), w)
  /\ UNCHANGED <<late, touched, life, heard, listed, putting, disturbed, stuck, effects>>

\* run_job: NothingToDoJob
NothingToDo(w) ==
  /\ Performing(w)
  /\ "nothing to do" \in Outcome
  /\ EndsAs(w, [Stored(thread[w].job, "done", NoWorker) EXCEPT ![thread[w].job].active = FALSE])

\* run_job: any other exception, the assertion of perform included
Fail(w) ==
  /\ Up(w)
  /\ \/ thread[w].at = "performing" /\ "error" \in Outcome
     \/ thread[w].at = "started" /\ ~thread[w].active
  /\ EndsAs(w, Stored(thread[w].job, "failed", NoWorker))

\* run_job: another OperationalError is raised again; the thread's loop goes on.
ConnectionLost(w) ==
  /\ Performing(w)
  /\ "connection lost" \in Outcome
  /\ thread' = Rests(thread, w)
  /\ stuck' = stuck \cup {thread[w].job}
  /\ UNCHANGED <<late, touched, row, life, heard, queue, listed, putting, disturbed, effects>>

ThreadStep(w) ==
  \/ \E j \in Job : Load(w, j)
  \/ ResetToPending(w) \/ SetStarted(w) \/ BeginPerform(w)
  \/ Succeed(w) \/ RetryPostpone(w) \/ NothingToDo(w) \/ Fail(w) \/ ConnectionLost(w)

-----------------------------------------------------------------------------
(* The watchers, crashes and restarts *)

\* WorkerWatcher._new
Start(w) ==
  /\ life[w] = "unborn"
  /\ life' = [life EXCEPT ![w] = "up"]
  /\ UNCHANGED <<late, touched, row, heard, queue, listed, putting, thread, disturbed, stuck, effects>>

\* _notify_alive: creates the row, or dates it.
NotifyAlive(w) ==
  /\ Up(w)
  /\ heard[w] # "lately"
  /\ heard' = [heard EXCEPT ![w] = "lately"]
  /\ UNCHANGED <<late, touched, row, life, queue, listed, putting, thread, disturbed, stuck, effects>>

\* worker_timeout passes since the worker's date_alive.
Overdue(w) ==
  /\ heard[w] = "lately"
  /\ \/ life[w] = "dead" /\ UNCHANGED late
     \/ life[w] = "up" /\ late < LateBound /\ late' = late + 1
  /\ heard' = [heard EXCEPT ![w] = "long ago"]
  /\ UNCHANGED <<touched, row, life, queue, listed, putting, thread, disturbed, stuck, effects>>

Overdues == {w \in Worker : heard[w] = "long ago"}

\* The jobs of the workers in D: the foreign key is set to null.
JobsOf(D) == {j \in Job : row[j].worker \in D}

\* _purge_dead_workers, by the watcher of w (which has just said w is alive)
Purge(w) ==
  /\ Up(w)
  /\ Overdues # {}
  /\ w \notin Overdues
  /\ heard' = [v \in Worker |-> IF v \in Overdues THEN "no" ELSE heard[v]]
  /\ row' = [j \in Job |-> IF j \in JobsOf(Overdues) THEN [row[j] EXCEPT !.worker = NoWorker]
                           ELSE row[j]]
  /\ thread' = Written(JobsOf(Overdues), thread)
  /\ disturbed' = disturbed \cup JobsOf({v \in Overdues : Up(v)})
  /\ UNCHANGED <<late, touched, life, queue, listed, putting, stuck, effects>>

\* The process ends, with everything in its memory.
Crash(w) ==
  /\ Up(w)
  /\ life' = [life EXCEPT ![w] = "dead"]
  /\ queue' = [queue EXCEPT ![w] = [j \in Job |-> 0]]
  /\ listed' = [listed EXCEPT ![w] = {}]
  /\ putting' = [putting EXCEPT ![w] = NoJob]
  /\ thread' = Rests(thread, w)
  /\ UNCHANGED <<late, touched, row, heard, disturbed, stuck, effects>>

-----------------------------------------------------------------------------
Next ==
  \/ Users
  \/ \E w \in Worker :
       Cron(w) \/ ThreadStep(w) \/ Start(w) \/ NotifyAlive(w) \/ Overdue(w) \/ Purge(w) \/ Crash(w)

Spec == Init /\ [][Next]_vars

Ends(w) == Succeed(w) \/ NothingToDo(w) \/ Fail(w) \/ ConnectionLost(w)

(***************************************************************************)
(* A living process runs its cron, its watcher and its thread; time passes *)
(* for the dead.  A watcher purges each time it has said that its worker   *)
(* lives.  max_retries ends the retries of a job.                           *)
(***************************************************************************)
Fairness ==
  \A w \in Worker :
    /\ WF_vars(NotifyAlive(w)) /\ SF_vars(Purge(w))
    /\ WF_vars(Cron(w)) /\ WF_vars(ThreadStep(w)) /\ SF_vars(Ends(w))
    /\ WF_vars(life[w] = "dead" /\ Overdue(w))

LiveSpec == Spec /\ Fairness

-----------------------------------------------------------------------------
(* Properties *)

\* A job the database says is enqueued in, or started by, a living worker is
\* one that worker has: in its queue, about to be put there, or in its hands.
\* The database never runs ahead of the memory it describes (the order of
\* enqueue_job_uuid, the put back of retry_postpone).
Served ==
  \A j \in Job, w \in Worker :
    (row[j].worker = w /\ Up(w)) =>
      /\ row[j].state = "enqueued" =>
           queue[w][j] > 0 \/ putting[w] = j \/ thread[w].job = j
      /\ row[j].state = "started" => thread[w].job = j \/ j \in stuck

\* Unless a user touches a job, or its worker is declared dead while it
\* lives, its effects are committed at most once, whatever crashes, is
\* purged, assigned again, conflicts or is retried.
EffectsOnce == \A j \in Job : effects[j] = 2 => j \in disturbed

\* A job that ended stays as it ended, unless somebody requeued it or its
\* worker was declared dead while it lived.
EndIsFinal ==
  [][\A j \in Job : (row[j].state \in {"failed", "done"} /\ j \notin disturbed')
                      => row'[j].state = row[j].state]_vars

\* A job nobody touches ends: what a dead worker held is assigned again, as
\* long as a worker lives and no connection is lost.
EveryJobEnds ==
  \A j \in Job :
    (row[j].state # "none")
      ~> \/ row[j].state \in {"failed", "done"}
         \/ j \in disturbed \cup stuck
         \/ \A v \in Worker : ~Up(v)
=============================================================================
