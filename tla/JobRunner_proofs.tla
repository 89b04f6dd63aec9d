--------------------------- MODULE JobRunner_proofs ---------------------------
(***************************************************************************)
(* Theorems about the job runner, for every tree of channels, every set of *)
(* jobs and of requests.                                                   *)
(*                                                                         *)
(* Types and the place of the jobs in the channels come first; the         *)
(* invariants about the table, and about the runner's view of it, build on *)
(* them.                                                                   *)
(***************************************************************************)
EXTENDS JobRunner, Channels_proofs

-----------------------------------------------------------------------------
(* Types. *)

\* A request that is not idle is about a job.
AboutJob(q) == q # Idle => q.job \in Job /\ q.srv # "idle"

TableTyped ==
  /\ row \in [Job -> Row]
  /\ notified \subseteq Job
  /\ stale \subseteq Job
  /\ req \in [Req -> Request]
  /\ \A r \in Req : AboutJob(req[r])

RunnerTyped ==
  /\ later \subseteq Job
  /\ runner \in {"down", "listening", "notify", "run"}
  /\ tree \in Trees
  /\ changed \subseteq Job
  /\ dispatching \in Job \cup {NoJob}

Inv == TableTyped /\ RunnerTyped /\ FlowInv

LEMMA Constants ==
  MaxRetries \in Nat /\ NoJob \notin Job /\ ChannelOf \in [Job -> Channel]
BY RunnerAssumption, Zenon

LEMMA IdleType == Idle \in Request /\ AboutJob(Idle) /\ Blank \in Copy
<1>1. Blank \in Copy
  BY Constants DEF Blank, Copy, Retry, DoneAt
<1>2. Idle \in Request
  BY <1>1 DEF Idle, Request
<1> QED BY <1>1, <1>2 DEF AboutJob

LEMMA TryType ==
  ASSUME NEW n \in Retry
  PROVE  NextTry(n) \in Retry /\ UncountedTry(n) \in Retry
BY Constants DEF Retry, NextTry, UncountedTry

LEMMA DoneNowType == DoneNow \in DoneAt
BY DEF DoneNow, DoneAt

LEMMA NoRowType == NoRow \in Row
<1>1. 0 \in Retry
  BY Constants DEF Retry
<1> QED BY <1>1 DEF NoRow, Row, JobState, DoneAt

LEMMA LoadedType ==
  ASSUME row \in [Job -> Row], NEW j \in Job
  PROVE  Loaded(j) \in Copy
BY DEF Loaded, Copy, Row

LEMMA StoredType ==
  ASSUME row \in [Job -> Row], NEW j \in Job, NEW c \in Copy, NEW s \in JobState
  PROVE  Stored(j, c, s) \in Row
BY DEF Stored, Copy, Row

LEMMA AnsweredType ==
  ASSUME NEW q \in Request, AboutJob(q), q # Idle, NEW a \in {"ok", "error"}
  PROVE  Answered(q, a) \in Request /\ AboutJob(Answered(q, a))
<1>1. CASE q.client = "gone"
  BY <1>1, IdleType DEF Answered
<1>2. CASE q.client # "gone"
  BY <1>2, IdleType DEF Answered, AboutJob, Request
<1> QED BY <1>1, <1>2

LEMMA GoneType ==
  ASSUME NEW q \in Request, AboutJob(q), q # Idle
  PROVE  Gone(q) \in Request /\ AboutJob(Gone(q))
BY IdleType DEF Gone, AboutJob, Request

LEMMA OutdatedType ==
  ASSUME NEW q \in [Req -> Request], \A r \in Req : AboutJob(q[r]),
         NEW J \in SUBSET Job
  PROVE  /\ Outdated(q, J) \in [Req -> Request]
         /\ \A r \in Req : /\ AboutJob(Outdated(q, J)[r])
                           /\ Outdated(q, J)[r].job = q[r].job
                           /\ Outdated(q, J)[r].srv = q[r].srv
                           /\ Outdated(q, J)[r].client = q[r].client
<1> SUFFICES ASSUME NEW r \in Req
             PROVE  LET o == Outdated(q, J)[r]
                    IN  /\ o \in Request /\ AboutJob(o)
                        /\ o.job = q[r].job /\ o.srv = q[r].srv
                        /\ o.client = q[r].client
  BY DEF Outdated
<1>1. CASE q[r].job \in J
  <2>1. q[r] # Idle
    BY <1>1, Constants DEF Idle
  <2> QED BY <1>1, <2>1 DEF Outdated, AboutJob, Request
<1>2. CASE q[r].job \notin J
  BY <1>2 DEF Outdated
<1> QED BY <1>1, <1>2

LEMMA BecomeType ==
  ASSUME TableTyped, NEW r \in Req, NEW q \in Request, AboutJob(q)
  PROVE  /\ Become(r, q) \in [Req -> Request]
         /\ \A p \in Req : AboutJob(Become(r, q)[p])
BY DEF TableTyped, Become

LEMMA WriteTyped ==
  ASSUME TableTyped, NEW j \in Job, NEW new \in Row,
         NEW q \in [Req -> Request], \A r \in Req : AboutJob(q[r]),
         Write(j, new, q)
  PROVE  TableTyped'
<1>1. row' \in [Job -> Row] /\ notified' \subseteq Job /\ stale' \subseteq Job
  BY DEF TableTyped, Write, Announced
<1>2. req' \in [Req -> Request] /\ \A r \in Req : AboutJob(req'[r])
  BY OutdatedType DEF Write
<1> QED BY <1>1, <1>2 DEF TableTyped

\* A request the server works on stores its Job object and is answered.
LEMMA StoreTyped ==
  ASSUME TableTyped, NEW r \in Req, req[r] # Idle,
         NEW c \in Copy, NEW s \in JobState, NEW a \in {"ok", "error"},
         Store(r, c, s, Answered(req[r], a))
  PROVE  TableTyped'
<1>1. req[r].job \in Job /\ req[r] \in Request /\ AboutJob(req[r])
  BY DEF TableTyped, AboutJob
<1>2. Stored(req[r].job, c, s) \in Row
  BY <1>1, StoredType DEF TableTyped
<1>3. Answered(req[r], a) \in Request /\ AboutJob(Answered(req[r], a))
  BY <1>1, AnsweredType
<1> QED BY <1>1, <1>2, <1>3, BecomeType, WriteTyped DEF Store

LEMMA SetJobEnqueuedType ==
  ASSUME row \in [Job -> Row], NEW j \in Job, row[j].state # "none"
  PROVE  SetJobEnqueued(j) \in Row /\ SetJobEnqueued(j).state = "enqueued"
BY DEF SetJobEnqueued, Row, JobState

LEMMA CopyType ==
  ASSUME TableTyped, NEW r \in Req
  PROVE  /\ req[r].copy \in Copy
         /\ [req[r].copy EXCEPT !.doneAt = DoneNow] \in Copy
         /\ [req[r].copy EXCEPT !.active = FALSE, !.doneAt = DoneNow] \in Copy
         /\ [req[r].copy EXCEPT !.retry = UncountedTry(@)] \in Copy
         /\ [req[r].copy EXCEPT !.retry = NextTry(@)] \in Copy
<1>1. req[r].copy \in Copy
  BY DEF TableTyped, Request
<1>2. req[r].copy.retry \in Retry
  BY <1>1 DEF Copy
<1> QED BY <1>1, <1>2, TryType, DoneNowType DEF Copy

-----------------------------------------------------------------------------
(* What the actions of the server, of the users and of the sending threads *)
(* have in common.                                                         *)

Keeps == UNCHANGED <<runner, tree, dispatching>>

\* A step that ends the work of the server on a request: the Job object is
\* stored in a state that is not a running one, or nothing is stored because
\* another transaction wrote the row since the request began to perform the job.
Closes(r) ==
  \E c \in Copy, s \in {"done", "pending", "failed"}, a \in {"ok", "error"} :
    Store(r, c, s, Answered(req[r], a))

Drops(r) ==
  /\ req[r].srv = "running"
  /\ ~ req[r].fresh
  /\ req' = Become(r, Answered(req[r], "error"))
  /\ UNCHANGED <<row, notified, stale>>

Ends(r) ==
  /\ req[r].srv \in {"loaded", "started", "running"}
  /\ Closes(r) \/ Drops(r)
  /\ Keeps
  /\ later' \subseteq later \cup {req[r].job}
  /\ changed' \subseteq changed \cup {req[r].job}

LEMMA SetFailedJobCloses ==
  ASSUME TableTyped, NEW r \in Req, SetFailedJob(r)
  PROVE  Closes(r)
BY CopyType DEF SetFailedJob, Closes

LEMMA RetryPostponeEnds ==
  ASSUME TableTyped, NEW r \in Req, NEW c \in Copy, RetryPostpone(r, c),
         req[r].srv \in {"loaded", "started", "running"}
  PROVE  Ends(r)
<1>1. Closes(r)
  BY DEF RetryPostpone, Closes
<1> QED BY <1>1 DEF RetryPostpone, Ends, Keeps

LEMMA ServerShape ==
  ASSUME TableTyped, NEW r \in Req, ServerStep(r)
  PROVE  LoadJob(r) \/ SetStarted(r) \/ Perform(r) \/ Ends(r)
<1>1. CASE RefuseCanceled(r)
  BY <1>1, SetFailedJobCloses DEF RefuseCanceled, Ends, Keeps, runnerVars
<1>2. CASE Succeed(r)
  <2>1. Closes(r)
    BY <1>2, CopyType DEF Succeed, Closes
  <2> QED BY <1>2, <2>1 DEF Succeed, Ends, Keeps, runnerVars
<1>3. CASE Conflict(r)
  BY <1>3, CopyType, RetryPostponeEnds DEF Conflict
<1>4. CASE RetryableError(r)
  <2>1. req[r].srv = "running"
    BY <1>4 DEF RetryableError
  <2>2. CASE RetryPostpone(r, [req[r].copy EXCEPT !.retry = UncountedTry(@)])
    BY <2>1, <2>2, CopyType, RetryPostponeEnds
  <2>3. CASE RetryPostpone(r, req[r].copy)
    BY <2>1, <2>3, CopyType, RetryPostponeEnds
  <2>4. CASE SetFailedJob(r) /\ UNCHANGED <<later, runnerVars>>
    BY <2>1, <2>4, SetFailedJobCloses DEF Ends, Keeps, runnerVars
  <2> QED BY <1>4, <2>2, <2>3, <2>4 DEF RetryableError
<1>5. CASE NothingToDo(r)
  <2>1. Closes(r)
    BY <1>5, CopyType DEF NothingToDo, Closes
  <2> QED BY <1>5, <2>1 DEF NothingToDo, Ends, Keeps, runnerVars
<1>6. CASE JobError(r)
  BY <1>6, SetFailedJobCloses DEF JobError, Ends, Keeps, runnerVars
<1>7. CASE HandlerFails(r)
  <2>1. req[r].srv = "running" /\ ~ req[r].fresh /\ UNCHANGED <<later, runnerVars>>
    BY <1>7 DEF HandlerFails
  <2>2. CASE SetFailedJob(r)
    BY <2>1, <2>2, SetFailedJobCloses DEF Ends, Keeps, runnerVars
  <2>3. CASE Store(r, [req[r].copy EXCEPT !.doneAt = DoneNow], "failed",
                   Answered(req[r], "error"))
    <3>1. Closes(r)
      BY <2>3, CopyType DEF Closes
    <3> QED BY <2>1, <3>1 DEF Ends, Keeps, runnerVars
  <2>4. CASE /\ req' = Become(r, Answered(req[r], "error"))
             /\ UNCHANGED <<row, later, runnerVars, notified, stale>>
    BY <2>1, <2>4 DEF Ends, Drops, Keeps, runnerVars
  <2> QED BY <1>7, <2>2, <2>3, <2>4 DEF HandlerFails
<1> QED BY <1>1, <1>2, <1>3, <1>4, <1>5, <1>6, <1>7 DEF ServerStep

\* A user writes the row of a job, in a state that is not a running one.
UserWrites(j) ==
  /\ \E new \in Row : new.state \in {"pending", "done"} /\ Write(j, new, req)
  /\ Keeps
  /\ later' \subseteq later
  /\ UNCHANGED changed

LEMMA UserShape ==
  ASSUME TableTyped, NEW j \in Job, Delay(j) \/ ButtonDone(j) \/ Requeue(j)
  PROVE  UserWrites(j)
<1>1. CASE Delay(j)
  <2>1. [NoRow EXCEPT !.state = "pending"] \in Row
    BY NoRowType DEF Row, JobState
  <2> QED BY <1>1, <2>1 DEF Delay, NoRow, UserWrites, Keeps, runnerVars
<1>2. CASE ButtonDone(j)
  <2>1. Stored(j, [Loaded(j) EXCEPT !.doneAt = DoneNow], "done") \in Row
    BY LoadedType, DoneNowType, StoredType DEF TableTyped, Copy, JobState
  <2> QED BY <1>2, <2>1 DEF ButtonDone, Stored, UserWrites, Keeps, runnerVars
<1>3. CASE Requeue(j)
  <2>1. Stored(j, [Loaded(j) EXCEPT !.retry = 0], "pending") \in Row
    BY Constants, LoadedType, StoredType DEF TableTyped, Copy, JobState, Retry
  <2> QED BY <1>3, <2>1 DEF Requeue, Stored, UserWrites, Keeps, runnerVars
<1> QED BY <1>1, <1>2, <1>3

-----------------------------------------------------------------------------
(* Inv is inductive. *)

LEMMA InitInv == Init => Inv
<1> SUFFICES ASSUME Init PROVE Inv
  OBVIOUS
<1>1. TableTyped
  BY IdleType, NoRowType DEF Init, TableTyped
<1>2. tree \in Trees /\ \A j \in Job : Absent(tree, j)
  BY DEF Init, EmptyTree, Trees, Absent, Within
<1>3. RunnerTyped
  BY <1>2 DEF Init, RunnerTyped
<1>4. FlowInv
  BY <1>2, AbsentFlows, Constants DEF FlowInv
<1> QED BY <1>1, <1>3, <1>4 DEF Inv

\* One job moved to a new place, the others where they were.
LEMMA OneMoved ==
  ASSUME Inv, tree' \in Trees, NEW j \in Job, FlowOf(tree', j, ChannelOf[j]),
         \A i \in Job \ {j} : SamePlace(tree, tree', i)
  PROVE  FlowInv'
<1>1. ASSUME NEW i \in Job \ {j} PROVE FlowOf(tree', i, ChannelOf[i])
  BY <1>1, SamePlaceFlows, Constants DEF Inv, RunnerTyped, FlowInv
<1> QED BY <1>1 DEF FlowInv

LEMMA EmptyTreeInv ==
  ASSUME tree' = EmptyTree
  PROVE  tree' \in Trees /\ FlowInv' /\ \A j \in Job : Absent(tree', j)
<1>1. tree' \in Trees /\ \A j \in Job : Absent(tree', j)
  BY DEF EmptyTree, Trees, Absent, Within
<1> QED BY <1>1, AbsentFlows, Constants DEF FlowInv

LEMMA ListenInv == Inv /\ Listen => Inv'
BY DEF Inv, Listen, TableTyped, RunnerTyped, FlowInv

\* The initial load puts each job in one place.
LEMMA InChannelsFlows ==
  ASSUME row \in [Job -> Row]
  PROVE  /\ InChannels \in Trees
         /\ \A j \in Job : FlowOf(InChannels, j, ChannelOf[j])
<1>1. InChannels \in Trees
  BY DEF InChannels, Trees
<1>2. ASSUME NEW j \in Job PROVE FlowOf(InChannels, j, ChannelOf[j])
  <2> DEFINE own == ChannelOf[j]
  <2>1. own \in Channel /\ own \in Path[own] /\ Path[own] \subseteq Channel
    BY Constants, PathClosed
  <2>2. CASE row[j].state \in {"enqueued", "started"}
    <3>1. \A c \in Channel : /\ j \in InChannels.running[c] <=> c \in Path[own]
                             /\ j \notin InChannels.queue[c]
                             /\ j \notin InChannels.failed[c]
      BY <2>2 DEF InChannels
    <3>2. \A c \in Path[own] \ {Root} : Parent[c] \in Path[own] /\ Parent[c] \in Channel
      BY <2>1, PathClosed DEF Upward
    <3> QED BY <2>1, <3>1, <3>2 DEF FlowOf, Within
  <2>3. CASE row[j].state \notin {"enqueued", "started"}
    <3>1. \A c \in Channel : /\ j \notin InChannels.running[c]
                             /\ j \in InChannels.queue[c] =>
                                  c = own /\ row[j].state = "pending"
                             /\ j \in InChannels.failed[c] =>
                                  c = own /\ row[j].state = "failed"
      BY <2>3 DEF InChannels
    <3>2. \A c \in Path[own] \ {Root} : Parent[c] \in Channel /\ Parent[c] # own
      BY <2>1, OwnIsNoParent, PathClosed DEF Upward
    <3> QED BY <2>1, <3>1, <3>2 DEF FlowOf, Within
  <2> QED BY <2>2, <2>3
<1> QED BY <1>1, <1>2

LEMMA LoadJobsInv == Inv /\ LoadJobs => Inv'
<1> SUFFICES ASSUME Inv, LoadJobs PROVE Inv'
  OBVIOUS
<1>1. tree' \in Trees /\ FlowInv'
  BY InChannelsFlows DEF Inv, TableTyped, LoadJobs, FlowInv
<1> QED BY <1>1 DEF Inv, LoadJobs, TableTyped, RunnerTyped

LEMMA ProcessNotificationInv ==
  ASSUME Inv, NEW j \in Job, ProcessNotification(j)
  PROVE  Inv'
<1> DEFINE c == ChannelOf[j]
           t == IF j \in changed THEN Remove(tree, j, c) ELSE tree
<1>1. c \in Channel /\ tree \in Trees /\ FlowOf(tree, j, c)
  BY Constants DEF Inv, RunnerTyped, FlowInv
<1>2. /\ t \in Trees /\ FlowOf(t, j, c)
      /\ \A i \in Job \ {j} : SamePlace(tree, t, i)
  <2>1. CASE j \in changed
    BY <1>1, <2>1, RemoveFlows, AbsentFlows
  <2>2. CASE j \notin changed
    BY <1>1, <2>2 DEF SamePlace
  <2> QED BY <2>1, <2>2
<1>3. /\ tree' \in Trees /\ FlowOf(tree', j, c)
      /\ \A i \in Job \ {j} : SamePlace(tree, tree', i)
  <2>1. CASE row[j].state = "none"
    BY <1>1, <2>1, RemoveFlows, AbsentFlows DEF ProcessNotification
  <2>2. CASE row[j].state # "none"
    <3>1. row[j].state \in {"done", "pending", "enqueued", "started", "failed"}
      BY <2>2 DEF Inv, TableTyped, Row, JobState
    <3>2. tree' = Notified(t, j, c, row[j].state)
      BY <2>2 DEF ProcessNotification
    <3>3. /\ tree' \in Trees /\ FlowOf(tree', j, c)
          /\ \A i \in Job \ {j} : SamePlace(t, tree', i)
      BY <1>1, <1>2, <3>1, <3>2, NotifiedFlows
    <3> QED BY <1>2, <3>3 DEF SamePlace
  <2> QED BY <2>1, <2>2
<1>4. FlowInv'
  BY <1>3, OneMoved
<1>5. TableTyped' /\ RunnerTyped'
  BY <1>3 DEF Inv, TableTyped, RunnerTyped, ProcessNotification
<1> QED BY <1>4, <1>5 DEF Inv

LEMMA PullInv ==
  ASSUME Inv, NEW c \in Channel, NEW j \in Job, Pull(c, j)
  PROVE  Inv' /\ \A i \in Job \ {j} : SamePlace(tree, tree', i)
<1>1. /\ ChannelOf[j] \in Channel /\ tree \in Trees
      /\ FlowOf(tree, j, ChannelOf[j])
      /\ j \in tree.queue[c] /\ tree' = Pulled(tree, j, c)
  BY Constants DEF Inv, RunnerTyped, FlowInv, Pull, Poppable
<1>2. /\ tree' \in Trees
      /\ FlowOf(tree', j, ChannelOf[j])
      /\ \A i \in Job \ {j} : SamePlace(tree, tree', i)
  BY <1>1, PulledFlows
<1>3. FlowInv'
  BY <1>2, OneMoved
<1>4. TableTyped' /\ RunnerTyped'
  BY <1>2 DEF Inv, TableTyped, RunnerTyped, Pull
<1> QED BY <1>2, <1>3, <1>4 DEF Inv

LEMMA SentType ==
  ASSUME NEW j \in Job
  PROVE  LET q == [Idle EXCEPT !.job = j, !.srv = "sent", !.client = "waiting"]
         IN  q \in Request /\ AboutJob(q)
BY IdleType DEF Idle, Request, AboutJob

LEMMA RunJobInv ==
  ASSUME Inv, NEW r \in Req, RunJob(r)
  PROVE  Inv'
<1> DEFINE j == dispatching
           q == [req EXCEPT ![r] = [Idle EXCEPT !.job = j, !.srv = "sent",
                                                !.client = "waiting"]]
<1>1. j \in Job
  BY DEF Inv, RunnerTyped, RunJob
<1>2. q \in [Req -> Request] /\ \A p \in Req : AboutJob(q[p])
  BY <1>1, SentType DEF Inv, TableTyped
<1>3. TableTyped'
  <2>1. CASE row[j].state = "none"
    BY <1>2, <2>1 DEF RunJob, Inv, TableTyped
  <2>2. CASE row[j].state # "none"
    <3>1. Write(j, SetJobEnqueued(j), q)
      BY <2>2 DEF RunJob
    <3>2. SetJobEnqueued(j) \in Row
      BY <1>1, <2>2, SetJobEnqueuedType DEF Inv, TableTyped
    <3> QED BY <1>1, <1>2, <3>1, <3>2, WriteTyped DEF Inv
  <2> QED BY <2>1, <2>2
<1>4. RunnerTyped' /\ FlowInv'
  BY DEF Inv, RunnerTyped, FlowInv, RunJob
<1> QED BY <1>3, <1>4 DEF Inv

\* A step that leaves the channels alone keeps Inv if it keeps the types.
LEMMA SameTreeInv ==
  ASSUME Inv, TableTyped', Keeps, later' \subseteq Job, changed' \subseteq Job
  PROVE  Inv'
BY DEF Inv, RunnerTyped, FlowInv, Keeps

LEMMA LoseRunnerInv ==
  ASSUME Inv, TableTyped', LoseRunner, UNCHANGED later
  PROVE  Inv'
BY EmptyTreeInv DEF Inv, RunnerTyped, LoseRunner

\* The server's step on request r makes it q.
LEMMA BecomeInv ==
  ASSUME Inv, NEW r \in Req, NEW q \in Request, AboutJob(q),
         req' = Become(r, q), row' = row, notified' = notified,
         stale' \subseteq Job, UNCHANGED <<later, runnerVars>>
  PROVE  Inv'
<1>1. TableTyped'
  BY BecomeType DEF Inv, TableTyped
<1> QED BY <1>1, SameTreeInv DEF Inv, RunnerTyped, runnerVars, Keeps

LEMMA BusyRequest ==
  ASSUME TableTyped, NEW r \in Req, req[r].srv # "idle"
  PROVE  /\ req[r] # Idle /\ req[r].job \in Job
         /\ req[r] \in Request /\ AboutJob(req[r])
BY DEF TableTyped, AboutJob, Idle

LEMMA LoadJobInv == ASSUME Inv, NEW r \in Req, LoadJob(r) PROVE Inv'
<1>1. req[r].srv = "sent"
  BY DEF LoadJob
<1>2. /\ TableTyped /\ req[r] # Idle /\ req[r].job \in Job
      /\ req[r] \in Request /\ AboutJob(req[r])
  BY <1>1, BusyRequest DEF Inv
<1>3. stale' \subseteq Job /\ UNCHANGED <<row, notified, later, runnerVars>>
  BY DEF LoadJob, Inv, TableTyped
<1>4. CASE row[req[r].job].state = "enqueued"
  <2> DEFINE q == [req[r] EXCEPT !.srv = "loaded", !.fresh = TRUE,
                                 !.copy = Loaded(req[r].job)]
  <2>1. req' = Become(r, q)
    BY <1>4 DEF LoadJob
  <2>2. Loaded(req[r].job) \in Copy
    BY <1>2, LoadedType DEF TableTyped
  <2>3. q \in Request /\ AboutJob(q)
    BY <1>2, <2>2 DEF Request, AboutJob
  <2> QED BY <1>3, <2>1, <2>3, BecomeInv
<1>5. CASE row[req[r].job].state # "enqueued"
  BY <1>2, <1>3, <1>5, AnsweredType, BecomeInv DEF LoadJob
<1> QED BY <1>4, <1>5

LEMMA SetStartedInv == ASSUME Inv, NEW r \in Req, SetStarted(r) PROVE Inv'
<1> DEFINE q == [req[r] EXCEPT !.srv = "started"]
<1>1. req[r].srv = "loaded"
  BY DEF SetStarted
<1>2. /\ TableTyped /\ req[r] # Idle /\ req[r].job \in Job
      /\ req[r] \in Request /\ AboutJob(req[r])
  BY <1>1, BusyRequest DEF Inv
<1>3. q \in Request /\ AboutJob(q)
  BY <1>2 DEF Request, AboutJob
<1>4. Stored(req[r].job, req[r].copy, "started") \in Row
  BY <1>2, CopyType, StoredType DEF TableTyped, JobState
<1>5. Write(req[r].job, Stored(req[r].job, req[r].copy, "started"), Become(r, q))
  BY DEF SetStarted, Store
<1>6. TableTyped'
  BY <1>2, <1>3, <1>4, <1>5, BecomeType, WriteTyped
<1> QED BY <1>6, SameTreeInv DEF SetStarted, Inv, RunnerTyped, runnerVars, Keeps

LEMMA PerformInv == ASSUME Inv, NEW r \in Req, Perform(r) PROVE Inv'
<1> DEFINE q == [req[r] EXCEPT !.srv = "running", !.fresh = TRUE,
                               !.copy.retry = NextTry(@)]
<1>1. req[r].srv = "started"
  BY DEF Perform
<1>2. TableTyped /\ req[r] # Idle /\ req[r] \in Request /\ AboutJob(req[r])
  BY <1>1, BusyRequest DEF Inv
<1>3. [req[r].copy EXCEPT !.retry = NextTry(@)] \in Copy
  BY <1>2, CopyType
<1>4. q \in Request /\ AboutJob(q)
  BY <1>2, <1>3 DEF Request, AboutJob
<1>5. /\ stale' \subseteq Job /\ UNCHANGED <<row, notified, later, runnerVars>>
      /\ req' = Become(r, q)
  BY DEF Perform, Inv, TableTyped
<1> QED BY <1>4, <1>5, BecomeInv

LEMMA EndsInv == ASSUME Inv, NEW r \in Req, Ends(r) PROVE Inv'
<1>1. TableTyped /\ req[r].srv # "idle"
  BY DEF Inv, Ends
<1>2. /\ req[r] # Idle /\ req[r].job \in Job
      /\ req[r] \in Request /\ AboutJob(req[r])
  BY <1>1, BusyRequest
<1>3. ASSUME Closes(r) PROVE TableTyped'
  <2>1. PICK c \in Copy, s \in {"done", "pending", "failed"}, a \in {"ok", "error"} :
          Store(r, c, s, Answered(req[r], a))
    BY <1>3 DEF Closes
  <2>2. s \in JobState
    BY DEF JobState
  <2> QED BY <1>1, <1>2, <2>1, <2>2, StoreTyped
<1>4. ASSUME Drops(r) PROVE TableTyped'
  <2>1. Answered(req[r], "error") \in Request /\ AboutJob(Answered(req[r], "error"))
    BY <1>2, AnsweredType
  <2>2. req' \in [Req -> Request] /\ \A p \in Req : AboutJob(req'[p])
    BY <1>1, <1>4, <2>1, BecomeType DEF Drops
  <2> QED BY <1>1, <1>4, <2>2 DEF Drops, TableTyped
<1>5. TableTyped'
  BY <1>3, <1>4 DEF Ends
<1> QED BY <1>2, <1>5, SameTreeInv DEF Ends, Inv, RunnerTyped

LEMMA ClientInv == ASSUME Inv, NEW r \in Req, ClientStep(r) PROVE Inv'
<1>1. req[r].client = "waiting"
  BY DEF ClientStep, GetAnswer, GiveUp
<1>2. TableTyped /\ req[r] \in Request /\ AboutJob(req[r]) /\ req[r] # Idle
  BY <1>1 DEF Inv, TableTyped, Idle
<1>3. /\ req[r].job \in Job
      /\ Gone(req[r]) \in Request /\ AboutJob(Gone(req[r]))
  BY <1>2, GoneType DEF AboutJob
<1>4. UNCHANGED <<later, runnerVars>>
  BY DEF ClientStep, GetAnswer, GiveUp
<1>5. CASE req' = Become(r, Gone(req[r])) /\ UNCHANGED <<row, notified, stale>>
  BY <1>2, <1>3, <1>4, <1>5, BecomeInv DEF TableTyped
<1>6. CASE Write(req[r].job, SetJobPending(req[r].job), Become(r, Gone(req[r])))
  <2>1. SetJobPending(req[r].job) \in Row
    BY <1>2, <1>3 DEF SetJobPending, TableTyped, Row, JobState
  <2>2. TableTyped'
    BY <1>2, <1>3, <1>6, <2>1, BecomeType, WriteTyped
  <2> QED BY <1>4, <2>2, SameTreeInv DEF Inv, RunnerTyped, runnerVars, Keeps
<1> QED BY <1>5, <1>6 DEF ClientStep, GetAnswer, GiveUp

LEMMA UserWritesInv == ASSUME Inv, NEW j \in Job, UserWrites(j) PROVE Inv'
<1>1. TableTyped'
  BY WriteTyped DEF Inv, TableTyped, UserWrites
<1> QED BY <1>1, SameTreeInv DEF UserWrites, Inv, RunnerTyped

LEMMA AutovacuumInv == ASSUME Inv, Autovacuum PROVE Inv'
<1>1. row' \in [Job -> Row] /\ notified' \subseteq Job /\ stale' \subseteq Job
  <2>1. row' \in [Job -> Row]
    <3>1. row \in [Job -> Row]
      BY DEF Inv, TableTyped
    <3>2. row' = [j \in Job |-> IF j \in Vacuumed THEN NoRow ELSE row[j]]
      BY DEF Autovacuum
    <3> QED BY <3>1, <3>2, NoRowType
  <2>2. notified' \subseteq Job
    BY DEF Inv, TableTyped, Autovacuum, Announced, Vacuumed
  <2> QED BY <2>1, <2>2 DEF Inv, TableTyped, Autovacuum
<1>2. Vacuumed \in SUBSET Job
  BY DEF Vacuumed
<1>3. req' \in [Req -> Request] /\ \A r \in Req : AboutJob(req'[r])
  BY <1>2, OutdatedType DEF Inv, TableTyped, Autovacuum
<1>4. TableTyped'
  BY <1>1, <1>3 DEF TableTyped
<1> QED BY <1>4, SameTreeInv DEF Autovacuum, Inv, RunnerTyped, runnerVars, Keeps

LEMMA TimeInv == ASSUME Inv, TimeStep PROVE Inv'
<1>1. ASSUME NEW j \in Job, MonthPasses(j) PROVE Inv'
  <2>1. TableTyped'
    BY <1>1 DEF Inv, TableTyped, MonthPasses, Row, DoneAt
  <2> QED BY <1>1, <2>1, SameTreeInv DEF MonthPasses, Inv, RunnerTyped, runnerVars, Keeps
<1>2. ASSUME NEW j \in Job, EtaPasses(j) PROVE Inv'
  <2>1. TableTyped'
    BY <1>2 DEF Inv, TableTyped, EtaPasses
  <2> QED BY <1>2, <2>1, SameTreeInv DEF EtaPasses, Inv, RunnerTyped, runnerVars, Keeps
<1> QED BY <1>1, <1>2 DEF TimeStep

LEMMA KillWorkerInv == ASSUME Inv, NEW r \in Req, KillWorker(r) PROVE Inv'
<1>1. req[r].srv # "idle" /\ TableTyped
  BY DEF KillWorker, Inv
<1>2. /\ req[r] # Idle /\ req[r].job \in Job
      /\ req[r] \in Request /\ AboutJob(req[r])
  BY <1>1, BusyRequest
<1>3. Answered(req[r], "error") \in Request /\ AboutJob(Answered(req[r], "error"))
  BY <1>2, AnsweredType
<1>4. stale' \subseteq Job
  BY <1>1, <1>2 DEF KillWorker, LeftBehind, TableTyped
<1> QED BY <1>3, <1>4, BecomeInv DEF KillWorker

LEMMA ServerCrashInv == ASSUME Inv, ServerCrash PROVE Inv'
<1>1. TableTyped'
  BY IdleType DEF Inv, TableTyped, ServerCrash, LoseRunner, LeftBehind
<1> QED BY <1>1, LoseRunnerInv DEF ServerCrash

LEMMA RunnerFailsInv == ASSUME Inv, RunnerFails PROVE Inv'
<1>1. TableTyped'
  BY DEF Inv, TableTyped, RunnerFails, LoseRunner
<1> QED BY <1>1, LoseRunnerInv DEF RunnerFails

LEMMA PhaseInv == ASSUME Inv, StartRunJobs \/ EndRunJobs PROVE Inv'
BY DEF Inv, TableTyped, RunnerTyped, FlowInv, StartRunJobs, EndRunJobs

(***************************************************************************)
(* The steps of the system, with those of the server and of the users      *)
(* grouped by what they have in common.                                    *)
(***************************************************************************)
LEMMA NextShape ==
  ASSUME TableTyped, [Next]_vars
  PROVE  \/ Listen \/ LoadJobs \/ StartRunJobs \/ EndRunJobs
         \/ \E j \in Job : ProcessNotification(j)
         \/ \E c \in Channel, j \in Job : Pull(c, j)
         \/ \E r \in Req : RunJob(r)
         \/ \E r \in Req : LoadJob(r) \/ SetStarted(r) \/ Perform(r) \/ Ends(r)
         \/ \E r \in Req : ClientStep(r)
         \/ \E j \in Job : UserWrites(j)
         \/ Autovacuum
         \/ TimeStep
         \/ RunnerFails \/ ServerCrash
         \/ \E r \in Req : KillWorker(r)
         \/ UNCHANGED vars
BY ServerShape, UserShape DEF Next, RunnerStep, UserStep, Crash

LEMMA NextInv == Inv /\ [Next]_vars => Inv'
<1> SUFFICES ASSUME Inv, [Next]_vars PROVE Inv'
  OBVIOUS
<1>1. CASE Listen \/ LoadJobs \/ StartRunJobs \/ EndRunJobs
  BY <1>1, ListenInv, LoadJobsInv, PhaseInv
<1>2. ASSUME NEW j \in Job, ProcessNotification(j) PROVE Inv'
  BY <1>2, ProcessNotificationInv
<1>3. ASSUME NEW c \in Channel, NEW j \in Job, Pull(c, j) PROVE Inv'
  BY <1>3, PullInv
<1>4. ASSUME NEW r \in Req, RunJob(r) PROVE Inv'
  BY <1>4, RunJobInv
<1>5. ASSUME NEW r \in Req, LoadJob(r) \/ SetStarted(r) \/ Perform(r) \/ Ends(r)
      PROVE  Inv'
  BY <1>5, LoadJobInv, SetStartedInv, PerformInv, EndsInv
<1>6. ASSUME NEW r \in Req, ClientStep(r) PROVE Inv'
  BY <1>6, ClientInv
<1>7. ASSUME NEW j \in Job, UserWrites(j) PROVE Inv'
  BY <1>7, UserWritesInv
<1>8. CASE Autovacuum \/ TimeStep
  BY <1>8, AutovacuumInv, TimeInv
<1>9. CASE RunnerFails \/ ServerCrash
  BY <1>9, RunnerFailsInv, ServerCrashInv
<1>10. ASSUME NEW r \in Req, KillWorker(r) PROVE Inv'
  BY <1>10, KillWorkerInv
<1>11. CASE UNCHANGED vars
  BY <1>11 DEF vars, Inv, TableTyped, RunnerTyped, FlowInv
<1>12. TableTyped
  BY DEF Inv
<1> QED BY <1>1, <1>2, <1>3, <1>4, <1>5, <1>6, <1>7, <1>8, <1>9, <1>10, <1>11,
           <1>12, NextShape

\* Every variable of the runner, the table and the requests keeps its type.
THEOREM TypeCorrect == Spec => []TypeOK
<1>1. Inv => TypeOK
  BY DEF Inv, TableTyped, RunnerTyped, TypeOK
<1> QED BY <1>1, InitInv, NextInv, PTL DEF Spec

\* Whatever the table, the requests, the users and crashes do to the order of
\* what the runner learns, each job is in one place of its channels.
THEOREM JobsFlow == Spec => []FlowInv
<1>1. Inv => FlowInv
  BY DEF Inv
<1> QED BY <1>1, InitInv, NextInv, PTL DEF Spec

-----------------------------------------------------------------------------
(* The table: no job is left enqueued or started with nobody behind it.    *)

AwaitsAnswer(q, j) == q.job = j /\ q.client = "waiting" /\ q.srv # "ok"

(***************************************************************************)
(* StartedIsExecuted is not inductive: a request that performs the job may *)
(* end without storing anything, but only after another one wrote the row. *)
(* Whoever wrote "started" last is still behind the job, or it has begun   *)
(* to perform the job and nobody wrote the row since.                      *)
(***************************************************************************)
Executes(q, j) ==
  q.job = j /\ (q.srv = "started" \/ (q.srv = "running" /\ q.fresh))

Attended(j) ==
  j \notin stale =>
    /\ row[j].state = "enqueued" => \E r \in Req : AwaitsAnswer(req[r], j)
    /\ row[j].state = "started"  => \E r \in Req : Executes(req[r], j)

TableInv == \A j \in Job : Attended(j)

\* A step that is about other jobs leaves a job attended to.
LEMMA OthersAttended ==
  ASSUME NEW j \in Job, Attended(j),
         row'[j].state = row[j].state, j \in stale => j \in stale',
         \A p \in Req : req[p].job = j => req'[p] = req[p]
  PROVE  Attended(j)'
BY DEF Attended, AwaitsAnswer, Executes

\* A job in no running state needs nobody.
LEMMA AtRest ==
  ASSUME NEW j \in Job, row'[j].state \notin {"enqueued", "started"}
  PROVE  Attended(j)'
BY DEF Attended

\* What one transaction of request r on the row of j does.
LEMMA WriteDoes ==
  ASSUME TableTyped, NEW j \in Job, NEW new \in Row, NEW r \in Req,
         NEW q \in Request, AboutJob(q), q # Idle => q.job = j,
         req[r] # Idle => req[r].job = j,
         Write(j, new, Become(r, q))
  PROVE  /\ row'[j] = new
         /\ stale' = stale \ {j}
         /\ req'[r].job = q.job /\ req'[r].srv = q.srv /\ req'[r].client = q.client
         /\ \A i \in Job \ {j} :
              /\ row'[i] = row[i]
              /\ \A p \in Req : req[p].job = i => req'[p] = req[p]
<1>1. Become(r, q) \in [Req -> Request] /\ \A p \in Req : AboutJob(Become(r, q)[p])
  BY BecomeType
<1>2. row'[j] = new /\ stale' = stale \ {j}
  BY DEF Write, TableTyped
<1>3. req'[r].job = q.job /\ req'[r].srv = q.srv /\ req'[r].client = q.client
  <2>1. Become(r, q)[r] = q
    BY DEF Become, TableTyped
  <2> QED BY <1>1, <2>1, OutdatedType DEF Write
<1>4. ASSUME NEW i \in Job \ {j} PROVE row'[i] = row[i]
  BY DEF Write, TableTyped
<1>5. ASSUME NEW i \in Job \ {j}, NEW p \in Req, req[p].job = i
      PROVE  req'[p] = req[p]
  <2>1. p # r
    BY <1>5, Constants DEF Idle
  <2>2. Become(r, q)[p] = req[p]
    BY <2>1 DEF Become, TableTyped
  <2> QED BY <1>5, <2>2 DEF Write, Outdated
<1> QED BY <1>2, <1>3, <1>4, <1>5

LEMMA EndsTable ==
  ASSUME Inv, TableInv, NEW r \in Req, Ends(r)
  PROVE  TableInv'
<1>1. TableTyped /\ req[r].srv # "idle"
  BY DEF Inv, Ends
<1>. PICK j \in Job : j = req[r].job
  BY <1>1, BusyRequest
<1>2. req[r] # Idle /\ req[r] \in Request /\ AboutJob(req[r])
  BY <1>1, BusyRequest
<1>3. ASSUME Closes(r) PROVE TableInv'
  <2>1. PICK c \in Copy, s \in {"done", "pending", "failed"}, a \in {"ok", "error"} :
          Store(r, c, s, Answered(req[r], a))
    BY <1>3 DEF Closes
  <2>2. /\ Answered(req[r], a) \in Request /\ AboutJob(Answered(req[r], a))
        /\ Answered(req[r], a) # Idle => Answered(req[r], a).job = j
    BY <1>2, AnsweredType DEF Answered, Request
  <2>3. Stored(j, c, s) \in Row /\ Stored(j, c, s).state = s
    BY <1>1, <1>2, StoredType DEF TableTyped, JobState, Stored
  <2>4. Write(j, Stored(j, c, s), Become(r, Answered(req[r], a)))
    BY <2>1 DEF Store
  <2>5. /\ row'[j].state = s /\ stale' = stale \ {j}
        /\ \A i \in Job \ {j} :
              /\ row'[i] = row[i]
              /\ \A p \in Req : req[p].job = i => req'[p] = req[p]
    BY <1>1, <1>2, <2>2, <2>3, <2>4, WriteDoes
  <2>6. Attended(j)'
    BY <1>2, <2>5, AtRest
  <2>7. \A i \in Job \ {j} : Attended(i)'
    BY <2>5, OthersAttended DEF TableInv
  <2> QED BY <2>6, <2>7 DEF TableInv
<1>4. ASSUME Drops(r) PROVE TableInv'
  <2>1. /\ row' = row /\ stale' = stale /\ req' = Become(r, Answered(req[r], "error"))
        /\ req[r].srv = "running" /\ ~ req[r].fresh
    BY <1>4 DEF Drops
  <2>2. \A p \in Req \ {r} : req'[p] = req[p]
    BY <1>1, <2>1 DEF Become, TableTyped
  <2>3. req'[r] = Answered(req[r], "error")
    BY <1>1, <2>1 DEF Become, TableTyped
  <2>4. \A i \in Job : AwaitsAnswer(req[r], i) => AwaitsAnswer(req'[r], i)
    BY <1>2, <2>3 DEF AwaitsAnswer, Answered, Request
  <2>5. \A i \in Job : ~ Executes(req[r], i)
    BY <2>1 DEF Executes
  <2> QED BY <2>1, <2>2, <2>4, <2>5 DEF TableInv, Attended
<1> QED BY <1>3, <1>4 DEF Ends

\* Every action that leaves the table, the requests and the history alone.
LEMMA SameTable ==
  ASSUME TableInv, UNCHANGED <<row, req, stale>>
  PROVE  TableInv'
BY OthersAttended DEF TableInv

LEMMA RunJobTable ==
  ASSUME Inv, TableInv, NEW r \in Req, RunJob(r)
  PROVE  TableInv'
<1>. PICK j \in Job : j = dispatching
  BY DEF Inv, RunnerTyped, RunJob
<1>. DEFINE q == [Idle EXCEPT !.job = j, !.srv = "sent", !.client = "waiting"]
<1>1. /\ TableTyped /\ req[r] = Idle
      /\ q \in Request /\ AboutJob(q)
      /\ q.job = j /\ q.srv = "sent" /\ q.client = "waiting"
  BY SentType DEF Inv, RunJob, Idle
<1>2. CASE row[j].state = "none"
  <2>1. row' = row /\ stale' = stale /\ req' = [req EXCEPT ![r] = q]
    BY <1>2 DEF RunJob
  <2>2. ASSUME NEW i \in Job, NEW p \in Req, req[p].job = i PROVE req'[p] = req[p]
    <3>1. p # r
      BY <1>1, <2>2, Constants DEF Idle
    <3> QED BY <1>1, <2>1, <3>1 DEF TableTyped
  <2> QED BY <2>1, <2>2, OthersAttended DEF TableInv
<1>3. CASE row[j].state # "none"
  <2>1. Write(j, SetJobEnqueued(j), Become(r, q))
    BY <1>3 DEF RunJob, Become
  <2>. HIDE DEF q
  <2>2. SetJobEnqueued(j) \in Row /\ SetJobEnqueued(j).state = "enqueued"
    BY <1>1, <1>3, SetJobEnqueuedType DEF TableTyped
  <2>3. /\ row'[j] = SetJobEnqueued(j) /\ stale' = stale \ {j}
        /\ req'[r].job = j /\ req'[r].srv = "sent" /\ req'[r].client = "waiting"
        /\ \A i \in Job \ {j} :
              /\ row'[i] = row[i]
              /\ \A p \in Req : req[p].job = i => req'[p] = req[p]
    BY <1>1, <2>1, <2>2, WriteDoes
  <2>4. Attended(j)'
    BY <2>2, <2>3 DEF Attended, AwaitsAnswer
  <2>5. \A i \in Job \ {j} : Attended(i)'
    BY <2>3, OthersAttended DEF TableInv
  <2> QED BY <2>4, <2>5 DEF TableInv
<1> QED BY <1>2, <1>3

\* Request r goes on, and no row changes: what it was behind, it still is, or
\* the row no longer needs it.
LEMMA BecomeTable ==
  ASSUME TableTyped, TableInv, NEW r \in Req, NEW q, req' = Become(r, q), row' = row,
         stale \subseteq stale',
         \A j \in Job :
           /\ AwaitsAnswer(req[r], j) /\ row[j].state = "enqueued" => AwaitsAnswer(q, j)
           /\ Executes(req[r], j) /\ row[j].state = "started" /\ j \notin stale' =>
                Executes(q, j)
  PROVE  TableInv'
<1>1. req'[r] = q /\ \A p \in Req \ {r} : req'[p] = req[p]
  BY DEF Become, TableTyped
<1>2. ASSUME NEW j \in Job PROVE Attended(j)'
  BY <1>1 DEF TableInv, Attended
<1> QED BY <1>2 DEF TableInv

LEMMA LoadJobTable ==
  ASSUME Inv, TableInv, NEW r \in Req, LoadJob(r)
  PROVE  TableInv'
<1>1. /\ TableTyped /\ req[r].srv = "sent" /\ req[r] \in Request
      /\ row' = row /\ stale' = stale
  BY DEF Inv, TableTyped, LoadJob
<1>2. \A j \in Job : ~ Executes(req[r], j)
  BY <1>1 DEF Executes
<1>3. CASE row[req[r].job].state = "enqueued"
  <2> DEFINE q == [req[r] EXCEPT !.srv = "loaded", !.fresh = TRUE,
                                 !.copy = Loaded(req[r].job)]
  <2>1. req' = Become(r, q)
    BY <1>3 DEF LoadJob
  <2>2. \A j \in Job : AwaitsAnswer(req[r], j) => AwaitsAnswer(q, j)
    BY <1>1 DEF AwaitsAnswer, Request
  <2> QED BY <1>1, <1>2, <2>1, <2>2, BecomeTable
<1>4. CASE row[req[r].job].state # "enqueued"
  <2>1. req' = Become(r, Answered(req[r], "ok"))
    BY <1>4 DEF LoadJob
  <2>2. \A j \in Job : AwaitsAnswer(req[r], j) => row[j].state # "enqueued"
    BY <1>4 DEF AwaitsAnswer
  <2> QED BY <1>1, <1>2, <2>1, <2>2, BecomeTable
<1> QED BY <1>3, <1>4

LEMMA SetStartedTable ==
  ASSUME Inv, TableInv, NEW r \in Req, SetStarted(r)
  PROVE  TableInv'
<1>1. TableTyped /\ req[r].srv = "loaded"
  BY DEF Inv, SetStarted
<1>. PICK j \in Job : j = req[r].job
  BY <1>1, BusyRequest
<1>. DEFINE q == [req[r] EXCEPT !.srv = "started"]
            new == Stored(j, req[r].copy, "started")
<1>2. req[r] # Idle /\ req[r] \in Request /\ AboutJob(req[r])
  BY <1>1, BusyRequest
<1>3. q \in Request /\ AboutJob(q) /\ q.job = j /\ q.srv = "started"
  BY <1>2 DEF Request, AboutJob
<1>4. new \in Row
  <2>1. row \in [Job -> Row]
    BY <1>1 DEF TableTyped
  <2>2. req[r].copy \in Copy
    BY <1>1, CopyType
  <2> QED BY <2>1, <2>2, StoredType DEF JobState
<1>5. new.state = "started"
  BY DEF Stored
<1>6. Write(j, new, Become(r, q))
  BY DEF SetStarted, Store
<1>. HIDE DEF q, new
<1>7. /\ row'[j] = new /\ req'[r].job = j /\ req'[r].srv = "started"
      /\ stale' = stale \ {j}
      /\ \A i \in Job \ {j} :
            /\ row'[i] = row[i]
            /\ \A p \in Req : req[p].job = i => req'[p] = req[p]
  BY <1>1, <1>3, <1>4, <1>6, WriteDoes
<1>8. Attended(j)'
  BY <1>5, <1>7 DEF Attended, Executes
<1>9. \A i \in Job \ {j} : Attended(i)'
  BY <1>7, OthersAttended DEF TableInv
<1> QED BY <1>8, <1>9 DEF TableInv

LEMMA PerformTable ==
  ASSUME Inv, TableInv, NEW r \in Req, Perform(r)
  PROVE  TableInv'
<1> DEFINE q == [req[r] EXCEPT !.srv = "running", !.fresh = TRUE,
                               !.copy.retry = NextTry(@)]
<1>1. TableTyped /\ req[r] \in Request /\ row' = row /\ stale' = stale
  BY DEF Inv, TableTyped, Perform
<1>2. req' = Become(r, q)
  BY DEF Perform
<1>3. q.job = req[r].job /\ q.client = req[r].client /\ q.srv = "running" /\ q.fresh
  BY <1>1 DEF Request
<1>4. \A j \in Job : /\ AwaitsAnswer(req[r], j) => AwaitsAnswer(q, j)
                     /\ Executes(req[r], j) => Executes(q, j)
  BY <1>3 DEF AwaitsAnswer, Executes
<1> QED BY <1>1, <1>2, <1>4, BecomeTable

LEMMA ClientTable ==
  ASSUME Inv, TableInv, NEW r \in Req, ClientStep(r)
  PROVE  TableInv'
<1>1. req[r].client = "waiting"
  BY DEF ClientStep, GetAnswer, GiveUp
<1>2. TableTyped /\ req[r] \in Request /\ AboutJob(req[r]) /\ req[r] # Idle
  BY <1>1 DEF Inv, TableTyped, Idle
<1>. PICK j \in Job : j = req[r].job
  BY <1>2 DEF AboutJob
<1>3. /\ Gone(req[r]) \in Request /\ AboutJob(Gone(req[r]))
      /\ Gone(req[r]) # Idle => Gone(req[r]).job = j
  BY <1>2, GoneType DEF Gone, Request
<1>4. \A i \in Job : Executes(req[r], i) => Executes(Gone(req[r]), i)
  BY <1>2 DEF Executes, Gone, Request
<1>5. CASE GetAnswer(r)
  <2>1. \A i \in Job : ~ AwaitsAnswer(req[r], i)
    BY <1>5 DEF GetAnswer, AwaitsAnswer
  <2>2. req' = Become(r, Gone(req[r])) /\ UNCHANGED <<row, stale>>
    BY <1>5 DEF GetAnswer
  <2> QED BY <1>2, <1>4, <2>1, <2>2, BecomeTable
<1>6. CASE GiveUp(r) /\ SetJobPending(j) = row[j]
  <2>1. req' = Become(r, Gone(req[r])) /\ UNCHANGED <<row, stale>>
    BY <1>6 DEF GiveUp
  <2>2. row[j].state # "enqueued"
    BY <1>2, <1>6 DEF SetJobPending, TableTyped, Row
  <2>3. \A i \in Job : AwaitsAnswer(req[r], i) => row[i].state # "enqueued"
    BY <2>2 DEF AwaitsAnswer
  <2> QED BY <1>2, <1>4, <2>1, <2>3, BecomeTable
<1>7. CASE GiveUp(r) /\ SetJobPending(j) # row[j]
  <2>1. Write(j, SetJobPending(j), Become(r, Gone(req[r])))
    BY <1>7 DEF GiveUp
  <2>2. SetJobPending(j) \in Row /\ SetJobPending(j).state = "pending"
    BY <1>2, <1>7 DEF SetJobPending, TableTyped, Row, JobState
  <2>3. /\ row'[j].state = "pending" /\ stale' = stale \ {j}
        /\ \A i \in Job \ {j} :
              /\ row'[i] = row[i]
              /\ \A p \in Req : req[p].job = i => req'[p] = req[p]
    BY <1>2, <1>3, <2>1, <2>2, WriteDoes
  <2>4. Attended(j)'
    BY <2>3, AtRest
  <2>5. \A i \in Job \ {j} : Attended(i)'
    BY <2>3, OthersAttended DEF TableInv
  <2> QED BY <2>4, <2>5 DEF TableInv
<1> QED BY <1>5, <1>6, <1>7 DEF ClientStep

\* Other requests than those about the jobs written stay as they are.
LEMMA OutdatedElsewhere ==
  ASSUME TableTyped, NEW J \in SUBSET Job, NEW p \in Req, req[p].job \notin J
  PROVE  Outdated(req, J)[p] = req[p]
BY DEF Outdated

LEMMA UserWritesTable ==
  ASSUME Inv, TableInv, NEW j \in Job, UserWrites(j)
  PROVE  TableInv'
<1>1. PICK new \in Row : new.state \in {"pending", "done"} /\ Write(j, new, req)
  BY DEF UserWrites
<1>2. /\ row'[j] = new /\ stale' = stale \ {j}
      /\ \A i \in Job \ {j} : row'[i] = row[i]
  BY <1>1 DEF Write, Inv, TableTyped
<1>3. ASSUME NEW i \in Job \ {j}, NEW p \in Req, req[p].job = i
      PROVE  req'[p] = req[p]
  BY <1>1, <1>3, OutdatedElsewhere DEF Write, Inv
<1>4. Attended(j)'
  BY <1>1, <1>2, AtRest
<1>5. \A i \in Job \ {j} : Attended(i)'
  BY <1>2, <1>3, OthersAttended DEF TableInv
<1> QED BY <1>4, <1>5 DEF TableInv

LEMMA AutovacuumTable == ASSUME Inv, TableInv, Autovacuum PROVE TableInv'
<1>1. TableTyped /\ row' = [j \in Job |-> IF j \in Vacuumed THEN NoRow ELSE row[j]]
      /\ req' = Outdated(req, Vacuumed) /\ stale' = stale \ Vacuumed
  BY DEF Inv, Autovacuum
<1>2. Vacuumed \in SUBSET Job
  BY DEF Vacuumed
<1>3. ASSUME NEW j \in Vacuumed PROVE Attended(j)'
  BY <1>1, <1>2, AtRest DEF NoRow
<1>4. ASSUME NEW j \in Job \ Vacuumed PROVE Attended(j)'
  <2>1. \A p \in Req : req[p].job = j => req'[p] = req[p]
    BY <1>1, <1>2, OutdatedElsewhere
  <2> QED BY <1>1, <2>1, OthersAttended DEF TableInv
<1> QED BY <1>3, <1>4 DEF TableInv

LEMMA TimeTable == ASSUME Inv, TableInv, TimeStep PROVE TableInv'
<1>1. ASSUME NEW j \in Job, MonthPasses(j) PROVE TableInv'
  <2>1. \A i \in Job : row'[i].state = row[i].state
    BY <1>1 DEF MonthPasses, Inv, TableTyped, Row
  <2> QED BY <1>1, <2>1, OthersAttended DEF MonthPasses, TableInv
<1>2. ASSUME NEW j \in Job, EtaPasses(j) PROVE TableInv'
  BY <1>2, SameTable DEF EtaPasses
<1> QED BY <1>1, <1>2 DEF TimeStep

LEMMA KillWorkerTable ==
  ASSUME Inv, TableInv, NEW r \in Req, KillWorker(r)
  PROVE  TableInv'
<1>1. req[r].srv # "idle" /\ TableTyped
  BY DEF KillWorker, Inv
<1>2. req[r] \in Request /\ req[r].job \in Job
  BY <1>1, BusyRequest
<1>3. req' = Become(r, Answered(req[r], "error")) /\ row' = row /\ stale \subseteq stale'
  BY DEF KillWorker, LeftBehind
<1>4. \A j \in Job : AwaitsAnswer(req[r], j) => AwaitsAnswer(Answered(req[r], "error"), j)
  BY <1>2 DEF AwaitsAnswer, Answered, Request
<1>5. \A j \in Job : Executes(req[r], j) /\ row[j].state = "started" => j \in stale'
  BY DEF KillWorker, LeftBehind, Executes
<1> QED BY <1>1, <1>3, <1>4, <1>5, BecomeTable

LEMMA ServerCrashTable == ASSUME TableInv, ServerCrash PROVE TableInv'
BY DEF TableInv, Attended, ServerCrash, LeftBehind

LEMMA NextTable == Inv /\ TableInv /\ [Next]_vars => TableInv'
<1> SUFFICES ASSUME Inv, TableInv, [Next]_vars PROVE TableInv'
  OBVIOUS
<1>1. CASE \/ Listen \/ LoadJobs \/ StartRunJobs \/ EndRunJobs \/ RunnerFails
           \/ UNCHANGED vars
           \/ \E j \in Job : ProcessNotification(j)
           \/ \E c \in Channel, j \in Job : Pull(c, j)
  BY <1>1, SameTable DEF Listen, LoadJobs, StartRunJobs, EndRunJobs, RunnerFails,
     vars, ProcessNotification, Pull
<1>2. ASSUME NEW r \in Req, RunJob(r) PROVE TableInv'
  BY <1>2, RunJobTable
<1>3. ASSUME NEW r \in Req, LoadJob(r) \/ SetStarted(r) \/ Perform(r) \/ Ends(r)
      PROVE  TableInv'
  BY <1>3, LoadJobTable, SetStartedTable, PerformTable, EndsTable
<1>4. ASSUME NEW r \in Req, ClientStep(r) PROVE TableInv'
  BY <1>4, ClientTable
<1>5. ASSUME NEW j \in Job, UserWrites(j) PROVE TableInv'
  BY <1>5, UserWritesTable
<1>6. CASE Autovacuum \/ TimeStep
  BY <1>6, AutovacuumTable, TimeTable
<1>7. CASE ServerCrash
  BY <1>7, ServerCrashTable
<1>8. ASSUME NEW r \in Req, KillWorker(r) PROVE TableInv'
  BY <1>8, KillWorkerTable
<1>9. TableTyped
  BY DEF Inv
<1> QED BY <1>1, <1>2, <1>3, <1>4, <1>5, <1>6, <1>7, <1>8, <1>9, NextShape

LEMMA InitTable == Init => TableInv
BY DEF Init, NoRow, TableInv, Attended

\* No job is left enqueued, crashes excepted, without a thread that waits for
\* an answer the server still owes it.
THEOREM EnqueuedAreAwaited == Spec => []NoOrphanEnqueued
<1>1. TableInv => NoOrphanEnqueued
  BY DEF TableInv, Attended, AwaitsAnswer, NoOrphanEnqueued
<1> QED BY <1>1, InitInv, NextInv, InitTable, NextTable, PTL DEF Spec

\* No job is left started, crashes excepted, without a request that executes it.
THEOREM StartedAreExecuted == Spec => []StartedIsExecuted
<1>1. TableInv => StartedIsExecuted
  BY DEF TableInv, Attended, Executes, StartedIsExecuted
<1> QED BY <1>1, InitInv, NextInv, InitTable, NextTable, PTL DEF Spec

-----------------------------------------------------------------------------
(* The view: the channels follow the table.                                *)

(***************************************************************************)
(* NoLostNotification needs to know of the job that is about to be sent    *)
(* that, unless it is notified, its row is there: then the runner's write  *)
(* notifies it.                                                            *)
(***************************************************************************)
ViewOf(j) ==
  /\ runner \in {"notify", "run"} /\ j \notin notified /\ j # dispatching =>
       Reflects(j, row[j].state)
  /\ j = dispatching /\ j \notin notified => row[j].state \notin {"none", "done"}

ViewInv ==
  /\ runner # "run" => dispatching = NoJob
  /\ \A j \in Job : ViewOf(j)

LEMMA ReflectsMeans ==
  ASSUME NEW j \in Job
  PROVE  /\ Reflects(j, "pending") <=> j \in Waiting(tree)
         /\ Reflects(j, "enqueued") <=> j \in tree.running[ChannelOf[j]]
         /\ Reflects(j, "started") <=> j \in tree.running[ChannelOf[j]]
         /\ Reflects(j, "failed") <=> j \in tree.failed[ChannelOf[j]]
         /\ Reflects(j, "done") <=> Absent(tree, j)
         /\ Reflects(j, "none") <=> Absent(tree, j)
BY DEF Reflects, Absent

LEMMA StateOf ==
  ASSUME TableTyped, NEW j \in Job
  PROVE  row[j].state \in {"none", "pending", "enqueued", "started", "failed", "done"}
BY DEF TableTyped, Row, JobState

\* A job that kept its place and its state is still reflected.
LEMMA SamePlaceReflects ==
  ASSUME Inv, Inv', NEW j \in Job, SamePlace(tree, tree', j),
         row'[j].state = row[j].state, Reflects(j, row[j].state)
  PROVE  Reflects(j, row[j].state)'
<1>1. ChannelOf[j] \in Channel /\ TableTyped
  BY Constants DEF Inv
<1>2. j \in Waiting(tree) => j \in Waiting(tree')
  BY DEF SamePlace, Waiting
<1>3. Absent(tree, j) => Absent(tree', j)
  BY DEF SamePlace, Absent, Within
<1>4. /\ j \in tree.running[ChannelOf[j]] => j \in tree'.running[ChannelOf[j]]
      /\ j \in tree.failed[ChannelOf[j]] => j \in tree'.failed[ChannelOf[j]]
  BY <1>1 DEF SamePlace
<1>5. ASSUME NEW s \in {"none", "pending", "enqueued", "started", "failed", "done"},
             Reflects(j, s)
      PROVE  Reflects(j, s)'
  BY <1>2, <1>3, <1>4, <1>5 DEF Reflects, Absent
<1> QED BY <1>1, <1>5, StateOf

\* A step of others than the runner is notified of each state it changes, but
\* for done jobs that are deleted.
LEMMA OthersView ==
  ASSUME Inv, Inv', ViewInv, Keeps,
         notified \subseteq notified',
         \A j \in Job : runner # "down" /\ j \notin notified' =>
           \/ row'[j].state = row[j].state
           \/ row[j].state = "done" /\ row'[j].state = "none"
  PROVE  ViewInv'
<1>1. (runner # "run" => dispatching = NoJob)'
  BY DEF ViewInv, Keeps
<1>2. CASE runner = "down"
  BY <1>1, <1>2, Constants DEF ViewInv, ViewOf, Keeps
<1>3. CASE runner # "down"
  <2>1. ASSUME NEW j \in Job, runner' \in {"notify", "run"}, j \notin notified',
               j # dispatching'
        PROVE  Reflects(j, row[j].state)'
    <3>1. Reflects(j, row[j].state)
      BY <2>1 DEF ViewInv, ViewOf, Keeps
    <3>2. SamePlace(tree, tree', j)
      BY DEF Keeps, SamePlace
    <3>3. CASE row'[j].state = row[j].state
      BY <3>1, <3>2, <3>3, SamePlaceReflects
    <3>4. CASE row[j].state = "done" /\ row'[j].state = "none"
      BY <3>1, <3>4 DEF Keeps, Reflects
    <3> QED BY <1>3, <2>1, <3>3, <3>4
  <2>2. ASSUME NEW j \in Job, j = dispatching', j \notin notified'
        PROVE  row'[j].state \notin {"none", "done"}
    BY <1>3, <2>2 DEF ViewInv, ViewOf, Keeps
  <2> QED BY <1>1, <2>1, <2>2 DEF ViewInv, ViewOf
<1> QED BY <1>2, <1>3

LEMMA ProcessNotificationView ==
  ASSUME Inv, Inv', ViewInv, NEW j \in Job, ProcessNotification(j)
  PROVE  ViewInv'
<1> DEFINE c == ChannelOf[j]
           t == IF j \in changed THEN Remove(tree, j, c) ELSE tree
<1>1. /\ runner = "notify" /\ dispatching = NoJob /\ row' = row
      /\ UNCHANGED <<runner, dispatching>>
      /\ notified' = notified \ {j}
  BY DEF ViewInv, ProcessNotification
<1>2. c \in Channel /\ tree \in Trees /\ FlowOf(tree, j, c) /\ TableTyped
  BY Constants DEF Inv, RunnerTyped, FlowInv
<1>3. /\ t \in Trees /\ FlowOf(t, j, c)
      /\ \A i \in Job \ {j} : SamePlace(tree, t, i)
  <2>1. CASE j \in changed
    BY <1>2, <2>1, RemoveFlows, AbsentFlows
  <2>2. CASE j \notin changed
    BY <1>2, <2>2 DEF SamePlace
  <2> QED BY <2>1, <2>2
<1>. HIDE DEF t
<1>4. CASE row[j].state = "none"
  <2>1. tree' = Remove(tree, j, c)
    BY <1>4 DEF ProcessNotification
  <2>2. Absent(tree', j) /\ \A i \in Job \ {j} : SamePlace(tree, tree', i)
    BY <1>2, <2>1, RemoveFlows
  <2>3. Reflects(j, row[j].state)'
    BY <1>1, <1>4, <2>2 DEF Reflects, Absent
  <2> QED BY <1>1, <2>2, <2>3, SamePlaceReflects, Constants DEF ViewInv, ViewOf
<1>5. CASE row[j].state # "none"
  <2>1. row[j].state \in {"done", "pending", "enqueued", "started", "failed"}
    BY <1>2, <1>5, StateOf
  <2>2. tree' = Notified(t, j, c, row[j].state)
    BY <1>5 DEF ProcessNotification, t
  <2>3. \A i \in Job \ {j} : SamePlace(tree, tree', i)
    <3>1. \A i \in Job \ {j} : SamePlace(t, tree', i)
      BY <1>2, <1>3, <2>1, <2>2, NotifiedFlows
    <3> QED BY <1>3, <3>1 DEF SamePlace
  <2>4. /\ row[j].state = "done" => Absent(tree', j)
        /\ row[j].state = "pending" => j \in tree'.queue[c]
        /\ row[j].state = "failed" => j \in tree'.failed[c]
        /\ row[j].state \in {"enqueued", "started"} => j \in tree'.running[c]
    BY <1>2, <1>3, <2>1, <2>2, NotifiedLands
  <2>5. row[j].state = "pending" => j \in Waiting(tree')
    BY <1>2, <2>4 DEF Waiting
  <2>6. Reflects(j, row[j].state)'
    BY <1>1, <2>1, <2>4, <2>5 DEF Reflects, Absent
  <2> QED BY <1>1, <2>3, <2>6, SamePlaceReflects, Constants DEF ViewInv, ViewOf
<1> QED BY <1>4, <1>5

LEMMA LoadJobsView ==
  ASSUME Inv, ViewInv, LoadJobs
  PROVE  ViewInv'
<1>1. /\ dispatching' = NoJob /\ row' = row /\ tree' = InChannels /\ TableTyped
      /\ runner' = "notify"
  BY DEF LoadJobs, ViewInv, Inv
<1>2. ASSUME NEW j \in Job PROVE Reflects(j, row[j].state)'
  <2>1. ChannelOf[j] \in Channel /\ ChannelOf[j] \in Path[ChannelOf[j]]
    BY Constants, PathClosed
  <2>2. /\ row[j].state = "pending" => j \in InChannels.queue[ChannelOf[j]]
        /\ row[j].state = "failed" => j \in InChannels.failed[ChannelOf[j]]
        /\ row[j].state \in {"enqueued", "started"} =>
             j \in InChannels.running[ChannelOf[j]]
        /\ row[j].state \in {"none", "done"} => Absent(InChannels, j)
    BY <2>1 DEF InChannels, Absent, Within
  <2>3. row[j].state = "pending" => j \in Waiting(InChannels)
    BY <2>1, <2>2 DEF Waiting
  <2> QED BY <1>1, <2>2, <2>3, StateOf DEF Reflects, Absent
<1> QED BY <1>1, <1>2, Constants DEF ViewInv, ViewOf

LEMMA PullView ==
  ASSUME Inv, Inv', ViewInv, NEW c \in Channel, NEW j \in Job, Pull(c, j)
  PROVE  ViewInv'
<1>1. /\ ChannelOf[j] \in Channel /\ tree \in Trees /\ TableTyped
      /\ FlowOf(tree, j, ChannelOf[j])
      /\ j \in tree.queue[c] /\ tree' = Pulled(tree, j, c)
  BY Constants DEF Inv, RunnerTyped, FlowInv, Pull, Poppable
<1>2. /\ runner = "run" /\ dispatching = NoJob
      /\ UNCHANGED <<runner, row, notified>>
      /\ dispatching' = IF c = Root THEN j ELSE NoJob
  BY DEF Pull
<1>3. \A i \in Job \ {j} : SamePlace(tree, tree', i)
  BY PullInv
<1>4. j \notin notified => Reflects(j, row[j].state)
  BY <1>2, Constants DEF ViewInv, ViewOf
<1>5. ~ Absent(tree, j) /\ \A d \in Channel : j \notin tree.failed[d]
  BY <1>1 DEF Absent, Within, FlowOf
<1>6. j \notin notified => row[j].state \in {"pending", "enqueued", "started"}
  BY <1>1, <1>4, <1>5, StateOf, ReflectsMeans
<1>7. j \notin notified /\ c # Root => Reflects(j, row[j].state)'
  <2>1. SUFFICES ASSUME j \notin notified, c # Root PROVE Reflects(j, row[j].state)'
    OBVIOUS
  <2>2. Parent[c] \in Channel
    BY <2>1, TreeAssumption
  <2>3. j \in Waiting(tree')
    <3>1. j \in tree'.queue[Parent[c]]
      BY <1>1, <2>1, <2>2 DEF Pulled, With
    <3> QED BY <2>2, <3>1 DEF Waiting
  <2>4. j \in tree.running[ChannelOf[j]] => j \in tree'.running[ChannelOf[j]]
    BY <1>1 DEF Pulled, With, Trees
  <2>5. CASE row[j].state = "pending"
    BY <1>2, <2>3, <2>5 DEF Reflects
  <2>6. CASE row[j].state \in {"enqueued", "started"}
    <3>1. j \in tree.running[ChannelOf[j]]
      BY <1>4, <2>1, <2>6, ReflectsMeans
    <3> QED BY <1>2, <2>4, <2>6, <3>1 DEF Reflects
  <2> QED BY <1>6, <2>1, <2>5, <2>6
<1>8. ASSUME NEW i \in Job \ {j} PROVE ViewOf(i)'
  BY <1>2, <1>3, <1>8, SamePlaceReflects, Constants DEF ViewInv, ViewOf
<1>9. ViewOf(j)'
  BY <1>2, <1>6, <1>7, Constants DEF ViewOf
<1> QED BY <1>2, <1>8, <1>9 DEF ViewInv

LEMMA RunJobView ==
  ASSUME Inv, Inv', ViewInv, NEW r \in Req, RunJob(r)
  PROVE  ViewInv'
<1>. PICK j \in Job : j = dispatching
  BY DEF Inv, RunnerTyped, RunJob
<1>1. /\ runner = "run" /\ dispatching' = NoJob
      /\ UNCHANGED <<runner, tree>>
      /\ \A i \in Job \ {j} : row'[i] = row[i]
      /\ notified' = IF row[j].state = "none" THEN notified ELSE notified \cup {j}
  BY DEF RunJob, Write, Announced, Inv, TableTyped
<1>2. j \in notified'
  BY <1>1 DEF ViewInv, ViewOf
<1>3. ASSUME NEW i \in Job \ {j} PROVE ViewOf(i)'
  <2>1. SamePlace(tree, tree', i)
    BY <1>1 DEF SamePlace
  <2> QED BY <1>1, <2>1, SamePlaceReflects, Constants DEF ViewInv, ViewOf
<1>4. ViewOf(j)'
  BY <1>1, <1>2, Constants DEF ViewOf
<1> QED BY <1>1, <1>3, <1>4 DEF ViewInv

\* What others than the runner do to the rows, they notify.
LEMMA WriteNotifies ==
  ASSUME TableTyped, NEW j \in Job, NEW new, NEW q, Write(j, new, q)
  PROVE  /\ notified \subseteq notified'
         /\ \A i \in Job : runner # "down" /\ i \notin notified' => row'[i] = row[i]
BY DEF Write, Announced, TableTyped

LEMMA ServerView ==
  ASSUME Inv, Inv', ViewInv, NEW r \in Req,
         LoadJob(r) \/ SetStarted(r) \/ Perform(r) \/ Ends(r)
  PROVE  ViewInv'
<1>1. TableTyped
  BY DEF Inv
<1>2. CASE LoadJob(r) \/ Perform(r)
  BY <1>2, OthersView DEF LoadJob, Perform, runnerVars, Keeps
<1>3. CASE SetStarted(r)
  <2>1. Write(req[r].job, Stored(req[r].job, req[r].copy, "started"),
              Become(r, [req[r] EXCEPT !.srv = "started"]))
    BY <1>3 DEF SetStarted, Store
  <2>2. req[r].job \in Job
    BY <1>1, <1>3, BusyRequest DEF SetStarted
  <2> QED BY <1>1, <1>3, <2>1, <2>2, WriteNotifies, OthersView
          DEF SetStarted, runnerVars, Keeps
<1>4. CASE Ends(r)
  <2>1. req[r].job \in Job
    BY <1>1, <1>4, BusyRequest DEF Ends
  <2>2. CASE Closes(r)
    <3>1. PICK c \in Copy, s \in {"done", "pending", "failed"}, a \in {"ok", "error"} :
            Store(r, c, s, Answered(req[r], a))
      BY <2>2 DEF Closes
    <3>2. Write(req[r].job, Stored(req[r].job, c, s), Become(r, Answered(req[r], a)))
      BY <3>1 DEF Store
    <3> QED BY <1>1, <1>4, <2>1, <3>2, WriteNotifies, OthersView DEF Ends
  <2>3. CASE Drops(r)
    BY <1>4, <2>3, OthersView DEF Drops, Ends
  <2> QED BY <1>4, <2>2, <2>3 DEF Ends
<1> QED BY <1>2, <1>3, <1>4

LEMMA ClientView ==
  ASSUME Inv, Inv', ViewInv, NEW r \in Req, ClientStep(r)
  PROVE  ViewInv'
<1>1. req[r].client = "waiting" /\ UNCHANGED runnerVars
  BY DEF ClientStep, GetAnswer, GiveUp
<1>2. TableTyped /\ req[r].job \in Job
  BY <1>1 DEF Inv, TableTyped, AboutJob, Idle
<1>3. CASE UNCHANGED <<row, notified>>
  BY <1>1, <1>3, OthersView DEF runnerVars, Keeps
<1>4. CASE Write(req[r].job, SetJobPending(req[r].job), Become(r, Gone(req[r])))
  BY <1>1, <1>2, <1>4, WriteNotifies, OthersView DEF runnerVars, Keeps
<1> QED BY <1>3, <1>4 DEF ClientStep, GetAnswer, GiveUp

LEMMA UserWritesView ==
  ASSUME Inv, Inv', ViewInv, NEW j \in Job, UserWrites(j)
  PROVE  ViewInv'
<1>1. PICK new \in Row : Write(j, new, req)
  BY DEF UserWrites
<1> QED BY <1>1, WriteNotifies, OthersView DEF UserWrites, Inv

LEMMA AutovacuumView == ASSUME Inv, Inv', ViewInv, Autovacuum PROVE ViewInv'
<1>1. \A j \in Job \ Vacuumed : row'[j] = row[j]
  BY DEF Autovacuum
<1>2. \A j \in Vacuumed : row'[j].state = "none"
  BY DEF Autovacuum, Vacuumed, NoRow
<1>3. /\ notified \subseteq notified'
      /\ \A j \in Vacuumed : runner # "down" /\ j \notin notified' => row[j].state = "done"
  BY DEF Autovacuum, Announced
<1> QED BY <1>1, <1>2, <1>3, OthersView DEF Autovacuum, runnerVars, Keeps

LEMMA TimeView == ASSUME Inv, Inv', ViewInv, TimeStep PROVE ViewInv'
<1>1. ASSUME NEW j \in Job, MonthPasses(j) PROVE ViewInv'
  <2>1. \A i \in Job : row'[i].state = row[i].state
    BY <1>1 DEF MonthPasses, Inv, TableTyped, Row
  <2> QED BY <1>1, <2>1, OthersView DEF MonthPasses, runnerVars, Keeps
<1>2. ASSUME NEW j \in Job, EtaPasses(j) PROVE ViewInv'
  BY <1>2, OthersView DEF EtaPasses, runnerVars, Keeps
<1> QED BY <1>1, <1>2 DEF TimeStep

LEMMA LoseRunnerView == ASSUME LoseRunner PROVE ViewInv'
BY Constants DEF LoseRunner, ViewInv, ViewOf

\* The runner goes from one of its phases to the next.
LEMMA PhaseView ==
  ASSUME Inv, Inv', ViewInv, Listen \/ StartRunJobs \/ EndRunJobs
  PROVE  ViewInv'
<1>1. CASE Listen
  BY <1>1, Constants DEF Listen, ViewInv, ViewOf
<1>2. CASE StartRunJobs \/ EndRunJobs
  <2>1. /\ runner \in {"notify", "run"} /\ dispatching = NoJob
        /\ UNCHANGED <<row, tree, notified, dispatching>>
    BY <1>2 DEF StartRunJobs, EndRunJobs, ViewInv
  <2>2. \A j \in Job : SamePlace(tree, tree', j)
    BY <2>1 DEF SamePlace
  <2> QED BY <2>1, <2>2, SamePlaceReflects, Constants DEF ViewInv, ViewOf
<1> QED BY <1>1, <1>2

LEMMA NextView == Inv /\ ViewInv /\ [Next]_vars => ViewInv'
<1> SUFFICES ASSUME Inv, ViewInv, [Next]_vars PROVE ViewInv'
  OBVIOUS
<1>1. Inv' /\ TableTyped
  BY NextInv DEF Inv
<1>2. CASE Listen \/ StartRunJobs \/ EndRunJobs
  BY <1>1, <1>2, PhaseView
<1>3. CASE LoadJobs
  BY <1>3, LoadJobsView
<1>4. ASSUME NEW j \in Job, ProcessNotification(j) PROVE ViewInv'
  BY <1>1, <1>4, ProcessNotificationView
<1>5. ASSUME NEW c \in Channel, NEW j \in Job, Pull(c, j) PROVE ViewInv'
  BY <1>1, <1>5, PullView
<1>6. ASSUME NEW r \in Req, RunJob(r) PROVE ViewInv'
  BY <1>1, <1>6, RunJobView
<1>7. ASSUME NEW r \in Req, LoadJob(r) \/ SetStarted(r) \/ Perform(r) \/ Ends(r)
      PROVE  ViewInv'
  BY <1>1, <1>7, ServerView
<1>8. ASSUME NEW r \in Req, ClientStep(r) PROVE ViewInv'
  BY <1>1, <1>8, ClientView
<1>9. ASSUME NEW j \in Job, UserWrites(j) PROVE ViewInv'
  BY <1>1, <1>9, UserWritesView
<1>10. CASE Autovacuum \/ TimeStep
  BY <1>1, <1>10, AutovacuumView, TimeView
<1>11. CASE RunnerFails \/ ServerCrash
  BY <1>11, LoseRunnerView DEF RunnerFails, ServerCrash
<1>12. ASSUME NEW r \in Req, KillWorker(r) PROVE ViewInv'
  BY <1>1, <1>12, OthersView DEF KillWorker, runnerVars, Keeps
<1>13. CASE UNCHANGED vars
  BY <1>1, <1>13, OthersView DEF vars, Keeps
<1> QED BY <1>1, <1>2, <1>3, <1>4, <1>5, <1>6, <1>7, <1>8, <1>9, <1>10, <1>11,
           <1>12, <1>13, NextShape

LEMMA InitView == Init => ViewInv
BY Constants DEF Init, ViewInv, ViewOf

\* The runner's view catches up with the table: where they differ, the runner
\* is notified or about to write the row itself.
THEOREM NothingIsMissed == Spec => []NoLostNotification
<1>1. ViewInv => NoLostNotification
  BY DEF ViewInv, ViewOf, NoLostNotification
<1> QED BY <1>1, InitInv, NextInv, InitView, NextView, PTL DEF Spec
=============================================================================
