------------------------- MODULE WorkerQueue_proofs -------------------------
(***************************************************************************)
(* Proofs about WorkerQueue: types, that the memory of a living worker     *)
(* backs what the table says of it, that effects are committed once, that  *)
(* the end of a job is final.                                              *)
(***************************************************************************)
EXTENDS WorkerQueue, TLAPS

-----------------------------------------------------------------------------
(* The inductive invariant *)

\* worker_id is a foreign key.
ForeignKey == \A j \in Job, w \in Worker : row[j].worker = w => heard[w] # "no"

\* A worker that is not up has nothing in memory.
Empty(w) ==
  life[w] # "up" =>
    /\ queue[w] = [j \in Job |-> 0]
    /\ listed[w] = {}
    /\ putting[w] = NoJob
    /\ thread[w] = Idle
    /\ life[w] = "unborn" => heard[w] = "no"

\* Only the job of a busy thread is one.
Busy(w) == thread[w].at = "idle" <=> thread[w].job = NoJob

\* The end of a job takes it from its worker.
Ended(j) == row[j].worker # NoWorker => row[j].state \in {"pending", "enqueued", "started"}

\* Served, with what the thread will do with the job in its hands.
ServedBy(j, w) ==
  (row[j].worker = w /\ life[w] = "up") =>
    /\ row[j].state = "enqueued" =>
         \/ queue[w][j] > 0 \/ putting[w] = j
         \/ thread[w].job = j /\ thread[w].at \in {"loaded", "resetting"}
    /\ row[j].state = "started" =>
         \/ j \in stuck
         \/ thread[w].job = j /\ thread[w].at \in {"started", "performing"}

\* Where a worker has a job: nowhere or in one place, and the table agrees.
OnePlace(j, w) ==
  /\ j \in listed[w] => /\ row[j].worker = w /\ row[j].state = "pending"
                        /\ queue[w][j] = 0 /\ putting[w] # j /\ thread[w].job # j
  /\ putting[w] = j => /\ row[j].worker = w /\ row[j].state = "enqueued"
                       /\ queue[w][j] = 0 /\ thread[w].job # j
  /\ queue[w][j] > 0 => /\ row[j].worker = w /\ row[j].state = "enqueued"
                        /\ queue[w][j] = 1 /\ thread[w].job # j
  /\ thread[w].job = j => /\ row[j].worker = w
                          /\ thread[w].at = "loaded" => row[j].state = "enqueued"
                          /\ thread[w].at # "loaded" => row[j].state = "started"
                          /\ thread[w].at # "resetting"
                          /\ thread[w].at = "performing" => thread[w].fresh

Undisturbed(j) ==
  j \notin disturbed =>
    /\ \A w \in Worker : OnePlace(j, w)
    /\ effects[j] # 2
    /\ row[j].state # "done" => effects[j] = 0

IInv ==
  /\ TypeOK
  /\ ForeignKey
  /\ \A w \in Worker : Empty(w) /\ Busy(w)
  /\ \A j \in Job : Ended(j) /\ Undisturbed(j)
  /\ \A j \in Job, w \in Worker : ServedBy(j, w)

-----------------------------------------------------------------------------
(* Types *)

LEMMA Constants ==
  NoJob \notin Job /\ NoWorker \notin Worker /\ LateBound \in Nat /\ TouchBound \in Nat
    /\ QueueBound \in Nat /\ QueueBound # 0
BY WorkerAssumption, Zenon

\* A worker to store a job with, and the rows stored.
LEMMA StoredType ==
  ASSUME row \in [Job -> Row], NEW j \in Job, NEW s \in JobState, NEW w \in Worker \cup {NoWorker}
  PROVE  Stored(j, s, w) \in [Job -> Row]
BY DEF Stored, Row

LEMMA WorkerIdType ==
  ASSUME NEW w \in Worker
  PROVE  WorkerId(w) \in Worker \cup {NoWorker}
BY DEF WorkerId

LEMMA IdleType == Idle \in Thread
BY DEF Idle, Thread

LEMMA WrittenType ==
  ASSUME NEW t \in [Worker -> Thread], NEW S
  PROVE  Written(S, t) \in [Worker -> Thread]
<1>1. \A u \in Thread : [u EXCEPT !.fresh = FALSE] \in Thread
  BY DEF Thread
<1> QED BY <1>1 DEF Written

LEMMA RestsType ==
  ASSUME NEW t \in [Worker -> Thread], NEW w \in Worker
  PROVE  Rests(t, w) \in [Worker -> Thread]
BY IdleType DEF Rests

-----------------------------------------------------------------------------
(* Steps *)

\* The row of j, and no other, is stored with state s and worker w.
RowStored(j, s, w) ==
  /\ row'[j].state = s /\ row'[j].worker = w
  /\ \A i \in Job : i # j => row'[i] = row[i]

LEMMA StoredAt ==
  ASSUME row \in [Job -> Row], NEW j \in Job, NEW s \in JobState, NEW w \in Worker \cup {NoWorker},
         row' = Stored(j, s, w)
  PROVE  row' \in [Job -> Row] /\ RowStored(j, s, w)
<1>1. row' \in [Job -> Row]
  BY StoredType
<1> QED BY <1>1 DEF Stored, Row, RowStored

\* What the threads other than w, and w itself, have after a write of j's row.
ThreadsSee(w, j) ==
  /\ thread' \in [Worker -> Thread]
  /\ \A v \in Worker : v # w =>
       /\ thread'[v].job = thread[v].job /\ thread'[v].at = thread[v].at
       /\ thread[v].job # j => thread'[v] = thread[v]
       /\ thread[v] = Idle => thread'[v] = Idle

LEMMA WrittenAt ==
  ASSUME thread \in [Worker -> Thread], NEW S, NEW v \in Worker
  PROVE  /\ Written(S, thread)[v].job = thread[v].job
         /\ Written(S, thread)[v].at = thread[v].at
         /\ Written(S, thread)[v].active = thread[v].active
         /\ thread[v].job \notin S => Written(S, thread)[v] = thread[v]
         /\ Written(S, thread)[v] \in Thread
<1>1. thread[v] \in Thread
  OBVIOUS
<1>2. CASE thread[v].job \in S
  <2>1. Written(S, thread)[v] = [thread[v] EXCEPT !.fresh = FALSE]
    BY <1>2 DEF Written
  <2> QED BY <2>1, <1>1, <1>2 DEF Thread
<1>3. CASE thread[v].job \notin S
  BY <1>1, <1>3 DEF Written
<1> QED BY <1>2, <1>3

LEMMA IdleWritten ==
  ASSUME thread \in [Worker -> Thread], NEW S \in SUBSET Job, NEW v \in Worker, thread[v] = Idle
  PROVE  Written(S, thread)[v] = Idle
<1>1. Idle.job = NoJob
  BY DEF Idle
<1>2. thread[v].job \notin S
  BY <1>1, Constants
<1>3. Written(S, thread)[v] = thread[v]
  BY <1>2, WrittenAt
<1> QED BY <1>3

\* The thread w rests after the write.
LEMMA RestsAfter ==
  ASSUME thread \in [Worker -> Thread], NEW w \in Worker, NEW j \in Job,
         thread' = Rests(Written({j}, thread), w)
  PROVE  ThreadsSee(w, j) /\ thread'[w] = Idle /\ thread'[w].at = "idle" /\ thread'[w].job = NoJob
<1>1. Written({j}, thread) \in [Worker -> Thread]
  BY WrittenType
<1>2. thread' \in [Worker -> Thread] /\ thread'[w] = Idle
  BY <1>1, RestsType DEF Rests
<1>3. \A v \in Worker : v # w => thread'[v] = Written({j}, thread)[v]
  BY <1>1 DEF Rests
<1>4. Idle.at = "idle" /\ Idle.job = NoJob
  BY DEF Idle
<1>5. \A v \in Worker : v # w =>
        /\ thread'[v].job = thread[v].job /\ thread'[v].at = thread[v].at
        /\ thread[v].job # j => thread'[v] = thread[v]
        /\ thread[v] = Idle => thread'[v] = Idle
  <2>1. SUFFICES ASSUME NEW v \in Worker, v # w
                 PROVE  /\ thread'[v].job = thread[v].job /\ thread'[v].at = thread[v].at
                        /\ thread[v].job # j => thread'[v] = thread[v]
                        /\ thread[v] = Idle => thread'[v] = Idle
    OBVIOUS
  <2>2. thread'[v] = Written({j}, thread)[v]
    BY <1>3, <2>1
  <2>3. /\ Written({j}, thread)[v].job = thread[v].job
        /\ Written({j}, thread)[v].at = thread[v].at
        /\ thread[v].job \notin {j} => Written({j}, thread)[v] = thread[v]
    BY WrittenAt
  <2>4. thread[v] = Idle => Written({j}, thread)[v] = Idle
    BY IdleWritten
  <2> QED BY <2>2, <2>3, <2>4
<1> QED BY <1>2, <1>4, <1>5 DEF ThreadsSee

\* A thread that is performing, started, loaded or resetting has a job.
LEMMA HasJob ==
  ASSUME IInv, NEW w \in Worker, thread[w].at # "idle"
  PROVE  thread[w].job \in Job
BY DEF IInv, Busy, TypeOK, Thread


\* A step about the job j leaves the others where they are.
About(j) ==
  /\ life' = life
  /\ \A i \in Job : i # j =>
       /\ row'[i] = row[i] /\ effects'[i] = effects[i]
       /\ i \in disturbed' <=> i \in disturbed
       /\ i \in stuck' <=> i \in stuck
       /\ \A v \in Worker :
            /\ queue'[v][i] = queue[v][i]
            /\ i \in listed'[v] <=> i \in listed[v]
            /\ putting'[v] = i <=> putting[v] = i
            /\ thread'[v].job = i <=> thread[v].job = i
            /\ thread[v].job = i => thread'[v] = thread[v]

\* What is left to show of such a step.
AboutInv(j) ==
  /\ TypeOK' /\ ForeignKey'
  /\ \A v \in Worker : Empty(v)' /\ Busy(v)'
  /\ Ended(j)' /\ Undisturbed(j)'
  /\ \A v \in Worker : ServedBy(j, v)'

LEMMA AboutOne ==
  ASSUME IInv, NEW j \in Job, About(j), AboutInv(j)
  PROVE  IInv'
<1>1. ASSUME NEW i \in Job, i # j
      PROVE  Ended(i)' /\ Undisturbed(i)' /\ \A v \in Worker : ServedBy(i, v)'
  <2>1. Ended(i)'
    BY <1>1 DEF IInv, About, Ended
  <2>2. Undisturbed(i)'
    <3>1. SUFFICES ASSUME i \notin disturbed'
                   PROVE  /\ \A v \in Worker : OnePlace(i, v)'
                          /\ effects'[i] # 2
                          /\ row'[i].state # "done" => effects'[i] = 0
      BY DEF Undisturbed
    <3>2. /\ \A v \in Worker : OnePlace(i, v)
          /\ effects[i] # 2
          /\ row[i].state # "done" => effects[i] = 0
      BY <1>1, <3>1 DEF IInv, About, Undisturbed
    <3>3. \A v \in Worker : OnePlace(i, v)'
      BY <1>1, <3>2 DEF About, OnePlace
    <3> QED BY <1>1, <3>2, <3>3 DEF About
  <2>3. ASSUME NEW v \in Worker
        PROVE  ServedBy(i, v)'
    <3>1. ServedBy(i, v)
      BY DEF IInv
    <3> QED BY <1>1, <3>1 DEF About, ServedBy
  <2> QED BY <2>1, <2>2, <2>3
<1>2. \A i \in Job : Ended(i)' /\ Undisturbed(i)' /\ \A v \in Worker : ServedBy(i, v)'
  BY <1>1 DEF AboutInv
<1> QED BY <1>2 DEF IInv, AboutInv

\* An undisturbed job is known to its worker only.
LEMMA Elsewhere ==
  ASSUME IInv, NEW j \in Job, j \notin disturbed, NEW w \in Worker, row[j].worker = w,
         NEW v \in Worker, v # w
  PROVE  /\ j \notin listed[v] /\ putting[v] # j /\ ~(queue[v][j] > 0) /\ thread[v].job # j
BY DEF IInv, Undisturbed, OnePlace

LEMMA Nowhere ==
  ASSUME IInv, NEW j \in Job, j \notin disturbed, row[j].worker = NoWorker,
         NEW v \in Worker
  PROVE  /\ j \notin listed[v] /\ putting[v] # j /\ ~(queue[v][j] > 0) /\ thread[v].job # j
BY Constants DEF IInv, Undisturbed, OnePlace

\* The effects of a job are committed by the step that stores it as done.
EffectsOf(j, s) ==
  \/ effects' = effects
  \/ s = "done" /\ effects' = [effects EXCEPT ![j] = IF @ < 2 THEN @ + 1 ELSE @]

\* The end of a job by its thread: ResetToPending, Succeed, NothingToDo, Fail.
LEMMA Finishing ==
  ASSUME IInv, NEW w \in Worker, Up(w), thread[w].at # "idle",
         NEW s \in {"pending", "failed", "done"},
         row' \in [Job -> Row], RowStored(thread[w].job, s, NoWorker),
         thread' = Rests(Written({thread[w].job}, thread), w),
         UNCHANGED <<life, heard, late, touched, queue, listed, putting, disturbed, stuck>>,
         EffectsOf(thread[w].job, s)
  PROVE  IInv'
<1>1. thread[w].job \in Job
  BY HasJob
<1>2. PICK j \in Job : j = thread[w].job
  BY <1>1
<1>3. TypeOK /\ thread \in [Worker -> Thread]
  BY DEF IInv, TypeOK
<1>4. ThreadsSee(w, j) /\ thread'[w] = Idle /\ thread'[w].at = "idle" /\ thread'[w].job = NoJob
  BY <1>2, <1>3, RestsAfter
<1>5. RowStored(j, s, NoWorker)
  BY <1>2
<1>0. /\ effects' \in [Job -> 0 .. 2]
      /\ \A i \in Job : i # j => effects'[i] = effects[i]
      /\ s # "done" => effects' = effects
      /\ effects[j] = 0 => effects'[j] # 2
  <2>1. effects \in [Job -> 0 .. 2] /\ EffectsOf(j, s)
    BY <1>2, <1>3 DEF TypeOK
  <2>2. CASE effects' = effects
    BY <2>1, <2>2
  <2>3. CASE s = "done" /\ effects' = [effects EXCEPT ![j] = IF @ < 2 THEN @ + 1 ELSE @]
    <3>1. (IF effects[j] < 2 THEN effects[j] + 1 ELSE effects[j]) \in 0 .. 2
      BY <2>1
    <3>2. effects'[j] = IF effects[j] < 2 THEN effects[j] + 1 ELSE effects[j]
      BY <2>1, <2>3
    <3> QED BY <2>1, <2>3, <3>1, <3>2
  <2> QED BY <2>1, <2>2, <2>3 DEF EffectsOf
<1>6. About(j)
  <2>1. \A i \in Job, v \in Worker : i # j =>
          /\ thread'[v].job = i <=> thread[v].job = i
          /\ thread[v].job = i => thread'[v] = thread[v]
    BY <1>2, <1>4, Constants DEF ThreadsSee
  <2> QED BY <1>2, <1>5, <1>0, <2>1 DEF About, RowStored
<1>7. TypeOK'
  BY <1>3, <1>4, <1>0 DEF TypeOK, ThreadsSee
<1>8. ForeignKey'
  BY <1>5, Constants DEF IInv, ForeignKey, RowStored
<1>9. \A v \in Worker : Empty(v)'
  BY <1>4 DEF IInv, Empty, ThreadsSee, Up
<1>10. \A v \in Worker : Busy(v)'
  BY <1>4 DEF IInv, Busy, ThreadsSee
<1>11. Ended(j)' /\ \A v \in Worker : ServedBy(j, v)'
  BY <1>5, Constants DEF RowStored, Ended, ServedBy
<1>12. Undisturbed(j)'
  <2>1. SUFFICES ASSUME j \notin disturbed
                 PROVE  /\ \A v \in Worker : OnePlace(j, v)'
                        /\ effects'[j] # 2
                        /\ row'[j].state # "done" => effects'[j] = 0
    BY DEF Undisturbed
  <2>2. OnePlace(j, w) /\ (row[j].state # "done" => effects[j] = 0)
    BY <2>1 DEF IInv, Undisturbed
  <2>3. /\ row[j].worker = w /\ row[j].state \in {"enqueued", "started"}
        /\ j \notin listed[w] /\ putting[w] # j /\ ~(queue[w][j] > 0)
    BY <1>2, <2>2 DEF OnePlace
  <2>4. \A v \in Worker : v # w =>
          /\ j \notin listed[v] /\ putting[v] # j /\ ~(queue[v][j] > 0) /\ thread[v].job # j
    BY <2>1, <2>3, Elsewhere
  <2>5. \A v \in Worker : thread'[v].job # j
    BY <1>4, <2>4, Constants DEF ThreadsSee
  <2>6. \A v \in Worker : OnePlace(j, v)'
    BY <2>3, <2>4, <2>5 DEF OnePlace
  <2>7. effects[j] = 0
    BY <2>2, <2>3
  <2>8. row'[j].state = s
    BY <1>5 DEF RowStored
  <2> QED BY <1>0, <2>6, <2>7, <2>8
<1> QED BY <1>6, <1>7, <1>8, <1>9, <1>10, <1>11, <1>12, AboutOne DEF AboutInv

LEMMA ResetToPendingInv ==
  ASSUME IInv, NEW w \in Worker, ResetToPending(w)
  PROVE  IInv'
<1>1. TypeOK /\ thread[w].job \in Job /\ Up(w) /\ thread[w].at # "idle"
  BY HasJob DEF IInv, ResetToPending
<1>2. row' \in [Job -> Row] /\ RowStored(thread[w].job, "pending", NoWorker)
  BY <1>1, StoredAt DEF TypeOK, ResetToPending, JobState
<1> QED BY <1>1, <1>2, Finishing DEF ResetToPending, EffectsOf

LEMMA SucceedInv ==
  ASSUME IInv, NEW w \in Worker, Succeed(w)
  PROVE  IInv'
<1>1. TypeOK /\ thread[w].job \in Job /\ Up(w) /\ thread[w].at # "idle"
  BY HasJob DEF IInv, Succeed, Performing
<1>2. row' \in [Job -> Row] /\ RowStored(thread[w].job, "done", NoWorker)
  BY <1>1, StoredAt DEF TypeOK, Succeed, JobState
<1>3. EffectsOf(thread[w].job, "done")
  BY DEF Succeed, EffectsOf
<1> QED BY <1>1, <1>2, <1>3, Finishing DEF Succeed

LEMMA NothingToDoInv ==
  ASSUME IInv, NEW w \in Worker, NothingToDo(w)
  PROVE  IInv'
<1>1. TypeOK /\ thread[w].job \in Job /\ Up(w) /\ thread[w].at # "idle"
  BY HasJob DEF IInv, NothingToDo, Performing
<1>2. PICK j \in Job : j = thread[w].job
  BY <1>1
<1>3. Stored(j, "done", NoWorker) \in [Job -> Row]
  BY <1>1, StoredType DEF TypeOK, JobState
<1>4. row' = [Stored(j, "done", NoWorker) EXCEPT ![j].active = FALSE]
  BY <1>2 DEF NothingToDo, EndsAs
<1>5. row' \in [Job -> Row]
  <2> DEFINE r == Stored(j, "done", NoWorker)
  <2>1. [r[j] EXCEPT !.active = FALSE] \in Row
    BY <1>3 DEF Row
  <2> HIDE DEF r
  <2>2. row' = [r EXCEPT ![j] = [r[j] EXCEPT !.active = FALSE]]
    BY <1>4 DEF r
  <2> QED BY <1>3, <2>1, <2>2 DEF r
<1>6. RowStored(j, "done", NoWorker)
  BY <1>1, <1>4 DEF TypeOK, Stored, Row, RowStored
<1> QED BY <1>1, <1>2, <1>5, <1>6, Finishing DEF NothingToDo, EndsAs, EffectsOf

LEMMA FailInv ==
  ASSUME IInv, NEW w \in Worker, Fail(w)
  PROVE  IInv'
<1>1. TypeOK /\ thread[w].job \in Job /\ Up(w) /\ thread[w].at # "idle"
  BY HasJob DEF IInv, Fail
<1>2. row' \in [Job -> Row] /\ RowStored(thread[w].job, "failed", NoWorker)
  BY <1>1, StoredAt DEF TypeOK, Fail, EndsAs, JobState
<1> QED BY <1>1, <1>2, Finishing DEF Fail, EndsAs, EffectsOf

-----------------------------------------------------------------------------
(* Steps that store a job for its worker, or for nobody *)

\* The threads see a write of j's row, and go on.
LEMMA WrittenAfter ==
  ASSUME thread \in [Worker -> Thread], NEW j \in Job, thread' = Written({j}, thread)
  PROVE  /\ thread' \in [Worker -> Thread]
         /\ \A v \in Worker :
              /\ thread'[v].job = thread[v].job /\ thread'[v].at = thread[v].at
              /\ thread[v].job # j => thread'[v] = thread[v]
              /\ thread[v] = Idle => thread'[v] = Idle
<1>1. thread' \in [Worker -> Thread]
  BY WrittenType
<1>2. SUFFICES ASSUME NEW v \in Worker
               PROVE  /\ thread'[v].job = thread[v].job /\ thread'[v].at = thread[v].at
                      /\ thread[v].job # j => thread'[v] = thread[v]
                      /\ thread[v] = Idle => thread'[v] = Idle
  BY <1>1
<1>3. /\ Written({j}, thread)[v].job = thread[v].job
      /\ Written({j}, thread)[v].at = thread[v].at
      /\ thread[v].job \notin {j} => Written({j}, thread)[v] = thread[v]
  BY WrittenAt
<1>4. thread[v] = Idle => Written({j}, thread)[v] = Idle
  BY IdleWritten
<1> QED BY <1>3, <1>4

LEMMA DelayInv ==
  ASSUME IInv, NEW j \in Job, Delay(j)
  PROVE  IInv'
<1>1. TypeOK
  BY DEF IInv
<1>2. row' \in [Job -> Row] /\ RowStored(j, "pending", NoWorker)
  BY <1>1, StoredAt DEF TypeOK, Delay, JobState
<1>3. About(j)
  BY <1>2 DEF About, Delay, RowStored
<1>4. TypeOK' /\ ForeignKey'
  <2>1. TypeOK'
    BY <1>1, <1>2 DEF TypeOK, Delay
  <2>2. ForeignKey'
    BY <1>2, Constants DEF IInv, ForeignKey, Delay, RowStored
  <2> QED BY <2>1, <2>2
<1>5. \A v \in Worker : Empty(v)' /\ Busy(v)'
  BY DEF IInv, Empty, Busy, Delay
<1>6. Ended(j)' /\ \A v \in Worker : ServedBy(j, v)'
  BY <1>2, Constants DEF RowStored, Ended, ServedBy
<1>7. Undisturbed(j)'
  <2>1. CASE j \notin disturbed
    <3>1. row[j].worker = NoWorker
      BY <1>1 DEF IInv, Ended, Delay, TypeOK
    <3>2. \A v \in Worker : OnePlace(j, v)'
      BY <2>1, <3>1, Nowhere DEF OnePlace, Delay
    <3>3. effects[j] = 0
      BY <2>1 DEF IInv, Undisturbed, Delay
    <3> QED BY <3>2, <3>3 DEF Undisturbed, Delay
  <2>2. CASE j \in disturbed
    BY <2>2 DEF Undisturbed, Delay
  <2> QED BY <2>1, <2>2
<1> QED BY <1>3, <1>4, <1>5, <1>6, <1>7, AboutOne DEF AboutInv

LEMMA ChangeJobStateInv ==
  ASSUME IInv, NEW j \in Job, NEW s \in {"pending", "done"}, ChangeJobState(j, s)
  PROVE  IInv'
<1>1. TypeOK /\ thread \in [Worker -> Thread]
  BY DEF IInv, TypeOK
<1>2. row' \in [Job -> Row] /\ RowStored(j, s, NoWorker)
  BY <1>1, StoredAt DEF TypeOK, ChangeJobState, JobState
<1>3. /\ thread' \in [Worker -> Thread]
      /\ \A v \in Worker :
              /\ thread'[v].job = thread[v].job /\ thread'[v].at = thread[v].at
              /\ thread[v].job # j => thread'[v] = thread[v]
              /\ thread[v] = Idle => thread'[v] = Idle
  BY <1>1, WrittenAfter DEF ChangeJobState
<1>4. About(j)
  BY <1>2, <1>3 DEF About, ChangeJobState, RowStored
<1>5. TypeOK'
  <2>1. touched' \in 0 .. TouchBound
    <3>1. touched \in 0 .. TouchBound /\ touched < TouchBound /\ touched' = touched + 1
      BY <1>1 DEF TypeOK, ChangeJobState
    <3> QED BY <3>1, Constants
  <2> QED BY <1>1, <1>2, <1>3, <2>1 DEF TypeOK, ChangeJobState
<1>6. ForeignKey'
  BY <1>2, Constants DEF IInv, ForeignKey, ChangeJobState, RowStored
<1>7. \A v \in Worker : Empty(v)'
  BY <1>3 DEF IInv, Empty, ChangeJobState
<1>8. \A v \in Worker : Busy(v)'
  BY <1>3 DEF IInv, Busy
<1>9. Ended(j)' /\ \A v \in Worker : ServedBy(j, v)'
  BY <1>2, Constants DEF RowStored, Ended, ServedBy
<1>10. Undisturbed(j)'
  BY DEF Undisturbed, ChangeJobState
<1> QED BY <1>4, <1>5, <1>6, <1>7, <1>8, <1>9, <1>10, AboutOne DEF AboutInv

LEMMA EnqueueStoreInv ==
  ASSUME IInv, NEW w \in Worker, NEW j \in Job, EnqueueStore(w, j)
  PROVE  IInv'
<1>1. TypeOK /\ thread \in [Worker -> Thread]
  BY DEF IInv, TypeOK
<1>2. row' \in [Job -> Row] /\ RowStored(j, "enqueued", WorkerId(w))
  BY <1>1, StoredAt, WorkerIdType DEF TypeOK, EnqueueStore, JobState
<1>3. /\ thread' \in [Worker -> Thread]
      /\ \A v \in Worker :
              /\ thread'[v].job = thread[v].job /\ thread'[v].at = thread[v].at
              /\ thread[v].job # j => thread'[v] = thread[v]
              /\ thread[v] = Idle => thread'[v] = Idle
  BY <1>1, WrittenAfter DEF EnqueueStore
<1>4. /\ life' = life /\ heard' = heard /\ queue' = queue /\ effects' = effects
      /\ disturbed' = disturbed /\ stuck' = stuck /\ late' = late /\ touched' = touched
      /\ life[w] = "up" /\ j \in listed[w] /\ putting[w] = NoJob
  BY DEF EnqueueStore, Up
<1>5. /\ listed' \in [Worker -> SUBSET Job] /\ putting' \in [Worker -> Job \cup {NoJob}]
      /\ listed'[w] = listed[w] \ {j} /\ putting'[w] = j
      /\ \A v \in Worker : v # w => listed'[v] = listed[v] /\ putting'[v] = putting[v]
  BY <1>1 DEF TypeOK, EnqueueStore
<1>6. About(j)
  BY <1>2, <1>3, <1>4, <1>5, Constants DEF About, RowStored
<1>7. TypeOK'
  BY <1>1, <1>2, <1>3, <1>4, <1>5 DEF TypeOK
<1>8. ForeignKey'
  BY <1>2, <1>4, Constants DEF IInv, ForeignKey, RowStored, WorkerId
<1>9. \A v \in Worker : Empty(v)'
  BY <1>3, <1>4, <1>5 DEF IInv, Empty
<1>10. \A v \in Worker : Busy(v)'
  BY <1>3 DEF IInv, Busy
<1>11. Ended(j)' /\ \A v \in Worker : ServedBy(j, v)'
  BY <1>2, <1>5, Constants DEF RowStored, Ended, ServedBy, WorkerId
<1>12. Undisturbed(j)'
  <2>1. SUFFICES ASSUME j \notin disturbed
                 PROVE  /\ \A v \in Worker : OnePlace(j, v)'
                        /\ effects'[j] # 2
                        /\ row'[j].state # "done" => effects'[j] = 0
    BY <1>4 DEF Undisturbed
  <2>2. OnePlace(j, w) /\ effects[j] # 2 /\ (row[j].state # "done" => effects[j] = 0)
    BY <2>1 DEF IInv, Undisturbed
  <2>3. /\ row[j].worker = w /\ row[j].state = "pending"
        /\ queue[w][j] = 0 /\ thread[w].job # j
    BY <1>4, <2>2 DEF OnePlace
  <2>4. \A v \in Worker : v # w =>
          /\ j \notin listed[v] /\ putting[v] # j /\ ~(queue[v][j] > 0) /\ thread[v].job # j
    BY <2>1, <2>3, Elsewhere
  <2>5. row'[j].worker = w /\ row'[j].state = "enqueued"
    BY <1>2, <2>3 DEF IInv, ForeignKey, RowStored, WorkerId
  <2>6. \A v \in Worker : OnePlace(j, v)'
    BY <1>3, <1>4, <1>5, <2>3, <2>4, <2>5 DEF OnePlace
  <2> QED BY <1>4, <2>2, <2>3, <2>6
<1> QED BY <1>6, <1>7, <1>8, <1>9, <1>10, <1>11, <1>12, AboutOne DEF AboutInv

LEMMA EnqueuePutInv ==
  ASSUME IInv, NEW w \in Worker, EnqueuePut(w)
  PROVE  IInv'
<1>1. TypeOK /\ putting[w] \in Job
  BY DEF IInv, EnqueuePut
<1>2. PICK j \in Job : j = putting[w]
  BY <1>1
<1>3. /\ life' = life /\ heard' = heard /\ row' = row /\ effects' = effects /\ listed' = listed
      /\ disturbed' = disturbed /\ stuck' = stuck /\ late' = late /\ touched' = touched
      /\ thread' = thread /\ life[w] = "up" /\ queue[w][j] < QueueBound /\ j \notin listed[w]
  BY <1>2 DEF EnqueuePut, Up
<1>4. queue[w][j] \in 0 .. QueueBound /\ queue[w][j] + 1 \in 0 .. QueueBound
  <2>1. queue[w][j] \in 0 .. QueueBound
    BY <1>1 DEF TypeOK
  <2> QED BY <2>1, <1>3, Constants
<1>5. /\ queue' \in [Worker -> [Job -> 0 .. QueueBound]]
      /\ queue'[w][j] = queue[w][j] + 1
      /\ \A i \in Job : i # j => queue'[w][i] = queue[w][i]
      /\ \A v \in Worker : v # w => queue'[v] = queue[v]
  BY <1>1, <1>2, <1>4 DEF TypeOK, EnqueuePut
<1>6. /\ putting' \in [Worker -> Job \cup {NoJob}] /\ putting'[w] = NoJob
      /\ \A v \in Worker : v # w => putting'[v] = putting[v]
  BY <1>1 DEF TypeOK, EnqueuePut
<1>7. About(j)
  BY <1>2, <1>3, <1>5, <1>6, Constants DEF About
<1>8. TypeOK' /\ ForeignKey'
  BY <1>1, <1>3, <1>5, <1>6 DEF IInv, TypeOK, ForeignKey
<1>9. \A v \in Worker : Empty(v)'
  BY <1>3, <1>5, <1>6 DEF IInv, Empty
<1>10. \A v \in Worker : Busy(v)'
  BY <1>3 DEF IInv, Busy
<1>11. Ended(j)'
  BY <1>3 DEF IInv, Ended
<1>12. \A v \in Worker : ServedBy(j, v)'
  <2>1. queue'[w][j] > 0
    BY <1>4, <1>5
  <2> QED BY <1>3, <1>5, <1>6, <2>1 DEF IInv, ServedBy
<1>13. Undisturbed(j)'
  <2>1. SUFFICES ASSUME j \notin disturbed
                 PROVE  \A v \in Worker : OnePlace(j, v)'
    BY <1>3 DEF IInv, Undisturbed
  <2>2. OnePlace(j, w)
    BY <2>1 DEF IInv, Undisturbed
  <2>3. /\ row[j].worker = w /\ row[j].state = "enqueued"
        /\ queue[w][j] = 0 /\ thread[w].job # j
    BY <1>2, <2>2 DEF OnePlace
  <2>4. \A v \in Worker : v # w =>
          /\ j \notin listed[v] /\ putting[v] # j /\ ~(queue[v][j] > 0) /\ thread[v].job # j
    BY <2>1, <2>3, Elsewhere
  <2>5. queue'[w][j] = 1 /\ putting'[w] # j
    BY <1>5, <1>6, <2>3, Constants
  <2>6. OnePlace(j, w)'
    BY <1>3, <2>3, <2>5 DEF OnePlace
  <2>7. \A v \in Worker : v # w => OnePlace(j, v)'
    BY <1>3, <1>5, <1>6, <2>4 DEF OnePlace
  <2> QED BY <2>6, <2>7
<1> QED BY <1>7, <1>8, <1>9, <1>10, <1>11, <1>12, <1>13, AboutOne DEF AboutInv

-----------------------------------------------------------------------------
(* Other steps of the thread *)

LEMMA LoadInv ==
  ASSUME IInv, NEW w \in Worker, NEW j \in Job, Load(w, j)
  PROVE  IInv'
<1>1. TypeOK
  BY DEF IInv
<1>2. /\ life' = life /\ heard' = heard /\ row' = row /\ effects' = effects /\ listed' = listed
      /\ putting' = putting
      /\ disturbed' = disturbed /\ stuck' = stuck /\ late' = late /\ touched' = touched
      /\ life[w] = "up" /\ thread[w].at = "idle" /\ thread[w].job = NoJob
  BY DEF IInv, Busy, Load, Up
<1>3. queue[w][j] \in 0 .. QueueBound /\ queue[w][j] > 0 /\ queue[w][j] - 1 \in 0 .. QueueBound
  <2>1. queue[w][j] \in 0 .. QueueBound /\ queue[w][j] > 0
    BY <1>1 DEF TypeOK, Load
  <2> QED BY <2>1, Constants
<1>4. /\ queue' \in [Worker -> [Job -> 0 .. QueueBound]]
      /\ queue'[w][j] = queue[w][j] - 1
      /\ \A i \in Job : i # j => queue'[w][i] = queue[w][i]
      /\ \A v \in Worker : v # w => queue'[v] = queue[v]
  BY <1>1, <1>3 DEF TypeOK, Load
<1>5. /\ thread' \in [Worker -> Thread]
      /\ \A v \in Worker : v # w => thread'[v] = thread[v]
      /\ IsMine(w, j) => thread'[w].at = "loaded" /\ thread'[w].job = j
      /\ ~IsMine(w, j) => \/ thread'[w].at = "resetting" /\ thread'[w].job = j
                          \/ thread'[w].at = "idle" /\ thread'[w].job = NoJob
                             /\ row[j].state \in {"done", "pending"}
  <2>1. row[j].active \in BOOLEAN /\ thread \in [Worker -> Thread]
    BY <1>1 DEF TypeOK, Row
  <2>2. CASE IsMine(w, j)
    <3>1. thread' = [thread EXCEPT ![w] =
                       [at |-> "loaded", job |-> j, active |-> row[j].active, fresh |-> FALSE]]
      BY <2>2 DEF Load, IsMine
    <3> QED BY <2>1, <2>2, <3>1 DEF Thread
  <2>3. CASE ~IsMine(w, j) /\ row[j].state \in {"done", "pending"}
    <3>1. thread' = [thread EXCEPT ![w] = Idle]
      BY <2>3 DEF Load
    <3>2. Idle.at = "idle" /\ Idle.job = NoJob
      BY DEF Idle
    <3> QED BY <2>1, <2>3, <3>1, <3>2, IdleType
  <2>4. CASE ~IsMine(w, j) /\ row[j].state \notin {"done", "pending"}
    <3>1. thread' = [thread EXCEPT ![w] =
                       [at |-> "resetting", job |-> j, active |-> row[j].active, fresh |-> FALSE]]
      BY <2>4 DEF Load
    <3> QED BY <2>1, <2>4, <3>1 DEF Thread
  <2> QED BY <2>2, <2>3, <2>4
<1>6. About(j)
  BY <1>2, <1>4, <1>5, Constants DEF About
<1>7. TypeOK' /\ ForeignKey'
  BY <1>1, <1>2, <1>4, <1>5 DEF IInv, TypeOK, ForeignKey
<1>8. \A v \in Worker : Empty(v)'
  BY <1>2, <1>4, <1>5 DEF IInv, Empty
<1>9. \A v \in Worker : Busy(v)'
  BY <1>2, <1>5, Constants DEF IInv, Busy
<1>10. Ended(j)'
  BY <1>2 DEF IInv, Ended
<1>11. \A v \in Worker : ServedBy(j, v)'
  <2>1. ServedBy(j, w)'
    BY <1>2, <1>5, Constants DEF IInv, ServedBy, IsMine
  <2>2. \A v \in Worker : v # w => ServedBy(j, v)'
    BY <1>2, <1>4, <1>5 DEF IInv, ServedBy
  <2> QED BY <2>1, <2>2
<1>12. Undisturbed(j)'
  <2>1. SUFFICES ASSUME j \notin disturbed
                 PROVE  \A v \in Worker : OnePlace(j, v)'
    BY <1>2 DEF IInv, Undisturbed
  <2>2. OnePlace(j, w)
    BY <2>1 DEF IInv, Undisturbed
  <2>3. /\ row[j].worker = w /\ row[j].state = "enqueued" /\ queue[w][j] = 1
        /\ j \notin listed[w] /\ putting[w] # j
    BY <1>3, <2>2, Constants DEF OnePlace
  <2>4. \A v \in Worker : v # w =>
          /\ j \notin listed[v] /\ putting[v] # j /\ ~(queue[v][j] > 0) /\ thread[v].job # j
    BY <2>1, <2>3, Elsewhere
  <2>5. IsMine(w, j) /\ queue'[w][j] = 0
    BY <1>4, <2>3 DEF IsMine
  <2>6. OnePlace(j, w)'
    BY <1>2, <1>5, <2>3, <2>5 DEF OnePlace
  <2>7. \A v \in Worker : v # w => OnePlace(j, v)'
    BY <1>2, <1>4, <1>5, <2>4 DEF OnePlace
  <2> QED BY <2>6, <2>7
<1> QED BY <1>6, <1>7, <1>8, <1>9, <1>10, <1>11, <1>12, AboutOne DEF AboutInv

LEMMA SetStartedInv ==
  ASSUME IInv, NEW w \in Worker, SetStarted(w)
  PROVE  IInv'
<1>1. TypeOK /\ thread[w].job \in Job /\ thread \in [Worker -> Thread]
  BY HasJob DEF IInv, TypeOK, SetStarted
<1>2. PICK j \in Job : j = thread[w].job
  BY <1>1
<1>3. row' \in [Job -> Row] /\ RowStored(j, "started", WorkerId(w))
  BY <1>1, <1>2, StoredAt, WorkerIdType DEF TypeOK, SetStarted, JobState
<1>4. /\ life' = life /\ heard' = heard /\ queue' = queue /\ effects' = effects
      /\ listed' = listed /\ putting' = putting
      /\ disturbed' = disturbed /\ stuck' = stuck /\ late' = late /\ touched' = touched
      /\ life[w] = "up" /\ thread[w].at = "loaded"
  BY DEF SetStarted, Up
<1>5. ThreadsSee(w, j) /\ thread'[w].at = "started" /\ thread'[w].job = j
  <2>1. Written({j}, thread) \in [Worker -> Thread]
    BY <1>1, WrittenType
  <2>2. thread' = [Written({j}, thread) EXCEPT ![w].at = "started"]
    BY <1>2 DEF SetStarted, Goes
  <2>3. thread' \in [Worker -> Thread] /\ thread'[w].at = "started"
        /\ thread'[w].job = Written({j}, thread)[w].job
        /\ \A v \in Worker : v # w => thread'[v] = Written({j}, thread)[v]
    BY <2>1, <2>2 DEF Thread
  <2>4. \A v \in Worker : /\ Written({j}, thread)[v].job = thread[v].job
                          /\ Written({j}, thread)[v].at = thread[v].at
                          /\ thread[v].job \notin {j} => Written({j}, thread)[v] = thread[v]
                          /\ thread[v] = Idle => Written({j}, thread)[v] = Idle
    <3>1. ASSUME NEW v \in Worker
          PROVE  /\ Written({j}, thread)[v].job = thread[v].job
                 /\ Written({j}, thread)[v].at = thread[v].at
                 /\ thread[v].job \notin {j} => Written({j}, thread)[v] = thread[v]
      BY <1>1, WrittenAt
    <3>2. ASSUME NEW v \in Worker, thread[v] = Idle
          PROVE  Written({j}, thread)[v] = Idle
      BY <1>1, <3>2, IdleWritten
    <3> QED BY <3>1, <3>2
  <2> QED BY <1>2, <2>3, <2>4 DEF ThreadsSee
<1>6. About(j)
  <2>1. \A i \in Job, v \in Worker : i # j =>
          /\ thread'[v].job = i <=> thread[v].job = i
          /\ thread[v].job = i => thread'[v] = thread[v]
    BY <1>2, <1>5 DEF ThreadsSee
  <2> QED BY <1>3, <1>4, <2>1 DEF About, RowStored
<1>7. TypeOK'
  BY <1>1, <1>3, <1>4, <1>5 DEF TypeOK, ThreadsSee
<1>8. ForeignKey'
  BY <1>3, <1>4, Constants DEF IInv, ForeignKey, RowStored, WorkerId
<1>9. \A v \in Worker : Empty(v)'
  BY <1>4, <1>5 DEF IInv, Empty, ThreadsSee
<1>10. \A v \in Worker : Busy(v)'
  BY <1>5, Constants DEF IInv, Busy, ThreadsSee
<1>11. Ended(j)' /\ \A v \in Worker : ServedBy(j, v)'
  BY <1>3, <1>5, Constants DEF RowStored, Ended, ServedBy, WorkerId
<1>12. Undisturbed(j)'
  <2>1. SUFFICES ASSUME j \notin disturbed
                 PROVE  \A v \in Worker : OnePlace(j, v)'
    <3>1. j \notin disturbed => row[j].state # "done" /\ effects[j] = 0
      BY <1>2, <1>4 DEF IInv, Undisturbed, OnePlace
    <3> QED BY <1>4, <3>1 DEF Undisturbed
  <2>2. OnePlace(j, w)
    BY <2>1 DEF IInv, Undisturbed
  <2>3. /\ row[j].worker = w
        /\ j \notin listed[w] /\ putting[w] # j /\ ~(queue[w][j] > 0)
    BY <1>2, <2>2 DEF OnePlace
  <2>4. \A v \in Worker : v # w =>
          /\ j \notin listed[v] /\ putting[v] # j /\ ~(queue[v][j] > 0) /\ thread[v].job # j
    BY <2>1, <2>3, Elsewhere
  <2>5. row'[j].worker = w /\ row'[j].state = "started"
    BY <1>3, <2>3 DEF IInv, ForeignKey, RowStored, WorkerId
  <2>6. OnePlace(j, w)'
    BY <1>4, <1>5, <2>3, <2>5 DEF OnePlace
  <2>7. \A v \in Worker : v # w => OnePlace(j, v)'
    BY <1>4, <1>5, <2>4 DEF OnePlace, ThreadsSee
  <2> QED BY <2>6, <2>7
<1> QED BY <1>6, <1>7, <1>8, <1>9, <1>10, <1>11, <1>12, AboutOne DEF AboutInv

LEMMA BeginPerformInv ==
  ASSUME IInv, NEW w \in Worker, BeginPerform(w)
  PROVE  IInv'
<1>1. TypeOK /\ thread[w].job \in Job /\ thread[w] \in Thread
  BY HasJob DEF IInv, TypeOK, BeginPerform
<1>2. PICK j \in Job : j = thread[w].job
  BY <1>1
<1>3. /\ life' = life /\ heard' = heard /\ queue' = queue /\ effects' = effects
      /\ row' = row /\ listed' = listed /\ putting' = putting
      /\ disturbed' = disturbed /\ stuck' = stuck /\ late' = late /\ touched' = touched
      /\ life[w] = "up" /\ thread[w].at = "started"
  BY DEF BeginPerform, Up
<1>4. /\ thread' \in [Worker -> Thread]
      /\ thread'[w].at = "performing" /\ thread'[w].job = j /\ thread'[w].fresh
      /\ \A v \in Worker : v # w => thread'[v] = thread[v]
  BY <1>1, <1>2 DEF TypeOK, Thread, BeginPerform
<1>5. About(j)
  BY <1>2, <1>3, <1>4 DEF About
<1>6. TypeOK' /\ ForeignKey'
  BY <1>1, <1>3, <1>4 DEF IInv, TypeOK, ForeignKey
<1>7. \A v \in Worker : Empty(v)'
  BY <1>3, <1>4 DEF IInv, Empty
<1>8. \A v \in Worker : Busy(v)'
  BY <1>3, <1>4, Constants DEF IInv, Busy
<1>9. Ended(j)' /\ \A v \in Worker : ServedBy(j, v)'
  BY <1>2, <1>3, <1>4 DEF IInv, Ended, ServedBy
<1>10. Undisturbed(j)'
  BY <1>2, <1>3, <1>4 DEF IInv, Undisturbed, OnePlace
<1> QED BY <1>5, <1>6, <1>7, <1>8, <1>9, <1>10, AboutOne DEF AboutInv

LEMMA RetryPostponeInv ==
  ASSUME IInv, NEW w \in Worker, RetryPostpone(w)
  PROVE  IInv'
<1>1. TypeOK /\ thread[w].job \in Job /\ thread \in [Worker -> Thread]
  BY HasJob DEF IInv, TypeOK, RetryPostpone, Performing
<1>2. PICK j \in Job : j = thread[w].job
  BY <1>1
<1>3. row' \in [Job -> Row] /\ RowStored(j, "enqueued", WorkerId(w))
  BY <1>1, <1>2, StoredAt, WorkerIdType DEF TypeOK, RetryPostpone, JobState
<1>4. /\ life' = life /\ heard' = heard /\ effects' = effects
      /\ listed' = listed /\ putting' = putting
      /\ disturbed' = disturbed /\ stuck' = stuck /\ late' = late /\ touched' = touched
      /\ life[w] = "up" /\ thread[w].at = "performing" /\ queue[w][j] < QueueBound
  BY <1>2 DEF RetryPostpone, Performing, Up
<1>5. queue[w][j] \in 0 .. QueueBound /\ queue[w][j] + 1 \in 0 .. QueueBound
  <2>1. queue[w][j] \in 0 .. QueueBound
    BY <1>1 DEF TypeOK
  <2> QED BY <2>1, <1>4, Constants
<1>6. /\ queue' \in [Worker -> [Job -> 0 .. QueueBound]]
      /\ queue'[w][j] = queue[w][j] + 1
      /\ \A i \in Job : i # j => queue'[w][i] = queue[w][i]
      /\ \A v \in Worker : v # w => queue'[v] = queue[v]
  BY <1>1, <1>2, <1>5 DEF TypeOK, RetryPostpone
<1>7. ThreadsSee(w, j) /\ thread'[w] = Idle /\ thread'[w].at = "idle" /\ thread'[w].job = NoJob
  BY <1>1, <1>2, RestsAfter DEF RetryPostpone
<1>8. About(j)
  <2>1. \A i \in Job, v \in Worker : i # j =>
          /\ thread'[v].job = i <=> thread[v].job = i
          /\ thread[v].job = i => thread'[v] = thread[v]
    BY <1>2, <1>7, Constants DEF ThreadsSee
  <2> QED BY <1>3, <1>4, <1>6, <2>1 DEF About, RowStored
<1>9. TypeOK'
  BY <1>1, <1>3, <1>4, <1>6, <1>7 DEF TypeOK, ThreadsSee
<1>10. ForeignKey'
  BY <1>3, <1>4, Constants DEF IInv, ForeignKey, RowStored, WorkerId
<1>11. \A v \in Worker : Empty(v)'
  BY <1>4, <1>6, <1>7 DEF IInv, Empty, ThreadsSee
<1>12. \A v \in Worker : Busy(v)'
  BY <1>7, Constants DEF IInv, Busy, ThreadsSee
<1>13. Ended(j)' /\ \A v \in Worker : ServedBy(j, v)'
  BY <1>3, <1>5, <1>6, Constants DEF RowStored, Ended, ServedBy, WorkerId
<1>14. Undisturbed(j)'
  <2>1. SUFFICES ASSUME j \notin disturbed
                 PROVE  \A v \in Worker : OnePlace(j, v)'
    <3>1. j \notin disturbed => row[j].state # "done" /\ effects[j] = 0
      BY <1>2, <1>4 DEF IInv, Undisturbed, OnePlace
    <3> QED BY <1>4, <3>1 DEF Undisturbed
  <2>2. OnePlace(j, w)
    BY <2>1 DEF IInv, Undisturbed
  <2>3. /\ row[j].worker = w
        /\ j \notin listed[w] /\ putting[w] # j /\ ~(queue[w][j] > 0)
    BY <1>2, <2>2 DEF OnePlace
  <2>4. \A v \in Worker : v # w =>
          /\ j \notin listed[v] /\ putting[v] # j /\ ~(queue[v][j] > 0) /\ thread[v].job # j
    BY <2>1, <2>3, Elsewhere
  <2>5. row'[j].worker = w /\ row'[j].state = "enqueued" /\ queue'[w][j] = 1
    BY <1>3, <1>5, <1>6, <2>3 DEF IInv, ForeignKey, RowStored, WorkerId
  <2>6. OnePlace(j, w)'
    BY <1>4, <1>7, <2>3, <2>5, Constants DEF OnePlace
  <2>7. \A v \in Worker : v # w => OnePlace(j, v)'
    BY <1>4, <1>6, <1>7, <2>4 DEF OnePlace, ThreadsSee
  <2> QED BY <2>6, <2>7
<1> QED BY <1>8, <1>9, <1>10, <1>11, <1>12, <1>13, <1>14, AboutOne DEF AboutInv

LEMMA ConnectionLostInv ==
  ASSUME IInv, NEW w \in Worker, ConnectionLost(w)
  PROVE  IInv'
<1>1. TypeOK /\ thread[w].job \in Job
  BY HasJob DEF IInv, ConnectionLost, Performing
<1>2. PICK j \in Job : j = thread[w].job
  BY <1>1
<1>3. /\ life' = life /\ heard' = heard /\ queue' = queue /\ effects' = effects
      /\ row' = row /\ listed' = listed /\ putting' = putting
      /\ disturbed' = disturbed /\ stuck' = stuck \cup {j} /\ late' = late /\ touched' = touched
      /\ life[w] = "up" /\ thread[w].at = "performing"
  BY <1>2 DEF ConnectionLost, Performing, Up
<1>4. /\ thread' \in [Worker -> Thread]
      /\ thread'[w] = Idle /\ thread'[w].at = "idle" /\ thread'[w].job = NoJob
      /\ \A v \in Worker : v # w => thread'[v] = thread[v]
  <2>1. thread \in [Worker -> Thread] /\ thread' = [thread EXCEPT ![w] = Idle]
    BY <1>1 DEF TypeOK, ConnectionLost, Rests
  <2>2. Idle.at = "idle" /\ Idle.job = NoJob
    BY DEF Idle
  <2> QED BY <2>1, <2>2, IdleType
<1>5. About(j)
  BY <1>2, <1>3, <1>4, Constants DEF About
<1>6. TypeOK' /\ ForeignKey'
  BY <1>1, <1>3, <1>4 DEF IInv, TypeOK, ForeignKey
<1>7. \A v \in Worker : Empty(v)'
  BY <1>3, <1>4 DEF IInv, Empty
<1>8. \A v \in Worker : Busy(v)'
  BY <1>3, <1>4, Constants DEF IInv, Busy
<1>9. Ended(j)' /\ \A v \in Worker : ServedBy(j, v)'
  BY <1>2, <1>3, <1>4 DEF IInv, Ended, ServedBy
<1>10. Undisturbed(j)'
  <2>1. \A v \in Worker : OnePlace(j, v) => OnePlace(j, v)'
    BY <1>2, <1>3, <1>4, Constants DEF OnePlace
  <2> QED BY <1>3, <2>1 DEF IInv, Undisturbed
<1> QED BY <1>5, <1>6, <1>7, <1>8, <1>9, <1>10, AboutOne DEF AboutInv

-----------------------------------------------------------------------------
(* Steps about several jobs *)

LEMMA AssignJobsInv ==
  ASSUME IInv, NEW w \in Worker, AssignJobs(w)
  PROVE  IInv'
<1>1. TypeOK /\ thread \in [Worker -> Thread]
  BY DEF IInv, TypeOK
<1>2. PICK S \in SUBSET Assignable :
        /\ row' = [j \in Job |-> IF j \in S THEN [row[j] EXCEPT !.state = "pending", !.worker = w]
                                 ELSE row[j]]
        /\ thread' = Written(S, thread)
  BY DEF AssignJobs
<1>3. /\ life' = life /\ heard' = heard /\ queue' = queue /\ effects' = effects
      /\ listed' = listed /\ putting' = putting
      /\ disturbed' = disturbed /\ stuck' = stuck /\ late' = late /\ touched' = touched
      /\ heard[w] # "no"
  BY DEF AssignJobs
<1>4. /\ row' \in [Job -> Row]
      /\ \A i \in S : row'[i].state = "pending" /\ row'[i].worker = w
      /\ \A i \in Job \ S : row'[i] = row[i]
  <2>1. \A i \in S : i \in Job
    BY DEF Assignable
  <2>2. \A r \in Row : [r EXCEPT !.state = "pending", !.worker = w] \in Row
    BY DEF Row, JobState
  <2>3. \A r \in Row : /\ [r EXCEPT !.state = "pending", !.worker = w].state = "pending"
                       /\ [r EXCEPT !.state = "pending", !.worker = w].worker = w
    BY DEF Row
  <2> QED BY <1>1, <1>2, <2>1, <2>2, <2>3 DEF TypeOK
<1>5. \A i \in S : /\ i \in Job /\ row[i].worker = NoWorker
                   /\ row[i].state \notin {"none", "failed", "done"}
  BY DEF Assignable
<1>6. /\ thread' \in [Worker -> Thread]
      /\ \A v \in Worker : /\ thread'[v].job = thread[v].job /\ thread'[v].at = thread[v].at
                           /\ thread[v].job \notin S => thread'[v] = thread[v]
                           /\ thread[v] = Idle => thread'[v] = Idle
  <2>1. thread' \in [Worker -> Thread]
    BY <1>1, <1>2, WrittenType
  <2>2. ASSUME NEW v \in Worker
        PROVE  /\ thread'[v].job = thread[v].job /\ thread'[v].at = thread[v].at
               /\ thread[v].job \notin S => thread'[v] = thread[v]
               /\ thread[v] = Idle => thread'[v] = Idle
    <3>1. S \in SUBSET Job
      BY <1>5
    <3>2. /\ Written(S, thread)[v].job = thread[v].job
          /\ Written(S, thread)[v].at = thread[v].at
          /\ thread[v].job \notin S => Written(S, thread)[v] = thread[v]
      BY <1>1, WrittenAt
    <3>3. thread[v] = Idle => Written(S, thread)[v] = Idle
      BY <1>1, <3>1, IdleWritten
    <3> QED BY <1>2, <3>2, <3>3
  <2> QED BY <2>1, <2>2
<1>7. TypeOK'
  BY <1>1, <1>3, <1>4, <1>6 DEF TypeOK
<1>8. ForeignKey'
  BY <1>3, <1>4 DEF IInv, ForeignKey
<1>9. \A v \in Worker : Empty(v)' /\ Busy(v)'
  <2>1. \A v \in Worker : Empty(v)'
    BY <1>3, <1>6 DEF IInv, Empty
  <2>2. \A v \in Worker : Busy(v)'
    BY <1>6 DEF IInv, Busy
  <2> QED BY <2>1, <2>2
<1>10. ASSUME NEW j \in Job
       PROVE  Ended(j)' /\ Undisturbed(j)' /\ \A v \in Worker : ServedBy(j, v)'
  <2>1. CASE j \in S
    <3>1. row'[j].state = "pending" /\ row'[j].worker = w
      BY <1>4, <2>1
    <3>2. Ended(j)' /\ \A v \in Worker : ServedBy(j, v)'
      BY <3>1 DEF Ended, ServedBy
    <3>3. CASE j \in disturbed
      BY <1>3, <3>2, <3>3 DEF Undisturbed
    <3>4. CASE j \notin disturbed
      <4>1. \A v \in Worker :
              /\ j \notin listed[v] /\ putting[v] # j /\ ~(queue[v][j] > 0) /\ thread[v].job # j
        BY <1>5, <2>1, <3>4, Nowhere
      <4>2. \A v \in Worker : OnePlace(j, v)'
        BY <1>3, <1>6, <4>1 DEF OnePlace
      <4>3. effects[j] = 0
        BY <1>5, <2>1, <3>4 DEF IInv, Undisturbed
      <4> QED BY <1>3, <3>2, <4>2, <4>3 DEF Undisturbed
    <3> QED BY <3>2, <3>3, <3>4
  <2>2. CASE j \notin S
    <3>1. row'[j] = row[j]
      BY <1>4, <2>2
    <3>2. \A v \in Worker : thread[v].job = j => thread'[v] = thread[v]
      BY <1>6, <2>2
    <3>3. Ended(j)' /\ \A v \in Worker : ServedBy(j, v)'
      BY <1>3, <1>6, <3>1 DEF IInv, Ended, ServedBy
    <3>4. \A v \in Worker : OnePlace(j, v) => OnePlace(j, v)'
      BY <1>3, <1>6, <3>1, <3>2 DEF OnePlace
    <3>5. Undisturbed(j)'
      BY <1>3, <3>1, <3>4 DEF IInv, Undisturbed
    <3> QED BY <3>3, <3>5
  <2> QED BY <2>1, <2>2
<1> QED BY <1>7, <1>8, <1>9, <1>10 DEF IInv

LEMMA ListAssignedInv ==
  ASSUME IInv, NEW w \in Worker, ListAssigned(w)
  PROVE  IInv'
<1>1. TypeOK
  BY DEF IInv
<1>2. /\ life' = life /\ heard' = heard /\ queue' = queue /\ effects' = effects
      /\ row' = row /\ thread' = thread /\ putting' = putting
      /\ disturbed' = disturbed /\ stuck' = stuck /\ late' = late /\ touched' = touched
      /\ life[w] = "up" /\ listed[w] = {} /\ putting[w] = NoJob
  BY DEF ListAssigned, Up
<1>3. /\ listed' \in [Worker -> SUBSET Job]
      /\ \A v \in Worker : v # w => listed'[v] = listed[v]
      /\ \A j \in listed'[w] : row[j].worker = w /\ row[j].state = "pending"
  BY <1>1 DEF TypeOK, ListAssigned
<1>4. TypeOK' /\ ForeignKey'
  BY <1>1, <1>2, <1>3 DEF IInv, TypeOK, ForeignKey
<1>5. \A v \in Worker : Empty(v)' /\ Busy(v)'
  BY <1>2, <1>3 DEF IInv, Empty, Busy
<1>6. ASSUME NEW j \in Job
      PROVE  Ended(j)' /\ Undisturbed(j)' /\ \A v \in Worker : ServedBy(j, v)'
  <2>1. Ended(j)' /\ \A v \in Worker : ServedBy(j, v)'
    BY <1>2 DEF IInv, Ended, ServedBy
  <2>2. ASSUME j \notin disturbed, NEW v \in Worker
        PROVE  OnePlace(j, v)'
    <3>1. OnePlace(j, v)
      BY <2>2 DEF IInv, Undisturbed
    <3>2. CASE v = w /\ j \in listed'[w]
      <4>1. row[j].worker = w /\ row[j].state = "pending"
        BY <1>3, <3>2
      <4>2. putting[v] # j /\ ~(queue[v][j] > 0) /\ thread[v].job # j
        BY <3>1, <4>1 DEF OnePlace
      <4>3. queue[v][j] = 0
        <5>1. queue[v][j] \in 0 .. QueueBound
          BY <1>1 DEF TypeOK
        <5> QED BY <4>2, <5>1, Constants
      <4> QED BY <1>2, <3>2, <4>1, <4>2, <4>3 DEF OnePlace
    <3>3. CASE ~(v = w /\ j \in listed'[w])
      BY <1>2, <1>3, <3>1, <3>3 DEF OnePlace
    <3> QED BY <3>2, <3>3
  <2>3. Undisturbed(j)'
    BY <1>2, <2>2 DEF IInv, Undisturbed
  <2> QED BY <2>1, <2>3
<1> QED BY <1>4, <1>5, <1>6 DEF IInv

-----------------------------------------------------------------------------
(* Watchers, crashes and restarts *)

LEMMA StartInv ==
  ASSUME IInv, NEW w \in Worker, Start(w)
  PROVE  IInv'
<1>1. TypeOK
  BY DEF IInv
<1>2. /\ heard' = heard /\ queue' = queue /\ effects' = effects /\ listed' = listed
      /\ row' = row /\ thread' = thread /\ putting' = putting
      /\ disturbed' = disturbed /\ stuck' = stuck /\ late' = late /\ touched' = touched
      /\ life[w] = "unborn"
  BY DEF Start
<1>3. /\ life' \in [Worker -> {"unborn", "up", "dead"}]
      /\ life'[w] = "up" /\ \A v \in Worker : v # w => life'[v] = life[v]
  BY <1>1 DEF TypeOK, Start
<1>4. heard[w] = "no"
  BY <1>2 DEF IInv, Empty
<1>5. TypeOK' /\ ForeignKey'
  BY <1>1, <1>2, <1>3 DEF IInv, TypeOK, ForeignKey
<1>6. \A v \in Worker : Empty(v)' /\ Busy(v)'
  BY <1>2, <1>3 DEF IInv, Empty, Busy
<1>7. ASSUME NEW j \in Job
      PROVE  Ended(j)' /\ Undisturbed(j)' /\ \A v \in Worker : ServedBy(j, v)'
  <2>1. row[j].worker # w
    BY <1>4 DEF IInv, ForeignKey
  <2>2. Ended(j)' /\ Undisturbed(j)'
    BY <1>2 DEF IInv, Ended, Undisturbed, OnePlace
  <2>3. \A v \in Worker : ServedBy(j, v)'
    BY <1>2, <1>3, <2>1 DEF IInv, ServedBy
  <2> QED BY <2>2, <2>3
<1> QED BY <1>5, <1>6, <1>7 DEF IInv

\* The rows of queue_worker do not matter but for the foreign key.
LEMMA HeardOnly ==
  ASSUME IInv, heard' \in [Worker -> {"no", "lately", "long ago"}], late' \in 0 .. LateBound,
         \A v \in Worker : heard[v] # "no" => heard'[v] # "no",
         \A v \in Worker : life[v] = "unborn" => heard'[v] = heard[v],
         UNCHANGED <<row, life, touched, queue, listed, putting, thread, disturbed, stuck, effects>>
  PROVE  IInv'
<1>1. TypeOK' /\ ForeignKey'
  BY DEF IInv, TypeOK, ForeignKey
<1>2. \A v \in Worker : Empty(v)' /\ Busy(v)'
  BY DEF IInv, Empty, Busy
<1>3. \A j \in Job : Ended(j)' /\ Undisturbed(j)'
  <2>1. ASSUME NEW j \in Job, NEW v \in Worker, OnePlace(j, v)
        PROVE  OnePlace(j, v)'
    <3>1. row' = row /\ listed' = listed /\ putting' = putting /\ queue' = queue /\ thread' = thread
      OBVIOUS
    <3> QED BY <2>1, <3>1 DEF OnePlace
  <2>2. \A j \in Job : Undisturbed(j)'
    BY <2>1 DEF IInv, Undisturbed
  <2>3. \A j \in Job : Ended(j)'
    BY DEF IInv, Ended
  <2> QED BY <2>2, <2>3
<1>4. \A j \in Job, v \in Worker : ServedBy(j, v)'
  BY DEF IInv, ServedBy
<1> QED BY <1>1, <1>2, <1>3, <1>4 DEF IInv

LEMMA NotifyAliveInv ==
  ASSUME IInv, NEW w \in Worker, NotifyAlive(w)
  PROVE  IInv'
<1>1. /\ heard' \in [Worker -> {"no", "lately", "long ago"}] /\ late' \in 0 .. LateBound
      /\ \A v \in Worker : heard[v] # "no" => heard'[v] # "no"
      /\ \A v \in Worker : life[v] = "unborn" => heard'[v] = heard[v]
  BY DEF IInv, TypeOK, NotifyAlive, Up
<1> QED BY <1>1, HeardOnly DEF NotifyAlive

LEMMA OverdueInv ==
  ASSUME IInv, NEW w \in Worker, Overdue(w)
  PROVE  IInv'
<1>1. /\ heard' \in [Worker -> {"no", "lately", "long ago"}]
      /\ \A v \in Worker : heard[v] # "no" => heard'[v] # "no"
      /\ \A v \in Worker : life[v] = "unborn" => heard'[v] = heard[v]
  BY DEF IInv, TypeOK, Empty, Overdue
<1>2. late' \in 0 .. LateBound
  <2>1. late \in 0 .. LateBound /\ (late' = late \/ (late < LateBound /\ late' = late + 1))
    BY DEF IInv, TypeOK, Overdue
  <2> QED BY <2>1, Constants
<1> QED BY <1>1, <1>2, HeardOnly DEF Overdue

LEMMA PurgeInv ==
  ASSUME IInv, NEW w \in Worker, Purge(w)
  PROVE  IInv'
<1>1. TypeOK /\ thread \in [Worker -> Thread]
  BY DEF IInv, TypeOK
<1>2. /\ life' = life /\ queue' = queue /\ effects' = effects /\ listed' = listed
      /\ putting' = putting /\ stuck' = stuck /\ late' = late /\ touched' = touched
      /\ thread' = Written(JobsOf(Overdues), thread)
      /\ disturbed' = disturbed \cup JobsOf({v \in Overdues : Up(v)})
      /\ heard' = [v \in Worker |-> IF v \in Overdues THEN "no" ELSE heard[v]]
  BY DEF Purge
<1>3. /\ row' \in [Job -> Row]
      /\ \A i \in Job : row'[i].state = row[i].state
      /\ \A i \in Job : i \notin JobsOf(Overdues) => row'[i] = row[i]
      /\ \A i \in Job : i \in JobsOf(Overdues) => row'[i].worker = NoWorker
  <2>1. row' = [j \in Job |-> IF j \in JobsOf(Overdues) THEN [row[j] EXCEPT !.worker = NoWorker]
                              ELSE row[j]]
    BY DEF Purge
  <2>2. \A r \in Row : /\ [r EXCEPT !.worker = NoWorker] \in Row
                       /\ [r EXCEPT !.worker = NoWorker].state = r.state
                       /\ [r EXCEPT !.worker = NoWorker].worker = NoWorker
    BY DEF Row
  <2> QED BY <1>1, <2>1, <2>2 DEF TypeOK
<1>4. /\ JobsOf(Overdues) \subseteq Job
      /\ \A i \in JobsOf(Overdues) : row[i].worker \in Overdues
      /\ \A i \in Job : row[i].worker \in Overdues => i \in JobsOf(Overdues)
      /\ JobsOf({v \in Overdues : Up(v)}) \subseteq Job
      /\ Overdues \subseteq Worker
  BY DEF JobsOf, Overdues
<1>5. /\ thread' \in [Worker -> Thread]
      /\ \A v \in Worker : /\ thread'[v].job = thread[v].job /\ thread'[v].at = thread[v].at
                           /\ thread[v].job \notin JobsOf(Overdues) => thread'[v] = thread[v]
                           /\ thread[v] = Idle => thread'[v] = Idle
  <2>1. thread' \in [Worker -> Thread]
    BY <1>1, <1>2, WrittenType
  <2>2. ASSUME NEW v \in Worker
        PROVE  /\ thread'[v].job = thread[v].job /\ thread'[v].at = thread[v].at
               /\ thread[v].job \notin JobsOf(Overdues) => thread'[v] = thread[v]
               /\ thread[v] = Idle => thread'[v] = Idle
    <3>1. PICK S \in SUBSET Job : S = JobsOf(Overdues)
      BY <1>4
    <3>2. /\ Written(S, thread)[v].job = thread[v].job
          /\ Written(S, thread)[v].at = thread[v].at
          /\ thread[v].job \notin S => Written(S, thread)[v] = thread[v]
      BY <1>1, WrittenAt
    <3>3. thread[v] = Idle => Written(S, thread)[v] = Idle
      BY <1>1, IdleWritten
    <3> QED BY <1>2, <3>1, <3>2, <3>3
  <2> QED BY <2>1, <2>2
<1>6. TypeOK'
  <2>1. heard' \in [Worker -> {"no", "lately", "long ago"}]
    BY <1>1, <1>2 DEF TypeOK
  <2>2. disturbed' \subseteq Job
    BY <1>1, <1>2, <1>4 DEF TypeOK
  <2> QED BY <1>1, <1>2, <1>3, <1>5, <2>1, <2>2 DEF TypeOK
<1>7. ForeignKey'
  <2>1. ASSUME NEW i \in Job, NEW v \in Worker, row'[i].worker = v
        PROVE  heard'[v] # "no"
    <3>1. i \notin JobsOf(Overdues)
      BY <1>3, <2>1, Constants
    <3>2. row[i].worker = v /\ v \notin Overdues
      BY <1>3, <1>4, <2>1, <3>1
    <3> QED BY <1>2, <3>2 DEF IInv, ForeignKey
  <2> QED BY <2>1 DEF ForeignKey
<1>8. \A v \in Worker : Empty(v)' /\ Busy(v)'
  <2>1. \A v \in Worker : heard[v] = "no" => heard'[v] = "no"
    BY <1>2
  <2>2. \A v \in Worker : Empty(v)'
    BY <1>2, <1>5, <2>1 DEF IInv, Empty
  <2>3. \A v \in Worker : Busy(v)'
    BY <1>5 DEF IInv, Busy
  <2> QED BY <2>2, <2>3
<1>9. ASSUME NEW j \in Job
      PROVE  Ended(j)' /\ Undisturbed(j)' /\ \A v \in Worker : ServedBy(j, v)'
  <2>1. CASE j \in JobsOf(Overdues)
    <3>1. row'[j].worker = NoWorker /\ row'[j].state = row[j].state
      BY <1>3, <2>1
    <3>2. Ended(j)' /\ \A v \in Worker : ServedBy(j, v)'
      BY <3>1, Constants DEF Ended, ServedBy
    <3>3. PICK u \in Overdues : u = row[j].worker
      BY <1>4, <2>1
    <3>4. CASE j \in disturbed'
      BY <3>2, <3>4 DEF Undisturbed
    <3>5. CASE j \notin disturbed'
      <4>1. j \notin disturbed /\ ~Up(u)
        BY <1>2, <3>3, <3>5 DEF JobsOf
      <4>2. \A v \in Worker : v # u =>
              /\ j \notin listed[v] /\ putting[v] # j /\ ~(queue[v][j] > 0) /\ thread[v].job # j
        BY <1>4, <3>3, <4>1, Elsewhere
      <4>3. j \notin listed[u] /\ putting[u] # j /\ ~(queue[u][j] > 0) /\ thread[u].job # j
        <5>1. Empty(u) /\ life[u] # "up" /\ u \in Worker
          BY <1>4, <4>1 DEF IInv, Up
        <5>2. queue[u][j] = 0 /\ listed[u] = {} /\ putting[u] = NoJob /\ thread[u].job = NoJob
          BY <5>1 DEF Empty, Idle
        <5> QED BY <5>2, Constants
      <4>4. \A v \in Worker : OnePlace(j, v)'
        BY <1>2, <1>5, <4>2, <4>3 DEF OnePlace
      <4>5. effects[j] # 2 /\ (row[j].state # "done" => effects[j] = 0)
        BY <4>1 DEF IInv, Undisturbed
      <4> QED BY <1>2, <3>1, <3>2, <4>4, <4>5 DEF Undisturbed
    <3> QED BY <3>2, <3>4, <3>5
  <2>2. CASE j \notin JobsOf(Overdues)
    <3>1. row'[j] = row[j]
      BY <1>3, <2>2
    <3>2. \A v \in Worker : thread[v].job = j => thread'[v] = thread[v]
      BY <1>5, <2>2
    <3>3. Ended(j)' /\ \A v \in Worker : ServedBy(j, v)'
      BY <1>2, <1>5, <3>1 DEF IInv, Ended, ServedBy
    <3>4. \A v \in Worker : OnePlace(j, v) => OnePlace(j, v)'
      BY <1>2, <1>5, <3>1, <3>2 DEF OnePlace
    <3>5. Undisturbed(j)'
      BY <1>2, <3>1, <3>4 DEF IInv, Undisturbed
    <3> QED BY <3>3, <3>5
  <2> QED BY <2>1, <2>2
<1> QED BY <1>6, <1>7, <1>8, <1>9 DEF IInv

LEMMA CrashInv ==
  ASSUME IInv, NEW w \in Worker, Crash(w)
  PROVE  IInv'
<1>1. TypeOK
  BY DEF IInv
<1>2. /\ row' = row /\ heard' = heard /\ effects' = effects
      /\ disturbed' = disturbed /\ stuck' = stuck /\ late' = late /\ touched' = touched
  BY DEF Crash
<1>3. /\ life' \in [Worker -> {"unborn", "up", "dead"}] /\ life'[w] = "dead"
      /\ queue' \in [Worker -> [Job -> 0 .. QueueBound]] /\ queue'[w] = [j \in Job |-> 0]
      /\ listed' \in [Worker -> SUBSET Job] /\ listed'[w] = {}
      /\ putting' \in [Worker -> Job \cup {NoJob}] /\ putting'[w] = NoJob
      /\ \A v \in Worker : v # w =>
           life'[v] = life[v] /\ queue'[v] = queue[v] /\ listed'[v] = listed[v]
             /\ putting'[v] = putting[v]
  <2>1. [j \in Job |-> 0] \in [Job -> 0 .. QueueBound]
    BY Constants
  <2> QED BY <1>1, <2>1 DEF TypeOK, Crash
<1>4. /\ thread' \in [Worker -> Thread]
      /\ thread'[w] = Idle /\ thread'[w].at = "idle" /\ thread'[w].job = NoJob
      /\ \A v \in Worker : v # w => thread'[v] = thread[v]
  <2>1. thread \in [Worker -> Thread] /\ thread' = [thread EXCEPT ![w] = Idle]
    BY <1>1 DEF TypeOK, Crash, Rests
  <2>2. Idle.at = "idle" /\ Idle.job = NoJob
    BY DEF Idle
  <2> QED BY <2>1, <2>2, IdleType
<1>5. TypeOK' /\ ForeignKey'
  BY <1>1, <1>2, <1>3, <1>4 DEF IInv, TypeOK, ForeignKey
<1>6. \A v \in Worker : Empty(v)'
  BY <1>2, <1>3, <1>4 DEF IInv, Empty
<1>7. \A v \in Worker : Busy(v)'
  BY <1>4 DEF IInv, Busy
<1>8. ASSUME NEW j \in Job
      PROVE  Ended(j)' /\ Undisturbed(j)' /\ \A v \in Worker : ServedBy(j, v)'
  <2>1. Ended(j)'
    BY <1>2 DEF IInv, Ended
  <2>2. \A v \in Worker : ServedBy(j, v)'
    BY <1>2, <1>3, <1>4 DEF IInv, ServedBy
  <2>3. ASSUME NEW v \in Worker, OnePlace(j, v)
        PROVE  OnePlace(j, v)'
    <3>1. CASE v = w
      <4>1. queue'[v][j] = 0 /\ j \notin listed'[v] /\ putting'[v] # j /\ thread'[v].job # j
        BY <1>3, <1>4, <3>1, Constants
      <4> QED BY <4>1 DEF OnePlace
    <3>2. CASE v # w
      BY <1>2, <1>3, <1>4, <2>3, <3>2 DEF OnePlace
    <3> QED BY <3>1, <3>2
  <2>4. Undisturbed(j)'
    BY <1>2, <2>3 DEF IInv, Undisturbed
  <2> QED BY <2>1, <2>2, <2>4
<1> QED BY <1>5, <1>6, <1>7, <1>8 DEF IInv

-----------------------------------------------------------------------------
(* Theorems *)

LEMMA InitInv ==
  ASSUME Init
  PROVE  IInv
<1>1. TypeOK
  BY Constants, IdleType DEF Init, TypeOK, Row, JobState
<1>2. ForeignKey
  BY Constants DEF Init, ForeignKey
<1>3. \A w \in Worker : Empty(w) /\ Busy(w)
  BY DEF Init, Empty, Busy, Idle
<1>4. \A j \in Job : Ended(j) /\ Undisturbed(j)
  <2>1. \A j \in Job, w \in Worker : OnePlace(j, w)
    BY Constants DEF Init, OnePlace, Idle
  <2>2. \A j \in Job : row[j].worker = NoWorker /\ effects[j] = 0
    BY DEF Init
  <2>3. \A j \in Job : Ended(j)
    BY <2>2 DEF Ended
  <2>4. \A j \in Job : Undisturbed(j)
    BY <2>1, <2>2 DEF Undisturbed
  <2> QED BY <2>3, <2>4
<1>5. \A j \in Job, w \in Worker : ServedBy(j, w)
  BY DEF Init, ServedBy
<1> QED BY <1>1, <1>2, <1>3, <1>4, <1>5 DEF IInv

LEMMA StutterInv ==
  ASSUME IInv, UNCHANGED vars
  PROVE  IInv'
<1>1. TypeOK' /\ ForeignKey'
  BY DEF IInv, TypeOK, ForeignKey, vars
<1>2. \A w \in Worker : Empty(w)' /\ Busy(w)'
  BY DEF IInv, Empty, Busy, vars
<1>3. \A j \in Job : Ended(j)' /\ Undisturbed(j)' /\ \A w \in Worker : ServedBy(j, w)'
  BY DEF IInv, Ended, Undisturbed, OnePlace, ServedBy, vars
<1> QED BY <1>1, <1>2, <1>3 DEF IInv

LEMMA NextInv ==
  ASSUME IInv, [Next]_vars
  PROVE  IInv'
<1>1. ASSUME Users PROVE IInv'
  BY <1>1, DelayInv, ChangeJobStateInv DEF Users
<1>2. ASSUME NEW w \in Worker, Cron(w) PROVE IInv'
  BY <1>2, AssignJobsInv, ListAssignedInv, EnqueueStoreInv, EnqueuePutInv DEF Cron
<1>3. ASSUME NEW w \in Worker, ThreadStep(w) PROVE IInv'
  BY <1>3, LoadInv, ResetToPendingInv, SetStartedInv, BeginPerformInv, SucceedInv,
     RetryPostponeInv, NothingToDoInv, FailInv, ConnectionLostInv DEF ThreadStep
<1> QED BY <1>1, <1>2, <1>3, StutterInv, StartInv, NotifyAliveInv, OverdueInv, PurgeInv, CrashInv
        DEF Next

\* The invariant, for any jobs and workers.
THEOREM IInvHolds == Spec => []IInv
BY InitInv, NextInv, PTL DEF Spec

\* The tables and the memory of the workers have their types.
THEOREM TypeCorrect == Spec => []TypeOK
<1>1. IInv => TypeOK
  BY DEF IInv
<1> QED BY <1>1, IInvHolds, PTL

\* What the table says is enqueued in or started by a living worker, that
\* worker has in memory (worker.py, enqueue_job_uuid and retry_postpone).
THEOREM ServedHolds == Spec => []Served
<1>1. IInv => Served
  <2>1. SUFFICES ASSUME IInv, NEW j \in Job, NEW w \in Worker, row[j].worker = w, Up(w)
                 PROVE  /\ row[j].state = "enqueued" =>
                             queue[w][j] > 0 \/ putting[w] = j \/ thread[w].job = j
                        /\ row[j].state = "started" => thread[w].job = j \/ j \in stuck
    BY DEF Served
  <2>2. ServedBy(j, w)
    BY <2>1 DEF IInv
  <2> QED BY <2>1, <2>2 DEF ServedBy, Up
<1> QED BY <1>1, IInvHolds, PTL

\* The effects of a job are committed at most once (run_job, _assign_jobs,
\* _purge_dead_workers), however often processes crash and jobs are retried.
THEOREM EffectsOnceHolds == Spec => []EffectsOnce
<1>1. IInv => EffectsOnce
  BY DEF IInv, Undisturbed, EffectsOnce
<1> QED BY <1>1, IInvHolds, PTL

LEMMA StoredOther ==
  ASSUME row \in [Job -> Row], NEW j \in Job, NEW i, i # j, NEW s, NEW w
  PROVE  Stored(i, s, w)[j] = row[j]
BY DEF Stored

\* A step keeps the state of a job that ended, whoever takes it.
LEMMA EndStays ==
  ASSUME IInv, [Next]_vars, NEW j \in Job, row[j].state \in {"failed", "done"}, j \notin disturbed'
  PROVE  row'[j].state = row[j].state
<1>1. CASE j \in disturbed
  <2>1. disturbed \subseteq disturbed'
    <3>1. ASSUME Users PROVE disturbed \subseteq disturbed'
      BY <3>1 DEF Users, Delay, ChangeJobState
    <3>2. ASSUME NEW w \in Worker, Cron(w) PROVE disturbed \subseteq disturbed'
      BY <3>2 DEF Cron, AssignJobs, ListAssigned, EnqueueStore, EnqueuePut
    <3>3. ASSUME NEW w \in Worker, ThreadStep(w) PROVE disturbed \subseteq disturbed'
      BY <3>3 DEF ThreadStep, Load, ResetToPending, SetStarted, BeginPerform, Succeed,
         RetryPostpone, NothingToDo, Fail, EndsAs, ConnectionLost
    <3> QED BY <3>1, <3>2, <3>3
            DEF Next, vars, Start, NotifyAlive, Overdue, Purge, Crash
  <2> QED BY <1>1, <2>1
<1>2. CASE j \notin disturbed
  <2>1. row \in [Job -> Row] /\ row[j] \in Row
    BY DEF IInv, TypeOK
  <2>2. row[j].worker = NoWorker
    BY <2>1 DEF IInv, Ended, Row
  <2>3. \A v \in Worker :
          j \notin listed[v] /\ putting[v] # j /\ ~(queue[v][j] > 0) /\ thread[v].job # j
    BY <1>2, <2>2, Nowhere
  <2>4. ASSUME Users PROVE row'[j].state = row[j].state
    <3>1. ASSUME NEW i \in Job, Delay(i) PROVE row'[j].state = row[j].state
      BY <2>1, <3>1, StoredOther DEF Delay
    <3>2. ASSUME NEW i \in Job, NEW s, ChangeJobState(i, s) PROVE row'[j].state = row[j].state
      BY <2>1, <3>2, StoredOther DEF ChangeJobState
    <3> QED BY <2>4, <3>1, <3>2 DEF Users
  <2>5. ASSUME NEW w \in Worker, Cron(w) PROVE row'[j].state = row[j].state
    <3>1. ASSUME AssignJobs(w) PROVE row'[j].state = row[j].state
      <4>1. j \notin Assignable
        BY DEF Assignable
      <4> QED BY <3>1, <4>1 DEF AssignJobs
    <3>2. ASSUME NEW i \in Job, EnqueueStore(w, i) PROVE row'[j].state = row[j].state
      BY <2>1, <2>3, <3>2, StoredOther DEF EnqueueStore
    <3> QED BY <2>5, <3>1, <3>2 DEF Cron, ListAssigned, EnqueuePut
  <2>6. ASSUME NEW w \in Worker, ThreadStep(w) PROVE row'[j].state = row[j].state
    <3>1. thread[w].job # j
      BY <2>3
    <3>2. \A s, v : Stored(thread[w].job, s, v)[j] = row[j]
      BY <2>1, <3>1, StoredOther
    <3>3. ASSUME NothingToDo(w) PROVE row'[j].state = row[j].state
      BY <2>1, <3>1, <3>3 DEF NothingToDo, EndsAs, Stored
    <3>4. ASSUME ResetToPending(w) \/ SetStarted(w) \/ Succeed(w) \/ RetryPostpone(w) \/ Fail(w)
          PROVE  row'[j].state = row[j].state
      BY <3>2, <3>4 DEF ResetToPending, SetStarted, Succeed, RetryPostpone, Fail, EndsAs
    <3>5. ASSUME (\E i \in Job : Load(w, i)) \/ BeginPerform(w) \/ ConnectionLost(w)
          PROVE  row'[j].state = row[j].state
      BY <3>5 DEF Load, BeginPerform, ConnectionLost
    <3> QED BY <2>6, <3>3, <3>4, <3>5 DEF ThreadStep
  <2>7. ASSUME NEW w \in Worker, Purge(w) PROVE row'[j].state = row[j].state
    BY <2>1, <2>7 DEF Purge, Row
  <2> QED BY <2>4, <2>5, <2>6, <2>7
          DEF Next, vars, Start, NotifyAlive, Overdue, Crash
<1> QED BY <1>1, <1>2

\* A job that ended is not undone, unless a user requeued it or its worker
\* was declared dead while it lived (_assign_jobs, run_job).
THEOREM EndIsFinalHolds == Spec => EndIsFinal
<1>1. ASSUME IInv, [Next]_vars
      PROVE  [\A j \in Job : (row[j].state \in {"failed", "done"} /\ j \notin disturbed')
                               => row'[j].state = row[j].state]_vars
  BY <1>1, EndStays
<1> QED BY <1>1, IInvHolds, PTL DEF Spec, EndIsFinal
=============================================================================
