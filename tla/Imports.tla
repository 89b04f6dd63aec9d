------------------------------- MODULE Imports -------------------------------
(***************************************************************************)
(* Jobs that import records of an external system, as the connector means  *)
(* them to be written (connector/connector.py): before a job imports a     *)
(* record, or another one the record depends on, it takes an advisory lock *)
(* for it, held until its transaction ends; the binder tells whether the   *)
(* record is known, and it is updated or created and bound.  When the lock *)
(* is taken elsewhere, the job is rolled back and retried later.           *)
(*                                                                         *)
(* A job is one transaction, at PostgreSQL's level REPEATABLE READ: it     *)
(* sees the table as it was when it began, and cannot write a row that     *)
(* another transaction wrote since.  How jobs are sent is JobRunner's.     *)
(***************************************************************************)
EXTENDS Naturals, Sequences

CONSTANTS
  Job, Record, NoJob,
  Needs,        \* the records a job imports, in that order
  MaxRetries    \* max_retries of every job

ASSUME ImportsAssumption ==
  /\ NoJob \notin Job
  /\ Needs \in [Job -> Seq(Record)]
  /\ MaxRetries \in Nat \ {0}

VARIABLES
  job,       \* the state of each job
  retry,     \* its tries
  bindings,  \* how many rows bind each record in the table
  seen,      \* how many of them a running job sees, but for its own
  changed,   \* those of a row that was written elsewhere since it began
  created,   \* those it has created a row for
  updated,   \* those of which it has written the row
  pos,       \* how many records it has imported
  lock,      \* who has the lock of each record
  late,      \* history: records created by a job that could not see their row
  offline    \* history: jobs whose connection to the external system failed

importsVars == <<job, retry, bindings, seen, changed, created, updated, pos, lock, late, offline>>

transaction == <<seen, changed, created, updated>>

ImportsTypeOK ==
  /\ job \in [Job -> {"pending", "running", "done", "failed"}]
  /\ retry \in [Job -> Nat]
  /\ bindings \in [Record -> Nat]
  /\ seen \in [Job -> [Record -> Nat]]
  /\ {changed, created, updated} \subseteq [Job -> SUBSET Record]
  /\ pos \in [Job -> Nat]
  /\ lock \in [Record -> Job \cup {NoJob}]
  /\ late \subseteq Record
  /\ offline \subseteq Job

\* A record was imported before, or it was not.
ImportsInit ==
  /\ job = [j \in Job |-> "pending"]
  /\ retry = [j \in Job |-> 0]
  /\ bindings \in [Record -> {0, 1}]
  /\ seen = [j \in Job |-> [r \in Record |-> 0]]
  /\ changed = [j \in Job |-> {}]
  /\ created = [j \in Job |-> {}]
  /\ updated = [j \in Job |-> {}]
  /\ pos = [j \in Job |-> 0]
  /\ lock = [r \in Record |-> NoJob]
  /\ late = {}
  /\ offline = {}

-----------------------------------------------------------------------------
(* A job's transaction *)

\* perform: the try is counted, and the first query of the job's function fixes
\* what the transaction sees.
Begin(j) ==
  /\ job[j] = "pending"
  /\ job' = [job EXCEPT ![j] = "running"]
  /\ retry' = [retry EXCEPT ![j] = @ + 1]
  /\ seen' = [seen EXCEPT ![j] = bindings]
  /\ changed' = [changed EXCEPT ![j] = {}]
  /\ created' = [created EXCEPT ![j] = {}]
  /\ updated' = [updated EXCEPT ![j] = {}]
  /\ pos' = [pos EXCEPT ![j] = 0]
  /\ UNCHANGED <<bindings, lock, late, offline>>

\* The locks are held until the end of the transaction.
Released(j) == [r \in Record |-> IF lock[r] = j THEN NoJob ELSE lock[r]]

\* Is the job to import another record?
Unfinished(j) == job[j] = "running" /\ pos[j] < Len(Needs[j])

Wanted(j) == Needs[j][pos[j] + 1]

\* As a bug would have it: whoever asks last has the lock.
AcquiredByAll(j) == TRUE

\* pg_try_advisory_lock
Acquired(j) == lock[Wanted(j)] \in {j, NoJob}

\* to_openerp: the rows that bind the record, for this transaction
ToOpenerp(j) == seen[j][Wanted(j)] + (IF Wanted(j) \in created[j] THEN 1 ELSE 0)

\* The importer creates the record when there is no binding, and binds it.
Create(j) ==
  LET r == Wanted(j)
  IN  /\ Unfinished(j)
      /\ Acquired(j)
      /\ ToOpenerp(j) = 0
      /\ lock' = [lock EXCEPT ![r] = j]
      /\ created' = [created EXCEPT ![j] = @ \cup {r}]
      /\ pos' = [pos EXCEPT ![j] = @ + 1]
      /\ late' = IF bindings[r] > 0 THEN late \cup {r} ELSE late
      /\ UNCHANGED <<job, retry, bindings, seen, changed, updated, offline>>

\* It updates the record that is bound already; bind writes its row in any case.
Update(j) ==
  LET r == Wanted(j)
  IN  /\ Unfinished(j)
      /\ Acquired(j)
      /\ ToOpenerp(j) = 1
      /\ r \notin changed[j]
      /\ lock' = [lock EXCEPT ![r] = j]
      /\ updated' = [updated EXCEPT ![j] = @ \cup ({r} \ created[j])]
      /\ pos' = [pos EXCEPT ![j] = @ + 1]
      /\ UNCHANGED <<job, retry, bindings, seen, changed, created, late, offline>>

\* The job is done in the same transaction.
Commit(j) ==
  /\ job[j] = "running"
  /\ ~Unfinished(j)
  /\ job' = [job EXCEPT ![j] = "done"]
  /\ bindings' = [r \in Record |-> bindings[r] + (IF r \in created[j] THEN 1 ELSE 0)]
  /\ changed' = [k \in Job |-> changed[k] \cup updated[j]]
  /\ lock' = Released(j)
  /\ UNCHANGED <<retry, seen, created, updated, pos, late, offline>>

-----------------------------------------------------------------------------
(* Errors, which roll the transaction back *)

\* The job is in the state s after it.
Rollback(j, s) ==
  /\ job' = [job EXCEPT ![j] = s]
  /\ lock' = Released(j)
  /\ UNCHANGED <<bindings, transaction, pos, late>>

\* Two rows bind the record: ensure_one raises an error.
TwoBindings(j) ==
  /\ Unfinished(j)
  /\ Acquired(j)
  /\ ToOpenerp(j) > 1
  /\ Rollback(j, "failed")
  /\ UNCHANGED <<retry, offline>>

\* The row was written since the job began: a serialization failure, after which
\* the job is postponed.  The try counts, but is not compared with the limit.
Conflict(j) ==
  /\ Unfinished(j)
  /\ Acquired(j)
  /\ ToOpenerp(j) = 1
  /\ Wanted(j) \in changed[j]
  /\ Rollback(j, "pending")
  /\ UNCHANGED <<retry, offline>>

\* perform, of a RetryableJobError
Limited(j) == IF retry[j] >= MaxRetries THEN "failed" ELSE "pending"

\* As a bug would have it: the lock that is taken is an error like others.
RetryCounted(j) ==
  /\ Unfinished(j)
  /\ ~Acquired(j)
  /\ Rollback(j, Limited(j))
  /\ UNCHANGED <<retry, offline>>

\* As a bug would have it: perform and runjob both take the try back.
UncountedTwice(j) ==
  /\ Unfinished(j)
  /\ ~Acquired(j)
  /\ Rollback(j, "pending")
  /\ retry' = [retry EXCEPT ![j] = @ - 2]
  /\ UNCHANGED offline

\* advisory_lock_or_retry: with ignore_retry the try does not count.
LockOrRetry(j) ==
  /\ Unfinished(j)
  /\ ~Acquired(j)
  /\ Rollback(j, "pending")
  /\ retry' = [retry EXCEPT ![j] = @ - 1]
  /\ UNCHANGED offline

\* The external system does not answer.
NetworkError(j) ==
  /\ job[j] = "running"
  /\ Rollback(j, Limited(j))
  /\ offline' = offline \cup {j}
  /\ UNCHANGED retry

-----------------------------------------------------------------------------
ImportStep(j) ==
  \/ Begin(j)
  \/ Create(j) \/ Update(j) \/ Commit(j)
  \/ TwoBindings(j) \/ Conflict(j) \/ LockOrRetry(j)

ImportsNext == \E j \in Job : ImportStep(j) \/ NetworkError(j)

ImportsFairness == \A j \in Job : WF_importsVars(ImportStep(j))

ImportsSpec == ImportsInit /\ [][ImportsNext]_importsVars /\ ImportsFairness

-----------------------------------------------------------------------------
(* Properties *)

\* A record is created once, however many jobs import it at once, unless a job
\* began before the creator's commit and asked for the lock after it.
ImportedOnce == \A r \in Record : bindings[r] <= 1 \/ r \in late

\* A record is created once: what the lock is documented to achieve.
NoDuplicate == \A r \in Record : bindings[r] <= 1

\* Every import succeeds in the end, whoever else has the locks it needs, unless
\* the external system failed it or a record of it was created twice.
EveryImportEnds ==
  \A j \in Job :
    <>(\/ job[j] = "done"
       \/ /\ job[j] = "failed"
          /\ j \in offline \/ \E k \in DOMAIN Needs[j] : Needs[j][k] \in late)
=============================================================================
