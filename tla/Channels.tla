------------------------------ MODULE Channels ------------------------------
(***************************************************************************)
(* The tree of job channels of the connector's job runner                  *)
(* (connector/jobrunner/channels.py, class Channel), as operators on one   *)
(* value, the tree's content:                                              *)
(*                                                                         *)
(*   s.queue[c]    the jobs of the ChannelQueue  c._queue                  *)
(*   s.running[c]  the SafeSet                   c._running                *)
(*   s.failed[c]   the SafeSet                   c._failed                 *)
(*                                                                         *)
(* "Running" in a channel other than the root means queued or running      *)
(* downstream, in the parent; a job running in the root has been handed    *)
(* to the runner.  ConnectorChannels drives these operators with           *)
(* arbitrary notifications, JobRunner with those the database sends.       *)
(***************************************************************************)
EXTENDS Naturals, FiniteSets

CONSTANTS
  Job,         \* jobs, by uuid
  Channel,     \* the configured channels, by full name
  Root,        \* the root channel
  Parent,      \* the parent of each other channel
  Capacity,    \* the capacity of each channel, 0 when it is unlimited
  Sequential   \* the channels a failed job blocks

(***************************************************************************)
(* The ancestors of c and c itself: the least set that holds c and, with   *)
(* a channel, its parent.                                                  *)
(***************************************************************************)
Upward(S) == \A a \in S \ {Root} : Parent[a] \in S

Path == [c \in Channel |->
           {a \in Channel : \A S \in SUBSET Channel :
                               c \in S /\ Upward(S) => a \in S}]

(***************************************************************************)
(* get_channel_by_name creates the missing parents of a channel down from  *)
(* the root, so every channel leads to the root; configure refuses a       *)
(* sequential channel of another capacity than 1.                          *)
(***************************************************************************)
ASSUME TreeAssumption ==
  /\ Root \in Channel
  /\ Parent \in [Channel \ {Root} -> Channel]
  /\ \A c \in Channel : Root \in Path[c]

ASSUME FiniteAssumption == IsFiniteSet(Job)

ASSUME ConfigAssumption ==
  /\ Capacity \in [Channel -> Nat]
  /\ Sequential \subseteq Channel
  /\ \A c \in Sequential : Capacity[c] = 1

Children(c) == {d \in Channel \ {Root} : Parent[d] = c}

Above(c) == IF c = Root THEN {} ELSE Path[Parent[c]]

Trees == [queue   : [Channel -> SUBSET Job],
          running : [Channel -> SUBSET Job],
          failed  : [Channel -> SUBSET Job]]

EmptyTree == LET none == [c \in Channel |-> {}]
             IN  [queue |-> none, running |-> none, failed |-> none]

-----------------------------------------------------------------------------
(* The operations of a channel on a job. *)

Without(f, j, S) == [a \in Channel |-> IF a \in S THEN f[a] \ {j} ELSE f[a]]

With(f, j, S) == [a \in Channel |-> IF a \in S THEN f[a] \cup {j} ELSE f[a]]

Dropped(s, j, S) == [queue   |-> Without(s.queue, j, S),
                     running |-> Without(s.running, j, S),
                     failed  |-> Without(s.failed, j, S)]

\* remove: from this channel, then from its parent, up to the root.
Remove(s, j, c) == Dropped(s, j, Path[c])

\* set_done is remove, and a log line.
SetDone(s, j, c) == Remove(s, j, c)

\* As a bug would have it: the channels above keep the job.
SetPendingHereOnly(s, j, c) ==
  LET t == Dropped(s, j, {c})
  IN  [t EXCEPT !.queue = With(t.queue, j, {c})]

\* set_pending: nothing for a job that is already in the channel's queue;
\* otherwise into this queue, out of the rest of the channel and of every
\* channel above.
SetPending(s, j, c) ==
  IF j \in s.queue[c] THEN s
  ELSE LET t == Dropped(s, j, {c} \cup Above(c))
       IN  [t EXCEPT !.queue = With(t.queue, j, {c})]

\* set_running climbs from c to the root and stops at the first channel
\* that already has the job in _running.
Climbed(s, j, c) ==
  {a \in Path[c] : \A b \in Path[c] : a \in Path[b] => j \notin s.running[b]}

SetRunning(s, j, c) ==
  LET up == Climbed(s, j, c)
  IN  [queue   |-> Without(s.queue, j, up),
       running |-> With(s.running, j, up),
       failed  |-> Without(s.failed, j, up)]

\* set_failed: nothing for a job already in the channel's failed set.
SetFailed(s, j, c) ==
  IF j \in s.failed[c] THEN s
  ELSE LET t == Dropped(s, j, {c} \cup Above(c))
       IN  [t EXCEPT !.failed = With(t.failed, j, {c})]

\* The part of notify that follows the job's state in the database.
Notified(s, j, c, state) ==
  CASE state = "done"                    -> SetDone(s, j, c)
    [] state = "pending"                 -> SetPending(s, j, c)
    [] state \in {"enqueued", "started"} -> SetRunning(s, j, c)
    [] state = "failed"                  -> SetFailed(s, j, c)

\* The body of the loop of get_jobs_to_run: the job popped from the queue of
\* c is running in c and, as the parent's loop over its children does with
\* what they yield, queued in the parent.
Pulled(s, j, c) ==
  LET up == IF c = Root THEN {} ELSE {Parent[c]}
  IN  [queue   |-> With(Without(s.queue, j, {c}), j, up),
       running |-> With(s.running, j, {c}),
       failed  |-> s.failed]

\* As a bug would have it: one job too many.
MayPullOneMore(s, c) ==
  Capacity[c] = 0 \/ Cardinality(s.running[c]) <= Capacity[c]

\* The two conditions under which get_jobs_to_run pops another job from c.
MayPull(s, c) ==
  /\ ~ (c \in Sequential /\ s.failed[c] # {})
  /\ Capacity[c] = 0 \/ Cardinality(s.running[c]) < Capacity[c]

-----------------------------------------------------------------------------
(* Where a job may be. *)

Within(s, j, c) == j \in s.queue[c] \/ j \in s.running[c]

(***************************************************************************)
(* A job attached to channel own: it is in no channel outside its path to  *)
(* the root, never in two parts of one channel, it is running in a channel *)
(* exactly when the parent has it queued or running, and failed nowhere    *)
(* but in its own channel and then nowhere else.                           *)
(***************************************************************************)
FlowOf(s, j, own) ==
  /\ \A c \in Channel : Within(s, j, c) => c \in Path[own]
  /\ \A c \in Channel : ~ (j \in s.queue[c] /\ j \in s.running[c])
  /\ \A c \in Path[own] \ {Root} :
        j \in s.running[c] <=> Within(s, j, Parent[c])
  /\ \A c \in Channel : j \in s.failed[c] =>
        c = own /\ \A d \in Channel : ~ Within(s, j, d)

Waiting(s) == UNION {s.queue[c] : c \in Channel}

Failed(s) == UNION {s.failed[c] : c \in Channel}
=============================================================================
