-------------------------- MODULE ConnectorChannels --------------------------
(***************************************************************************)
(* The ChannelManager of connector/jobrunner/channels.py: the channels     *)
(* fed with notifications about jobs (notify, remove_job, remove_db) and   *)
(* asked for jobs to run (get_jobs_to_run).  The runner's one thread calls *)
(* it, so a call is not interrupted by another, except that                *)
(* get_jobs_to_run is a generator: the runner works on a job between two   *)
(* of its steps, and an error there abandons it half way.                  *)
(***************************************************************************)
EXTENDS Channels

CONSTANTS
  Row,        \* what the database may say of a job: the name of its channel,
              \* configured or not, its priority and its eta (0 for none)
  Time,       \* the instants get_jobs_to_run may be called at
  Seq,        \* the creation order of the jobs (date_created, then id)
  Database,   \* the databases
  DbOf        \* the database of each job

ASSUME JobsAssumption ==
  /\ \A j \in Job : /\ Row[j] # {}
                    /\ \A r \in Row[j] : r.priority \in Nat /\ r.eta \in Nat
  /\ Time \subseteq Nat /\ 0 \in Time
  /\ Seq \in [Job -> Nat]
  /\ DbOf \in [Job -> Database]

VARIABLES
  tree,       \* the content of the channels
  info,       \* per job, the attributes of its ChannelJob
  now,        \* the clock
  pulling,    \* is a get_jobs_to_run iteration under way?
  finished,   \* the channels whose part of the iteration is over
  told        \* history: the state last notified of each job

vars == <<tree, info, now, pulling, finished, told>>

Props == [channel : Channel, priority : Nat, eta : Nat]

\* get_channel_by_name: an unknown channel, or none, is the root.
GetChannelByName(n) == IF n \in Channel THEN n ELSE Root

\* The attributes of the ChannelJob made from a row.
ChannelJob(r) == [channel  |-> GetChannelByName(r.name),
                  priority |-> r.priority,
                  eta      |-> r.eta]

JobState == {"done", "pending", "enqueued", "started", "failed"}

TypeOK ==
  /\ tree \in Trees
  /\ info \in [Job -> Props]
  /\ now \in Time
  /\ pulling \in BOOLEAN
  /\ finished \subseteq Channel
  /\ told \in [Job -> {"done", "pending", "running", "failed"}]

\* Nothing is known of any job; the attributes of an unknown job have no
\* effect.
Init ==
  /\ tree = EmptyTree
  /\ info = [j \in Job |-> ChannelJob(CHOOSE r \in Row[j] : TRUE)]
  /\ now = 0
  /\ pulling = FALSE
  /\ finished = {}
  /\ told = [j \in Job |-> "done"]

-----------------------------------------------------------------------------
(* Ordering of the jobs and of the queues. *)

\* ChannelJob.__cmp__
Before(i, j) ==
  LET a == info[i]
      b == info[j]
  IN  \/ a.eta # 0 /\ b.eta = 0
      \/ /\ a.eta # 0 <=> b.eta # 0
         /\ \/ a.eta < b.eta
            \/ a.eta = b.eta /\ a.priority < b.priority
            \/ a.eta = b.eta /\ a.priority = b.priority /\ Seq[i] < Seq[j]

DueByEta(c) == {j \in tree.queue[c] : info[j].eta # 0 /\ info[j].eta <= now}

NoEta(c) == {j \in tree.queue[c] : info[j].eta = 0}

\* ChannelQueue.pop: a job of the eta queue when its first one is due, else
\* the first of the jobs without eta.
Poppable(c) == IF DueByEta(c) # {} THEN DueByEta(c) ELSE NoEta(c)

First(c) == {j \in Poppable(c) : \A i \in Poppable(c) : ~ Before(i, j)}

\* get_jobs_to_run has nothing more to take from channel c.
Exhausted(c) == ~ MayPull(tree, c) \/ Poppable(c) = {}

-----------------------------------------------------------------------------
(* The operations. *)

Tell(state) == IF state \in {"enqueued", "started"} THEN "running" ELSE state

\* As a bug would have it: the job is not removed before it is attached anew.
NotifyInPlace(j, r, state) ==
  /\ ~ pulling
  /\ tree' = Notified(tree, j, ChannelJob(r).channel, state)
  /\ info' = [info EXCEPT ![j] = ChannelJob(r)]
  /\ told' = [told EXCEPT ![j] = Tell(state)]
  /\ UNCHANGED <<now, pulling, finished>>

\* As a bug would have it: the job is attached to the channel that was found
\* and remembered with the name the database has.
NotifyByName(j, r, state) ==
  LET q == ChannelJob(r)
      t == IF q = info[j] THEN tree ELSE Remove(tree, j, info[j].channel)
  IN  /\ ~ pulling
      /\ tree' = Notified(t, j, q.channel, state)
      /\ info' = [info EXCEPT ![j] = [q EXCEPT !.channel = r.name]]
      /\ told' = [told EXCEPT ![j] = Tell(state)]
      /\ UNCHANGED <<now, pulling, finished>>

\* notify: a job whose scheduling attributes changed is removed and attached
\* anew, then follows its state.
Notify(j, r, state) ==
  LET q == ChannelJob(r)
      t == IF q = info[j] THEN tree ELSE Remove(tree, j, info[j].channel)
  IN  /\ ~ pulling
      /\ tree' = Notified(t, j, q.channel, state)
      /\ info' = [info EXCEPT ![j] = q]
      /\ told' = [told EXCEPT ![j] = Tell(state)]
      /\ UNCHANGED <<now, pulling, finished>>

RemoveJob(j) ==
  /\ ~ pulling
  /\ tree' = Remove(tree, j, info[j].channel)
  /\ told' = [told EXCEPT ![j] = "done"]
  /\ UNCHANGED <<info, now, pulling, finished>>

\* remove_db, when the runner closes the database after an error, which may
\* cut an iteration short.
RemoveDb(d) ==
  LET keep(f) ==
        [c \in Channel |->
           {j \in f[c] : ~ (DbOf[j] = d /\ c \in Path[info[j].channel])}]
  IN  /\ tree' = [queue   |-> keep(tree.queue),
                  running |-> keep(tree.running),
                  failed  |-> keep(tree.failed)]
      /\ told' = [j \in Job |-> IF DbOf[j] = d THEN "done" ELSE told[j]]
      /\ pulling' = FALSE
      /\ finished' = {}
      /\ UNCHANGED <<info, now>>

\* get_jobs_to_run is called with the current time.
StartPulling ==
  /\ ~ pulling
  /\ pulling' = TRUE
  /\ now' \in {t \in Time : now <= t}
  /\ UNCHANGED <<tree, info, finished, told>>

\* As a bug would have it: a channel may come before its children.
AtAnyLoop(c) == pulling /\ c \notin finished

\* The loop of channel c comes after those of its children.
AtLoop(c) == pulling /\ c \notin finished /\ Children(c) \subseteq finished

\* One turn of the loop of c.  In the root, it hands the job to the runner.
Pull(c, j) ==
  /\ AtLoop(c)
  /\ MayPull(tree, c)
  /\ j \in First(c)
  /\ tree' = Pulled(tree, j, c)
  /\ UNCHANGED <<info, now, pulling, finished, told>>

\* The loop of c ends; with that of the root, the iteration.
Finish(c) ==
  /\ AtLoop(c)
  /\ Exhausted(c)
  /\ pulling' = (c # Root)
  /\ finished' = IF c = Root THEN {} ELSE finished \cup {c}
  /\ UNCHANGED <<tree, info, now, told>>

Next ==
  \/ \E j \in Job, state \in JobState : \E r \in Row[j] : Notify(j, r, state)
  \/ \E j \in Job : RemoveJob(j)
  \/ \E d \in Database : RemoveDb(d)
  \/ StartPulling
  \/ \E c \in Channel, j \in Job : Pull(c, j)
  \/ \E c \in Channel : Finish(c)

Spec == Init /\ [][Next]_vars

-----------------------------------------------------------------------------
(* Properties. *)

\* Every job flows down its own path of channels without being lost or
\* counted twice on the way: whatever the notifications, the sets of the
\* several channels, each updated on its own by remove, set_pending,
\* set_running, set_failed and get_jobs_to_run, keep agreeing on where it is.
FlowInv == \A j \in Job : FlowOf(tree, j, info[j].channel)

\* No channel runs more jobs than its capacity of those the manager let in;
\* only jobs the database says to be running already can exceed it.
CapacityHonoured ==
  \A c \in Channel :
    Capacity[c] # 0 =>
      Cardinality({j \in tree.running[c] : told[j] = "pending"}) <= Capacity[c]

\* One pass of get_jobs_to_run, children first, is complete: when it ends, no
\* channel with room left holds a job whose time has come.
RoundIsComplete ==
  [][pulling /\ Finish(Root) => \A c \in Channel : Exhausted(c)]_vars

\* Where the runner sees a job: handed out to it, waiting or failed.
Status ==
  [j \in Job |-> IF j \in Waiting(tree) THEN "waiting"
                 ELSE IF j \in tree.running[Root] THEN "handed"
                 ELSE IF j \in Failed(tree) THEN "failed" ELSE "absent"]

Pool == INSTANCE JobPool WITH Slots <- Capacity[Root], status <- Status

\* The channels implement the pool: a job moves between waiting, handed out,
\* failed and absent only as it is told to or, from waiting, when the root
\* hands it out within its capacity.
PoolSpec == Pool!Spec
=============================================================================
