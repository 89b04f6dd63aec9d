----------------------- MODULE ConnectorChannels_proofs -----------------------
(***************************************************************************)
(* Theorems about the ChannelManager, for every tree of channels, every    *)
(* configuration and every finite set of jobs.                             *)
(*                                                                         *)
(* FlowInv and TypeOK are inductive together: each operation keeps the     *)
(* place of the jobs it is not about, and moves the job it is about        *)
(* consistently because it found it in a consistent place.                 *)
(***************************************************************************)
EXTENDS ConnectorChannels, Channels_proofs, FiniteSetTheorems

-----------------------------------------------------------------------------
(* Types, and the place of the jobs. *)

Inv == TypeOK /\ FlowInv

LEMMA ChannelJobType ==
  ASSUME NEW j \in Job, NEW r \in Row[j]
  PROVE  ChannelJob(r) \in Props
BY TreeAssumption, JobsAssumption DEF ChannelJob, GetChannelByName, Props

LEMMA InitInv == Init => Inv
<1> SUFFICES ASSUME Init PROVE Inv
  OBVIOUS
<1>1. tree \in Trees /\ \A j \in Job : Absent(tree, j)
  BY DEF Init, EmptyTree, Trees, Absent, Within
<1>2. info \in [Job -> Props]
  <2>1. \A j \in Job : (CHOOSE r \in Row[j] : TRUE) \in Row[j]
    BY JobsAssumption
  <2> QED BY <2>1, ChannelJobType DEF Init
<1>3. TypeOK
  BY <1>1, <1>2, JobsAssumption DEF Init, TypeOK
<1>4. FlowInv
  BY <1>1, <1>2, AbsentFlows DEF FlowInv, Props
<1> QED BY <1>3, <1>4 DEF Inv

\* One job moved to a new place, the others where they were.
LEMMA OneMoved ==
  ASSUME Inv, tree' \in Trees, NEW j \in Job, info' \in [Job -> Props],
         FlowOf(tree', j, info'[j].channel),
         \A i \in Job \ {j} : SamePlace(tree, tree', i) /\ info'[i] = info[i]
  PROVE  FlowInv'
<1>1. ASSUME NEW i \in Job \ {j} PROVE FlowOf(tree', i, info'[i].channel)
  BY <1>1, SamePlaceFlows DEF Inv, TypeOK, FlowInv, Props
<1> QED BY <1>1 DEF FlowInv

LEMMA NotifyInv ==
  ASSUME Inv, NEW j \in Job, NEW r \in Row[j], NEW state \in JobState,
         Notify(j, r, state)
  PROVE  Inv'
<1> DEFINE q == ChannelJob(r)
           t == IF q = info[j] THEN tree ELSE Remove(tree, j, info[j].channel)
<1>1. q \in Props /\ q.channel \in Channel /\ info[j].channel \in Channel
  BY ChannelJobType DEF Inv, TypeOK, Props
<1>2. /\ tree' = Notified(t, j, q.channel, state)
      /\ info' = [info EXCEPT ![j] = q]
  BY DEF Notify
<1>3. /\ t \in Trees
      /\ FlowOf(t, j, q.channel)
      /\ \A i \in Job \ {j} : SamePlace(tree, t, i)
  <2>1. tree \in Trees /\ FlowOf(tree, j, info[j].channel)
    BY DEF Inv, TypeOK, FlowInv
  <2>2. CASE q = info[j]
    BY <2>1, <2>2 DEF SamePlace
  <2>3. CASE q # info[j]
    BY <1>1, <2>1, <2>3, RemoveFlows, AbsentFlows
  <2> QED BY <2>2, <2>3
<1>4. /\ tree' \in Trees
      /\ FlowOf(tree', j, q.channel)
      /\ \A i \in Job \ {j} : SamePlace(t, tree', i)
  BY <1>1, <1>2, <1>3, NotifiedFlows DEF JobState
<1>5. info' \in [Job -> Props] /\ info'[j] = q
  BY <1>1, <1>2 DEF Inv, TypeOK
<1>6. TypeOK'
  BY <1>4, <1>5 DEF Inv, TypeOK, Notify, JobState, Tell
<1>7. \A i \in Job \ {j} : SamePlace(tree, tree', i) /\ info'[i] = info[i]
  BY <1>2, <1>3, <1>4 DEF SamePlace, Inv, TypeOK
<1> QED BY <1>4, <1>5, <1>6, <1>7, OneMoved DEF Inv

LEMMA RemoveJobInv ==
  ASSUME Inv, NEW j \in Job, RemoveJob(j)
  PROVE  Inv'
<1>1. /\ info[j].channel \in Channel
      /\ tree \in Trees /\ FlowOf(tree, j, info[j].channel)
      /\ tree' = Remove(tree, j, info[j].channel) /\ info' = info
  BY DEF Inv, TypeOK, FlowInv, Props, RemoveJob
<1>2. /\ tree' \in Trees
      /\ FlowOf(tree', j, info'[j].channel)
      /\ \A i \in Job \ {j} : SamePlace(tree, tree', i)
  BY <1>1, RemoveFlows, AbsentFlows
<1>3. TypeOK'
  BY <1>1, <1>2 DEF Inv, TypeOK, RemoveJob
<1> QED BY <1>1, <1>2, <1>3, OneMoved DEF Inv, TypeOK

LEMMA RemoveDbInv ==
  ASSUME Inv, NEW d \in Database, RemoveDb(d)
  PROVE  Inv'
<1> DEFINE Gone(j, c) == DbOf[j] = d /\ c \in Path[info[j].channel]
           keep(f) == [c \in Channel |-> {j \in f[c] : ~ Gone(j, c)}]
<1>1. /\ tree \in Trees /\ info \in [Job -> Props] /\ info' = info
      /\ \A j \in Job : info[j].channel \in Channel
  BY DEF Inv, TypeOK, Props, RemoveDb
<1>2. tree' = [queue   |-> keep(tree.queue),
               running |-> keep(tree.running),
               failed  |-> keep(tree.failed)]
  BY DEF RemoveDb
<1>3. tree' \in Trees
  BY <1>1, <1>2 DEF Trees
<1>4. ASSUME NEW j \in Job PROVE FlowOf(tree', j, info'[j].channel)
  <2>1. FlowOf(tree, j, info[j].channel)
    BY DEF Inv, FlowInv
  <2>2. CASE DbOf[j] = d
    <3>1. Absent(tree', j)
      BY <1>1, <1>2, <2>1, <2>2, PathClosed DEF Absent, Within, FlowOf, Trees
    <3> QED BY <1>1, <1>3, <3>1, AbsentFlows
  <2>3. CASE DbOf[j] # d
    <3>1. SamePlace(tree, tree', j)
      BY <1>1, <1>2, <2>3 DEF SamePlace, Trees
    <3> QED BY <1>1, <1>3, <2>1, <3>1, SamePlaceFlows
  <2> QED BY <2>2, <2>3
<1>5. TypeOK'
  BY <1>3 DEF Inv, TypeOK, RemoveDb
<1> QED BY <1>4, <1>5 DEF Inv, FlowInv

LEMMA PullInv ==
  ASSUME Inv, NEW c \in Channel, NEW j \in Job, Pull(c, j)
  PROVE  Inv'
<1>1. j \in tree.queue[c]
  BY DEF Pull, First, Poppable, DueByEta, NoEta
<1>2. /\ info[j].channel \in Channel
      /\ tree \in Trees /\ FlowOf(tree, j, info[j].channel)
      /\ tree' = Pulled(tree, j, c) /\ info' = info
  BY DEF Inv, TypeOK, FlowInv, Props, Pull
<1>3. /\ tree' \in Trees
      /\ FlowOf(tree', j, info'[j].channel)
      /\ \A i \in Job \ {j} : SamePlace(tree, tree', i)
  BY <1>1, <1>2, PulledFlows
<1>4. TypeOK'
  BY <1>2, <1>3 DEF Inv, TypeOK, Pull
<1> QED BY <1>2, <1>3, <1>4, OneMoved DEF Inv, TypeOK

\* Inv is inductive.
LEMMA NextInv == Inv /\ [Next]_vars => Inv'
<1> SUFFICES ASSUME Inv, [Next]_vars PROVE Inv'
  OBVIOUS
<1>1. ASSUME NEW j \in Job, NEW state \in JobState, NEW r \in Row[j],
             Notify(j, r, state)
      PROVE  Inv'
  BY <1>1, NotifyInv
<1>2. ASSUME NEW j \in Job, RemoveJob(j) PROVE Inv'
  BY <1>2, RemoveJobInv
<1>3. ASSUME NEW d \in Database, RemoveDb(d) PROVE Inv'
  BY <1>3, RemoveDbInv
<1>4. CASE StartPulling
  BY <1>4 DEF Inv, TypeOK, FlowInv, StartPulling
<1>5. ASSUME NEW c \in Channel, NEW j \in Job, Pull(c, j) PROVE Inv'
  BY <1>5, PullInv
<1>6. ASSUME NEW c \in Channel, Finish(c) PROVE Inv'
  BY <1>6 DEF Inv, TypeOK, FlowInv, Finish
<1>7. CASE UNCHANGED vars
  BY <1>7 DEF Inv, TypeOK, FlowInv, vars
<1> QED BY <1>1, <1>2, <1>3, <1>4, <1>5, <1>6, <1>7 DEF Next

\* Every variable of the ChannelManager keeps its type.
THEOREM TypeCorrect == Spec => []TypeOK
<1>1. Spec => []Inv
  BY InitInv, NextInv, PTL DEF Spec
<1>2. Inv => TypeOK
  BY DEF Inv
<1> QED BY <1>1, <1>2, PTL

\* FlowInv: the sets of the channels agree on where each job is, whatever
\* channel_manager.notify, remove_job, remove_db and get_jobs_to_run did.
THEOREM JobsFlow == Spec => []FlowInv
<1>1. Spec => []Inv
  BY InitInv, NextInv, PTL DEF Spec
<1>2. Inv => FlowInv
  BY DEF Inv
<1> QED BY <1>1, <1>2, PTL

-----------------------------------------------------------------------------
(* Capacities. *)

\* The running jobs of c that the database still takes for pending.
LetIn(c) == {j \in tree.running[c] : told[j] = "pending"}

LEMMA LetInIsFinite ==
  ASSUME Inv, NEW c \in Channel
  PROVE  /\ LetIn(c) \subseteq tree.running[c]
         /\ tree.running[c] \subseteq Job
         /\ IsFiniteSet(tree.running[c]) /\ IsFiniteSet(LetIn(c))
         /\ Cardinality(LetIn(c)) <= Cardinality(tree.running[c])
<1>1. LetIn(c) \subseteq tree.running[c] /\ tree.running[c] \subseteq Job
  BY DEF Inv, TypeOK, Trees, LetIn
<1> QED BY <1>1, FiniteAssumption, FS_Subset

\* A step that lets no job in keeps the capacities.
LEMMA NobodyLetIn ==
  ASSUME Inv, CapacityHonoured, \A c \in Channel : LetIn(c)' \subseteq LetIn(c)
  PROVE  CapacityHonoured'
<1> SUFFICES ASSUME NEW c \in Channel, Capacity[c] # 0
             PROVE  Cardinality(LetIn(c)') <= Capacity[c]
  BY DEF CapacityHonoured, LetIn
<1>1. Cardinality(LetIn(c)) <= Capacity[c] /\ Capacity[c] \in Nat
  BY ConfigAssumption DEF CapacityHonoured, LetIn
<1>2. /\ IsFiniteSet(LetIn(c)') /\ IsFiniteSet(LetIn(c))
      /\ Cardinality(LetIn(c)') <= Cardinality(LetIn(c))
  BY LetInIsFinite, FS_Subset
<1>3. Cardinality(LetIn(c)') \in Nat /\ Cardinality(LetIn(c)) \in Nat
  BY <1>2, FS_CardinalityType
<1> QED BY <1>1, <1>2, <1>3

\* What a notification does to its job before the job follows its state.
LEMMA NotifyInTwoSteps ==
  ASSUME Inv, NEW j \in Job, NEW r \in Row[j], NEW state \in JobState,
         Notify(j, r, state)
  PROVE  \E t \in Trees :
           /\ FlowOf(t, j, info'[j].channel)
           /\ info'[j].channel \in Channel
           /\ tree' = Notified(t, j, info'[j].channel, state)
           /\ t = tree \/ Absent(t, j)
           /\ \A i \in Job \ {j} : SamePlace(tree, tree', i)
<1> DEFINE q == ChannelJob(r)
           t == IF q = info[j] THEN tree ELSE Remove(tree, j, info[j].channel)
<1>1. q.channel \in Channel /\ info[j].channel \in Channel /\ info'[j] = q
  BY ChannelJobType DEF Inv, TypeOK, Props, Notify
<1>2. tree \in Trees /\ FlowOf(tree, j, info[j].channel)
  BY DEF Inv, TypeOK, FlowInv
<1>3. /\ t \in Trees
      /\ FlowOf(t, j, q.channel)
      /\ t = tree \/ Absent(t, j)
      /\ \A i \in Job \ {j} : SamePlace(tree, t, i)
  <2>1. CASE q = info[j]
    BY <1>2, <2>1 DEF SamePlace
  <2>2. CASE q # info[j]
    BY <1>1, <1>2, <2>2, RemoveFlows, AbsentFlows
  <2> QED BY <2>1, <2>2
<1>4. tree' = Notified(t, j, q.channel, state)
  BY DEF Notify
<1>5. \A i \in Job \ {j} : SamePlace(t, tree', i)
  BY <1>1, <1>3, <1>4, NotifiedFlows DEF JobState
<1>6. \A i \in Job \ {j} : SamePlace(tree, tree', i)
  BY <1>3, <1>5 DEF SamePlace
<1> QED BY <1>1, <1>3, <1>4, <1>6

LEMMA NotifyCapacity ==
  ASSUME Inv, CapacityHonoured, NEW j \in Job, NEW r \in Row[j],
         NEW state \in JobState, Notify(j, r, state)
  PROVE  CapacityHonoured'
<1>1. PICK t \in Trees : /\ FlowOf(t, j, info'[j].channel)
                         /\ info'[j].channel \in Channel
                         /\ tree' = Notified(t, j, info'[j].channel, state)
                         /\ \A i \in Job \ {j} : SamePlace(tree, tree', i)
  BY NotifyInTwoSteps
<1>2. Inv'
  BY NotifyInv
<1>3. told' = [told EXCEPT ![j] = Tell(state)] /\ told \in [Job -> {"done", "pending", "running", "failed"}]
  BY DEF Notify, Inv, TypeOK
<1>4. ASSUME NEW c \in Channel PROVE j \notin LetIn(c)'
  <2>1. CASE state = "pending"
    <3>1. j \in tree'.queue[info'[j].channel] /\ FlowOf(tree', j, info'[j].channel)
      BY <1>1, <2>1, NotifiedLands, NotifiedFlows DEF JobState
    <3>2. j \notin tree'.running[c]
      BY <1>1, <1>2, <3>1, QueuedThenNotRunning DEF Inv, TypeOK
    <3> QED BY <3>2 DEF LetIn
  <2>2. CASE state # "pending"
    BY <1>3, <2>2 DEF LetIn, Tell, JobState
  <2> QED BY <2>1, <2>2
<1>5. ASSUME NEW c \in Channel, NEW i \in LetIn(c)' PROVE i \in LetIn(c)
  <2>1. i \in Job \ {j}
    BY <1>2, <1>4, <1>5 DEF LetIn, Inv, TypeOK, Trees
  <2> QED BY <1>1, <1>3, <2>1 DEF LetIn, SamePlace
<1> QED BY <1>5, NobodyLetIn, <1>2

LEMMA PullCapacity ==
  ASSUME Inv, CapacityHonoured, NEW c \in Channel, NEW j \in Job, Pull(c, j)
  PROVE  CapacityHonoured'
<1> SUFFICES ASSUME NEW d \in Channel, Capacity[d] # 0
             PROVE  Cardinality(LetIn(d)') <= Capacity[d]
  BY DEF CapacityHonoured, LetIn
<1>1. /\ tree' = Pulled(tree, j, c) /\ told' = told /\ tree \in Trees
      /\ Cardinality(LetIn(d)) <= Capacity[d] /\ Capacity[d] \in Nat
  BY ConfigAssumption DEF Pull, Inv, TypeOK, CapacityHonoured, LetIn
<1>2. CASE d # c
  <2>1. LetIn(d)' = LetIn(d)
    BY <1>1, <1>2 DEF LetIn, Pulled, With, Trees
  <2> QED BY <1>1, <2>1
<1>3. CASE d = c
  <2>1. Cardinality(tree.running[c]) < Capacity[c]
    BY <1>3 DEF Pull, MayPull
  <2>2. LetIn(c)' \subseteq tree.running[c] \cup {j}
    BY <1>1 DEF LetIn, Pulled, With, Trees
  <2>3. IsFiniteSet(tree.running[c])
    BY LetInIsFinite
  <2>4. /\ IsFiniteSet(tree.running[c] \cup {j})
        /\ Cardinality(tree.running[c] \cup {j}) <= Cardinality(tree.running[c]) + 1
        /\ Cardinality(tree.running[c]) \in Nat
    <3>1. Cardinality(tree.running[c]) \in Nat
      BY <2>3, FS_CardinalityType
    <3>2. /\ IsFiniteSet(tree.running[c] \cup {j})
          /\ \/ Cardinality(tree.running[c] \cup {j}) = Cardinality(tree.running[c])
             \/ Cardinality(tree.running[c] \cup {j}) = Cardinality(tree.running[c]) + 1
      BY <2>3, FS_AddElement
    <3> QED BY <3>1, <3>2
  <2>5. Cardinality(LetIn(c)') <= Cardinality(tree.running[c] \cup {j})
    BY <2>2, <2>4, FS_Subset
  <2>6. IsFiniteSet(LetIn(c)')
    BY <2>2, <2>4, FS_Subset
  <2>7. /\ Cardinality(LetIn(c)') \in Nat
        /\ Cardinality(tree.running[c] \cup {j}) \in Nat
    BY <2>4, <2>6, FS_CardinalityType
  <2> QED BY <1>1, <1>3, <2>1, <2>4, <2>5, <2>7
<1> QED BY <1>2, <1>3

LEMMA NextCapacity == Inv /\ CapacityHonoured /\ [Next]_vars => CapacityHonoured'
<1> SUFFICES ASSUME Inv, CapacityHonoured, [Next]_vars PROVE CapacityHonoured'
  OBVIOUS
<1>0. Inv'
  BY NextInv
<1>1. ASSUME NEW j \in Job, NEW state \in JobState, NEW r \in Row[j],
             Notify(j, r, state)
      PROVE  CapacityHonoured'
  BY <1>1, NotifyCapacity
<1>2. ASSUME NEW j \in Job, RemoveJob(j) PROVE CapacityHonoured'
  <2>1. \A c \in Channel : LetIn(c)' \subseteq LetIn(c)
    BY <1>2 DEF LetIn, RemoveJob, Remove, Dropped, Without, Inv, TypeOK, Trees
  <2> QED BY <1>0, <2>1, NobodyLetIn
<1>3. ASSUME NEW d \in Database, RemoveDb(d) PROVE CapacityHonoured'
  <2>1. \A c \in Channel : LetIn(c)' \subseteq LetIn(c)
    BY <1>3 DEF LetIn, RemoveDb, Inv, TypeOK, Trees
  <2> QED BY <1>0, <2>1, NobodyLetIn
<1>4. ASSUME NEW c \in Channel, NEW j \in Job, Pull(c, j) PROVE CapacityHonoured'
  BY <1>4, PullCapacity
<1>5. CASE UNCHANGED <<tree, told>>
  BY <1>5 DEF CapacityHonoured
<1> QED BY <1>1, <1>2, <1>3, <1>4, <1>5 DEF Next, vars, StartPulling, Finish

\* CapacityHonoured: get_jobs_to_run never lets more jobs into a channel than
\* its capacity, whatever jobs the database says to be running besides.
THEOREM CapacityTheorem == Spec => []CapacityHonoured
<1>1. Init => CapacityHonoured
  <2> SUFFICES ASSUME Init PROVE CapacityHonoured
    OBVIOUS
  <2>1. \A c \in Channel : {j \in tree.running[c] : told[j] = "pending"} = {}
    BY DEF Init, EmptyTree
  <2> QED BY <2>1, FS_EmptySet, ConfigAssumption DEF CapacityHonoured
<1>2. Spec => []Inv
  BY InitInv, NextInv, PTL DEF Spec
<1> QED BY <1>1, <1>2, NextCapacity, PTL DEF Spec

-----------------------------------------------------------------------------
(* Complete rounds. *)

\* The channels an iteration is through with are exhausted, and it was through
\* with their children before; there are none unless one is under way.
FinishedInv ==
  /\ finished # {} => pulling
  /\ \A c \in finished : Exhausted(c) /\ Children(c) \subseteq finished

LEMMA PullFinished ==
  ASSUME Inv, FinishedInv, NEW c \in Channel, NEW j \in Job, Pull(c, j)
  PROVE  FinishedInv'
<1>1. /\ tree' = Pulled(tree, j, c) /\ tree \in Trees
      /\ UNCHANGED <<info, now, pulling, finished>>
      /\ finished \subseteq Channel /\ c \notin finished
  BY DEF Pull, AtLoop, Inv, TypeOK
<1>2. ASSUME NEW d \in finished PROVE Exhausted(d)'
  <2>1. d \in Channel /\ d # c /\ Exhausted(d) /\ Children(d) \subseteq finished
    BY <1>1 DEF FinishedInv
  <2>2. c # Root => Parent[c] # d
    BY <1>1, <2>1 DEF Children
  <2>3. /\ tree'.queue[d] = tree.queue[d]
        /\ tree'.running[d] = tree.running[d]
        /\ tree'.failed[d] = tree.failed[d]
    BY <1>1, <2>1, <2>2 DEF Pulled, With, Without, Trees
  <2> QED BY <1>1, <2>1, <2>3 DEF Exhausted, MayPull, Poppable, DueByEta, NoEta
<1> QED BY <1>1, <1>2 DEF FinishedInv

LEMMA NextFinished == Inv /\ FinishedInv /\ [Next]_vars => FinishedInv'
<1> SUFFICES ASSUME Inv, FinishedInv, [Next]_vars PROVE FinishedInv'
  OBVIOUS
<1>1. ASSUME finished' = {} PROVE FinishedInv'
  BY <1>1 DEF FinishedInv
<1>2. ~ pulling => finished = {}
  BY DEF FinishedInv
<1>3. ASSUME NEW j \in Job, NEW state \in JobState, NEW r \in Row[j],
             Notify(j, r, state)
      PROVE  FinishedInv'
  BY <1>1, <1>2, <1>3 DEF Notify
<1>4. ASSUME NEW j \in Job, RemoveJob(j) PROVE FinishedInv'
  BY <1>1, <1>2, <1>4 DEF RemoveJob
<1>5. ASSUME NEW d \in Database, RemoveDb(d) PROVE FinishedInv'
  BY <1>1, <1>5 DEF RemoveDb
<1>6. CASE StartPulling
  BY <1>1, <1>2, <1>6 DEF StartPulling
<1>7. ASSUME NEW c \in Channel, NEW j \in Job, Pull(c, j) PROVE FinishedInv'
  BY <1>7, PullFinished
<1>8. ASSUME NEW c \in Channel, Finish(c) PROVE FinishedInv'
  <2>1. CASE c = Root
    BY <1>1, <1>8, <2>1 DEF Finish
  <2>2. CASE c # Root
    <3>1. /\ finished' = finished \cup {c} /\ pulling'
          /\ UNCHANGED <<tree, info, now>>
          /\ Exhausted(c) /\ Children(c) \subseteq finished
      BY <1>8, <2>2 DEF Finish, AtLoop
    <3>2. \A d \in Channel : Exhausted(d) => Exhausted(d)'
      BY <3>1 DEF Exhausted, MayPull, Poppable, DueByEta, NoEta
    <3>3. finished \subseteq Channel
      BY DEF Inv, TypeOK
    <3> QED BY <3>1, <3>2, <3>3 DEF FinishedInv
  <2> QED BY <2>1, <2>2
<1>9. CASE UNCHANGED vars
  <2>1. \A d \in Channel : Exhausted(d) => Exhausted(d)'
    BY <1>9 DEF vars, Exhausted, MayPull, Poppable, DueByEta, NoEta
  <2>2. finished \subseteq Channel
    BY DEF Inv, TypeOK
  <2> QED BY <1>9, <2>1, <2>2 DEF vars, FinishedInv
<1> QED BY <1>3, <1>4, <1>5, <1>6, <1>7, <1>8, <1>9 DEF Next

\* When only the loop of the root is left, every other channel is finished.
LEMMA AllFinished ==
  ASSUME Inv, FinishedInv, Children(Root) \subseteq finished
  PROVE  Channel \ {Root} \subseteq finished
<1> SUFFICES ASSUME NEW c \in Channel \ {Root}, c \notin finished PROVE FALSE
  OBVIOUS
<1> DEFINE S == {a \in Channel \ {Root} : a \notin finished}
<1>1. ASSUME NEW a \in S PROVE Parent[a] \in S
  <2>1. Parent[a] \in Channel /\ a \in Children(Parent[a])
    BY TreeAssumption DEF Children
  <2>2. Parent[a] # Root /\ Parent[a] \notin finished
    BY <2>1 DEF FinishedInv
  <2> QED BY <2>1, <2>2
<1>2. Upward(S) /\ S \subseteq Channel
  BY <1>1 DEF Upward
<1>3. Root \in S
  BY <1>2, PathLeast, PathClosed
<1> QED BY <1>3

\* RoundIsComplete: after get_jobs_to_run, no channel with room left holds a
\* job whose time has come.
THEOREM RoundsAreComplete == Spec => RoundIsComplete
<1>1. Init => FinishedInv
  BY DEF Init, FinishedInv
<1>2. Inv /\ FinishedInv => (pulling /\ Finish(Root) => \A c \in Channel : Exhausted(c))
  <2> SUFFICES ASSUME Inv, FinishedInv, Finish(Root), NEW c \in Channel
               PROVE  Exhausted(c)
    OBVIOUS
  <2>1. Channel \ {Root} \subseteq finished
    BY AllFinished DEF Finish, AtLoop
  <2> QED BY <2>1 DEF FinishedInv, Finish
<1>3. Spec => []Inv
  BY InitInv, NextInv, PTL DEF Spec
<1>4. Spec => []FinishedInv
  BY <1>1, <1>3, NextFinished, PTL DEF Spec
<1> QED BY <1>2, <1>3, <1>4, PTL DEF RoundIsComplete

-----------------------------------------------------------------------------
(* The channels implement the pool. *)

\* The Cardinality that JobPool extends is the one extended here.
LEMMA PoolCardinality ==
  \A S : Pool!Cardinality(S) = Cardinality(S)
BY DEF Pool!Cardinality, Cardinality

\* Status does not change with the place of a job.
LEMMA SamePlaceSameStatus ==
  ASSUME NEW j \in Job, SamePlace(tree, tree', j)
  PROVE  Status'[j] = Status[j]
<1>1. /\ j \in Waiting(tree) <=> j \in Waiting(tree')
      /\ j \in Failed(tree) <=> j \in Failed(tree')
  BY DEF SamePlace, Waiting, Failed
<1>2. j \in tree.running[Root] <=> j \in tree'.running[Root]
  BY TreeAssumption DEF SamePlace
<1> QED BY <1>1, <1>2 DEF Status

\* One job gets a new status, the others keep theirs.
LEMMA OneStatus ==
  ASSUME NEW j \in Job, \A i \in Job \ {j} : SamePlace(tree, tree', i)
  PROVE  Status' = [Status EXCEPT ![j] = Status'[j]]
<1>1. \A i \in Job \ {j} : Status'[i] = Status[i]
  BY SamePlaceSameStatus
<1> QED BY <1>1 DEF Status

LEMMA InitPool == Init => Pool!Init
<1> SUFFICES ASSUME Init PROVE Pool!Init
  OBVIOUS
<1>1. Waiting(tree) = {} /\ Failed(tree) = {} /\ tree.running[Root] = {}
  BY TreeAssumption DEF Init, EmptyTree, Waiting, Failed
<1> QED BY <1>1 DEF Init, Status, Pool!Init

\* The status of a job that was just notified.
LEMMA NotifyStatus ==
  ASSUME Inv, NEW j \in Job, NEW r \in Row[j], NEW state \in JobState,
         Notify(j, r, state)
  PROVE  /\ state = "done" => Status'[j] = "absent"
         /\ state = "pending" => Status'[j] = "waiting"
         /\ state = "failed" => Status'[j] = "failed"
         /\ state \in {"enqueued", "started"} =>
              \/ Status'[j] = "handed"
              \/ Status'[j] = "waiting" /\ Status[j] = "waiting"
<1> DEFINE own == info'[j].channel
<1>1. PICK t \in Trees : /\ FlowOf(t, j, own)
                         /\ own \in Channel
                         /\ tree' = Notified(t, j, own, state)
                         /\ t = tree \/ Absent(t, j)
  BY NotifyInTwoSteps
<1>2. tree' \in Trees /\ FlowOf(tree', j, own) /\ Root \in Channel
  BY <1>1, NotifiedFlows, TreeAssumption DEF JobState
<1>3. CASE state = "done"
  <2>1. Absent(tree', j)
    BY <1>1, <1>3, NotifiedLands
  <2> QED BY <1>2, <1>3, <2>1 DEF Status, Absent, Within, Waiting, Failed
<1>4. CASE state = "pending"
  <2>1. j \in tree'.queue[own]
    BY <1>1, <1>4, NotifiedLands
  <2> QED BY <1>1, <1>4, <2>1 DEF Status, Waiting
<1>5. CASE state = "failed"
  <2>1. j \in tree'.failed[own]
    BY <1>1, <1>5, NotifiedLands
  <2>2. \A c \in Channel : ~ Within(tree', j, c)
    BY <1>1, <1>2, <2>1 DEF FlowOf
  <2> QED BY <1>1, <1>2, <1>5, <2>1, <2>2 DEF Status, Waiting, Failed, Within
<1>6. CASE state \in {"enqueued", "started"}
  <2>1. /\ j \in tree'.running[own]
        /\ \A c \in Channel : j \in tree'.queue[c] => j \in t.queue[c]
    BY <1>1, <1>6, NotifiedLands
  <2>2. CASE \A c \in Channel : j \notin tree'.queue[c]
    <3>1. j \in tree'.running[Root]
      BY <1>1, <1>2, <2>1, <2>2, RunningThenWaitingOrHanded
    <3> QED BY <1>6, <2>2, <3>1 DEF Status, Waiting
  <2>3. CASE \E c \in Channel : j \in tree'.queue[c]
    <3>1. t = tree
      BY <1>1, <2>1, <2>3 DEF Absent, Within
    <3> QED BY <1>6, <2>1, <2>3, <3>1 DEF Status, Waiting
  <2> QED BY <2>2, <2>3
<1> QED BY <1>3, <1>4, <1>5, <1>6 DEF JobState

LEMMA NotifyPool ==
  ASSUME Inv, NEW j \in Job, NEW r \in Row[j], NEW state \in JobState,
         Notify(j, r, state)
  PROVE  Pool!Next
<1>1. Status' = [Status EXCEPT ![j] = Status'[j]]
  BY NotifyInTwoSteps, OneStatus
<1>2. told' = [told EXCEPT ![j] = Tell(state)] /\ DOMAIN told = Job
  BY DEF Notify, Inv, TypeOK
<1>3. DOMAIN Status = Job
  BY DEF Status
<1>4. CASE state = "done"
  <2>1. Pool!TellDone({j})
    BY <1>1, <1>2, <1>3, <1>4, NotifyStatus DEF Pool!TellDone, Tell, Inv, TypeOK, Status
  <2> QED BY <2>1 DEF Pool!Next
<1>5. CASE state = "pending"
  BY <1>1, <1>2, <1>5, NotifyStatus DEF Pool!Next, Pool!TellPending, Pool!Become, Tell
<1>6. CASE state = "failed"
  BY <1>1, <1>2, <1>6, NotifyStatus DEF Pool!Next, Pool!TellFailed, Pool!Become, Tell
<1>7. CASE state \in {"enqueued", "started"}
  <2>1. Pool!TellRunning(j)
    BY <1>1, <1>2, <1>7, NotifyStatus DEF Pool!TellRunning, Pool!Become, Tell
  <2> QED BY <2>1 DEF Pool!Next
<1> QED BY <1>4, <1>5, <1>6, <1>7 DEF JobState

\* A step that makes the jobs of S absent and leaves the others where they are.
LEMMA GonePool ==
  ASSUME NEW S \in SUBSET Job,
         \A j \in S : Absent(tree', j),
         \A j \in Job \ S : SamePlace(tree, tree', j),
         told' = [j \in Job |-> IF j \in S THEN "done" ELSE told[j]]
  PROVE  Pool!Next
<1>1. \A j \in S : Status'[j] = "absent"
  BY TreeAssumption DEF Absent, Within, Status, Waiting, Failed
<1>2. \A j \in Job \ S : Status'[j] = Status[j]
  BY SamePlaceSameStatus
<1>3. Status' = [j \in Job |-> IF j \in S THEN "absent" ELSE Status[j]]
  BY <1>1, <1>2 DEF Status
<1>4. Pool!TellDone(S)
  BY <1>3 DEF Pool!TellDone
<1> QED BY <1>4 DEF Pool!Next

LEMMA RemoveJobPool ==
  ASSUME Inv, NEW j \in Job, RemoveJob(j)
  PROVE  Pool!Next
<1>1. /\ info[j].channel \in Channel /\ tree \in Trees
      /\ FlowOf(tree, j, info[j].channel)
      /\ tree' = Remove(tree, j, info[j].channel)
      /\ told' = [i \in Job |-> IF i \in {j} THEN "done" ELSE told[i]]
  BY DEF Inv, TypeOK, FlowInv, Props, RemoveJob
<1>2. /\ Absent(tree', j)
      /\ \A i \in Job \ {j} : SamePlace(tree, tree', i)
  BY <1>1, RemoveFlows
<1>3. \A i \in {j} : Absent(tree', i)
  BY <1>2
<1>4. {j} \in SUBSET Job
  OBVIOUS
<1> QED BY <1>1, <1>2, <1>3, <1>4, GonePool

LEMMA RemoveDbPool ==
  ASSUME Inv, NEW d \in Database, RemoveDb(d)
  PROVE  Pool!Next
<1> DEFINE S == {j \in Job : DbOf[j] = d}
<1>1. /\ tree \in Trees /\ info \in [Job -> Props]
      /\ \A j \in Job : /\ info[j].channel \in Channel
                        /\ FlowOf(tree, j, info[j].channel)
  BY DEF Inv, TypeOK, FlowInv, Props
<1>2. \A j \in S : Absent(tree', j)
  BY <1>1, PathClosed DEF RemoveDb, Absent, Within, FlowOf, Trees
<1>3. \A j \in Job \ S : SamePlace(tree, tree', j)
  BY <1>1 DEF RemoveDb, SamePlace, Trees
<1>4. told' = [j \in Job |-> IF j \in S THEN "done" ELSE told[j]]
  BY DEF RemoveDb
<1> QED BY <1>2, <1>3, <1>4, GonePool

LEMMA PullPool ==
  ASSUME Inv, NEW c \in Channel, NEW j \in Job, Pull(c, j)
  PROVE  Pool!Next \/ UNCHANGED <<told, Status>>
<1>1. j \in tree.queue[c]
  BY DEF Pull, First, Poppable, DueByEta, NoEta
<1>2. /\ info[j].channel \in Channel
      /\ tree \in Trees /\ FlowOf(tree, j, info[j].channel)
      /\ tree' = Pulled(tree, j, c) /\ told' = told
  BY DEF Inv, TypeOK, FlowInv, Props, Pull
<1>3. /\ tree' \in Trees
      /\ FlowOf(tree', j, info[j].channel)
      /\ \A i \in Job \ {j} : SamePlace(tree, tree', i)
  BY <1>1, <1>2, PulledFlows
<1>4. Status[j] = "waiting"
  BY <1>1 DEF Status, Waiting
<1>5. Status' = [Status EXCEPT ![j] = Status'[j]]
  BY <1>3, OneStatus
<1>6. CASE c # Root
  <2>1. Parent[c] \in Channel /\ j \in tree'.queue[Parent[c]]
    BY <1>2, <1>6, TreeAssumption DEF Pulled, With
  <2>2. Status'[j] = "waiting"
    BY <2>1 DEF Status, Waiting
  <2> QED BY <1>2, <1>4, <1>5, <2>2 DEF Status
<1>7. CASE c = Root
  <2>1. j \in tree'.running[Root]
    BY <1>2, <1>7, TreeAssumption DEF Pulled, With
  <2>2. \A d \in Channel : j \notin tree'.queue[d]
    BY <1>2, <1>3, <2>1, HandedThenNotWaiting
  <2>3. Status'[j] = "handed"
    BY <2>1, <2>2 DEF Status, Waiting
  <2>4. Capacity[Root] = 0 \/ Cardinality(tree.running[Root]) < Capacity[Root]
    BY <1>7 DEF Pull, MayPull
  <2>5. Capacity[Root] = 0 \/ Cardinality(Pool!Handed) < Capacity[Root]
    <3>1. IsFiniteSet(tree.running[Root])
      BY TreeAssumption, LetInIsFinite
    <3>2. Pool!Handed \subseteq tree.running[Root]
      BY DEF Pool!Handed, Status
    <3>3. /\ IsFiniteSet(Pool!Handed)
          /\ Cardinality(Pool!Handed) <= Cardinality(tree.running[Root])
      BY <3>1, <3>2, FS_Subset
    <3>4. /\ Cardinality(Pool!Handed) \in Nat
          /\ Cardinality(tree.running[Root]) \in Nat
      BY <3>1, <3>3, FS_CardinalityType
    <3> QED BY <2>4, <3>3, <3>4, ConfigAssumption, TreeAssumption
  <2>6. Pool!HandOut(j)
    BY <1>2, <1>4, <1>5, <2>3, <2>5, PoolCardinality DEF Pool!HandOut
  <2> QED BY <2>6 DEF Pool!Next
<1> QED BY <1>6, <1>7

LEMMA NextPool == Inv /\ [Next]_vars => [Pool!Next]_<<told, Status>>
<1> SUFFICES ASSUME Inv, [Next]_vars
             PROVE  Pool!Next \/ UNCHANGED <<told, Status>>
  OBVIOUS
<1>1. ASSUME NEW j \in Job, NEW state \in JobState, NEW r \in Row[j],
             Notify(j, r, state)
      PROVE  Pool!Next
  BY <1>1, NotifyPool
<1>2. ASSUME NEW j \in Job, RemoveJob(j) PROVE Pool!Next
  BY <1>2, RemoveJobPool
<1>3. ASSUME NEW d \in Database, RemoveDb(d) PROVE Pool!Next
  BY <1>3, RemoveDbPool
<1>4. ASSUME NEW c \in Channel, NEW j \in Job, Pull(c, j)
      PROVE  Pool!Next \/ UNCHANGED <<told, Status>>
  BY <1>4, PullPool
<1>5. CASE UNCHANGED <<tree, told>>
  BY <1>5 DEF Status
<1> QED BY <1>1, <1>2, <1>3, <1>4, <1>5 DEF Next, vars, StartPulling, Finish

\* PoolSpec: seen from the runner, the tree of channels is a pool of jobs that
\* loses none and hands out no more than the root has slots.
THEOREM ChannelsImplementPool == Spec => PoolSpec
<1>1. Spec => []Inv
  BY InitInv, NextInv, PTL DEF Spec
<1> QED BY <1>1, InitPool, NextPool, PTL DEF Spec, PoolSpec, Pool!Spec
=============================================================================
