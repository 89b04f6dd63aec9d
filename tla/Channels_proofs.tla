--------------------------- MODULE Channels_proofs ---------------------------
(***************************************************************************)
(* What the operations of Channels do to the place of a job, for every     *)
(* tree of channels.  Paths are least sets, so facts about them are proved *)
(* by exhibiting a set that is closed upward.                              *)
(***************************************************************************)
EXTENDS Channels, TLAPS

-----------------------------------------------------------------------------
(* Paths to the root. *)

\* A set of channels that is closed under Parent and holds c holds the path
\* of c.
LEMMA PathLeast ==
  ASSUME NEW c \in Channel, NEW S \in SUBSET Channel, c \in S, Upward(S)
  PROVE  Path[c] \subseteq S
BY DEF Path

\* The path of a channel starts at the channel and is closed under Parent.
LEMMA PathClosed ==
  ASSUME NEW c \in Channel
  PROVE  /\ Path[c] \subseteq Channel
         /\ c \in Path[c]
         /\ Root \in Path[c]
         /\ Upward(Path[c])
<1>1. Path[c] \subseteq Channel /\ c \in Path[c]
  BY DEF Path
<1>2. Root \in Path[c]
  BY TreeAssumption
<1>3. ASSUME NEW a \in Path[c] \ {Root} PROVE Parent[a] \in Path[c]
  <2>1. a \in Channel \ {Root} /\ Parent[a] \in Channel
    BY <1>1, TreeAssumption
  <2>2. ASSUME NEW S \in SUBSET Channel, c \in S, Upward(S)
        PROVE  Parent[a] \in S
    BY <2>2, PathLeast DEF Upward
  <2> QED BY <2>1, <2>2 DEF Path
<1> QED BY <1>1, <1>2, <1>3 DEF Upward

\* A path contains the paths of its channels.
LEMMA PathTransitive ==
  ASSUME NEW c \in Channel, NEW a \in Path[c]
  PROVE  Path[a] \subseteq Path[c]
BY PathClosed, PathLeast

\* The path of a channel is the channel and the path of its parent.
LEMMA PathStep ==
  ASSUME NEW c \in Channel \ {Root}
  PROVE  Parent[c] \in Channel /\ Path[c] = {c} \cup Path[Parent[c]]
<1>1. Parent[c] \in Channel
  BY TreeAssumption
<1> DEFINE S == {c} \cup Path[Parent[c]]
<1>2. S \subseteq Channel /\ c \in S /\ Upward(S)
  BY <1>1, PathClosed DEF Upward
<1>3. Path[c] \subseteq S
  BY <1>2, PathLeast
<1>4. Parent[c] \in Path[c]
  BY PathClosed DEF Upward
<1> QED BY <1>1, <1>3, <1>4, PathClosed, PathTransitive

LEMMA PathOfRoot == Path[Root] = {Root}
<1>1. Root \in Channel /\ Upward({Root})
  BY TreeAssumption DEF Upward
<1> QED BY <1>1, PathLeast, PathClosed

\* No channel is its own ancestor.
LEMMA NoCycle ==
  ASSUME NEW c \in Channel \ {Root}
  PROVE  c \notin Path[Parent[c]]
<1> SUFFICES ASSUME c \in Path[Parent[c]] PROVE FALSE
  OBVIOUS
<1> DEFINE S == {a \in Path[c] : c \in Path[a]}
<1>1. S \subseteq Channel /\ c \in S
  BY PathClosed
<1>2. ASSUME NEW a \in S \ {Root} PROVE Parent[a] \in S
  <2>1. Parent[a] \in Path[c]
    BY PathClosed DEF Upward
  <2>2. c \in {a} \cup Path[Parent[a]]
    BY <1>1, PathStep
  <2> QED BY <2>1, <2>2
<1>3. Root \in S
  BY <1>1, <1>2, PathLeast, PathClosed DEF Upward
<1> QED BY <1>3, PathOfRoot

\* A path is a chain.
LEMMA PathChain ==
  ASSUME NEW c \in Channel, NEW a \in Path[c], NEW b \in Path[c]
  PROVE  a \in Path[b] \/ b \in Path[a]
<1> DEFINE S == {x \in Path[c] : x \in Path[b] \/ b \in Path[x]}
<1>1. S \subseteq Channel /\ c \in S /\ b \in Channel
  BY PathClosed
<1>2. ASSUME NEW x \in S \ {Root} PROVE Parent[x] \in S
  <2>1. x \in Channel \ {Root} /\ Parent[x] \in Path[c]
    BY PathClosed DEF Upward
  <2>2. CASE x \in Path[b]
    BY <2>1, <2>2, <1>1, PathClosed DEF Upward
  <2>3. CASE b \in Path[x]
    <3>1. b = x \/ b \in Path[Parent[x]]
      BY <2>1, <2>3, PathStep
    <3>2. CASE b = x
      BY <2>1, <3>2, PathClosed DEF Upward
    <3> QED BY <2>1, <3>1, <3>2
  <2> QED BY <2>2, <2>3
<1>3. Path[c] \subseteq S
  BY <1>1, <1>2, PathLeast DEF Upward
<1> QED BY <1>3

\* Two channels of one path have different parents.
LEMMA ParentInjective ==
  ASSUME NEW c \in Channel,
         NEW a \in Path[c] \ {Root}, NEW b \in Path[c] \ {Root},
         Parent[a] = Parent[b]
  PROVE  a = b
<1>1. a \in Channel \ {Root} /\ b \in Channel \ {Root}
  BY PathClosed
<1>2. a \in Path[b] \/ b \in Path[a]
  BY PathChain
<1> QED BY <1>1, <1>2, PathStep, NoCycle

\* The channel a path starts at is no parent on it.
LEMMA OwnIsNoParent ==
  ASSUME NEW c \in Channel, NEW a \in Path[c] \ {Root}
  PROVE  Parent[a] # c
BY PathClosed, NoCycle

LEMMA PathAbove ==
  ASSUME NEW c \in Channel
  PROVE  {c} \cup Above(c) = Path[c]
BY PathOfRoot, PathStep DEF Above

-----------------------------------------------------------------------------
(* The place of a job. *)

\* The job is in no part of any channel.
Absent(s, j) ==
  \A c \in Channel : ~ Within(s, j, c) /\ j \notin s.failed[c]

\* The job is in the same parts of the channels in s as in t.
SamePlace(s, t, j) ==
  \A c \in Channel : /\ j \in s.queue[c] <=> j \in t.queue[c]
                     /\ j \in s.running[c] <=> j \in t.running[c]
                     /\ j \in s.failed[c] <=> j \in t.failed[c]

LEMMA AbsentFlows ==
  ASSUME NEW s \in Trees, NEW j \in Job, NEW own \in Channel, Absent(s, j)
  PROVE  FlowOf(s, j, own)
<1>1. Path[own] \subseteq Channel
  BY PathClosed
<1>2. \A c \in Path[own] \ {Root} : Parent[c] \in Channel
  BY <1>1, TreeAssumption
<1> QED BY <1>1, <1>2 DEF Absent, Within, FlowOf

LEMMA SamePlaceFlows ==
  ASSUME NEW s \in Trees, NEW t \in Trees, NEW j \in Job, NEW own \in Channel,
         SamePlace(s, t, j), FlowOf(s, j, own)
  PROVE  FlowOf(t, j, own)
<1>1. Path[own] \subseteq Channel
  BY PathClosed
<1>2. \A c \in Path[own] \ {Root} : Parent[c] \in Channel
  BY <1>1, TreeAssumption
<1>3. \A c \in Channel : Within(s, j, c) <=> Within(t, j, c)
  BY DEF SamePlace, Within
<1> QED BY <1>1, <1>2, <1>3 DEF SamePlace, FlowOf

\* A job that is not running in a channel on its path is nowhere above it.
LEMMA NotRunningThenNotAbove ==
  ASSUME NEW s \in Trees, NEW j \in Job, NEW own \in Channel, FlowOf(s, j, own),
         NEW c \in Path[own] \ {Root}, j \notin s.running[c]
  PROVE  \A a \in Path[Parent[c]] : ~ Within(s, j, a)
<1>1. c \in Channel \ {Root} /\ Parent[c] \in Path[own]
  BY PathClosed DEF Upward
<1> DEFINE S == {a \in Path[Parent[c]] : ~ Within(s, j, a)}
<1>2. Path[Parent[c]] \subseteq Path[own] /\ Parent[c] \in Channel
  BY <1>1, PathTransitive, PathStep
<1>3. S \subseteq Channel /\ Parent[c] \in S
  BY <1>2, PathClosed DEF FlowOf
<1>4. ASSUME NEW a \in S \ {Root} PROVE Parent[a] \in S
  <2>1. Parent[a] \in Path[Parent[c]]
    BY <1>2, PathClosed DEF Upward
  <2>2. a \in Path[own] \ {Root} /\ j \notin s.running[a]
    BY <1>2 DEF Within
  <2> QED BY <2>1, <2>2 DEF FlowOf
<1>5. Upward(S)
  BY <1>4 DEF Upward
<1>6. Path[Parent[c]] \subseteq S
  BY <1>2, <1>3, <1>5, PathLeast
<1> QED BY <1>6

\* Dropped takes the job out of the channels of S and does nothing else.
LEMMA DroppedOnlyThere ==
  ASSUME NEW s \in Trees, NEW j \in Job, NEW S \in SUBSET Channel
  PROVE  /\ Dropped(s, j, S) \in Trees
         /\ \A c \in S : /\ ~ Within(Dropped(s, j, S), j, c)
                         /\ j \notin Dropped(s, j, S).failed[c]
         /\ \A c \in Channel \ S :
              /\ j \in Dropped(s, j, S).queue[c] <=> j \in s.queue[c]
              /\ j \in Dropped(s, j, S).running[c] <=> j \in s.running[c]
              /\ j \in Dropped(s, j, S).failed[c] <=> j \in s.failed[c]
         /\ \A i \in Job \ {j} : SamePlace(s, Dropped(s, j, S), i)
BY DEF Trees, Dropped, Without, Within, SamePlace

-----------------------------------------------------------------------------
(* The operations. *)

\* Removed from the path of its own channel, a job that flows down that path
\* is nowhere; the others stay where they are.
LEMMA RemoveFlows ==
  ASSUME NEW s \in Trees, NEW j \in Job, NEW own \in Channel, FlowOf(s, j, own)
  PROVE  /\ Remove(s, j, own) \in Trees
         /\ Absent(Remove(s, j, own), j)
         /\ \A i \in Job \ {j} : SamePlace(s, Remove(s, j, own), i)
<1>1. Path[own] \in SUBSET Channel /\ own \in Path[own]
  BY PathClosed
<1>2. \A c \in Channel \ Path[own] : ~ Within(s, j, c) /\ j \notin s.failed[c]
  BY <1>1 DEF FlowOf
<1> QED BY <1>1, <1>2, DroppedOnlyThere DEF Remove, Absent, Within

LEMMA SetPendingFlows ==
  ASSUME NEW s \in Trees, NEW j \in Job, NEW own \in Channel, FlowOf(s, j, own)
  PROVE  /\ SetPending(s, j, own) \in Trees
         /\ FlowOf(SetPending(s, j, own), j, own)
         /\ \A i \in Job \ {j} : SamePlace(s, SetPending(s, j, own), i)
<1>1. CASE j \in s.queue[own]
  BY <1>1 DEF SetPending, SamePlace
<1>2. CASE j \notin s.queue[own]
  <2> DEFINE t == Remove(s, j, own)
             u == SetPending(s, j, own)
  <2>1. u = [t EXCEPT !.queue = With(t.queue, j, {own})]
    BY <1>2, PathAbove DEF SetPending, Remove
  <2>2. /\ t \in Trees /\ Absent(t, j)
        /\ \A i \in Job \ {j} : SamePlace(s, t, i)
    BY RemoveFlows
  <2>3. u \in Trees
    BY <2>1, <2>2 DEF Trees, With
  <2>4. \A c \in Channel : /\ j \in u.queue[c] <=> c = own
                           /\ j \notin u.running[c]
                           /\ j \notin u.failed[c]
    BY <2>1, <2>2 DEF Trees, With, Absent, Within
  <2>5. \A i \in Job \ {j} : SamePlace(s, u, i)
    BY <2>1, <2>2 DEF Trees, With, SamePlace
  <2>6. own \in Path[own] /\ Path[own] \subseteq Channel
    BY PathClosed
  <2>7. \A c \in Path[own] \ {Root} : Parent[c] # own /\ Parent[c] \in Channel
    BY <2>6, OwnIsNoParent, TreeAssumption
  <2>8. FlowOf(u, j, own)
    BY <2>4, <2>6, <2>7 DEF FlowOf, Within
  <2> QED BY <2>3, <2>5, <2>8
<1> QED BY <1>1, <1>2

LEMMA SetFailedFlows ==
  ASSUME NEW s \in Trees, NEW j \in Job, NEW own \in Channel, FlowOf(s, j, own)
  PROVE  /\ SetFailed(s, j, own) \in Trees
         /\ FlowOf(SetFailed(s, j, own), j, own)
         /\ \A i \in Job \ {j} : SamePlace(s, SetFailed(s, j, own), i)
<1>1. CASE j \in s.failed[own]
  BY <1>1 DEF SetFailed, SamePlace
<1>2. CASE j \notin s.failed[own]
  <2> DEFINE t == Remove(s, j, own)
             u == SetFailed(s, j, own)
  <2>1. u = [t EXCEPT !.failed = With(t.failed, j, {own})]
    BY <1>2, PathAbove DEF SetFailed, Remove
  <2>2. /\ t \in Trees /\ Absent(t, j)
        /\ \A i \in Job \ {j} : SamePlace(s, t, i)
    BY RemoveFlows
  <2>3. u \in Trees
    BY <2>1, <2>2 DEF Trees, With
  <2>4. \A c \in Channel : /\ j \in u.failed[c] <=> c = own
                           /\ ~ Within(u, j, c)
    BY <2>1, <2>2 DEF Trees, With, Absent, Within
  <2>5. \A i \in Job \ {j} : SamePlace(s, u, i)
    BY <2>1, <2>2 DEF Trees, With, SamePlace
  <2>6. \A c \in Path[own] \ {Root} : Parent[c] \in Channel /\ c \in Channel
    BY PathClosed, TreeAssumption
  <2>7. FlowOf(u, j, own)
    BY <2>4, <2>6 DEF FlowOf, Within
  <2> QED BY <2>3, <2>5, <2>7
<1> QED BY <1>1, <1>2

\* set_running climbs all the way or not at all.
LEMMA ClimbedIsAllOrNothing ==
  ASSUME NEW s \in Trees, NEW j \in Job, NEW own \in Channel, FlowOf(s, j, own)
  PROVE  Climbed(s, j, own) = IF j \in s.running[own] THEN {} ELSE Path[own]
<1>1. own \in Path[own] /\ Path[own] \subseteq Channel
  BY PathClosed
<1>2. CASE j \in s.running[own]
  BY <1>1, <1>2 DEF Climbed
<1>3. CASE j \notin s.running[own]
  <2>1. \A b \in Path[own] : j \notin s.running[b]
    <3>1. CASE own = Root
      BY <1>3, <3>1, PathOfRoot
    <3>2. CASE own # Root
      BY <1>1, <1>3, <3>2, PathStep, NotRunningThenNotAbove DEF Within
    <3> QED BY <3>1, <3>2
  <2> QED BY <1>3, <2>1 DEF Climbed
<1> QED BY <1>2, <1>3

LEMMA SetRunningFlows ==
  ASSUME NEW s \in Trees, NEW j \in Job, NEW own \in Channel, FlowOf(s, j, own)
  PROVE  /\ SetRunning(s, j, own) \in Trees
         /\ FlowOf(SetRunning(s, j, own), j, own)
         /\ \A i \in Job \ {j} : SamePlace(s, SetRunning(s, j, own), i)
<1> DEFINE up == Climbed(s, j, own)
           u == SetRunning(s, j, own)
<1>1. u = [queue   |-> Without(s.queue, j, up),
           running |-> With(s.running, j, up),
           failed  |-> Without(s.failed, j, up)]
  BY DEF SetRunning
<1>2. u \in Trees
  BY <1>1 DEF Trees, With, Without
<1>3. \A i \in Job \ {j} : SamePlace(s, u, i)
  BY <1>1 DEF Trees, With, Without, SamePlace
<1>4. own \in Path[own] /\ Path[own] \subseteq Channel
  BY PathClosed
<1>5. CASE j \in s.running[own]
  <2>1. up = {}
    BY <1>5, ClimbedIsAllOrNothing
  <2>2. SamePlace(s, u, j)
    BY <1>1, <2>1 DEF Trees, With, Without, SamePlace
  <2> QED BY <1>2, <1>3, <2>2, SamePlaceFlows
<1>6. CASE j \notin s.running[own]
  <2>1. up = Path[own]
    BY <1>6, ClimbedIsAllOrNothing
  <2>2. \A c \in Path[own] : /\ j \notin u.queue[c]
                             /\ j \in u.running[c]
                             /\ j \notin u.failed[c]
    BY <1>1, <1>4, <2>1 DEF Trees, With, Without
  <2>3. \A c \in Channel \ Path[own] : ~ Within(u, j, c) /\ j \notin u.failed[c]
    BY <1>1, <1>4, <2>1 DEF Trees, With, Without, Within, FlowOf
  <2>4. \A c \in Path[own] \ {Root} : Parent[c] \in Path[own]
    BY PathClosed DEF Upward
  <2>5. FlowOf(u, j, own)
    BY <1>4, <2>2, <2>3, <2>4 DEF FlowOf, Within
  <2> QED BY <1>2, <1>3, <2>5
<1> QED BY <1>5, <1>6

\* A job pulled out of the queue of c goes on to the parent's queue.
LEMMA PulledFlows ==
  ASSUME NEW s \in Trees, NEW j \in Job, NEW own \in Channel, FlowOf(s, j, own),
         NEW c \in Channel, j \in s.queue[c]
  PROVE  /\ Pulled(s, j, c) \in Trees
         /\ FlowOf(Pulled(s, j, c), j, own)
         /\ \A i \in Job \ {j} : SamePlace(s, Pulled(s, j, c), i)
<1> DEFINE up == IF c = Root THEN {} ELSE {Parent[c]}
           u == Pulled(s, j, c)
<1>1. u = [queue   |-> With(Without(s.queue, j, {c}), j, up),
           running |-> With(s.running, j, {c}),
           failed  |-> s.failed]
  BY DEF Pulled
<1>2. u \in Trees
  BY <1>1 DEF Trees, With, Without
<1>3. \A i \in Job \ {j} : SamePlace(s, u, i)
  BY <1>1 DEF Trees, With, Without, SamePlace
<1>4. /\ c \in Path[own] /\ Path[own] \subseteq Channel
      /\ j \notin s.running[c]
      /\ \A d \in Channel : j \notin s.failed[d]
  BY PathClosed DEF FlowOf, Within
<1>5. c # Root => Parent[c] \in Path[own] /\ Parent[c] # c
  BY <1>4, PathClosed, NoCycle DEF Upward
<1>6. c # Root => ~ Within(s, j, Parent[c])
  BY <1>4 DEF FlowOf
<1>7. \A d \in Channel : /\ j \in u.queue[d] <=> d \in up \/ (d # c /\ j \in s.queue[d])
                         /\ j \in u.running[d] <=> d = c \/ j \in s.running[d]
                         /\ j \notin u.failed[d]
  BY <1>1, <1>4, <1>5 DEF Trees, With, Without
<1>8. \A d \in Channel : Within(u, j, d) <=> d = c \/ d \in up \/ Within(s, j, d)
  BY <1>7 DEF Within
<1>9. ASSUME NEW d \in Channel PROVE ~ (j \in u.queue[d] /\ j \in u.running[d])
  BY <1>5, <1>6, <1>7 DEF FlowOf, Within
<1>10. ASSUME NEW d \in Path[own] \ {Root}
       PROVE  j \in u.running[d] <=> Within(u, j, Parent[d])
  <2>1. d \in Channel /\ Parent[d] \in Channel
    BY <1>4, TreeAssumption
  <2>2. CASE d = c
    BY <2>1, <2>2, <1>7, <1>8
  <2>3. CASE d # c
    <3>1. c # Root => Parent[d] # Parent[c]
      BY <2>3, <1>4, ParentInjective
    <3>2. j \in s.running[d] <=> Within(s, j, Parent[d])
      BY DEF FlowOf
    <3>3. Parent[d] = c => Within(s, j, Parent[d])
      BY DEF Within
    <3> QED BY <2>1, <2>3, <3>1, <3>2, <3>3, <1>7, <1>8
  <2> QED BY <2>2, <2>3
<1>11. \A d \in Channel : Within(u, j, d) => d \in Path[own]
  BY <1>4, <1>5, <1>8 DEF FlowOf
<1>12. FlowOf(u, j, own)
  BY <1>7, <1>9, <1>10, <1>11 DEF FlowOf
<1> QED BY <1>2, <1>3, <1>12

\* Whatever state a job is notified to be in.
LEMMA NotifiedFlows ==
  ASSUME NEW s \in Trees, NEW j \in Job, NEW own \in Channel, FlowOf(s, j, own),
         NEW state \in {"done", "pending", "enqueued", "started", "failed"}
  PROVE  /\ Notified(s, j, own, state) \in Trees
         /\ FlowOf(Notified(s, j, own, state), j, own)
         /\ \A i \in Job \ {j} : SamePlace(s, Notified(s, j, own, state), i)
<1>1. CASE state = "done"
  <2>1. Notified(s, j, own, state) = Remove(s, j, own)
    BY <1>1 DEF Notified, SetDone
  <2> QED BY <2>1, RemoveFlows, AbsentFlows
<1>2. CASE state = "pending"
  <2>1. Notified(s, j, own, state) = SetPending(s, j, own)
    BY <1>2 DEF Notified
  <2> QED BY <2>1, SetPendingFlows
<1>3. CASE state \in {"enqueued", "started"}
  <2>1. Notified(s, j, own, state) = SetRunning(s, j, own)
    BY <1>3 DEF Notified
  <2> QED BY <2>1, SetRunningFlows
<1>4. CASE state = "failed"
  <2>1. Notified(s, j, own, state) = SetFailed(s, j, own)
    BY <1>4 DEF Notified
  <2> QED BY <2>1, SetFailedFlows
<1> QED BY <1>1, <1>2, <1>3, <1>4

-----------------------------------------------------------------------------
(* Waiting, handed out, failed. *)

\* A job queued in a channel on its path is nowhere above that channel.
LEMMA QueuedThenNotAbove ==
  ASSUME NEW s \in Trees, NEW j \in Job, NEW own \in Channel, FlowOf(s, j, own),
         NEW c \in Channel, j \in s.queue[c], c # Root
  PROVE  \A a \in Path[Parent[c]] : ~ Within(s, j, a)
<1>1. c \in Path[own] \ {Root} /\ j \notin s.running[c]
  BY DEF FlowOf, Within
<1> QED BY <1>1, NotRunningThenNotAbove

\* A job queued in its own channel is running nowhere.
LEMMA QueuedThenNotRunning ==
  ASSUME NEW s \in Trees, NEW j \in Job, NEW own \in Channel, FlowOf(s, j, own),
         j \in s.queue[own]
  PROVE  \A c \in Channel : j \notin s.running[c]
<1>1. j \notin s.running[own]
  BY DEF FlowOf
<1>2. ASSUME NEW c \in Path[own] PROVE j \notin s.running[c]
  <2>1. CASE own = Root
    BY <1>1, <2>1, PathOfRoot
  <2>2. CASE own # Root
    BY <1>1, <2>2, PathStep, QueuedThenNotAbove DEF Within
  <2> QED BY <2>1, <2>2
<1> QED BY <1>2 DEF FlowOf, Within

\* A job handed out by the root waits nowhere.
LEMMA HandedThenNotWaiting ==
  ASSUME NEW s \in Trees, NEW j \in Job, NEW own \in Channel, FlowOf(s, j, own),
         j \in s.running[Root]
  PROVE  \A c \in Channel : j \notin s.queue[c]
<1> SUFFICES ASSUME NEW c \in Channel, j \in s.queue[c] PROVE FALSE
  OBVIOUS
<1>1. Root \in Channel
  BY TreeAssumption
<1>2. CASE c = Root
  BY <1>1, <1>2 DEF FlowOf
<1>3. CASE c # Root
  <2>1. Root \in Path[Parent[c]]
    BY <1>3, TreeAssumption
  <2> QED BY <1>3, <2>1, QueuedThenNotAbove DEF Within
<1> QED BY <1>2, <1>3

\* A job running in its own channel waits somewhere or is handed out.
LEMMA RunningThenWaitingOrHanded ==
  ASSUME NEW s \in Trees, NEW j \in Job, NEW own \in Channel, FlowOf(s, j, own),
         j \in s.running[own], \A c \in Channel : j \notin s.queue[c]
  PROVE  j \in s.running[Root]
<1> DEFINE S == {a \in Path[own] : j \in s.running[a]}
<1>1. S \subseteq Channel /\ own \in S
  BY PathClosed
<1>2. ASSUME NEW a \in S \ {Root} PROVE Parent[a] \in S
  <2>1. Parent[a] \in Path[own] /\ Parent[a] \in Channel
    BY PathClosed DEF Upward
  <2>2. Within(s, j, Parent[a])
    BY DEF FlowOf
  <2> QED BY <2>1, <2>2 DEF Within
<1>3. Upward(S)
  BY <1>2 DEF Upward
<1>4. Path[own] \subseteq S
  BY <1>1, <1>3, PathLeast
<1> QED BY <1>4, PathClosed

\* Where a job lands that is notified to be in a state.
LEMMA NotifiedLands ==
  ASSUME NEW s \in Trees, NEW j \in Job, NEW own \in Channel, FlowOf(s, j, own),
         NEW state \in {"done", "pending", "enqueued", "started", "failed"}
  PROVE  LET t == Notified(s, j, own, state)
         IN  /\ state = "done" => Absent(t, j)
             /\ state = "pending" => j \in t.queue[own]
             /\ state = "failed" => j \in t.failed[own]
             /\ state \in {"enqueued", "started"} =>
                  /\ j \in t.running[own]
                  /\ \A c \in Channel : j \in t.queue[c] => j \in s.queue[c]
<1>1. CASE state = "done"
  <2>1. Notified(s, j, own, state) = Remove(s, j, own)
    BY <1>1 DEF Notified, SetDone
  <2> QED BY <1>1, <2>1, RemoveFlows
<1>2. CASE state = "pending"
  <2>1. Notified(s, j, own, state) = SetPending(s, j, own)
    BY <1>2 DEF Notified
  <2>2. j \in SetPending(s, j, own).queue[own]
    <3>1. CASE j \in s.queue[own]
      BY <3>1 DEF SetPending
    <3>2. CASE j \notin s.queue[own]
      BY <3>2 DEF SetPending, Dropped, Without, With
    <3> QED BY <3>1, <3>2
  <2> QED BY <1>2, <2>1, <2>2
<1>3. CASE state \in {"enqueued", "started"}
  <2>1. Notified(s, j, own, state) = SetRunning(s, j, own)
    BY <1>3 DEF Notified
  <2>2. j \in SetRunning(s, j, own).running[own]
    BY ClimbedIsAllOrNothing, PathClosed DEF SetRunning, With, Trees
  <2>3. \A c \in Channel : j \in SetRunning(s, j, own).queue[c] => j \in s.queue[c]
    BY DEF SetRunning, Without, Trees
  <2> QED BY <1>3, <2>1, <2>2, <2>3
<1>4. CASE state = "failed"
  <2>1. Notified(s, j, own, state) = SetFailed(s, j, own)
    BY <1>4 DEF Notified
  <2>2. j \in SetFailed(s, j, own).failed[own]
    <3>1. CASE j \in s.failed[own]
      BY <3>1 DEF SetFailed
    <3>2. CASE j \notin s.failed[own]
      BY <3>2 DEF SetFailed, Dropped, Without, With
    <3> QED BY <3>1, <3>2
  <2> QED BY <1>4, <2>1, <2>2
<1> QED BY <1>1, <1>2, <1>3, <1>4
=============================================================================
