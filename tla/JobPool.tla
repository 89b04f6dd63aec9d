------------------------------- MODULE JobPool -------------------------------
(***************************************************************************)
(* What the channel manager promises the runner, without channels: every   *)
(* job it was told of is waiting, handed out to run, or failed, until it   *)
(* is told that the job is done; nothing disappears in between, no job is  *)
(* handed out but a waiting one, and only while fewer than Slots are       *)
(* (Slots = 0 is no limit).                                                *)
(*                                                                         *)
(* A job that is told to be running while it waits may go on waiting: that *)
(* is all ConnectorChannels implements.                                    *)
(***************************************************************************)
EXTENDS Naturals, FiniteSets

CONSTANTS Job, Slots

VARIABLES
  told,     \* what was last told of each job
  status    \* what has become of it

Tellings == {"done", "pending", "running", "failed"}

Statuses == {"absent", "waiting", "handed", "failed"}

Handed == {j \in Job : status[j] = "handed"}

Init ==
  /\ told = [j \in Job |-> "done"]
  /\ status = [j \in Job |-> "absent"]

Become(j, t, s) ==
  /\ told' = [told EXCEPT ![j] = t]
  /\ status' = [status EXCEPT ![j] = s]

TellPending(j) == Become(j, "pending", "waiting")

TellRunning(j) ==
  \/ Become(j, "running", "handed")
  \/ status[j] = "waiting" /\ Become(j, "running", "waiting")

TellFailed(j) == Become(j, "failed", "failed")

TellDone(S) ==
  /\ told' = [j \in Job |-> IF j \in S THEN "done" ELSE told[j]]
  /\ status' = [j \in Job |-> IF j \in S THEN "absent" ELSE status[j]]

HandOut(j) ==
  /\ status[j] = "waiting"
  /\ Slots = 0 \/ Cardinality(Handed) < Slots
  /\ status' = [status EXCEPT ![j] = "handed"]
  /\ UNCHANGED told

Next ==
  \/ \E j \in Job : \/ TellPending(j)
                    \/ TellRunning(j)
                    \/ TellFailed(j)
                    \/ HandOut(j)
  \/ \E S \in SUBSET Job : TellDone(S)

Spec == Init /\ [][Next]_<<told, status>>
=============================================================================
