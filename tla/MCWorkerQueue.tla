---------------------------- MODULE MCWorkerQueue ----------------------------
(***************************************************************************)
(* Two incarnations of a worker: two processes, or one and its restart.    *)
(* One job with a user and a late worker, or two jobs without either: only *)
(* steps that no fairness asks for are left out.                           *)
(***************************************************************************)
EXTENDS WorkerQueue

CONSTANTS j1, j2

Small == late + touched <= IF row[j2].state = "none" THEN 1 ELSE 0

MCSpec == Init /\ [][Next /\ Small']_vars /\ Fairness
=============================================================================
