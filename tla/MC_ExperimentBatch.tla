------------------------- MODULE MC_ExperimentBatch --------------------------
(* Two jobs and two workers, a batch and another one.  A full log has three *)
(* samples more than are needed, so that one with a hole may have enough.   *)
EXTENDS ExperimentBatch

(* Simulations of different jobs share no file: once the workers have made  *)
(* the directories, in any order, those of one job run at a time.           *)
OneJobAtATime == \A r, q \in Alive : r[2] = q[2]
=============================================================================
