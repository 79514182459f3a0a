---------------------------- MODULE SampleWindow ----------------------------
(***************************************************************************)
(* What the userspace sampler promises the packet handler: the published   *)
(* average is the mean of the last N observed queue lengths, leaving out   *)
(* those of at least twice the plain mean.                                 *)
(***************************************************************************)
EXTENDS Integers, Sequences, FiniteSetsExt

CONSTANTS
  N,              (* observations averaged                                 *)
  Observations    (* the queue lengths that may be observed                *)

VARIABLES
  recent,         (* the last observations, at most N, oldest first        *)
  average         (* the published average                                 *)

wvars == <<recent, average>>

(* The mean of the observations at the positions in I; of none it is 0, as *)
(* the program's division by one makes it.                                 *)
Mean(s, I) ==
  IF I = {} THEN 0 ELSE SumFunctionOnSet(s, I) \div Cardinality(I)

(* Where the observations below twice the plain mean are.                  *)
Typical(s) == { i \in DOMAIN s : s[i] < 2 * Mean(s, DOMAIN s) }

WInit == recent = <<>> /\ average = 0

Observe(x) ==
  /\ recent' = IF Len(recent) < N THEN Append(recent, x)
                                  ELSE Append(Tail(recent), x)
  /\ UNCHANGED average

Publish ==
  /\ recent # <<>>
  /\ average' = Mean(recent, Typical(recent))
  /\ UNCHANGED recent

WNext == Publish \/ \E x \in Observations : Observe(x)

WSpec == WInit /\ [][WNext]_wvars
=============================================================================
