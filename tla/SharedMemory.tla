---------------------------- MODULE SharedMemory -----------------------------
(***************************************************************************)
(* SharedMemoryBuffer, the buffer that the queue discs of one simulated    *)
(* switch share (ns-3.34/src/traffic-control/model/shared-memory.cc): the  *)
(* accounting of its bytes, and the thresholds handed to the queues.  All  *)
(* of its counters are uint32_t.                                           *)
(***************************************************************************)
EXTENDS Integers, FiniteSetsExt

CONSTANTS
  WordMod,        (* 2^32, or less                                         *)
  TotalBuffer     (* bytes                                                 *)

ASSUME SharedMemoryAssumption ==
  /\ WordMod \in Nat /\ WordMod % 2 = 0
  /\ TotalBuffer \in 1 .. WordMod \div 2 - 1

U32(x) == x % WordMod
Int32(x) == IF U32(x) < WordMod \div 2 THEN U32(x) ELSE U32(x) - WordMod

(* SetSharedBufferSize, on a new buffer.                                   *)
EmptyBuffer == [OccupiedBuffer |-> 0, RemainingBuffer |-> TotalBuffer]

(* The comparison is strict: the last byte is never given out.             *)
CanEnqueue(sm, size) == sm.RemainingBuffer > size

EnqueueBuffer(sm, size) ==
  [OccupiedBuffer |-> sm.OccupiedBuffer + size,
   RemainingBuffer |-> sm.RemainingBuffer - size]

(* As DequeueBuffer, testing the other counter.                            *)
DequeueBufferIfRemaining(sm, size) ==
  IF sm.RemainingBuffer > size
  THEN [OccupiedBuffer |-> sm.OccupiedBuffer - size,
        RemainingBuffer |-> sm.RemainingBuffer + size]
  ELSE sm

(* Strict as well: the bytes of a packet that is alone in the buffer stay. *)
DequeueBuffer(sm, size) ==
  IF sm.OccupiedBuffer > size
  THEN [OccupiedBuffer |-> sm.OccupiedBuffer - size,
        RemainingBuffer |-> sm.RemainingBuffer + size]
  ELSE sm

Allocated(cmsa) == SumFunction(cmsa)

(* As AllocateBufferSpaceSimple, not counting what is in use.              *)
AllocateUpToTotal(cmsa, p, marginalRequest) ==
  LET granted == IF marginalRequest > TotalBuffer THEN TotalBuffer ELSE marginalRequest
  IN  [cmsa EXCEPT ![p] = U32(@ + granted)]

(* The thresholds after allocateBufferSpaceSimple(p, marginalRequest), the *)
(* request an int32_t: a positive one is cut down to what is left.         *)
AllocateBufferSpaceSimple(cmsa, p, marginalRequest) ==
  LET used == U32(Allocated(cmsa))
      granted == IF U32(used + marginalRequest) > TotalBuffer /\ marginalRequest > 0
                 THEN Int32(TotalBuffer - used)
                 ELSE marginalRequest
  IN  [cmsa EXCEPT ![p] = U32(@ + granted)]
=============================================================================
