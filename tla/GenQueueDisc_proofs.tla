------------------------ MODULE GenQueueDisc_proofs ------------------------
(***************************************************************************)
(* Theorems about the simulator's Titrate (GenQueueDisc, SharedMemory),    *)
(* for every number of ports and classes and all sizes of packets, buffer, *)
(* windows and words.                                                      *)
(***************************************************************************)
EXTENDS GenQueueDisc, SumTheorems

-----------------------------------------------------------------------------
(* Operators                                                               *)

LEMMA MaxOfTwo ==
  ASSUME NEW a \in Int, NEW b \in Int
  PROVE  Max({a, b}) = IF a >= b THEN a ELSE b
<1>1. PICK m : m = IF a >= b THEN a ELSE b
  OBVIOUS
<1>2. m \in {a, b} /\ \A y \in {a, b} : m >= y
  BY <1>1
<1>3. \A x \in {a, b} : (\A y \in {a, b} : x >= y) => x = m
  BY <1>1
<1> QED
  BY <1>1, <1>2, <1>3 DEF Max

LEMMA MinOfTwo ==
  ASSUME NEW a \in Int, NEW b \in Int
  PROVE  Min({a, b}) = IF a <= b THEN a ELSE b
<1>1. PICK m : m = IF a <= b THEN a ELSE b
  OBVIOUS
<1>2. m \in {a, b} /\ \A y \in {a, b} : m <= y
  BY <1>1
<1>3. \A x \in {a, b} : (\A y \in {a, b} : x <= y) => x = m
  BY <1>1
<1> QED
  BY <1>1, <1>2, <1>3 DEF Min

(* A remainder is below the divisor, and a value below it is its own.       *)
LEMMA RemainderExact ==
  ASSUME NEW n \in Nat \ {0}, NEW x \in Int
  PROVE  /\ x % n \in 0 .. n - 1
         /\ x \in 0 .. n - 1 => x % n = x
         /\ x \in -n .. -1 => x % n = x + n
OBVIOUS

(* A microsecond holds its start and not the next one's.                    *)
LEMMA QuotientSpans ==
  ASSUME NEW x \in Nat, NEW d \in Nat \ {0}
  PROVE  /\ x \div d \in Nat
         /\ (x \div d) * d <= x
         /\ x < (x \div d) * d + d
OBVIOUS

LEMMA QuotientFits ==
  ASSUME NEW x \in Nat, NEW d \in Nat \ {0}, NEW w \in Nat
  PROVE  w * d <= x <=> w <= x \div d
OBVIOUS

LEMMA Parameters ==
  /\ WordMod \in Nat \ {0} /\ WordMod \div 2 \in Nat
  /\ WordMod = 2 * (WordMod \div 2)
  /\ TotalBuffer \in Nat \ {0} /\ TotalBuffer < WordMod \div 2
  /\ Window \in Nat \ {0} /\ NsPerUs \in Nat \ {0}
  /\ smoothQlenCollection \in Nat \ {0} /\ smoothWindow \in Nat \ {0}
  /\ MTU \in Nat \ {0} /\ nPrior \in Nat /\ nPrior > 1
  /\ Horizon \in Nat /\ ControlHorizon \in Nat /\ ControlHorizon <= Horizon
<1>1. WordMod \in Nat /\ WordMod % 2 = 0 /\ TotalBuffer \in 1 .. WordMod \div 2 - 1
  BY SharedMemoryAssumption
<1>2. \A n \in Nat : n % 2 = 0 => n \div 2 \in Nat /\ n = 2 * (n \div 2)
  OBVIOUS
<1> QED
  BY <1>1, <1>2, GenQueueDiscAssumption

LEMMA U32Exact ==
  ASSUME NEW x \in Int
  PROVE  /\ U32(x) \in 0 .. WordMod - 1
         /\ x \in 0 .. WordMod - 1 => U32(x) = x
BY Parameters, RemainderExact DEF U32

LEMMA Int32Exact ==
  ASSUME NEW x \in Int
  PROVE  /\ Int32(x) \in Int
         /\ Int32(x) < WordMod \div 2 /\ -(WordMod \div 2) <= Int32(x)
         /\ x < WordMod \div 2 /\ -(WordMod \div 2) <= x => Int32(x) = x
<1>1. PICK h \in Nat : h = WordMod \div 2 /\ WordMod = 2 * h /\ WordMod \in Nat \ {0}
  BY Parameters
<1>2. PICK u : u = U32(x)
  OBVIOUS
<1>3. /\ u \in 0 .. WordMod - 1
      /\ x \in 0 .. WordMod - 1 => u = x
      /\ x \in -WordMod .. -1 => u = x + WordMod
  BY <1>1, <1>2, RemainderExact DEF U32
<1>4. Int32(x) = IF u < h THEN u ELSE u - WordMod
  BY <1>1, <1>2 DEF Int32
<1> QED
  BY <1>1, <1>3, <1>4

LEMMA QueuesFinite ==
  /\ Classes = 0 .. nPrior - 1 /\ Queues = Ports \X Classes
  /\ IsFiniteSet(Queues) /\ Probers \subseteq Queues
<1>1. IsFiniteSet(Classes)
  BY Parameters, FS_Interval DEF Classes
<1>2. IsFiniteSet(Ports)
  BY GenQueueDiscAssumption
<1>3. IsFiniteSet(Ports \X Classes)
  BY <1>1, <1>2, FS_Product
<1> QED
  BY <1>3 DEF Queues, Probers, Classes

(* Packets and what they hold: nothing is in an empty queue, and something  *)
(* in every other.                                                          *)
LEMMA PacketSizes ==
  /\ \A p : SizesOf(p) \subseteq 1 .. TotalBuffer
  /\ \A p : SizesOf(p) \subseteq DataSizes \cup ControlSizes
  /\ DataSizes \cup ControlSizes \subseteq Nat
BY GenQueueDiscAssumption, Parameters DEF SizesOf

LEMMA BytesOfQueue ==
  ASSUME NEW s \in Seq(DataSizes \cup ControlSizes)
  PROVE  /\ NBytes(s) \in Nat
         /\ NBytes(s) = 0 <=> s = <<>>
<1>1. s \in Seq(Nat)
  BY PacketSizes, SeqMonotonic
<1>2. /\ SumFunction(s) \in Nat
      /\ s = <<>> => SumFunction(s) = 0
      /\ \A i \in 1 .. Len(s) : s[i] <= SumFunction(s)
  BY <1>1, SeqSumNat
<1>3. s # <<>> => SumFunction(s) # 0
  <2> SUFFICES ASSUME s # <<>> PROVE SumFunction(s) # 0
    OBVIOUS
  <2>1. Len(s) \in Nat \ {0}
    BY EmptySeq
  <2>2. s[1] \in DataSizes \cup ControlSizes
    BY <2>1, ElementOfSeq
  <2>3. s[1] \in Nat /\ s[1] >= 1
    <3>1. DataSizes \cup ControlSizes \subseteq 1 .. TotalBuffer /\ TotalBuffer \in Nat
      BY GenQueueDiscAssumption, Parameters
    <3> QED
      BY <2>2, <3>1
  <2>4. s[1] <= SumFunction(s)
    BY <1>2, <2>1
  <2> QED
    BY <1>2, <2>3, <2>4
<1> QED
  BY <1>2, <1>3 DEF NBytes

LEMMA BytesAfterAppend ==
  ASSUME NEW s \in Seq(DataSizes \cup ControlSizes),
         NEW size \in DataSizes \cup ControlSizes
  PROVE  NBytes(Append(s, size)) = NBytes(s) + size
<1>1. s \in Seq(Nat) /\ size \in Nat
  BY PacketSizes, SeqMonotonic
<1> QED
  BY <1>1, SeqSumAppend DEF NBytes

LEMMA BytesAfterTail ==
  ASSUME NEW s \in Seq(DataSizes \cup ControlSizes), s # <<>>
  PROVE  /\ Head(s) \in Nat
         /\ NBytes(s) = Head(s) + NBytes(Tail(s))
<1>1. s \in Seq(Nat)
  BY PacketSizes, SeqMonotonic
<1> QED
  BY <1>1, SeqSumTail DEF NBytes

(* The bytes of all queues, as one queue changes.                           *)
BytesIn(q) == SumFunction([p \in Queues |-> NBytes(q[p])])

LEMMA BytesInQueues ==
  ASSUME NEW q \in [Queues -> Seq(DataSizes \cup ControlSizes)]
  PROVE  /\ BytesIn(q) \in Nat
         /\ \A p \in Queues : NBytes(q[p]) <= BytesIn(q)
         /\ \A p \in Queues : \A s \in Seq(DataSizes \cup ControlSizes) :
              BytesIn([q EXCEPT ![p] = s]) = BytesIn(q) - NBytes(q[p]) + NBytes(s)
<1>1. PICK f : f = [p \in Queues |-> NBytes(q[p])] /\ BytesIn(q) = SumFunction(f)
  BY DEF BytesIn
<1>2. f \in [Queues -> Nat] /\ \A p \in Queues : f[p] = NBytes(q[p])
  BY <1>1, BytesOfQueue
<1>3. BytesIn(q) \in Nat /\ \A p \in Queues : f[p] <= BytesIn(q)
  <2>1. IsFiniteSet(Queues)
    BY QueuesFinite
  <2>2. SumFunction(f) \in Nat /\ \A p \in Queues : f[p] <= SumFunction(f)
    BY <1>2, <2>1, SumOfNats
  <2> QED
    BY <1>1, <2>2
<1>4. ASSUME NEW p \in Queues, NEW s \in Seq(DataSizes \cup ControlSizes)
      PROVE  BytesIn([q EXCEPT ![p] = s]) = BytesIn(q) - NBytes(q[p]) + NBytes(s)
  <2>1. PICK r : r = [q EXCEPT ![p] = s]
    OBVIOUS
  <2>2. [x \in Queues |-> NBytes(r[x])] = [f EXCEPT ![p] = NBytes(s)]
    <3>1. [f EXCEPT ![p] = NBytes(s)]
            = [x \in Queues |-> IF x = p THEN NBytes(s) ELSE f[x]]
      BY <1>2
    <3>2. \A x \in Queues : NBytes(r[x]) = IF x = p THEN NBytes(s) ELSE f[x]
      BY <1>2, <2>1
    <3> QED
      BY <3>1, <3>2
  <2>3. BytesIn(r) = SumFunction([f EXCEPT ![p] = NBytes(s)])
    BY <2>2 DEF BytesIn
  <2>4. f \in [Queues -> Int] /\ NBytes(s) \in Int
    BY <1>2, BytesOfQueue
  <2>5. SumFunction([f EXCEPT ![p] = NBytes(s)]) = SumFunction(f) - f[p] + NBytes(s)
    BY <2>4, QueuesFinite, SumOfExcept
  <2> QED
    BY <1>1, <1>2, <2>1, <2>3, <2>5
<1> QED
  BY <1>2, <1>3, <1>4

(* An allocation moves one threshold, which stays a uint32_t.               *)
LEMMA AllocationType ==
  ASSUME NEW cmsa \in [Queues -> 0 .. WordMod - 1], NEW p \in Queues, NEW request \in Int
  PROVE  /\ AllocateBufferSpaceSimple(cmsa, p, request) \in [Queues -> 0 .. WordMod - 1]
         /\ \A x \in Queues \ {p} :
              AllocateBufferSpaceSimple(cmsa, p, request)[x] = cmsa[x]
<1>1. \A x \in Int : U32(x) \in 0 .. WordMod - 1
  BY U32Exact
<1>2. Allocated(cmsa) \in Int
  <2>1. cmsa \in [Queues -> Nat] /\ IsFiniteSet(Queues)
    BY Parameters, QueuesFinite
  <2> QED
    BY <2>1, SumOfNats DEF Allocated
<1>3. U32(Allocated(cmsa)) \in Int
  BY <1>1, <1>2
<1>4. Int32(TotalBuffer - U32(Allocated(cmsa))) \in Int
  BY <1>3, Int32Exact, Parameters
<1>5. PICK granted \in Int :
        AllocateBufferSpaceSimple(cmsa, p, request)
          = [cmsa EXCEPT ![p] = U32(cmsa[p] + granted)]
  BY <1>4 DEF AllocateBufferSpaceSimple
<1>6. U32(cmsa[p] + granted) \in 0 .. WordMod - 1
  BY <1>1
<1> QED
  BY <1>5, <1>6

(* Thresholds that fit the buffer still do after a request that is positive *)
(* in an int32_t or takes no more than the threshold has.                   *)
LEMMA AllocationFits ==
  ASSUME NEW cmsa \in [Queues -> 0 .. WordMod - 1], NEW p \in Queues,
         Allocated(cmsa) <= TotalBuffer,
         NEW request \in Int, -cmsa[p] <= request, request < WordMod \div 2
  PROVE  LET new == AllocateBufferSpaceSimple(cmsa, p, request)
         IN  /\ Allocated(new) <= TotalBuffer
             /\ request >= 0 => new[p] >= cmsa[p]
             /\ request <= 0 => new[p] = cmsa[p] + request
<1>1. PICK used : used = Allocated(cmsa)
  OBVIOUS
<1>2. IsFiniteSet(Queues) /\ cmsa \in [Queues -> Nat] /\ cmsa \in [Queues -> Int]
  BY Parameters, QueuesFinite
<1>3. used \in Nat /\ cmsa[p] <= used /\ used <= TotalBuffer /\ cmsa[p] \in Nat
  BY <1>1, <1>2, SumOfNats DEF Allocated
<1>4. PICK granted \in Int :
        granted = IF used + request > TotalBuffer THEN TotalBuffer - used ELSE request
  <2>1. TotalBuffer - used \in Int
    BY <1>3, Parameters
  <2> QED
    BY <2>1
<1>5. AllocateBufferSpaceSimple(cmsa, p, request)
        = [cmsa EXCEPT ![p] = U32(cmsa[p] + granted)]
  <2>1. U32(used) = used
    BY <1>3, U32Exact, Parameters
  <2>2. Int32(TotalBuffer - used) = TotalBuffer - used
    <3>1. TotalBuffer - used \in Int /\ TotalBuffer - used >= 0
          /\ TotalBuffer - used < WordMod \div 2
      BY <1>3, Parameters
    <3> QED
      BY <3>1, Int32Exact, Parameters
  <2>3. request > 0 => U32(used + request) = used + request
    BY <1>3, U32Exact, Parameters
  <2>4. used + request > TotalBuffer => request > 0
    BY <1>3, Parameters
  <2>5. granted = IF U32(used + request) > TotalBuffer /\ request > 0
                  THEN TotalBuffer - used ELSE request
    BY <1>4, <2>3, <2>4
  <2> QED
    BY <1>1, <2>1, <2>2, <2>5 DEF AllocateBufferSpaceSimple
<1>6. /\ 0 <= cmsa[p] + granted /\ cmsa[p] + granted <= TotalBuffer
      /\ used + granted <= TotalBuffer
      /\ request >= 0 => granted >= 0
      /\ request <= 0 => granted = request
  BY <1>3, <1>4, Parameters
<1>7. U32(cmsa[p] + granted) = cmsa[p] + granted
  <2>1. cmsa[p] + granted \in 0 .. WordMod - 1
    BY <1>3, <1>6, Parameters
  <2> QED
    BY <2>1, U32Exact
<1>8. Allocated([cmsa EXCEPT ![p] = cmsa[p] + granted]) = used - cmsa[p] + cmsa[p] + granted
  <2>1. cmsa[p] + granted \in Int
    BY <1>3
  <2>2. SumFunction([cmsa EXCEPT ![p] = cmsa[p] + granted])
          = SumFunction(cmsa) - cmsa[p] + (cmsa[p] + granted)
    BY <1>2, <2>1, SumOfExcept
  <2> QED
    BY <1>1, <1>3, <2>2 DEF Allocated
<1>9. PICK new : new = AllocateBufferSpaceSimple(cmsa, p, request)
  OBVIOUS
<1>10. Allocated(new) <= TotalBuffer /\ new[p] = cmsa[p] + granted
  <2>1. new = [cmsa EXCEPT ![p] = cmsa[p] + granted]
    BY <1>5, <1>7, <1>9
  <2>2. Allocated(new) = used + granted
    BY <1>3, <1>8, <2>1
  <2> QED
    BY <1>6, <2>1, <2>2
<1> QED
  BY <1>3, <1>6, <1>9, <1>10

-----------------------------------------------------------------------------
(* The inductive invariant                                                 *)

(* A queue's window has one scheduled end, at the number of intervals after *)
(* its start that the end counts, the start cut off to a microsecond.       *)
WindowInv ==
  /\ \A p \in Queues : p \in isWindowOn <=> \E e \in events : e.queue = p
  /\ \A e, f \in events : e.queue = f.queue => e = f
  /\ \A e \in events :
       LET start == designZeroWindowStart[e.queue] * NsPerUs
       IN  /\ e.at >= now
           /\ start + e.count * Window <= e.at
           /\ e.at < start + NsPerUs + e.count * Window

(* The idle time that has not ended.                                        *)
Pending(p) == IF designZeroStart[p] = -1 THEN 0 ELSE IdleInWindow(p)

(* A queue is marked as empty exactly when it has run empty, and what it    *)
(* has been in its window is no longer than the window.                     *)
IdleInv ==
  /\ \A p \in Queues :
       /\ designZeroStart[p] # -1 => queue[p] = <<>>
       /\ designZeroWindowSum[p] + Pending(p) <= now - designZeroWindowStart[p] * NsPerUs
  /\ \A p \in Probers :
       /\ queue[p] # <<>> => p \in served
       /\ designZeroStart[p] # -1 <=> p \in served /\ queue[p] = <<>>
       /\ p \notin isWindowOn => idleTime[p] = 0

(* What is counted beyond the idle time is not more than what the cut-off   *)
(* of the window's start has added, and nothing if the queue held packets   *)
(* when the window opened.                                                  *)
CutOff(e) == (e.at - e.count * Window) - designZeroWindowStart[e.queue] * NsPerUs

ExcessInv ==
  \A e \in events :
    LET p == e.queue
    IN  p \in Probers =>
          /\ (designZeroWindowSum[p] + Pending(p)) - idleTime[p] <= CutOff(e)
          /\ p \notin emptyAtDrop =>
               (designZeroWindowSum[p] + Pending(p)) - idleTime[p] <= 0

(* A window's minimum is at most what its queue holds.                      *)
MinInv == \A p \in isWindowOn : probeMinMinBufferUsed[p] <= NBytes(queue[p])

GenQueueInv ==
  TypeOK /\ BufferAccounting /\ InRangeThresholdsFit
  /\ WindowInv /\ IdleInv /\ IdleTimeIsCounted /\ ExcessInv /\ MinInv

-----------------------------------------------------------------------------
(* The steps                                                               *)

(* DoDequeue of the queue whose turn it is, wherever the turn goes next.    *)
Sends(p) ==
  /\ queue[p] # <<>>
  /\ queue' = [queue EXCEPT ![p] = Tail(@)]
  /\ sm' = DequeueBuffer(sm, Head(queue[p]))
  /\ dequeueIndex' \in [Ports -> Classes]
  /\ designZeroStart' =
       IF designZeroStart[p] = -1 /\ Len(queue[p]) = 1
       THEN [designZeroStart EXCEPT ![p] = now] ELSE designZeroStart
  /\ RecordsMin(p, probeMinMinBufferUsed[p])
  /\ UNCHANGED <<now, ssthreshBuffer, thresholdVars, windowVars, sampleVars,
                 served, idleTime, inRange>>

LEMMA DequeueSends ==
  ASSUME TypeOK, NEW port \in Ports, DoDequeue(port)
  PROVE  \E p \in Queues : Sends(p)
<1>1. \A i \in Nat : ClassAfter(port, i) \in Classes
  <2> SUFFICES ASSUME NEW i \in Nat PROVE ClassAfter(port, i) \in Classes
    OBVIOUS
  <2>1. dequeueIndex[port] \in Int
    BY Parameters DEF TypeOK, Classes
  <2>2. nPrior \in Nat \ {0} /\ dequeueIndex[port] + i \in Int
    BY <2>1, Parameters
  <2> QED
    BY <2>2, RemainderExact DEF ClassAfter, Classes
<1>2. PICK i \in Classes :
        LET p == <<port, ClassAfter(port, i)>> IN
        /\ queue[p] # <<>>
        /\ queue' = [queue EXCEPT ![p] = Tail(@)]
        /\ sm' = DequeueBuffer(sm, Head(queue[p]))
        /\ dequeueIndex' = [dequeueIndex EXCEPT ![port] = ClassAfter(port, i + 1)]
        /\ designZeroStart' =
             IF designZeroStart[p] = -1 /\ Len(queue[p]) = 1
             THEN [designZeroStart EXCEPT ![p] = now] ELSE designZeroStart
        /\ RecordsMin(p, probeMinMinBufferUsed[p])
        /\ UNCHANGED <<now, ssthreshBuffer, thresholdVars, windowVars, sampleVars,
                       served, idleTime, inRange>>
  BY DEF DoDequeue
<1>3. i \in Nat /\ i + 1 \in Nat
  BY Parameters DEF Classes
<1>4. PICK p \in Queues : p = <<port, ClassAfter(port, i)>>
  BY <1>1, <1>3 DEF Queues
<1>5. dequeueIndex' \in [Ports -> Classes]
  <2>1. ClassAfter(port, i + 1) \in Classes /\ dequeueIndex \in [Ports -> Classes]
    BY <1>1, <1>3 DEF TypeOK
  <2> QED
    BY <1>2, <2>1
<1> QED
  BY <1>2, <1>4, <1>5 DEF Sends

(* What TypeOK says of one queue.                                           *)
LEMMA QueueTypes ==
  ASSUME TypeOK, NEW p \in Queues
  PROVE  /\ queue[p] \in Seq(DataSizes \cup ControlSizes)
         /\ queue[p] \in Seq(SizesOf(p))
         /\ Len(queue[p]) \in Nat
         /\ NBytes(queue[p]) \in Nat
         /\ NBytes(queue[p]) = 0 <=> queue[p] = <<>>
         /\ SizesOf(p) \subseteq DataSizes \cup ControlSizes
         /\ SizesOf(p) \subseteq Nat \ {0}
<1>1. queue[p] \in Seq(DataSizes \cup ControlSizes) /\ queue[p] \in Seq(SizesOf(p))
  BY DEF TypeOK
<1>2. NBytes(queue[p]) \in Nat /\ (NBytes(queue[p]) = 0 <=> queue[p] = <<>>)
  BY <1>1, BytesOfQueue
<1>3. Len(queue[p]) \in Nat
  BY <1>1, LenProperties
<1>4. SizesOf(p) \subseteq DataSizes \cup ControlSizes /\ SizesOf(p) \subseteq Nat \ {0}
  BY PacketSizes, Parameters
<1> QED
  BY <1>1, <1>2, <1>3, <1>4

LEMMA HeldTypes ==
  ASSUME TypeOK
  PROVE  /\ Held \in Nat
         /\ \A p \in Queues : NBytes(queue[p]) <= Held
         /\ sm.OccupiedBuffer \in Nat /\ sm.RemainingBuffer \in Nat
         /\ Leaked = sm.OccupiedBuffer - Held
         /\ sm = [OccupiedBuffer |-> sm.OccupiedBuffer,
                  RemainingBuffer |-> sm.RemainingBuffer]
<1>1. queue \in [Queues -> Seq(DataSizes \cup ControlSizes)]
  BY DEF TypeOK
<1>2. Held = BytesIn(queue)
  BY DEF Held, BytesIn
<1>3. Held \in Nat /\ \A p \in Queues : NBytes(queue[p]) <= Held
  BY <1>1, <1>2, BytesInQueues
<1>4. /\ sm.OccupiedBuffer \in Nat /\ sm.RemainingBuffer \in Nat
      /\ sm = [OccupiedBuffer |-> sm.OccupiedBuffer,
               RemainingBuffer |-> sm.RemainingBuffer]
  BY Parameters DEF TypeOK
<1> QED
  BY <1>3, <1>4 DEF Leaked

LEMMA HeldAfter ==
  ASSUME TypeOK, NEW p \in Queues, NEW s \in Seq(DataSizes \cup ControlSizes),
         queue' = [queue EXCEPT ![p] = s]
  PROVE  Held' = Held - NBytes(queue[p]) + NBytes(s)
<1>1. queue \in [Queues -> Seq(DataSizes \cup ControlSizes)]
  BY DEF TypeOK
<1>2. BytesIn([queue EXCEPT ![p] = s]) = BytesIn(queue) - NBytes(queue[p]) + NBytes(s)
  BY <1>1, BytesInQueues
<1>3. Held = BytesIn(queue) /\ Held' = BytesIn(queue')
  BY DEF Held, BytesIn
<1> QED
  BY <1>2, <1>3

(* A child that refuses a packet is not empty, so the bytes come back.      *)
LEMMA RefusalKeepsBuffer ==
  ASSUME TypeOK, BufferAccounting, NEW p \in Queues, NEW size \in SizesOf(p),
         Len(queue[p]) = ChildLimit
  PROVE  DequeueBuffer(EnqueueBuffer(sm, size), size) = sm
<1>1. queue[p] # <<>>
  <2>1. Len(queue[p]) # 0
    BY GenQueueDiscAssumption
  <2> QED
    BY <2>1, EmptySeq
<1>2. NBytes(queue[p]) \in Nat \ {0} /\ NBytes(queue[p]) <= Held /\ size \in Nat
  BY <1>1, QueueTypes, HeldTypes
<1>3. Leaked \in Nat
  BY PacketSizes DEF BufferAccounting
<1>4. sm.OccupiedBuffer > 0
  BY <1>2, <1>3, HeldTypes
<1>5. PICK o, r : o = sm.OccupiedBuffer /\ r = sm.RemainingBuffer
  OBVIOUS
<1>6. o \in Nat /\ r \in Nat /\ o > 0 /\ sm = [OccupiedBuffer |-> o, RemainingBuffer |-> r]
  BY <1>4, <1>5, HeldTypes
<1>7. PICK b : b = EnqueueBuffer(sm, size)
  OBVIOUS
<1>8. b.OccupiedBuffer = o + size /\ b.RemainingBuffer = r - size
  BY <1>5, <1>7 DEF EnqueueBuffer
<1>9. b.OccupiedBuffer > size /\ b.OccupiedBuffer - size = o /\ b.RemainingBuffer + size = r
  BY <1>2, <1>6, <1>8
<1>10. DequeueBuffer(b, size) = [OccupiedBuffer |-> o, RemainingBuffer |-> r]
  BY <1>9 DEF DequeueBuffer
<1> QED
  BY <1>6, <1>7, <1>10

(* Every drop leaves the buffer and the queues as they were.                *)
Refuses(p) == Drops(p, sm) /\ UNCHANGED unsentVars

LEMMA EnqueueCases ==
  ASSUME TypeOK, BufferAccounting, DoEnqueue
  PROVE  \E p \in Queues : Refuses(p) \/ \E size \in SizesOf(p) : Enqueue(p, size)
<1>1. PICK p \in Queues : \E size \in SizesOf(p) :
        DropAtAdmission(p, size) \/ DropInChild(p, size) \/ Enqueue(p, size)
  BY DEF DoEnqueue
<1> PICK size \in SizesOf(p) :
        DropAtAdmission(p, size) \/ DropInChild(p, size) \/ Enqueue(p, size)
  BY <1>1
<1>2. CASE DropAtAdmission(p, size)
  BY <1>2 DEF DropAtAdmission, Refuses
<1>3. CASE DropInChild(p, size)
  BY <1>3, RefusalKeepsBuffer DEF DropInChild, Refuses
<1>4. CASE Enqueue(p, size)
  BY <1>4
<1> QED
  BY <1>2, <1>3, <1>4

(* What an admission does to thresholds, statistics and windows.            *)
LEMMA AllocatesTypes ==
  ASSUME TypeOK, NEW p \in Queues, MyBMAllocates(p)
  PROVE  /\ currMaxSizeAllowed' \in [Queues -> 0 .. WordMod - 1]
         /\ proberStarted' \subseteq Probers
<1>1. currMaxSizeAllowed \in [Queues -> 0 .. WordMod - 1] /\ startProbeBuffer \in Int
  BY GenQueueDiscAssumption, Parameters DEF TypeOK
<1>2. ThresholdsFor(p) \in [Queues -> 0 .. WordMod - 1]
  BY <1>1, AllocationType DEF ThresholdsFor
<1> QED
  BY <1>2 DEF MyBMAllocates, TypeOK

LEMMA NoMinType == NoMin \in Nat
BY SMT DEF NoMin

LEMMA RecordedMin ==
  ASSUME TypeOK, NEW p \in Queues, NEW low \in 0 .. NoMin, RecordsMin(p, low),
         NBytes(queue'[p]) \in Nat
  PROVE  /\ probeMinMinBufferUsed' \in [Queues -> 0 .. NoMin]
         /\ probeMinMinBufferUsed'[p] <= NBytes(queue'[p])
         /\ \A x \in Queues \ {p} : probeMinMinBufferUsed'[x] = probeMinMinBufferUsed[x]
<1>1. PICK m : m = Min({low, NBytes(queue'[p])})
  OBVIOUS
<1>2. low \in Int /\ NBytes(queue'[p]) \in Int /\ NoMin \in Int
  BY NoMinType
<1>3. m \in 0 .. NoMin /\ m <= NBytes(queue'[p])
  BY <1>1, <1>2, MinOfTwo
<1>4. probeMinMinBufferUsed' = [probeMinMinBufferUsed EXCEPT ![p] = m]
  BY <1>1 DEF RecordsMin
<1>5. probeMinMinBufferUsed \in [Queues -> 0 .. NoMin]
  BY DEF TypeOK
<1> QED
  BY <1>3, <1>4, <1>5

LEMMA MinAfterChangeType ==
  ASSUME TypeOK, NEW p \in Queues, NEW cmsa
  PROVE  MinAfterChange(p, cmsa) \in 0 .. NoMin
BY NoMinType DEF TypeOK, MinAfterChange

(* An idle time reaches from when it began, or its window did, to now.      *)
LEMMA IdleInWindowIs ==
  ASSUME TypeOK, NEW p \in Queues
  PROVE  LET start == designZeroWindowStart[p] * NsPerUs
             from == designZeroStart[p]
         IN  /\ start \in Nat /\ start <= now
             /\ from \in Int /\ from <= now
             /\ IdleInWindow(p) = now - (IF from >= start THEN from ELSE start)
<1>1. PICK w : w = designZeroWindowStart[p]
  OBVIOUS
<1>2. PICK from : from = designZeroStart[p]
  OBVIOUS
<1>3. w \in Nat /\ w <= now \div NsPerUs /\ from \in Int /\ from <= now /\ now \in Nat
  BY <1>1, <1>2, Parameters, QuotientSpans DEF TypeOK
<1>4. w * NsPerUs \in Nat /\ w * NsPerUs <= now
  BY <1>3, QuotientFits, Parameters
<1>5. Max({from, w * NsPerUs}) = IF from >= w * NsPerUs THEN from ELSE w * NsPerUs
  BY <1>3, <1>4, MaxOfTwo
<1> QED
  BY <1>1, <1>2, <1>3, <1>4, <1>5 DEF IdleInWindow

LEMMA Microsecond ==
  ASSUME TypeOK
  PROVE  /\ now \in Nat /\ now \div NsPerUs \in Nat
         /\ (now \div NsPerUs) * NsPerUs \in Nat
         /\ (now \div NsPerUs) * NsPerUs <= now
         /\ now < (now \div NsPerUs) * NsPerUs + NsPerUs
         /\ now \div NsPerUs <= (now + 1) \div NsPerUs
<1>1. now \in Nat /\ NsPerUs \in Nat \ {0}
  BY Parameters DEF TypeOK
<1>2. PICK q : q = now \div NsPerUs
  OBVIOUS
<1>3. q \in Nat /\ q * NsPerUs <= now /\ now < q * NsPerUs + NsPerUs /\ q * NsPerUs \in Nat
  BY <1>1, <1>2, QuotientSpans
<1>4. q <= (now + 1) \div NsPerUs
  <2>1. q * NsPerUs <= now + 1 /\ now + 1 \in Nat
    BY <1>1, <1>3
  <2> QED
    BY <1>1, <1>3, <2>1, QuotientFits
<1> QED
  BY <1>1, <1>2, <1>3, <1>4

-----------------------------------------------------------------------------
(* The shared buffer                                                       *)

Buffers == [OccupiedBuffer : 0 .. TotalBuffer, RemainingBuffer : 0 .. TotalBuffer]
LeakStep == Leaked' # Leaked => Leaked = 0 /\ Held > 0 /\ Held' = 0

LEMMA EnqueueAccounts ==
  ASSUME TypeOK, BufferAccounting, NEW p \in Queues, NEW size \in SizesOf(p),
         Enqueue(p, size)
  PROVE  sm' \in Buffers /\ BufferAccounting' /\ LeakStep
<1>1. /\ CanEnqueue(sm, size) /\ sm' = EnqueueBuffer(sm, size)
      /\ queue' = [queue EXCEPT ![p] = Append(queue[p], size)]
  BY DEF Enqueue, Fits
<1>2. PICK o, r : o = sm.OccupiedBuffer /\ r = sm.RemainingBuffer
  OBVIOUS
<1>3. /\ o \in Nat /\ r \in Nat /\ o + r = TotalBuffer /\ r > size
      /\ Held \in Nat /\ Leaked = o - Held
      /\ size \in Nat /\ TotalBuffer \in Nat
  BY <1>1, <1>2, HeldTypes, QueueTypes, Parameters DEF BufferAccounting, CanEnqueue
<1>4. sm'.OccupiedBuffer = o + size /\ sm'.RemainingBuffer = r - size
  BY <1>1, <1>2 DEF EnqueueBuffer
<1>5. sm' \in Buffers
  <2>1. sm' = [OccupiedBuffer |-> o + size, RemainingBuffer |-> r - size]
    BY <1>1, <1>2 DEF EnqueueBuffer
  <2>2. o + size \in 0 .. TotalBuffer /\ r - size \in 0 .. TotalBuffer
    BY <1>3
  <2> QED
    BY <2>1, <2>2 DEF Buffers
<1>6. Held' = Held + size
  <2>1. /\ queue[p] \in Seq(DataSizes \cup ControlSizes)
        /\ size \in DataSizes \cup ControlSizes
        /\ NBytes(queue[p]) \in Nat
    BY QueueTypes
  <2>2. Append(queue[p], size) \in Seq(DataSizes \cup ControlSizes)
    BY <2>1, AppendProperties
  <2>3. Held' = Held - NBytes(queue[p]) + NBytes(Append(queue[p], size))
    BY <1>1, <2>2, HeldAfter
  <2>4. NBytes(Append(queue[p], size)) = NBytes(queue[p]) + size
    BY <2>1, BytesAfterAppend
  <2> QED
    BY <1>3, <2>1, <2>3, <2>4
<1>7. Leaked' = Leaked
  <2>1. Leaked' = sm'.OccupiedBuffer - Held'
    BY DEF Leaked
  <2> QED
    BY <1>3, <1>4, <1>6, <2>1
<1>8. BufferAccounting'
  <2>1. sm'.OccupiedBuffer + sm'.RemainingBuffer = TotalBuffer /\ sm'.RemainingBuffer > 0
    BY <1>3, <1>4
  <2> QED
    BY <1>7, <2>1 DEF BufferAccounting
<1> QED
  BY <1>5, <1>7, <1>8 DEF LeakStep

(* The bytes of the packet sent stay when no more is occupied: then it is   *)
(* all that the queues hold, and nothing has stayed before.                 *)
LEMMA SendsAccounts ==
  ASSUME TypeOK, BufferAccounting, NEW p \in Queues, Sends(p)
  PROVE  sm' \in Buffers /\ BufferAccounting' /\ LeakStep
<1>1. PICK h : h = Head(queue[p])
  OBVIOUS
<1>2. /\ sm' = DequeueBuffer(sm, h) /\ queue[p] # <<>>
      /\ queue' = [queue EXCEPT ![p] = Tail(queue[p])]
  BY <1>1 DEF Sends
<1>3. PICK o, r : o = sm.OccupiedBuffer /\ r = sm.RemainingBuffer
  OBVIOUS
<1>4. /\ queue[p] \in Seq(DataSizes \cup ControlSizes)
      /\ Tail(queue[p]) \in Seq(DataSizes \cup ControlSizes)
      /\ h \in DataSizes \cup ControlSizes
      /\ h \in Nat
  <2>1. queue[p] \in Seq(DataSizes \cup ControlSizes)
    BY QueueTypes
  <2>2. /\ Head(queue[p]) \in DataSizes \cup ControlSizes
        /\ Tail(queue[p]) \in Seq(DataSizes \cup ControlSizes)
    BY <1>2, <2>1, HeadTailProperties
  <2> QED
    BY <1>1, <2>1, <2>2, PacketSizes
<1>5. /\ NBytes(queue[p]) \in Nat /\ NBytes(Tail(queue[p])) \in Nat
      /\ NBytes(queue[p]) = h + NBytes(Tail(queue[p]))
      /\ NBytes(queue[p]) # 0
  BY <1>1, <1>2, <1>4, BytesAfterTail, BytesOfQueue
<1>6. Held' = Held - NBytes(queue[p]) + NBytes(Tail(queue[p]))
  BY <1>2, <1>4, HeldAfter
<1>7. /\ o \in Nat /\ r \in Nat /\ o + r = TotalBuffer /\ r > 0
      /\ Held \in Nat /\ NBytes(queue[p]) <= Held /\ Leaked = o - Held
      /\ Leaked \in Nat /\ Leaked \in {0} \cup DataSizes \cup ControlSizes
      /\ TotalBuffer \in Nat
  BY <1>3, HeldTypes, PacketSizes, Parameters DEF BufferAccounting
<1>8. Held' = Held - h
  BY <1>4, <1>5, <1>6, <1>7
<1>9. Leaked' = sm'.OccupiedBuffer - Held'
  BY DEF Leaked
<1>10. CASE o > h
  <2>1. sm' = [OccupiedBuffer |-> o - h, RemainingBuffer |-> r + h]
    BY <1>2, <1>3, <1>10 DEF DequeueBuffer
  <2>2. sm'.OccupiedBuffer = o - h /\ sm'.RemainingBuffer = r + h
    BY <2>1
  <2>3. Leaked' = Leaked
    BY <1>4, <1>7, <1>8, <1>9, <2>2
  <2>4. o - h \in 0 .. TotalBuffer /\ r + h \in 0 .. TotalBuffer
    BY <1>4, <1>7, <1>10
  <2>5. sm' \in Buffers
    BY <2>1, <2>4 DEF Buffers
  <2>6. sm'.OccupiedBuffer + sm'.RemainingBuffer = TotalBuffer /\ sm'.RemainingBuffer > 0
    BY <1>4, <1>7, <2>2
  <2>7. BufferAccounting'
    BY <1>7, <2>3, <2>6 DEF BufferAccounting
  <2> QED
    BY <2>3, <2>5, <2>7 DEF LeakStep
<1>11. CASE ~ (o > h)
  <2>1. sm' = sm
    BY <1>2, <1>3, <1>11 DEF DequeueBuffer
  <2>2. Held = h /\ Leaked = 0 /\ o = h /\ h > 0
    BY <1>4, <1>5, <1>7, <1>11
  <2>3. Held' = 0 /\ Leaked' = h
    BY <1>3, <1>4, <1>8, <1>9, <2>1, <2>2
  <2>4. BufferAccounting'
    BY <1>3, <1>4, <1>7, <2>1, <2>3 DEF BufferAccounting
  <2>5. sm' \in Buffers
    BY <2>1 DEF TypeOK, Buffers
  <2> QED
    BY <2>2, <2>3, <2>4, <2>5 DEF LeakStep
<1> QED
  BY <1>4, <1>7, <1>10, <1>11

LEMMA BufferStep ==
  ASSUME TypeOK, BufferAccounting, [Next]_vars
  PROVE  sm' \in Buffers /\ BufferAccounting' /\ LeakStep
<1>1. ASSUME UNCHANGED <<sm, queue>>
      PROVE  sm' \in Buffers /\ BufferAccounting' /\ LeakStep
  <2>1. Held' = Held /\ Leaked' = Leaked
    BY <1>1 DEF Held, Leaked
  <2> QED
    BY <1>1, <2>1 DEF BufferAccounting, LeakStep, TypeOK, Buffers
<1>2. CASE DoEnqueue
  <2>1. ASSUME NEW p \in Queues, Refuses(p) PROVE UNCHANGED <<sm, queue>>
    BY <2>1 DEF Refuses, Drops
  <2> QED
    BY <1>1, <1>2, <2>1, EnqueueCases, EnqueueAccounts
<1>3. ASSUME NEW port \in Ports, DoDequeue(port)
      PROVE  sm' \in Buffers /\ BufferAccounting' /\ LeakStep
  BY <1>3, DequeueSends, SendsAccounts
<1>4. ASSUME NEW port \in Ports, SmoothMonitoring(port) PROVE UNCHANGED <<sm, queue>>
  BY <1>4 DEF SmoothMonitoring
<1>5. CASE EndWindowAfterDrop
  <2>1. UNCHANGED <<sm, queue>>
    BY <1>5 DEF EndWindowAfterDrop, GrowThreshold, MonitorAgain, ShrinkThreshold,
                KeepThreshold, unwindowedVars
  <2> QED
    BY <1>1, <2>1
<1>6. CASE Tick
  <2>1. UNCHANGED <<sm, queue>>
    BY <1>6 DEF Tick
  <2> QED
    BY <1>1, <2>1
<1>7. CASE UNCHANGED vars
  <2>1. UNCHANGED <<sm, queue>>
    BY <1>7 DEF vars
  <2> QED
    BY <1>1, <2>1
<1> QED
  BY <1>1, <1>2, <1>3, <1>4, <1>5, <1>6, <1>7 DEF Next

-----------------------------------------------------------------------------
(* The windows                                                             *)

LEMMA EventTypes ==
  ASSUME TypeOK, NEW e \in events
  PROVE  /\ e.at \in Nat /\ e.queue \in Queues /\ e.count \in 1 .. COUNT_THRES
         /\ designZeroWindowStart[e.queue] \in Nat
         /\ designZeroWindowStart[e.queue] * NsPerUs \in Nat
         /\ e.count * Window \in Nat
<1>1. e.at \in Nat /\ e.queue \in Queues /\ e.count \in 1 .. COUNT_THRES
  BY DEF TypeOK
<1>2. designZeroWindowStart[e.queue] \in Nat
  BY <1>1, Microsecond DEF TypeOK
<1>3. \A x, y \in Nat : x * y \in Nat
  OBVIOUS
<1> QED
  BY <1>1, <1>2, <1>3, Parameters DEF COUNT_THRES

LEMMA RefusesWindows ==
  ASSUME TypeOK, WindowInv, NEW p \in Queues, Refuses(p)
  PROVE  WindowInv'
<1>1. now' = now /\ StartWindowAfterDrop(p)
  BY DEF Refuses, Drops, unsentVars
<1>2. CASE p \in isWindowOn
  <2>1. UNCHANGED windowVars
    BY <1>1, <1>2 DEF StartWindowAfterDrop
  <2> QED
    BY <1>1, <2>1 DEF WindowInv, windowVars
<1>3. CASE p \notin isWindowOn
  <2>1. PICK new : new = [at |-> now + Window, queue |-> p, count |-> 1]
    OBVIOUS
  <2>2. /\ isWindowOn' = isWindowOn \cup {p}
        /\ designZeroWindowStart' = [designZeroWindowStart EXCEPT ![p] = now \div NsPerUs]
        /\ events' = events \cup {new}
    BY <1>1, <1>3, <2>1 DEF StartWindowAfterDrop
  <2>3. new.at = now + Window /\ new.queue = p /\ new.count = 1
    BY <2>1
  <2>4. \A e \in events : e.queue # p
    BY <1>3 DEF WindowInv
  <2>5. /\ designZeroWindowStart'[p] = now \div NsPerUs
        /\ \A e \in events : designZeroWindowStart'[e.queue] = designZeroWindowStart[e.queue]
    BY <2>2, <2>4, EventTypes DEF TypeOK
  <2>6. \A x \in Queues : x \in isWindowOn' <=> \E e \in events' : e.queue = x
    BY <2>2, <2>3 DEF WindowInv
  <2>7. \A e, f \in events' : e.queue = f.queue => e = f
    BY <2>2, <2>3, <2>4 DEF WindowInv
  <2>8. /\ now \in Nat /\ Window \in Nat
        /\ (now \div NsPerUs) * NsPerUs \in Nat
        /\ (now \div NsPerUs) * NsPerUs <= now
        /\ now < (now \div NsPerUs) * NsPerUs + NsPerUs
        /\ NsPerUs \in Nat
    BY Microsecond, Parameters
  <2>9. /\ new.at >= now'
        /\ designZeroWindowStart'[new.queue] * NsPerUs + new.count * Window <= new.at
        /\ new.at < designZeroWindowStart'[new.queue] * NsPerUs + NsPerUs + new.count * Window
    <3>1. designZeroWindowStart'[new.queue] * NsPerUs = (now \div NsPerUs) * NsPerUs
          /\ new.count * Window = Window
      BY <2>3, <2>5, <2>8
    <3>2. PICK w : w = (now \div NsPerUs) * NsPerUs
      OBVIOUS
    <3> QED
      BY <1>1, <2>3, <2>8, <3>1, <3>2
  <2> QED
    BY <1>1, <2>2, <2>5, <2>6, <2>7, <2>9 DEF WindowInv
<1> QED
  BY <1>2, <1>3

LEMMA ClosesWindows ==
  ASSUME WindowInv, TypeOK, NEW e \in events, Closes(e),
         now' = now, designZeroWindowStart' = designZeroWindowStart
  PROVE  WindowInv'
<1>1. isWindowOn' = isWindowOn \ {e.queue} /\ events' = events \ {e}
  BY DEF Closes
<1>2. \A p \in Queues : p \in isWindowOn' <=> \E f \in events' : f.queue = p
  BY <1>1 DEF WindowInv
<1>3. \A f, g \in events' : f.queue = g.queue => f = g
  BY <1>1 DEF WindowInv
<1> QED
  BY <1>1, <1>2, <1>3 DEF WindowInv

LEMMA MonitorAgainWindows ==
  ASSUME TypeOK, WindowInv, NEW e \in events, e.at = now, MonitorAgain(e)
  PROVE  WindowInv' /\ events' \subseteq [at : Nat, queue : Queues, count : 1 .. COUNT_THRES]
<1>1. PICK new : new = [at |-> now + Window, queue |-> e.queue, count |-> e.count + 1]
  OBVIOUS
<1>2. /\ events' = (events \ {e}) \cup {new} /\ e.count < COUNT_THRES
      /\ isWindowOn' = isWindowOn /\ now' = now
      /\ designZeroWindowStart' = designZeroWindowStart
  BY <1>1 DEF MonitorAgain, unwindowedVars
<1>3. new.at = now + Window /\ new.queue = e.queue /\ new.count = e.count + 1
  BY <1>1
<1>4. /\ e.queue \in Queues /\ e.count \in 1 .. COUNT_THRES
      /\ designZeroWindowStart[e.queue] * NsPerUs \in Nat
      /\ e.count * Window \in Nat
      /\ now \in Nat /\ Window \in Nat /\ NsPerUs \in Nat
  BY EventTypes, Microsecond, Parameters
<1>5. \A p \in Queues : p \in isWindowOn' <=> \E f \in events' : f.queue = p
  BY <1>2, <1>3 DEF WindowInv
<1>6. \A f, g \in events' : f.queue = g.queue => f = g
  BY <1>2, <1>3 DEF WindowInv
<1>7. /\ new.at >= now'
      /\ designZeroWindowStart'[new.queue] * NsPerUs + new.count * Window <= new.at
      /\ new.at < designZeroWindowStart'[new.queue] * NsPerUs + NsPerUs + new.count * Window
  <2>1. new.count * Window = e.count * Window + Window
    BY <1>3, <1>4 DEF COUNT_THRES
  <2>2. /\ designZeroWindowStart[e.queue] * NsPerUs + e.count * Window <= now
        /\ now < designZeroWindowStart[e.queue] * NsPerUs + NsPerUs + e.count * Window
    BY DEF WindowInv
  <2>3. PICK w \in Nat : w = designZeroWindowStart[e.queue] * NsPerUs
    BY <1>4
  <2>4. PICK c \in Nat : c = e.count * Window
    BY <1>4
  <2> QED
    BY <1>2, <1>3, <1>4, <2>1, <2>2, <2>3, <2>4
<1>8. new \in [at : Nat, queue : Queues, count : 1 .. COUNT_THRES]
  <2>1. now + Window \in Nat /\ e.count + 1 \in 1 .. COUNT_THRES
    BY <1>2, <1>4 DEF COUNT_THRES
  <2> QED
    BY <1>1, <1>4, <2>1
<1>9. events \subseteq [at : Nat, queue : Queues, count : 1 .. COUNT_THRES]
  BY DEF TypeOK
<1> QED
  BY <1>2, <1>5, <1>6, <1>7, <1>8, <1>9 DEF WindowInv

LEMMA WindowStep ==
  ASSUME TypeOK, BufferAccounting, WindowInv, [Next]_vars
  PROVE  WindowInv'
<1>1. ASSUME UNCHANGED <<now, windowVars>> PROVE WindowInv'
  BY <1>1 DEF WindowInv, windowVars
<1>2. CASE DoEnqueue
  <2>1. ASSUME NEW p \in Queues, NEW size \in SizesOf(p), Enqueue(p, size)
        PROVE  WindowInv'
    BY <2>1 DEF Enqueue, unsentVars, WindowInv
  <2> QED
    BY <1>2, <2>1, EnqueueCases, RefusesWindows
<1>3. ASSUME NEW port \in Ports, DoDequeue(port) PROVE WindowInv'
  <2>1. PICK p \in Queues : Sends(p)
    BY <1>3, DequeueSends
  <2> QED
    BY <1>1, <2>1 DEF Sends
<1>4. ASSUME NEW port \in Ports, SmoothMonitoring(port) PROVE WindowInv'
  BY <1>1, <1>4 DEF SmoothMonitoring
<1>5. CASE EndWindowAfterDrop
  <2>1. PICK e \in events :
          /\ e.at = now
          /\ GrowThreshold(e) \/ MonitorAgain(e) \/ ShrinkThreshold(e) \/ KeepThreshold(e)
    BY <1>5 DEF EndWindowAfterDrop
  <2>2. CASE MonitorAgain(e)
    BY <2>1, <2>2, MonitorAgainWindows
  <2>3. CASE GrowThreshold(e) \/ ShrinkThreshold(e) \/ KeepThreshold(e)
    <3>1. Closes(e) /\ now' = now /\ designZeroWindowStart' = designZeroWindowStart
      BY <2>3 DEF GrowThreshold, ShrinkThreshold, KeepThreshold, unwindowedVars
    <3> QED
      BY <3>1, ClosesWindows
  <2> QED
    BY <2>1, <2>2, <2>3
<1>6. CASE Tick
  <2>1. /\ now' = now + 1 /\ \A e \in events : e.at > now
        /\ UNCHANGED windowVars
    BY <1>6 DEF Tick
  <2>2. now \in Nat /\ \A e \in events : e.at \in Nat
    BY EventTypes, Microsecond
  <2> QED
    BY <2>1, <2>2 DEF WindowInv, windowVars
<1>7. CASE UNCHANGED vars
  BY <1>1, <1>7 DEF vars, windowVars
<1> QED
  BY <1>2, <1>3, <1>4, <1>5, <1>6, <1>7 DEF Next

(* The window is then at least as old as the intervals counted.             *)
LEMMA OneEnd ==
  ASSUME TypeOK, WindowInv
  PROVE  OneEndPerWindow
<1>1. ASSUME NEW p \in Queues
      PROVE  Cardinality({ e \in events : e.queue = p }) = IF p \in isWindowOn THEN 1 ELSE 0
  <2>1. CASE p \in isWindowOn
    <3>1. PICK f \in events : f.queue = p
      BY <2>1 DEF WindowInv
    <3>2. { e \in events : e.queue = p } = {f}
      BY <3>1 DEF WindowInv
    <3> QED
      BY <2>1, <3>2, FS_Singleton
  <2>2. CASE p \notin isWindowOn
    <3>1. { e \in events : e.queue = p } = {}
      BY <2>2 DEF WindowInv
    <3> QED
      BY <2>2, <3>1, FS_EmptySet
  <2> QED
    BY <2>1, <2>2
<1>2. ASSUME NEW e \in events
      PROVE  /\ e.at >= now
             /\ e.at - (designZeroWindowStart[e.queue] + 1) * NsPerUs < COUNT_THRES * Window
  <2>1. PICK w \in Nat : w = designZeroWindowStart[e.queue] * NsPerUs
    BY EventTypes
  <2>2. PICK d \in Nat : d = designZeroWindowStart[e.queue]
    BY EventTypes
  <2>3. (d + 1) * NsPerUs = w + NsPerUs
    BY <2>1, <2>2, Parameters
  <2>4. e.count * Window <= COUNT_THRES * Window
    BY EventTypes, Parameters DEF COUNT_THRES
  <2>5. e.at >= now /\ e.at < w + NsPerUs + e.count * Window
    BY <2>1 DEF WindowInv
  <2>6. e.at \in Nat /\ e.count * Window \in Nat /\ NsPerUs \in Nat
        /\ COUNT_THRES * Window \in Nat
    BY EventTypes, Parameters DEF COUNT_THRES
  <2> QED
    BY <2>2, <2>3, <2>4, <2>5, <2>6
<1> QED
  BY <1>1, <1>2 DEF OneEndPerWindow

-----------------------------------------------------------------------------
(* The idle times                                                          *)

(* What the two invariants say of one queue.                                *)
IdleOf(p) ==
  /\ designZeroStart[p] # -1 => queue[p] = <<>>
  /\ designZeroWindowSum[p] + Pending(p) <= now - designZeroWindowStart[p] * NsPerUs
  /\ p \in Probers =>
       /\ queue[p] # <<>> => p \in served
       /\ designZeroStart[p] # -1 <=> p \in served /\ queue[p] = <<>>
       /\ p \notin isWindowOn => idleTime[p] = 0
       /\ p \in isWindowOn =>
            (designZeroWindowSum[p] + Pending(p)) - idleTime[p] \in 0 .. NsPerUs - 1
       /\ \A e \in events : e.queue = p =>
            /\ (designZeroWindowSum[p] + Pending(p)) - idleTime[p] <= CutOff(e)
            /\ p \notin emptyAtDrop =>
                 (designZeroWindowSum[p] + Pending(p)) - idleTime[p] <= 0

LEMMA IdleByQueue ==
  /\ IdleInv /\ IdleTimeIsCounted /\ ExcessInv <=> \A p \in Queues : IdleOf(p)
  /\ (IdleInv /\ IdleTimeIsCounted /\ ExcessInv)' <=> \A p \in Queues : IdleOf(p)'
<1>1. IdleTimeIsCounted <=>
        \A p \in isWindowOn \cap Probers :
          (designZeroWindowSum[p] + Pending(p)) - idleTime[p] \in 0 .. NsPerUs - 1
  BY DEF IdleTimeIsCounted, Pending, IdleInWindow
<1>2. IdleTimeIsCounted' <=>
        \A p \in isWindowOn' \cap Probers :
          (designZeroWindowSum'[p] + Pending(p)') - idleTime'[p] \in 0 .. NsPerUs - 1
  BY DEF IdleTimeIsCounted, Pending, IdleInWindow
<1>3. IdleInv /\ IdleTimeIsCounted /\ ExcessInv <=> \A p \in Queues : IdleOf(p)
  BY <1>1, QueuesFinite DEF IdleInv, ExcessInv, IdleOf
<1>4. (IdleInv /\ IdleTimeIsCounted /\ ExcessInv)' <=> \A p \in Queues : IdleOf(p)'
  BY <1>2, QueuesFinite DEF IdleInv, ExcessInv, IdleOf
<1> QED
  BY <1>3, <1>4

(* The quantities of a queue, each an integer.                              *)
LEMMA IdleTypes ==
  ASSUME TypeOK, NEW p \in Queues
  PROVE  /\ now \in Nat /\ NsPerUs \in Nat \ {0}
         /\ designZeroWindowSum[p] \in Nat
         /\ designZeroWindowStart[p] * NsPerUs \in Nat
         /\ designZeroWindowStart[p] * NsPerUs <= now
         /\ designZeroStart[p] \in Int /\ -1 <= designZeroStart[p]
         /\ designZeroStart[p] <= now
         /\ p \in Probers => idleTime[p] \in Nat
         /\ Pending(p) = IF designZeroStart[p] = -1 THEN 0
                         ELSE now - (IF designZeroStart[p] >= designZeroWindowStart[p] * NsPerUs
                                     THEN designZeroStart[p]
                                     ELSE designZeroWindowStart[p] * NsPerUs)
         /\ Pending(p) \in Nat
<1>1. /\ designZeroWindowStart[p] * NsPerUs \in Nat
      /\ designZeroWindowStart[p] * NsPerUs <= now
      /\ designZeroStart[p] \in Int /\ designZeroStart[p] <= now
      /\ IdleInWindow(p) = now - (IF designZeroStart[p] >= designZeroWindowStart[p] * NsPerUs
                                  THEN designZeroStart[p]
                                  ELSE designZeroWindowStart[p] * NsPerUs)
  BY IdleInWindowIs
<1>2. now \in Nat /\ NsPerUs \in Nat \ {0}
  BY Microsecond, Parameters
<1>3. designZeroWindowSum[p] \in Nat /\ -1 <= designZeroStart[p]
  BY <1>2 DEF TypeOK
<1>4. p \in Probers => idleTime[p] \in Nat
  BY <1>2 DEF TypeOK
<1>5. Pending(p) = IF designZeroStart[p] = -1 THEN 0
                   ELSE now - (IF designZeroStart[p] >= designZeroWindowStart[p] * NsPerUs
                               THEN designZeroStart[p]
                               ELSE designZeroWindowStart[p] * NsPerUs)
  BY <1>1 DEF Pending
<1>6. Pending(p) \in Nat
  BY <1>1, <1>2, <1>5
<1> QED
  BY <1>1, <1>2, <1>3, <1>4, <1>5, <1>6

LEMMA PendingNext ==
  ASSUME NEW p \in Queues, designZeroStart'[p] \in Int,
         designZeroWindowStart'[p] * NsPerUs \in Int
  PROVE  Pending(p)' = IF designZeroStart'[p] = -1 THEN 0
                       ELSE now' - (IF designZeroStart'[p] >= designZeroWindowStart'[p] * NsPerUs
                                    THEN designZeroStart'[p]
                                    ELSE designZeroWindowStart'[p] * NsPerUs)
<1>1. Max({designZeroStart'[p], designZeroWindowStart'[p] * NsPerUs})
        = IF designZeroStart'[p] >= designZeroWindowStart'[p] * NsPerUs
          THEN designZeroStart'[p] ELSE designZeroWindowStart'[p] * NsPerUs
  BY MaxOfTwo
<1>2. Pending(p)' = IF designZeroStart'[p] = -1 THEN 0
                    ELSE now' - Max({designZeroStart'[p], designZeroWindowStart'[p] * NsPerUs})
  BY DEF Pending, IdleInWindow
<1> QED
  BY <1>1, <1>2

(* A step that leaves a queue and its window alone.                         *)
SameIdle(p) ==
  /\ now' = now
  /\ designZeroStart'[p] = designZeroStart[p]
  /\ designZeroWindowSum'[p] = designZeroWindowSum[p]
  /\ designZeroWindowStart'[p] = designZeroWindowStart[p]
  /\ queue'[p] = queue[p]
  /\ p \in isWindowOn' <=> p \in isWindowOn
  /\ p \in emptyAtDrop' <=> p \in emptyAtDrop
  /\ \A e \in events' : e.queue = p => e \in events
  /\ p \in Probers => (p \in served' <=> p \in served) /\ idleTime'[p] = idleTime[p]

LEMMA IdleUnchanged ==
  ASSUME NEW p \in Queues, IdleOf(p), SameIdle(p)
  PROVE  IdleOf(p)'
<1>1. Pending(p)' = Pending(p)
  BY DEF Pending, IdleInWindow, SameIdle
<1>2. \A e \in events' : e.queue = p => e \in events /\ CutOff(e)' = CutOff(e)
  BY DEF SameIdle, CutOff
<1> QED
  BY <1>1, <1>2 DEF IdleOf, SameIdle

(* A window opens: what was idle before its start counts no longer.         *)
LEMMA RefusesIdle ==
  ASSUME TypeOK, WindowInv, NEW q \in Queues, Refuses(q), NEW p \in Queues, IdleOf(p)
  PROVE  IdleOf(p)'
<1>1. /\ UNCHANGED <<now, queue, designZeroStart, served, idleTime>>
      /\ StartWindowAfterDrop(q)
  BY DEF Refuses, Drops, unsentVars
<1>2. CASE q \in isWindowOn
  <2>1. SameIdle(p)
    BY <1>1, <1>2 DEF SameIdle, StartWindowAfterDrop, windowVars
  <2> QED
    BY <2>1, IdleUnchanged
<1>3. CASE q \notin isWindowOn
  <2> PICK new : new = [at |-> now + Window, queue |-> q, count |-> 1]
    OBVIOUS
  <2>1. /\ isWindowOn' = isWindowOn \cup {q}
        /\ designZeroWindowSum' = [designZeroWindowSum EXCEPT ![q] = 0]
        /\ designZeroWindowStart' = [designZeroWindowStart EXCEPT ![q] = now \div NsPerUs]
        /\ events' = events \cup {new}
        /\ new.at = now + Window /\ new.queue = q /\ new.count = 1
        /\ emptyAtDrop' = IF queue[q] = <<>> THEN emptyAtDrop \cup {q} ELSE emptyAtDrop
    BY <1>1, <1>3 DEF StartWindowAfterDrop
  <2>2. CASE p # q
    <3>1. SameIdle(p)
      BY <1>1, <2>1, <2>2 DEF SameIdle, TypeOK
    <3> QED
      BY <3>1, IdleUnchanged
  <2>3. CASE p = q
    <3>1. designZeroWindowSum'[p] = 0 /\ designZeroWindowStart'[p] = now \div NsPerUs
      BY <2>1, <2>3 DEF TypeOK
    <3>2. PICK w : w = (now \div NsPerUs) * NsPerUs
      OBVIOUS
    <3>3. w \in Nat /\ w <= now /\ now < w + NsPerUs /\ now \in Nat /\ NsPerUs \in Nat
      BY <3>2, Microsecond, Parameters
    <3>4. /\ designZeroStart'[p] = designZeroStart[p] /\ designZeroStart[p] \in Int
          /\ designZeroStart[p] <= now /\ now' = now
      BY <1>1, IdleTypes
    <3>5. Pending(p)' = IF designZeroStart[p] = -1 THEN 0
                        ELSE now - (IF designZeroStart[p] >= w THEN designZeroStart[p] ELSE w)
      BY <3>1, <3>2, <3>3, <3>4, PendingNext
    <3>6. Pending(p)' \in Nat /\ Pending(p)' <= now - w
      BY <3>3, <3>4, <3>5
    <3>7. p \in Probers => idleTime'[p] = 0
      BY <1>1, <1>3, <2>3 DEF IdleOf
    <3>8. designZeroWindowSum'[p] + Pending(p)' <= now' - designZeroWindowStart'[p] * NsPerUs
      BY <3>1, <3>2, <3>3, <3>4, <3>6
    <3>9. p \in Probers =>
            (designZeroWindowSum'[p] + Pending(p)') - idleTime'[p] \in 0 .. NsPerUs - 1
      BY <3>1, <3>3, <3>6, <3>7
    <3>10. p \in isWindowOn'
      BY <2>1, <2>3
    <3>11. \A e \in events' : e.queue = p => e = new
      BY <1>3, <2>1, <2>3 DEF WindowInv
    <3>12. CutOff(new)' = now - w
      <4>1. CutOff(new)' = (new.at - new.count * Window) - designZeroWindowStart'[p] * NsPerUs
        BY <2>1, <2>3 DEF CutOff
      <4> QED
        BY <2>1, <3>1, <3>2, <3>3, <4>1, Parameters
    <3>13. p \in Probers => (designZeroWindowSum'[p] + Pending(p)') - idleTime'[p] <= now - w
      BY <3>1, <3>3, <3>6, <3>7
    <3>14. p \in Probers /\ p \notin emptyAtDrop' =>
             (designZeroWindowSum'[p] + Pending(p)') - idleTime'[p] <= 0
      <4> SUFFICES ASSUME p \in Probers, p \notin emptyAtDrop'
                   PROVE  (designZeroWindowSum'[p] + Pending(p)') - idleTime'[p] <= 0
        OBVIOUS
      <4>1. queue[p] # <<>>
        BY <2>1, <2>3
      <4>2. designZeroStart[p] = -1
        BY <4>1 DEF IdleOf
      <4> QED
        BY <3>1, <3>5, <3>7, <4>2
    <3> QED
      BY <1>1, <3>8, <3>9, <3>10, <3>11, <3>12, <3>13, <3>14 DEF IdleOf
  <2> QED
    BY <2>2, <2>3
<1> QED
  BY <1>2, <1>3

(* An idle time that ends moves from what is pending to the sum.            *)
LEMMA EnqueueIdle ==
  ASSUME TypeOK, NEW q \in Queues, NEW size \in SizesOf(q), Enqueue(q, size),
         NEW p \in Queues, IdleOf(p)
  PROVE  IdleOf(p)'
<1>1. /\ UNCHANGED <<now, isWindowOn, designZeroWindowStart, events, emptyAtDrop,
                     idleTime>>
      /\ queue' = [queue EXCEPT ![q] = Append(queue[q], size)]
      /\ served' = served \cup ({q} \cap Probers)
      /\ IF designZeroStart[q] # -1
         THEN /\ designZeroWindowSum' =
                   [designZeroWindowSum EXCEPT ![q] = designZeroWindowSum[q] + IdleInWindow(q)]
              /\ designZeroStart' = [designZeroStart EXCEPT ![q] = -1]
         ELSE UNCHANGED <<designZeroWindowSum, designZeroStart>>
  BY DEF Enqueue, unsentVars
<1>2. CASE p # q
  <2>1. SameIdle(p)
    BY <1>1, <1>2 DEF SameIdle, TypeOK
  <2> QED
    BY <2>1, IdleUnchanged
<1>3. CASE p = q
  <2>1. queue'[p] # <<>>
    <3>1. queue[p] \in Seq(DataSizes \cup ControlSizes) /\ size \in DataSizes \cup ControlSizes
      BY <1>3, QueueTypes
    <3>2. Append(queue[p], size) # <<>>
      BY <3>1, AppendProperties
    <3> QED
      BY <1>1, <1>3, <3>2 DEF TypeOK
  <2>2. designZeroStart'[p] = -1
    BY <1>1, <1>3 DEF TypeOK
  <2>3. designZeroWindowSum'[p] = designZeroWindowSum[p] + Pending(p)
    <3>1. CASE designZeroStart[q] # -1
      BY <1>1, <1>3, <3>1 DEF TypeOK, Pending
    <3>2. CASE designZeroStart[q] = -1
      BY <1>1, <1>3, <3>2, IdleTypes DEF Pending
    <3> QED
      BY <3>1, <3>2
  <2>4. Pending(p)' = 0
    BY <2>2 DEF Pending
  <2>5. designZeroWindowSum'[p] + Pending(p)' = designZeroWindowSum[p] + Pending(p)
    BY <2>3, <2>4, IdleTypes
  <2>6. p \in Probers => p \in served'
    BY <1>1, <1>3
  <2>7. designZeroWindowSum'[p] + Pending(p)' <= now' - designZeroWindowStart'[p] * NsPerUs
    BY <1>1, <2>5 DEF IdleOf
  <2>8. p \in Probers =>
          /\ p \notin isWindowOn' => idleTime'[p] = 0
          /\ p \in isWindowOn' =>
               (designZeroWindowSum'[p] + Pending(p)') - idleTime'[p] \in 0 .. NsPerUs - 1
          /\ \A e \in events' : e.queue = p =>
               /\ (designZeroWindowSum'[p] + Pending(p)') - idleTime'[p] <= CutOff(e)'
               /\ p \notin emptyAtDrop' =>
                    (designZeroWindowSum'[p] + Pending(p)') - idleTime'[p] <= 0
    BY <1>1, <2>5 DEF IdleOf, CutOff
  <2> QED
    BY <2>1, <2>2, <2>6, <2>7, <2>8 DEF IdleOf
<1> QED
  BY <1>2, <1>3

(* An idle time begins when the last packet leaves.                         *)
LEMMA SendsIdle ==
  ASSUME TypeOK, NEW q \in Queues, Sends(q), NEW p \in Queues, IdleOf(p)
  PROVE  IdleOf(p)'
<1>1. /\ UNCHANGED <<now, windowVars, served, idleTime>>
      /\ queue' = [queue EXCEPT ![q] = Tail(queue[q])] /\ queue[q] # <<>>
      /\ designZeroStart' =
           IF designZeroStart[q] = -1 /\ Len(queue[q]) = 1
           THEN [designZeroStart EXCEPT ![q] = now] ELSE designZeroStart
  BY DEF Sends
<1>2. CASE p # q
  <2>1. SameIdle(p)
    BY <1>1, <1>2 DEF SameIdle, TypeOK, windowVars
  <2> QED
    BY <2>1, IdleUnchanged
<1>3. CASE p = q
  <2>1. designZeroStart[p] = -1 /\ Pending(p) = 0 /\ (p \in Probers => p \in served)
    BY <1>1, <1>3 DEF IdleOf, Pending
  <2>2. queue'[p] = <<>> <=> Len(queue[p]) = 1
    <3>1. queue[p] \in Seq(DataSizes \cup ControlSizes) /\ Len(queue[p]) \in Nat
      BY QueueTypes
    <3>2. /\ Tail(queue[p]) \in Seq(DataSizes \cup ControlSizes)
          /\ Len(Tail(queue[p])) = Len(queue[p]) - 1
      BY <1>1, <1>3, <3>1, HeadTailProperties
    <3>3. Tail(queue[p]) = <<>> <=> Len(Tail(queue[p])) = 0
      BY <3>2, EmptySeq
    <3>4. queue'[p] = Tail(queue[p])
      BY <1>1, <1>3 DEF TypeOK
    <3> QED
      BY <3>1, <3>2, <3>3, <3>4
  <2>3. /\ designZeroStart'[p] = IF Len(queue[p]) = 1 THEN now ELSE -1
        /\ designZeroWindowSum'[p] = designZeroWindowSum[p]
        /\ designZeroWindowStart'[p] = designZeroWindowStart[p]
    BY <1>1, <1>3, <2>1 DEF TypeOK, windowVars
  <2>4. Pending(p)' = 0
    <3>1. designZeroStart'[p] \in Int /\ designZeroWindowStart'[p] * NsPerUs \in Int
      BY <2>3, IdleTypes
    <3> QED
      BY <1>1, <2>3, <3>1, IdleTypes, PendingNext
  <2>5. designZeroStart'[p] # -1 <=> queue'[p] = <<>>
    BY <2>2, <2>3, IdleTypes
  <2>6. events' = events /\ \A e \in events : CutOff(e)' = CutOff(e)
    BY <1>1 DEF windowVars, CutOff
  <2> QED
    BY <1>1, <2>1, <2>3, <2>4, <2>5, <2>6 DEF IdleOf, windowVars
<1> QED
  BY <1>2, <1>3

LEMMA ClosesIdle ==
  ASSUME TypeOK, WindowInv, NEW e \in events, Closes(e), NEW p \in Queues, IdleOf(p),
         UNCHANGED <<now, queue, designZeroStart, designZeroWindowSum,
                     designZeroWindowStart, served>>
  PROVE  IdleOf(p)'
<1>1. /\ isWindowOn' = isWindowOn \ {e.queue} /\ events' = events \ {e}
      /\ emptyAtDrop' = emptyAtDrop \ {e.queue}
      /\ p \in Probers => idleTime'[p] = IF p = e.queue THEN 0 ELSE idleTime[p]
  BY DEF Closes
<1>2. CASE p # e.queue
  <2>1. SameIdle(p)
    BY <1>1, <1>2 DEF SameIdle
  <2> QED
    BY <2>1, IdleUnchanged
<1>3. CASE p = e.queue
  <2>1. Pending(p)' = Pending(p)
    BY DEF Pending, IdleInWindow
  <2>2. \A f \in events' : f.queue # p
    BY <1>1, <1>3 DEF WindowInv
  <2> QED
    BY <1>1, <1>3, <2>1, <2>2 DEF IdleOf
<1> QED
  BY <1>2, <1>3

(* The window goes on, and so does its start.                               *)
LEMMA MonitorAgainIdle ==
  ASSUME TypeOK, WindowInv, NEW e \in events, e.at = now, MonitorAgain(e),
         NEW p \in Queues, IdleOf(p)
  PROVE  IdleOf(p)'
<1>1. PICK new : new = [at |-> now + Window, queue |-> e.queue, count |-> e.count + 1]
  OBVIOUS
<1>2. /\ events' = (events \ {e}) \cup {new}
      /\ new.at = now + Window /\ new.queue = e.queue /\ new.count = e.count + 1
      /\ UNCHANGED <<now, queue, designZeroStart, designZeroWindowSum,
                     designZeroWindowStart, served, isWindowOn, idleTime, emptyAtDrop>>
  BY <1>1 DEF MonitorAgain, unwindowedVars
<1>3. CutOff(new)' = CutOff(e)
  <2>1. /\ CutOff(new)' = (new.at - new.count * Window)
                             - designZeroWindowStart[e.queue] * NsPerUs
        /\ CutOff(e) = (e.at - e.count * Window) - designZeroWindowStart[e.queue] * NsPerUs
    BY <1>2 DEF CutOff
  <2>2. e.count \in 1 .. COUNT_THRES /\ Window \in Nat /\ now \in Nat
    BY EventTypes, Microsecond, Parameters
  <2>3. new.at - new.count * Window = e.at - e.count * Window
    BY <1>2, <2>2 DEF COUNT_THRES
  <2> QED
    BY <2>1, <2>3
<1>4. \A f \in events : CutOff(f)' = CutOff(f)
  BY <1>2 DEF CutOff
<1>5. Pending(p)' = Pending(p)
  BY <1>2 DEF Pending, IdleInWindow
<1>6. p \in Probers => \A f \in events' : f.queue = p =>
        /\ (designZeroWindowSum'[p] + Pending(p)') - idleTime'[p] <= CutOff(f)'
        /\ p \notin emptyAtDrop' =>
             (designZeroWindowSum'[p] + Pending(p)') - idleTime'[p] <= 0
  BY <1>2, <1>3, <1>4, <1>5 DEF IdleOf
<1> QED
  BY <1>2, <1>5, <1>6 DEF IdleOf

(* With time, the idle time and what is pending grow together.              *)
LEMMA TickIdle ==
  ASSUME TypeOK, WindowInv, Tick, NEW p \in Queues, IdleOf(p)
  PROVE  IdleOf(p)'
<1>1. /\ now' = now + 1
      /\ UNCHANGED <<queue, windowVars, designZeroStart, served>>
      /\ p \in Probers =>
           idleTime'[p] = IF p \in isWindowOn \cap served /\ queue[p] = <<>>
                          THEN idleTime[p] + 1 ELSE idleTime[p]
  BY DEF Tick
<1>2. /\ UNCHANGED <<isWindowOn, designZeroWindowSum, designZeroWindowStart>>
  BY <1>1 DEF windowVars
<1>3. Pending(p)' = IF designZeroStart[p] = -1 THEN Pending(p) ELSE Pending(p) + 1
  <2>1. designZeroStart'[p] \in Int /\ designZeroWindowStart'[p] * NsPerUs \in Int
    BY <1>1, <1>2, IdleTypes
  <2>2. PICK w : w = designZeroWindowStart[p] * NsPerUs
    OBVIOUS
  <2>3. PICK f : f = designZeroStart[p]
    OBVIOUS
  <2>4. /\ Pending(p) = IF f = -1 THEN 0 ELSE now - (IF f >= w THEN f ELSE w)
        /\ now \in Int /\ f \in Int /\ w \in Int
    BY <2>2, <2>3, IdleTypes
  <2>5. Pending(p)' = IF f = -1 THEN 0 ELSE now + 1 - (IF f >= w THEN f ELSE w)
    <3>1. Pending(p)' = IF designZeroStart'[p] = -1 THEN 0
                        ELSE now' - (IF designZeroStart'[p] >= designZeroWindowStart'[p] * NsPerUs
                                     THEN designZeroStart'[p]
                                     ELSE designZeroWindowStart'[p] * NsPerUs)
      BY <2>1, PendingNext
    <3>2. /\ designZeroStart'[p] = f /\ designZeroWindowStart'[p] * NsPerUs = w
          /\ now' = now + 1
      BY <1>1, <1>2, <2>2, <2>3
    <3> QED
      BY <2>4, <3>1, <3>2
  <2> QED
    BY <2>3, <2>4, <2>5
<1>4. designZeroWindowSum'[p] + Pending(p)' <= now' - designZeroWindowStart'[p] * NsPerUs
  <2>1. designZeroWindowSum[p] + Pending(p) <= now - designZeroWindowStart[p] * NsPerUs
    BY DEF IdleOf
  <2> QED
    BY <1>1, <1>2, <1>3, <2>1, IdleTypes
<1>5. ASSUME p \in Probers, p \in isWindowOn
      PROVE  (designZeroWindowSum'[p] + Pending(p)') - idleTime'[p]
               = (designZeroWindowSum[p] + Pending(p)) - idleTime[p]
  <2>1. designZeroStart[p] # -1 <=> p \in served /\ queue[p] = <<>>
    BY <1>5 DEF IdleOf
  <2>2. idleTime'[p] = IF designZeroStart[p] = -1 THEN idleTime[p] ELSE idleTime[p] + 1
    BY <1>1, <1>5, <2>1
  <2>3. PICK sum, pending, idle \in Nat :
          sum = designZeroWindowSum[p] /\ pending = Pending(p) /\ idle = idleTime[p]
    BY <1>5, IdleTypes
  <2>4. CASE designZeroStart[p] = -1
    BY <1>2, <1>3, <2>1, <2>2, <2>4
  <2>5. CASE designZeroStart[p] # -1
    <3>1. Pending(p)' = pending + 1 /\ idleTime'[p] = idle + 1
          /\ designZeroWindowSum'[p] = sum
      BY <1>2, <1>3, <2>2, <2>3, <2>5
    <3>2. (sum + (pending + 1)) - (idle + 1) = (sum + pending) - idle
      BY <2>3
    <3> QED
      BY <2>3, <3>1, <3>2
  <2> QED
    BY <2>4, <2>5
<1>6. /\ events' = events /\ \A e \in events : CutOff(e)' = CutOff(e)
      /\ emptyAtDrop' = emptyAtDrop
      /\ \A e \in events : e.queue = p => p \in isWindowOn
  BY <1>1 DEF windowVars, CutOff, WindowInv
<1>7. p \in Probers =>
        /\ p \in isWindowOn =>
             (designZeroWindowSum'[p] + Pending(p)') - idleTime'[p] \in 0 .. NsPerUs - 1
        /\ \A e \in events' : e.queue = p =>
             /\ (designZeroWindowSum'[p] + Pending(p)') - idleTime'[p] <= CutOff(e)'
             /\ p \notin emptyAtDrop' =>
                  (designZeroWindowSum'[p] + Pending(p)') - idleTime'[p] <= 0
  BY <1>5, <1>6 DEF IdleOf
<1>8. /\ designZeroStart'[p] # -1 => queue'[p] = <<>>
      /\ p \in Probers =>
           /\ queue'[p] # <<>> => p \in served'
           /\ designZeroStart'[p] # -1 <=> p \in served' /\ queue'[p] = <<>>
           /\ p \notin isWindowOn' => idleTime'[p] = 0
  BY <1>1, <1>2 DEF IdleOf
<1> QED
  BY <1>2, <1>4, <1>7, <1>8 DEF IdleOf

LEMMA IdleStep ==
  ASSUME TypeOK, BufferAccounting, WindowInv,
         IdleInv, IdleTimeIsCounted, ExcessInv, [Next]_vars
  PROVE  IdleInv' /\ IdleTimeIsCounted' /\ ExcessInv'
<1> SUFFICES ASSUME NEW p \in Queues PROVE IdleOf(p)'
  BY IdleByQueue
<1>1. IdleOf(p)
  BY IdleByQueue
<1>2. CASE DoEnqueue
  BY <1>1, <1>2, EnqueueCases, RefusesIdle, EnqueueIdle
<1>3. ASSUME NEW port \in Ports, DoDequeue(port) PROVE IdleOf(p)'
  BY <1>1, <1>3, DequeueSends, SendsIdle
<1>4. ASSUME NEW port \in Ports, SmoothMonitoring(port) PROVE IdleOf(p)'
  <2>1. SameIdle(p)
    BY <1>4 DEF SmoothMonitoring, SameIdle, windowVars
  <2> QED
    BY <1>1, <2>1, IdleUnchanged
<1>5. CASE EndWindowAfterDrop
  <2>1. PICK e \in events :
          /\ e.at = now
          /\ GrowThreshold(e) \/ MonitorAgain(e) \/ ShrinkThreshold(e) \/ KeepThreshold(e)
    BY <1>5 DEF EndWindowAfterDrop
  <2>2. UNCHANGED <<now, queue, designZeroStart, designZeroWindowSum,
                    designZeroWindowStart, served>>
    BY <2>1 DEF GrowThreshold, MonitorAgain, ShrinkThreshold, KeepThreshold, unwindowedVars
  <2>3. CASE MonitorAgain(e)
    BY <1>1, <2>1, <2>3, MonitorAgainIdle
  <2>4. CASE GrowThreshold(e) \/ ShrinkThreshold(e) \/ KeepThreshold(e)
    <3>1. Closes(e)
      BY <2>4 DEF GrowThreshold, ShrinkThreshold, KeepThreshold
    <3> QED
      BY <1>1, <2>2, <3>1, ClosesIdle
  <2> QED
    BY <2>1, <2>3, <2>4
<1>6. CASE Tick
  BY <1>1, <1>6, TickIdle
<1>7. CASE UNCHANGED vars
  <2>1. SameIdle(p)
    BY <1>7 DEF vars, SameIdle
  <2> QED
    BY <1>1, <2>1, IdleUnchanged
<1> QED
  BY <1>2, <1>3, <1>4, <1>5, <1>6, <1>7 DEF Next

-----------------------------------------------------------------------------
(* The thresholds                                                          *)

LEMMA GrowthAskedType ==
  ASSUME NEW cmsa \in Nat, NEW idle \in Nat
  PROVE  /\ GrowthAsked(cmsa, idle) \in Int
         /\ idle < Window => GrowthAsked(cmsa, idle) >= 0
<1>1. PICK r \in Int : r = 10 * (Window - idle)
  BY Parameters
<1>2. PICK f \in Int : f = IncreaseRatio * Window - r /\ f >= 0
  <2>1. IncreaseRatio \in Nat /\ IncreaseRatio >= 10 /\ Window \in Nat
    BY GenQueueDiscAssumption, Parameters
  <2>2. IncreaseRatio * Window \in Nat /\ IncreaseRatio * Window >= 10 * Window
    <3>1. \A a, b, c \in Nat : a >= b => a * c \in Nat /\ a * c >= b * c
      OBVIOUS
    <3> QED
      BY <2>1, <3>1
  <2>3. r <= 10 * Window
    BY <1>1, <2>1
  <2> QED
    BY <1>1, <2>1, <2>2, <2>3
<1>3. PICK n \in Nat : n = cmsa * f
  <2>1. \A a, b \in Nat : a * b \in Nat
    OBVIOUS
  <2> QED
    BY <1>2, <2>1
<1>4. GrowthAsked(cmsa, idle)
        = CASE r > 0 -> n \div r [] r = 0 -> 0 [] OTHER -> -(n \div (-r))
  BY <1>1, <1>2, <1>3 DEF GrowthAsked
<1>5. CASE r > 0
  <2>1. GrowthAsked(cmsa, idle) = n \div r
    BY <1>4, <1>5
  <2> QED
    BY <1>5, <2>1, QuotientSpans
<1>6. CASE r = 0
  BY <1>4, <1>6
<1>7. CASE r < 0
  <2>1. GrowthAsked(cmsa, idle) = -(n \div (-r))
    BY <1>4, <1>7
  <2>2. n \div (-r) \in Nat
    BY <1>7, QuotientSpans
  <2>3. ~ idle < Window
    BY <1>1, <1>7, Parameters
  <2> QED
    BY <2>1, <2>2, <2>3
<1> QED
  BY <1>5, <1>6, <1>7

LEMMA HalfwayDownType ==
  ASSUME NEW cmsa \in Nat, NEW ssthresh \in Nat
  PROVE  HalfwayDown(cmsa, ssthresh) \in 0 .. WordMod - 1
<1>1. U32(cmsa + ssthresh) \in Int
  BY U32Exact, Parameters
<1>2. PICK change \in Int : change = (2 * cmsa - U32(cmsa + ssthresh)) \div 2
  <2>1. \A x \in Int : x \div 2 \in Int
    OBVIOUS
  <2> QED
    BY <1>1, <2>1
<1>3. U32(change - 1) \in Nat
  BY U32Exact, Parameters
<1>4. PICK k \in Nat : k = (U32(change - 1) + MTU) \div MTU
  BY <1>3, QuotientSpans, Parameters
<1>5. k * MTU \in Int
  BY <1>4, Parameters
<1>6. HalfwayDown(cmsa, ssthresh) = U32(k * MTU)
  BY <1>2, <1>4 DEF HalfwayDown
<1> QED
  BY <1>5, <1>6, U32Exact

(* The requests of a step down, and what a fitting one takes.               *)
LEMMA SteppedDown ==
  ASSUME TypeOK, NEW p \in Queues
  PROVE  LET new == ThresholdsSteppedDown(p, COUNT_THRES)
         IN  /\ new \in [Queues -> 0 .. WordMod - 1]
             /\ \A x \in Queues \ {p} : new[x] = currMaxSizeAllowed[x]
             /\ StepDownFits(p) /\ ThresholdsFitBuffer =>
                  /\ Allocated(new) <= TotalBuffer
                  /\ new[p] <= currMaxSizeAllowed[p]
                  /\ DecreaseRatio = 1 /\ new[p] # currMaxSizeAllowed[p] =>
                       new[p] > SAFE_THRES * MTU
<1> DEFINE cmsa == currMaxSizeAllowed
           new == ThresholdsSteppedDown(p, COUNT_THRES)
<1>1. /\ cmsa \in [Queues -> 0 .. WordMod - 1]
      /\ cmsa[p] \in Nat /\ cmsa[p] < WordMod
      /\ ssthreshBuffer[p[1]] \in Nat
      /\ WordMod \in Nat /\ TotalBuffer \in Nat
  <2>1. p[1] \in Ports
    BY QueuesFinite
  <2>2. WordMod \in Nat /\ TotalBuffer \in Nat
    BY Parameters
  <2>3. /\ cmsa \in [Queues -> 0 .. WordMod - 1]
        /\ ssthreshBuffer \in [Ports -> 0 .. WordMod - 1]
    BY DEF TypeOK
  <2> QED
    BY <2>1, <2>2, <2>3
<1>2. PICK change : change = HalfwayDown(cmsa[p], ssthreshBuffer[p[1]])
  OBVIOUS
<1>3. change \in Nat /\ change < WordMod
  <2>1. HalfwayDown(cmsa[p], ssthreshBuffer[p[1]]) \in 0 .. WordMod - 1
    BY <1>1, HalfwayDownType
  <2> QED
    BY <1>1, <1>2, <2>1
<1>4. PICK mtu \in Nat \ {0} : mtu = MTU
  BY Parameters
<1>5. PICK step \in Nat : /\ step = DecreaseRatio * MTU * COUNT_THRES
                           /\ step <= 4 * mtu /\ (DecreaseRatio = 1 => step = 2 * mtu)
  <2>1. DecreaseRatio = 1 \/ DecreaseRatio = 2
    BY GenQueueDiscAssumption
  <2> QED
    BY <1>4, <2>1 DEF COUNT_THRES
<1>6. ThresholdsFitBuffer => cmsa[p] <= TotalBuffer
  <2>1. cmsa \in [Queues -> Nat] /\ IsFiniteSet(Queues)
    BY <1>1, QueuesFinite
  <2>2. cmsa[p] <= SumFunction(cmsa) /\ SumFunction(cmsa) \in Nat
    BY <2>1, SumOfNats
  <2> QED
    BY <1>1, <2>2 DEF ThresholdsFitBuffer, Allocated
<1>7. CASE new = cmsa
  BY <1>1, <1>7 DEF ThresholdsFitBuffer
<1>8. CASE /\ cmsa[p] > ssthreshBuffer[p[1]] /\ U32(cmsa[p] - change) > SAFE_THRES * MTU
           /\ new = AllocateBufferSpaceSimple(cmsa, p, Int32(-change))
  <2>1. Int32(-change) \in Int
    BY <1>3, Int32Exact
  <2>2. /\ new \in [Queues -> 0 .. WordMod - 1]
        /\ \A x \in Queues \ {p} : new[x] = cmsa[x]
    BY <1>1, <1>8, <2>1, AllocationType
  <2>3. ASSUME StepDownFits(p), ThresholdsFitBuffer
        PROVE  /\ Allocated(new) <= TotalBuffer
               /\ new[p] = cmsa[p] - change /\ new[p] > SAFE_THRES * MTU
    <3>1. change <= cmsa[p] /\ cmsa[p] <= TotalBuffer
      BY <1>2, <1>6, <1>8, <2>3 DEF StepDownFits
    <3>2. -change \in Int /\ -change < WordMod \div 2 /\ -(WordMod \div 2) <= -change
      BY <1>1, <1>3, <3>1, Parameters
    <3>3. Int32(-change) = -change
      BY <3>2, Int32Exact
    <3>4. -cmsa[p] <= -change /\ -change <= 0
      BY <1>1, <1>3, <3>1
    <3>5. Allocated(cmsa) <= TotalBuffer
      BY <2>3 DEF ThresholdsFitBuffer
    <3>6. Allocated(new) <= TotalBuffer /\ new[p] = cmsa[p] + (-change)
      BY <1>1, <1>8, <3>2, <3>3, <3>4, <3>5, AllocationFits
    <3>7. U32(cmsa[p] - change) = cmsa[p] - change
      <4>1. cmsa[p] - change \in 0 .. WordMod - 1
        BY <1>1, <1>3, <3>1
      <4> QED
        BY <4>1, U32Exact
    <3>8. cmsa[p] + (-change) = cmsa[p] - change
      BY <1>1, <1>3
    <3> QED
      BY <1>8, <3>6, <3>7, <3>8
  <2> QED
    BY <1>1, <1>3, <2>2, <2>3
<1>9. CASE /\ ~ (cmsa[p] > ssthreshBuffer[p[1]])
           /\ cmsa[p] - MTU * COUNT_THRES > SAFE_THRES * MTU
           /\ new = AllocateBufferSpaceSimple(cmsa, p, -(DecreaseRatio * MTU * COUNT_THRES))
  <2>1. -step \in Int /\ new = AllocateBufferSpaceSimple(cmsa, p, -step)
    BY <1>5, <1>9
  <2>2. /\ new \in [Queues -> 0 .. WordMod - 1]
        /\ \A x \in Queues \ {p} : new[x] = cmsa[x]
    BY <1>1, <2>1, AllocationType
  <2>3. cmsa[p] - 2 * mtu > 2 * mtu
    BY <1>4, <1>9 DEF COUNT_THRES, SAFE_THRES
  <2>4. ASSUME ThresholdsFitBuffer
        PROVE  Allocated(new) <= TotalBuffer /\ new[p] = cmsa[p] - step
    <3>1. Allocated(cmsa) <= TotalBuffer
      BY <2>4 DEF ThresholdsFitBuffer
    <3>2. -step \in Int /\ -cmsa[p] <= -step /\ -step <= 0
      BY <1>1, <1>5, <2>3
    <3>3. -step < WordMod \div 2
      BY <1>5, Parameters
    <3>4. Allocated(new) <= TotalBuffer /\ new[p] = cmsa[p] + (-step)
      BY <1>1, <2>1, <3>1, <3>2, <3>3, AllocationFits
    <3> QED
      BY <1>1, <1>5, <3>4
  <2>5. DecreaseRatio = 1 => cmsa[p] - step > SAFE_THRES * MTU
    BY <1>1, <1>4, <1>5, <2>3 DEF SAFE_THRES
  <2> QED
    BY <1>1, <1>5, <2>2, <2>4, <2>5
<1>10. \/ new = cmsa
       \/ /\ cmsa[p] > ssthreshBuffer[p[1]] /\ U32(cmsa[p] - change) > SAFE_THRES * MTU
          /\ new = AllocateBufferSpaceSimple(cmsa, p, Int32(-change))
       \/ /\ ~ (cmsa[p] > ssthreshBuffer[p[1]])
          /\ cmsa[p] - MTU * COUNT_THRES > SAFE_THRES * MTU
          /\ new = AllocateBufferSpaceSimple(cmsa, p, -(DecreaseRatio * MTU * COUNT_THRES))
  BY <1>2 DEF ThresholdsSteppedDown
<1> QED
  BY <1>7, <1>8, <1>9, <1>10

(* A first allocation only adds, and is the only one that an admission makes.*)
LEMMA FirstAllocation ==
  ASSUME TypeOK, NEW p \in Queues, MyBMAllocates(p)
  PROVE  /\ \A x \in Queues \ {p} : currMaxSizeAllowed'[x] = currMaxSizeAllowed[x]
         /\ currMaxSizeAllowed'[p] # currMaxSizeAllowed[p] =>
              p \in proberStarted' \ proberStarted
         /\ ThresholdsFitBuffer =>
              ThresholdsFitBuffer' /\ currMaxSizeAllowed'[p] >= currMaxSizeAllowed[p]
<1>1. /\ currMaxSizeAllowed' = ThresholdsFor(p)
      /\ proberStarted' = proberStarted \cup ({p} \cap Probers)
  BY DEF MyBMAllocates
<1>2. /\ currMaxSizeAllowed \in [Queues -> 0 .. WordMod - 1]
      /\ currMaxSizeAllowed[p] \in Nat
  <2>1. currMaxSizeAllowed \in [Queues -> 0 .. WordMod - 1]
    BY DEF TypeOK
  <2> QED
    BY <2>1, Parameters
<1>3. CASE p \in Probers /\ p \notin proberStarted
  <2>1. currMaxSizeAllowed'
          = AllocateBufferSpaceSimple(currMaxSizeAllowed, p, startProbeBuffer)
    BY <1>1, <1>3 DEF ThresholdsFor
  <2>2. /\ startProbeBuffer \in Int /\ 0 <= startProbeBuffer
        /\ startProbeBuffer < WordMod \div 2
    BY GenQueueDiscAssumption, Parameters
  <2>3. \A x \in Queues \ {p} : currMaxSizeAllowed'[x] = currMaxSizeAllowed[x]
    BY <1>2, <2>1, <2>2, AllocationType
  <2>4. ASSUME ThresholdsFitBuffer
        PROVE  ThresholdsFitBuffer' /\ currMaxSizeAllowed'[p] >= currMaxSizeAllowed[p]
    <3>1. Allocated(currMaxSizeAllowed) <= TotalBuffer /\ -currMaxSizeAllowed[p] <= startProbeBuffer
      BY <1>2, <2>2, <2>4 DEF ThresholdsFitBuffer
    <3>2. Allocated(currMaxSizeAllowed') <= TotalBuffer
          /\ currMaxSizeAllowed'[p] >= currMaxSizeAllowed[p]
      BY <1>2, <2>1, <2>2, <3>1, AllocationFits
    <3> QED
      BY <3>2 DEF ThresholdsFitBuffer
  <2>5. p \in proberStarted' \ proberStarted
    BY <1>1, <1>3
  <2> QED
    BY <2>3, <2>4, <2>5
<1>4. CASE ~ (p \in Probers /\ p \notin proberStarted)
  <2>1. currMaxSizeAllowed' = currMaxSizeAllowed
    BY <1>1, <1>4 DEF ThresholdsFor
  <2> QED
    BY <1>2, <2>1 DEF ThresholdsFitBuffer
<1> QED
  BY <1>3, <1>4

LEMMA Grows ==
  ASSUME TypeOK, NEW e \in events, GrowThreshold(e)
  PROVE  /\ currMaxSizeAllowed' \in [Queues -> 0 .. WordMod - 1]
         /\ \A x \in Queues \ {e.queue} : currMaxSizeAllowed'[x] = currMaxSizeAllowed[x]
         /\ inRange' =>
              /\ inRange
              /\ ThresholdsFitBuffer =>
                   /\ ThresholdsFitBuffer'
                   /\ currMaxSizeAllowed'[e.queue] >= currMaxSizeAllowed[e.queue]
<1>1. PICK p \in Queues : p = e.queue
  BY EventTypes
<1>2. PICK asked :
        asked = GrowthAsked(currMaxSizeAllowed[p], designZeroWindowSum[p])
  OBVIOUS
<1>3. /\ currMaxSizeAllowed' = AllocateBufferSpaceSimple(currMaxSizeAllowed, p, Int32(asked))
      /\ inRange' = (inRange /\ designZeroWindowSum[p] < Window /\ asked = Int32(asked))
  BY <1>1, <1>2 DEF GrowThreshold, SetsThresholds
<1>4. /\ currMaxSizeAllowed \in [Queues -> 0 .. WordMod - 1]
      /\ currMaxSizeAllowed[p] \in Nat /\ designZeroWindowSum[p] \in Nat
  <2>1. currMaxSizeAllowed \in [Queues -> 0 .. WordMod - 1]
    BY DEF TypeOK
  <2> QED
    BY <2>1, IdleTypes, Parameters
<1>5. asked \in Int /\ (designZeroWindowSum[p] < Window => asked >= 0)
  BY <1>2, <1>4, GrowthAskedType
<1>6. Int32(asked) \in Int /\ Int32(asked) < WordMod \div 2
  BY <1>5, Int32Exact
<1>7. /\ currMaxSizeAllowed' \in [Queues -> 0 .. WordMod - 1]
      /\ \A x \in Queues \ {p} : currMaxSizeAllowed'[x] = currMaxSizeAllowed[x]
  BY <1>3, <1>4, <1>6, AllocationType
<1>8. ASSUME inRange', ThresholdsFitBuffer
      PROVE  ThresholdsFitBuffer' /\ currMaxSizeAllowed'[p] >= currMaxSizeAllowed[p]
  <2>1. designZeroWindowSum[p] < Window /\ asked = Int32(asked)
    BY <1>3, <1>8
  <2>2. -currMaxSizeAllowed[p] <= Int32(asked) /\ 0 <= Int32(asked)
    BY <1>4, <1>5, <2>1
  <2>3. Allocated(currMaxSizeAllowed) <= TotalBuffer
    BY <1>8 DEF ThresholdsFitBuffer
  <2>4. /\ Allocated(currMaxSizeAllowed') <= TotalBuffer
        /\ currMaxSizeAllowed'[p] >= currMaxSizeAllowed[p]
    BY <1>3, <1>4, <1>6, <2>2, <2>3, AllocationFits
  <2> QED
    BY <2>4 DEF ThresholdsFitBuffer
<1> QED
  BY <1>1, <1>3, <1>7, <1>8

LEMMA Shrinks ==
  ASSUME TypeOK, NEW e \in events, ShrinkThreshold(e)
  PROVE  /\ currMaxSizeAllowed' \in [Queues -> 0 .. WordMod - 1]
         /\ e.count = COUNT_THRES
         /\ \A x \in Queues \ {e.queue} : currMaxSizeAllowed'[x] = currMaxSizeAllowed[x]
         /\ inRange' =>
              /\ inRange
              /\ ThresholdsFitBuffer =>
                   /\ ThresholdsFitBuffer'
                   /\ currMaxSizeAllowed'[e.queue] <= currMaxSizeAllowed[e.queue]
                   /\ /\ DecreaseRatio = 1
                      /\ currMaxSizeAllowed'[e.queue] # currMaxSizeAllowed[e.queue]
                      => currMaxSizeAllowed'[e.queue] > SAFE_THRES * MTU
<1>1. PICK p \in Queues : p = e.queue
  BY EventTypes
<1>2. e.count = COUNT_THRES
  BY EventTypes DEF ShrinkThreshold, COUNT_THRES
<1>3. /\ currMaxSizeAllowed' = ThresholdsSteppedDown(p, COUNT_THRES)
      /\ inRange' = (inRange /\ StepDownFits(p))
  BY <1>1, <1>2 DEF ShrinkThreshold, SetsThresholds
<1> QED
  BY <1>1, <1>2, <1>3, SteppedDown DEF ThresholdsFitBuffer

LEMMA ThresholdStep ==
  ASSUME TypeOK, BufferAccounting, InRangeThresholdsFit, [Next]_vars
  PROVE  InRangeThresholdsFit'
<1>1. ASSUME UNCHANGED <<currMaxSizeAllowed, inRange>> PROVE InRangeThresholdsFit'
  BY <1>1 DEF InRangeThresholdsFit, ThresholdsFitBuffer
<1>2. CASE DoEnqueue
  <2>1. PICK p \in Queues : Refuses(p) \/ \E size \in SizesOf(p) : Enqueue(p, size)
    BY <1>2, EnqueueCases
  <2>2. MyBMAllocates(p) /\ inRange' = inRange
    BY <2>1 DEF Refuses, Drops, Enqueue, unsentVars
  <2> QED
    BY <2>2, FirstAllocation DEF InRangeThresholdsFit
<1>3. ASSUME NEW port \in Ports, DoDequeue(port) \/ SmoothMonitoring(port)
      PROVE  InRangeThresholdsFit'
  BY <1>1, <1>3 DEF DoDequeue, SmoothMonitoring, thresholdVars
<1>4. CASE EndWindowAfterDrop
  <2>1. PICK e \in events :
          GrowThreshold(e) \/ MonitorAgain(e) \/ ShrinkThreshold(e) \/ KeepThreshold(e)
    BY <1>4 DEF EndWindowAfterDrop
  <2>2. CASE GrowThreshold(e)
    BY <2>2, Grows DEF InRangeThresholdsFit
  <2>3. CASE ShrinkThreshold(e)
    BY <2>3, Shrinks DEF InRangeThresholdsFit
  <2>4. CASE MonitorAgain(e) \/ KeepThreshold(e)
    BY <1>1, <2>4 DEF MonitorAgain, KeepThreshold
  <2> QED
    BY <2>1, <2>2, <2>3, <2>4
<1>5. CASE Tick
  BY <1>1, <1>5 DEF Tick, thresholdVars
<1>6. CASE UNCHANGED vars
  BY <1>1, <1>6 DEF vars
<1> QED
  BY <1>2, <1>3, <1>4, <1>5, <1>6 DEF Next

-----------------------------------------------------------------------------
(* Types and minima                                                        *)

LEMMA RefusesTypes ==
  ASSUME TypeOK, NEW p \in Queues, Refuses(p)
  PROVE  TypeOK' /\ (MinInv => MinInv')
<1>1. /\ StartWindowAfterDrop(p) /\ MyBMAllocates(p)
      /\ UNCHANGED <<now, sm, queue, designZeroStart, served, dequeueIndex,
                     ssthreshBuffer, idleTime, inRange, smoothQlenRecord, nextSample>>
  BY DEF Refuses, Drops, unsentVars, sampleVars
<1>2. /\ currMaxSizeAllowed' \in [Queues -> 0 .. WordMod - 1]
      /\ proberStarted' \subseteq Probers
  BY <1>1, AllocatesTypes
<1>3. /\ probeMinMinBufferUsed' \in [Queues -> 0 .. NoMin]
      /\ probeMinMinBufferUsed'[p] <= NBytes(queue'[p])
      /\ \A x \in Queues \ {p} : probeMinMinBufferUsed'[x] = probeMinMinBufferUsed[x]
  <2>1. PICK low : /\ low \in 0 .. NoMin
                   /\ RecordsMin(p, low)
    <3>1. MinAfterChange(p, currMaxSizeAllowed') \in 0 .. NoMin /\ NoMin \in 0 .. NoMin
      BY MinAfterChangeType, NoMinType
    <3>2. RecordsMin(p, IF p \in isWindowOn
                        THEN MinAfterChange(p, currMaxSizeAllowed') ELSE NoMin)
      BY DEF Refuses, Drops
    <3> QED
      BY <3>1, <3>2
  <2>2. NBytes(queue'[p]) \in Nat
    BY <1>1, QueueTypes
  <2> QED
    BY <2>1, <2>2, RecordedMin
<1>4. /\ isWindowOn' \subseteq Queues /\ isWindowOn' \subseteq isWindowOn \cup {p}
      /\ designZeroWindowSum' \in [Queues -> 0 .. now]
      /\ designZeroWindowStart' \in [Queues -> 0 .. now \div NsPerUs]
      /\ events' \subseteq [at : Nat, queue : Queues, count : 1 .. COUNT_THRES]
      /\ emptyAtDrop' \subseteq Queues
  <2>1. /\ isWindowOn \subseteq Queues /\ emptyAtDrop \subseteq Queues
        /\ designZeroWindowSum \in [Queues -> 0 .. now]
        /\ designZeroWindowStart \in [Queues -> 0 .. now \div NsPerUs]
        /\ events \subseteq [at : Nat, queue : Queues, count : 1 .. COUNT_THRES]
    BY DEF TypeOK
  <2>2. /\ now \in Nat /\ now + Window \in Nat /\ now \div NsPerUs \in Nat
        /\ 1 \in 1 .. COUNT_THRES
    BY Microsecond, Parameters DEF COUNT_THRES
  <2>3. [at |-> now + Window, queue |-> p, count |-> 1]
          \in [at : Nat, queue : Queues, count : 1 .. COUNT_THRES]
    BY <2>2
  <2>4. CASE p \in isWindowOn
    BY <1>1, <2>1, <2>4 DEF StartWindowAfterDrop, windowVars
  <2>5. CASE p \notin isWindowOn
    <3>1. emptyAtDrop' = emptyAtDrop \/ emptyAtDrop' = emptyAtDrop \cup {p}
      BY <1>1, <2>5 DEF StartWindowAfterDrop
    <3>2. emptyAtDrop' \subseteq Queues
      BY <2>1, <3>1
    <3>3. /\ isWindowOn' = isWindowOn \cup {p}
          /\ designZeroWindowSum' = [designZeroWindowSum EXCEPT ![p] = 0]
          /\ designZeroWindowStart' = [designZeroWindowStart EXCEPT ![p] = now \div NsPerUs]
          /\ events' = events \cup {[at |-> now + Window, queue |-> p, count |-> 1]}
      BY <1>1, <2>5 DEF StartWindowAfterDrop
    <3> QED
      BY <2>1, <2>2, <2>3, <3>2, <3>3
  <2> QED
    BY <2>4, <2>5
<1>5. TypeOK'
  BY <1>1, <1>2, <1>3, <1>4 DEF TypeOK
<1>6. ASSUME MinInv PROVE MinInv'
  BY <1>1, <1>3, <1>4, <1>6 DEF MinInv
<1> QED
  BY <1>5, <1>6

LEMMA EnqueueTypes ==
  ASSUME TypeOK, BufferAccounting, IdleInv, NEW p \in Queues, NEW size \in SizesOf(p),
         Enqueue(p, size)
  PROVE  TypeOK' /\ (MinInv => MinInv')
<1>1. /\ MyBMAllocates(p) /\ Len(queue[p]) < ChildLimit
      /\ queue' = [queue EXCEPT ![p] = Append(queue[p], size)]
      /\ served' = served \cup ({p} \cap Probers)
      /\ RecordsMin(p, MinAfterChange(p, currMaxSizeAllowed'))
      /\ UNCHANGED <<now, isWindowOn, designZeroWindowStart, events, emptyAtDrop,
                     dequeueIndex, ssthreshBuffer, idleTime, inRange, smoothQlenRecord, nextSample>>
  BY DEF Enqueue, unsentVars, sampleVars
<1>2. /\ currMaxSizeAllowed' \in [Queues -> 0 .. WordMod - 1]
      /\ proberStarted' \subseteq Probers
  BY <1>1, AllocatesTypes
<1>3. /\ queue' \in [Queues -> Seq(DataSizes \cup ControlSizes)]
      /\ \A x \in Queues : queue'[x] \in Seq(SizesOf(x)) /\ Len(queue'[x]) <= ChildLimit
      /\ NBytes(queue'[p]) \in Nat
  <2>1. /\ queue[p] \in Seq(SizesOf(p)) /\ queue[p] \in Seq(DataSizes \cup ControlSizes)
        /\ size \in DataSizes \cup ControlSizes /\ Len(queue[p]) \in Nat
    BY QueueTypes
  <2>2. /\ Append(queue[p], size) \in Seq(SizesOf(p))
        /\ Len(Append(queue[p], size)) = Len(queue[p]) + 1
    BY <2>1, AppendProperties
  <2>3. Append(queue[p], size) \in Seq(DataSizes \cup ControlSizes)
    BY <2>1, AppendProperties
  <2>4. Len(Append(queue[p], size)) <= ChildLimit
    BY <1>1, <2>1, <2>2, GenQueueDiscAssumption
  <2>5. /\ queue \in [Queues -> Seq(DataSizes \cup ControlSizes)]
        /\ \A x \in Queues : queue[x] \in Seq(SizesOf(x)) /\ Len(queue[x]) <= ChildLimit
    BY DEF TypeOK
  <2>6. /\ queue'[p] = Append(queue[p], size)
        /\ \A x \in Queues \ {p} : queue'[x] = queue[x]
        /\ queue' \in [Queues -> Seq(DataSizes \cup ControlSizes)]
    BY <1>1, <2>3, <2>5
  <2>7. NBytes(queue'[p]) \in Nat
    BY <2>3, <2>6, BytesOfQueue
  <2> QED
    BY <2>2, <2>4, <2>5, <2>6, <2>7
<1>4. /\ probeMinMinBufferUsed' \in [Queues -> 0 .. NoMin]
      /\ probeMinMinBufferUsed'[p] <= NBytes(queue'[p])
      /\ \A x \in Queues \ {p} : probeMinMinBufferUsed'[x] = probeMinMinBufferUsed[x]
  BY <1>1, <1>3, MinAfterChangeType, RecordedMin
<1>5. /\ designZeroStart' \in [Queues -> -1 .. now]
      /\ designZeroWindowSum' \in [Queues -> 0 .. now]
  <2>1. /\ designZeroStart \in [Queues -> -1 .. now]
        /\ designZeroWindowSum \in [Queues -> 0 .. now] /\ now \in Nat
    BY Microsecond DEF TypeOK
  <2>2. ASSUME designZeroStart[p] # -1
        PROVE  designZeroWindowSum[p] + IdleInWindow(p) \in 0 .. now
    <3>1. Pending(p) = IdleInWindow(p)
      BY <2>2 DEF Pending
    <3>2. designZeroWindowSum[p] + Pending(p) <= now - designZeroWindowStart[p] * NsPerUs
      BY DEF IdleInv
    <3> QED
      BY <3>1, <3>2, IdleTypes
  <2>3. IF designZeroStart[p] # -1
        THEN /\ designZeroWindowSum' =
                  [designZeroWindowSum EXCEPT ![p] = designZeroWindowSum[p] + IdleInWindow(p)]
             /\ designZeroStart' = [designZeroStart EXCEPT ![p] = -1]
        ELSE UNCHANGED <<designZeroWindowSum, designZeroStart>>
    BY DEF Enqueue
  <2> QED
    BY <2>1, <2>2, <2>3
<1>6. sm' \in Buffers
  BY EnqueueAccounts
<1>7. TypeOK'
  BY <1>1, <1>2, <1>3, <1>4, <1>5, <1>6 DEF TypeOK, Buffers
<1>8. ASSUME MinInv PROVE MinInv'
  <2>1. \A x \in Queues \ {p} : queue'[x] = queue[x]
    BY <1>1 DEF TypeOK
  <2>2. isWindowOn' = isWindowOn /\ isWindowOn \subseteq Queues
    BY <1>1 DEF TypeOK
  <2> QED
    BY <1>4, <1>8, <2>1, <2>2 DEF MinInv
<1> QED
  BY <1>7, <1>8

LEMMA SendsTypes ==
  ASSUME TypeOK, BufferAccounting, NEW p \in Queues, Sends(p)
  PROVE  TypeOK' /\ (MinInv => MinInv')
<1>1. /\ queue[p] # <<>> /\ queue' = [queue EXCEPT ![p] = Tail(queue[p])]
      /\ dequeueIndex' \in [Ports -> Classes]
      /\ RecordsMin(p, probeMinMinBufferUsed[p])
      /\ UNCHANGED <<now, ssthreshBuffer, currMaxSizeAllowed, proberStarted,
                     isWindowOn, designZeroWindowSum, designZeroWindowStart, events,
                     emptyAtDrop, smoothQlenRecord, nextSample, served, idleTime, inRange>>
  BY DEF Sends, thresholdVars, windowVars, sampleVars
<1>2. /\ queue' \in [Queues -> Seq(DataSizes \cup ControlSizes)]
      /\ \A x \in Queues : queue'[x] \in Seq(SizesOf(x)) /\ Len(queue'[x]) <= ChildLimit
      /\ NBytes(queue'[p]) \in Nat
  <2>1. /\ queue \in [Queues -> Seq(DataSizes \cup ControlSizes)]
        /\ \A x \in Queues : queue[x] \in Seq(SizesOf(x)) /\ Len(queue[x]) <= ChildLimit
    BY DEF TypeOK
  <2>2. /\ Tail(queue[p]) \in Seq(SizesOf(p))
        /\ Len(Tail(queue[p])) = Len(queue[p]) - 1
    BY <1>1, <2>1, HeadTailProperties
  <2>3. Tail(queue[p]) \in Seq(DataSizes \cup ControlSizes)
    BY <1>1, <2>1, HeadTailProperties
  <2>4. Len(Tail(queue[p])) <= ChildLimit
    <3>1. Len(queue[p]) \in Nat /\ Len(queue[p]) <= ChildLimit /\ ChildLimit \in Nat
      BY <2>1, QueueTypes, GenQueueDiscAssumption
    <3> QED
      BY <2>2, <3>1
  <2>5. /\ queue'[p] = Tail(queue[p])
        /\ \A x \in Queues \ {p} : queue'[x] = queue[x]
        /\ queue' \in [Queues -> Seq(DataSizes \cup ControlSizes)]
    BY <1>1, <2>1, <2>3
  <2>6. NBytes(queue'[p]) \in Nat
    BY <2>3, <2>5, BytesOfQueue
  <2> QED
    BY <2>1, <2>2, <2>4, <2>5, <2>6
<1>3. /\ probeMinMinBufferUsed' \in [Queues -> 0 .. NoMin]
      /\ probeMinMinBufferUsed'[p] <= NBytes(queue'[p])
      /\ \A x \in Queues \ {p} : probeMinMinBufferUsed'[x] = probeMinMinBufferUsed[x]
  <2>1. probeMinMinBufferUsed[p] \in 0 .. NoMin
    BY DEF TypeOK
  <2> QED
    BY <1>1, <1>2, <2>1, RecordedMin
<1>4. designZeroStart' \in [Queues -> -1 .. now]
  <2>1. designZeroStart \in [Queues -> -1 .. now] /\ now \in -1 .. now
    BY Microsecond DEF TypeOK
  <2> QED
    BY <2>1 DEF Sends
<1>5. sm' \in Buffers
  BY SendsAccounts
<1>6. TypeOK'
  BY <1>1, <1>2, <1>3, <1>4, <1>5 DEF TypeOK, Buffers
<1>7. ASSUME MinInv PROVE MinInv'
  <2>1. \A x \in Queues \ {p} : queue'[x] = queue[x]
    BY <1>1 DEF TypeOK
  <2>2. isWindowOn' = isWindowOn /\ isWindowOn \subseteq Queues
    BY <1>1 DEF TypeOK
  <2> QED
    BY <1>3, <1>7, <2>1, <2>2 DEF MinInv
<1> QED
  BY <1>6, <1>7

(* The three ends that close a window.                                      *)
LEMMA ClosesTypes ==
  ASSUME TypeOK, NEW e \in events, Closes(e),
         UNCHANGED <<now, sm, queue, dequeueIndex, proberStarted, designZeroStart,
                     designZeroWindowSum, designZeroWindowStart, smoothQlenRecord,
                     nextSample, served>>,
         currMaxSizeAllowed' \in [Queues -> 0 .. WordMod - 1],
         ssthreshBuffer' \in [Ports -> 0 .. WordMod - 1],
         NEW low \in 0 .. NoMin,
         probeMinMinBufferUsed' = [probeMinMinBufferUsed EXCEPT ![e.queue] = low],
         inRange' \in BOOLEAN
  PROVE  TypeOK' /\ (MinInv => MinInv')
<1>1. /\ isWindowOn' = isWindowOn \ {e.queue} /\ events' = events \ {e}
      /\ emptyAtDrop' = emptyAtDrop \ {e.queue}
      /\ idleTime' = [p \in Probers |-> IF p = e.queue THEN 0 ELSE idleTime[p]]
  BY DEF Closes
<1>2. /\ probeMinMinBufferUsed' \in [Queues -> 0 .. NoMin]
      /\ \A x \in Queues \ {e.queue} : probeMinMinBufferUsed'[x] = probeMinMinBufferUsed[x]
  BY DEF TypeOK
<1>3. idleTime' \in [Probers -> 0 .. now]
  BY <1>1, Microsecond DEF TypeOK
<1>4. isWindowOn \subseteq Queues
  BY DEF TypeOK
<1>5. TypeOK'
  BY <1>1, <1>2, <1>3 DEF TypeOK
<1>6. ASSUME MinInv PROVE MinInv'
  BY <1>1, <1>2, <1>4, <1>6 DEF MinInv
<1> QED
  BY <1>5, <1>6

LEMMA EndsTypes ==
  ASSUME TypeOK, WindowInv, EndWindowAfterDrop
  PROVE  TypeOK' /\ (MinInv => MinInv')
<1>1. PICK e \in events :
        /\ e.at = now
        /\ GrowThreshold(e) \/ MonitorAgain(e) \/ ShrinkThreshold(e) \/ KeepThreshold(e)
  BY DEF EndWindowAfterDrop
<1>2. PICK p \in Queues : p = e.queue
  BY EventTypes
<1>3. UNCHANGED <<now, sm, queue, dequeueIndex, proberStarted, designZeroStart,
                  designZeroWindowSum, designZeroWindowStart, smoothQlenRecord,
                  nextSample, served>>
  BY <1>1 DEF GrowThreshold, MonitorAgain, ShrinkThreshold, KeepThreshold,
              unwindowedVars, sampleVars
<1>4. /\ currMaxSizeAllowed \in [Queues -> 0 .. WordMod - 1]
      /\ ssthreshBuffer \in [Ports -> 0 .. WordMod - 1]
      /\ probeMinMinBufferUsed \in [Queues -> 0 .. NoMin]
      /\ inRange \in BOOLEAN
  BY DEF TypeOK
<1>5. CASE GrowThreshold(e)
  <2>1. /\ Closes(e)
        /\ ssthreshBuffer' =
             [ssthreshBuffer EXCEPT ![p[1]] = U32(currMaxSizeAllowed[p] * ExploreThres)]
        /\ probeMinMinBufferUsed' =
             [probeMinMinBufferUsed EXCEPT ![p] = MinAfterChange(p, currMaxSizeAllowed')]
    BY <1>2, <1>5 DEF GrowThreshold, SetsThresholds
  <2>2. currMaxSizeAllowed' \in [Queues -> 0 .. WordMod - 1]
    BY <1>5, Grows
  <2>3. ssthreshBuffer' \in [Ports -> 0 .. WordMod - 1]
    <3>1. currMaxSizeAllowed[p] \in Int /\ ExploreThres \in Int
      BY <1>4, GenQueueDiscAssumption, Parameters
    <3>2. currMaxSizeAllowed[p] * ExploreThres \in Int
      BY <3>1
    <3>3. U32(currMaxSizeAllowed[p] * ExploreThres) \in 0 .. WordMod - 1
      BY <3>2, U32Exact
    <3> QED
      BY <1>4, <2>1, <3>3
  <2>4. inRange' \in BOOLEAN
    BY <1>5 DEF GrowThreshold
  <2>5. MinAfterChange(p, currMaxSizeAllowed') \in 0 .. NoMin
    BY MinAfterChangeType
  <2> QED
    BY <1>2, <1>3, <2>1, <2>2, <2>3, <2>4, <2>5, ClosesTypes
<1>6. CASE MonitorAgain(e)
  <2>1. events' \subseteq [at : Nat, queue : Queues, count : 1 .. COUNT_THRES]
    BY <1>1, <1>6, MonitorAgainWindows
  <2>2. UNCHANGED <<isWindowOn, currMaxSizeAllowed, probeMinMinBufferUsed,
                    ssthreshBuffer, idleTime, emptyAtDrop, inRange>>
    BY <1>6 DEF MonitorAgain
  <2> QED
    BY <1>3, <2>1, <2>2 DEF TypeOK, MinInv
<1>7. CASE ShrinkThreshold(e)
  <2>1. /\ Closes(e) /\ ssthreshBuffer' = ssthreshBuffer
        /\ probeMinMinBufferUsed' =
             [probeMinMinBufferUsed EXCEPT ![p] = MinAfterChange(p, currMaxSizeAllowed')]
    BY <1>2, <1>7 DEF ShrinkThreshold, SetsThresholds
  <2>2. currMaxSizeAllowed' \in [Queues -> 0 .. WordMod - 1]
    BY <1>7, Shrinks
  <2>3. inRange' \in BOOLEAN
    BY <1>7 DEF ShrinkThreshold
  <2>4. MinAfterChange(p, currMaxSizeAllowed') \in 0 .. NoMin
    BY MinAfterChangeType
  <2> QED
    BY <1>2, <1>3, <1>4, <2>1, <2>2, <2>3, <2>4, ClosesTypes
<1>8. CASE KeepThreshold(e)
  <2>1. /\ Closes(e)
        /\ UNCHANGED <<currMaxSizeAllowed, probeMinMinBufferUsed, ssthreshBuffer, inRange>>
    BY <1>8 DEF KeepThreshold
  <2>2. /\ probeMinMinBufferUsed[p] \in 0 .. NoMin
        /\ probeMinMinBufferUsed' = [probeMinMinBufferUsed EXCEPT ![p] = probeMinMinBufferUsed[p]]
    BY <1>4, <2>1
  <2> QED
    BY <1>2, <1>3, <1>4, <2>1, <2>2, ClosesTypes
<1> QED
  BY <1>1, <1>5, <1>6, <1>7, <1>8

LEMMA MonitoringTypes ==
  ASSUME TypeOK, NEW port \in Ports, SmoothMonitoring(port)
  PROVE  TypeOK' /\ (MinInv => MinInv')
<1>1. UNCHANGED <<now, sm, queue, dequeueIndex, ssthreshBuffer, currMaxSizeAllowed,
                  proberStarted, isWindowOn, designZeroWindowSum, designZeroWindowStart,
                  events, emptyAtDrop, probeMinMinBufferUsed, designZeroStart, served,
                  idleTime, inRange>>
  BY DEF SmoothMonitoring, thresholdVars, windowVars
<1>2. nextSample' \in [Ports -> now .. now + smoothQlenCollection]
  <2>1. now + smoothQlenCollection \in now .. now + smoothQlenCollection
    BY Microsecond, Parameters
  <2> QED
    BY <2>1 DEF SmoothMonitoring, TypeOK
<1>3. ASSUME NEW p \in Probers
      PROVE  LET new == LatestSamples(Append(smoothQlenRecord[p], NBytes(queue[p])))
             IN  new \in Seq(Nat) /\ Len(new) \in 1 .. smoothWindow
  <2>1. PICK s : s = smoothQlenRecord[p]
    OBVIOUS
  <2>2. /\ s \in Seq(Nat) /\ Len(s) \in 1 .. smoothWindow
        /\ NBytes(queue[p]) \in Nat /\ smoothWindow \in Nat
    BY <2>1, QueuesFinite, QueueTypes, Parameters DEF TypeOK
  <2>3. PICK a : a = Append(s, NBytes(queue[p]))
    OBVIOUS
  <2>4. a \in Seq(Nat) /\ a # <<>> /\ Len(a) = Len(s) + 1
    BY <2>2, <2>3, AppendProperties
  <2>5. Tail(a) \in Seq(Nat) /\ Len(Tail(a)) = Len(a) - 1
    BY <2>4, HeadTailProperties
  <2>6. LatestSamples(a) = IF Len(a) > smoothWindow THEN Tail(a) ELSE a
    BY DEF LatestSamples
  <2> QED
    BY <2>1, <2>2, <2>3, <2>4, <2>5, <2>6
<1>4. smoothQlenRecord \in [Probers -> Seq(Nat)]
      /\ \A p \in Probers : Len(smoothQlenRecord[p]) \in 1 .. smoothWindow
  BY DEF TypeOK
<1>5. /\ smoothQlenRecord' \in [Probers -> Seq(Nat)]
      /\ \A p \in Probers : Len(smoothQlenRecord'[p]) \in 1 .. smoothWindow
  BY <1>3, <1>4 DEF SmoothMonitoring
<1> QED
  BY <1>1, <1>2, <1>5 DEF TypeOK, MinInv

LEMMA TickTypes ==
  ASSUME TypeOK, Tick
  PROVE  TypeOK' /\ (MinInv => MinInv')
<1>1. /\ now' = now + 1 /\ now \in Nat /\ now + 1 \in 0 .. Horizon
      /\ now \div NsPerUs \in Nat /\ (now + 1) \div NsPerUs \in Nat
      /\ now \div NsPerUs <= (now + 1) \div NsPerUs
  <2>1. now' = now + 1 /\ now < Horizon
    <3>1. now' = now + 1 /\ now < IF ControlSeen THEN ControlHorizon ELSE Horizon
      BY DEF Tick
    <3> QED
      BY <3>1, Microsecond, Parameters
  <2> QED
    BY <2>1, Microsecond, QuotientSpans, Parameters
<1>2. /\ \A port \in Ports : nextSample[port] > now
      /\ idleTime' = [p \in Probers |->
                        IF p \in isWindowOn \cap served /\ queue[p] = <<>>
                        THEN idleTime[p] + 1 ELSE idleTime[p]]
      /\ UNCHANGED <<sm, queue, dequeueIndex, ssthreshBuffer, currMaxSizeAllowed,
                     proberStarted, isWindowOn, designZeroWindowSum,
                     designZeroWindowStart, events, emptyAtDrop,
                     probeMinMinBufferUsed, designZeroStart, smoothQlenRecord,
                     nextSample, served, inRange>>
  BY DEF Tick, thresholdVars, windowVars, sampleVars
<1>3. nextSample \in [Ports -> now + 1 .. (now + 1) + smoothQlenCollection]
  <2>1. nextSample \in [Ports -> now .. now + smoothQlenCollection]
        /\ smoothQlenCollection \in Nat
    BY Parameters DEF TypeOK
  <2>2. \A port \in Ports : nextSample[port] \in now + 1 .. (now + 1) + smoothQlenCollection
    BY <1>1, <1>2, <2>1
  <2> QED
    BY <2>1, <2>2
<1>4. idleTime' \in [Probers -> 0 .. now + 1]
  <2>1. idleTime \in [Probers -> 0 .. now]
    BY DEF TypeOK
  <2>2. \A p \in Probers : idleTime[p] \in 0 .. now + 1 /\ idleTime[p] + 1 \in 0 .. now + 1
    BY <1>1, <2>1
  <2>3. idleTime' = [p \in Probers |->
                      IF p \in isWindowOn \cap served /\ queue[p] = <<>>
                      THEN idleTime[p] + 1 ELSE idleTime[p]]
    BY <1>2
  <2> QED
    BY <2>2, <2>3
<1>5. /\ designZeroStart \in [Queues -> -1 .. now + 1]
      /\ designZeroWindowSum \in [Queues -> 0 .. now + 1]
  BY <1>1 DEF TypeOK
<1>6. designZeroWindowStart \in [Queues -> 0 .. (now + 1) \div NsPerUs]
  BY <1>1 DEF TypeOK
<1> QED
  BY <1>1, <1>2, <1>3, <1>4, <1>5, <1>6 DEF TypeOK, MinInv

LEMMA TypeStep ==
  ASSUME TypeOK, BufferAccounting, WindowInv, IdleInv, MinInv, [Next]_vars
  PROVE  TypeOK' /\ MinInv'
<1>1. CASE DoEnqueue
  BY <1>1, EnqueueCases, RefusesTypes, EnqueueTypes
<1>2. ASSUME NEW port \in Ports, DoDequeue(port) PROVE TypeOK' /\ MinInv'
  BY <1>2, DequeueSends, SendsTypes
<1>3. ASSUME NEW port \in Ports, SmoothMonitoring(port) PROVE TypeOK' /\ MinInv'
  BY <1>3, MonitoringTypes
<1>4. CASE EndWindowAfterDrop
  BY <1>4, EndsTypes
<1>5. CASE Tick
  BY <1>5, TickTypes
<1>6. CASE UNCHANGED vars
  BY <1>6 DEF vars, TypeOK, MinInv
<1> QED
  BY <1>1, <1>2, <1>3, <1>4, <1>5, <1>6 DEF Next

-----------------------------------------------------------------------------
(* The invariant                                                           *)

LEMMA InitInv == Init => GenQueueInv
<1> SUFFICES ASSUME Init PROVE GenQueueInv
  OBVIOUS
<1>1. TypeOK
  <2>1. /\ 0 \in 0 .. Horizon /\ 0 \in 0 .. TotalBuffer /\ TotalBuffer \in 0 .. TotalBuffer
        /\ 0 \in 0 .. WordMod - 1 /\ targetBW \in 0 .. WordMod - 1
        /\ 0 \in Classes /\ 0 \in 0 .. 0 /\ -1 \in -1 .. 0 /\ 0 \in 0 .. 0 \div NsPerUs
        /\ smoothQlenCollection \in 0 .. 0 + smoothQlenCollection
        /\ 0 <= ChildLimit
    <3>1. 0 \div NsPerUs \in Nat
      BY QuotientSpans, Parameters
    <3> QED
      BY <3>1, Parameters, GenQueueDiscAssumption DEF Classes
  <2>2. NoMin \in 0 .. NoMin
    BY NoMinType
  <2>3. \A S : <<>> \in Seq(S) /\ Len(<<>>) = 0
    BY EmptySeq
  <2>4. <<0>> \in Seq(Nat) /\ Len(<<0>>) \in 1 .. smoothWindow
    BY Parameters
  <2>5. /\ now = 0 /\ sm = [OccupiedBuffer |-> 0, RemainingBuffer |-> TotalBuffer]
        /\ currMaxSizeAllowed = [p \in Queues |-> 0]
        /\ queue = [p \in Queues |-> <<>>]
        /\ dequeueIndex = [port \in Ports |-> 0]
        /\ ssthreshBuffer = [port \in Ports |-> targetBW]
        /\ proberStarted = {} /\ isWindowOn = {}
        /\ probeMinMinBufferUsed = [p \in Queues |-> NoMin]
        /\ designZeroStart = [p \in Queues |-> -1]
        /\ designZeroWindowSum = [p \in Queues |-> 0]
        /\ designZeroWindowStart = [p \in Queues |-> 0]
        /\ events = {}
        /\ smoothQlenRecord = [p \in Probers |-> <<0>>]
        /\ nextSample = [port \in Ports |-> smoothQlenCollection]
        /\ served = {} /\ idleTime = [p \in Probers |-> 0] /\ emptyAtDrop = {}
        /\ inRange = TRUE
    BY DEF Init, EmptyBuffer
  <2>6. /\ sm \in [OccupiedBuffer : 0 .. TotalBuffer, RemainingBuffer : 0 .. TotalBuffer]
        /\ queue \in [Queues -> Seq(DataSizes \cup ControlSizes)]
        /\ \A p \in Queues : queue[p] \in Seq(SizesOf(p)) /\ Len(queue[p]) <= ChildLimit
        /\ smoothQlenRecord \in [Probers -> Seq(Nat)]
        /\ \A p \in Probers : Len(smoothQlenRecord[p]) \in 1 .. smoothWindow
    BY <2>1, <2>3, <2>4, <2>5
  <2>7. /\ nextSample \in [Ports -> now .. now + smoothQlenCollection]
        /\ designZeroStart \in [Queues -> -1 .. now]
        /\ designZeroWindowSum \in [Queues -> 0 .. now]
        /\ designZeroWindowStart \in [Queues -> 0 .. now \div NsPerUs]
        /\ idleTime \in [Probers -> 0 .. now]
    BY <2>1, <2>5
  <2> QED
    BY <2>1, <2>2, <2>5, <2>6, <2>7 DEF TypeOK
<1>2. \A S, f : IsFiniteSet(S) /\ f = [x \in S |-> 0] => SumFunction(f) = 0
  <2> SUFFICES ASSUME NEW S, NEW f, IsFiniteSet(S), f = [x \in S |-> 0]
               PROVE  SumFunction(f) = 0
    OBVIOUS
  <2>1. DOMAIN f = S /\ (\A x \in S : f[x] = 0) /\ Cardinality(S) \in Nat
    BY FS_CardinalityType
  <2>2. SumFunctionOnSet(f, S) = 0 * Cardinality(S)
    BY <2>1, SumConstant
  <2> QED
    BY <2>1, <2>2 DEF SumFunction
<1>3. BufferAccounting
  <2>1. queue = [p \in Queues |-> <<>>] /\ sm = EmptyBuffer
    BY DEF Init
  <2>2. \A p \in Queues : NBytes(queue[p]) = 0
    BY <1>1, <2>1, QueueTypes
  <2>3. [p \in Queues |-> NBytes(queue[p])] = [p \in Queues |-> 0]
    BY <2>2
  <2>4. Held = 0
    BY <1>2, <2>3, QueuesFinite DEF Held
  <2> QED
    BY <2>1, <2>4, Parameters DEF BufferAccounting, Leaked, EmptyBuffer
<1>4. InRangeThresholdsFit
  <2>1. Allocated(currMaxSizeAllowed) = 0
    BY <1>2, QueuesFinite DEF Init, Allocated
  <2> QED
    BY <2>1, Parameters DEF InRangeThresholdsFit, ThresholdsFitBuffer
<1>5. WindowInv /\ MinInv
  BY DEF Init, WindowInv, MinInv
<1>6. IdleInv /\ IdleTimeIsCounted /\ ExcessInv
  <2> SUFFICES ASSUME NEW p \in Queues PROVE IdleOf(p)
    BY IdleByQueue
  <2>1. /\ designZeroStart[p] = -1 /\ queue[p] = <<>> /\ now = 0
        /\ designZeroWindowSum[p] = 0 /\ designZeroWindowStart[p] = 0
        /\ p \notin served /\ p \notin isWindowOn /\ events = {} /\ (p \in Probers => idleTime[p] = 0)
    BY DEF Init
  <2>2. Pending(p) = 0
    BY <2>1 DEF Pending
  <2>3. 0 * NsPerUs = 0
    BY Parameters
  <2> QED
    BY <2>1, <2>2, <2>3 DEF IdleOf
<1> QED
  BY <1>1, <1>3, <1>4, <1>5, <1>6 DEF GenQueueInv

LEMMA NextInv == GenQueueInv /\ [Next]_vars => GenQueueInv'
BY BufferStep, WindowStep, IdleStep, ThresholdStep, TypeStep DEF GenQueueInv

LEMMA GenQueueInvariant == Spec => []GenQueueInv
BY InitInv, NextInv, PTL DEF Spec

(* The state of every queue disc keeps the shape that its C++ declarations  *)
(* give it; a zero-queue duration is never more than the time that has      *)
(* passed (gen-queue-disc.h).                                               *)
THEOREM GenQueueTypeCorrect == Spec => []TypeOK
<1>1. GenQueueInv => TypeOK
  BY DEF GenQueueInv
<1> QED
  BY <1>1, GenQueueInvariant, PTL

(* The counters of the shared buffer agree with each other and, but for one *)
(* packet's bytes, with what the queues hold, for every number of ports and *)
(* classes and all sizes of packets (shared-memory.cc 140-156).             *)
THEOREM BufferIsAccounted == Spec => []BufferAccounting
<1>1. GenQueueInv => BufferAccounting
  BY DEF GenQueueInv
<1> QED
  BY <1>1, GenQueueInvariant, PTL

(* Bytes stay behind only when the buffer's last packet leaves, and then    *)
(* never again (shared-memory.cc 152).                                      *)
THEOREM BufferLeaksOnce == Spec => LeaksOnce
<1>1. GenQueueInv /\ [Next]_vars => [LeakStep]_vars
  BY BufferStep DEF GenQueueInv
<1>2. LeaksOnce <=> [][LeakStep]_vars
  BY DEF LeaksOnce, LeakStep
<1> QED
  BY <1>1, <1>2, GenQueueInvariant, PTL DEF Spec

(* What a window measures is how long its queue was empty in it, to the     *)
(* microsecond (gen-queue-disc.cc 874-882, 4296-4298).                      *)
THEOREM IdleTimeCounted == Spec => []IdleTimeIsCounted
<1>1. GenQueueInv => IdleTimeIsCounted
  BY DEF GenQueueInv
<1> QED
  BY <1>1, GenQueueInvariant, PTL

(* An open window has one end scheduled, at most two intervals away from    *)
(* its start (gen-queue-disc.cc 4288-4304, 4345-4348).                      *)
THEOREM WindowsEndOnce == Spec => []OneEndPerWindow
<1>1. GenQueueInv => OneEndPerWindow
  BY OneEnd DEF GenQueueInv
<1> QED
  BY <1>1, GenQueueInvariant, PTL

(* The thresholds of all ports together fit the buffer while every request  *)
(* for a change of one is what its int32_t and uint32_t arithmetic says     *)
(* (shared-memory.cc 959-980, gen-queue-disc.cc 4338-4358).                 *)
THEOREM ThresholdsFit == Spec => []InRangeThresholdsFit
<1>1. GenQueueInv => InRangeThresholdsFit
  BY DEF GenQueueInv
<1> QED
  BY <1>1, GenQueueInvariant, PTL

-----------------------------------------------------------------------------
(* When thresholds move                                                    *)

Moves(p) ==
  /\ currMaxSizeAllowed'[p] < currMaxSizeAllowed[p] =>
       /\ idleTime[p] = 0
       /\ now - COUNT_THRES * Window >= designZeroWindowStart[p] * NsPerUs
       /\ DecreaseRatio = 1 => currMaxSizeAllowed'[p] > SAFE_THRES * MTU
  /\ currMaxSizeAllowed'[p] > currMaxSizeAllowed[p] =>
       \/ p \in proberStarted' \ proberStarted
       \/ idleTime[p] > 0
       \/ p \in emptyAtDrop /\ now % NsPerUs # 0

(* A window that ends on a microsecond has started on one.                  *)
LEMMA NothingCutOff ==
  ASSUME TypeOK, WindowInv, NEW e \in events, e.at = now, now % NsPerUs = 0
  PROVE  CutOff(e) = 0
<1>1. PICK p \in Queues : p = e.queue
  BY EventTypes
<1>2. PICK ns \in Nat \ {0} : ns = NsPerUs
  BY Parameters
<1>3. \A x \in Nat : x % ns = 0 => \E k \in Nat : x = k * ns
  OBVIOUS
<1>4. PICK k \in Nat : now = k * ns
  BY <1>2, <1>3, Microsecond
<1>5. PICK b \in Nat : Window = b * ns
  BY <1>2, <1>3, Parameters, GenQueueDiscAssumption
<1>6. PICK s \in Nat : s = designZeroWindowStart[p]
  BY <1>1, EventTypes
<1>7. PICK m \in Int : now - e.count * Window = m * ns
  <2>1. PICK c \in Nat : c = e.count
    BY EventTypes
  <2>2. c * (b * ns) = (c * b) * ns
    BY <1>2, <1>5, <2>1
  <2>3. PICK cb \in Nat : cb = c * b
    BY <1>5, <2>1
  <2>4. now - e.count * Window = (k - cb) * ns
    <3>1. e.count * Window = cb * ns
      BY <1>5, <2>1, <2>2, <2>3
    <3>2. \A x, y \in Nat : x * ns - y * ns = (x - y) * ns
      BY <1>2
    <3> QED
      BY <1>4, <2>3, <3>1, <3>2
  <2>5. k - cb \in Int
    BY <1>4, <2>3
  <2> QED
    BY <2>4, <2>5
<1>8. s * ns <= m * ns /\ m * ns < s * ns + ns
  <2>1. /\ s * ns + e.count * Window <= now
        /\ now < (s * ns + NsPerUs) + e.count * Window
    BY <1>1, <1>2, <1>6, EventTypes, Parameters DEF WindowInv
  <2>2. PICK w \in Nat : w = e.count * Window
    BY EventTypes
  <2>3. PICK x \in Nat : x = s * ns
    BY <1>2, <1>6
  <2> QED
    BY <1>2, <1>7, <2>1, <2>2, <2>3, Microsecond
<1>9. m = s
  <2>1. \A x, y \in Int : x * ns <= y * ns => x <= y
    BY <1>2
  <2>2. s <= m
    BY <1>6, <1>7, <1>8, <2>1
  <2>3. m < s + 1
    <3>1. (s + 1) * ns = s * ns + ns
      BY <1>2, <1>6
    <3>2. s + 1 <= m => (s + 1) * ns <= m * ns
      BY <1>2, <1>6, <1>7
    <3>3. m * ns \in Int /\ s * ns \in Int
      BY <1>2, <1>6, <1>7
    <3> QED
      BY <1>2, <1>6, <1>7, <1>8, <3>1, <3>2, <3>3
  <2> QED
    BY <1>6, <1>7, <2>2, <2>3
<1>10. CutOff(e) = m * ns - s * ns
  BY <1>1, <1>2, <1>6, <1>7 DEF CutOff
<1>11. s * ns \in Int
  BY <1>2, <1>6
<1> QED
  BY <1>9, <1>10, <1>11

(* Then nothing of what it has counted lies before it; nor does it if its   *)
(* queue held packets when it opened.                                       *)
LEMMA NoExcess ==
  ASSUME TypeOK, WindowInv, ExcessInv, NEW e \in events, e.at = now,
         e.queue \in Probers, now % NsPerUs = 0 \/ e.queue \notin emptyAtDrop
  PROVE  designZeroWindowSum[e.queue] + Pending(e.queue) <= idleTime[e.queue]
<1>1. PICK p \in Queues : p = e.queue
  BY EventTypes
<1>2. (designZeroWindowSum[p] + Pending(p)) - idleTime[p] <= 0
  BY <1>1, NothingCutOff DEF ExcessInv
<1> QED
  BY <1>1, <1>2, IdleTypes

LEMMA GrowsAfterIdle ==
  ASSUME GenQueueInv, NEW e \in events, e.at = now, GrowThreshold(e), inRange',
         NEW p \in Probers
  PROVE  Moves(p)
<1>1. p \in Queues /\ TypeOK /\ WindowInv /\ ExcessInv
  BY QueuesFinite DEF GenQueueInv
<1>2. ThresholdsFitBuffer
  BY <1>1, Grows DEF GenQueueInv, InRangeThresholdsFit
<1>3. /\ currMaxSizeAllowed \in [Queues -> 0 .. WordMod - 1]
      /\ currMaxSizeAllowed' \in [Queues -> 0 .. WordMod - 1]
      /\ currMaxSizeAllowed[p] \in Int /\ currMaxSizeAllowed'[p] \in Int
  <2>1. /\ currMaxSizeAllowed \in [Queues -> 0 .. WordMod - 1]
        /\ currMaxSizeAllowed' \in [Queues -> 0 .. WordMod - 1]
    BY <1>1, Grows DEF TypeOK
  <2> QED
    BY <1>1, <2>1, Parameters
<1>4. CASE p # e.queue
  <2>1. currMaxSizeAllowed'[p] = currMaxSizeAllowed[p]
    BY <1>1, <1>4, Grows
  <2> QED
    BY <1>3, <2>1 DEF Moves
<1>5. CASE p = e.queue
  <2>1. currMaxSizeAllowed'[p] >= currMaxSizeAllowed[p]
    BY <1>1, <1>2, <1>5, Grows
  <2>2. designZeroWindowSum[p] > 0
    BY <1>5 DEF GrowThreshold, WasIdle
  <2>3. now % NsPerUs = 0 \/ p \notin emptyAtDrop => idleTime[p] > 0
    <3>1. now % NsPerUs = 0 \/ p \notin emptyAtDrop =>
            designZeroWindowSum[p] + Pending(p) <= idleTime[p]
      BY <1>1, <1>5, NoExcess
    <3> QED
      BY <1>1, <2>2, <3>1, IdleTypes
  <2> QED
    BY <1>3, <2>1, <2>3 DEF Moves
<1> QED
  BY <1>4, <1>5

(* A queue that held more than SAFE_THRES packets throughout is not empty.  *)
LEMMA ShrinksWhenBusy ==
  ASSUME GenQueueInv, NEW e \in events, e.at = now, ShrinkThreshold(e), inRange',
         NEW p \in Probers
  PROVE  Moves(p)
<1>1. p \in Queues /\ TypeOK /\ WindowInv
  BY QueuesFinite DEF GenQueueInv
<1>2. ThresholdsFitBuffer
  BY <1>1, Shrinks DEF GenQueueInv, InRangeThresholdsFit
<1>3. currMaxSizeAllowed[p] \in Int /\ currMaxSizeAllowed'[p] \in Int
  <2>1. /\ currMaxSizeAllowed \in [Queues -> 0 .. WordMod - 1]
        /\ currMaxSizeAllowed' \in [Queues -> 0 .. WordMod - 1]
    BY <1>1, Shrinks DEF TypeOK
  <2> QED
    BY <1>1, <2>1, Parameters
<1>4. CASE p # e.queue
  <2>1. currMaxSizeAllowed'[p] = currMaxSizeAllowed[p]
    BY <1>1, <1>4, Shrinks
  <2> QED
    BY <1>3, <2>1 DEF Moves
<1>5. CASE p = e.queue
  <2>1. /\ ~ (designZeroWindowSum[p] > 0)
        /\ probeMinMinBufferUsed[p] > SAFE_THRES * MTU
        /\ e.count = COUNT_THRES
    BY <1>1, <1>5, Shrinks DEF ShrinkThreshold, WasBusy, WasIdle
  <2>2. p \in isWindowOn
    BY <1>1, <1>5 DEF WindowInv
  <2>3. queue[p] # <<>>
    <3>1. probeMinMinBufferUsed[p] <= NBytes(queue[p])
      BY <2>2 DEF GenQueueInv, MinInv
    <3>2. probeMinMinBufferUsed[p] \in Nat /\ SAFE_THRES * MTU \in Nat
      BY <1>1, NoMinType, Parameters DEF TypeOK, SAFE_THRES
    <3>3. NBytes(queue[p]) # 0
      BY <1>1, <2>1, <3>1, <3>2, QueueTypes
    <3> QED
      BY <1>1, <3>3, QueueTypes
  <2>4. designZeroStart[p] = -1 /\ Pending(p) = 0
    BY <1>1, <2>3 DEF GenQueueInv, IdleInv, Pending
  <2>5. (designZeroWindowSum[p] + Pending(p)) - idleTime[p] \in 0 .. NsPerUs - 1
    BY <1>1, <2>2, IdleByQueue DEF GenQueueInv, IdleOf
  <2>6. idleTime[p] = 0
    <3>1. designZeroWindowSum[p] = 0 /\ idleTime[p] \in Nat
      BY <1>1, <2>1, IdleTypes
    <3> QED
      BY <1>1, <2>4, <2>5, <3>1, IdleTypes
  <2>7. now - COUNT_THRES * Window >= designZeroWindowStart[p] * NsPerUs
    <3>1. designZeroWindowStart[p] * NsPerUs + COUNT_THRES * Window <= now
      BY <1>1, <1>5, <2>1 DEF WindowInv
    <3>2. PICK w \in Nat : w = designZeroWindowStart[p] * NsPerUs
      BY <1>1, IdleTypes
    <3>3. PICK c \in Nat : c = COUNT_THRES * Window
      BY Parameters DEF COUNT_THRES
    <3> QED
      BY <1>1, <3>1, <3>2, <3>3, Microsecond
  <2>8. /\ currMaxSizeAllowed'[p] <= currMaxSizeAllowed[p]
        /\ DecreaseRatio = 1 /\ currMaxSizeAllowed'[p] # currMaxSizeAllowed[p] =>
             currMaxSizeAllowed'[p] > SAFE_THRES * MTU
    BY <1>1, <1>2, <1>5, Shrinks
  <2> QED
    BY <1>3, <2>6, <2>7, <2>8 DEF Moves
<1> QED
  BY <1>4, <1>5

LEMMA MovesStep ==
  ASSUME GenQueueInv, [Next]_vars, inRange', NEW p \in Probers
  PROVE  Moves(p)
<1>1. /\ p \in Queues /\ TypeOK /\ BufferAccounting /\ WindowInv
      /\ currMaxSizeAllowed[p] \in Int
  <2>1. p \in Queues /\ TypeOK /\ BufferAccounting /\ WindowInv
    BY QueuesFinite DEF GenQueueInv
  <2>2. currMaxSizeAllowed \in [Queues -> 0 .. WordMod - 1]
    BY <2>1 DEF TypeOK
  <2> QED
    BY <2>1, <2>2, Parameters
<1>2. ASSUME currMaxSizeAllowed'[p] = currMaxSizeAllowed[p] PROVE Moves(p)
  BY <1>1, <1>2 DEF Moves
<1>3. CASE DoEnqueue
  <2>1. PICK q \in Queues : Refuses(q) \/ \E size \in SizesOf(q) : Enqueue(q, size)
    BY <1>1, <1>3, EnqueueCases
  <2>2. MyBMAllocates(q) /\ inRange' = inRange
    BY <2>1 DEF Refuses, Drops, Enqueue, unsentVars
  <2>3. CASE p # q
    BY <1>1, <1>2, <2>2, <2>3, FirstAllocation
  <2>4. CASE p = q
    <3>1. ThresholdsFitBuffer
      BY <2>2 DEF GenQueueInv, InRangeThresholdsFit
    <3>2. /\ currMaxSizeAllowed'[p] >= currMaxSizeAllowed[p]
          /\ currMaxSizeAllowed'[p] # currMaxSizeAllowed[p] =>
               p \in proberStarted' \ proberStarted
      BY <1>1, <2>2, <2>4, <3>1, FirstAllocation
    <3>3. currMaxSizeAllowed'[p] \in Int
      <4>1. currMaxSizeAllowed' \in [Queues -> 0 .. WordMod - 1]
        BY <1>1, <2>2, AllocatesTypes
      <4> QED
        BY <1>1, <4>1, Parameters
    <3> QED
      BY <1>1, <3>2, <3>3 DEF Moves
  <2> QED
    BY <2>3, <2>4
<1>4. ASSUME NEW port \in Ports, DoDequeue(port) \/ SmoothMonitoring(port)
      PROVE  Moves(p)
  BY <1>2, <1>4 DEF DoDequeue, SmoothMonitoring, thresholdVars
<1>5. CASE EndWindowAfterDrop
  <2>1. PICK e \in events :
          /\ e.at = now
          /\ GrowThreshold(e) \/ MonitorAgain(e) \/ ShrinkThreshold(e) \/ KeepThreshold(e)
    BY <1>5 DEF EndWindowAfterDrop
  <2>2. CASE MonitorAgain(e) \/ KeepThreshold(e)
    BY <1>2, <2>2 DEF MonitorAgain, KeepThreshold
  <2> QED
    BY <2>1, <2>2, GrowsAfterIdle, ShrinksWhenBusy
<1>6. CASE Tick
  BY <1>2, <1>6 DEF Tick, thresholdVars
<1>7. CASE UNCHANGED vars
  BY <1>2, <1>7 DEF vars
<1> QED
  BY <1>3, <1>4, <1>5, <1>6, <1>7 DEF Next

(* While the requests are in range, a threshold goes down only for a queue  *)
(* that held packets through two intervals, and up only with the queue's    *)
(* first packet, after idle time in its window, or, in a window opened by a *)
(* drop at an empty queue, after idle time in the microsecond of the drop   *)
(* (gen-queue-disc.cc 4338-4362).                                           *)
THEOREM ThresholdsMoveForAReason == Spec => ThresholdMoves
<1>1. GenQueueInv /\ [Next]_vars => [inRange' => \A p \in Probers : Moves(p)]_vars
  BY MovesStep
<1>2. ThresholdMoves <=> [][inRange' => \A p \in Probers : Moves(p)]_vars
  BY DEF ThresholdMoves, Moves
<1> QED
  BY <1>1, <1>2, GenQueueInvariant, PTL DEF Spec
=============================================================================
