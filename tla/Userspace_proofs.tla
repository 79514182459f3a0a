-------------------------- MODULE Userspace_proofs --------------------------
(***************************************************************************)
(* Proofs about the programs beside the switch: the user daemon with its   *)
(* ring of samples, the batches of simulations, and the video client.      *)
(***************************************************************************)
EXTENDS TitrateDaemon, ExperimentBatch, VideoClient, SumTheorems,
        SequenceTheorems

-----------------------------------------------------------------------------
(* The user daemon, for every number of samples and every averaging window.*)

(* Division by a positive number, without the quotient's definition.        *)
LEMMA QuotientBounds ==
  ASSUME NEW a \in Nat, NEW n \in Nat \ {0}
  PROVE  a \div n \in Nat /\ a < ((a \div n) + 1) * n
OBVIOUS

(* Leaving out what is at least twice the mean never raises the mean, in    *)
(* the rounded arithmetic of main.go either.                                *)
LEMMA TrimmedMean ==
  ASSUME NEW S, IsFiniteSet(S), S # {}, NEW f, \A x \in S : f[x] \in Nat,
         NEW mean, mean = SumFunctionOnSet(f, S) \div Cardinality(S),
         NEW K \in SUBSET S, \A x \in S : x \in K <=> f[x] < 2 * mean
  PROVE  /\ mean \in Nat
         /\ K # {} => /\ Cardinality(K) \in Nat \ {0}
                      /\ SumFunctionOnSet(f, K) \div Cardinality(K) \in 0 .. mean
<1>1. PICK n, sum : /\ n = Cardinality(S) /\ sum = SumFunctionOnSet(f, S)
                    /\ n \in Nat \ {0} /\ sum \in Nat
  BY FS_CardinalityType, FS_EmptySet, SumNat
<1>2. mean \in Nat /\ sum < (mean + 1) * n
  <2>1. mean = sum \div n
    BY <1>1
  <2> QED
    BY <1>1, <2>1, QuotientBounds
<1>3. SUFFICES ASSUME K # {}
               PROVE  /\ Cardinality(K) \in Nat \ {0}
                      /\ SumFunctionOnSet(f, K) \div Cardinality(K) \in 0 .. mean
  BY <1>2
<1>4. IsFiniteSet(K) /\ IsFiniteSet(S \ K) /\ K \in SUBSET S
  BY FS_Subset
<1>5. PICK k, r : /\ k = Cardinality(K) /\ r = Cardinality(S \ K)
                  /\ k \in Nat \ {0} /\ r \in Nat /\ n = k + r
  <2>1. Cardinality(K) \in Nat \ {0} /\ Cardinality(S \ K) \in Nat
    BY <1>3, <1>4, FS_CardinalityType, FS_EmptySet
  <2>2. S \cap K = K
    BY <1>4
  <2>3. Cardinality(S \ K) = Cardinality(S) - Cardinality(K)
    <3>1. Cardinality(S \ K) = Cardinality(S) - Cardinality(S \cap K)
      BY <1>4, FS_Difference, Zenon
    <3>2. Cardinality(S \cap K) = Cardinality(K)
      BY <2>2, Zenon
    <3> QED
      BY <3>1, <3>2, Zenon
  <2>4. n = Cardinality(K) + Cardinality(S \ K)
    BY <1>1, <2>1, <2>3
  <2> QED
    BY <1>1, <2>1, <2>4
<1>6. PICK kept, rest : /\ kept = SumFunctionOnSet(f, K)
                        /\ rest = SumFunctionOnSet(f, S \ K)
                        /\ kept \in Nat /\ rest \in Nat /\ sum = kept + rest
                        /\ \A x \in S \ K : f[x] <= rest
  <2>1. (\A x \in K : f[x] \in Nat) /\ (\A x \in S \ K : f[x] \in Nat)
    BY <1>4
  <2>2. SumFunctionOnSet(f, K) \in Nat
    BY <1>4, <2>1, SumNat
  <2>3. /\ SumFunctionOnSet(f, S \ K) \in Nat
        /\ \A x \in S \ K : f[x] <= SumFunctionOnSet(f, S \ K)
    BY <1>4, <2>1, SumNat
  <2>4. sum = SumFunctionOnSet(f, K) + SumFunctionOnSet(f, S \ K)
    <3>1. \A x \in S : f[x] \in Int
      OBVIOUS
    <3> QED
      BY <1>1, <1>4, <3>1, SumUnion
  <2> QED
    BY <2>2, <2>3, <2>4
<1>7. (2 * mean) * r <= rest
  <2>1. PICK twice : twice = 2 * mean /\ twice \in Int
    BY <1>2
  <2>2. \A x \in S \ K : f[x] \in Int /\ twice <= f[x] /\ f[x] <= rest
    <3> SUFFICES ASSUME NEW x \in S \ K
                 PROVE  f[x] \in Int /\ twice <= f[x] /\ f[x] <= rest
      OBVIOUS
    <3>1. f[x] \in Nat /\ ~ (f[x] < twice) /\ f[x] <= rest
      BY <1>6, <2>1
    <3> QED
      BY <2>1, <3>1
  <2>3. twice * Cardinality(S \ K) <= SumFunctionOnSet(f, S \ K)
    <3>1. twice \in Int /\ rest \in Int /\ IsFiniteSet(S \ K)
      BY <1>4, <1>6, <2>1
    <3> QED
      BY ONLY <2>2, <3>1, SumBounds
  <2> QED
    BY <1>5, <1>6, <2>1, <2>3
<1>8. mean >= 1
  <2>1. PICK x \in K : TRUE
    BY <1>3
  <2>2. f[x] \in Nat /\ f[x] < 2 * mean
    OBVIOUS
  <2> QED
    BY <1>2, <2>2
<1>9. kept < (mean + 1) * k
  <2>1. (mean + 1) * n = (mean + 1) * k + (mean + 1) * r
    BY <1>2, <1>5
  <2>2. (mean + 1) * r <= (2 * mean) * r
    <3>1. mean + 1 <= 2 * mean /\ mean + 1 \in Nat /\ 2 * mean \in Nat
      BY <1>2, <1>8
    <3> QED
      BY <1>5, <3>1
  <2>3. /\ (mean + 1) * k \in Int /\ (mean + 1) * r \in Int
        /\ (mean + 1) * n \in Int /\ (2 * mean) * r \in Int
    BY <1>1, <1>2, <1>5
  <2> QED
    BY <1>1, <1>2, <1>6, <1>7, <2>1, <2>2, <2>3
<1>10. kept \div k \in 0 .. mean
  BY <1>2, <1>5, <1>6, <1>9
<1> QED
  BY <1>5, <1>6, <1>10

-----------------------------------------------------------------------------
(* Positions in the ring.                                                   *)

LEMMA Wraps ==
  ASSUME NEW a \in Int, NEW n \in Nat \ {0}
  PROVE  /\ 0 <= a /\ a < n => a % n = a
         /\ n <= a /\ a < 2 * n => a % n = a - n
OBVIOUS

(* The slot of the j-th oldest of count observations.                       *)
SlotOf(head, count, j) == (head - count + j - 1 + queueSamples) % queueSamples

LEMMA SlotCases ==
  ASSUME NEW head \in 0 .. queueSamples - 1, NEW count \in 0 .. queueSamples,
         NEW j \in 1 .. count
  PROVE  /\ SlotOf(head, count, j) \in 0 .. queueSamples - 1
         /\ SlotOf(head, count, j)
              = IF head - count + j - 1 >= 0
                THEN head - count + j - 1 ELSE head - count + j - 1 + queueSamples
<1>1. queueSamples \in Nat \ {0}
  BY DaemonAssumption
<1>2. PICK a : /\ a = head - count + j - 1
               /\ a \in Int /\ - queueSamples <= a /\ a < queueSamples
  BY <1>1
<1>3. PICK b : b = a + queueSamples /\ b \in Int /\ 0 <= b /\ b < 2 * queueSamples
  BY <1>1, <1>2
<1>4. SlotOf(head, count, j) = b % queueSamples
  BY <1>2, <1>3 DEF SlotOf
<1>5. b % queueSamples = IF a >= 0 THEN a ELSE b
  <2>1. queueSamples <= b => b % queueSamples = b - queueSamples
    BY <1>1, <1>3, Wraps
  <2>2. b < queueSamples => b % queueSamples = b
    BY <1>1, <1>3, Wraps
  <2> QED
    BY <1>1, <1>2, <1>3, <2>1, <2>2
<1> QED
  BY <1>1, <1>2, <1>3, <1>4, <1>5

(* The occupied slots are those of the observations, one each.              *)
LEMMA SlotsOf ==
  ASSUME NEW head \in 0 .. queueSamples - 1, NEW count \in 0 .. queueSamples
  PROVE  /\ Slots(head, count) = { SlotOf(head, count, j) : j \in 1 .. count }
         /\ \A i, j \in 1 .. count :
              SlotOf(head, count, i) = SlotOf(head, count, j) => i = j
<1>1. queueSamples \in Nat \ {0}
  BY DaemonAssumption
<1>2. \A i, j \in 1 .. count :
        SlotOf(head, count, i) = SlotOf(head, count, j) => i = j
  <2> SUFFICES ASSUME NEW i \in 1 .. count, NEW j \in 1 .. count,
                      SlotOf(head, count, i) = SlotOf(head, count, j)
               PROVE  i = j
    OBVIOUS
  <2>1. PICK x \in Int : x = head - count
    BY <1>1
  <2>2. PICK y : y = SlotOf(head, count, i)
    OBVIOUS
  <2>3. y = IF x + i - 1 >= 0 THEN x + i - 1 ELSE x + i - 1 + queueSamples
    BY <2>1, <2>2, SlotCases
  <2>4. y = IF x + j - 1 >= 0 THEN x + j - 1 ELSE x + j - 1 + queueSamples
    BY <2>1, <2>2, SlotCases
  <2>5. /\ i \in Int /\ 1 <= i /\ i <= queueSamples
        /\ j \in Int /\ 1 <= j /\ j <= queueSamples
    BY <1>1
  <2> QED
    BY <1>1, <2>3, <2>4, <2>5
<1>3. \A j \in 1 .. count :
        /\ count - j \in 0 .. count - 1
        /\ SlotOf(head, count, j)
             = (head - (count - j) - 1 + queueSamples) % queueSamples
  <2> SUFFICES ASSUME NEW j \in 1 .. count
               PROVE  /\ count - j \in 0 .. count - 1
                      /\ SlotOf(head, count, j)
                           = (head - (count - j) - 1 + queueSamples) % queueSamples
    OBVIOUS
  <2>1. head - (count - j) - 1 + queueSamples = head - count + j - 1 + queueSamples
    BY <1>1
  <2> QED
    BY <1>1, <2>1 DEF SlotOf
<1>4. \A i \in 0 .. count - 1 : count - i \in 1 .. count /\ count - (count - i) = i
  BY <1>1
<1>5. Slots(head, count) = { SlotOf(head, count, j) : j \in 1 .. count }
  <2>1. ASSUME NEW x \in Slots(head, count)
        PROVE  x \in { SlotOf(head, count, j) : j \in 1 .. count }
    <3>1. PICK i \in 0 .. count - 1 : x = (head - i - 1 + queueSamples) % queueSamples
      BY DEF Slots
    <3>2. count - i \in 1 .. count /\ SlotOf(head, count, count - i) = x
      BY <1>3, <1>4, <3>1
    <3> QED
      BY <3>2
  <2>2. ASSUME NEW j \in 1 .. count PROVE SlotOf(head, count, j) \in Slots(head, count)
    BY <1>3 DEF Slots
  <2> QED
    BY <2>1, <2>2
<1> QED
  BY <1>2, <1>5

(* There are as many of them as observations.                               *)
LEMMA SlotsFinite ==
  ASSUME NEW head \in 0 .. queueSamples - 1, NEW count \in 0 .. queueSamples,
         NEW I \in SUBSET (1 .. count)
  PROVE  LET T == { SlotOf(head, count, j) : j \in I }
         IN  /\ IsFiniteSet(I) /\ IsFiniteSet(T) /\ Cardinality(T) = Cardinality(I)
             /\ [j \in I |-> SlotOf(head, count, j)] \in Bijection(I, T)
<1> DEFINE T == { SlotOf(head, count, j) : j \in I }
           h == [j \in I |-> SlotOf(head, count, j)]
<1>1. IsFiniteSet(I)
  <2>1. IsFiniteSet(1 .. count)
    BY DaemonAssumption, FS_Interval
  <2> QED
    BY <2>1, FS_Subset
<1>2. h \in Bijection(I, T)
  <2>1. h \in [I -> T]
    OBVIOUS
  <2>2. \A i, j \in I : h[i] = h[j] => i = j
    BY SlotsOf
  <2>3. \A z \in T : \E j \in I : h[j] = z
    OBVIOUS
  <2> QED
    BY <2>1, <2>2, <2>3 DEF Bijection, Injection, Surjection, IsInjective
<1>3. IsFiniteSet(T) /\ Cardinality(T) = Cardinality(I)
  <2> HIDE DEF h, T
  <2>1. ExistsBijection(I, T)
    BY <1>2 DEF ExistsBijection
  <2> QED
    BY <1>1, <2>1, FS_Bijection
<1> QED
  BY <1>1, <1>2, <1>3

(* What the sampler computes over a ring that holds a sample.               *)
LEMMA SamplerAverages ==
  ASSUME NEW buf \in [0 .. queueSamples - 1 -> QueueBits],
         NEW head \in 0 .. queueSamples - 1, NEW count \in 1 .. queueSamples
  PROVE  /\ SimpleAvg(buf, head, count) \in Nat
         /\ FilteredAvg(buf, head, count) \in 0 .. SimpleAvg(buf, head, count)
<1> DEFINE S == Slots(head, count)
           mean == SimpleAvg(buf, head, count)
           K == { i \in S : buf[i] < 2 * mean }
<1>1. queueSamples \in Nat \ {0} /\ QueueBits \subseteq Nat /\ count \in 0 .. queueSamples
  BY DaemonAssumption
<1>2. /\ S = { SlotOf(head, count, j) : j \in 1 .. count }
      /\ IsFiniteSet(S) /\ Cardinality(S) = count
  <2>1. S = { SlotOf(head, count, j) : j \in 1 .. count }
    BY <1>1, SlotsOf
  <2>2. 1 .. count \in SUBSET (1 .. count)
    OBVIOUS
  <2>3. IsFiniteSet(S) /\ Cardinality(S) = Cardinality(1 .. count)
    <3> HIDE DEF S
    <3> QED
      BY <1>1, <2>1, <2>2, SlotsFinite
  <2>4. Cardinality(1 .. count) = count
    BY <1>1, FS_Interval
  <2> QED
    BY <2>1, <2>3, <2>4
<1>3. S # {} /\ \A x \in S : buf[x] \in Nat
  <2>1. S \subseteq 0 .. queueSamples - 1
    BY <1>1, <1>2, SlotCases
  <2>2. SlotOf(head, count, 1) \in S
    BY <1>1, <1>2
  <2> QED
    BY <1>1, <2>1, <2>2
<1>4. mean = SumFunctionOnSet(buf, S) \div Cardinality(S)
  <2>1. SimpleAvg(buf, head, count) = SumFunctionOnSet(buf, S) \div count
    BY DEF SimpleAvg
  <2>2. Cardinality(S) = count
    BY <1>2
  <2> QED
    BY <2>1, <2>2, Zenon
<1>5. K \in SUBSET S /\ \A x \in S : x \in K <=> buf[x] < 2 * mean
  OBVIOUS
<1>6. /\ mean \in Nat
      /\ K # {} => /\ Cardinality(K) \in Nat \ {0}
                   /\ SumFunctionOnSet(buf, K) \div Cardinality(K) \in 0 .. mean
  <2> HIDE DEF S, mean, K
  <2> QED
    BY <1>2, <1>3, <1>4, <1>5, TrimmedMean
<1>7. FilteredAvg(buf, head, count)
        = IF K = {} THEN SumFunctionOnSet(buf, {}) \div 1
          ELSE SumFunctionOnSet(buf, K) \div Cardinality(K)
  BY DEF FilteredAvg
<1>8. SumFunctionOnSet(buf, {}) \div 1 = 0
  BY SumEmpty
<1> QED
  BY <1>6, <1>7, <1>8

-----------------------------------------------------------------------------
(* The inductive invariant.                                                 *)

(* The mutex is held exactly between Lock and Unlock.                       *)
MutexInv ==
  /\ mu = "sampler" <=> sampler.pc \in {"write", "unlock"}
  /\ mu = "stats" <=> stats.pc \in {"read", "unlock"}

(* Until it is published, what the sampler computed is about the ring.      *)
SamplerInv ==
  /\ sampler.filtered <= sampler.simple
  /\ sampler.pc \in {"lock", "write", "unlock", "update"} =>
       /\ sampleCount > 0
       /\ sampler.filtered = FilteredAvg(samples, sampleHead, sampleCount)

(* The shared averages disagree only while the sampler holds the mutex and  *)
(* has stored one of the two.                                               *)
SharedInv ==
  /\ sampler.pc = "unlock" => sharedStats.simple = sampler.simple
  /\ sampler.pc # "unlock" => sharedStats.filtered <= sharedStats.simple

(* The reporter has a pair of averages as soon as it releases the mutex.    *)
ReportInv ==
  /\ stats.pc = "unlock" => stats.filtered = sharedStats.filtered
  /\ stats.pc = "print" => stats.filtered <= stats.simple
  /\ PrintedAveragesMatch

(* Main stops the reporter, then the sampler, then closes the links.        *)
ShutdownInv ==
  /\ main \in {"sampleDone", "close", "exited"} => stats.pc \in {"done", "fatal"}
  /\ stats.pc = "fatal" => main = "exited"
  /\ ClosedAfterUse

DaemonInv ==
  TypeOK /\ MutexInv /\ SamplerInv /\ SharedInv /\ ReportInv /\ ShutdownInv

LEMMA InitInv == Init => DaemonInv
BY DaemonAssumption DEF Init, DaemonInv, TypeOK, MutexInv, SamplerInv, SharedInv,
   ReportInv, ShutdownInv, PrintedAveragesMatch, ClosedAfterUse, Averages,
   NoAverages, AtSelect

(* A tick of the sampler: what it stores and computes.                      *)
LEMMA SampleTypes ==
  ASSUME TypeOK, NEW bits \in QueueBits, Sample(bits)
  PROVE  /\ samples' \in [0 .. queueSamples - 1 -> QueueBits]
         /\ sampleHead' \in 0 .. queueSamples - 1
         /\ sampleCount' \in 1 .. queueSamples
         /\ sampler'.pc = "lock"
         /\ sampler' \in [pc : {"lock"}, simple : Nat, filtered : Nat]
         /\ sampler'.filtered <= sampler'.simple
         /\ sampler'.filtered = FilteredAvg(samples', sampleHead', sampleCount')
<1>1. queueSamples \in Nat \ {0}
  BY DaemonAssumption
<1>2. samples' \in [0 .. queueSamples - 1 -> QueueBits]
  BY DEF TypeOK, Sample
<1>3. sampleHead' \in 0 .. queueSamples - 1
  <2>1. sampleHead + 1 \in Int /\ sampleHead' = (sampleHead + 1) % queueSamples
    BY <1>1 DEF TypeOK, Sample
  <2> QED
    BY <1>1, <2>1
<1>4. sampleCount' \in 1 .. queueSamples
  BY <1>1 DEF TypeOK, Sample
<1>5. PICK mean, kept :
        /\ mean = SimpleAvg(samples', sampleHead', sampleCount')
        /\ kept = FilteredAvg(samples', sampleHead', sampleCount')
        /\ mean \in Nat /\ kept \in 0 .. mean
  BY <1>2, <1>3, <1>4, SamplerAverages
<1>6. sampler' = [pc |-> "lock", simple |-> mean, filtered |-> kept]
  BY <1>5 DEF Sample
<1> QED
  BY <1>2, <1>3, <1>4, <1>5, <1>6

LEMMA TypeStep == DaemonInv /\ [Next]_dvars => TypeOK'
<1> SUFFICES ASSUME DaemonInv, [Next]_dvars PROVE TypeOK'
  OBVIOUS
<1>t. TypeOK
  BY DEF DaemonInv
<1>1. ASSUME NEW bits \in QueueBits, Sample(bits) PROVE TypeOK'
  <2>1. /\ samples' \in [0 .. queueSamples - 1 -> QueueBits]
        /\ sampleHead' \in 0 .. queueSamples - 1
        /\ sampleCount' \in 1 .. queueSamples
        /\ sampler' \in [pc : {"lock"}, simple : Nat, filtered : Nat]
    BY <1>t, <1>1, SampleTypes
  <2>2. sampleCount' \in 0 .. queueSamples
    BY <2>1, DaemonAssumption
  <2>3. sampler' \in [pc : {"select", "lock", "write", "unlock", "update", "done"},
                      simple : Nat, filtered : Nat]
    BY <2>1
  <2>4. /\ avg_queue_bits' = avg_queue_bits /\ stats' = stats /\ main' = main
        /\ sharedStats' = sharedStats /\ mu' = mu /\ printed' = printed
        /\ ticks' \subseteq ticks
    BY <1>1 DEF Sample
  <2> QED
    BY <1>t, <2>1, <2>2, <2>3, <2>4 DEF TypeOK
<1>2. CASE SamplerLock
  BY <1>t, <1>2 DEF TypeOK, SamplerLock, ring, Averages
<1>3. CASE WriteSimple
  BY <1>t, <1>3 DEF TypeOK, WriteSimple, ring, Averages
<1>4. CASE WriteFiltered
  BY <1>t, <1>4 DEF TypeOK, WriteFiltered, ring, Averages
<1>5. CASE PublishAvg
  BY <1>t, <1>5 DEF TypeOK, PublishAvg, AtSelect, ring, Averages
<1>6. CASE StatsStep
  <2>1. CASE StatsTick \/ StatsFatal \/ StatsLock
    BY <1>t, <2>1 DEF TypeOK, StatsTick, StatsFatal, StatsLock, ring, Averages
  <2>2. CASE ReadFiltered \/ ReadSimple
    BY <1>t, <2>2 DEF TypeOK, ReadFiltered, ReadSimple, ring, Averages
  <2>3. CASE PrintLine
    BY <1>t, <2>3 DEF TypeOK, PrintLine, AtSelect, ring, Averages
  <2> QED
    BY <1>6, <2>1, <2>2, <2>3 DEF StatsStep
<1>7. CASE MainStep \/ Signal
  BY <1>t, <1>7 DEF TypeOK, MainStep, SendStatsDone, SendSampleDone, CloseLinks,
     Signal, ring, Averages
<1>8. CASE \E t \in {"stats", "sample"} : Fire(t)
  BY <1>t, <1>8 DEF TypeOK, Fire, ring, Averages
<1>9. CASE UNCHANGED dvars
  BY <1>t, <1>9 DEF TypeOK, dvars, Averages
<1> QED
  BY <1>1, <1>2, <1>3, <1>4, <1>5, <1>6, <1>7, <1>8, <1>9 DEF Next, SamplerStep

LEMMA RestStep ==
  DaemonInv /\ [Next]_dvars =>
    MutexInv' /\ SamplerInv' /\ SharedInv' /\ ReportInv' /\ ShutdownInv'
<1> SUFFICES ASSUME DaemonInv, [Next]_dvars
             PROVE  MutexInv' /\ SamplerInv' /\ SharedInv' /\ ReportInv' /\ ShutdownInv'
  OBVIOUS
<1> USE DEF PrintedAveragesMatch, ClosedAfterUse
<1>i. TypeOK /\ MutexInv /\ SamplerInv /\ SharedInv /\ ReportInv /\ ShutdownInv
  BY DEF DaemonInv
<1>1. ASSUME NEW bits \in QueueBits, Sample(bits)
      PROVE  MutexInv' /\ SamplerInv' /\ SharedInv' /\ ReportInv' /\ ShutdownInv'
  <2>1. MutexInv' /\ SharedInv' /\ ReportInv' /\ ShutdownInv'
    BY <1>i, <1>1, SampleTypes DEF Sample, MutexInv, SharedInv, ReportInv,
       ShutdownInv, Running
  <2>2. sampler'.filtered <= sampler'.simple /\ sampleCount' > 0
        /\ sampler'.filtered = FilteredAvg(samples', sampleHead', sampleCount')
    BY <1>i, <1>1, SampleTypes, DaemonAssumption
  <2> QED
    BY <2>1, <2>2 DEF SamplerInv
<1>2. CASE SamplerLock
  BY <1>i, <1>2 DEF SamplerLock, TypeOK, ring, Running,
     MutexInv, SamplerInv, SharedInv, ReportInv, ShutdownInv
<1>3. CASE WriteSimple
  BY <1>i, <1>3 DEF WriteSimple, TypeOK, ring, Running, Averages,
     MutexInv, SamplerInv, SharedInv, ReportInv, ShutdownInv
<1>4. CASE WriteFiltered
  BY <1>i, <1>4 DEF WriteFiltered, TypeOK, ring, Running, Averages,
     MutexInv, SamplerInv, SharedInv, ReportInv, ShutdownInv
<1>5. CASE PublishAvg
  BY <1>i, <1>5 DEF PublishAvg, AtSelect, TypeOK, ring, Running,
     MutexInv, SamplerInv, SharedInv, ReportInv, ShutdownInv
<1>6. CASE StatsTick \/ StatsFatal
  BY <1>i, <1>6 DEF StatsTick, StatsFatal, TypeOK, ring, Running,
     MutexInv, SamplerInv, SharedInv, ReportInv, ShutdownInv
<1>7. CASE StatsLock
  BY <1>i, <1>7 DEF StatsLock, TypeOK, ring, Running,
     MutexInv, SamplerInv, SharedInv, ReportInv, ShutdownInv
<1>8. CASE ReadFiltered
  BY <1>i, <1>8 DEF ReadFiltered, TypeOK, ring, Running,
     MutexInv, SamplerInv, SharedInv, ReportInv, ShutdownInv
<1>9. CASE ReadSimple
  BY <1>i, <1>9 DEF ReadSimple, TypeOK, ring, Running, Averages,
     MutexInv, SamplerInv, SharedInv, ReportInv, ShutdownInv
<1>10. CASE PrintLine
  BY <1>i, <1>10 DEF PrintLine, AtSelect, TypeOK, ring, Running,
     MutexInv, SamplerInv, SharedInv, ReportInv, ShutdownInv
<1>11. CASE MainStep \/ Signal
  BY <1>i, <1>11 DEF MainStep, SendStatsDone, SendSampleDone, CloseLinks, Signal,
     TypeOK, ring, MutexInv, SamplerInv, SharedInv, ReportInv, ShutdownInv
<1>12. CASE \E t \in {"stats", "sample"} : Fire(t)
  BY <1>i, <1>12 DEF Fire, ring, MutexInv, SamplerInv, SharedInv, ReportInv,
     ShutdownInv
<1>13. CASE UNCHANGED dvars
  BY <1>i, <1>13 DEF dvars, MutexInv, SamplerInv, SharedInv, ReportInv, ShutdownInv
<1> QED
  BY <1>1, <1>2, <1>3, <1>4, <1>5, <1>6, <1>7, <1>8, <1>9, <1>10, <1>11, <1>12,
     <1>13 DEF Next, SamplerStep, StatsStep

LEMMA DaemonInvariant == Spec => []DaemonInv
<1>1. DaemonInv /\ [Next]_dvars => DaemonInv'
  BY TypeStep, RestStep DEF DaemonInv
<1> QED
  BY InitInv, <1>1, PTL DEF Spec

(* Every state of the daemon has the shape of TypeOK: the ring's positions   *)
(* stay within it, and the averages it publishes are lengths (85-98).        *)
THEOREM DaemonTypeCorrect == Spec => []TypeOK
<1>1. DaemonInv => TypeOK
  BY DEF DaemonInv
<1> QED
  BY <1>1, DaemonInvariant, PTL

(* A printed filtered average never exceeds the simple one beside it.        *)
THEOREM PrintedAveragesAgree == Spec => []PrintedAveragesMatch
<1>1. DaemonInv => PrintedAveragesMatch
  BY DEF DaemonInv, ReportInv
<1> QED
  BY <1>1, DaemonInvariant, PTL

(* The links are closed after both goroutines have returned.                 *)
THEOREM LinksClosedAfterUse == Spec => []ClosedAfterUse
<1>1. DaemonInv => ClosedAfterUse
  BY DEF DaemonInv, ShutdownInv
<1> QED
  BY <1>1, DaemonInvariant, PTL

-----------------------------------------------------------------------------
(* Refinement: the ring with its head and count is the window of the last   *)
(* observations, and its averages are the window's.                         *)

RecentOf(buf, head, count) ==
  [j \in 1 .. count |-> buf[SlotOf(head, count, j)]]

LEMMA RecentIs ==
  /\ Recent = RecentOf(samples, sampleHead, sampleCount)
  /\ Recent' = RecentOf(samples', sampleHead', sampleCount')
BY DEF Recent, RecentOf, SlotOf

LEMMA WindowShape ==
  ASSUME NEW buf \in [0 .. queueSamples - 1 -> QueueBits],
         NEW head \in 0 .. queueSamples - 1, NEW count \in 0 .. queueSamples
  PROVE  /\ RecentOf(buf, head, count) \in Seq(QueueBits)
         /\ Len(RecentOf(buf, head, count)) = count
         /\ DOMAIN RecentOf(buf, head, count) = 1 .. count
         /\ \A j \in 1 .. count :
              /\ RecentOf(buf, head, count)[j] = buf[SlotOf(head, count, j)]
              /\ RecentOf(buf, head, count)[j] \in QueueBits
              /\ RecentOf(buf, head, count)[j] \in Int
<1> DEFINE s == RecentOf(buf, head, count)
<1>1. count \in Nat
  BY DaemonAssumption
<1>2. s \in [1 .. count -> QueueBits]
  BY SlotCases DEF RecentOf
<1>3. s \in Seq(QueueBits) /\ Len(s) = count
  <2> HIDE DEF s
  <2>1. s \in Seq(QueueBits)
    BY <1>1, <1>2, SeqDef
  <2>2. DOMAIN s = 1 .. Len(s) /\ Len(s) \in Nat
    BY <2>1, LenProperties
  <2>3. DOMAIN s = 1 .. count
    BY <1>2
  <2>4. Len(s) = count
    <3>1. \A m, n \in Nat : 1 .. m = 1 .. n => m <= n
      <4> SUFFICES ASSUME NEW m \in Nat, NEW n \in Nat, 1 .. m = 1 .. n, m > 0
                   PROVE  m <= n
        OBVIOUS
      <4>1. m \in 1 .. n
        OBVIOUS
      <4> QED
        BY <4>1
    <3>2. Len(s) <= count /\ count <= Len(s)
      BY <1>1, <2>2, <2>3, <3>1, Zenon
    <3>3. Len(s) \in Nat
      BY <2>2
    <3> QED
      BY ONLY <1>1, <3>2, <3>3
  <2> QED
    BY <2>1, <2>4
<1>4. \A j \in 1 .. count : s[j] = buf[SlotOf(head, count, j)]
  BY DEF RecentOf
<1>5. \A j \in 1 .. count : s[j] \in QueueBits /\ s[j] \in Int
  <2> HIDE DEF s
  <2>1. \A j \in 1 .. count : s[j] \in QueueBits
    BY <1>2
  <2>2. QueueBits \subseteq Int
    BY DaemonAssumption
  <2> QED
    BY <2>1, <2>2, Zenon
<1> QED
  BY <1>2, <1>3, <1>4, <1>5

(* The window's sums and cardinalities are the ring's.                      *)
LEMMA WindowSums ==
  /\ \A s, I : Window!SumFunctionOnSet(s, I) = SumFunctionOnSet(s, I)
  /\ \A I : Window!Cardinality(I) = Cardinality(I)
<1>1. ASSUME NEW s, NEW I
      PROVE  Window!SumFunctionOnSet(s, I) = SumFunctionOnSet(s, I)
  BY Zenon DEF SumFunctionOnSet, FoldFunctionOnSet, MapThenFoldSet,
     Window!SumFunctionOnSet, Window!FoldFunctionOnSet, Window!MapThenFoldSet
<1>2. ASSUME NEW I PROVE Window!Cardinality(I) = Cardinality(I)
  BY Zenon DEF Cardinality, Window!Cardinality
<1> QED
  BY <1>1, <1>2

(* The mean over positions of the window is the mean over their slots.      *)
LEMMA WindowMean ==
  ASSUME NEW buf \in [0 .. queueSamples - 1 -> QueueBits],
         NEW head \in 0 .. queueSamples - 1, NEW count \in 0 .. queueSamples,
         NEW I \in SUBSET (1 .. count),
         NEW T, \A j \in I : SlotOf(head, count, j) \in T,
         \A z \in T : \E j \in I : z = SlotOf(head, count, j)
  PROVE  /\ I = {} <=> T = {}
         /\ Window!Mean(RecentOf(buf, head, count), I)
              = IF T = {} THEN 0 ELSE SumFunctionOnSet(buf, T) \div Cardinality(T)
<1> DEFINE s == RecentOf(buf, head, count)
<1>1. PICK h : /\ h = [j \in I |-> SlotOf(head, count, j)]
               /\ IsFiniteSet(I) /\ Cardinality(T) = Cardinality(I)
               /\ h \in Bijection(I, T)
  <2>1. T = { SlotOf(head, count, j) : j \in I }
    OBVIOUS
  <2> QED
    BY <2>1, SlotsFinite
<1>2. \A x \in I : s[x] \in Int /\ s[x] = buf[h[x]]
  <2> SUFFICES ASSUME NEW x \in I PROVE s[x] \in Int /\ s[x] = buf[h[x]]
    OBVIOUS
  <2>1. s[x] = buf[SlotOf(head, count, x)] /\ s[x] \in Int
    BY WindowShape
  <2>2. h[x] = SlotOf(head, count, x)
    BY <1>1
  <2> HIDE DEF s
  <2> QED
    BY <2>1, <2>2, Zenon
<1>3. SameTerms(h, s, I, buf, T)
  BY <1>1, <1>2 DEF SameTerms
<1>4. SumFunctionOnSet(s, I) = SumFunctionOnSet(buf, T)
  <2> HIDE DEF s
  <2>1. IsFiniteSet(I)
    BY <1>1
  <2> QED
    BY ONLY <1>3, <2>1, SumBijection
<1>5. I = {} <=> T = {}
  OBVIOUS
<1>6. Window!Mean(s, I)
        = IF I = {} THEN 0 ELSE SumFunctionOnSet(s, I) \div Cardinality(I)
  BY WindowSums DEF Window!Mean
<1>7. Cardinality(T) = Cardinality(I)
  BY <1>1
<1> HIDE DEF s
<1> QED
  BY <1>4, <1>5, <1>6, <1>7, Zenon DEF s

(* The sampler's filtered average is the window's.                          *)
LEMMA FilteredIsTypical ==
  ASSUME NEW buf \in [0 .. queueSamples - 1 -> QueueBits],
         NEW head \in 0 .. queueSamples - 1, NEW count \in 1 .. queueSamples
  PROVE  LET s == RecentOf(buf, head, count)
         IN  FilteredAvg(buf, head, count) = Window!Mean(s, Window!Typical(s))
<1> DEFINE s == RecentOf(buf, head, count)
           mean == SimpleAvg(buf, head, count)
           S == Slots(head, count)
           K == { i \in S : buf[i] < 2 * mean }
           I == { j \in 1 .. count : s[j] < 2 * mean }
<1>1. count \in 0 .. queueSamples /\ queueSamples \in Nat \ {0}
  BY DaemonAssumption
<1>2. S = { SlotOf(head, count, j) : j \in 1 .. count }
  BY <1>1, SlotsOf
<1>3. 1 .. count \in SUBSET (1 .. count) /\ I \in SUBSET (1 .. count)
  OBVIOUS
<1>4. Window!Mean(s, 1 .. count) = mean
  <2>1. S # {}
    BY <1>1, <1>2
  <2>2. Cardinality(S) = count
    <3>1. Cardinality(S) = Cardinality(1 .. count)
      <4> HIDE DEF S
      <4> QED
        BY <1>1, <1>2, <1>3, SlotsFinite
    <3> QED
      BY <1>1, <3>1, FS_Interval
  <2>3. Window!Mean(s, 1 .. count)
          = IF S = {} THEN 0 ELSE SumFunctionOnSet(buf, S) \div Cardinality(S)
    <3> HIDE DEF S
    <3>1. /\ \A j \in 1 .. count : SlotOf(head, count, j) \in S
          /\ \A z \in S : \E j \in 1 .. count : z = SlotOf(head, count, j)
      BY <1>2
    <3> QED
      BY <1>1, <1>3, <3>1, WindowMean
  <2>4. mean = SumFunctionOnSet(buf, S) \div count
    BY DEF SimpleAvg
  <2> HIDE DEF S, mean, s
  <2> QED
    BY <2>1, <2>2, <2>3, <2>4, Zenon
<1>5. Window!Typical(s) = I
  <2>1. DOMAIN s = 1 .. count
    BY <1>1, WindowShape
  <2>2. Window!Typical(s) = { i \in DOMAIN s : s[i] < 2 * Window!Mean(s, DOMAIN s) }
    BY DEF Window!Typical
  <2> HIDE DEF mean, s
  <2> QED
    BY <1>4, <2>1, <2>2
<1>6. K = { SlotOf(head, count, j) : j \in I }
  <2>1. \A j \in 1 .. count : s[j] = buf[SlotOf(head, count, j)]
    BY <1>1, WindowShape
  <2> HIDE DEF mean, s
  <2> QED
    BY <1>2, <2>1
<1>7. Window!Mean(s, I)
        = IF K = {} THEN 0 ELSE SumFunctionOnSet(buf, K) \div Cardinality(K)
  <2> HIDE DEF I, K
  <2>1. /\ \A j \in I : SlotOf(head, count, j) \in K
        /\ \A z \in K : \E j \in I : z = SlotOf(head, count, j)
    BY <1>6
  <2> QED
    BY <1>1, <1>3, <2>1, WindowMean
<1>8. FilteredAvg(buf, head, count)
        = IF K = {} THEN 0 ELSE SumFunctionOnSet(buf, K) \div Cardinality(K)
  <2>1. FilteredAvg(buf, head, count)
          = SumFunctionOnSet(buf, K) \div (IF K = {} THEN 1 ELSE Cardinality(K))
    BY DEF FilteredAvg
  <2>2. SumFunctionOnSet(buf, {}) \div 1 = 0
    BY SumEmpty
  <2> HIDE DEF K
  <2> QED
    BY <2>1, <2>2
<1> QED
  BY <1>5, <1>7, <1>8

(* Where the observations are after one more: the new one overwrites the    *)
(* slot at the head, and the others stay where they were.                   *)
LEMMA NextSlots ==
  ASSUME NEW head \in 0 .. queueSamples - 1, NEW count \in 0 .. queueSamples,
         NEW next, next = (head + 1) % queueSamples
  PROVE  /\ next \in 0 .. queueSamples - 1
         /\ count < queueSamples =>
              /\ \A j \in 1 .. count :
                   /\ SlotOf(next, count + 1, j) = SlotOf(head, count, j)
                   /\ SlotOf(head, count, j) # head
              /\ SlotOf(next, count + 1, count + 1) = head
         /\ count = queueSamples =>
              /\ \A j \in 1 .. count - 1 :
                   /\ SlotOf(next, count, j) = SlotOf(head, count, j + 1)
                   /\ SlotOf(head, count, j + 1) # head
              /\ SlotOf(next, count, count) = head
<1>1. queueSamples \in Nat \ {0} /\ head \in Int /\ count \in Int
  BY DaemonAssumption
<1>2. next = IF head = queueSamples - 1 THEN 0 ELSE head + 1
  <2>1. PICK a : a = head + 1 /\ a \in Int /\ 0 <= a /\ a <= queueSamples
    BY <1>1
  <2>2. a < queueSamples => a % queueSamples = a
    BY <1>1, <2>1, Wraps
  <2>3. a = queueSamples => a % queueSamples = a - queueSamples
    BY <1>1, <2>1, Wraps
  <2> QED
    BY <1>1, <2>1, <2>2, <2>3
<1>3. next \in 0 .. queueSamples - 1
  BY <1>1, <1>2
<1>4. ASSUME count < queueSamples
      PROVE  /\ \A j \in 1 .. count :
                  /\ SlotOf(next, count + 1, j) = SlotOf(head, count, j)
                  /\ SlotOf(head, count, j) # head
             /\ SlotOf(next, count + 1, count + 1) = head
  <2>1. PICK more : more = count + 1 /\ more \in 1 .. queueSamples
    BY <1>1, <1>4
  <2>2. ASSUME NEW j \in 1 .. count
        PROVE  SlotOf(next, more, j) = SlotOf(head, count, j)
               /\ SlotOf(head, count, j) # head
    <3>1. SlotOf(head, count, j) = IF head - count + j - 1 >= 0
             THEN head - count + j - 1 ELSE head - count + j - 1 + queueSamples
      BY SlotCases
    <3>2. j \in 1 .. more /\ more \in 0 .. queueSamples
      BY <1>1, <2>1
    <3>3. SlotOf(next, more, j) = IF next - more + j - 1 >= 0
             THEN next - more + j - 1 ELSE next - more + j - 1 + queueSamples
      BY <1>3, <3>2, SlotCases
    <3> QED
      BY <1>1, <1>2, <2>1, <3>1, <3>3
  <2>3. SlotOf(next, more, more) = head
    <3>1. more \in 1 .. more /\ more \in 0 .. queueSamples
      BY <1>1, <2>1
    <3>2. SlotOf(next, more, more) = IF next - more + more - 1 >= 0
             THEN next - more + more - 1 ELSE next - more + more - 1 + queueSamples
      BY <1>3, <3>1, SlotCases
    <3> QED
      BY <1>1, <1>2, <2>1, <3>2
  <2> QED
    BY <2>1, <2>2, <2>3
<1>5. ASSUME count = queueSamples
      PROVE  /\ \A j \in 1 .. count - 1 :
                  /\ SlotOf(next, count, j) = SlotOf(head, count, j + 1)
                  /\ SlotOf(head, count, j + 1) # head
             /\ SlotOf(next, count, count) = head
  <2>2. ASSUME NEW j \in 1 .. count - 1
        PROVE  SlotOf(next, count, j) = SlotOf(head, count, j + 1)
               /\ SlotOf(head, count, j + 1) # head
    <3>1. PICK i : i = j + 1 /\ i \in 1 .. count /\ j \in 1 .. count
      BY <1>1, <1>5
    <3>2. SlotOf(head, count, i) = IF head - count + i - 1 >= 0
             THEN head - count + i - 1 ELSE head - count + i - 1 + queueSamples
      BY <3>1, SlotCases
    <3>3. SlotOf(next, count, j) = IF next - count + j - 1 >= 0
             THEN next - count + j - 1 ELSE next - count + j - 1 + queueSamples
      BY <1>3, <3>1, SlotCases
    <3>4. i \in Int /\ j \in Int /\ 1 <= j /\ j < queueSamples
      BY <1>1, <1>5, <3>1
    <3> QED
      BY <1>1, <1>2, <1>5, <3>1, <3>2, <3>3, <3>4
  <2>3. SlotOf(next, count, count) = head
    <3>1. count \in 1 .. count
      BY <1>1, <1>5
    <3>2. SlotOf(next, count, count) = IF next - count + count - 1 >= 0
             THEN next - count + count - 1 ELSE next - count + count - 1 + queueSamples
      BY <1>3, <3>1, SlotCases
    <3> QED
      BY <1>1, <1>2, <1>5, <3>2
  <2> QED
    BY <2>2, <2>3
<1> QED
  BY <1>3, <1>4, <1>5

LEMMA KeptWhileFilling ==
  ASSUME NEW head \in 0 .. queueSamples - 1, NEW count \in 0 .. queueSamples,
         NEW next, next = (head + 1) % queueSamples,
         count < queueSamples, NEW j \in 1 .. count
  PROVE  /\ SlotOf(next, count + 1, j) = SlotOf(head, count, j)
         /\ SlotOf(head, count, j) # head
BY NextSlots

LEMMA KeptWhenFull ==
  ASSUME NEW head \in 0 .. queueSamples - 1, NEW count \in 0 .. queueSamples,
         NEW next, next = (head + 1) % queueSamples,
         count = queueSamples, NEW j \in 1 .. count - 1
  PROVE  /\ SlotOf(next, count, j) = SlotOf(head, count, j + 1)
         /\ SlotOf(head, count, j + 1) # head
BY NextSlots

LEMMA SampleObserves ==
  ASSUME TypeOK, NEW bits \in QueueBits, Sample(bits)
  PROVE  Window!Observe(bits)
<1>1. PICK s, t :
        /\ s = Recent /\ s = RecentOf(samples, sampleHead, sampleCount)
        /\ t = Recent' /\ t = RecentOf(samples', sampleHead', sampleCount')
  BY RecentIs
<1>2. /\ samples' = [samples EXCEPT ![sampleHead] = bits]
      /\ sampleHead' = (sampleHead + 1) % queueSamples
      /\ sampleCount' = IF sampleCount < queueSamples
                        THEN sampleCount + 1 ELSE sampleCount
      /\ avg_queue_bits' = avg_queue_bits
  BY DEF Sample
<1>3. /\ samples \in [0 .. queueSamples - 1 -> QueueBits]
      /\ sampleHead \in 0 .. queueSamples - 1 /\ sampleCount \in 0 .. queueSamples
      /\ queueSamples \in Nat \ {0}
  BY DaemonAssumption DEF TypeOK
<1>4. /\ samples' \in [0 .. queueSamples - 1 -> QueueBits]
      /\ sampleHead' \in 0 .. queueSamples - 1 /\ sampleCount' \in 0 .. queueSamples
  <2>1. sampleCount' \in 1 .. queueSamples
    BY SampleTypes
  <2> QED
    BY <1>3, <2>1, SampleTypes
<1>5. /\ s \in Seq(QueueBits) /\ Len(s) = sampleCount
      /\ \A j \in 1 .. sampleCount : s[j] = samples[SlotOf(sampleHead, sampleCount, j)]
  <2>1. LET r == RecentOf(samples, sampleHead, sampleCount)
        IN  /\ r \in Seq(QueueBits) /\ Len(r) = sampleCount
            /\ \A j \in 1 .. sampleCount :
                 r[j] = samples[SlotOf(sampleHead, sampleCount, j)]
    BY <1>3, WindowShape
  <2> QED
    BY <1>1, <2>1, Zenon
<1>6. /\ t \in Seq(QueueBits) /\ Len(t) = sampleCount'
      /\ \A j \in 1 .. sampleCount' :
           t[j] = samples'[SlotOf(sampleHead', sampleCount', j)]
  <2>1. LET r == RecentOf(samples', sampleHead', sampleCount')
        IN  /\ r \in Seq(QueueBits) /\ Len(r) = sampleCount'
            /\ \A j \in 1 .. sampleCount' :
                 r[j] = samples'[SlotOf(sampleHead', sampleCount', j)]
    BY <1>4, WindowShape
  <2> QED
    BY <1>1, <2>1, Zenon
<1>7. /\ samples'[sampleHead] = bits
      /\ \A i \in 0 .. queueSamples - 1 : i # sampleHead => samples'[i] = samples[i]
  BY <1>2, <1>3
<1>8. CASE sampleCount < queueSamples
  <2>1. /\ Append(s, bits) \in Seq(QueueBits) /\ Len(Append(s, bits)) = sampleCount + 1
        /\ \A j \in 1 .. sampleCount : Append(s, bits)[j] = s[j]
        /\ Append(s, bits)[sampleCount + 1] = bits
    BY <1>3, <1>5, AppendProperties
  <2>2. sampleCount' = sampleCount + 1
    BY <1>2, <1>8
  <2>3. \A j \in 1 .. sampleCount : t[j] = s[j]
    <3> SUFFICES ASSUME NEW j \in 1 .. sampleCount PROVE t[j] = s[j]
      OBVIOUS
    <3>1. /\ SlotOf(sampleHead', sampleCount + 1, j) = SlotOf(sampleHead, sampleCount, j)
          /\ SlotOf(sampleHead, sampleCount, j) # sampleHead
      BY <1>2, <1>3, <1>8, KeptWhileFilling
    <3>2. SlotOf(sampleHead, sampleCount, j) \in 0 .. queueSamples - 1
      BY <1>3, SlotCases
    <3>3. j \in 1 .. sampleCount'
      BY <1>3, <2>2
    <3> QED
      BY <1>5, <1>6, <1>7, <2>2, <3>1, <3>2, <3>3
  <2>4. t[sampleCount + 1] = bits
    <3>1. SlotOf(sampleHead', sampleCount + 1, sampleCount + 1) = sampleHead
      BY <1>2, <1>3, <1>8, NextSlots
    <3>2. sampleCount + 1 \in 1 .. sampleCount'
      BY <1>3, <2>2
    <3> QED
      BY <1>6, <1>7, <2>2, <3>1, <3>2
  <2>5. t = Append(s, bits)
    <3>1. Len(t) = Len(Append(s, bits))
      BY <1>6, <2>1, <2>2
    <3>2. \A j \in 1 .. Len(t) : t[j] = Append(s, bits)[j]
      BY <1>3, <1>6, <2>1, <2>2, <2>3, <2>4
    <3> QED
      BY <1>6, <2>1, <3>1, <3>2, SeqEqual
  <2> QED
    BY <1>1, <1>2, <1>5, <1>8, <2>5 DEF Window!Observe
<1>9. CASE sampleCount = queueSamples
  <2>1. s # <<>>
    BY <1>3, <1>5, <1>9
  <2>2. /\ Tail(s) \in Seq(QueueBits) /\ Len(Tail(s)) = sampleCount - 1
        /\ \A j \in 1 .. sampleCount - 1 : Tail(s)[j] = s[j + 1]
    BY <1>3, <1>5, <2>1, HeadTailProperties
  <2>3. PICK u : u = Append(Tail(s), bits)
    OBVIOUS
  <2>4. /\ u \in Seq(QueueBits) /\ Len(u) = sampleCount
        /\ \A j \in 1 .. sampleCount - 1 : u[j] = s[j + 1]
        /\ u[sampleCount] = bits
    BY <1>3, <2>2, <2>3, AppendProperties
  <2>5. sampleCount' = sampleCount /\ ~ (sampleCount < queueSamples)
    BY <1>2, <1>3, <1>9
  <2>6. \A j \in 1 .. sampleCount - 1 : t[j] = s[j + 1]
    <3> SUFFICES ASSUME NEW j \in 1 .. sampleCount - 1 PROVE t[j] = s[j + 1]
      OBVIOUS
    <3>1. /\ SlotOf(sampleHead', sampleCount, j) = SlotOf(sampleHead, sampleCount, j + 1)
          /\ SlotOf(sampleHead, sampleCount, j + 1) # sampleHead
      BY <1>2, <1>3, <1>9, KeptWhenFull
    <3>2. j + 1 \in 1 .. sampleCount /\ j \in 1 .. sampleCount
      BY <1>3
    <3>3. SlotOf(sampleHead, sampleCount, j + 1) \in 0 .. queueSamples - 1
      BY <1>3, <3>2, SlotCases
    <3> QED
      BY <1>5, <1>6, <1>7, <2>5, <3>1, <3>2, <3>3
  <2>7. t[sampleCount] = bits
    <3>1. SlotOf(sampleHead', sampleCount, sampleCount) = sampleHead
      BY <1>2, <1>3, <1>9, NextSlots
    <3>2. sampleCount \in 1 .. sampleCount'
      BY <1>3, <1>9, <2>5
    <3> QED
      BY <1>6, <1>7, <2>5, <3>1, <3>2
  <2>8. t = u
    <3>1. Len(t) = Len(u)
      BY <1>6, <2>4, <2>5
    <3>2. \A j \in 1 .. Len(t) : t[j] = u[j]
      BY <1>3, <1>6, <2>4, <2>5, <2>6, <2>7
    <3> QED
      BY <1>6, <2>4, <3>1, <3>2, SeqEqual
  <2> QED
    BY <1>1, <1>2, <1>5, <2>3, <2>5, <2>8 DEF Window!Observe
<1> QED
  BY <1>3, <1>8, <1>9

LEMMA StepImplementsWindow ==
  DaemonInv /\ [Next]_dvars => [Window!WNext]_(Window!wvars)
<1> SUFFICES ASSUME DaemonInv, [Next]_dvars
             PROVE  Window!WNext \/ UNCHANGED Window!wvars
  OBVIOUS
<1>t. TypeOK
  BY DEF DaemonInv
<1>1. ASSUME NEW bits \in QueueBits, Sample(bits) PROVE Window!WNext
  <2>1. Window!Observe(bits)
    BY <1>t, <1>1, SampleObserves
  <2> QED
    BY <2>1 DEF Window!WNext
<1>2. CASE PublishAvg
  <2>1. UNCHANGED ring
    BY <1>2 DEF PublishAvg
  <2>2. Recent' = Recent
    BY <2>1 DEF Recent, ring
  <2>3. CASE avg_queue_bits' = avg_queue_bits
    BY <2>2, <2>3 DEF Window!wvars
  <2>4. CASE avg_queue_bits' = sampler.filtered
    <3>1. /\ sampleCount > 0
          /\ sampler.filtered = FilteredAvg(samples, sampleHead, sampleCount)
      BY <1>2 DEF PublishAvg, DaemonInv, SamplerInv
    <3>2. sampleCount \in 1 .. queueSamples /\ sampleCount \in 0 .. queueSamples
      BY <1>t, <3>1, DaemonAssumption DEF TypeOK
    <3>3. /\ samples \in [0 .. queueSamples - 1 -> QueueBits]
          /\ sampleHead \in 0 .. queueSamples - 1
      BY <1>t DEF TypeOK
    <3>4. avg_queue_bits' = Window!Mean(Recent, Window!Typical(Recent))
      BY <2>4, <3>1, <3>2, <3>3, FilteredIsTypical, RecentIs
    <3>5. Recent # <<>>
      <4>1. Len(Recent) = sampleCount
        BY <3>2, <3>3, WindowShape, RecentIs
      <4> QED
        BY <3>2, <4>1
    <3> QED
      BY <2>2, <3>4, <3>5 DEF Window!WNext, Window!Publish
  <2> QED
    BY <1>2, <2>3, <2>4 DEF PublishAvg
<1>3. CASE UNCHANGED <<avg_queue_bits, ring>>
  BY <1>3 DEF Window!wvars, Recent, ring
<1>4. CASE SamplerLock \/ WriteSimple \/ WriteFiltered \/ StatsStep \/ MainStep
           \/ Signal \/ (\E t \in {"stats", "sample"} : Fire(t)) \/ UNCHANGED dvars
  <2>1. UNCHANGED <<avg_queue_bits, ring>>
    BY <1>4 DEF SamplerLock, WriteSimple, WriteFiltered, StatsStep, StatsTick,
       StatsFatal, StatsLock, ReadFiltered, ReadSimple, PrintLine, MainStep,
       SendStatsDone, SendSampleDone, CloseLinks, Signal, Fire, dvars, ring
  <2> QED
    BY <1>3, <2>1
<1> QED
  BY <1>1, <1>2, <1>4 DEF Next, SamplerStep

(* The daemon implements the window of the last observations: every sample   *)
(* enters it in order, and every published average is its trimmed mean.      *)
THEOREM DaemonImplementsWindow == Spec => WindowSpec
<1>1. Init => Window!WInit
  <2> SUFFICES ASSUME Init PROVE Window!WInit
    OBVIOUS
  <2>1. Recent = [i \in 1 .. 0 |->
          samples[(sampleHead - sampleCount + i - 1 + queueSamples) % queueSamples]]
    BY DEF Recent, Init
  <2>2. Recent = <<>>
    BY <2>1
  <2> QED
    BY <2>2 DEF Init, Window!WInit
<1>2. DaemonInv /\ [Next]_dvars => [Window!WNext]_(Window!wvars)
  BY StepImplementsWindow
<1> QED
  BY <1>1, <1>2, DaemonInvariant, PTL DEF Spec, WindowSpec, Window!WSpec

-----------------------------------------------------------------------------
(* The batches of simulations, for every number of jobs, workers, batches  *)
(* and samples.                                                            *)

(* A job whose directory is being made does not have one.                  *)
Unmade == \A j \in Jobs : task[j] \in {"head", "mkhead", "leaf"} => j \notin dirs

(* Simulations belong to batches that have been started, and begin at the  *)
(* first line.                                                             *)
SimsOfBatches ==
  \A b \in 1 .. MaxBatches, j \in Jobs :
    /\ b > batch => sim[<<b, j>>] = "off"
    /\ sim[<<b, j>>] \in {"off", "starting"} => written[<<b, j>>] = 0

(* How far a job of the present batch is, and what its log holds then.     *)
BeforeSim == {"queued", "head", "mkhead", "leaf", "popen"}

TaskMatchesSim(j) ==
  /\ task[j] # "none"
  /\ task[j] \in BeforeSim => sim[<<batch, j>>] = "off"
  /\ task[j] = "returned" => sim[<<batch, j>>] = "ended"

LogMatchesSim(j) ==
  /\ sim[<<batch, j>>] = "writing" =>
       1 .. written[<<batch, j>>] \subseteq tor[j].lines
  /\ sim[<<batch, j>>] = "closing" =>
       1 .. LinesOf(modes[batch]) \subseteq tor[j].lines
  /\ sim[<<batch, j>>] = "ended" /\ j \notin crashed =>
       /\ 1 .. LinesOf(modes[batch]) \subseteq tor[j].lines
       /\ xml[j] = modes[batch]

Progress ==
  /\ runner \in {"pool", "joined"} =>
       /\ batch >= 1
       /\ \A j \in Jobs : TaskMatchesSim(j)
       /\ ~ disturbed => \A j \in Jobs : LogMatchesSim(j)
  /\ runner \notin {"pool", "joined"} => \A j \in Jobs : task[j] = "none"
  /\ runner = "joined" => \A j \in Jobs : task[j] = "returned"

BatchInv == BatchTypeOK /\ Unmade /\ NoJobLostToRaces /\ SimsOfBatches /\ Progress

-----------------------------------------------------------------------------
(* No log is longer than a full one.                                       *)
LEMMA LinesBounded ==
  \A mode : LinesOf(mode) \in Nat /\ LinesOf(mode) <= FullLines
BY BatchAssumption DEF LinesOf

(* The simulation of a started job is one of the runs.                     *)
LEMMA RunOfBatch ==
  ASSUME BatchTypeOK, batch >= 1, NEW j \in Jobs
  PROVE  <<batch, j>> \in Runs /\ batch \in 1 .. MaxBatches
BY BatchAssumption DEF BatchTypeOK, Runs, batch

LEMMA BatchInitInv == BatchInit => BatchInv
<1> SUFFICES ASSUME BatchInit PROVE BatchInv
  OBVIOUS
<1>1. batch = 0 /\ modes \in Seq({"full", "quick"})
  BY DEF BatchInit, batch
<1>2. BatchTypeOK
  <2>1. /\ task \in [Jobs -> Stages]
        /\ sim \in [Runs -> SimStates]
        /\ xml \in [Jobs -> XmlStates]
    BY DEF BatchInit, Stages, SimStates, XmlStates
  <2>2. written \in [Runs -> 0 .. FullLines]
    BY BatchAssumption DEF BatchInit
  <2>3. tor \in [Jobs -> [there : BOOLEAN, lines : SUBSET (1 .. FullLines)]]
    BY DEF BatchInit
  <2>4. reader \in [at : 0 .. NumJobs + 1, file : {"tor", "xml"},
                    warned : BOOLEAN, contested : BOOLEAN, inexact : BOOLEAN]
    BY BatchAssumption DEF BatchInit, Idle
  <2> QED
    <3>1. Len(modes) <= MaxBatches
      BY <1>1, BatchAssumption DEF batch
    <3>2. runner \in {"idle", "pool", "joined", "killed"} /\ disturbed \in BOOLEAN
      BY DEF BatchInit
    <3>4. contested \in [Jobs -> 0 .. MaxBatches]
      BY BatchAssumption DEF BatchInit
    <3>3. dirs \subseteq Jobs \cup {Parent} /\ crashed \subseteq Jobs
      BY DEF BatchInit
    <3> QED
      BY <1>1, <2>1, <2>2, <2>3, <2>4, <3>1, <3>2, <3>3, <3>4 DEF BatchTypeOK
<1>3. Unmade /\ NoJobLostToRaces /\ SimsOfBatches
  BY DEF BatchInit, Unmade, NoJobLostToRaces, SimsOfBatches, Runs
<1>4. Progress
  BY DEF BatchInit, Progress
<1> QED
  BY <1>2, <1>3, <1>4 DEF BatchInv

-----------------------------------------------------------------------------
(* Types.                                                                  *)

LEMMA BatchTypeStep == BatchInv /\ [BatchNext]_batchVars => BatchTypeOK'
<1> SUFFICES ASSUME BatchInv, [BatchNext]_batchVars PROVE BatchTypeOK'
  OBVIOUS
<1> USE DEF BatchInv
<1>1. ASSUME NEW mode \in {"full", "quick"}, StartBatch(mode) PROVE BatchTypeOK'
  <2>1. modes' \in Seq({"full", "quick"}) /\ Len(modes') = Len(modes) + 1
    BY <1>1 DEF StartBatch, BatchTypeOK
  <2>2. Len(modes') <= MaxBatches
    BY <1>1, <2>1, BatchAssumption DEF StartBatch, BatchTypeOK, batch
  <2>3. task' \in [Jobs -> Stages]
    BY <1>1 DEF StartBatch, Stages
  <2> QED
    BY <1>1, <2>1, <2>2, <2>3 DEF StartBatch, BatchTypeOK, fileVars
<1>2. CASE Join
  BY <1>2 DEF Join, BatchTypeOK, fileVars, simVars
<1>3. ASSUME NEW survivors \in SUBSET Alive, KillBatch(survivors) PROVE BatchTypeOK'
  <2>1. /\ sim' \in [Runs -> SimStates]
        /\ written' \in [Runs -> 0 .. FullLines]
        /\ task' \in [Jobs -> Stages]
    BY <1>3, BatchAssumption DEF KillBatch, BatchTypeOK, SimStates, Stages
  <2> QED
    BY <1>3, <2>1 DEF KillBatch, BatchTypeOK, fileVars
<1>4. ASSUME NEW j \in Jobs, RunThread(j) PROVE BatchTypeOK'
  <2>1. task' \in [Jobs -> Stages]
    BY <1>4 DEF RunThread, TakeJob, CheckHead, MakeHead, MakeLeaf, Popen, Wait,
       Moves, BatchTypeOK, Stages
  <2>2. dirs' \subseteq Jobs \cup {Parent}
    BY <1>4 DEF RunThread, TakeJob, CheckHead, MakeHead, MakeLeaf, Popen, Wait,
       StartSim, BatchTypeOK
  <2>3. sim' \in [Runs -> SimStates]
    BY <1>4 DEF RunThread, TakeJob, CheckHead, MakeHead, MakeLeaf, Popen, Wait,
       StartSim, BatchTypeOK, SimStates, threadVars, simVars
  <2>4. UNCHANGED <<modes, runner, tor, xml, written, crashed, disturbed, contested,
                   reader>>
    BY <1>4 DEF RunThread, TakeJob, CheckHead, MakeHead, MakeLeaf, Popen, Wait,
       StartSim, threadVars, simVars, fileVars
  <2> QED
    BY <2>1, <2>2, <2>3, <2>4 DEF BatchTypeOK
<1>5. ASSUME NEW r \in Runs, Simulate(r) \/ Crash(r) PROVE BatchTypeOK'
  <2> USE DEF simulationVars, fileVars, Becomes
  <2>1. r[2] \in Jobs
    BY DEF Runs
  <2>2. CASE OpenLog(r)
    <3>1. r[1] \in 0 .. MaxBatches /\ contested' \in [Jobs -> 0 .. MaxBatches]
      BY <2>1, <2>2, BatchAssumption DEF OpenLog, BatchTypeOK, Runs
    <3> QED
      BY <2>1, <2>2, <3>1 DEF OpenLog, BatchTypeOK, SimStates
  <2>3. CASE WriteLine(r)
    <3>1. written[r] + 1 \in 1 .. FullLines
      BY <2>3, LinesBounded, BatchAssumption DEF WriteLine, BatchTypeOK
    <3>2. written' \in [Runs -> 0 .. FullLines]
      BY <2>3, <3>1, BatchAssumption DEF WriteLine, BatchTypeOK
    <3>3. tor' \in [Jobs -> [there : BOOLEAN, lines : SUBSET (1 .. FullLines)]]
      BY <2>1, <2>3, <3>1 DEF WriteLine, BatchTypeOK
    <3> QED
      BY <2>3, <3>2, <3>3 DEF WriteLine, BatchTypeOK
  <2>4. CASE OpenXml(r)
    <3>1. contested' \in [Jobs -> 0 .. MaxBatches]
      BY <2>1, <2>4, BatchAssumption DEF OpenXml, BatchTypeOK
    <3> QED
      BY <2>1, <2>4, <3>1, BatchAssumption
      DEF OpenXml, BatchTypeOK, SimStates, XmlStates
  <2>5. CASE CloseXml(r)
    <3>1. Mode(r) \in {"full", "quick"}
      <4>1. r[1] \in 1 .. Len(modes)
        <5>1. PICK b \in 1 .. MaxBatches, j \in Jobs : r = <<b, j>>
          BY DEF Runs
        <5>2. ~ (b > batch)
          BY <2>5, <5>1 DEF CloseXml, SimsOfBatches
        <5>3. batch \in Nat
          BY DEF BatchTypeOK, batch
        <5> QED
          BY <5>1, <5>2, <5>3, BatchAssumption DEF batch
      <4> QED
        BY <4>1 DEF Mode, BatchTypeOK
    <3> QED
      BY <2>1, <2>5, <3>1 DEF CloseXml, BatchTypeOK, SimStates, XmlStates
  <2>6. CASE Crash(r)
    <3>1. /\ sim' \in [Runs -> SimStates]
          /\ written' \in [Runs -> 0 .. FullLines]
      BY <2>6, BatchAssumption DEF Crash, BatchTypeOK, SimStates
    <3>2. crashed' \subseteq Jobs
      BY <2>1, <2>6 DEF Crash, BatchTypeOK
    <3> QED
      BY <2>6, <3>1, <3>2 DEF Crash, BatchTypeOK
  <2> QED
    BY <1>5, <2>2, <2>3, <2>4, <2>5, <2>6 DEF Simulate
<1>6. CASE Process
  <2>1. reader' \in [at : 0 .. NumJobs + 1, file : {"tor", "xml"},
                     warned : BOOLEAN, contested : BOOLEAN, inexact : BOOLEAN]
    <3>1. Idle \in [at : 0 .. NumJobs + 1, file : {"tor", "xml"},
                    warned : BOOLEAN, contested : BOOLEAN, inexact : BOOLEAN]
      BY BatchAssumption DEF Idle
    <3>2. CASE StartProcessing
      BY <3>1, <3>2, BatchAssumption DEF StartProcessing
    <3>3. CASE ReadTor
      <4> DEFINE log == tor[reader.at]
      <4>1. CASE ~ log.there
        BY <3>1, <3>3, <4>1 DEF ReadTor
      <4>2. CASE log.there
        <5>1. reader' = [reader EXCEPT
                           !.file = "xml",
                           !.warned = @ \/ Short(log.lines),
                           !.contested = @ \/ contested[reader.at] # 0,
                           !.inexact = @ \/ ~ Exact(log.lines)]
          BY <3>3, <4>2 DEF ReadTor
        <5> QED
          BY <5>1 DEF BatchTypeOK
      <4> QED
        BY <4>1, <4>2
    <3>4. CASE ReadXml
      <4>1. CASE NeedsXml /\ xml[reader.at] # "full"
        BY <3>1, <3>4, <4>1 DEF ReadXml
      <4>2. CASE ~ (NeedsXml /\ xml[reader.at] # "full")
        <5>1. reader' = [reader EXCEPT !.at = @ + 1, !.file = "tor"]
          BY <3>4, <4>2 DEF ReadXml
        <5>2. reader.at + 1 \in 0 .. NumJobs + 1
          BY <3>4, BatchAssumption DEF ReadXml, Jobs
        <5> QED
          BY <5>1, <5>2 DEF BatchTypeOK
      <4> QED
        BY <4>1, <4>2
    <3> QED
      BY <1>6, <3>2, <3>3, <3>4 DEF Process
  <2> QED
    <3>1. UNCHANGED <<modes, runner, task, dirs, tor, xml, sim, written, crashed,
                      disturbed, contested>>
      <4>1. UNCHANGED readerVars
        <5>1. CASE StartProcessing
          BY <5>1 DEF StartProcessing
        <5>2. CASE ReadTor
          BY <5>2 DEF ReadTor
        <5>3. CASE ReadXml
          BY <5>3 DEF ReadXml
        <5> QED
          BY <1>6, <5>1, <5>2, <5>3 DEF Process
      <4> QED
        BY <4>1 DEF readerVars, fileVars, simVars
    <3> QED
      BY <2>1, <3>1 DEF BatchTypeOK
<1>7. CASE UNCHANGED batchVars
  BY <1>7 DEF batchVars, fileVars, simVars, BatchTypeOK
<1> QED
  BY <1>1, <1>2, <1>3, <1>4, <1>5, <1>6, <1>7 DEF BatchNext

-----------------------------------------------------------------------------
(* Directories: nobody but its worker makes a job's directory, and its     *)
(* parent is no directory of a job.                                        *)
LEMMA DirsStep ==
  BatchInv /\ [BatchNext]_batchVars => Unmade' /\ NoJobLostToRaces'
<1> SUFFICES ASSUME BatchInv, [BatchNext]_batchVars PROVE Unmade' /\ NoJobLostToRaces'
  OBVIOUS
<1> USE DEF BatchInv, Unmade, NoJobLostToRaces
<1>1. ASSUME NEW mode \in {"full", "quick"}, StartBatch(mode)
      PROVE  Unmade' /\ NoJobLostToRaces'
  BY <1>1 DEF StartBatch
<1>2. ASSUME NEW survivors \in SUBSET Alive, KillBatch(survivors)
      PROVE  Unmade' /\ NoJobLostToRaces'
  BY <1>2 DEF KillBatch
<1>3. ASSUME NEW j \in Jobs, RunThread(j) PROVE Unmade' /\ NoJobLostToRaces'
  <2> USE DEF BatchTypeOK, Moves
  <2>1. CASE TakeJob(j)
    BY <2>1 DEF TakeJob
  <2>2. CASE CheckHead(j)
    BY <2>2 DEF CheckHead
  <2>3. CASE MakeHead(j)
    <3>1. Parent \notin Jobs
      BY DEF Parent, Jobs
    <3> QED
      BY <2>3, <3>1 DEF MakeHead
  <2>4. CASE MakeLeaf(j)
    BY <2>4 DEF MakeLeaf
  <2>5. CASE Popen(j) \/ Wait(j)
    BY <2>5 DEF Popen, StartSim, Wait
  <2> QED
    BY <1>3, <2>1, <2>2, <2>3, <2>4, <2>5 DEF RunThread
<1>4. ASSUME Join \/ Process \/ UNCHANGED batchVars
             \/ \E r \in Runs : Simulate(r) \/ Crash(r)
      PROVE  Unmade' /\ NoJobLostToRaces'
  <2>1. UNCHANGED <<task, dirs>>
    BY <1>4 DEF Join, Process, StartProcessing, ReadTor, ReadXml, readerVars,
       Simulate, OpenLog, WriteLine, OpenXml, CloseXml, Crash, simulationVars,
       batchVars
  <2> QED
    BY <2>1
<1> QED
  BY <1>1, <1>2, <1>3, <1>4 DEF BatchNext

-----------------------------------------------------------------------------
(* Simulations of batches to come have not begun.                          *)
LEMMA SimsStep == BatchInv /\ [BatchNext]_batchVars => SimsOfBatches'
<1> SUFFICES ASSUME BatchInv, [BatchNext]_batchVars,
                    NEW b \in 1 .. MaxBatches, NEW j \in Jobs
             PROVE  /\ b > batch' => sim'[<<b, j>>] = "off"
                    /\ sim'[<<b, j>>] \in {"off", "starting"} =>
                         written'[<<b, j>>] = 0
  BY DEF SimsOfBatches, batch
<1> DEFINE r == <<b, j>>
<1>0. /\ r \in Runs /\ batch \in Nat
      /\ b > batch => sim[r] = "off"
      /\ sim[r] \in {"off", "starting"} => written[r] = 0
      /\ sim \in [Runs -> SimStates] /\ written \in [Runs -> 0 .. FullLines]
  <2>1. sim \in [Runs -> SimStates] /\ written \in [Runs -> 0 .. FullLines]
    BY DEF BatchInv, BatchTypeOK
  <2>2. r \in Runs /\ batch \in Nat
    BY DEF BatchInv, BatchTypeOK, Runs, batch
  <2>3. /\ b > batch => sim[r] = "off"
        /\ sim[r] \in {"off", "starting"} => written[r] = 0
    BY DEF BatchInv, SimsOfBatches
  <2> QED
    BY <2>1, <2>2, <2>3
<1>1. ASSUME NEW mode \in {"full", "quick"}, StartBatch(mode)
      PROVE  /\ batch' = batch + 1
             /\ UNCHANGED <<sim, written>>
  BY <1>1 DEF StartBatch, batch, BatchInv, BatchTypeOK
<1>2. ASSUME NEW survivors \in SUBSET Alive, KillBatch(survivors)
      PROVE  /\ batch' = batch
             /\ \/ sim'[r] = sim[r] /\ written'[r] = written[r]
                \/ sim[r] # "off" /\ sim'[r] = "ended"
  <2> DEFINE gone == { q \in Alive : q[1] = batch } \ survivors
  <2>1. /\ sim' = [q \in Runs |-> IF q \in gone THEN "ended" ELSE sim[q]]
        /\ written' = [q \in Runs |-> IF q \in gone THEN 0 ELSE written[q]]
        /\ modes' = modes
    BY <1>2 DEF KillBatch
  <2>2. r \in gone => sim[r] # "off"
    BY DEF Alive
  <2> HIDE DEF gone, r
  <2> QED
    BY <1>0, <2>1, <2>2 DEF batch
<1>3. ASSUME NEW k \in Jobs, RunThread(k)
      PROVE  /\ batch' = batch /\ written' = written
             /\ \/ sim'[r] = sim[r]
                \/ r = <<batch, k>> /\ sim'[r] = "starting" /\ task[k] = "popen"
  <2>1. CASE Popen(k)
    BY <1>0, <2>1 DEF Popen, StartSim, Moves, batch
  <2>2. CASE ~ Popen(k)
    BY <1>3, <2>2 DEF RunThread, TakeJob, CheckHead, MakeHead, MakeLeaf, Wait,
       threadVars, simVars, batch
  <2> QED
    BY <2>1, <2>2
<1>4. ASSUME NEW q \in Runs, Simulate(q) \/ Crash(q)
      PROVE  /\ batch' = batch
             /\ \/ sim'[r] = sim[r] /\ written'[r] = written[r]
                \/ sim[r] # "off" /\ sim'[r] \in {"writing", "closing", "ended"}
  <2> USE <1>0 DEF Becomes, simulationVars, batch
  <2> HIDE DEF r
  <2>1. CASE OpenLog(q)
    BY <2>1 DEF OpenLog
  <2>2. CASE WriteLine(q)
    BY <2>2 DEF WriteLine
  <2>3. CASE OpenXml(q)
    BY <2>3 DEF OpenXml
  <2>4. CASE CloseXml(q)
    BY <2>4 DEF CloseXml
  <2>5. CASE Crash(q)
    BY <2>5 DEF Crash, Alive
  <2> QED
    BY <1>4, <2>1, <2>2, <2>3, <2>4, <2>5 DEF Simulate
<1>5. ASSUME Join \/ Process \/ UNCHANGED batchVars
      PROVE  batch' = batch /\ UNCHANGED <<sim, written>>
  BY <1>5 DEF Join, Process, StartProcessing, ReadTor, ReadXml, readerVars, simVars,
     batchVars, batch
<1>6. ASSUME NEW k \in Jobs, task[k] = "popen"
      PROVE  sim[<<batch, k>>] = "off"
  BY <1>6 DEF BatchInv, Progress, TaskMatchesSim, BeforeSim
<1>7. CASE \E mode \in {"full", "quick"} : StartBatch(mode)
  BY <1>0, <1>1, <1>7
<1>8. CASE \E survivors \in SUBSET Alive : KillBatch(survivors)
  BY <1>0, <1>2, <1>8
<1>9. CASE \E k \in Jobs : RunThread(k)
  BY <1>0, <1>3, <1>6, <1>9
<1>10. CASE \E q \in Runs : Simulate(q) \/ Crash(q)
  BY <1>0, <1>4, <1>10
<1> QED
  BY <1>0, <1>5, <1>7, <1>8, <1>9, <1>10 DEF BatchNext

-----------------------------------------------------------------------------
(* The workers, their simulations and the logs of the present batch.       *)

(* run_thread moves a job on as its simulation does.                       *)
LEMMA ThreadStep ==
  ASSUME BatchInv, NEW k \in Jobs, RunThread(k)
  PROVE  Progress'
<1> USE DEF BatchInv
<1>1. runner \in {"pool", "joined"} /\ task[k] \notin {"none", "returned", "raised"}
  BY DEF RunThread, TakeJob, CheckHead, MakeHead, MakeLeaf, Popen, Wait, Moves,
     Progress
<1>2. runner = "pool"
  BY <1>1 DEF Progress
<1>3. /\ UNCHANGED <<modes, runner, tor, xml, written, crashed, disturbed>>
      /\ batch' = batch
  BY DEF RunThread, TakeJob, CheckHead, MakeHead, MakeLeaf, Popen, Wait, StartSim,
     threadVars, fileVars, simVars, batch
<1>4. \A j \in Jobs : /\ <<batch, j>> \in Runs
                      /\ TaskMatchesSim(j)
                      /\ ~ disturbed => LogMatchesSim(j)
  BY <1>2, RunOfBatch DEF Progress
<1>5. task \in [Jobs -> Stages] /\ sim \in [Runs -> SimStates]
  BY DEF BatchTypeOK
<1>6. CASE Popen(k)
  <2>1. sim[<<batch, k>>] = "off" /\ written[<<batch, k>>] = 0
    BY <1>4, <1>6, RunOfBatch, <1>2
    DEF Popen, Moves, TaskMatchesSim, BeforeSim, SimsOfBatches, Progress
  <2>2. /\ sim' = [sim EXCEPT ![<<batch, k>>] = "starting"]
        /\ task' = [task EXCEPT ![k] = "wait"]
    BY <1>6 DEF Popen, StartSim, Moves
  <2>3. ASSUME NEW j \in Jobs
        PROVE  TaskMatchesSim(j)' /\ (~ disturbed' => LogMatchesSim(j)')
    <3>1. <<batch, j>> \in Runs /\ (j # k => <<batch, j>> # <<batch, k>>)
      BY <1>4
    <3>2. CASE j = k
      BY <1>3, <1>5, <2>2, <3>1, <3>2
      DEF TaskMatchesSim, LogMatchesSim, BeforeSim
    <3>3. CASE j # k
      <4>1. task'[j] = task[j] /\ sim'[<<batch, j>>] = sim[<<batch, j>>]
        BY <1>5, <2>2, <3>1, <3>3
      <4> QED
        BY <1>3, <1>4, <4>1 DEF TaskMatchesSim, LogMatchesSim
    <3> QED
      BY <3>2, <3>3
  <2> QED
    BY <1>2, <1>3, <2>3 DEF Progress
<1>7. CASE ~ Popen(k)
  <2>1. sim' = sim
    BY <1>7 DEF RunThread, TakeJob, CheckHead, MakeHead, MakeLeaf, Wait, threadVars,
       simVars
  <2>2. \/ task[k] \in BeforeSim /\ \E to \in BeforeSim \cup {"raised"} :
                                       task' = [task EXCEPT ![k] = to]
        \/ sim[<<batch, k>>] = "ended" /\ task' = [task EXCEPT ![k] = "returned"]
    BY <1>7 DEF RunThread, TakeJob, CheckHead, MakeHead, MakeLeaf, Wait, Moves,
       BeforeSim
  <2>3. ASSUME NEW j \in Jobs PROVE TaskMatchesSim(j)'
    <3>1. CASE j = k
      BY <1>3, <1>4, <1>5, <2>1, <2>2, <3>1 DEF TaskMatchesSim, BeforeSim
    <3>2. CASE j # k
      BY <1>3, <1>4, <1>5, <2>1, <2>2, <3>2 DEF TaskMatchesSim
    <3> QED
      BY <3>1, <3>2
  <2>4. ASSUME NEW j \in Jobs, ~ disturbed' PROVE LogMatchesSim(j)'
    BY <1>3, <1>4, <2>1, <2>4 DEF LogMatchesSim
  <2> QED
    BY <1>2, <1>3, <2>3, <2>4 DEF Progress
<1> QED
  BY <1>6, <1>7

(* A simulation of the present batch writes its own log; one of an earlier *)
(* batch only adds lines, unless it is noted to have done more.            *)
LEMMA SimulationStep ==
  ASSUME BatchInv, NEW r \in Runs, Simulate(r) \/ Crash(r)
  PROVE  Progress'
<1> USE DEF BatchInv
<1>1. /\ UNCHANGED <<modes, runner, task>> /\ batch' = batch
      /\ sim[r] \notin {"off", "ended"}
      /\ \A q \in Runs : q # r => sim'[q] = sim[q] /\ written'[q] = written[q]
      /\ disturbed => disturbed'
      /\ sim \in [Runs -> SimStates] /\ written \in [Runs -> 0 .. FullLines]
  BY DEF Simulate, OpenLog, WriteLine, OpenXml, CloseXml, Crash, Becomes,
     simulationVars, fileVars, batch, Alive, BatchTypeOK
<1>2. CASE runner \notin {"pool", "joined"}
  BY <1>1, <1>2 DEF Progress
<1>3. CASE runner \in {"pool", "joined"}
  <2>1. PICK b \in 1 .. MaxBatches, k \in Jobs : r = <<b, k>>
    BY DEF Runs
  <2>2. batch \in Nat /\ batch >= 1 /\ b <= batch
    <3>1. ~ (b > batch)
      BY <1>1, <2>1 DEF SimsOfBatches
    <3>2. batch \in Nat /\ batch >= 1
      BY <1>3 DEF Progress, BatchTypeOK, batch
    <3> QED
      BY <3>1, <3>2, BatchAssumption
  <2>3. \A j \in Jobs : /\ <<batch, j>> \in Runs
                        /\ TaskMatchesSim(j)
                        /\ ~ disturbed => LogMatchesSim(j)
    BY <1>3, RunOfBatch DEF Progress
  <2>4. ASSUME NEW j \in Jobs PROVE TaskMatchesSim(j)'
    BY <1>1, <2>3 DEF TaskMatchesSim
  <2>5. ASSUME NEW j \in Jobs, ~ disturbed', r = <<batch, j>>
        PROVE  LogMatchesSim(j)'
    <3>1. r[1] = batch /\ r[2] = j
      BY <2>5
    <3>2. LogMatchesSim(j) /\ <<batch, j>> \in Runs
      BY <1>1, <2>3, <2>5
    <3>3. CASE OpenLog(r)
      <4>1. sim'[r] = "writing" /\ written'[r] = 0
        BY <1>1, <2>1, <3>3 DEF OpenLog, Becomes, SimsOfBatches
      <4> QED
        BY <1>1, <2>5, <4>1 DEF LogMatchesSim
    <3>4. CASE WriteLine(r)
      <4>1. /\ sim[r] = "writing" /\ sim'[r] = "writing"
            /\ written'[r] = written[r] + 1
            /\ tor'[j].lines = tor[j].lines \cup {written[r] + 1}
        BY <1>1, <3>1, <3>4 DEF WriteLine, BatchTypeOK
      <4>2. 1 .. written[r] \subseteq tor[j].lines /\ written[r] \in Nat
        BY <1>1, <2>5, <3>2, <4>1, BatchAssumption DEF LogMatchesSim
      <4>3. 1 .. written'[r] \subseteq tor'[j].lines
        BY <4>1, <4>2
      <4> QED
        BY <1>1, <2>5, <4>1, <4>3 DEF LogMatchesSim
    <3>5. CASE OpenXml(r)
      <4>1. /\ sim[r] = "writing" /\ sim'[r] = "closing" /\ UNCHANGED tor
            /\ written[r] = LinesOf(modes[batch])
        BY <1>1, <3>1, <3>5 DEF OpenXml, Becomes, Mode
      <4> QED
        BY <1>1, <2>5, <3>2, <4>1 DEF LogMatchesSim
    <3>6. CASE CloseXml(r)
      <4>1. /\ sim[r] = "closing" /\ sim'[r] = "ended" /\ UNCHANGED tor
            /\ xml'[j] = modes[batch]
        BY <1>1, <3>1, <3>6 DEF CloseXml, Becomes, Mode, BatchTypeOK
      <4> QED
        BY <1>1, <2>5, <3>2, <4>1 DEF LogMatchesSim
    <3>7. CASE Crash(r)
      <4>1. sim'[r] = "ended" /\ j \in crashed'
        BY <1>1, <2>2, <3>1, <3>7 DEF Crash, Becomes, IsOrphan
      <4> QED
        BY <1>1, <2>5, <4>1 DEF LogMatchesSim
    <3> QED
      BY <3>3, <3>4, <3>5, <3>6, <3>7 DEF Simulate
  <2>6. ASSUME NEW j \in Jobs, ~ disturbed', r # <<batch, j>>
        PROVE  LogMatchesSim(j)'
    <3>1. j = k => IsOrphan(r)
      BY <2>1, <2>2, <2>6 DEF IsOrphan
    <3>2. /\ tor[j].lines \subseteq tor'[j].lines
          /\ xml'[j] = xml[j]
          /\ j \in crashed => j \in crashed'
      <4> r[2] = k
        BY <2>1
      <4>1. CASE OpenLog(r)
        BY <2>6, <3>1, <4>1 DEF OpenLog, BatchTypeOK, simulationVars
      <4>2. CASE WriteLine(r)
        BY <4>2 DEF WriteLine, BatchTypeOK
      <4>3. CASE OpenXml(r)
        BY <2>6, <3>1, <4>3 DEF OpenXml, BatchTypeOK
      <4>4. CASE CloseXml(r)
        BY <2>6, <3>1, <4>4 DEF CloseXml, BatchTypeOK
      <4>5. CASE Crash(r)
        BY <4>5 DEF Crash, fileVars
      <4> QED
        BY <4>1, <4>2, <4>3, <4>4, <4>5 DEF Simulate
    <3>3. LogMatchesSim(j) /\ <<batch, j>> \in Runs
      BY <1>1, <2>3, <2>6
    <3> QED
      BY <1>1, <2>6, <3>2, <3>3 DEF LogMatchesSim
  <2> QED
    BY <1>1, <1>3, <2>2, <2>4, <2>5, <2>6 DEF Progress
<1> QED
  BY <1>2, <1>3

LEMMA ProgressStep == BatchInv /\ [BatchNext]_batchVars => Progress'
<1> SUFFICES ASSUME BatchInv, [BatchNext]_batchVars PROVE Progress'
  OBVIOUS
<1> USE DEF BatchInv
<1>1. ASSUME NEW mode \in {"full", "quick"}, StartBatch(mode) PROVE Progress'
  <2>1. batch \in Nat /\ batch' = batch + 1 /\ batch' \in 1 .. MaxBatches
    BY <1>1, BatchAssumption DEF StartBatch, batch, BatchTypeOK
  <2>2. ASSUME NEW j \in Jobs
        PROVE  TaskMatchesSim(j)' /\ LogMatchesSim(j)'
    <3>1. sim'[<<batch', j>>] = "off" /\ task'[j] = "queued"
      BY <1>1, <2>1 DEF StartBatch, SimsOfBatches
    <3> QED
      BY <3>1 DEF TaskMatchesSim, LogMatchesSim, BeforeSim
  <2> QED
    BY <1>1, <2>1, <2>2 DEF StartBatch, Progress
<1>2. CASE Join
  <2>1. /\ runner = "pool" /\ runner' = "joined"
        /\ \A j \in Jobs : task[j] = "returned"
        /\ UNCHANGED <<modes, task, tor, xml, sim, written, crashed, disturbed>>
        /\ batch' = batch
    BY <1>2 DEF Join, fileVars, simVars, batch, NoJobLostToRaces
  <2> QED
    BY <2>1 DEF Progress, TaskMatchesSim, LogMatchesSim
<1>3. ASSUME NEW survivors \in SUBSET Alive, KillBatch(survivors) PROVE Progress'
  BY <1>3 DEF KillBatch, Progress
<1>4. ASSUME NEW j \in Jobs, RunThread(j) PROVE Progress'
  BY <1>4, ThreadStep
<1>5. ASSUME NEW r \in Runs, Simulate(r) \/ Crash(r) PROVE Progress'
  BY <1>5, SimulationStep
<1>6. CASE Process \/ UNCHANGED batchVars
  <2>1. UNCHANGED <<modes, runner, task, tor, xml, sim, written, crashed, disturbed>>
    <3>1. CASE StartProcessing \/ ReadXml
      BY <3>1 DEF StartProcessing, ReadXml, readerVars, fileVars, simVars
    <3>2. CASE ReadTor
      BY <3>2 DEF ReadTor, readerVars, fileVars, simVars
    <3>3. CASE UNCHANGED batchVars
      BY <3>3 DEF batchVars, fileVars, simVars
    <3> QED
      BY <1>6, <3>1, <3>2, <3>3 DEF Process
  <2> QED
    BY <2>1 DEF Progress, TaskMatchesSim, LogMatchesSim, batch
<1> QED
  BY <1>1, <1>2, <1>3, <1>4, <1>5, <1>6 DEF BatchNext

-----------------------------------------------------------------------------
(* The inductive invariant: types, directories, and for every job how the  *)
(* worker, its simulation and the log correspond.                          *)
THEOREM BatchInvariance == BatchSpec => []BatchInv
<1>1. BatchInv /\ [BatchNext]_batchVars => BatchInv'
  BY BatchTypeStep, DirsStep, SimsStep, ProgressStep DEF BatchInv
<1> QED
  BY BatchInitInv, <1>1, PTL DEF BatchSpec

(* All variables keep their types: positions in a log stay below the       *)
(* length of a full one.                                                   *)
THEOREM BatchTypeCorrect == BatchSpec => []BatchTypeOK
BY BatchInvariance, PTL DEF BatchInv

(* No worker raises in os.makedirs, whichever others make directories at   *)
(* the same time (run_ns3.py 12-13).                                       *)
THEOREM NoJobIsLost == BatchSpec => []NoJobLostToRaces
BY BatchInvariance, PTL DEF BatchInv

(* When run_ns3.py has ended, the logs of the batch are complete where     *)
(* nothing crashed, for any number of killed batches before it whose       *)
(* simulations go on (run_ns3.py 15-16, 38-39).                            *)
THEOREM JoinIsComplete == BatchSpec => []JoinMeansComplete
<1>1. BatchInv => JoinMeansComplete
  BY DEF BatchInv, Progress, TaskMatchesSim, LogMatchesSim, JoinMeansComplete
<1> QED
  BY BatchInvariance, <1>1, PTL

-----------------------------------------------------------------------------
(* What the logs hold that process_data.py reads.                           *)

WholeLog(j) == 1 .. FullLines \subseteq tor[j].lines

(* The lines of a log that one simulation writes, or has written, alone.    *)
GrowingLog(j) ==
  \E n \in 0 .. FullLines :
    /\ tor[j].lines = 1 .. n
    /\ \A r, q \in Writers(j) : r = q
    /\ \A r \in Writers(j) : written[r] = n

(* A log that is not contested is whole or grows; in one that is, everything *)
(* is there that the simulation that cut it off has written since.          *)
Settled(j) ==
  /\ contested[j] = 0 => WholeLog(j) \/ GrowingLog(j)
  /\ \A r \in Writers(j) :
       r[1] = contested[j] => 1 .. written[r] \subseteq tor[j].lines

LogInv == \A j \in Jobs : Settled(j)

(* A step that leaves a log alone, and at most ends who writes in it.       *)
LEMMA LogUntouched ==
  ASSUME NEW j \in Jobs, Settled(j), tor'[j] = tor[j], contested'[j] = contested[j],
         Writers(j)' \subseteq Writers(j),
         \A r \in Writers(j)' : written'[r] = written[r]
  PROVE  Settled(j)'
<1>1. WholeLog(j) => WholeLog(j)'
  BY DEF WholeLog
<1>2. ASSUME GrowingLog(j) PROVE GrowingLog(j)'
  <2>1. PICK n \in 0 .. FullLines :
          /\ tor[j].lines = 1 .. n
          /\ \A r, q \in Writers(j) : r = q
          /\ \A r \in Writers(j) : written[r] = n
    BY <1>2 DEF GrowingLog
  <2>2. /\ tor'[j].lines = 1 .. n
        /\ \A r, q \in Writers(j)' : r = q
        /\ \A r \in Writers(j)' : written'[r] = n
    BY <2>1
  <2> QED
    BY <2>2 DEF GrowingLog
<1> QED
  BY <1>1, <1>2 DEF Settled

(* A simulation that opens a log cuts it off; if another one is writing in   *)
(* it, the log is contested from now on.                                    *)
LEMMA LogOpened ==
  ASSUME BatchInv, NEW r \in Runs, OpenLog(r)
  PROVE  Settled(r[2])'
<1> DEFINE j == r[2]
<1>1. PICK b \in 1 .. MaxBatches, k \in Jobs : r = <<b, k>>
  BY DEF Runs
<1>2. /\ j = k /\ r[1] = b /\ b \in Nat \ {0}
      /\ sim[r] = "starting" /\ written[r] = 0 /\ written' = written
  BY <1>1, BatchAssumption DEF OpenLog, BatchInv, SimsOfBatches
<1>3. /\ tor'[j].lines = {}
      /\ contested'[j] = IF Writers(j) = {} THEN 0 ELSE b
      /\ sim' = [sim EXCEPT ![r] = "writing"]
  BY <1>1, <1>2 DEF OpenLog, Becomes, BatchInv, BatchTypeOK
<1>4. Writers(j)' = Writers(j) \cup {r}
  BY <1>1, <1>2, <1>3 DEF Writers, BatchInv, BatchTypeOK
<1>5. \A q \in Writers(j)' : q[1] = b => q = r
  BY <1>1, <1>2 DEF Writers, Runs
<1>6. \A q \in Writers(j)' : q[1] # 0
  BY BatchAssumption DEF Writers, Runs
<1>7. 1 .. 0 = {}
  OBVIOUS
<1>8. CASE Writers(j) = {}
  <2>1. GrowingLog(j)'
    <3>1. 0 \in 0 .. FullLines
      BY BatchAssumption
    <3> QED
      BY <1>2, <1>3, <1>4, <1>7, <1>8, <3>1 DEF GrowingLog
  <2> QED
    BY <1>3, <1>6, <1>8, <2>1 DEF Settled
<1>9. CASE Writers(j) # {}
  BY <1>2, <1>3, <1>5, <1>7, <1>9 DEF Settled
<1> QED
  BY <1>8, <1>9

LEMMA LogWritten ==
  ASSUME BatchInv, NEW r \in Runs, WriteLine(r), r[2] \in Jobs, Settled(r[2])
  PROVE  Settled(r[2])'
<1> DEFINE j == r[2]
<1>1. /\ r \in Writers(j) /\ sim' = sim /\ contested' = contested
      /\ written[r] \in Nat /\ written[r] + 1 <= FullLines
      /\ written' = [written EXCEPT ![r] = @ + 1]
      /\ tor'[j].lines = tor[j].lines \cup {written[r] + 1}
  <2>1. LinesOf(Mode(r)) \in Nat /\ LinesOf(Mode(r)) <= FullLines
    BY LinesBounded
  <2>2. written[r] \in 0 .. FullLines
    BY DEF BatchInv, BatchTypeOK
  <2>3. written[r] < LinesOf(Mode(r))
    BY DEF WriteLine
  <2>4. written[r] \in Nat /\ written[r] + 1 <= FullLines
    BY <2>1, <2>2, <2>3, BatchAssumption
  <2> QED
    BY <2>4 DEF WriteLine, Writers, BatchInv, BatchTypeOK
<1>2. Writers(j)' = Writers(j)
  BY <1>1 DEF Writers
<1>3. \A q \in Writers(j) : /\ q \in Runs
                            /\ q # r => written'[q] = written[q]
                            /\ written'[r] = written[r] + 1
  BY <1>1 DEF Writers, BatchInv, BatchTypeOK
<1>4. WholeLog(j) => WholeLog(j)'
  BY <1>1 DEF WholeLog
<1>5. ASSUME GrowingLog(j) PROVE GrowingLog(j)'
  <2>1. PICK n \in 0 .. FullLines :
          /\ tor[j].lines = 1 .. n
          /\ \A p, q \in Writers(j) : p = q
          /\ \A q \in Writers(j) : written[q] = n
    BY <1>5 DEF GrowingLog
  <2>2. n + 1 \in 0 .. FullLines /\ written[r] = n /\ (1 .. n) \cup {n + 1} = 1 .. n + 1
    BY <1>1, <2>1, BatchAssumption
  <2>3. /\ tor'[j].lines = 1 .. n + 1
        /\ \A p, q \in Writers(j)' : p = q
        /\ \A q \in Writers(j)' : written'[q] = n + 1
    BY <1>1, <1>2, <1>3, <2>1, <2>2
  <2> QED
    BY <2>2, <2>3 DEF GrowingLog
<1>6. ASSUME NEW q \in Writers(j)', q[1] = contested[j]
      PROVE  1 .. written'[q] \subseteq tor'[j].lines
  <2>1. 1 .. written[q] \subseteq tor[j].lines
    BY <1>2, <1>6 DEF Settled
  <2>2. CASE q = r
    BY <1>1, <1>3, <2>1, <2>2
  <2>3. CASE q # r
    BY <1>1, <1>2, <1>3, <2>1, <2>3
  <2> QED
    BY <2>2, <2>3
<1> QED
  BY <1>1, <1>4, <1>5, <1>6 DEF Settled

(* The simulation that cut off a contested log, and has run the whole of     *)
(* the full experiment, has written all of it.                              *)
LEMMA LogFinished ==
  ASSUME BatchInv, NEW r \in Runs, OpenXml(r), r[2] \in Jobs, Settled(r[2])
  PROVE  Settled(r[2])'
<1> DEFINE j == r[2]
<1>1. /\ r \in Writers(j) /\ tor' = tor
      /\ written[r] = LinesOf(Mode(r))
  BY DEF OpenXml, Writers
<1>2. /\ Writers(j)' \subseteq Writers(j) \ {r}
      /\ \A q \in Runs : q # r => written'[q] = written[q]
  BY DEF OpenXml, Becomes, Writers, BatchInv, BatchTypeOK
<1>3. \A q \in Writers(j)' : q \in Runs /\ q # r
  BY <1>2 DEF Writers
<1>4. \A q \in Writers(j)' : written'[q] = written[q]
  BY <1>2, <1>3
<1>5. CASE contested[j] = r[1] /\ Mode(r) = "full"
  <2>1. WholeLog(j)'
    <3>1. written[r] = FullLines
      BY <1>1, <1>5 DEF LinesOf
    <3> QED
      BY <1>1, <1>5, <3>1 DEF Settled, WholeLog
  <2>2. contested'[j] = 0
    BY <1>5 DEF OpenXml, BatchInv, BatchTypeOK
  <2>3. \A q \in Writers(j)' : q[1] # 0
    BY BatchAssumption DEF Writers, Runs
  <2> QED
    BY <2>1, <2>2, <2>3 DEF Settled
<1>6. CASE ~ (contested[j] = r[1] /\ Mode(r) = "full")
  <2>1. contested'[j] = contested[j]
    BY <1>6 DEF OpenXml
  <2> QED
    BY <1>1, <1>2, <1>4, <2>1, LogUntouched
<1> QED
  BY <1>5, <1>6

LEMMA LogStep == BatchInv /\ LogInv /\ [BatchNext]_batchVars => LogInv'
<1> SUFFICES ASSUME BatchInv, LogInv, [BatchNext]_batchVars, NEW j \in Jobs
             PROVE  Settled(j)'
  BY DEF LogInv
<1>0. Settled(j) /\ sim \in [Runs -> SimStates] /\ written \in [Runs -> 0 .. FullLines]
  BY DEF LogInv, BatchInv, BatchTypeOK
<1>1. CASE \/ \E mode \in {"full", "quick"} : StartBatch(mode)
           \/ Join \/ Process \/ UNCHANGED batchVars
  <2>1. UNCHANGED <<tor, sim, written, contested>>
    BY <1>1 DEF StartBatch, Join, Process, StartProcessing, ReadTor, ReadXml,
       readerVars, batchVars, fileVars, simVars
  <2>2. Writers(j)' = Writers(j)
    BY <2>1 DEF Writers
  <2> QED
    BY <1>0, <2>1, <2>2, LogUntouched
<1>2. ASSUME NEW survivors \in SUBSET Alive, KillBatch(survivors) PROVE Settled(j)'
  <2>1. /\ UNCHANGED <<tor, contested>>
        /\ \A r \in Runs : sim'[r] = "ended"
                           \/ (sim'[r] = sim[r] /\ written'[r] = written[r])
    BY <1>2 DEF KillBatch, fileVars
  <2>2. Writers(j)' \subseteq Writers(j) /\ \A r \in Writers(j)' : written'[r] = written[r]
    BY <2>1 DEF Writers
  <2> QED
    BY <1>0, <2>1, <2>2, LogUntouched
<1>3. ASSUME NEW k \in Jobs, RunThread(k) PROVE Settled(j)'
  <2>1. /\ UNCHANGED <<tor, written, contested>>
        /\ \A r \in Runs : sim'[r] = "starting" \/ sim'[r] = sim[r]
    <3>1. CASE Popen(k)
      BY <1>0, <3>1 DEF Popen, StartSim, fileVars
    <3>2. CASE ~ Popen(k)
      BY <1>3, <3>2 DEF RunThread, TakeJob, CheckHead, MakeHead, MakeLeaf, Wait,
         threadVars, simVars, fileVars
    <3> QED
      BY <3>1, <3>2
  <2>2. Writers(j)' \subseteq Writers(j) /\ \A r \in Writers(j)' : written'[r] = written[r]
    BY <2>1 DEF Writers
  <2> QED
    BY <1>0, <2>1, <2>2, LogUntouched
<1>4. ASSUME NEW r \in Runs, CloseXml(r) \/ Crash(r) PROVE Settled(j)'
  <2>1. /\ UNCHANGED <<tor, contested>> /\ sim'[r] = "ended"
        /\ \A q \in Runs : q # r => sim'[q] = sim[q] /\ written'[q] = written[q]
    BY <1>0, <1>4 DEF CloseXml, Crash, Becomes, fileVars
  <2>2. Writers(j)' \subseteq Writers(j) /\ \A q \in Writers(j)' : written'[q] = written[q]
    BY <2>1 DEF Writers
  <2> QED
    BY <1>0, <2>1, <2>2, LogUntouched
<1>5. ASSUME NEW r \in Runs, OpenLog(r) \/ WriteLine(r) \/ OpenXml(r), r[2] = j
      PROVE  Settled(j)'
  BY <1>0, <1>5, LogOpened, LogWritten, LogFinished
<1>6. ASSUME NEW r \in Runs, OpenLog(r) \/ WriteLine(r) \/ OpenXml(r), r[2] # j
      PROVE  Settled(j)'
  <2>1. /\ tor'[j] = tor[j] /\ contested'[j] = contested[j]
        /\ \A q \in Runs : q # r => sim'[q] = sim[q] /\ written'[q] = written[q]
    BY <1>0, <1>6
    DEF OpenLog, WriteLine, OpenXml, Becomes, fileVars, BatchInv, BatchTypeOK
  <2>2. Writers(j)' \subseteq Writers(j) /\ \A q \in Writers(j)' : written'[q] = written[q]
    BY <1>6, <2>1 DEF Writers
  <2> QED
    BY <1>0, <2>1, <2>2, LogUntouched
<1> QED
  BY <1>1, <1>2, <1>3, <1>4, <1>5, <1>6 DEF BatchNext, Simulate

(* Of a log that is not contested, load_stats keeps all but the last line:   *)
(* enough of them are those of the first milliseconds.                      *)
LEMMA LongIsExact ==
  ASSUME BatchTypeOK, NEW j \in Jobs, Settled(j), contested[j] = 0,
         ~ Short(tor[j].lines)
  PROVE  Exact(tor[j].lines)
<1>1. PICK n \in 0 .. FullLines : tor[j].lines = 1 .. n
  <2>1. CASE WholeLog(j)
    <3>1. tor[j].lines \subseteq 1 .. FullLines
      BY DEF BatchTypeOK
    <3>2. tor[j].lines = 1 .. FullLines
      BY <2>1, <3>1 DEF WholeLog
    <3>3. FullLines \in 0 .. FullLines
      BY BatchAssumption
    <3> QED
      BY <3>2, <3>3
  <2> QED
    BY <2>1 DEF Settled, GrowingLog
<1>2. n \in Nat /\ Needed \in Nat \ {0}
  BY BatchAssumption
<1>3. AfterHole(1 .. n) = {} /\ LastLine(1 .. n) = { m \in 1 .. n : m = n }
  BY <1>2 DEF AfterHole, LastLine
<1>4. LoadStats(1 .. n) = 1 .. n - 1
  BY <1>2, <1>3 DEF LoadStats
<1>5. Cardinality(1 .. n - 1) = IF 1 > n - 1 THEN 0 ELSE n - 1
  <2>1. Cardinality(1 .. n - 1) = IF 1 > n - 1 THEN 0 ELSE (n - 1) - 1 + 1
    BY <1>2, FS_Interval
  <2> QED
    BY <1>2, <2>1
<1>6. Needed <= n - 1
  BY <1>1, <1>2, <1>4, <1>5 DEF Short
<1> QED
  BY <1>1, <1>2, <1>4, <1>6 DEF Exact

(* It has warned of every log it has read whose samples are others.         *)
ReaderInv == reader.inexact => reader.warned \/ reader.contested

LEMMA ReaderStep ==
  BatchTypeOK /\ LogInv /\ ReaderInv /\ [BatchNext]_batchVars => ReaderInv'
<1> SUFFICES ASSUME BatchTypeOK, LogInv, ReaderInv, [BatchNext]_batchVars
             PROVE  ReaderInv'
  OBVIOUS
<1>1. reader \in [at : 0 .. NumJobs + 1, file : {"tor", "xml"},
                  warned : BOOLEAN, contested : BOOLEAN, inexact : BOOLEAN]
  BY DEF BatchTypeOK
<1>2. ~ Idle.inexact
  BY DEF Idle
<1>3. CASE StartProcessing
  <2>1. ~ reader'.inexact
    BY <1>3 DEF StartProcessing, Idle
  <2> QED
    BY <2>1 DEF ReaderInv
<1>4. CASE ReadTor
  <2> DEFINE j == reader.at
             log == tor[j]
  <2>1. j \in Jobs
    BY <1>4 DEF ReadTor
  <2>2. CASE ~ log.there
    <3>1. reader' = Idle
      BY <1>4, <2>2 DEF ReadTor
    <3> QED
      BY <1>2, <3>1 DEF ReaderInv
  <2>3. CASE log.there
    <3>1. reader' = [reader EXCEPT
                       !.file = "xml",
                       !.warned = @ \/ Short(log.lines),
                       !.contested = @ \/ contested[j] # 0,
                       !.inexact = @ \/ ~ Exact(log.lines)]
      BY <1>4, <2>3 DEF ReadTor
    <3>2. /\ reader'.warned = (reader.warned \/ Short(log.lines))
          /\ reader'.contested = (reader.contested \/ contested[j] # 0)
          /\ reader'.inexact = (reader.inexact \/ ~ Exact(log.lines))
      BY <1>1, <3>1
    <3>3. Short(log.lines) \/ contested[j] # 0 \/ Exact(log.lines)
      BY <2>1, LongIsExact DEF LogInv
    <3> QED
      BY <3>2, <3>3, Zenon DEF ReaderInv
  <2> QED
    BY <2>2, <2>3
<1>5. CASE ReadXml
  <2>1. reader' = Idle \/ (/\ reader'.warned = reader.warned
                           /\ reader'.contested = reader.contested
                           /\ reader'.inexact = reader.inexact)
    BY <1>1, <1>5 DEF ReadXml
  <2> QED
    BY <1>2, <2>1 DEF ReaderInv
<1>6. CASE UNCHANGED reader
  BY <1>6 DEF ReaderInv
<1>7. CASE \/ \E mode \in {"full", "quick"} : StartBatch(mode)
           \/ Join \/ \E survivors \in SUBSET Alive : KillBatch(survivors)
  BY <1>6, <1>7 DEF StartBatch, Join, KillBatch
<1>8. CASE \E j \in Jobs : RunThread(j)
  BY <1>6, <1>8 DEF RunThread, TakeJob, CheckHead, MakeHead, MakeLeaf, Popen, StartSim,
     Wait, threadVars
<1>9. CASE \E r \in Runs : Simulate(r) \/ Crash(r)
  BY <1>6, <1>9 DEF Simulate, OpenLog, WriteLine, OpenXml, CloseXml, Crash, simulationVars
<1>10. CASE UNCHANGED batchVars
  BY <1>6, <1>10 DEF batchVars
<1> QED
  BY <1>3, <1>4, <1>5, <1>7, <1>8, <1>9, <1>10 DEF BatchNext, Process

(* Figures drawn without a warning average the samples of the first         *)
(* milliseconds and no others, for any number of jobs, workers and batches,  *)
(* whatever crashed, was killed or started over, or was being written        *)
(* meanwhile; only a log that was cut off under another writer, and was not  *)
(* written whole since, is excepted (process_data.py of burst, 22-25,       *)
(* 195-204, 289-302; star-buffer-mp.cc 2196).                               *)
THEOREM SilentDataExact == BatchSpec => []SilentDataIsExact
<1>1. BatchInit => LogInv /\ ReaderInv
  <2> SUFFICES ASSUME BatchInit PROVE LogInv /\ ReaderInv
    OBVIOUS
  <2>1. ASSUME NEW j \in Jobs PROVE Settled(j)
    <3>1. Writers(j) = {}
      BY DEF BatchInit, Writers
    <3>2. tor[j].lines = 1 .. 0 /\ 0 \in 0 .. FullLines
      BY BatchAssumption DEF BatchInit
    <3> QED
      BY <3>1, <3>2 DEF Settled, GrowingLog
  <2> QED
    BY <2>1 DEF LogInv, ReaderInv, BatchInit, Idle
<1>2. BatchInv => BatchTypeOK
  BY DEF BatchInv
<1>3. ReaderInv => SilentDataIsExact
  BY DEF ReaderInv, SilentDataIsExact
<1> QED
  BY <1>1, <1>2, <1>3, BatchInvariance, LogStep, ReaderStep, PTL DEF BatchSpec

-----------------------------------------------------------------------------
(* The stalls that video.py records are real, for every number of streams  *)
(* and every course of the playback.                                       *)

(* What a stall may consist of.                                            *)
Covered == stalledAt \cup gapAt

Cover(from, to) == from .. to - 1 \subseteq Covered

(* The events the poller will still go through: what the page adds to the  *)
(* array while they are being gone through will be lost.                   *)
Pending == IF InGap THEN taken ELSE rebuffer_events

OpenFrom == Last(rebuffer_periods).from

(* Where the poller will find an end after a start, or after a period that *)
(* is open, playback has been stalled from there to the end.               *)
Bracketed ==
  /\ \A i \in 1 .. Len(Pending) - 1 :
       Pending[i].type = "start" /\ Pending[i + 1].type = "end" =>
         Cover(Pending[i].at, Pending[i + 1].at)
  /\ Pending # <<>> =>
       /\ IsOpen /\ Head(Pending).type = "end" =>
            Cover(OpenFrom, Head(Pending).at)
       /\ Last(Pending).type = "start" =>
            Cover(Last(Pending).at, now) /\ (InGap \/ stalled # {})
  /\ Pending = <<>> /\ IsOpen /\ (InGap \/ stalled # {}) => Cover(OpenFrom, now)

Event == [type : {"start", "end"}, at : Nat]
Period == [from : Nat, to : Nat \cup {None}]

Types ==
  /\ now \in Nat
  /\ rebuffer_events \in Seq(Event) /\ taken \in Seq(Event)
  /\ rebuffer_periods \in Seq(Period)

VideoInv ==
  /\ Types
  /\ RecordedStallsAreReal
  /\ pc # "quit" => Bracketed

-----------------------------------------------------------------------------
(* What Append and Tail do to the ends of a sequence.                      *)
LEMMA AppendEnds ==
  ASSUME NEW S, NEW s \in Seq(S), NEW e \in S
  PROVE  /\ Append(s, e) \in Seq(S) /\ Append(s, e) # <<>>
         /\ Len(Append(s, e)) = Len(s) + 1
         /\ \A i \in 1 .. Len(s) : Append(s, e)[i] = s[i]
         /\ Append(s, e)[Len(s) + 1] = e
         /\ Last(Append(s, e)) = e
         /\ s = <<>> => Head(Append(s, e)) = e
         /\ s # <<>> => Head(Append(s, e)) = Head(s) /\ Last(s) = s[Len(s)]
BY DEF Last

LEMMA LastIn ==
  ASSUME NEW S, NEW s \in Seq(S), s # <<>>
  PROVE  Last(s) \in S /\ Len(s) \in 1 .. Len(s)
BY DEF Last

LEMMA TailEnds ==
  ASSUME NEW S, NEW s \in Seq(S), s # <<>>
  PROVE  /\ Tail(s) \in Seq(S) /\ Len(Tail(s)) = Len(s) - 1
         /\ Head(s) = s[1] /\ Head(s) \in S
         /\ \A i \in 1 .. Len(s) - 1 : Tail(s)[i] = s[i + 1]
         /\ Tail(s) = <<>> => Last(s) = Head(s)
         /\ Tail(s) # <<>> => /\ Last(Tail(s)) = Last(s)
                              /\ Head(Tail(s)) = s[2] /\ Len(s) > 1
BY DEF Last

(* Time covered up to now is covered up to the next tick, if that tick is. *)
LEMMA CoverTick ==
  ASSUME NEW from \in Nat, now \in Nat, now' = now + 1, Cover(from, now),
         Covered \subseteq Covered', now \in Covered'
  PROVE  from .. now' - 1 \subseteq Covered'
<1> SUFFICES ASSUME NEW t \in from .. now PROVE t \in Covered'
  OBVIOUS
<1> QED
  BY DEF Cover

LEMMA VideoInitInv == VideoInit => VideoInv
<1> SUFFICES ASSUME VideoInit PROVE VideoInv
  OBVIOUS
<1>1. Types
  BY DEF VideoInit, Types
<1>2. RecordedStallsAreReal
  BY DEF VideoInit, RecordedStallsAreReal, Closed
<1>3. Pending = <<>> /\ ~ IsOpen
  BY DEF VideoInit, Pending, InGap, IsOpen
<1> QED
  BY <1>1, <1>2, <1>3 DEF VideoInv, Bracketed

-----------------------------------------------------------------------------
(* The page signals the beginning or the end of a stall.                   *)
LEMMA SignalStep ==
  ASSUME VideoInv, pc # "quit", NEW s \in Streams, BufferEmpty(s) \/ BufferLoaded(s)
  PROVE  VideoInv'
<1> PICK type \in {"start", "end"} :
      /\ PushEvent(type)
      /\ type = "start" => stalled' # {}
      /\ type = "end" => stalled # {}
  BY DEF BufferEmpty, BufferLoaded
<1> DEFINE event == [type |-> type, at |-> now]
<1> USE DEF VideoInv
<1>1. /\ rebuffer_events' = Append(rebuffer_events, event)
      /\ UNCHANGED <<now, pc, taken, rebuffer_periods, stalledAt, gapAt>>
  BY DEF PushEvent, pollerVars, history
<1>2. event \in Event /\ rebuffer_events \in Seq(Event)
  BY DEF Types, Event
<1>3. Types'
  BY <1>1, <1>2, AppendEnds DEF Types
<1>4. RecordedStallsAreReal'
  BY <1>1 DEF RecordedStallsAreReal, Closed, Ticks
<1>5. CASE InGap
  <2>1. Pending' = Pending /\ InGap'
    BY <1>1, <1>5 DEF Pending, InGap
  <2> QED
    BY <1>1, <1>3, <1>4, <1>5, <2>1
    DEF Bracketed, Cover, Covered, IsOpen, OpenFrom
<1>6. CASE ~ InGap
  <2> DEFINE P == rebuffer_events
  <2>1. Pending = P /\ Pending' = Append(P, event) /\ ~ InGap'
    BY <1>1, <1>6 DEF Pending, InGap
  <2>2. \A from, to : Cover(from, to)' <=> Cover(from, to)
    BY <1>1 DEF Cover, Covered
  <2>3. IsOpen' = IsOpen /\ OpenFrom' = OpenFrom
    BY <1>1 DEF IsOpen, OpenFrom
  <2>4. Cover(now, now)
    BY DEF Cover, Types
  <2>5. ASSUME NEW i \in 1 .. Len(Pending') - 1,
               Pending'[i].type = "start", Pending'[i + 1].type = "end"
        PROVE  Cover(Pending'[i].at, Pending'[i + 1].at)
    <3>1. Len(Pending') = Len(P) + 1 /\ Len(P) \in Nat
      BY <1>2, <2>1, AppendEnds
    <3>2. CASE i < Len(P)
      <4>1. Pending'[i] = P[i] /\ Pending'[i + 1] = P[i + 1]
        BY <1>2, <2>1, <3>1, <3>2, AppendEnds
      <4> QED
        BY <2>1, <2>5, <3>1, <3>2, <4>1 DEF Bracketed
    <3>3. CASE i = Len(P)
      <4>1. Pending'[i] = Last(P) /\ Pending'[i + 1] = event /\ P # <<>>
        BY <1>2, <2>1, <3>1, <3>3, AppendEnds DEF Last
      <4> QED
        BY <2>1, <2>5, <4>1 DEF Bracketed
    <3> QED
      BY <3>1, <3>2, <3>3
  <2>6. Pending' # <<>> /\ Last(Pending') = event
    BY <1>2, <2>1, AppendEnds
  <2>7. ASSUME IsOpen, Head(Pending').type = "end"
        PROVE  Cover(OpenFrom, Head(Pending').at)
    <3>1. CASE P = <<>>
      <4>1. Head(Pending') = event
        BY <1>2, <2>1, <3>1, AppendEnds
      <4> QED
        BY <2>1, <2>7, <3>1, <4>1 DEF Bracketed
    <3>2. CASE P # <<>>
      <4>1. Head(Pending') = Head(P)
        BY <1>2, <2>1, <3>2, AppendEnds
      <4> QED
        BY <2>1, <2>7, <3>2, <4>1 DEF Bracketed
    <3> QED
      BY <3>1, <3>2
  <2>8. Bracketed'
    BY <1>1, <2>2, <2>3, <2>4, <2>5, <2>6, <2>7 DEF Bracketed
  <2> QED
    BY <1>3, <1>4, <2>8
<1> QED
  BY <1>5, <1>6

-----------------------------------------------------------------------------
(* Time passes: it is playback stalled, or of the gap, as long as the last *)
(* event to be gone through is a start.                                    *)
LEMMA TickStep ==
  ASSUME VideoInv, pc # "quit", Tick
  PROVE  VideoInv'
<1> USE DEF VideoInv
<1>1. /\ now \in Nat /\ now' = now + 1
      /\ UNCHANGED <<pc, stalled, rebuffer_events, taken, rebuffer_periods>>
      /\ Covered \subseteq Covered'
      /\ InGap \/ stalled # {} => now \in Covered'
  BY DEF Tick, page, pollerVars, Covered, Types
<1>2. Types'
  BY <1>1 DEF Types
<1>3. RecordedStallsAreReal'
  BY <1>1 DEF RecordedStallsAreReal, Closed, Ticks, Covered
<1>4. /\ Pending' = Pending /\ InGap' = InGap
      /\ IsOpen' = IsOpen /\ OpenFrom' = OpenFrom
  BY <1>1 DEF Pending, InGap, IsOpen, OpenFrom
<1>5. \A from, to : Cover(from, to) => Cover(from, to)'
  BY <1>1 DEF Cover
<1>6. Pending \in Seq(Event)
  BY DEF Types, Pending
<1>7. ASSUME Pending # <<>>, Last(Pending).type = "start"
      PROVE  Last(Pending).at .. now' - 1 \subseteq Covered'
  <2>1. Last(Pending).at \in Nat
    <3>1. Last(Pending) \in Event
      BY <1>6, <1>7, LastIn
    <3> QED
      BY <3>1 DEF Event
  <2> QED
    BY <1>1, <1>7, <2>1, CoverTick DEF Bracketed
<1>8. ASSUME Pending = <<>>, IsOpen, InGap \/ stalled # {}
      PROVE  OpenFrom .. now' - 1 \subseteq Covered'
  <2>1. OpenFrom \in Nat
    <3>1. Last(rebuffer_periods) \in Period
      BY <1>8, LastIn DEF Types, IsOpen
    <3> QED
      BY <3>1 DEF OpenFrom, Period
  <2> QED
    BY <1>1, <1>8, <2>1, CoverTick DEF Bracketed
<1>9. Bracketed'
  BY <1>1, <1>4, <1>5, <1>7, <1>8 DEF Bracketed, Cover
<1> QED
  BY <1>2, <1>3, <1>9

-----------------------------------------------------------------------------
(* The poller goes through one event.                                      *)
LEMMA TakeStep ==
  ASSUME VideoInv, TakeEvent
  PROVE  VideoInv'
<1> USE DEF VideoInv
<1> DEFINE event == Head(taken)
<1>1. /\ InGap /\ taken # <<>> /\ taken \in Seq(Event) /\ Bracketed
      /\ Pending = taken /\ taken' = Tail(taken) /\ Pending' = Tail(taken)
      /\ UNCHANGED <<now, stalled, pc, rebuffer_events, stalledAt, gapAt>> /\ InGap'
  BY DEF TakeEvent, takenVars, page, history, InGap, Pending, Types
<1>2. /\ event \in Event /\ event = taken[1]
      /\ event.type \in {"start", "end"} /\ event.at \in Nat
  <2>1. event \in Event /\ event = taken[1]
    BY <1>1, TailEnds
  <2> QED
    BY <2>1 DEF Event
<1>3. \A from, to : Cover(from, to)' <=> Cover(from, to)
  BY <1>1 DEF Cover, Covered
<1>4. /\ Tail(taken) \in Seq(Event) /\ Len(Tail(taken)) = Len(taken) - 1
      /\ Len(taken) \in Nat
  BY <1>1, TailEnds
<1>5. ASSUME NEW i \in 1 .. Len(Pending') - 1,
             Pending'[i].type = "start", Pending'[i + 1].type = "end"
      PROVE  Cover(Pending'[i].at, Pending'[i + 1].at)
  <2>1. Pending'[i] = taken[i + 1] /\ Pending'[i + 1] = taken[i + 2]
    BY <1>1, <1>4, TailEnds
  <2> QED
    BY <1>1, <1>4, <1>5, <2>1 DEF Bracketed
<1>6. Pending' # <<>> =>
        /\ Last(Pending') = Last(taken) /\ Head(Pending') = taken[2]
        /\ Len(taken) > 1
  BY <1>1, TailEnds
<1>7. Pending' = <<>> => Last(taken) = event
  BY <1>1, TailEnds
<1>8. CASE event.type = "start"
  <2> DEFINE period == [from |-> event.at, to |-> None]
  <2>1. /\ rebuffer_periods' = Append(rebuffer_periods, period)
        /\ period \in Period
    BY <1>2, <1>8 DEF TakeEvent, Period
  <2>2. /\ rebuffer_periods' \in Seq(Period) /\ rebuffer_periods' # <<>>
        /\ Last(rebuffer_periods') = period
        /\ Len(rebuffer_periods') = Len(rebuffer_periods) + 1
        /\ rebuffer_periods'[Len(rebuffer_periods) + 1] = period
        /\ \A p \in 1 .. Len(rebuffer_periods) :
             rebuffer_periods'[p] = rebuffer_periods[p]
    BY <2>1, AppendEnds DEF Types
  <2>3. Types'
    BY <1>1, <1>4, <2>2 DEF Types
  <2>4. RecordedStallsAreReal'
    <3> SUFFICES ASSUME NEW p \in Closed'
                 PROVE  Ticks(p)' \subseteq (stalledAt \cup gapAt)'
      BY DEF RecordedStallsAreReal
    <3>1. p \in 1 .. Len(rebuffer_periods) /\ p \in Closed
      BY <2>2 DEF Closed, Types
    <3> QED
      BY <1>1, <2>2, <3>1 DEF RecordedStallsAreReal, Ticks
  <2>5. OpenFrom' = event.at
    BY <2>2 DEF OpenFrom
  <2>6. Bracketed'
    <3>1. ASSUME Pending' # <<>>, Head(Pending').type = "end"
          PROVE  Cover(event.at, Head(Pending').at)
      BY <1>1, <1>2, <1>4, <1>6, <1>8, <3>1 DEF Bracketed
    <3>2. Pending' = <<>> => Cover(event.at, now)
      BY <1>1, <1>7, <1>8 DEF Bracketed
    <3> QED
      BY <1>1, <1>3, <1>5, <1>6, <2>5, <3>1, <3>2 DEF Bracketed
  <2> QED
    BY <2>3, <2>4, <2>6
<1>9. CASE event.type = "end"
  <2>1. CASE IsOpen
    <3> DEFINE n == Len(rebuffer_periods)
    <3>1. /\ rebuffer_periods' = [rebuffer_periods EXCEPT ![n].to = event.at]
          /\ rebuffer_periods # <<>> /\ rebuffer_periods \in Seq(Period)
          /\ n \in Nat \ {0}
      BY <1>9, <2>1 DEF TakeEvent, Ended, IsOpen, Types
    <3>2. /\ rebuffer_periods' \in Seq(Period)
          /\ Len(rebuffer_periods') = n
          /\ rebuffer_periods'[n] = [rebuffer_periods[n] EXCEPT !.to = event.at]
          /\ \A p \in 1 .. n - 1 : rebuffer_periods'[p] = rebuffer_periods[p]
      <4>1. n \in 1 .. n /\ rebuffer_periods[n] \in Period
        BY <3>1, LastIn DEF Last
      <4>2. [rebuffer_periods[n] EXCEPT !.to = event.at] \in Period
        BY <1>2, <4>1 DEF Period
      <4> HIDE DEF event, n
      <4>3. rebuffer_periods' =
              [rebuffer_periods EXCEPT
                 ![n] = [rebuffer_periods[n] EXCEPT !.to = event.at]]
        BY <3>1
      <4> USE DEF n
      <4> QED
        BY <3>1, <4>1, <4>2, <4>3
    <3>3. Types'
      BY <1>1, <1>4, <3>2 DEF Types
    <3>4. OpenFrom = rebuffer_periods[n].from /\ Cover(OpenFrom, event.at)
      BY <1>1, <1>9, <2>1 DEF Bracketed, OpenFrom, Last
    <3>5. RecordedStallsAreReal'
      <4> SUFFICES ASSUME NEW p \in Closed'
                   PROVE  Ticks(p)' \subseteq (stalledAt \cup gapAt)'
        BY DEF RecordedStallsAreReal
      <4>1. p \in 1 .. n
        BY <3>2 DEF Closed
      <4>2. CASE p = n
        <5>1. /\ rebuffer_periods'[n].from = OpenFrom
              /\ rebuffer_periods'[n].to = event.at
          BY <3>1, <3>2, <3>4 DEF Period
        <5> QED
          BY <1>1, <3>4, <4>2, <5>1 DEF Ticks, Cover, Covered
      <4>3. CASE p # n
        <5>1. p \in Closed /\ rebuffer_periods'[p] = rebuffer_periods[p]
          BY <3>1, <3>2, <4>1, <4>3 DEF Closed
        <5> QED
          BY <1>1, <5>1 DEF RecordedStallsAreReal, Ticks
      <4> QED
        BY <4>2, <4>3
    <3>6. ~ IsOpen'
      BY <1>2, <3>1, <3>2 DEF IsOpen, Last, None, Period
    <3>7. Bracketed'
      BY <1>1, <1>3, <1>5, <1>6, <3>6 DEF Bracketed
    <3> QED
      BY <3>3, <3>5, <3>7
  <2>2. CASE ~ IsOpen
    <3>1. rebuffer_periods' = rebuffer_periods
      BY <1>9, <2>2 DEF TakeEvent
    <3>2. Types' /\ ~ IsOpen' /\ RecordedStallsAreReal'
      BY <1>1, <1>4, <2>2, <3>1
      DEF Types, IsOpen, RecordedStallsAreReal, Closed, Ticks
    <3>3. Bracketed'
      BY <1>1, <1>3, <1>5, <1>6, <3>2 DEF Bracketed
    <3> QED
      BY <3>2, <3>3
  <2> QED
    BY <2>1, <2>2
<1> QED
  BY <1>2, <1>8, <1>9

-----------------------------------------------------------------------------
(* The poller reads the events, or empties the array and with it forgets   *)
(* what has been added since; its other steps leave stalls alone.          *)
LEMMA PollerStep ==
  ASSUME VideoInv, ReadEvents \/ ClearEvents \/ ReadData \/ PrintRow \/ StampRow
  PROVE  VideoInv'
<1> USE DEF VideoInv, InGap
<1>1. /\ UNCHANGED <<now, stalled, rebuffer_periods, stalledAt, gapAt>>
      /\ pc # "quit"
  BY DEF ReadEvents, ClearEvents, ReadData, PrintRow, StampRow, page, history
<1>2. Types'
  <2>1. /\ taken' \in {taken, rebuffer_events}
        /\ rebuffer_events' \in {rebuffer_events, <<>>}
    BY DEF ReadEvents, ClearEvents, ReadData, PrintRow, StampRow, page
  <2>2. <<>> \in Seq(Event)
    OBVIOUS
  <2> QED
    BY <1>1, <2>1, <2>2 DEF Types
<1>3. RecordedStallsAreReal'
  BY <1>1 DEF RecordedStallsAreReal, Closed, Ticks
<1>4. Pending' = Pending
  BY DEF ReadEvents, ClearEvents, ReadData, PrintRow, StampRow, page, Pending
<1>5. InGap' \/ stalled' # {} => \/ InGap \/ stalled # {}
                                \/ Pending # <<>>
  BY DEF ReadEvents, ClearEvents, ReadData, PrintRow, StampRow, page, Pending
<1>6. Pending # <<>> => (InGap => InGap')
  BY DEF ReadEvents, ClearEvents, ReadData, PrintRow, StampRow, page, Pending
<1>7. Bracketed'
  BY <1>1, <1>4, <1>5, <1>6 DEF Bracketed, Cover, Covered, IsOpen, OpenFrom
<1> QED
  BY <1>2, <1>3, <1>7

LEMMA VideoInvStep == VideoInv /\ [VideoNext]_videoVars => VideoInv'
<1> SUFFICES ASSUME VideoInv, [VideoNext]_videoVars PROVE VideoInv'
  OBVIOUS
<1>1. ASSUME NEW s \in Streams, pc # "quit", BufferEmpty(s) \/ BufferLoaded(s)
      PROVE  VideoInv'
  BY <1>1, SignalStep
<1>2. CASE FragmentLoaded \/ UNCHANGED videoVars
  <2>1. UNCHANGED <<now, stalled, rebuffer_events, pc, taken, rebuffer_periods,
                    stalledAt, gapAt>>
    BY <1>2 DEF FragmentLoaded, videoVars, page, pollerVars, history
  <2> QED
    BY <2>1 DEF VideoInv, Types, RecordedStallsAreReal, Closed, Ticks, Bracketed,
       Pending, InGap, Cover, Covered, IsOpen, OpenFrom
<1>3. CASE pc # "quit" /\ Tick
  BY <1>3, TickStep
<1>4. CASE ReadEvents \/ ClearEvents \/ ReadData \/ PrintRow \/ StampRow
  BY <1>4, PollerStep
<1>5. CASE TakeEvent
  BY <1>5, TakeStep
<1>6. CASE Quit
  <2>1. pc' = "quit" /\ UNCHANGED <<now, rebuffer_events, taken, rebuffer_periods,
                                   stalledAt, gapAt>>
    BY <1>6 DEF Quit, page, history
  <2> QED
    BY <2>1 DEF VideoInv, Types, RecordedStallsAreReal, Closed, Ticks
<1> QED
  BY <1>1, <1>2, <1>3, <1>4, <1>5, <1>6 DEF VideoNext, Page

-----------------------------------------------------------------------------
(* No stall is recorded, as an R line, of time in which the video played,  *)
(* for any number of streams that signal stalls and any number of events   *)
(* that are lost between the reading and the emptying of the array         *)
(* (video.py 77-97).                                                       *)
THEOREM StallsAreReal == VideoSpec => []RecordedStallsAreReal
<1>1. VideoInv => RecordedStallsAreReal
  BY DEF VideoInv
<1> QED
  BY VideoInitInv, VideoInvStep, <1>1, PTL DEF VideoSpec

-----------------------------------------------------------------------------
(* The column counts no tick twice.  Periods are recorded in the order in   *)
(* which they happened, so that no two closed ones share a tick, and what a *)
(* row counts lies between the time stamp of the row before and its own.    *)

PeriodsOrdered ==
  /\ \A p \in DOMAIN rebuffer_periods :
       /\ rebuffer_periods[p].from <= now /\ rebuffer_periods[p].to <= now
       /\ p \in Closed => rebuffer_periods[p].from <= rebuffer_periods[p].to
  /\ \A p, q \in DOMAIN rebuffer_periods :
       p < q => rebuffer_periods[p].to <= rebuffer_periods[q].from

(* The events still to be gone through come after the periods recorded.     *)
EventsOrdered ==
  \A i \in DOMAIN Pending :
    /\ Pending[i].at <= now
    /\ \A j \in DOMAIN Pending : i < j => Pending[i].at <= Pending[j].at
    /\ \A p \in DOMAIN rebuffer_periods :
         /\ rebuffer_periods[p].from <= Pending[i].at
         /\ rebuffer_periods[p].to <= Pending[i].at

CoveredBefore(t) == { x \in Covered : x < t }
CoveredFrom(t) == { x \in Covered : x >= t }

ColumnInv ==
  /\ VideoTypeOK
  /\ PeriodsOrdered
  /\ pc # "quit" => EventsOrdered
  /\ Covered \subseteq 0 .. now - 1 /\ last_print_time <= now
  /\ column <= Cardinality(Covered)
  /\ pc \notin {"stamp", "quit"} =>
       column <= Cardinality(CoveredBefore(last_print_time))

(* What the types give.                                                     *)
LEMMA ColumnTypes ==
  ASSUME VideoTypeOK
  PROVE  /\ now \in Nat /\ now \in Times /\ last_print_time \in Nat /\ column \in Nat
         /\ Times \subseteq Nat /\ MaxTime \in Nat
         /\ \A p \in DOMAIN rebuffer_periods :
              /\ rebuffer_periods[p].from \in Nat
              /\ rebuffer_periods[p].to \in Nat \cup {None}
              /\ rebuffer_periods[p].to \in Int
              /\ p \in Closed => rebuffer_periods[p].to \in Nat
         /\ DOMAIN rebuffer_periods = 1 .. Len(rebuffer_periods)
         /\ Len(rebuffer_periods) \in Nat
         /\ Pending \in Seq(Events)
         /\ \A i \in DOMAIN Pending : Pending[i].at \in Nat
<1>1. now \in Nat /\ now \in Times /\ last_print_time \in Nat /\ column \in Nat
      /\ Times \subseteq Nat /\ MaxTime \in Nat
  BY VideoAssumption DEF VideoTypeOK, Times
<1> DEFINE P == [from : Times, to : Times \cup {None}]
<1>2. rebuffer_periods \in Seq(P)
  BY DEF VideoTypeOK
<1>4. ASSUME NEW q \in P
      PROVE  /\ q.from \in Nat /\ q.to \in Nat \cup {None} /\ q.to \in Int
             /\ q.to # None => q.to \in Nat
  <2>1. q.from \in Times /\ q.to \in Times \cup {None}
    BY <1>4
  <2> HIDE DEF P
  <2>2. None \in Int /\ \A x \in Times : x \in Nat /\ x \in Int
    BY <1>1 DEF None
  <2> QED
    BY <2>1, <2>2
<1> HIDE DEF P
<1>3. ASSUME NEW p \in DOMAIN rebuffer_periods
      PROVE  rebuffer_periods[p] \in P
  BY <1>2, <1>3
<1>5. DOMAIN rebuffer_periods = 1 .. Len(rebuffer_periods) /\ Len(rebuffer_periods) \in Nat
  BY <1>2
<1>6. Pending \in Seq(Events)
  BY DEF Pending, VideoTypeOK
<1>7. ASSUME NEW i \in DOMAIN Pending PROVE Pending[i].at \in Nat
  <2>1. Pending[i] \in Events
    BY <1>6, <1>7
  <2> QED
    BY <1>1, <2>1 DEF Events
<1> QED
  BY <1>1, <1>3, <1>4, <1>5, <1>6, <1>7 DEF Closed

LEMMA MaxOfTwo ==
  \A a, b \in Int : Max({a, b}) \in {a, b} /\ Max({a, b}) >= a /\ Max({a, b}) >= b
<1> SUFFICES ASSUME NEW a \in Int, NEW b \in Int
             PROVE  Max({a, b}) \in {a, b} /\ Max({a, b}) >= a /\ Max({a, b}) >= b
  OBVIOUS
<1>1. \E x \in {a, b} : \A y \in {a, b} : x >= y
  BY a >= b \/ b >= a
<1> QED
  BY <1>1 DEF Max

(* What a row counts of a closed period is the number of its ticks from the *)
(* last time stamp on.                                                      *)
TicksFrom(t, p) == { x \in Ticks(p) : x >= t }

LEMMA AfterCounts ==
  ASSUME ColumnInv, NEW p \in Closed, NEW t \in Nat
  PROVE  After(t, p) = Cardinality(TicksFrom(t, p)) /\ After(t, p) \in Nat
<1> DEFINE from == rebuffer_periods[p].from
           to == rebuffer_periods[p].to
           low == Max({from, t})
<1>1. from \in Nat /\ to \in Nat /\ from <= to
  BY ColumnTypes DEF ColumnInv, PeriodsOrdered, Closed
<1>2. low \in {from, t} /\ low >= from /\ low >= t
  <2>1. from \in Int /\ t \in Int
    BY <1>1
  <2> HIDE DEF from
  <2> QED
    BY <2>1, MaxOfTwo
<1> HIDE DEF low
<1>3. TicksFrom(t, p) = low .. to - 1
  BY <1>1, <1>2 DEF TicksFrom, Ticks
<1>4. Cardinality(low .. to - 1) = IF low > to - 1 THEN 0 ELSE to - 1 - low + 1
  <2>1. low \in Int /\ to - 1 \in Int
    BY <1>1, <1>2
  <2> HIDE DEF to
  <2> QED
    BY <2>1, FS_Interval
<1>5. After(t, p) = IF to > t THEN to - low ELSE 0
  BY DEF After, low
<1> QED
  BY <1>1, <1>2, <1>3, <1>4, <1>5

LEMMA SplitCovered ==
  ASSUME now \in Nat, Covered \subseteq 0 .. now - 1, NEW t \in Nat
  PROVE  /\ IsFiniteSet(Covered) /\ IsFiniteSet(CoveredFrom(t))
         /\ Cardinality(Covered) \in Nat
         /\ Cardinality(CoveredBefore(t)) \in Nat
         /\ Cardinality(CoveredFrom(t)) \in Nat
         /\ Cardinality(Covered)
              = Cardinality(CoveredBefore(t)) + Cardinality(CoveredFrom(t))
<1>1. IsFiniteSet(Covered) /\ Covered \subseteq Nat
  <2>1. 0 \in Int /\ now - 1 \in Int
    OBVIOUS
  <2>2. IsFiniteSet(0 .. now - 1)
    BY <2>1, FS_Interval
  <2>3. IsFiniteSet(Covered)
    BY <2>2, FS_Subset
  <2>4. 0 .. now - 1 \subseteq Nat
    OBVIOUS
  <2> QED
    BY <2>3, <2>4
<1>2. /\ CoveredBefore(t) \subseteq Covered /\ CoveredFrom(t) \subseteq Covered
      /\ Covered = CoveredBefore(t) \cup CoveredFrom(t)
      /\ CoveredBefore(t) \cap CoveredFrom(t) = {}
  <2>1. \A x \in Covered : (x < t \/ x >= t) /\ ~ (x < t /\ x >= t)
    BY <1>1
  <2> QED
    BY <2>1, Zenon DEF CoveredBefore, CoveredFrom
<1>3. IsFiniteSet(CoveredBefore(t)) /\ IsFiniteSet(CoveredFrom(t))
  BY <1>1, <1>2, FS_Subset
<1>4. /\ Cardinality(Covered) \in Nat /\ Cardinality(CoveredBefore(t)) \in Nat
      /\ Cardinality(CoveredFrom(t)) \in Nat
  BY <1>1, <1>3, FS_CardinalityType
<1>5. Cardinality(CoveredBefore(t) \cap CoveredFrom(t)) = 0
  BY <1>2, FS_EmptySet
<1>6. Cardinality(CoveredBefore(t) \cup CoveredFrom(t))
        = Cardinality(CoveredBefore(t)) + Cardinality(CoveredFrom(t))
            - Cardinality(CoveredBefore(t) \cap CoveredFrom(t))
  BY <1>3, FS_Union
<1> QED
  BY <1>1, <1>2, <1>3, <1>4, <1>5, <1>6

(* A row counts no more than the ticks since the row before.                *)
LEMMA RowCounts ==
  ASSUME VideoInv, ColumnInv
  PROVE  /\ current_rebuffer_time \in Nat
         /\ current_rebuffer_time <= Cardinality(CoveredFrom(last_print_time))
<1> DEFINE t == last_print_time
           f == [p \in Closed |-> After(t, p)]
           T == [p \in Closed |-> TicksFrom(t, p)]
<1>1. t \in Nat /\ now \in Nat /\ Len(rebuffer_periods) \in Nat
      /\ DOMAIN rebuffer_periods = 1 .. Len(rebuffer_periods)
  BY ColumnTypes DEF ColumnInv
<1>2. IsFiniteSet(Closed)
  <2>1. Closed \subseteq 1 .. Len(rebuffer_periods)
    BY <1>1 DEF Closed
  <2>2. IsFiniteSet(1 .. Len(rebuffer_periods))
    BY <1>1, FS_Interval
  <2> QED
    BY <2>1, <2>2, FS_Subset
<1>3. current_rebuffer_time = SumFunctionOnSet(f, Closed)
  BY DEF current_rebuffer_time, SumFunction
<1>4. \A p \in Closed : f[p] \in Nat /\ f[p] = Cardinality(T[p])
  BY <1>1, AfterCounts
<1>5. \A p \in Closed : T[p] \subseteq CoveredFrom(t)
  BY DEF VideoInv, RecordedStallsAreReal, Covered, CoveredFrom, TicksFrom
<1>6. ASSUME NEW p \in Closed, NEW q \in Closed, p < q
      PROVE  T[p] \cap T[q] = {}
  <2>1. p \in DOMAIN rebuffer_periods /\ q \in DOMAIN rebuffer_periods
    BY DEF Closed
  <2>2. /\ rebuffer_periods[p].to <= rebuffer_periods[q].from
        /\ rebuffer_periods[p].to \in Nat /\ rebuffer_periods[q].from \in Nat
        /\ rebuffer_periods[p].from \in Nat /\ rebuffer_periods[q].to \in Nat
    BY <1>6, <2>1, ColumnTypes DEF ColumnInv, PeriodsOrdered
  <2> QED
    BY <2>2 DEF TicksFrom, Ticks
<1>7. \A p, q \in Closed : p # q => T[p] \cap T[q] = {}
  <2> SUFFICES ASSUME NEW p \in Closed, NEW q \in Closed, p # q
               PROVE  T[p] \cap T[q] = {}
    OBVIOUS
  <2>1. p \in Nat /\ q \in Nat
    BY <1>1 DEF Closed
  <2>2. CASE p < q
    BY <1>6, <2>2
  <2>3. CASE q < p
    BY <1>6, <2>3
  <2> QED
    BY <2>1, <2>2, <2>3
<1>8. IsFiniteSet(CoveredFrom(t))
  BY <1>1, SplitCovered DEF ColumnInv
<1> HIDE DEF f, T
<1>9. SumFunctionOnSet(f, Closed) <= Cardinality(CoveredFrom(t))
  BY <1>2, <1>4, <1>5, <1>7, <1>8, SumOfPieces
<1>10. SumFunctionOnSet(f, Closed) \in Nat
  BY <1>2, <1>4, SumNat
<1> QED
  BY <1>3, <1>9, <1>10

LEMMA ColumnInit == VideoInit => ColumnInv
<1> SUFFICES ASSUME VideoInit PROVE ColumnInv
  OBVIOUS
<1>1. Covered = {} /\ Pending = <<>>
  BY DEF VideoInit, Covered, Pending, InGap
<1>2. 0 \in Times
  BY VideoAssumption DEF Times
<1>3. Cardinality(Covered) = 0 /\ CoveredBefore(last_print_time) = {}
  BY <1>1, FS_EmptySet DEF CoveredBefore
<1>4. VideoTypeOK
  <2>1. /\ <<>> \in Seq(Events)
        /\ <<>> \in Seq([from : Times, to : Times \cup {None}])
    OBVIOUS
  <2>2. 0 \in 0 .. MaxEvents
    BY VideoAssumption
  <2> QED
    BY <1>2, <2>1, <2>2 DEF VideoInit, VideoTypeOK
<1>5. PeriodsOrdered /\ EventsOrdered
  BY <1>1 DEF VideoInit, PeriodsOrdered, EventsOrdered
<1> QED
  BY <1>1, <1>3, <1>4, <1>5, FS_EmptySet DEF VideoInit, ColumnInv

(* An event added now comes after all others.                               *)
LEMMA ColumnSignal ==
  ASSUME ColumnInv, pc # "quit", NEW s \in Streams, BufferEmpty(s) \/ BufferLoaded(s)
  PROVE  ColumnInv'
<1> PICK type \in {"start", "end"} : PushEvent(type) /\ stalled' \subseteq Streams
  BY DEF BufferEmpty, BufferLoaded, ColumnInv, VideoTypeOK
<1> DEFINE event == [type |-> type, at |-> now]
<1>1. /\ rebuffer_events' = Append(rebuffer_events, event)
      /\ UNCHANGED <<now, dash_data, pc, taken, rebuffer_periods, last_print_time,
                     column, stalledAt, gapAt>>
      /\ events' \in 0 .. MaxEvents
  <2>1. events \in 0 .. MaxEvents /\ events < MaxEvents /\ events' = events + 1
    BY DEF PushEvent, ColumnInv, VideoTypeOK
  <2>2. events' \in 0 .. MaxEvents
    BY <2>1, VideoAssumption
  <2> QED
    BY <2>2 DEF PushEvent, pollerVars, history
<1>2. event \in Events
  BY ColumnTypes DEF ColumnInv, Events
<1>3. rebuffer_events' \in Seq(Events)
  BY <1>1, <1>2 DEF ColumnInv, VideoTypeOK
<1>4. VideoTypeOK'
  BY <1>1, <1>3 DEF ColumnInv, VideoTypeOK
<1>5. PeriodsOrdered'
  BY <1>1 DEF ColumnInv, PeriodsOrdered, Closed
<1>6. EventsOrdered'
  <2>1. CASE InGap
    <3>1. Pending' = Pending
      BY <1>1, <2>1 DEF Pending, InGap
    <3> QED
      BY <1>1, <3>1 DEF ColumnInv, EventsOrdered
  <2>2. CASE ~ InGap
    <3>1. Pending = rebuffer_events /\ Pending' = Append(Pending, event)
      BY <1>1, <2>2 DEF Pending, InGap
    <3>2. Pending \in Seq(Events) /\ event.at = now /\ now \in Nat
      BY ColumnTypes DEF ColumnInv
    <3> HIDE DEF event
    <3>3. /\ DOMAIN Pending = 1 .. Len(Pending) /\ Len(Pending) \in Nat
          /\ DOMAIN Pending' = 1 .. Len(Pending) + 1
          /\ Pending'[Len(Pending) + 1] = event
          /\ \A i \in DOMAIN Pending : Pending'[i] = Pending[i]
      BY <1>2, <3>1, <3>2
    <3>4. EventsOrdered /\ PeriodsOrdered
      BY DEF ColumnInv
    <3>5. ASSUME NEW i \in DOMAIN Pending'
          PROVE  /\ Pending'[i].at <= now
                 /\ \A j \in DOMAIN Pending' : i < j => Pending'[i].at <= Pending'[j].at
                 /\ \A p \in DOMAIN rebuffer_periods :
                      /\ rebuffer_periods[p].from <= Pending'[i].at
                      /\ rebuffer_periods[p].to <= Pending'[i].at
      <4>1. CASE i \in DOMAIN Pending
        BY <3>2, <3>3, <3>4, <4>1 DEF EventsOrdered
      <4>2. CASE i = Len(Pending) + 1
        BY <3>2, <3>3, <3>4, <4>2 DEF PeriodsOrdered
      <4> QED
        BY <3>3, <4>1, <4>2
    <3> QED
      BY <1>1, <3>5 DEF EventsOrdered
  <2> QED
    BY <2>1, <2>2
<1>7. Covered' = Covered /\ CoveredBefore(last_print_time)' = CoveredBefore(last_print_time)
  BY <1>1 DEF Covered, CoveredBefore
<1> QED
  BY <1>1, <1>4, <1>5, <1>6, <1>7 DEF ColumnInv

(* A tick may be covered, but not before the last time stamp.               *)
LEMMA ColumnTick ==
  ASSUME ColumnInv, pc # "quit", Tick
  PROVE  ColumnInv'
<1>1. /\ now \in Nat /\ now' = now + 1 /\ now' \in Times /\ now \in Times
      /\ UNCHANGED <<stalled, rebuffer_events, dash_data, events, pc, taken,
                     rebuffer_periods, last_print_time, column>>
      /\ stalledAt' \subseteq stalledAt \cup {now}
      /\ gapAt' \subseteq gapAt \cup {now}
      /\ Covered \subseteq Covered' /\ Covered' \subseteq Covered \cup {now}
      /\ last_print_time \in Nat /\ column \in Nat
  <2>1. now \in Nat /\ now \in Times /\ MaxTime \in Nat /\ now' = now + 1
        /\ now < MaxTime
    BY ColumnTypes DEF ColumnInv, Tick
  <2>2. now' \in Times
    BY <2>1 DEF Times
  <2> QED
    BY <2>1, <2>2, ColumnTypes DEF ColumnInv, Tick, page, pollerVars, Covered
<1>2. VideoTypeOK'
  BY <1>1 DEF ColumnInv, VideoTypeOK
<1>3. PeriodsOrdered'
  <2>1. PeriodsOrdered
    BY DEF ColumnInv
  <2> QED
    BY <1>1, <2>1, ColumnTypes DEF ColumnInv, PeriodsOrdered, Closed
<1>4. EventsOrdered'
  <2>1. EventsOrdered /\ Pending' = Pending
    BY <1>1 DEF ColumnInv, Pending, InGap
  <2> QED
    BY <1>1, <2>1, ColumnTypes DEF ColumnInv, EventsOrdered
<1>5. Covered' \subseteq 0 .. now' - 1 /\ last_print_time' <= now'
  BY <1>1 DEF ColumnInv
<1>6. CoveredBefore(last_print_time)' = CoveredBefore(last_print_time)
  <2>1. ~ (now < last_print_time)
    BY <1>1 DEF ColumnInv
  <2> QED
    BY <1>1, <2>1 DEF CoveredBefore
<1>7. column' <= Cardinality(Covered')
  <2>1. Cardinality(Covered) <= Cardinality(Covered')
    <3>1. now' \in Nat /\ 0 \in Nat
      BY <1>1
    <3>2. IsFiniteSet(Covered')
      <4>1. IsFiniteSet(Covered)
        BY <1>1, <3>1, SplitCovered DEF ColumnInv
      <4>2. IsFiniteSet(Covered \cup {now})
        BY <4>1, FS_AddElement
      <4> QED
        BY <1>1, <4>2, FS_Subset
    <3> QED
      BY <1>1, <3>2, FS_Subset
  <2>2. Cardinality(Covered) \in Nat /\ Cardinality(Covered') \in Nat
    <3>1. now' \in Nat
      BY <1>1
    <3>2. IsFiniteSet(Covered)
      BY <1>1, SplitCovered DEF ColumnInv
    <3>3. IsFiniteSet(Covered \cup {now})
      BY <3>2, FS_AddElement
    <3>4. IsFiniteSet(Covered')
      BY <1>1, <3>3, FS_Subset
    <3> QED
      BY <3>2, <3>4, FS_CardinalityType
  <2> QED
    BY <1>1, <2>1, <2>2 DEF ColumnInv
<1> QED
  BY <1>1, <1>2, <1>3, <1>4, <1>5, <1>6, <1>7 DEF ColumnInv

(* The poller records what it takes in the order in which it happened.      *)
LEMMA ColumnTake ==
  ASSUME ColumnInv, TakeEvent
  PROVE  ColumnInv'
<1> DEFINE event == Head(taken)
           n == Len(rebuffer_periods)
<1>1. /\ InGap /\ InGap' /\ taken # <<>> /\ Pending = taken
      /\ taken' = Tail(taken) /\ Pending' = Tail(taken)
      /\ taken \in Seq(Events) /\ pc = "gap"
      /\ UNCHANGED <<now, stalled, rebuffer_events, dash_data, events, pc,
                     last_print_time, column, stalledAt, gapAt>>
  BY DEF TakeEvent, takenVars, page, history, InGap, Pending, ColumnInv, VideoTypeOK
<1>2. EventsOrdered /\ PeriodsOrdered
  BY <1>1 DEF ColumnInv
<1>3. /\ Tail(taken) \in Seq(Events) /\ event = taken[1] /\ event \in Events
      /\ DOMAIN taken = 1 .. Len(taken) /\ Len(taken) \in Nat \ {0}
      /\ DOMAIN Tail(taken) = 1 .. Len(taken) - 1
      /\ \A i \in DOMAIN Tail(taken) : Tail(taken)[i] = taken[i + 1]
  BY <1>1
<1>4. /\ event.type \in {"start", "end"} /\ event.at \in Times /\ event.at \in Nat
      /\ event.at <= now
  <2>1. event.type \in {"start", "end"} /\ event.at \in Times
    BY <1>3 DEF Events
  <2>2. 1 \in DOMAIN Pending /\ event = Pending[1]
    BY <1>1, <1>3
  <2>3. event.at <= now
    BY <1>2, <2>2 DEF EventsOrdered
  <2> QED
    BY <2>1, <2>3, ColumnTypes DEF ColumnInv
<1>5. /\ rebuffer_periods \in Seq([from : Times, to : Times \cup {None}])
      /\ DOMAIN rebuffer_periods = 1 .. n /\ n \in Nat
      /\ \A p \in DOMAIN rebuffer_periods :
           /\ rebuffer_periods[p].from \in Nat /\ rebuffer_periods[p].to \in Int
           /\ rebuffer_periods[p].from <= event.at
           /\ rebuffer_periods[p].to <= event.at
  <2>1. 1 \in DOMAIN Pending /\ event = Pending[1]
    BY <1>1, <1>3
  <2>2. \A p \in DOMAIN rebuffer_periods :
          /\ rebuffer_periods[p].from <= event.at
          /\ rebuffer_periods[p].to <= event.at
    BY <1>2, <2>1 DEF EventsOrdered
  <2> QED
    BY <2>2, ColumnTypes DEF ColumnInv, VideoTypeOK
<1>6. /\ now \in Nat /\ \A i \in DOMAIN Pending : Pending[i].at \in Nat
  BY ColumnTypes DEF ColumnInv
<1> HIDE DEF event, n
(* It suffices that the periods stay in order and before the next events.   *)
<1>7. ASSUME rebuffer_periods' \in Seq([from : Times, to : Times \cup {None}]),
             PeriodsOrdered',
             \A p \in DOMAIN rebuffer_periods' :
               /\ rebuffer_periods'[p].from \in Int /\ rebuffer_periods'[p].to \in Int
               /\ rebuffer_periods'[p].from <= event.at
               /\ rebuffer_periods'[p].to <= event.at
      PROVE  ColumnInv'
  <2>1. VideoTypeOK'
    BY <1>1, <1>3, <1>7 DEF ColumnInv, VideoTypeOK
  <2>2. EventsOrdered'
    <3> SUFFICES ASSUME NEW i \in DOMAIN Pending'
                 PROVE  /\ Pending'[i].at <= now
                        /\ \A j \in DOMAIN Pending' :
                             i < j => Pending'[i].at <= Pending'[j].at
                        /\ \A p \in DOMAIN rebuffer_periods' :
                             /\ rebuffer_periods'[p].from <= Pending'[i].at
                             /\ rebuffer_periods'[p].to <= Pending'[i].at
      BY <1>1 DEF EventsOrdered
    <3>1. i + 1 \in DOMAIN taken /\ 1 \in DOMAIN taken /\ Pending'[i] = taken[i + 1]
      BY <1>1, <1>3
    <3>2. event.at <= taken[i + 1].at /\ taken[i + 1].at \in Nat /\ taken[i + 1].at <= now
      <4>1. 1 < i + 1 /\ i + 1 \in DOMAIN Pending /\ 1 \in DOMAIN Pending
        BY <1>1, <1>3, <3>1
      <4>2. Pending[1].at <= Pending[i + 1].at /\ Pending[i + 1].at <= now
        BY <1>2, <4>1 DEF EventsOrdered
      <4> QED
        BY <1>1, <1>3, <1>6, <4>1, <4>2
    <3>3. ASSUME NEW j \in DOMAIN Pending', i < j
          PROVE  Pending'[i].at <= Pending'[j].at
      <4>1. j + 1 \in DOMAIN taken /\ Pending'[j] = taken[j + 1] /\ i + 1 < j + 1
        BY <1>1, <1>3, <3>3
      <4> QED
        BY <1>1, <1>2, <3>1, <4>1 DEF EventsOrdered
    <3>4. ASSUME NEW p \in DOMAIN rebuffer_periods'
          PROVE  /\ rebuffer_periods'[p].from <= Pending'[i].at
                 /\ rebuffer_periods'[p].to <= Pending'[i].at
      BY <1>4, <1>7, <3>1, <3>2
    <3> QED
      BY <3>1, <3>2, <3>3, <3>4
  <2>3. Covered' = Covered /\ CoveredBefore(last_print_time)' = CoveredBefore(last_print_time)
    BY <1>1 DEF Covered, CoveredBefore
  <2> QED
    BY <1>1, <1>7, <2>1, <2>2, <2>3 DEF ColumnInv
<1>8. CASE event.type = "start"
  <2> DEFINE period == [from |-> event.at, to |-> None]
  <2>1. rebuffer_periods' = Append(rebuffer_periods, period)
    BY <1>8 DEF TakeEvent, event
  <2>2. /\ period \in [from : Times, to : Times \cup {None}]
        /\ period.from = event.at /\ period.to = None
    BY <1>4
  <2> HIDE DEF period
  <2>3. /\ rebuffer_periods' \in Seq([from : Times, to : Times \cup {None}])
        /\ DOMAIN rebuffer_periods' = 1 .. n + 1
        /\ rebuffer_periods'[n + 1] = period
        /\ \A p \in 1 .. n : rebuffer_periods'[p] = rebuffer_periods[p]
    BY <1>5, <2>1, <2>2 DEF n
  <2>4. None \in Int /\ None <= 0
    BY DEF None
  <2>5. \A p \in DOMAIN rebuffer_periods' :
          /\ rebuffer_periods'[p].from \in Int /\ rebuffer_periods'[p].to \in Int
          /\ rebuffer_periods'[p].from <= event.at
          /\ rebuffer_periods'[p].to <= event.at
    BY <1>4, <1>5, <2>2, <2>3, <2>4
  <2>6. PeriodsOrdered'
    <3>1. ASSUME NEW p \in DOMAIN rebuffer_periods'
          PROVE  /\ rebuffer_periods'[p].from <= now
                 /\ rebuffer_periods'[p].to <= now
                 /\ p \in Closed' =>
                      rebuffer_periods'[p].from <= rebuffer_periods'[p].to
      <4>1. rebuffer_periods'[p].from <= now /\ rebuffer_periods'[p].to <= now
        BY <1>4, <1>6, <2>5
      <4>2. CASE p = n + 1
        BY <2>2, <2>3, <4>1, <4>2 DEF Closed
      <4>3. CASE p \in 1 .. n
        BY <1>2, <1>5, <2>3, <4>1, <4>3 DEF PeriodsOrdered, Closed
      <4> QED
        BY <1>5, <2>3, <4>2, <4>3
    <3>2. ASSUME NEW p \in DOMAIN rebuffer_periods', NEW q \in DOMAIN rebuffer_periods',
                 p < q
          PROVE  rebuffer_periods'[p].to <= rebuffer_periods'[q].from
      <4>1. p \in 1 .. n
        BY <1>5, <2>3, <3>2
      <4>2. CASE q = n + 1
        BY <1>5, <2>2, <2>3, <4>1, <4>2
      <4>3. CASE q \in 1 .. n
        BY <1>2, <1>5, <2>3, <3>2, <4>1, <4>3 DEF PeriodsOrdered
      <4> QED
        BY <1>5, <2>3, <4>2, <4>3
    <3> QED
      BY <1>1, <3>1, <3>2 DEF PeriodsOrdered
  <2> QED
    BY <1>7, <2>3, <2>5, <2>6
<1>9. CASE event.type = "end" /\ IsOpen
  <2> DEFINE period == [rebuffer_periods[n] EXCEPT !.to = event.at]
  <2>1. /\ rebuffer_periods' = [rebuffer_periods EXCEPT ![n].to = event.at]
        /\ rebuffer_periods # <<>>
    BY <1>9 DEF TakeEvent, Ended, IsOpen, event, n
  <2>2. n \in DOMAIN rebuffer_periods
    BY <1>5, <2>1 DEF n
  <2>3. /\ period \in [from : Times, to : Times \cup {None}]
        /\ period.from = rebuffer_periods[n].from /\ period.to = event.at
    <3>1. rebuffer_periods[n] \in [from : Times, to : Times \cup {None}]
      <4> DEFINE P == [from : Times, to : Times \cup {None}]
      <4>1. rebuffer_periods \in Seq(P)
        BY <1>5
      <4> HIDE DEF P
      <4>2. rebuffer_periods[n] \in P
        BY <2>2, <4>1
      <4> QED
        BY <4>2 DEF P
    <3> QED
      BY <1>4, <3>1
  <2>4. rebuffer_periods' = [rebuffer_periods EXCEPT ![n] = period]
    BY <2>1
  <2> HIDE DEF period
  <2>5. /\ rebuffer_periods' \in Seq([from : Times, to : Times \cup {None}])
        /\ DOMAIN rebuffer_periods' = 1 .. n
        /\ rebuffer_periods'[n] = period
        /\ \A p \in 1 .. n : p # n => rebuffer_periods'[p] = rebuffer_periods[p]
    BY <1>5, <2>2, <2>3, <2>4
  <2>6. \A p \in DOMAIN rebuffer_periods' :
          /\ rebuffer_periods'[p].from \in Int /\ rebuffer_periods'[p].to \in Int
          /\ rebuffer_periods'[p].from <= event.at
          /\ rebuffer_periods'[p].to <= event.at
          /\ rebuffer_periods'[p].from = rebuffer_periods[p].from
    BY <1>4, <1>5, <2>2, <2>3, <2>5
  <2>7. PeriodsOrdered'
    <3>1. ASSUME NEW p \in DOMAIN rebuffer_periods'
          PROVE  /\ rebuffer_periods'[p].from <= now
                 /\ rebuffer_periods'[p].to <= now
                 /\ p \in Closed' =>
                      rebuffer_periods'[p].from <= rebuffer_periods'[p].to
      <4>1. rebuffer_periods'[p].from <= now /\ rebuffer_periods'[p].to <= now
        BY <1>4, <1>6, <2>6
      <4>2. CASE p = n
        BY <2>3, <2>5, <2>6, <4>1, <4>2
      <4>3. CASE p # n
        BY <1>2, <1>5, <2>5, <4>1, <4>3 DEF PeriodsOrdered, Closed
      <4> QED
        BY <4>2, <4>3
    <3>2. ASSUME NEW p \in DOMAIN rebuffer_periods', NEW q \in DOMAIN rebuffer_periods',
                 p < q
          PROVE  rebuffer_periods'[p].to <= rebuffer_periods'[q].from
      <4>1. p \in 1 .. n /\ q \in 1 .. n /\ p # n
        BY <1>5, <2>5, <3>2
      <4> QED
        BY <1>2, <1>5, <2>5, <2>6, <3>2, <4>1 DEF PeriodsOrdered
    <3> QED
      BY <1>1, <3>1, <3>2 DEF PeriodsOrdered
  <2> QED
    BY <1>7, <2>5, <2>6, <2>7
<1>10. CASE event.type = "end" /\ ~ IsOpen
  <2>1. rebuffer_periods' = rebuffer_periods
    BY <1>10 DEF TakeEvent, event
  <2>2. PeriodsOrdered'
    BY <1>1, <1>2, <2>1 DEF PeriodsOrdered, Closed
  <2> QED
    BY <1>5, <1>7, <2>1, <2>2
<1> QED
  BY <1>4, <1>8, <1>9, <1>10

(* What the poller does besides.  A row adds what lies after the time stamp *)
(* of the row before, and its own stamp puts all of it in the past.         *)
LEMMA ColumnPoller ==
  ASSUME VideoInv, ColumnInv,
         \/ FragmentLoaded /\ pc # "quit"
         \/ ReadEvents \/ ClearEvents \/ ReadData \/ PrintRow \/ StampRow \/ Quit
  PROVE  ColumnInv'
<1>1. /\ UNCHANGED <<now, stalled, events, rebuffer_periods, stalledAt, gapAt>>
      /\ Covered' = Covered /\ Closed' = Closed
  BY DEF FragmentLoaded, ReadEvents, ClearEvents, ReadData, PrintRow, StampRow, Quit,
         page, pollerVars, history, Covered, Closed
<1>2. PeriodsOrdered'
  BY <1>1 DEF ColumnInv, PeriodsOrdered
<1>3. now \in Nat /\ now \in Times /\ last_print_time \in Nat /\ column \in Nat
  BY ColumnTypes DEF ColumnInv
<1>4. /\ current_rebuffer_time \in Nat
      /\ current_rebuffer_time <= Cardinality(CoveredFrom(last_print_time))
  BY RowCounts
<1>5. /\ Cardinality(Covered) \in Nat
      /\ Cardinality(CoveredBefore(last_print_time)) \in Nat
      /\ Cardinality(CoveredFrom(last_print_time)) \in Nat
      /\ Cardinality(Covered) = Cardinality(CoveredBefore(last_print_time))
                                  + Cardinality(CoveredFrom(last_print_time))
  BY <1>3, SplitCovered DEF ColumnInv
<1>6. VideoTypeOK'
  <2>1. column + current_rebuffer_time \in Nat
    BY <1>3, <1>4
  <2>2. <<>> \in Seq(Events)
    OBVIOUS
  <2> QED
    BY <1>1, <1>3, <2>1, <2>2
    DEF FragmentLoaded, ReadEvents, ClearEvents, ReadData, PrintRow, StampRow, Quit,
        page, pollerVars, history, ColumnInv, VideoTypeOK, InGap
<1>7. Covered' \subseteq 0 .. now' - 1
  BY <1>1 DEF ColumnInv
(* Where the column and the time stamp stay.                                *)
<1>8. ASSUME UNCHANGED <<last_print_time, column>>,
             pc' \notin {"stamp", "quit"} => pc \notin {"stamp", "quit"},
             pc' # "quit" => EventsOrdered'
      PROVE  ColumnInv'
  <2>1. CoveredBefore(last_print_time)' = CoveredBefore(last_print_time)
    BY <1>1, <1>8 DEF CoveredBefore
  <2> QED
    BY <1>1, <1>2, <1>6, <1>7, <1>8, <2>1 DEF ColumnInv
<1>9. CASE FragmentLoaded /\ pc # "quit"
  <2>1. UNCHANGED <<last_print_time, column, pc, taken, rebuffer_events>>
    BY <1>9 DEF FragmentLoaded, pollerVars, history
  <2>2. EventsOrdered'
    BY <1>1, <1>9, <2>1 DEF ColumnInv, EventsOrdered, Pending, InGap
  <2> QED
    BY <1>8, <1>9, <2>1, <2>2
<1>10. CASE ReadEvents
  <2>1. UNCHANGED <<last_print_time, column, rebuffer_events>> /\ pc = "read"
        /\ pc' \in {"data", "gap"} /\ taken' = rebuffer_events
    BY <1>10 DEF ReadEvents, page, history
  <2>2. Pending' = Pending
    BY <2>1 DEF Pending, InGap
  <2>3. EventsOrdered'
    BY <1>1, <2>1, <2>2 DEF ColumnInv, EventsOrdered
  <2> QED
    BY <1>8, <2>1, <2>3
<1>11. CASE ClearEvents
  <2>1. UNCHANGED <<last_print_time, column>> /\ pc = "gap" /\ pc' = "data"
        /\ rebuffer_events' = <<>>
    BY <1>11 DEF ClearEvents, InGap, history
  <2>2. Pending' = <<>>
    BY <2>1 DEF Pending, InGap
  <2>3. EventsOrdered'
    BY <2>2 DEF EventsOrdered
  <2> QED
    BY <1>8, <2>1, <2>3
<1>12. CASE ReadData
  <2>1. UNCHANGED <<last_print_time, column, taken, rebuffer_events>> /\ pc = "data"
        /\ pc' \in {"row", "read"}
    BY <1>12 DEF ReadData, page, history
  <2>2. Pending' = Pending
    BY <2>1 DEF Pending, InGap
  <2>3. EventsOrdered'
    BY <1>1, <2>1, <2>2 DEF ColumnInv, EventsOrdered
  <2> QED
    BY <1>8, <2>1, <2>3
<1>13. CASE PrintRow
  <2>1. /\ UNCHANGED <<last_print_time, taken, rebuffer_events>>
        /\ pc = "row" /\ pc' = "stamp" /\ column' = column + current_rebuffer_time
    BY <1>13 DEF PrintRow, page
  <2>2. Pending' = Pending
    BY <2>1 DEF Pending, InGap
  <2>3. EventsOrdered'
    BY <1>1, <2>1, <2>2 DEF ColumnInv, EventsOrdered
  <2>4. column <= Cardinality(CoveredBefore(last_print_time))
    BY <2>1 DEF ColumnInv
  <2>5. column' <= Cardinality(Covered')
    BY <1>1, <1>3, <1>4, <1>5, <2>1, <2>4
  <2> QED
    BY <1>1, <1>2, <1>6, <1>7, <2>1, <2>3, <2>5 DEF ColumnInv
<1>14. CASE StampRow
  <2>1. /\ UNCHANGED <<column, taken, rebuffer_events>>
        /\ pc = "stamp" /\ pc' = "read" /\ last_print_time' = now
    BY <1>14 DEF StampRow, history
  <2>2. Pending' = Pending
    BY <2>1 DEF Pending, InGap
  <2>3. EventsOrdered'
    BY <1>1, <2>1, <2>2 DEF ColumnInv, EventsOrdered
  <2>4. CoveredBefore(last_print_time)' = Covered
    <3>1. CoveredBefore(last_print_time)' = { x \in Covered : x < now }
      BY <1>1, <2>1 DEF CoveredBefore
    <3>2. \A x \in Covered : x < now
      BY <1>3 DEF ColumnInv
    <3> QED
      BY <3>1, <3>2, Zenon
  <2> QED
    BY <1>1, <1>2, <1>3, <1>6, <1>7, <2>1, <2>3, <2>4 DEF ColumnInv
<1>15. CASE Quit
  <2>1. UNCHANGED <<last_print_time, column>> /\ pc' = "quit"
    BY <1>15 DEF Quit, history
  <2> QED
    BY <1>8, <2>1
<1> QED
  BY <1>9, <1>10, <1>11, <1>12, <1>13, <1>14, <1>15

LEMMA ColumnStep == VideoInv /\ ColumnInv /\ [VideoNext]_videoVars => ColumnInv'
<1> SUFFICES ASSUME VideoInv, ColumnInv, [VideoNext]_videoVars PROVE ColumnInv'
  OBVIOUS
<1>1. ASSUME NEW s \in Streams, pc # "quit", BufferEmpty(s) \/ BufferLoaded(s)
      PROVE  ColumnInv'
  BY <1>1, ColumnSignal
<1>2. CASE FragmentLoaded /\ pc # "quit"
  BY <1>2, ColumnPoller
<1>3. CASE Tick /\ pc # "quit"
  BY <1>3, ColumnTick
<1>4. CASE TakeEvent
  BY <1>4, ColumnTake
<1>5. CASE ReadEvents \/ ClearEvents \/ ReadData \/ PrintRow \/ StampRow \/ Quit
  BY <1>5, ColumnPoller
<1>6. CASE UNCHANGED videoVars
  <2>1. UNCHANGED <<now, stalled, rebuffer_events, dash_data, events, pc, taken,
                    rebuffer_periods, last_print_time, column, stalledAt, gapAt>>
    BY <1>6 DEF videoVars, page, history
  <2>2. UNCHANGED <<Covered, Closed, Pending>>
    BY <2>1 DEF Covered, Closed, Pending, InGap
  <2>3. VideoTypeOK'
    BY <2>1 DEF ColumnInv, VideoTypeOK
  <2>4. PeriodsOrdered' /\ (pc' # "quit" => EventsOrdered')
    BY <2>1, <2>2 DEF ColumnInv, PeriodsOrdered, EventsOrdered
  <2>5. CoveredBefore(last_print_time)' = CoveredBefore(last_print_time)
    BY <2>1, <2>2 DEF CoveredBefore
  <2> QED
    BY <2>1, <2>2, <2>3, <2>4, <2>5 DEF ColumnInv
<1> QED
  BY <1>1, <1>2, <1>3, <1>4, <1>5, <1>6 DEF VideoNext, Page

(* The order of the periods, and with it the bound of the column, holds in  *)
(* every state of the client and its page (video.py 77-112, 131).           *)
THEOREM ColumnInvariance == VideoSpec => []ColumnInv
<1>1. VideoSpec => []VideoInv
  <2> QED
    BY VideoInitInv, VideoInvStep, PTL DEF VideoSpec
<1> QED
  BY <1>1, ColumnInit, ColumnStep, PTL DEF VideoSpec

(* The types of the video client and its page (video.py 60-139).            *)
THEOREM VideoTypeCorrect == VideoSpec => []VideoTypeOK
<1>1. ColumnInv => VideoTypeOK
  BY DEF ColumnInv
<1> QED
  BY <1>1, ColumnInvariance, PTL

(* The RebufferTime column never adds up to more ticks than those during    *)
(* which playback was stalled or a read array not yet emptied, for any      *)
(* streams and any stalls, rows and fragments (video.py 107-112, 131).      *)
THEOREM ColumnNeverOverstates == VideoSpec => []NeverOverstated
<1>1. ColumnInv => NeverOverstated
  BY DEF ColumnInv, NeverOverstated, Covered
<1> QED
  BY <1>1, ColumnInvariance, PTL
=============================================================================
