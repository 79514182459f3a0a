-------------------------- MODULE XdpStatic_proofs --------------------------
(***************************************************************************)
(* The static variant of the switch keeps to the rate, and drops nothing   *)
(* for a stale average alone, for every rate, threshold, packet size and   *)
(* sequence of averages.                                                   *)
(***************************************************************************)
EXTENDS XdpStatic, TitrateOps_proofs, SumTheorems, SequenceTheorems

Longest ==
  CHOOSE longest \in PacketBits :
    /\ \A size \in PacketBits : size <= longest
    /\ (MaxPackets * longest + longest) * NsPerSec < WordMod

(* The inductive invariant.  What bounds the buffer, which has no cap, is   *)
(* that it holds nothing but bits of the packets handled.                   *)
StaticInv ==
  /\ buffer_state \in [current_buffer_bits : Word, last_update_ns : Word]
  /\ throughput_stats \in ThroughputStats
  /\ now \in 1 .. MaxTime
  /\ passed_bits \in Nat /\ packets \in 0 .. MaxPackets
  /\ buffer_state.current_buffer_bits <= packets * Longest
  /\ buffer_state.last_update_ns <= now
  /\ throughput_stats.program_start_ns <= buffer_state.last_update_ns
  /\ throughput_stats.program_start_ns = 0 => buffer_state.last_update_ns = 0
  /\ ConformsToRate

LEMMA StaticConstants ==
  /\ WordMod \in Nat \ {0} /\ NsPerSec \in Nat \ {0} /\ MtuBits \in Nat \ {0}
  /\ RateBps \in Nat \ {0} /\ params.rate_bps = RateBps
  /\ params.rate_bps \in Word \ {0}
  /\ ThresholdMtu \in Nat /\ ThresholdMtu * MtuBits \in Word
  /\ MaxTime \in Nat \ {0} /\ MaxTime < WordMod /\ MaxPackets \in Nat
BY OpsAssumption, StaticAssumption, StaticRangeAssumption DEF Word, params

LEMMA LongestPacket ==
  /\ Longest \in Nat
  /\ \A size \in PacketBits : size \in Nat /\ size <= Longest
  /\ (MaxPackets * Longest + Longest) * NsPerSec < WordMod
<1> DEFINE Bounds(longest) ==
             /\ \A size \in PacketBits : size <= longest
             /\ (MaxPackets * longest + longest) * NsPerSec < WordMod
<1>1. \E longest \in PacketBits : Bounds(longest)
  BY StaticRangeAssumption
<1>2. Longest = CHOOSE longest \in PacketBits : Bounds(longest)
  BY DEF Longest
<1> HIDE DEF Bounds
<1>3. Longest \in PacketBits /\ Bounds(Longest)
  BY <1>1, <1>2
<1> QED
  BY <1>3, StaticAssumption, OpsAssumption DEF Bounds, Word

(* What the handler finds when a packet arrives.                            *)
Released == buffer_state.current_buffer_bits - CurrentBuffer.current_buffer_bits
AtZero == TimeAtZero(params, buffer_state, ElapsedNow)

LEMMA Found ==
  ASSUME StaticInv
  PROVE  /\ ElapsedNow \in Word
         /\ ElapsedNow = IF buffer_state.last_update_ns = 0
                         THEN 0 ELSE now - buffer_state.last_update_ns
         /\ buffer_state.current_buffer_bits \in Nat
         /\ CurrentBuffer.current_buffer_bits
              = DepletedBits(params, buffer_state, ElapsedNow)
         /\ CurrentBuffer.current_buffer_bits
              \in 0 .. buffer_state.current_buffer_bits
         /\ AtZero \in 0 .. ElapsedNow
         /\ Released \in Nat /\ Released * NsPerSec <= ElapsedNow * RateBps
<1> DEFINE bits == buffer_state.current_buffer_bits
           last == buffer_state.last_update_ns
<1>1. /\ bits \in Nat /\ last \in Nat /\ now \in Nat /\ last <= now
      /\ now <= MaxTime /\ packets \in Nat /\ packets <= MaxPackets
  BY StaticConstants DEF StaticInv, Word
<1>2. now - last \in Word
  BY <1>1, StaticConstants DEF Word
<1>3. /\ ElapsedNow = IF last = 0 THEN 0 ELSE now - last
      /\ ElapsedNow \in Word
  BY <1>2, U64Exact, StaticConstants DEF ElapsedNow, Elapsed, Word
<1>4. bits * NsPerSec < WordMod
  <2>1. packets * Longest <= MaxPackets * Longest
    BY <1>1, LongestPacket, StaticConstants, TimesMonotone
  <2>2. packets * Longest \in Int /\ MaxPackets * Longest \in Int
    BY <1>1, LongestPacket, StaticConstants
  <2>3. bits <= MaxPackets * Longest + Longest
    BY <1>1, <2>1, <2>2, LongestPacket DEF StaticInv
  <2>4. bits * NsPerSec <= (MaxPackets * Longest + Longest) * NsPerSec
    BY <1>1, <2>2, <2>3, LongestPacket, TimesMonotone, StaticConstants
  <2>5. /\ bits * NsPerSec \in Int
        /\ (MaxPackets * Longest + Longest) * NsPerSec \in Int
    BY <1>1, <2>2, LongestPacket, StaticConstants
  <2> QED
    BY <2>4, <2>5, LongestPacket, StaticConstants
<1>5. CurrentBuffer.current_buffer_bits = DepletedBits(params, buffer_state, ElapsedNow)
  BY DEF CurrentBuffer, Deplete, StaticInv
<1>6. DepletedBits(params, buffer_state, ElapsedNow) \in 0 .. bits
  BY <1>1, <1>3, StaticConstants, DepletedBelow
<1>7. AtZero \in 0 .. ElapsedNow
  BY <1>1, <1>3, <1>4, StaticConstants, TimeAtZeroBounded DEF AtZero
<1>8. Released = ReleasedIn(params, buffer_state, ElapsedNow)
  BY <1>5 DEF Released, ReleasedIn
<1>9. Released \in Nat /\ Released * NsPerSec <= ElapsedNow * params.rate_bps
  BY <1>1, <1>3, <1>8, StaticConstants, ReleasedBelow
<1> QED
  BY <1>1, <1>3, <1>5, <1>6, <1>7, <1>9, StaticConstants

(* The length after a packet that passes, and one more packet, fit a word.  *)
LEMMA SumFits ==
  ASSUME StaticInv, packets < MaxPackets, NEW size \in PacketBits
  PROVE  /\ U64(CurrentBuffer.current_buffer_bits + size)
              = CurrentBuffer.current_buffer_bits + size
         /\ CurrentBuffer.current_buffer_bits + size \in Word
         /\ CurrentBuffer.current_buffer_bits + size <= (packets + 1) * Longest
         /\ CurrentBuffer.current_buffer_bits <= (packets + 1) * Longest
<1> DEFINE cur == CurrentBuffer.current_buffer_bits
           most == MaxPackets * Longest + Longest
<1>1. /\ cur \in Nat /\ cur <= packets * Longest
      /\ size \in Nat /\ size <= Longest /\ Longest \in Nat
      /\ packets \in Nat /\ packets <= MaxPackets /\ MaxPackets \in Nat
      /\ packets * Longest \in Nat
  <2>1. packets \in Nat /\ packets * Longest \in Nat
    BY LongestPacket, StaticConstants DEF StaticInv
  <2> QED
    BY <2>1, Found, LongestPacket, StaticConstants DEF StaticInv
<1>2. (packets + 1) * Longest = packets * Longest + Longest
  BY <1>1
<1>3. cur + size <= packets * Longest + Longest
  BY <1>1
<1>4. packets * Longest <= MaxPackets * Longest /\ MaxPackets * Longest \in Nat
  BY <1>1, TimesMonotone
<1>5. most \in Nat /\ most < WordMod
  <2>1. most \in Nat /\ most * NsPerSec < WordMod /\ most * NsPerSec \in Nat
    BY <1>1, <1>4, LongestPacket, StaticConstants
  <2> HIDE DEF most
  <2>2. most <= most * NsPerSec
    BY <2>1, StaticConstants
  <2> QED
    BY <2>1, <2>2, StaticConstants
<1>6. cur + size \in Word
  BY <1>1, <1>3, <1>4, <1>5, StaticConstants DEF Word
<1> QED
  BY <1>1, <1>2, <1>3, <1>6, U64Exact

(* A handled packet preserves the invariant, whether passed or dropped:     *)
(* what it leaves in the buffer is what it found and what it passed.        *)
LEMMA HandledStep ==
  ASSUME StaticInv, NEW size \in PacketBits, Handle(size),
         NEW gain \in {0, size},
         passed_bits' = passed_bits + gain,
         buffer_state'
           = [CurrentBuffer EXCEPT
                !.current_buffer_bits = CurrentBuffer.current_buffer_bits + gain,
                !.last_update_ns = now]
  PROVE  StaticInv'
<1> DEFINE bits == buffer_state.current_buffer_bits
           last == buffer_state.last_update_ns
           cur == CurrentBuffer.current_buffer_bits
           start == throughput_stats.program_start_ns
           total == throughput_stats.total_zero_buffer_ns
           sent == passed_bits - bits
<1>1. /\ packets < MaxPackets /\ packets' = packets + 1 /\ now' = now
      /\ throughput_stats' = Counted(throughput_stats, now, AtZero)
  BY DEF Handle, AtZero
<1>2. /\ bits \in Nat /\ last \in Nat /\ now \in Nat /\ last <= now /\ now \in Word
      /\ 0 < now /\ now <= MaxTime /\ packets \in Nat
      /\ start \in Nat /\ start \in Word /\ total \in Nat
      /\ start <= last /\ (start = 0 => last = 0) /\ passed_bits \in Nat
      /\ gain \in Nat
  BY LongestPacket, StaticConstants DEF StaticInv, ThroughputStats, Word
<1>3. /\ cur \in Nat /\ cur + gain \in Word /\ cur + gain <= (packets + 1) * Longest
  <2>1. cur \in 0 .. bits /\ bits \in Word
    BY Found DEF StaticInv
  <2> QED
    BY <1>1, <1>2, <2>1, SumFits, StaticConstants DEF Word
<1>4. CurrentBuffer \in [current_buffer_bits : Word, last_update_ns : Word]
  BY <1>2, Found, StaticConstants DEF CurrentBuffer, Deplete, StaticInv, Word
<1>5. /\ buffer_state' \in [current_buffer_bits : Word, last_update_ns : Word]
      /\ buffer_state'.current_buffer_bits = cur + gain
      /\ buffer_state'.last_update_ns = now
  BY <1>2, <1>3, <1>4
<1>6. /\ ElapsedNow = (IF last = 0 THEN 0 ELSE now - last) /\ ElapsedNow \in Nat
      /\ AtZero \in Nat /\ AtZero <= ElapsedNow
      /\ Released \in Nat /\ Released * NsPerSec <= ElapsedNow * RateBps
  BY Found DEF Word
<1>7. total <= last - start /\ sent * NsPerSec <= (last - start) * RateBps
  BY DEF StaticInv, ConformsToRate, Uptime
<1>8. U64(total + AtZero) = total + AtZero /\ total + AtZero \in Word
  <2>1. total + AtZero \in Nat /\ total + AtZero <= (last - start) + ElapsedNow
    BY <1>2, <1>6, <1>7
  <2>2. (last - start) + ElapsedNow <= now
    BY <1>2, <1>6
  <2>3. total + AtZero \in Word
    <3>1. total + AtZero \in Nat /\ total + AtZero <= now
      BY <1>2, <1>6, <2>1, <2>2
    <3> HIDE DEF total
    <3> QED
      BY <1>2, <3>1, StaticConstants DEF Word
  <2> QED
    BY <2>3, U64Exact
<1>9. /\ throughput_stats'.program_start_ns = IF start = 0 THEN now ELSE start
      /\ throughput_stats'.total_zero_buffer_ns = total + AtZero
      /\ throughput_stats' \in ThroughputStats
  BY <1>1, <1>2, <1>8 DEF Counted, ThroughputStats
<1>10. Uptime' = (last - start) + ElapsedNow
  BY <1>1, <1>2, <1>5, <1>6, <1>9 DEF Uptime
<1>11. passed_bits' - buffer_state'.current_buffer_bits = sent + Released
  BY <1>2, <1>3, <1>5 DEF Released
<1>12. ConformsToRate'
  <2>1. /\ sent \in Int /\ last - start \in Int
    BY <1>2
  <2>2. /\ (sent + Released) * NsPerSec = sent * NsPerSec + Released * NsPerSec
        /\ ((last - start) + ElapsedNow) * RateBps
             = (last - start) * RateBps + ElapsedNow * RateBps
    <3>1. ElapsedNow \in Int /\ Released \in Int /\ NsPerSec \in Int /\ RateBps \in Int
      BY <1>6, StaticConstants
    <3> HIDE DEF sent, last, start
    <3> QED
      BY <2>1, <3>1, TimesSum
  <2>3. /\ sent * NsPerSec \in Int /\ Released * NsPerSec \in Int
        /\ (last - start) * RateBps \in Int /\ ElapsedNow * RateBps \in Int
    BY <1>6, <2>1, StaticConstants
  <2>4. (sent + Released) * NsPerSec <= ((last - start) + ElapsedNow) * RateBps
    BY <1>6, <1>7, <2>2, <2>3
  <2>5. total + AtZero <= (last - start) + ElapsedNow
    BY <1>2, <1>6, <1>7
  <2> QED
    BY <1>9, <1>10, <1>11, <2>4, <2>5 DEF ConformsToRate
<1>13. packets' * Longest = (packets + 1) * Longest /\ packets' \in 0 .. MaxPackets
  BY <1>1, <1>2, StaticConstants
<1>14. passed_bits' \in Nat
  BY <1>2
<1> QED
  BY <1>1, <1>2, <1>3, <1>5, <1>9, <1>12, <1>13, <1>14, StaticConstants DEF StaticInv

LEMMA StaticInit == Init => StaticInv
<1> SUFFICES ASSUME Init PROVE StaticInv
  OBVIOUS
<1>1. 0 \in Word /\ 1 \in 1 .. MaxTime /\ 0 * Longest = 0
  BY StaticConstants, LongestPacket DEF Word
<1> QED
  BY <1>1, StaticConstants
  DEF Init, StaticInv, ZeroStats, ThroughputStats, ConformsToRate, Uptime

LEMMA StaticNext == StaticInv /\ [Next]_avars => StaticInv'
<1> SUFFICES ASSUME StaticInv, [Next]_avars PROVE StaticInv'
  OBVIOUS
<1>1. ASSUME NEW size \in PacketBits, Drop(size) PROVE StaticInv'
  <2>1. CurrentBuffer.current_buffer_bits + 0 = CurrentBuffer.current_buffer_bits
    BY Found
  <2>2. passed_bits' = passed_bits + 0
    BY <1>1 DEF Drop, StaticInv
  <2>3. buffer_state'
          = [CurrentBuffer EXCEPT
               !.current_buffer_bits = CurrentBuffer.current_buffer_bits + 0,
               !.last_update_ns = now]
    BY <1>1, <2>1 DEF Drop, CurrentBuffer, Deplete, StaticInv
  <2>4. Handle(size)
    BY <1>1 DEF Drop
  <2> QED
    BY <2>2, <2>3, <2>4, HandledStep
<1>2. ASSUME NEW size \in PacketBits, Accept(size) PROVE StaticInv'
  <2>1. Handle(size) /\ packets < MaxPackets /\ passed_bits' = passed_bits + size
    BY <1>2 DEF Accept, Handle
  <2>2. U64(CurrentBuffer.current_buffer_bits + size)
          = CurrentBuffer.current_buffer_bits + size
    BY <2>1, SumFits
  <2>3. buffer_state'
          = [CurrentBuffer EXCEPT
               !.current_buffer_bits = CurrentBuffer.current_buffer_bits + size,
               !.last_update_ns = now]
    BY <1>2, <2>2 DEF Accept
  <2> QED
    BY <2>1, <2>3, HandledStep
<1>3. CASE Tick
  <2>1. /\ UNCHANGED <<buffer_state, throughput_stats, passed_bits, packets>>
        /\ now' \in 1 .. MaxTime /\ now <= now'
    BY <1>3, StaticConstants DEF Tick, StaticInv, meters
  <2>2. ConformsToRate' /\ buffer_state.last_update_ns <= now'
    <3>1. buffer_state.last_update_ns <= now'
      BY <2>1, StaticConstants DEF StaticInv, Word
    <3> QED
      BY <2>1, <3>1 DEF StaticInv, ConformsToRate, Uptime
  <2> QED
    BY <2>1, <2>2 DEF StaticInv
<1>4. CASE Sample \/ PublishAvg \/ UNCHANGED avars
  BY <1>4 DEF Sample, PublishAvg, StaticInv, ConformsToRate, Uptime, meters, avars
<1> QED
  BY <1>1, <1>2, <1>3, <1>4 DEF Next

(* Whatever averages are published, the traffic that the static switch      *)
(* passes conforms to the rate, although nothing caps its buffer            *)
(* (xdp_static.c 167-198, 220-227).                                         *)
THEOREM StaticConforms == Spec => []ConformsToRate
<1>1. StaticInv => ConformsToRate
  BY DEF StaticInv
<1> QED
  BY <1>1, StaticInit, StaticNext, PTL DEF Spec

-----------------------------------------------------------------------------
(* No pause since the last packet makes elapsed_ns * rate_bps wrap.         *)
PauseFits == ElapsedNow * RateBps < WordMod

(* A packet is dropped only when it exceeds the threshold on top of the     *)
(* queue of this instant, whatever the average, to the bit that rounding    *)
(* may add.                                                                 *)
LEMMA DropExceeds ==
  ASSUME StaticInv, PauseFits, NEW size \in PacketBits, Drop(size)
  PROVE  QueueNow + (size + 1) * NsPerSec > ThresholdMtu * MtuBits * NsPerSec
<1> DEFINE cur == CurrentBuffer.current_buffer_bits
           limit == ThresholdMtu * MtuBits
           now_queue == Greater(0, buffer_state.current_buffer_bits * NsPerSec
                                     - ElapsedNow * params.rate_bps)
<1>1. /\ cur \in Nat /\ size \in Nat /\ limit \in Nat /\ limit \in Word
      /\ NsPerSec \in Nat \ {0}
  BY Found, LongestPacket, StaticConstants DEF Word
<1>2. cur + size > limit
  <2>1. U64(cur + size) > U64(limit)
    BY DEF Drop, StaticMustDrop, Overflows, Exceeds, params
  <2>2. U64(limit) = limit /\ U64(cur + size) \in Nat /\ U64(cur + size) <= cur + size
    BY <1>1, U64Exact, U64Below
  <2> QED
    BY <1>1, <2>1, <2>2
<1>3. now_queue = QueueNow /\ QueueNow \in Nat
  <2>1. /\ buffer_state.current_buffer_bits * NsPerSec \in Int
        /\ ElapsedNow * RateBps \in Int
    BY Found, StaticConstants DEF Word
  <2> QED
    BY <2>1, StaticConstants DEF QueueNow, Greater
<1>4. cur * NsPerSec < QueueNow + NsPerSec
  <2>1. ElapsedNow * params.rate_bps < WordMod
    BY StaticConstants DEF PauseFits
  <2> QED
    BY <1>3, <2>1, Found, StaticConstants, DepletedAbove
<1>5. (limit + 1) * NsPerSec <= (cur + size) * NsPerSec
  BY <1>1, <1>2, TimesMonotone
<1> HIDE DEF cur, limit
<1>6. /\ (limit + 1) * NsPerSec = limit * NsPerSec + NsPerSec
      /\ (cur + size) * NsPerSec = cur * NsPerSec + size * NsPerSec
      /\ (size + 1) * NsPerSec = size * NsPerSec + NsPerSec
  BY <1>1, TimesSum
<1>7. /\ limit * NsPerSec \in Int /\ cur * NsPerSec \in Int
      /\ size * NsPerSec \in Int
  BY <1>1
<1>8. QueueNow + (size + 1) * NsPerSec > limit * NsPerSec
  BY <1>1, <1>3, <1>4, <1>5, <1>6, <1>7
<1> QED
  BY <1>8 DEF limit

(* An average left over from an earlier burst drops nothing that fits the   *)
(* queue, while no pause makes the product of line 178 wrap (201-214).      *)
THEOREM StaleAverageIsHarmless ==
  Spec /\ []PauseFits => StaleAverageDropsNothing
<1>1. StaticInv /\ PauseFits =>
        \A size \in PacketBits :
          Drop(size) =>
            QueueNow + (size + 1) * NsPerSec > ThresholdMtu * MtuBits * NsPerSec
  BY DropExceeds
<1>2. StaticInv /\ PauseFits /\ [Next]_avars =>
        [\A size \in PacketBits :
           Drop(size) =>
             QueueNow + (size + 1) * NsPerSec
               > ThresholdMtu * MtuBits * NsPerSec]_avars
  BY <1>1
<1> QED
  BY <1>2, StaticInit, StaticNext, PTL DEF Spec, StaleAverageDropsNothing

-----------------------------------------------------------------------------
(* The sampler.  What it has in its ring buffer, and so every average of    *)
(* it, is a length that the buffer may have had.                            *)

Lengths == 0 .. packets * Longest

SamplerInv ==
  /\ StaticInv
  /\ verdict \in {"NONE", "XDP_PASS", "XDP_DROP"}
  /\ samples \in Seq(Lengths) /\ Len(samples) <= queueSamples
  /\ simpleAvg \in {NoAvg} \cup Lengths
  /\ avg_queue_bits \in Lengths

LEMMA LengthsFit ==
  ASSUME StaticInv
  PROVE  /\ packets * Longest \in Nat /\ MaxPackets * Longest \in Nat
         /\ packets * Longest <= MaxPackets * Longest
         /\ MaxPackets * Longest + Longest < WordMod
         /\ Lengths \subseteq Word
<1> DEFINE most == MaxPackets * Longest + Longest
<1>1. packets \in Nat /\ packets <= MaxPackets /\ MaxPackets \in Nat /\ Longest \in Nat
  BY LongestPacket, StaticConstants DEF StaticInv
<1>2. /\ packets * Longest \in Nat /\ MaxPackets * Longest \in Nat
      /\ packets * Longest <= MaxPackets * Longest
  BY <1>1, TimesMonotone
<1>3. most \in Nat /\ most * NsPerSec < WordMod /\ most * NsPerSec \in Nat
  BY <1>1, <1>2, LongestPacket, StaticConstants
<1>4. most < WordMod
  <2> HIDE DEF most
  <2>1. most <= most * NsPerSec
    BY <1>3, StaticConstants
  <2> QED
    BY <1>3, <2>1, StaticConstants
<1>5. Lengths \subseteq Word
  BY <1>1, <1>2, <1>4, StaticConstants DEF Lengths, Word
<1> QED
  BY <1>2, <1>4, <1>5

(* The average of samples between two bounds lies between them.             *)
LEMMA AverageBetween ==
  ASSUME NEW recent \in Seq(Nat), recent # <<>>,
         NEW low \in Nat, NEW high \in Nat,
         \A i \in DOMAIN recent : low <= recent[i] /\ recent[i] <= high
  PROVE  calculateSimpleAverage(recent) \in low .. high
<1>1. /\ Len(recent) \in Nat \ {0} /\ DOMAIN recent = 1 .. Len(recent)
      /\ \A i \in 1 .. Len(recent) : recent[i] \in Nat
  BY LenProperties, EmptySeq, ElementOfSeq
<1>2. /\ IsFiniteSet(DOMAIN recent) /\ Cardinality(DOMAIN recent) = Len(recent)
      /\ DOMAIN recent # {}
  <2>1. /\ IsFiniteSet(1 .. Len(recent))
        /\ Cardinality(1 .. Len(recent)) = Len(recent)
    <3>1. 1 \in Int /\ Len(recent) \in Int /\ ~ (1 > Len(recent))
          /\ Len(recent) - 1 + 1 = Len(recent)
      BY <1>1
    <3> QED
      BY <3>1, FS_Interval, Zenon
  <2>2. 1 \in 1 .. Len(recent)
    BY <1>1
  <2> QED
    BY <1>1, <2>1, <2>2
<1> QED
  BY <1>1, <1>2, MeanBounds DEF calculateSimpleAverage

LEMMA SamplerNext == SamplerInv /\ [Next]_avars => SamplerInv'
<1> SUFFICES ASSUME SamplerInv, [Next]_avars PROVE SamplerInv'
  OBVIOUS
<1>1. StaticInv /\ StaticInv'
  BY StaticNext DEF SamplerInv
<1>2. packets <= packets' => Lengths \subseteq Lengths'
  <2>1. /\ packets \in Int /\ packets' \in Int /\ Longest \in Nat
    BY <1>1, LongestPacket, StaticConstants DEF StaticInv
  <2> SUFFICES ASSUME packets <= packets' PROVE Lengths \subseteq Lengths'
    OBVIOUS
  <2>2. packets * Longest <= packets' * Longest
    BY <2>1, TimesMonotone
  <2>3. packets * Longest \in Int /\ packets' * Longest \in Int
    BY <2>1
  <2> QED
    BY <2>2, <2>3 DEF Lengths
<1>3. ASSUME NEW size \in PacketBits, Drop(size) \/ Accept(size) PROVE SamplerInv'
  <2>1. /\ UNCHANGED <<samples, simpleAvg, avg_queue_bits>>
        /\ packets' = packets + 1 /\ verdict' \in {"XDP_PASS", "XDP_DROP"}
    BY <1>3 DEF Drop, Accept, Handle, sampling
  <2>2. Lengths \subseteq Lengths'
    BY <1>1, <1>2, <2>1 DEF StaticInv
  <2>3. samples \in Seq(Lengths')
    BY <2>2, SeqMonotonic DEF SamplerInv
  <2> QED
    BY <1>1, <2>1, <2>2, <2>3 DEF SamplerInv
<1>4. CASE Sample
  <2> DEFINE kept == IF Len(samples) < queueSamples THEN samples ELSE Tail(samples)
             length == buffer_state.current_buffer_bits
  <2>1. /\ samples \in Seq(Lengths) /\ Len(samples) <= queueSamples
        /\ queueSamples \in Nat \ {0} /\ length \in Lengths
    BY <1>1, LengthsFit, StaticAssumption DEF SamplerInv, StaticInv, Lengths, Word
  <2>2. kept \in Seq(Lengths) /\ Len(kept) < queueSamples
    <3>1. CASE Len(samples) < queueSamples
      BY <2>1, <3>1
    <3>2. CASE ~ (Len(samples) < queueSamples)
      <4>1. Len(samples) \in Nat /\ samples # <<>>
        BY <2>1, <3>2, LenProperties, EmptySeq
      <4> QED
        BY <2>1, <3>2, <4>1, HeadTailProperties
    <3> QED
      BY <3>1, <3>2
  <2> HIDE DEF kept
  <2>3. samples' = Append(kept, length)
    BY <1>4 DEF Sample, kept
  <2>4. samples' \in Seq(Lengths) /\ Len(samples') <= queueSamples /\ samples' # <<>>
    <3>1. Len(samples') = Len(kept) + 1 /\ Len(kept) \in Nat
      BY <2>1, <2>2, <2>3, AppendProperties, LenProperties
    <3> QED
      BY <2>1, <2>2, <2>3, <3>1, AppendProperties
  <2>5. calculateSimpleAverage(samples') \in Lengths
    <3>0. Lengths \subseteq Nat
      BY DEF Lengths
    <3>1. samples' \in Seq(Nat)
      BY <2>4, <3>0, SeqMonotonic
    <3>2. DOMAIN samples' = 1 .. Len(samples')
      BY <2>4, LenProperties
    <3>3. \A i \in DOMAIN samples' :
            0 <= samples'[i] /\ samples'[i] <= packets * Longest
      <4>1. \A i \in DOMAIN samples' : samples'[i] \in Lengths
        BY <2>4, <3>2, ElementOfSeq
      <4> QED
        BY <1>1, <4>1, LengthsFit DEF Lengths
    <3> QED
      BY <1>1, <2>4, <3>1, <3>3, LengthsFit, AverageBetween DEF Lengths
  <2>6. /\ simpleAvg' = calculateSimpleAverage(samples')
        /\ UNCHANGED <<avg_queue_bits, verdict, packets>>
    BY <1>4 DEF Sample, meters
  <2>7. Lengths' = Lengths
    BY <2>6 DEF Lengths
  <2> QED
    BY <1>1, <2>4, <2>5, <2>6, <2>7 DEF SamplerInv
<1>5. CASE PublishAvg
  <2>1. /\ UNCHANGED <<samples, verdict, packets>> /\ simpleAvg' = NoAvg
        /\ avg_queue_bits' \in Lengths
    BY <1>5 DEF PublishAvg, SamplerInv, meters
  <2>2. Lengths' = Lengths
    BY <2>1 DEF Lengths
  <2> QED
    BY <1>1, <2>1, <2>2 DEF SamplerInv
<1>6. CASE Tick \/ UNCHANGED avars
  <2>1. UNCHANGED <<samples, simpleAvg, avg_queue_bits, verdict, packets>>
    BY <1>6 DEF Tick, sampling, meters, avars
  <2>2. Lengths' = Lengths
    BY <2>1 DEF Lengths
  <2> QED
    BY <1>1, <2>1, <2>2 DEF SamplerInv
<1> QED
  BY <1>3, <1>4, <1>5, <1>6 DEF Next

LEMMA SamplerInit == Init => SamplerInv
<1> SUFFICES ASSUME Init PROVE SamplerInv
  OBVIOUS
<1>1. StaticInv
  BY StaticInit
<1>2. 0 \in Lengths
  BY <1>1, LengthsFit DEF Lengths
<1>3. samples \in Seq(Lengths) /\ Len(samples) = 0
  BY EmptySeq DEF Init
<1> QED
  BY <1>1, <1>2, <1>3, StaticAssumption DEF Init, SamplerInv

(* Types: in particular the averages stay within what the buffer can hold.  *)
THEOREM StaticTypeCorrect == Spec => []TypeOK
<1>1. SamplerInv => TypeOK
  <2> SUFFICES ASSUME SamplerInv PROVE TypeOK
    OBVIOUS
  <2>1. StaticInv /\ Lengths \subseteq Word
    BY LengthsFit DEF SamplerInv
  <2>2. samples \in Seq(Word)
    BY <2>1, SeqMonotonic DEF SamplerInv
  <2>3. simpleAvg \in NoAvg .. WordMod - 1
    BY <2>1, StaticConstants DEF SamplerInv, NoAvg, Word
  <2> QED
    BY <2>1, <2>2, <2>3 DEF SamplerInv, StaticInv, TypeOK
<1> QED
  BY <1>1, SamplerInit, SamplerNext, PTL DEF Spec

LEMMA ExcessStopsGrowth ==
  ASSUME SamplerInv, [Next]_avars,
         samples # <<>>,
         \A i \in DOMAIN samples : samples[i] >= ThresholdMtu * MtuBits,
         avg_queue_bits = calculateSimpleAverage(samples),
         buffer_state'.current_buffer_bits > buffer_state.current_buffer_bits
  PROVE  buffer_state'.current_buffer_bits <= ThresholdMtu * MtuBits
<1> DEFINE bits == buffer_state.current_buffer_bits
           cur == CurrentBuffer.current_buffer_bits
           limit == ThresholdMtu * MtuBits
<1>1. StaticInv /\ bits \in Nat /\ cur \in Nat /\ cur <= bits
  BY Found DEF SamplerInv
<1>2. limit \in Nat /\ limit \in Word
  BY StaticConstants DEF Word
<1>3. PICK size \in PacketBits : Accept(size)
  <2>1. ASSUME NEW size \in PacketBits, Drop(size) PROVE FALSE
    <3>1. buffer_state'.current_buffer_bits = cur
      BY <2>1 DEF Drop, CurrentBuffer, Deplete
    <3> QED
      BY <1>1, <3>1
  <2>2. CASE Sample \/ PublishAvg \/ Tick \/ UNCHANGED avars
    <3>1. UNCHANGED buffer_state
      BY <2>2 DEF Sample, PublishAvg, Tick, avars
    <3> QED
      BY <1>1, <3>1
  <2> QED
    BY <2>1, <2>2 DEF Next
<1>4. /\ size \in Nat /\ size <= Longest
      /\ packets < MaxPackets
      /\ U64(cur + size) = cur + size
      /\ buffer_state'.current_buffer_bits = cur + size
  <2>1. packets < MaxPackets
    BY <1>3 DEF Accept, Handle
  <2>2. U64(cur + size) = cur + size
    BY <1>1, <2>1, SumFits
  <2> QED
    BY <1>3, <2>1, <2>2, LongestPacket DEF Accept, CurrentBuffer, Deplete, StaticInv
<1>5. size > 0
  BY <1>1, <1>4
<1>6. avg_queue_bits \in limit .. packets * Longest
  <2>0. Lengths \subseteq Nat
    BY DEF Lengths
  <2>1. samples \in Seq(Lengths) /\ samples \in Seq(Nat)
    BY <2>0, SeqMonotonic DEF SamplerInv
  <2>2. DOMAIN samples = 1 .. Len(samples)
    BY <2>1, LenProperties
  <2>4. \A i \in DOMAIN samples : samples[i] \in Lengths
    BY <2>1, <2>2, ElementOfSeq
  <2>3. \A i \in DOMAIN samples : limit <= samples[i] /\ samples[i] <= packets * Longest
    BY <1>1, <1>2, <2>4, LengthsFit DEF Lengths
  <2> QED
    BY <1>1, <1>2, <2>1, <2>3, LengthsFit, AverageBetween
<1>7. Overflows(avg_queue_bits, size)
  <2>1. /\ avg_queue_bits \in Nat /\ avg_queue_bits + size > limit
        /\ avg_queue_bits + size <= packets * Longest + Longest
    BY <1>1, <1>2, <1>4, <1>5, <1>6, LongestPacket, LengthsFit
  <2>2. avg_queue_bits + size \in Word
    BY <1>1, <1>4, <2>1, LongestPacket, LengthsFit, StaticConstants DEF Word
  <2> QED
    BY <1>2, <2>1, <2>2, U64Exact DEF Overflows, Exceeds, params
<1>8. ~ Overflows(cur, size)
  BY <1>3, <1>7 DEF Accept, StaticMustDrop
<1> QED
  BY <1>1, <1>2, <1>4, <1>8, U64Exact DEF Overflows, Exceeds, params

(* Once every sample in the ring is at the threshold or above it and their  *)
(* average is published, the buffer grows no further above the threshold,   *)
(* for every ring length, packet size and rate.                             *)
THEOREM ExcessIsBounded == Spec => SteadyExcessStopsGrowth
<1>1. SamplerInv /\ [Next]_avars =>
        [/\ samples # <<>>
         /\ \A i \in DOMAIN samples : samples[i] >= ThresholdMtu * MtuBits
         /\ avg_queue_bits = calculateSimpleAverage(samples)
         /\ buffer_state'.current_buffer_bits > buffer_state.current_buffer_bits
         => buffer_state'.current_buffer_bits <= ThresholdMtu * MtuBits]_avars
  BY ExcessStopsGrowth
<1> QED
  BY <1>1, SamplerInit, SamplerNext, PTL DEF Spec, SteadyExcessStopsGrowth
=============================================================================
