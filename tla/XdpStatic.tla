------------------------------ MODULE XdpStatic ------------------------------
(***************************************************************************)
(* The static variant of the switch (detailed_ae/testbed/switch/static):   *)
(* the same virtual buffer behind a fixed threshold, without windows and   *)
(* without a cap, together with the sampler goroutine whose plain average  *)
(* decides with the buffer when a packet is dropped.                       *)
(*                                                                         *)
(* The sampler's ring buffer is the sequence of what it holds; the static  *)
(* main.go maintains it as the titrate one does (TitrateDaemon).           *)
(***************************************************************************)
EXTENDS TitrateOps, Sequences, FiniteSetsExt

CONSTANTS
  RateBps, ThresholdMtu,   (* the fields of RateLimitParams                *)
  PacketBits,              (* the packet sizes, in bits                    *)
  queueSamples,            (* length of the sampler's ring buffer          *)
  MaxTime,                 (* bound on the clock                           *)
  MaxPackets               (* bound on the data packets handled            *)

params == [rate_bps |-> RateBps, threshold_mtu |-> ThresholdMtu]

ASSUME StaticAssumption ==
  /\ RateBps \in Word \ {0} /\ ThresholdMtu \in Word
  /\ PacketBits \subseteq Word
  /\ queueSamples \in Nat \ {0}
  /\ MaxTime \in Nat \ {0} /\ MaxPackets \in Nat

(* Clock, threshold and the bits of all packets handled fit a word, the    *)
(* latter times the ticks of a second: no cap bounds the buffer otherwise. *)
ASSUME StaticRangeAssumption ==
  /\ MaxTime < WordMod
  /\ ThresholdMtu * MtuBits < WordMod
  /\ \E longest \in PacketBits :
       /\ \A size \in PacketBits : size <= longest
       /\ (MaxPackets * longest + longest) * NsPerSec < WordMod

VARIABLES
  buffer_state, throughput_stats, avg_queue_bits,   (* the maps' entries   *)
  now,            (* bpf_ktime_get_ns()                                    *)
  verdict,        (* what became of the last packet                        *)
  samples,        (* the sampler's ring buffer, oldest first               *)
  simpleAvg,      (* the average it is about to publish, or NoAvg          *)
  passed_bits,    (* history: bits of the data packets passed              *)
  packets         (* history: data packets handled                         *)

NoAvg == -1      (* no average is waiting to be published               *)

meters == <<passed_bits, packets>>
sampling == <<avg_queue_bits, samples, simpleAvg>>
avars == <<buffer_state, throughput_stats, sampling, now, verdict, meters>>

Init ==
  /\ buffer_state = [current_buffer_bits |-> 0, last_update_ns |-> 0]
  /\ throughput_stats = ZeroStats
  /\ avg_queue_bits = 0
  /\ now = 1
  /\ verdict = "NONE"
  /\ samples = <<>> /\ simpleAvg = NoAvg
  /\ passed_bits = 0 /\ packets = 0

-----------------------------------------------------------------------------
(* The handler, on a data packet.  What it does with packets on unlisted   *)
(* interfaces, with runts and with SSH packets is as in XdpTitrate.        *)

ElapsedNow == Elapsed(buffer_state, now)

CurrentBuffer == Deplete(params, buffer_state, ElapsedNow)

Overflows(bits, size) == Exceeds(bits, size, params.threshold_mtu)

(* As StaticMustDrop, on the average alone.                                *)
DropOnAverage(bits, avg, size) == Overflows(avg, size)

(* As StaticMustDrop, without the arriving packet in the average's test.   *)
DropAfterExcess(bits, avg, size) == Overflows(bits, size) /\ Overflows(avg, 0)

StaticMustDrop(bits, avg, size) ==
  Overflows(bits, size) /\ Overflows(avg, size)

Handle(size) ==
  /\ packets < MaxPackets
  /\ packets' = packets + 1
  /\ throughput_stats' =
       Counted(throughput_stats, now,
               TimeAtZero(params, buffer_state, ElapsedNow))
  /\ UNCHANGED <<sampling, now>>

(* As Drop, without line 217.                                              *)
DropKeepingTime(size) ==
  /\ StaticMustDrop(CurrentBuffer.current_buffer_bits, avg_queue_bits, size)
  /\ buffer_state' = CurrentBuffer
  /\ verdict' = "XDP_DROP"
  /\ Handle(size)
  /\ UNCHANGED passed_bits

Drop(size) ==
  /\ StaticMustDrop(CurrentBuffer.current_buffer_bits, avg_queue_bits, size)
  /\ buffer_state' = [CurrentBuffer EXCEPT !.last_update_ns = now]
  /\ verdict' = "XDP_DROP"
  /\ Handle(size)
  /\ UNCHANGED passed_bits

Accept(size) ==
  /\ ~ StaticMustDrop(CurrentBuffer.current_buffer_bits, avg_queue_bits, size)
  /\ buffer_state' = [CurrentBuffer EXCEPT
                        !.current_buffer_bits = U64(@ + size),
                        !.last_update_ns = now]
  /\ verdict' = "XDP_PASS"
  /\ Handle(size)
  /\ passed_bits' = passed_bits + size

-----------------------------------------------------------------------------
(* The sampler goroutine.                                                  *)

(* The average of the last count samples of the ring buffer.               *)
calculateSimpleAverage(recent) ==
  SumFunctionOnSet(recent, DOMAIN recent) \div Len(recent)

(* As Sample, if the ring did not wrap.                                    *)
SampleUnwrapped ==
  /\ simpleAvg = NoAvg
  /\ samples' = Append(samples, buffer_state.current_buffer_bits)
  /\ simpleAvg' = calculateSimpleAverage(samples')
  /\ UNCHANGED <<buffer_state, throughput_stats, avg_queue_bits, now, verdict,
                 meters>>

Sample ==
  /\ simpleAvg = NoAvg
  /\ samples' = Append(IF Len(samples) < queueSamples
                       THEN samples ELSE Tail(samples),
                       buffer_state.current_buffer_bits)
  /\ simpleAvg' = calculateSimpleAverage(samples')
  /\ UNCHANGED <<buffer_state, throughput_stats, avg_queue_bits, now, verdict,
                 meters>>

(* The map update, which may fail: it is logged, the old average stays.    *)
PublishAvg ==
  /\ simpleAvg # NoAvg
  /\ avg_queue_bits' \in {simpleAvg, avg_queue_bits}
  /\ simpleAvg' = NoAvg
  /\ UNCHANGED <<buffer_state, throughput_stats, samples, now, verdict, meters>>

Tick ==
  /\ now < MaxTime
  /\ now' = now + 1
  /\ UNCHANGED <<buffer_state, throughput_stats, sampling, verdict, meters>>

Next ==
  \/ \E size \in PacketBits : Drop(size)
  \/ \E size \in PacketBits : Accept(size)
  \/ Sample
  \/ PublishAvg
  \/ Tick

Spec == Init /\ [][Next]_avars

-----------------------------------------------------------------------------
TypeOK ==
  /\ buffer_state \in [current_buffer_bits : Word, last_update_ns : Word]
  /\ throughput_stats \in ThroughputStats
  /\ avg_queue_bits \in Word
  /\ now \in 1 .. MaxTime
  /\ verdict \in {"NONE", "XDP_PASS", "XDP_DROP"}
  /\ samples \in Seq(Word) /\ Len(samples) <= queueSamples
  /\ simpleAvg \in NoAvg .. (WordMod - 1)
  /\ passed_bits \in Nat /\ packets \in 0 .. MaxPackets

Uptime == buffer_state.last_update_ns - throughput_stats.program_start_ns

(* The static switch keeps to the rate although nothing caps its buffer:    *)
(* what it passed and no longer holds has had time to be sent, and the idle *)
(* time it reports is time of its run (167-198, 220-227).                   *)
ConformsToRate ==
  /\ (passed_bits - buffer_state.current_buffer_bits) * NsPerSec
       <= Uptime * RateBps
  /\ throughput_stats.total_zero_buffer_ns <= Uptime

(* What the virtual queue holds at this instant, in units of 1/NsPerSec.    *)
QueueNow ==
  Greater(0, buffer_state.current_buffer_bits * NsPerSec - ElapsedNow * RateBps)

(* An average left over from an earlier burst drops nothing that fits the   *)
(* queue of this instant, to the bit that rounding may add (201-214).       *)
StaleAverageDropsNothing ==
  [][\A size \in PacketBits :
       Drop(size) =>
         QueueNow + (size + 1) * NsPerSec > ThresholdMtu * MtuBits * NsPerSec]_avars

(* The overshoot lasts no longer than the averaging window: once every      *)
(* sample in the ring is at the threshold or above and their average has    *)
(* been published, the buffer grows no further above it (201-227, main.go   *)
(* 226-245).                                                                *)
SteadyExcessStopsGrowth ==
  [][/\ samples # <<>>
     /\ \A i \in DOMAIN samples : samples[i] >= ThresholdMtu * MtuBits
     /\ avg_queue_bits = calculateSimpleAverage(samples)
     /\ buffer_state'.current_buffer_bits > buffer_state.current_buffer_bits
     => buffer_state'.current_buffer_bits <= ThresholdMtu * MtuBits]_avars
=============================================================================
