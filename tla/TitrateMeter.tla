---------------------------- MODULE TitrateMeter ----------------------------
(***************************************************************************)
(* The packet handler with a meter at its output: how many bits it has     *)
(* passed and how many packets it has accounted.  The meter is a history   *)
(* of the program; it states what the rate limit means for the traffic.    *)
(***************************************************************************)
EXTENDS XdpTitrate

CONSTANT MaxPackets    (* bound on the packets metered                     *)

ASSUME MeterAssumption == MaxPackets \in Nat

VARIABLES
  passed_bits,   (* bits of the data packets passed so far                 *)
  packets        (* data packets passed or dropped so far                  *)

mvars == <<vars, passed_bits, packets>>

MeterInit == Init /\ passed_bits = 0 /\ packets = 0

Metered(i, size) ==
  /\ packets < MaxPackets
  /\ packets' = packets + 1
  /\ \/ Accept(i, size) /\ passed_bits' = passed_bits + size
     \/ Drop(i, size) /\ UNCHANGED passed_bits

Unmetered ==
  /\ \/ Tick
     \/ \E avg \in AvgBits : PublishAvg(avg)
     \/ \E i \in Interfaces, kind \in {"runt", "ssh"} : PassUnaccounted(i, kind)
     \/ \E i \in Interfaces : DropUnlisted(i)
  /\ UNCHANGED <<passed_bits, packets>>

MeterNext ==
  \/ \E i \in AllowedIfs, size \in PacketBits : Metered(i, size)
  \/ Unmetered

MeterSpec == MeterInit /\ [][MeterNext]_mvars

(* Time the handler has accounted, and the part of it the link was busy.   *)
Uptime ==
  buffer_state.last_update_ns - throughput_stats.program_start_ns
BusyTime == Uptime - throughput_stats.total_zero_buffer_ns

(* What has left the virtual buffer.                                       *)
ReleasedBits == passed_bits - buffer_state.current_buffer_bits

(* The traffic passed conforms to the configured rate: the bits passed      *)
(* since the first packet exceed what is still buffered by at most          *)
(* rate_bps times that time.  With BufferBounded the traffic is that of a   *)
(* leaky bucket of rate_bps and max_threshold_mtu (225-262, 376-395).       *)
ConformsToRate == ReleasedBits * NsPerSec <= Uptime * RateBps

(* The link is not slower than configured either: discarding the fraction   *)
(* of a bit released between two packets (line 225, with last_update_ns     *)
(* set to now) loses less than one bit per packet, so that the busy time    *)
(* the idle counter leaves over is the time to send what was released.      *)
LosesLessThanABitPerPacket ==
  BusyTime * RateBps <= (ReleasedBits + packets) * NsPerSec
=============================================================================
