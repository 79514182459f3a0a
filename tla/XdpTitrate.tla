----------------------------- MODULE XdpTitrate -----------------------------
(***************************************************************************)
(* The packet handler xdp_titrate_func of the testbed switch, one packet   *)
(* at a time, with the clock and the userspace sampler as its environment. *)
(*                                                                         *)
(* The handler keeps no queue: it keeps the length a queue drained at      *)
(* rate_bps would have, brings it up to date when a packet arrives, and    *)
(* drops or passes the packet.  A drop opens a window; the first packet    *)
(* after the window's end raises the threshold if the virtual link was     *)
(* idle during the window and lowers it otherwise.                         *)
(*                                                                         *)
(* The state is that of main.go having configured the program.             *)
(***************************************************************************)
EXTENDS TitrateOps

CONSTANTS
  RateBps, WindowDurationMs, DecreaseConstant, MinThresholdMtu,
  MaxThresholdMtu, InitialThresholdMtu, WindowsConsidered,
  SsthreshMultiplier, SsthreshEnabled,   (* the fields of RateLimitParams  *)
  Interfaces,       (* the interfaces a packet may arrive on               *)
  AllowedIfs,       (* the keys of the allowed_interfaces map              *)
  ExternalIf,       (* EXTERNAL_INTERFACE_INDEX                            *)
  PacketBits,       (* the packet sizes, in bits                           *)
  AvgBits,          (* the averages the sampler may publish                *)
  MaxTime           (* bound on the clock                                  *)

params ==
  [rate_bps              |-> RateBps,
   window_duration_ms    |-> WindowDurationMs,
   decrease_constant     |-> DecreaseConstant,
   min_threshold_mtu     |-> MinThresholdMtu,
   max_threshold_mtu     |-> MaxThresholdMtu,
   initial_threshold_mtu |-> InitialThresholdMtu,
   windows_considered    |-> WindowsConsidered,
   ssthresh_multiplier   |-> SsthreshMultiplier,
   ssthresh_enabled      |-> SsthreshEnabled]

(* Flag values the program is documented for: a rate, a window and a       *)
(* nonzero minimum; decreasing by less than the minimum; a multiplier of   *)
(* at least 1.0.                                                           *)
ASSUME ParamsAssumption ==
  /\ RateBps \in Word \ {0}
  /\ WindowDurationMs \in Word \ {0}
  /\ MinThresholdMtu \in Word \ {0}
  /\ DecreaseConstant \in 0 .. MinThresholdMtu
  /\ MaxThresholdMtu \in Word
  /\ InitialThresholdMtu \in MinThresholdMtu .. MaxThresholdMtu
  /\ WindowsConsidered \in Word
  /\ SsthreshMultiplier \in Word /\ SsthreshMultiplier >= FixedPoint
  /\ SsthreshEnabled \in {0, 1}

ASSUME EnvironmentAssumption ==
  /\ AllowedIfs \subseteq Interfaces
  /\ PacketBits \subseteq Word
  /\ AvgBits \subseteq Word
  /\ MaxTime \in Nat \ {0}

(* The most rounds a window lasts: one, or windows_considered.             *)
MaxRounds == Greater(1, WindowsConsidered)

(* The quantities that must stay below 2^64 for the computation to be      *)
(* exact.  With main.go's defaults the largest is that of the increase     *)
(* factor, 100 * 2e8 * 1e6 = 2e16.  The product elapsed_ns * rate_bps is   *)
(* not among them: it wraps after 184 s without a packet at 100 Mbps.      *)
ASSUME RangeAssumption ==
  /\ MaxTime + WindowNs(params) < WordMod
  /\ WindowDurationMs * NsPerSec < WordMod
  /\ MaxThresholdMtu * (WindowNs(params) * MaxRounds * FixedPoint) < WordMod
  /\ MaxThresholdMtu * SsthreshMultiplier < WordMod
  /\ MaxThresholdMtu * MtuBits * NsPerSec < WordMod
  /\ \A size \in PacketBits : MaxThresholdMtu * MtuBits + size < WordMod

VARIABLES
  buffer_state,      (* the buffer_state map's entry                       *)
  window_state,      (* the window_state map's entry                       *)
  avg_queue_bits,    (* the avg_queue_state map's entry                    *)
  throughput_stats,  (* the throughput_stats map's entry                   *)
  now,               (* bpf_ktime_get_ns()                                 *)
  verdict            (* what became of the last packet                     *)

vars == <<buffer_state, window_state, avg_queue_bits, throughput_stats, now,
          verdict>>

Verdicts == {"NONE", "XDP_PASS", "XDP_DROP"}

TypeOK ==
  /\ buffer_state \in BufferState
  /\ window_state \in WindowState
  /\ avg_queue_bits \in Word
  /\ throughput_stats \in ThroughputStats
  /\ now \in 1 .. MaxTime
  /\ verdict \in Verdicts

Init ==
  /\ buffer_state = [current_buffer_bits |-> 0, last_update_ns |-> 0,
                     current_threshold_mtu |-> InitialThresholdMtu,
                     ssthresh_mtu |-> InitialThresholdMtu]
  /\ window_state = ZeroWindow
  /\ avg_queue_bits = 0
  /\ throughput_stats = ZeroStats
  /\ now = 1
  /\ verdict = "NONE"

-----------------------------------------------------------------------------
(* What the handler has computed when it reaches the admission test: the   *)
(* buffer depleted up to now, the window credited with the idle time in    *)
(* it, and both adjusted if the window has expired.                        *)

ElapsedNow == Elapsed(buffer_state, now)

AtZero == TimeAtZero(params, buffer_state, ElapsedNow)

AccountedWindow == AccountIdle(window_state, now, AtZero)

CurrentBuffer == AdjustedBuffer(params, buffer_state, AccountedWindow, now)

CurrentWindow == AdjustedWindow(params, AccountedWindow, now)

CountStats == throughput_stats' = Counted(throughput_stats, now, AtZero)

(* As Drop, without line 386.                                              *)
DropKeepingTime(i, size) ==
  /\ i \in AllowedIfs
  /\ MustDrop(params, CurrentBuffer, avg_queue_bits, size)
  /\ buffer_state' = CurrentBuffer
  /\ window_state' = OpenWindow(params, CurrentWindow, now)
  /\ CountStats
  /\ verdict' = "XDP_DROP"
  /\ UNCHANGED <<avg_queue_bits, now>>

(* A data packet of size bits on an allowed interface that the handler     *)
(* drops.                                                                  *)
Drop(i, size) ==
  /\ i \in AllowedIfs
  /\ MustDrop(params, CurrentBuffer, avg_queue_bits, size)
  /\ buffer_state' = [CurrentBuffer EXCEPT !.last_update_ns = now]
  /\ window_state' = OpenWindow(params, CurrentWindow, now)
  /\ CountStats
  /\ verdict' = "XDP_DROP"
  /\ UNCHANGED <<avg_queue_bits, now>>

(* A data packet of size bits on an allowed interface that the handler     *)
(* passes.                                                                 *)
Accept(i, size) ==
  /\ i \in AllowedIfs
  /\ ~ MustDrop(params, CurrentBuffer, avg_queue_bits, size)
  /\ buffer_state' = [CurrentBuffer EXCEPT
                        !.current_buffer_bits = U64(@ + size),
                        !.last_update_ns = now]
  /\ window_state' = CurrentWindow
  /\ CountStats
  /\ verdict' = "XDP_PASS"
  /\ UNCHANGED <<avg_queue_bits, now>>

(* A packet too short for its headers on any allowed interface, or an SSH  *)
(* packet on the external one: passed without touching the state.          *)
PassUnaccounted(i, kind) ==
  /\ i \in AllowedIfs
  /\ kind = "runt" \/ i = ExternalIf
  /\ verdict' = "XDP_PASS"
  /\ UNCHANGED <<buffer_state, window_state, avg_queue_bits,
                 throughput_stats, now>>

(* A packet on an interface that is not in allowed_interfaces.             *)
DropUnlisted(i) ==
  /\ i \notin AllowedIfs
  /\ verdict' = "XDP_DROP"
  /\ UNCHANGED <<buffer_state, window_state, avg_queue_bits,
                 throughput_stats, now>>

(* The userspace sampler publishes an average.                             *)
PublishAvg(avg) ==
  /\ avg_queue_bits' = avg
  /\ UNCHANGED <<buffer_state, window_state, throughput_stats, now, verdict>>

Tick ==
  /\ now < MaxTime
  /\ now' = now + 1
  /\ UNCHANGED <<buffer_state, window_state, avg_queue_bits,
                 throughput_stats, verdict>>

Next ==
  \/ \E i \in Interfaces, size \in PacketBits : Drop(i, size)
  \/ \E i \in Interfaces, size \in PacketBits : Accept(i, size)
  \/ \E i \in Interfaces, kind \in {"runt", "ssh"} : PassUnaccounted(i, kind)
  \/ \E i \in Interfaces : DropUnlisted(i)
  \/ \E avg \in AvgBits : PublishAvg(avg)
  \/ Tick

Spec == Init /\ [][Next]_vars
-----------------------------------------------------------------------------
(* The virtual buffer never holds more than the maximum threshold, whatever *)
(* the sampler publishes and however the threshold has moved (line 376).    *)
BufferBounded ==
  buffer_state.current_buffer_bits <= MaxThresholdMtu * MtuBits

(* No sequence of windows takes the threshold, or the slow-start threshold  *)
(* above which it is halved, out of the configured range (265-359).         *)
ThresholdInRange ==
  /\ buffer_state.current_threshold_mtu \in MinThresholdMtu .. MaxThresholdMtu
  /\ buffer_state.ssthresh_mtu \in MinThresholdMtu .. MaxThresholdMtu

(* The start of the round of the active window that is being measured.      *)
RoundStart == window_state.window_end_ns - WindowNs(params)

(* The idle time credited to a window is time of that window: it fits in    *)
(* the part of the round that the handler has seen, so that the denominator *)
(* of line 288 cannot wrap even though idle time is credited after the fact *)
(* and past the window's end (241-253).                                     *)
IdleWithinWindow ==
  window_state.is_window_active = 1 =>
    /\ RoundStart <= buffer_state.last_update_ns
    /\ window_state.window_zero_buffer_ns
         <= Lesser(buffer_state.last_update_ns, window_state.window_end_ns)
              - RoundStart

(* The timestamps and the round counter are what the window arithmetic      *)
(* relies on: the last update is not in the future and not before the       *)
(* program's start, and an active window was opened after it, in a round    *)
(* that windows_considered allows (208-224, 343-348, 378-385).              *)
ClocksAndRounds ==
  /\ buffer_state.last_update_ns <= now
  /\ throughput_stats.program_start_ns <= buffer_state.last_update_ns
  /\ throughput_stats.program_start_ns = 0 => buffer_state.last_update_ns = 0
  /\ window_state.is_window_active = 1 =>
       /\ WindowNs(params) < window_state.window_end_ns
       /\ window_state.window_count \in 1 .. MaxRounds

(* The idle time counted for userspace fits in the time since the program   *)
(* saw its first packet: no interval is counted twice however the packets   *)
(* fall (211, 223, 235).                                                    *)
IdleWithinUptime ==
  throughput_stats.total_zero_buffer_ns
    <= buffer_state.last_update_ns - throughput_stats.program_start_ns
=============================================================================
