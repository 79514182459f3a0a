---------------------------- MODULE XdpTitrateSmp ----------------------------
(***************************************************************************)
(* The packet handler of the titrate switch on several CPUs.  The kernel   *)
(* runs xdp_titrate_func on the CPU a packet arrives on, and the maps it   *)
(* works on are shared arrays without a lock.  A step is what the handler  *)
(* does between two accesses to a word that another CPU may change in      *)
(* between: the compiler keeps current_buffer_bits in a register from its  *)
(* first use to the next helper call, so it is loaded at lines 228 and 376 *)
(* and stored at 256/261 and 392.  The updates of the statistics and of    *)
(* the window are one step each.                                           *)
(***************************************************************************)
EXTENDS TitrateOps

CONSTANTS
  CPUs,
  Params,         (* the rate_limit_params entry                           *)
  PacketBits,     (* the packet sizes, in bits                             *)
  AvgBits,        (* what the average map may hold                         *)
  MaxTime,        (* bound on the clock                                    *)
  MaxPackets      (* bound on the packets handled                          *)

ASSUME SmpAssumption ==
  /\ Params \in RateLimitParams
  /\ PacketBits \subseteq Word /\ AvgBits \subseteq Word
  /\ MaxTime \in 1 .. (WordMod - 1) /\ MaxPackets \in Nat
  /\ \A size \in PacketBits : Params.max_threshold_mtu * MtuBits + size < WordMod

(* The flag values the program is documented for, and products below 2^64.  *)
ASSUME FlagsAssumption ==
  /\ Usable(Params)
  /\ Params.initial_threshold_mtu
       \in Params.min_threshold_mtu .. Params.max_threshold_mtu
  /\ MaxTime + WindowNs(Params) < WordMod
  /\ Params.max_threshold_mtu * MtuBits * NsPerSec < WordMod

VARIABLES
  buffer_state, window_state, throughput_stats,   (* the maps              *)
  now,            (* bpf_ktime_get_ns()                                    *)
  cpu,            (* per CPU: where the handler is, and its registers      *)
  passed_bits,    (* history: bits of the packets passed                   *)
  packets,        (* packets that have arrived                             *)
  overlapped      (* history: two CPUs have run the handler at once        *)

maps == <<buffer_state, window_state, throughput_stats>>
history == <<passed_bits, overlapped>>
pvars == <<maps, now, cpu, packets, history>>

Idle == [pc |-> "idle", size |-> 0, now |-> 0, elapsed |-> 0, bits |-> 0]

Init ==
  /\ buffer_state = [current_buffer_bits |-> 0, last_update_ns |-> 0,
                     current_threshold_mtu |-> Params.initial_threshold_mtu,
                     ssthresh_mtu |-> Params.initial_threshold_mtu]
  /\ window_state = ZeroWindow
  /\ throughput_stats = ZeroStats
  /\ now = 1
  /\ cpu = [c \in CPUs |-> Idle]
  /\ passed_bits = 0 /\ packets = 0 /\ overlapped = FALSE

-----------------------------------------------------------------------------
(* The buffer state as the registers of CPU c have it.                     *)
Seen(c) == [buffer_state EXCEPT !.current_buffer_bits = cpu[c].bits]

(* A packet of size bits arrives on CPU c and the handler reads the clock. *)
ReadClock(c, size) ==
  /\ cpu[c].pc = "idle" /\ packets < MaxPackets
  /\ cpu' = [cpu EXCEPT ![c] = [Idle EXCEPT !.pc = "elapsed", !.size = size,
                                            !.now = now]]
  /\ packets' = packets + 1
  /\ overlapped' = (overlapped \/ \E d \in CPUs : cpu[d].pc # "idle")
  /\ UNCHANGED <<maps, now, passed_bits>>

ReadElapsed(c) ==
  /\ cpu[c].pc = "elapsed"
  /\ throughput_stats' =
       IF throughput_stats.program_start_ns = 0
       THEN [throughput_stats EXCEPT !.program_start_ns = cpu[c].now]
       ELSE throughput_stats
  /\ buffer_state' = IF buffer_state.last_update_ns = 0
                     THEN [buffer_state EXCEPT !.last_update_ns = cpu[c].now]
                     ELSE buffer_state
  /\ cpu' = [cpu EXCEPT ![c].pc = "load",
                        ![c].elapsed = Elapsed(buffer_state, cpu[c].now)]
  /\ UNCHANGED <<window_state, now, packets, history>>

LoadBuffer(c) ==
  /\ cpu[c].pc = "load"
  /\ cpu' = [cpu EXCEPT ![c].pc = "account",
                        ![c].bits = buffer_state.current_buffer_bits]
  /\ UNCHANGED <<maps, now, packets, history>>

AccountTime(c) ==
  LET atZero == TimeAtZero(Params, Seen(c), cpu[c].elapsed)
  IN  /\ cpu[c].pc = "account"
      /\ throughput_stats' =
           [throughput_stats EXCEPT !.total_zero_buffer_ns = U64(@ + atZero)]
      /\ window_state' = AccountIdle(window_state, cpu[c].now, atZero)
      /\ cpu' = [cpu EXCEPT ![c].pc = "deplete"]
      /\ UNCHANGED <<buffer_state, now, packets, history>>

StoreDepleted(c) ==
  /\ cpu[c].pc = "deplete"
  /\ buffer_state' = Deplete(Params, Seen(c), cpu[c].elapsed)
  /\ cpu' = [cpu EXCEPT ![c].pc = "expire"]
  /\ UNCHANGED <<window_state, throughput_stats, now, packets, history>>

ExpireWindow(c) ==
  /\ cpu[c].pc = "expire"
  /\ IF Expired(window_state, cpu[c].now)
     THEN /\ buffer_state' = AdjustState(Params, buffer_state, window_state)
          /\ window_state' = AdjustWindow(Params, window_state, cpu[c].now)
     ELSE UNCHANGED <<buffer_state, window_state>>
  /\ cpu' = [cpu EXCEPT ![c].pc = "admit"]
  /\ UNCHANGED <<throughput_stats, now, packets, history>>

(* The admission test, on the buffer as it is loaded for it.               *)
Admit(c, avg) ==
  /\ cpu[c].pc = "admit"
  /\ cpu' = [cpu EXCEPT
               ![c].bits = buffer_state.current_buffer_bits,
               ![c].pc = IF MustDrop(Params, buffer_state, avg, cpu[c].size)
                         THEN "drop" ELSE "pass"]
  /\ UNCHANGED <<maps, now, packets, history>>

(* As Drop, without line 386.                                              *)
DropKeepingTime(c) ==
  /\ cpu[c].pc = "drop"
  /\ window_state' = OpenWindow(Params, window_state, cpu[c].now)
  /\ cpu' = [cpu EXCEPT ![c] = Idle]
  /\ UNCHANGED <<buffer_state, throughput_stats, now, packets, history>>

Drop(c) ==
  /\ cpu[c].pc = "drop"
  /\ window_state' = OpenWindow(Params, window_state, cpu[c].now)
  /\ buffer_state' = [buffer_state EXCEPT !.last_update_ns = cpu[c].now]
  /\ cpu' = [cpu EXCEPT ![c] = Idle]
  /\ UNCHANGED <<throughput_stats, now, packets, history>>

(* As Accept, if the buffer length were loaded again after the test.       *)
AcceptReloading(c) ==
  /\ cpu[c].pc = "pass"
  /\ buffer_state' = [buffer_state EXCEPT
                        !.current_buffer_bits = U64(@ + cpu[c].size),
                        !.last_update_ns = cpu[c].now]
  /\ passed_bits' = passed_bits + cpu[c].size
  /\ cpu' = [cpu EXCEPT ![c] = Idle]
  /\ UNCHANGED <<window_state, throughput_stats, now, packets, overlapped>>

Accept(c) ==
  /\ cpu[c].pc = "pass"
  /\ buffer_state' =
       [buffer_state EXCEPT
          !.current_buffer_bits = U64(cpu[c].bits + cpu[c].size),
          !.last_update_ns = cpu[c].now]
  /\ passed_bits' = passed_bits + cpu[c].size
  /\ cpu' = [cpu EXCEPT ![c] = Idle]
  /\ UNCHANGED <<window_state, throughput_stats, now, packets, overlapped>>

Tick ==
  /\ now < MaxTime
  /\ now' = now + 1
  /\ UNCHANGED <<maps, cpu, packets, history>>

Next ==
  \/ \E c \in CPUs :
       \/ \E size \in PacketBits : ReadClock(c, size)
       \/ ReadElapsed(c)
       \/ LoadBuffer(c)
       \/ AccountTime(c)
       \/ StoreDepleted(c)
       \/ ExpireWindow(c)
       \/ \E avg \in AvgBits : Admit(c, avg)
       \/ Drop(c)
       \/ Accept(c)
  \/ Tick

Spec == Init /\ [][Next]_pvars

-----------------------------------------------------------------------------
Registers ==
  [pc : {"idle", "elapsed", "load", "account", "deplete", "expire", "admit",
         "drop", "pass"},
   size : {0} \cup PacketBits, now : 0 .. MaxTime, elapsed : Word, bits : Word]

TypeOK ==
  /\ buffer_state \in BufferState
  /\ window_state \in WindowState
  /\ throughput_stats \in ThroughputStats
  /\ now \in 1 .. MaxTime
  /\ cpu \in [CPUs -> Registers]
  /\ passed_bits \in Nat /\ packets \in 0 .. MaxPackets
  /\ overlapped \in BOOLEAN

(* Concurrent handlers overwrite each other's updates, and one may work     *)
(* with a clock older than the last update, but none stores a buffer length *)
(* above the maximum threshold: the length that line 376 tests is the one   *)
(* that line 392 adds to, and depleting never adds.                         *)
BufferBounded ==
  buffer_state.current_buffer_bits <= Params.max_threshold_mtu * MtuBits

(* "Minimum threshold in MTU", "Max threshold in MTU" (lines 46-47): the     *)
(* threshold stays between them.                                            *)
ThresholdInRange ==
  buffer_state.current_threshold_mtu
    \in Params.min_threshold_mtu .. Params.max_threshold_mtu

AllIdle == \A c \in CPUs : cpu[c].pc = "idle"

(* What has been passed and is not in the buffer has had time to be sent.   *)
ConformsToRate ==
  (passed_bits - buffer_state.current_buffer_bits) * NsPerSec
    <= (now - throughput_stats.program_start_ns) * Params.rate_bps

(* The rate and the threshold range depend on the handlers running one      *)
(* after the other, not on their running in no time: while no two have      *)
(* overlapped, both hold between packets, on whichever CPU each packet was  *)
(* handled and however the clock moved during it (202-396).                 *)
SoundWhileSerial ==
  AllIdle /\ ~ overlapped => ConformsToRate /\ ThresholdInRange
=============================================================================
