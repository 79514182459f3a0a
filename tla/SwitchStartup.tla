---------------------------- MODULE SwitchStartup ---------------------------
(***************************************************************************)
(* The startup of the titrate switch: main.go attaches the packet handler  *)
(* to the interfaces one by one and only then writes the configuration     *)
(* maps, one by one, while packets already arrive.  Until a map is written *)
(* the handler reads it as zeros: the maps are arrays, in which a lookup   *)
(* of key 0 never fails.                                                   *)
(***************************************************************************)
EXTENDS TitrateOps, FiniteSets

CONSTANTS
  Config,         (* the RateLimitParams main.go writes                    *)
  Interfaces,     (* the interfaces of the -interfaces flag                *)
  PacketBits,     (* the packet sizes, in bits                             *)
  MaxTime         (* bound on the clock                                    *)

ASSUME StartupAssumption ==
  /\ Interfaces # {}
  /\ Usable(Config)
  /\ Config.initial_threshold_mtu
       \in Config.min_threshold_mtu .. Config.max_threshold_mtu
  /\ PacketBits \subseteq Word \ {0}
  /\ MaxTime \in Nat \ {0} /\ MaxTime + WindowNs(Config) < WordMod
  /\ Config.max_threshold_mtu * MtuBits * NsPerSec < WordMod
  /\ \A size \in PacketBits : Config.max_threshold_mtu * MtuBits + size < WordMod

VARIABLES
  main,             (* the next thing main does                            *)
  allowed_interfaces,
  attached,         (* interfaces the program is attached to               *)
  params, buffer_state, window_state, throughput_stats,  (* the maps       *)
  startTimeNs,      (* main's start of the throughput measurement          *)
  now,              (* the clock                                           *)
  verdict,          (* the verdict on the last data packet                 *)
  dropped           (* a packet has been dropped since main was done       *)

maps == <<params, buffer_state, window_state, throughput_stats>>
svars == <<main, allowed_interfaces, attached, maps, startTimeNs, now, verdict,
           dropped>>

ZeroParams == [f \in DOMAIN Config |-> 0]

Init ==
  /\ main = "put"
  /\ allowed_interfaces = {} /\ attached = {}
  /\ params = ZeroParams
  /\ buffer_state = [current_buffer_bits |-> 0, last_update_ns |-> 0,
                     current_threshold_mtu |-> 0, ssthresh_mtu |-> 0]
  /\ window_state = ZeroWindow
  /\ throughput_stats = ZeroStats
  /\ startTimeNs = 0 /\ now = 1
  /\ verdict = "NONE" /\ dropped = FALSE

-----------------------------------------------------------------------------
(* The main goroutine.                                                     *)

(* An interface is added to the allowed list before it is attached.        *)
PutInterface(i) ==
  /\ main = "put" /\ i \notin allowed_interfaces
  /\ allowed_interfaces' = allowed_interfaces \cup {i}
  /\ main' = "attach"
  /\ UNCHANGED <<attached, maps, startTimeNs, now, verdict, dropped>>

(* As AttachXDP, before the interface is on the allowed list.              *)
AttachFirst(i) ==
  /\ main \in {"put", "attach"} /\ i \in Interfaces \ attached
  /\ attached' = attached \cup {i}
  /\ main' = IF attached' = Interfaces THEN "clock" ELSE "put"
  /\ UNCHANGED <<allowed_interfaces, maps, startTimeNs, now, verdict, dropped>>

AttachXDP(i) ==
  /\ main = "attach" /\ i \in allowed_interfaces \ attached
  /\ attached' = attached \cup {i}
  /\ main' = IF attached' = Interfaces THEN "clock" ELSE "put"
  /\ UNCHANGED <<allowed_interfaces, maps, startTimeNs, now, verdict, dropped>>

(* A lookup, an attachment or a map update fails: log.Fatalf ends the      *)
(* process, and with it the links it holds.                                *)
Fail ==
  /\ main \in {"put", "attach", "config", "buffer", "stats"}
  /\ main' = "exited"
  /\ attached' = {}
  /\ UNCHANGED <<allowed_interfaces, maps, startTimeNs, now, verdict, dropped>>

ReadStartTime ==
  /\ main = "clock"
  /\ startTimeNs' = now
  /\ main' = "config"
  /\ UNCHANGED <<allowed_interfaces, attached, maps, now, verdict, dropped>>

UpdateConfig ==
  /\ main = "config"
  /\ params' = Config
  /\ main' = "buffer"
  /\ UNCHANGED <<allowed_interfaces, attached, buffer_state, window_state,
                 throughput_stats, startTimeNs, now, verdict, dropped>>

(* As UpdateBufferState, without SsthreshMtu.                              *)
UpdateNoSsthresh ==
  /\ main = "buffer"
  /\ buffer_state' = [current_buffer_bits |-> 0, last_update_ns |-> 0,
                      current_threshold_mtu |-> Config.initial_threshold_mtu,
                      ssthresh_mtu |-> 0]
  /\ main' = "stats"
  /\ UNCHANGED <<allowed_interfaces, attached, params, window_state,
                 throughput_stats, startTimeNs, now, verdict, dropped>>

UpdateBufferState ==
  /\ main = "buffer"
  /\ buffer_state' = [current_buffer_bits |-> 0, last_update_ns |-> 0,
                      current_threshold_mtu |-> Config.initial_threshold_mtu,
                      ssthresh_mtu |-> Config.initial_threshold_mtu]
  /\ main' = "stats"
  /\ UNCHANGED <<allowed_interfaces, attached, params, window_state,
                 throughput_stats, startTimeNs, now, verdict, dropped>>

(* As UpdateThroughputStats, if the statistics were not reset.             *)
KeepThroughputStats ==
  /\ main = "stats"
  /\ main' = "running"
  /\ UNCHANGED <<allowed_interfaces, attached, maps, startTimeNs, now, verdict,
                 dropped>>

UpdateThroughputStats ==
  /\ main = "stats"
  /\ throughput_stats' = ZeroStats
  /\ main' = "running"
  /\ UNCHANGED <<allowed_interfaces, attached, params, buffer_state,
                 window_state, startTimeNs, now, verdict, dropped>>

-----------------------------------------------------------------------------
(* The packet handler on an attached interface.  The average is zero until *)
(* the sampler starts, which is after startup.                             *)

AtZero == TimeAtZero(params, buffer_state, Elapsed(buffer_state, now))

Packet(i, size) ==
  LET accounted == AccountIdle(window_state, now, AtZero)
      buffer == AdjustedBuffer(params, buffer_state, accounted, now)
      window == AdjustedWindow(params, accounted, now)
  IN  /\ i \in attached
      /\ IF i \notin allowed_interfaces
         THEN verdict' = "UNLISTED" /\ UNCHANGED <<maps, dropped>>
         ELSE /\ throughput_stats' = Counted(throughput_stats, now, AtZero)
              /\ UNCHANGED params
              /\ \/ /\ MustDrop(params, buffer, 0, size)
                    /\ buffer_state' = [buffer EXCEPT !.last_update_ns = now]
                    /\ window_state' = OpenWindow(params, window, now)
                    /\ verdict' = "XDP_DROP"
                    /\ dropped' = (dropped \/ main = "running")
                 \/ /\ ~ MustDrop(params, buffer, 0, size)
                    /\ buffer_state' =
                         [buffer EXCEPT !.current_buffer_bits = U64(@ + size),
                                        !.last_update_ns = now]
                    /\ window_state' = window
                    /\ verdict' = "XDP_PASS"
                    /\ UNCHANGED dropped
      /\ UNCHANGED <<main, allowed_interfaces, attached, startTimeNs, now>>

Tick ==
  /\ now < MaxTime
  /\ now' = now + 1
  /\ UNCHANGED <<main, allowed_interfaces, attached, maps, startTimeNs,
                 verdict, dropped>>

Next ==
  \/ \E i \in Interfaces : PutInterface(i)
  \/ \E i \in Interfaces : AttachXDP(i)
  \/ Fail
  \/ ReadStartTime
  \/ UpdateConfig
  \/ UpdateBufferState
  \/ UpdateThroughputStats
  \/ \E i \in Interfaces, size \in PacketBits : Packet(i, size)
  \/ Tick

Spec == Init /\ [][Next]_svars

-----------------------------------------------------------------------------
TypeOK ==
  /\ main \in {"put", "attach", "clock", "config", "buffer", "stats",
               "running", "exited"}
  /\ attached \subseteq Interfaces /\ allowed_interfaces \subseteq Interfaces
  /\ params \in {ZeroParams, Config}
  /\ buffer_state \in BufferState
  /\ window_state \in WindowState
  /\ throughput_stats \in ThroughputStats
  /\ startTimeNs \in 0 .. MaxTime /\ now \in 1 .. MaxTime
  /\ verdict \in {"NONE", "XDP_PASS", "XDP_DROP", "UNLISTED"}
  /\ dropped \in BOOLEAN

Configured == params = Config

(* The switch fails closed: no data packet is passed before the rate limit  *)
(* is configured, although the program is attached earlier (181, 221).      *)
FailsClosed ==
  [][verdict' = "XDP_PASS" /\ maps' # maps => Configured]_svars

(* No packet is lost to the allowed list: an interface is in it before a    *)
(* packet can arrive through the program (main.go 176, 182).                *)
ListedBeforeAttached == verdict # "UNLISTED"

(* However far the thresholds of the unconfigured program stray (they are   *)
(* decreased below a zero minimum), the buffer is bounded at all times and  *)
(* the thresholds are in range once main has written them.                  *)
SoundOnceConfigured ==
  /\ buffer_state.current_buffer_bits <= Config.max_threshold_mtu * MtuBits
  /\ main \in {"stats", "running"} =>
       /\ buffer_state.current_threshold_mtu
            \in Config.min_threshold_mtu .. Config.max_threshold_mtu
       /\ buffer_state.ssthresh_mtu
            \in Config.min_threshold_mtu .. Config.max_threshold_mtu

(* The throughput column of the report, one minus the idle share of the     *)
(* time since startTimeNs, is not negative: idle time from before the start *)
(* time is never counted (main.go 200, 226-243, 366-369).                   *)
ThroughputNotNegative ==
  main = "running" =>
    throughput_stats.total_zero_buffer_ns <= now - startTimeNs

(* Lines 270-271: the threshold changes "when the buffer being full causes  *)
(* packet drops": as long as the configured switch has dropped nothing, the *)
(* threshold is the configured initial one.                                 *)
InitialThresholdUntilDrop ==
  main = "running" /\ ~ dropped =>
    buffer_state.current_threshold_mtu = Config.initial_threshold_mtu
=============================================================================
