------------------------ MODULE SwitchStartup_proofs ------------------------
(***************************************************************************)
(* The startup of the switch, for every configuration, every number of     *)
(* interfaces and every interleaving of main's map updates with packets.   *)
(***************************************************************************)
EXTENDS SwitchStartup, TitrateOps_proofs

Limit == Config.max_threshold_mtu * MtuBits

(* The inductive invariant: main's progress and the time of the last        *)
(* packet.  Once main has reset the buffer state, its timestamp is zero or  *)
(* not before the start time, so that no idle time counted from then on is  *)
(* older than the start.                                                    *)
StartInv ==
  /\ TypeOK
  /\ buffer_state.current_buffer_bits <= Limit
  /\ buffer_state.last_update_ns <= now
  /\ attached \subseteq allowed_interfaces
  /\ verdict # "UNLISTED"
  /\ verdict = "XDP_PASS" => Configured
  /\ main \in {"config", "buffer", "stats", "running"} => startTimeNs <= now
  /\ main \in {"stats", "running"} =>
       \/ buffer_state.last_update_ns = 0
       \/ startTimeNs <= buffer_state.last_update_ns
  /\ main = "running" =>
       throughput_stats.total_zero_buffer_ns
         <= IF buffer_state.last_update_ns = 0
            THEN 0 ELSE buffer_state.last_update_ns - startTimeNs

LEMMA StartConstants ==
  /\ 0 \in Word /\ 1 \in Word /\ WordMod \in Nat
  /\ Limit \in Nat
  /\ Config \in RateLimitParams /\ ZeroParams \in RateLimitParams
  /\ Config.initial_threshold_mtu \in Word
  /\ MaxTime \in Nat \ {0} /\ 1 .. MaxTime \subseteq Word \ {0}
<1>1. /\ 0 \in Word /\ 1 \in Word /\ WordMod \in Nat
      /\ Config \in RateLimitParams
      /\ MaxTime \in Nat \ {0} /\ 1 .. MaxTime \subseteq Word \ {0}
  BY StartupAssumption, UsableTypes, OpsAssumption DEF Word, Usable
<1>2. Limit \in Nat /\ Config.initial_threshold_mtu \in Word
  BY <1>1, OpsAssumption DEF Word, Limit, RateLimitParams
<1>3. ZeroParams \in RateLimitParams
  BY <1>1 DEF ZeroParams, RateLimitParams
<1> QED
  BY <1>1, <1>2, <1>3

(* What the map types give in any state of the invariant.                   *)
LEMMA StartTypes ==
  ASSUME StartInv
  PROVE  /\ buffer_state \in BufferState /\ window_state \in WindowState
         /\ throughput_stats \in ThroughputStats
         /\ params \in RateLimitParams /\ params \in {ZeroParams, Config}
         /\ now \in Word \ {0} /\ now \in Nat
         /\ buffer_state.current_buffer_bits \in Nat
         /\ buffer_state.last_update_ns \in Nat
         /\ startTimeNs \in Nat
         /\ throughput_stats.total_zero_buffer_ns \in Nat
BY StartConstants DEF StartInv, TypeOK, BufferState, ThroughputStats, Word

(* Idle time is counted from the last update to now.                        *)
LEMMA StartAtZero ==
  ASSUME StartInv
  PROVE  /\ AtZero \in Word /\ AtZero \in Nat
         /\ AtZero <= IF buffer_state.last_update_ns = 0
                      THEN 0 ELSE now - buffer_state.last_update_ns
<1> DEFINE bits == buffer_state.current_buffer_bits
<1>1. /\ Elapsed(buffer_state, now) \in Word
      /\ Elapsed(buffer_state, now) = IF buffer_state.last_update_ns = 0
                                      THEN 0 ELSE now - buffer_state.last_update_ns
  BY StartTypes, ElapsedType DEF StartInv
<1>2. bits * NsPerSec < WordMod
  <2>1. NsPerSec \in Nat /\ bits \in Nat /\ bits <= Limit /\ Limit \in Nat
    BY StartTypes, StartConstants, OpsAssumption DEF StartInv
  <2>2. bits * NsPerSec <= Limit * NsPerSec
    BY <2>1
  <2>3. Limit * NsPerSec < WordMod
    BY StartupAssumption DEF Limit
  <2> QED
    BY <2>1, <2>2, <2>3, StartConstants
<1>3. params.rate_bps \in Word
  BY StartTypes DEF RateLimitParams
<1> QED
  BY <1>1, <1>2, <1>3, StartTypes, TimeAtZeroBounded, TimeAtZeroType
  DEF AtZero, Word

(* Both versions of the parameters bound the buffer, the zeros by zero.     *)
LEMMA PassedFits ==
  ASSUME StartInv, NEW bits \in Nat, bits <= Limit, NEW size \in PacketBits,
         ~ Exceeds(bits, size, params.max_threshold_mtu)
  PROVE  /\ bits + size \in Word /\ bits + size <= Limit
         /\ Configured
<1>1. size \in Nat \ {0} /\ Limit + size < WordMod
  BY StartupAssumption DEF Word, Limit
<1>2. bits + size \in Word /\ Limit \in Word
  BY <1>1, StartConstants DEF Word
<1>3. U64(bits + size) = bits + size /\ U64(Limit) = Limit /\ U64(0) = 0
  BY <1>2, U64Exact, StartConstants
<1>4. CASE params = Config
  BY <1>1, <1>2, <1>3, <1>4, StartConstants DEF Exceeds, Configured, Limit
<1>5. CASE params = ZeroParams
  <2>1. params.max_threshold_mtu * MtuBits = 0
    BY <1>5, StartConstants, OpsAssumption DEF ZeroParams, RateLimitParams
  <2> QED
    BY <1>1, <1>3, <2>1 DEF Exceeds
<1> QED
  BY <1>4, <1>5, StartTypes

LEMMA StartInit == Init => StartInv
<1> SUFFICES ASSUME Init PROVE StartInv
  OBVIOUS
<1>1. /\ buffer_state \in BufferState
      /\ buffer_state.current_buffer_bits = 0 /\ buffer_state.last_update_ns = 0
  BY StartConstants DEF Init, BufferState
<1>2. window_state \in WindowState /\ throughput_stats \in ThroughputStats
  BY StartConstants DEF Init, ZeroWindow, WindowState, ZeroStats, ThroughputStats
<1>3. now \in 1 .. MaxTime /\ startTimeNs \in 0 .. MaxTime
  BY StartConstants DEF Init
<1>4. TypeOK
  BY <1>1, <1>2, <1>3 DEF Init, TypeOK
<1> QED
  BY <1>1, <1>4, StartConstants DEF Init, StartInv

(* A packet, whatever main has done so far.                                 *)
LEMMA StartPacket ==
  ASSUME StartInv, NEW i \in Interfaces, NEW size \in PacketBits, Packet(i, size)
  PROVE  StartInv' /\ (verdict' = "XDP_PASS" => Configured)
<1> DEFINE accounted == AccountIdle(window_state, now, AtZero)
           buffer == AdjustedBuffer(params, buffer_state, accounted, now)
           window == AdjustedWindow(params, accounted, now)
           total == throughput_stats.total_zero_buffer_ns
<1>1. accounted \in WindowState
  BY StartTypes, StartAtZero, AccountIdleType
<1>2. /\ buffer \in BufferState
      /\ buffer.current_buffer_bits \in Nat
      /\ buffer.current_buffer_bits <= Limit
  <2> DEFINE depleted == Deplete(params, buffer_state, Elapsed(buffer_state, now))
  <2>1. /\ depleted \in BufferState
        /\ depleted.current_buffer_bits \in 0 .. buffer_state.current_buffer_bits
    BY StartTypes, ElapsedType, DepleteType
  <2>2. /\ AdjustState(params, depleted, accounted) \in BufferState
        /\ AdjustState(params, depleted, accounted).current_buffer_bits
             = depleted.current_buffer_bits
    BY <1>1, <2>1, StartTypes, AdjustStateType
  <2>3. buffer = IF Expired(accounted, now)
                 THEN AdjustState(params, depleted, accounted) ELSE depleted
    BY DEF AdjustedBuffer
  <2> HIDE DEF depleted, buffer, accounted
  <2>4. buffer \in BufferState /\ buffer.current_buffer_bits = depleted.current_buffer_bits
    BY <2>1, <2>2, <2>3
  <2> QED
    BY <2>1, <2>4, StartTypes, StartConstants DEF StartInv
<1>3. window \in WindowState /\ OpenWindow(params, window, now) \in WindowState
  <2>1. window \in WindowState
    BY <1>1, StartTypes, WindowType DEF AdjustedWindow
  <2> QED
    BY <2>1, StartTypes, WindowType
<1> HIDE DEF accounted, buffer, window
<1>4. /\ i \in attached /\ i \in allowed_interfaces
      /\ throughput_stats' = Counted(throughput_stats, now, AtZero)
      /\ UNCHANGED <<main, allowed_interfaces, attached, startTimeNs, now, params>>
      /\ \/ /\ buffer_state' = [buffer EXCEPT !.last_update_ns = now]
            /\ window_state' = OpenWindow(params, window, now)
            /\ verdict' = "XDP_DROP" /\ dropped' \in BOOLEAN
         \/ /\ ~ MustDrop(params, buffer, 0, size)
            /\ buffer_state' =
                 [buffer EXCEPT
                    !.current_buffer_bits = U64(buffer.current_buffer_bits + size),
                    !.last_update_ns = now]
            /\ window_state' = window
            /\ verdict' = "XDP_PASS" /\ dropped' = dropped
  BY DEF Packet, StartInv, TypeOK, accounted, buffer, window
<1>5. ~ MustDrop(params, buffer, 0, size) =>
        /\ U64(buffer.current_buffer_bits + size) \in Word
        /\ U64(buffer.current_buffer_bits + size) <= Limit
        /\ Configured
  <2> SUFFICES ASSUME ~ MustDrop(params, buffer, 0, size)
               PROVE  /\ U64(buffer.current_buffer_bits + size) \in Word
                      /\ U64(buffer.current_buffer_bits + size) <= Limit
                      /\ Configured
    OBVIOUS
  <2>1. ~ Exceeds(buffer.current_buffer_bits, size, params.max_threshold_mtu)
    BY DEF MustDrop
  <2> QED
    BY <1>2, <2>1, PassedFits, U64Exact
<1>6. /\ buffer_state' \in BufferState /\ window_state' \in WindowState
      /\ buffer_state'.current_buffer_bits <= Limit
      /\ buffer_state'.last_update_ns = now
      /\ verdict' \in {"XDP_DROP", "XDP_PASS"}
      /\ verdict' = "XDP_PASS" => Configured
  BY <1>2, <1>3, <1>4, <1>5, StartTypes DEF BufferState
<1>7. /\ throughput_stats' \in ThroughputStats
      /\ throughput_stats'.total_zero_buffer_ns <= total + AtZero
  <2>1. total \in Nat /\ AtZero \in Nat
    BY StartTypes, StartAtZero
  <2>2. U64(total + AtZero) \in Word /\ U64(total + AtZero) <= total + AtZero
    BY <2>1, U64Type, U64Below
  <2> QED
    BY <1>4, <2>2, StartTypes DEF Counted, ThroughputStats
<1>8. TypeOK'
  BY <1>4, <1>6, <1>7 DEF StartInv, TypeOK
<1>9. main = "running" =>
        throughput_stats'.total_zero_buffer_ns <= now - startTimeNs
  <2>1. throughput_stats'.total_zero_buffer_ns \in Nat
    BY <1>7 DEF ThroughputStats, Word
  <2> QED
    BY <1>7, <2>1, StartTypes, StartAtZero DEF StartInv
<1>10. now # 0 /\ now \in Nat /\ (main \in {"stats", "running"} => startTimeNs <= now)
  BY StartTypes DEF StartInv
<1> QED
  BY <1>4, <1>6, <1>8, <1>9, <1>10, StartTypes DEF StartInv, Configured

LEMMA StartNext ==
  StartInv /\ [Next]_svars =>
    StartInv' /\ (verdict' = "XDP_PASS" /\ maps' # maps => Configured)
<1> SUFFICES ASSUME StartInv, [Next]_svars
             PROVE  StartInv' /\ (verdict' = "XDP_PASS" /\ maps' # maps => Configured)
  OBVIOUS
<1>1. ASSUME NEW i \in Interfaces, PutInterface(i)
      PROVE  StartInv' /\ maps' = maps
  BY <1>1 DEF PutInterface, StartInv, TypeOK, maps, Configured
<1>2. ASSUME NEW i \in Interfaces, AttachXDP(i)
      PROVE  StartInv' /\ maps' = maps
  BY <1>2 DEF AttachXDP, StartInv, TypeOK, maps, Configured
<1>3. ASSUME Fail
      PROVE  StartInv' /\ maps' = maps
  BY <1>3 DEF Fail, StartInv, TypeOK, maps, Configured
<1>4. ASSUME ReadStartTime
      PROVE  StartInv' /\ maps' = maps
  BY <1>4, StartTypes, StartConstants DEF ReadStartTime, StartInv, TypeOK, maps, Configured
<1>5. ASSUME UpdateConfig
      PROVE  StartInv' /\ verdict' = verdict
  BY <1>5 DEF UpdateConfig, StartInv, TypeOK, Configured
<1>6. ASSUME UpdateBufferState
      PROVE  StartInv' /\ verdict' = verdict
  <2>1. /\ buffer_state' \in BufferState
        /\ buffer_state'.current_buffer_bits = 0
        /\ buffer_state'.last_update_ns = 0
    BY <1>6, StartConstants DEF UpdateBufferState, BufferState
  <2> QED
    BY <1>6, <2>1, StartTypes, StartConstants DEF UpdateBufferState, StartInv, TypeOK, Configured
<1>7. ASSUME UpdateThroughputStats
      PROVE  StartInv' /\ verdict' = verdict
  <2>1. /\ throughput_stats' \in ThroughputStats
        /\ throughput_stats'.total_zero_buffer_ns = 0
    BY <1>7, StartConstants DEF UpdateThroughputStats, ThroughputStats, ZeroStats
  <2> QED
    BY <1>7, <2>1, StartTypes DEF UpdateThroughputStats, StartInv, TypeOK, Configured
<1>8. ASSUME NEW i \in Interfaces, NEW size \in PacketBits, Packet(i, size)
      PROVE  StartInv' /\ (verdict' = "XDP_PASS" => Configured)
  BY <1>8, StartPacket
<1>9. ASSUME Tick
      PROVE  StartInv' /\ maps' = maps
  <2>1. now' = now + 1 /\ now' \in 1 .. MaxTime
    BY <1>9, StartConstants DEF Tick, StartInv, TypeOK
  <2> QED
    BY <1>9, <2>1, StartTypes DEF Tick, StartInv, TypeOK, maps, Configured
<1>10. CASE UNCHANGED svars
  BY <1>10 DEF svars, maps, StartInv, TypeOK, Configured
<1> QED
  BY <1>1, <1>2, <1>3, <1>4, <1>5, <1>6, <1>7, <1>8, <1>9, <1>10 DEF Next, StartInv

THEOREM StartInvariance == Spec => []StartInv
BY StartInit, StartNext, PTL DEF Spec

(* The maps keep their types throughout the startup.                        *)
THEOREM StartTypeCorrect == Spec => []TypeOK
<1>1. StartInv => TypeOK
  BY DEF StartInv
<1> QED
  BY <1>1, StartInvariance, PTL

(* No packet is lost to the allowed list, however many interfaces there are *)
(* and in whatever order they are attached.                                 *)
THEOREM NoPacketUnlisted == Spec => []ListedBeforeAttached
<1>1. StartInv => ListedBeforeAttached
  BY DEF StartInv, ListedBeforeAttached
<1> QED
  BY <1>1, StartInvariance, PTL

(* No data packet is passed before the configuration is written.            *)
THEOREM StartupFailsClosed == Spec => FailsClosed
<1>1. StartInv /\ [Next]_svars =>
        [verdict' = "XDP_PASS" /\ maps' # maps => Configured]_svars
  BY StartNext
<1> QED
  BY <1>1, StartInvariance, PTL DEF Spec, FailsClosed

(* The reported throughput is never negative, whichever packets arrived     *)
(* before and during the updates of the maps.                               *)
THEOREM ThroughputStaysNonNegative == Spec => []ThroughputNotNegative
<1>1. StartInv => ThroughputNotNegative
  BY StartTypes DEF StartInv, ThroughputNotNegative
<1> QED
  BY <1>1, StartInvariance, PTL

-----------------------------------------------------------------------------
(* The thresholds once main has written them.  A window may be open then    *)
(* that was opened under parameters that were all zeros, with a duration of *)
(* zero: it has no idle time, and what is credited to it is none either.    *)

Updated == IF buffer_state.last_update_ns = 0 THEN now ELSE buffer_state.last_update_ns

(* The idle time of window w fits in the time from its start, which is its  *)
(* end if it was opened without a configuration, to t.                      *)
WindowFits(w, t) ==
  w.is_window_active = 1 =>
    /\ w.window_count \in 1 .. RoundsOf(Config)
    /\ \E start \in {w.window_end_ns, w.window_end_ns - WindowNs(Config)} :
         /\ start \in Nat /\ start <= t
         /\ w.window_zero_buffer_ns <= Lesser(t, w.window_end_ns) - start

ThresholdsWithin(s) ==
  Within(Config, s.current_threshold_mtu) /\ Within(Config, s.ssthresh_mtu)

SoundInv ==
  /\ StartInv
  /\ main \in {"buffer", "stats", "running"} => Configured
  /\ WindowFits(window_state, Updated)
  /\ main \in {"stats", "running"} => ThresholdsWithin(buffer_state)

LEMMA ConfigFacts ==
  /\ WindowNs(Config) \in Nat /\ RoundsOf(Config) \in Nat \ {0}
  /\ ZeroParams.windows_considered = 0 /\ WindowNs(ZeroParams) = 0
  /\ Config.windows_considered \in Nat /\ Config.windows_considered <= RoundsOf(Config)
  /\ Within(Config, Config.initial_threshold_mtu)
<1>1. Usable(Config) /\ Config \in RateLimitParams
  BY StartupAssumption DEF Usable
<1>2. ZeroParams.windows_considered = 0 /\ ZeroParams.window_duration_ms = 0
  BY <1>1 DEF ZeroParams, RateLimitParams
<1>3. U64(0 * NsPerSec) = 0 /\ 0 \div MsPerSec = 0
  BY OpsAssumption DEF U64
<1> QED
  BY <1>1, <1>2, <1>3, UsableTypes, StartupAssumption DEF WindowNs, Within

(* A later time leaves more room.                                           *)
LEMMA FitsLater ==
  ASSUME NEW w \in WindowState, NEW t \in Nat, NEW u \in Nat, t <= u, WindowFits(w, t)
  PROVE  WindowFits(w, u)
<1> SUFFICES ASSUME w.is_window_active = 1 PROVE WindowFits(w, u)
  BY DEF WindowFits
<1>1. PICK start \in {w.window_end_ns, w.window_end_ns - WindowNs(Config)} :
        /\ start \in Nat /\ start <= t
        /\ w.window_zero_buffer_ns <= Lesser(t, w.window_end_ns) - start
  BY DEF WindowFits
<1>2. w.window_end_ns \in Nat /\ w.window_zero_buffer_ns \in Nat
  BY DEF WindowState, Word
<1>3. start <= u /\ w.window_zero_buffer_ns <= Lesser(u, w.window_end_ns) - start
  BY <1>1, <1>2 DEF Lesser
<1> QED
  BY <1>1, <1>3 DEF WindowFits

(* The idle time up to now fits.                                            *)
LEMMA AccountedFits ==
  ASSUME SoundInv
  PROVE  WindowFits(AccountIdle(window_state, now, AtZero), now)
<1> DEFINE w == window_state
<1>1. /\ w \in WindowState /\ now \in Word /\ now \in Nat
      /\ w.window_end_ns \in Nat /\ w.window_zero_buffer_ns \in Nat
      /\ Updated \in Nat /\ Updated <= now
  BY StartTypes DEF SoundInv, StartInv, Updated, WindowState, Word
<1>2. AtZero \in Nat /\ AtZero <= now - Updated
  BY <1>1, StartTypes, StartAtZero DEF SoundInv, Updated
<1>3. CASE w.is_window_active = 1
  <2>1. PICK start \in {w.window_end_ns, w.window_end_ns - WindowNs(Config)} :
          /\ start \in Nat /\ start <= Updated
          /\ w.window_zero_buffer_ns <= Lesser(Updated, w.window_end_ns) - start
    BY <1>3 DEF SoundInv, WindowFits
  <2>2. start <= w.window_end_ns /\ start <= now
    BY <1>1, <2>1 DEF Lesser
  <2> QED
    BY <1>1, <1>2, <1>3, <2>1, <2>2, IdleCredited DEF SoundInv, WindowFits
<1>4. CASE w.is_window_active # 1
  BY <1>4 DEF AccountIdle, WindowFits
<1> QED
  BY <1>3, <1>4

(* So does that of a window that begins now.                                *)
LEMMA NewFits ==
  ASSUME SoundInv, NEW w, w.window_end_ns = WindowEnd(params, now),
         w.window_zero_buffer_ns = 0, w.window_count \in 1 .. RoundsOf(Config)
  PROVE  WindowFits(w, now)
<1>1. /\ now \in Nat /\ now <= MaxTime /\ MaxTime \in Nat
      /\ params \in {ZeroParams, Config} /\ WindowNs(Config) \in Nat
      /\ MaxTime + WindowNs(Config) < WordMod /\ WordMod \in Nat
  BY StartTypes, StartConstants, ConfigFacts, StartupAssumption DEF SoundInv, StartInv, TypeOK
<1>2. w.window_end_ns = now + WindowNs(params)
  <2>1. WindowNs(params) \in {0, WindowNs(Config)}
    BY <1>1, ConfigFacts
  <2>2. now + WindowNs(params) \in Word
    BY <1>1, <2>1 DEF Word
  <2> QED
    BY <2>2, U64Exact DEF WindowEnd
<1>3. CASE params = Config
  <2>1. /\ now = w.window_end_ns - WindowNs(Config)
        /\ 0 <= Lesser(now, w.window_end_ns) - now
    BY <1>1, <1>2, <1>3 DEF Lesser
  <2> QED
    BY <1>1, <2>1 DEF WindowFits
<1>4. CASE params = ZeroParams
  <2>1. now = w.window_end_ns /\ 0 <= Lesser(now, w.window_end_ns) - now
    BY <1>1, <1>2, <1>4, ConfigFacts DEF Lesser
  <2> QED
    BY <1>1, <2>1 DEF WindowFits
<1> QED
  BY <1>1, <1>3, <1>4

LEMMA PacketWindowFits ==
  ASSUME SoundInv
  PROVE  LET accounted == AccountIdle(window_state, now, AtZero)
             window == AdjustedWindow(params, accounted, now)
         IN  /\ WindowFits(window, now)
             /\ WindowFits(OpenWindow(params, window, now), now)
<1> DEFINE w == AccountIdle(window_state, now, AtZero)
           window == AdjustedWindow(params, w, now)
           open == OpenWindow(params, window, now)
<1>1. w \in WindowState /\ WindowFits(w, now)
  BY AccountedFits, StartTypes, StartAtZero, AccountIdleType DEF SoundInv
<1> HIDE DEF w
<1>2. WindowFits(window, now)
  <2>1. CASE ~ Expired(w, now)
    BY <1>1, <2>1 DEF AdjustedWindow
  <2>2. CASE Expired(w, now) /\ ~ (w.window_zero_buffer_ns = 0
                                   /\ w.window_count < params.windows_considered)
    BY <1>1, <2>2 DEF AdjustedWindow, AdjustWindow, WindowFits, WindowState
  <2>3. CASE Expired(w, now) /\ w.window_zero_buffer_ns = 0
             /\ w.window_count < params.windows_considered
    <3>1. w.window_count \in Nat /\ w.window_count \in 1 .. RoundsOf(Config)
      BY <1>1, <2>3 DEF Expired, WindowFits, WindowState, Word
    <3>2. params = Config
      BY <2>3, <3>1, ConfigFacts, StartTypes DEF SoundInv
    <3>3. w.window_count + 1 \in Word /\ w.window_count + 1 \in 1 .. RoundsOf(Config)
      BY <2>3, <3>1, <3>2, ConfigFacts, StartConstants DEF RateLimitParams, Word
    <3>4. window = [w EXCEPT !.window_count = w.window_count + 1,
                             !.window_end_ns = WindowEnd(params, now)]
      BY <2>3, <3>3, U64Exact DEF AdjustedWindow, AdjustWindow
    <3>5. /\ window.window_end_ns = WindowEnd(params, now)
          /\ window.window_zero_buffer_ns = 0
          /\ window.window_count \in 1 .. RoundsOf(Config)
      BY <1>1, <2>3, <3>3, <3>4 DEF WindowState
    <3> QED
      BY <3>5, NewFits
  <2> QED
    BY <2>1, <2>2, <2>3
<1> HIDE DEF window
<1>3. WindowFits(open, now)
  <2>1. CASE window.is_window_active = 1
    BY <1>2, <2>1 DEF OpenWindow
  <2>2. CASE window.is_window_active # 1
    <3>1. /\ open.window_end_ns = WindowEnd(params, now)
          /\ open.window_zero_buffer_ns = 0
          /\ open.window_count \in 1 .. RoundsOf(Config)
      BY <2>2, ConfigFacts DEF OpenWindow
    <3> HIDE DEF open
    <3> QED
      BY <3>1, NewFits
  <2> QED
    BY <2>1, <2>2
<1> QED
  BY <1>2, <1>3 DEF w, window

(* Under the configuration the expiry of a window, whenever it was opened,  *)
(* keeps the thresholds in range.                                           *)
LEMMA PacketThresholds ==
  ASSUME SoundInv, main \in {"stats", "running"}
  PROVE  LET accounted == AccountIdle(window_state, now, AtZero)
         IN  ThresholdsWithin(AdjustedBuffer(params, buffer_state, accounted, now))
<1> DEFINE w == AccountIdle(window_state, now, AtZero)
           s == Deplete(params, buffer_state, Elapsed(buffer_state, now))
           r == AdjustedBuffer(params, buffer_state, w, now)
<1>1. params = Config /\ Usable(Config) /\ Config \in RateLimitParams
  BY StartupAssumption DEF SoundInv, Configured, Usable
<1>2. w \in WindowState /\ WindowFits(w, now)
  BY AccountedFits, StartTypes, StartAtZero, AccountIdleType DEF SoundInv
<1>3. s \in BufferState /\ ThresholdsWithin(s)
  <2>1. s \in BufferState
    BY StartTypes, ElapsedType, DepleteType DEF SoundInv
  <2>2. /\ s.current_threshold_mtu = buffer_state.current_threshold_mtu
        /\ s.ssthresh_mtu = buffer_state.ssthresh_mtu
    BY StartTypes DEF SoundInv, Deplete, BufferState
  <2> QED
    BY <2>1, <2>2 DEF SoundInv, ThresholdsWithin
<1>4. r = IF Expired(w, now) THEN AdjustState(Config, s, w) ELSE s
  BY <1>1 DEF AdjustedBuffer
<1> SUFFICES ThresholdsWithin(r)
  OBVIOUS
<1> HIDE DEF w, s, r
<1>5. CASE ~ Expired(w, now)
  BY <1>3, <1>4, <1>5
<1>6. CASE Expired(w, now) /\ w.window_zero_buffer_ns > 0
  <2>1. w.window_count \in 1 .. RoundsOf(Config)
    BY <1>2, <1>6 DEF Expired, WindowFits
  <2>2. w.window_zero_buffer_ns \in 1 .. WindowNs(Config)
    <3>1. PICK start \in {w.window_end_ns, w.window_end_ns - WindowNs(Config)} :
            /\ start \in Nat
            /\ w.window_zero_buffer_ns <= Lesser(now, w.window_end_ns) - start
      BY <1>2, <1>6 DEF Expired, WindowFits
    <3>2. now \in Nat /\ w.window_end_ns \in Nat /\ w.window_zero_buffer_ns \in Nat
      BY <1>2, StartTypes DEF SoundInv, WindowState, Word
    <3> QED
      BY <1>6, <3>1, <3>2, ConfigFacts DEF Lesser
  <2>3. RaisedThreshold(Config, s, w)
          \in s.current_threshold_mtu .. Config.max_threshold_mtu
    BY <1>1, <1>2, <1>3, <2>1, <2>2, RaisedInRange DEF ThresholdsWithin
  <2>4. Within(Config, RaisedThreshold(Config, s, w))
    BY <1>1, <1>3, <2>3, UsableTypes DEF Within, ThresholdsWithin
  <2>5. Within(Config, RaisedSsthresh(Config, s, w))
    BY <1>1, <1>2, <1>3, <2>3, RaisedSsthreshInRange DEF ThresholdsWithin
  <2> QED
    BY <1>3, <1>4, <1>6, <2>4, <2>5 DEF AdjustState, ThresholdsWithin, BufferState
<1>7. CASE Expired(w, now) /\ ~ (w.window_zero_buffer_ns > 0)
  <2>1. Within(Config, LoweredThreshold(Config, s))
    BY <1>1, <1>3, LoweredInRange DEF ThresholdsWithin
  <2> QED
    BY <1>3, <1>4, <1>7, <2>1 DEF AdjustState, ThresholdsWithin, BufferState
<1> QED
  BY <1>5, <1>6, <1>7

LEMMA SoundInit == Init => SoundInv
BY StartInit DEF Init, ZeroWindow, SoundInv, WindowFits

LEMMA SoundNext == SoundInv /\ [Next]_svars => SoundInv'
<1> SUFFICES ASSUME SoundInv, [Next]_svars PROVE SoundInv'
  OBVIOUS
<1>0. /\ StartInv' /\ StartInv
      /\ now \in Nat /\ Updated \in Nat /\ Updated <= now
      /\ buffer_state.last_update_ns \in Nat /\ now # 0
      /\ window_state \in WindowState
  BY StartNext, StartTypes DEF SoundInv, StartInv, Updated
<1>1. ASSUME NEW i \in Interfaces, PutInterface(i)
      PROVE  SoundInv'
  BY <1>0, <1>1 DEF PutInterface, SoundInv, maps, Configured, Updated, WindowFits, ThresholdsWithin
<1>2. ASSUME NEW i \in Interfaces, AttachXDP(i)
      PROVE  SoundInv'
  BY <1>0, <1>2 DEF AttachXDP, SoundInv, maps, Configured, Updated, WindowFits, ThresholdsWithin
<1>3. ASSUME Fail
      PROVE  SoundInv'
  BY <1>0, <1>3 DEF Fail, SoundInv, maps, Configured, Updated, WindowFits, ThresholdsWithin
<1>4. ASSUME ReadStartTime
      PROVE  SoundInv'
  BY <1>0, <1>4 DEF ReadStartTime, SoundInv, maps, Configured, Updated, WindowFits, ThresholdsWithin
<1>5. ASSUME UpdateConfig
      PROVE  SoundInv'
  BY <1>0, <1>5 DEF UpdateConfig, SoundInv, Configured, Updated, WindowFits, ThresholdsWithin
<1>6. ASSUME UpdateBufferState
      PROVE  SoundInv'
  <2>1. /\ Updated' = now /\ UNCHANGED <<window_state, params>>
        /\ main = "buffer" /\ main' = "stats"
    BY <1>6 DEF UpdateBufferState, Updated
  <2>2. WindowFits(window_state, now)
    BY <1>0, FitsLater DEF SoundInv
  <2>3. ThresholdsWithin(buffer_state')
    BY <1>6, ConfigFacts DEF UpdateBufferState, ThresholdsWithin
  <2>4. WindowFits(window_state, Updated)'
    BY <2>1, <2>2 DEF WindowFits
  <2>5. ThresholdsWithin(buffer_state)'
    BY <2>3 DEF ThresholdsWithin
  <2> QED
    BY <1>0, <2>1, <2>4, <2>5 DEF SoundInv, Configured
<1>7. ASSUME UpdateThroughputStats
      PROVE  SoundInv'
  BY <1>0, <1>7 DEF UpdateThroughputStats, SoundInv, Configured, Updated, WindowFits, ThresholdsWithin
<1>8. ASSUME NEW i \in Interfaces, NEW size \in PacketBits, Packet(i, size)
      PROVE  SoundInv'
  <2> DEFINE accounted == AccountIdle(window_state, now, AtZero)
             buffer == AdjustedBuffer(params, buffer_state, accounted, now)
             window == AdjustedWindow(params, accounted, now)
  <2>1. WindowFits(window, now) /\ WindowFits(OpenWindow(params, window, now), now)
    BY PacketWindowFits
  <2>2. main \in {"stats", "running"} => ThresholdsWithin(buffer)
    BY PacketThresholds
  <2>3. buffer \in BufferState
    <3>1. accounted \in WindowState
      BY <1>0, StartTypes, StartAtZero, AccountIdleType
    <3>2. Deplete(params, buffer_state, Elapsed(buffer_state, now)) \in BufferState
      BY <1>0, StartTypes, ElapsedType, DepleteType
    <3> QED
      BY <1>0, <3>1, <3>2, StartTypes, AdjustStateType DEF AdjustedBuffer
  <2> HIDE DEF accounted, buffer, window
  <2>4. /\ UNCHANGED <<main, params, now>>
        /\ i \in allowed_interfaces
        /\ \/ /\ buffer_state' = [buffer EXCEPT !.last_update_ns = now]
              /\ window_state' = OpenWindow(params, window, now)
           \/ /\ buffer_state' =
                   [buffer EXCEPT
                      !.current_buffer_bits = U64(buffer.current_buffer_bits + size),
                      !.last_update_ns = now]
              /\ window_state' = window
    BY <1>0, <1>8 DEF Packet, StartInv, accounted, buffer, window
  <2>5. /\ buffer_state'.last_update_ns = now
        /\ buffer_state'.current_threshold_mtu = buffer.current_threshold_mtu
        /\ buffer_state'.ssthresh_mtu = buffer.ssthresh_mtu
    BY <2>3, <2>4 DEF BufferState
  <2>6. WindowFits(window_state', now)
    BY <2>1, <2>4
  <2>7. Updated' = now
    BY <1>0, <2>4, <2>5 DEF Updated
  <2>8. WindowFits(window_state, Updated)'
    BY <2>6, <2>7 DEF WindowFits
  <2>9. main' \in {"stats", "running"} => ThresholdsWithin(buffer_state)'
    BY <2>2, <2>4, <2>5 DEF ThresholdsWithin
  <2> QED
    BY <1>0, <2>4, <2>8, <2>9 DEF SoundInv, Configured
<1>9. ASSUME Tick
      PROVE  SoundInv'
  <2>1. /\ Updated' \in Nat /\ Updated <= Updated'
        /\ UNCHANGED <<main, params, window_state, buffer_state>>
    BY <1>0, <1>9 DEF Tick, maps, Updated
  <2>2. WindowFits(window_state, Updated')
    BY <1>0, <2>1, FitsLater DEF SoundInv
  <2>3. WindowFits(window_state, Updated)'
    BY <2>1, <2>2 DEF WindowFits
  <2> QED
    BY <1>0, <2>1, <2>3 DEF SoundInv, Configured, ThresholdsWithin
<1>10. CASE UNCHANGED svars
  BY <1>0, <1>10 DEF svars, maps, SoundInv, Configured, Updated, WindowFits, ThresholdsWithin
<1> QED
  BY <1>1, <1>2, <1>3, <1>4, <1>5, <1>6, <1>7, <1>8, <1>9, <1>10 DEF Next

(* However far the thresholds strayed while the program ran without a       *)
(* configuration, and whatever window is left from then, the buffer is      *)
(* bounded at all times and the thresholds are in range once main has       *)
(* written them, for good.                                                  *)
THEOREM SoundFromConfiguration == Spec => []SoundOnceConfigured
<1>1. SoundInv => SoundOnceConfigured
  BY DEF SoundInv, StartInv, SoundOnceConfigured, ThresholdsWithin, Within, Limit
<1> QED
  BY <1>1, SoundInit, SoundNext, PTL DEF Spec
=============================================================================
