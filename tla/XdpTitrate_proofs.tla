------------------------- MODULE XdpTitrate_proofs --------------------------
(***************************************************************************)
(* Proofs about the packet handler and about the meter at its output, for  *)
(* every value of its parameters.  Last, the handler implements the link   *)
(* that is drained at every tick, as long as no pause between two packets  *)
(* makes elapsed_ns * rate_bps wrap.                                       *)
(***************************************************************************)
EXTENDS TitrateMeter, XdpTitrateLink, TitrateOps_proofs

-----------------------------------------------------------------------------
(* The inductive invariant: the four invariants of the handler need each    *)
(* other.  A raise keeps the threshold above its minimum only because the   *)
(* idle time of a window fits in the window, which rests on the clocks.     *)
IInv ==
  /\ TypeOK
  /\ BufferBounded
  /\ ThresholdInRange
  /\ IdleWithinWindow
  /\ ClocksAndRounds
  /\ IdleWithinUptime

(* The constants as the handler reads them, all numbers.                    *)
LEMMA ConstantTypes ==
  /\ WordMod \in Nat \ {0} /\ NsPerSec \in Nat \ {0}
  /\ MtuBits \in Nat \ {0} /\ FixedPoint \in Nat \ {0}
  /\ RateBps \in Nat \ {0}
  /\ MinThresholdMtu \in Nat \ {0} /\ MaxThresholdMtu \in Nat \ {0}
  /\ DecreaseConstant \in Nat /\ DecreaseConstant <= MinThresholdMtu
  /\ InitialThresholdMtu \in MinThresholdMtu .. MaxThresholdMtu
  /\ MinThresholdMtu <= MaxThresholdMtu
  /\ MaxRounds \in Nat \ {0} /\ WindowsConsidered <= MaxRounds
  /\ WindowsConsidered \in Nat
  /\ SsthreshMultiplier \in Nat /\ SsthreshMultiplier >= FixedPoint
  /\ MaxTime \in Nat \ {0}
  /\ WindowNs(params) \in Nat
  /\ MaxTime + WindowNs(params) < WordMod
<1>1. U64(WindowDurationMs * NsPerSec) \in Nat
  BY U64Type, OpsAssumption, ParamsAssumption DEF Word
<1>2. WindowNs(params) \in Nat
  BY <1>1, DivBelow, OpsAssumption DEF WindowNs, params
<1>3. QED
  BY <1>2, OpsAssumption, ParamsAssumption, EnvironmentAssumption,
     RangeAssumption DEF Word, MaxRounds, Greater

(* Elapsed time is exact: the clock never runs behind the last update.      *)
LEMMA ElapsedExact ==
  ASSUME IInv
  PROVE  /\ ElapsedNow \in Nat
         /\ ElapsedNow = IF buffer_state.last_update_ns = 0
                         THEN 0 ELSE now - buffer_state.last_update_ns
<1>1. now - buffer_state.last_update_ns \in Word
  BY ConstantTypes DEF IInv, TypeOK, BufferState, ClocksAndRounds, Word
<1>2. QED
  BY <1>1, U64Exact DEF ElapsedNow, Elapsed, Word

(* The idle time since the last update is a part of the time since then,    *)
(* even when elapsed_ns * rate_bps wraps.                                   *)
LEMMA AtZeroBounded ==
  ASSUME IInv
  PROVE  AtZero \in Nat /\ AtZero <= ElapsedNow
<1> DEFINE bits == buffer_state.current_buffer_bits
<1>1. bits \in Nat /\ bits <= MaxThresholdMtu * MtuBits
  BY ConstantTypes DEF IInv, TypeOK, BufferState, BufferBounded, Word
<1>2. ElapsedNow \in Word
  BY ElapsedExact, ConstantTypes
     DEF IInv, TypeOK, BufferState, ClocksAndRounds, Word
<1>3. bits * NsPerSec < WordMod
  <2>1. bits * NsPerSec <= (MaxThresholdMtu * MtuBits) * NsPerSec
    BY <1>1, ConstantTypes
  <2>2. QED
    BY <2>1, <1>1, ConstantTypes, RangeAssumption
<1>4. params.rate_bps \in Word
  BY ParamsAssumption DEF params
<1>5. QED
  BY <1>1, <1>2, <1>3, <1>4, TimeAtZeroBounded DEF AtZero, Word

(* Depleting the buffer never makes it longer, nor negative.                *)
LEMMA DepletedBounded ==
  ASSUME IInv
  PROVE  DepletedBits(params, buffer_state, ElapsedNow)
           \in 0 .. buffer_state.current_buffer_bits
<1>1. buffer_state.current_buffer_bits \in Nat /\ params.rate_bps \in Word
  BY ParamsAssumption DEF IInv, TypeOK, BufferState, Word, params
<1>2. ElapsedNow \in Word
  BY ElapsedExact, ConstantTypes
     DEF IInv, TypeOK, BufferState, ClocksAndRounds, Word
<1>3. QED
  BY <1>1, <1>2, DepletedBelow

(* The window after the idle time up to now has been credited to it.        *)
LEMMA AccountedBounded ==
  ASSUME IInv
  PROVE  /\ AccountedWindow \in WindowState
         /\ AccountedWindow.is_window_active = window_state.is_window_active
         /\ AccountedWindow.window_end_ns = window_state.window_end_ns
         /\ AccountedWindow.window_count = window_state.window_count
         /\ window_state.is_window_active = 1 =>
              /\ RoundStart <= now
              /\ AccountedWindow.window_zero_buffer_ns
                   <= Lesser(now, window_state.window_end_ns) - RoundStart
<1> DEFINE last == buffer_state.last_update_ns
           end  == window_state.window_end_ns
<1>0. /\ last \in Nat /\ end \in Nat /\ window_state \in WindowState
      /\ now \in Nat /\ now \in Word /\ last <= now
  BY ConstantTypes
     DEF IInv, TypeOK, BufferState, WindowState, ClocksAndRounds, Word
<1>1. CASE window_state.is_window_active # 1
  BY <1>1 DEF AccountedWindow, AccountIdle, IInv, TypeOK
<1>2. CASE window_state.is_window_active = 1
  <2>1. /\ RoundStart \in Nat /\ RoundStart > 0 /\ RoundStart <= end
    BY <1>0, <1>2, ConstantTypes DEF RoundStart, IInv, ClocksAndRounds
  <2>2. /\ RoundStart <= last
        /\ window_state.window_zero_buffer_ns <= Lesser(last, end) - RoundStart
    BY <1>2 DEF IInv, IdleWithinWindow
  <2>3. AtZero \in Nat /\ AtZero <= now - last
    BY <1>0, <2>1, <2>2, AtZeroBounded, ElapsedExact
  <2>4. QED
    BY <1>0, <1>2, <2>1, <2>2, <2>3, IdleCredited DEF AccountedWindow
<1>3. QED
  BY <1>1, <1>2

-----------------------------------------------------------------------------
(* The thresholds an expiry computes.                                       *)

InRange(mtu) == mtu \in MinThresholdMtu .. MaxThresholdMtu

(* The program's parameters are usable.                                     *)
LEMMA ParamsUsable ==
  /\ Usable(params) /\ MaxRounds = RoundsOf(params)
  /\ \A mtu : InRange(mtu) <=> Within(params, mtu)
<1>1. MaxRounds = RoundsOf(params)
  BY DEF MaxRounds, RoundsOf, params
<1>2. \A mtu : InRange(mtu) <=> Within(params, mtu)
  BY DEF InRange, Within, params
<1>3. params \in RateLimitParams
  BY ParamsAssumption, ConstantTypes DEF params, RateLimitParams, Word
<1>4. MaxThresholdMtu * (WindowNs(params) * RoundsOf(params) * FixedPoint) < WordMod
  BY <1>1, RangeAssumption
<1>5. QED
  BY <1>1, <1>2, <1>3, <1>4, ConstantTypes, RangeAssumption DEF Usable, params

-----------------------------------------------------------------------------
(* What the handler holds when it reaches the admission test.               *)

(* The buffer is depleted and the thresholds adjusted within their bounds.  *)
LEMMA CurrentBufferBounded ==
  ASSUME IInv
  PROVE  /\ CurrentBuffer \in BufferState
         /\ CurrentBuffer.current_buffer_bits
              \in 0 .. MaxThresholdMtu * MtuBits
         /\ InRange(CurrentBuffer.current_threshold_mtu)
         /\ InRange(CurrentBuffer.ssthresh_mtu)
<1> DEFINE s == Deplete(params, buffer_state, ElapsedNow)
           w == AccountedWindow
<1>0. buffer_state \in BufferState
  BY DEF IInv, TypeOK
<1>1. /\ s \in BufferState
      /\ s.current_buffer_bits \in 0 .. MaxThresholdMtu * MtuBits
      /\ s.current_threshold_mtu = buffer_state.current_threshold_mtu
      /\ s.ssthresh_mtu = buffer_state.ssthresh_mtu
      /\ s.last_update_ns = buffer_state.last_update_ns
  <2>1. buffer_state.current_buffer_bits \in 0 .. MaxThresholdMtu * MtuBits
    BY <1>0, ConstantTypes DEF IInv, BufferBounded, BufferState, Word
  <2>2. QED
    BY <1>0, <2>1, DepletedBounded, ConstantTypes
       DEF Deplete, BufferState, Word
<1>2. InRange(s.current_threshold_mtu) /\ InRange(s.ssthresh_mtu)
  BY <1>1 DEF InRange, IInv, ThresholdInRange
<1>3. ASSUME NEW mtu, InRange(mtu)
      PROVE  mtu \in Word
  BY <1>3, ConstantTypes, ParamsAssumption DEF InRange, Word
<1>4. CASE ~ Expired(w, now)
  BY <1>1, <1>2, <1>4 DEF CurrentBuffer, AdjustedBuffer, ElapsedNow
<1>5. CASE Expired(w, now)
  <2>1. CurrentBuffer = AdjustState(params, s, w)
    BY <1>5 DEF CurrentBuffer, AdjustedBuffer, ElapsedNow
  <2>2. window_state.is_window_active = 1 /\ w \in WindowState
    BY <1>5, AccountedBounded DEF Expired
  <2>3. CASE w.window_zero_buffer_ns > 0
    <3>1. w.window_count \in 1 .. MaxRounds
      BY <2>2, AccountedBounded DEF IInv, ClocksAndRounds
    <3>2. w.window_zero_buffer_ns \in 1 .. WindowNs(params)
      <4>1. w.window_zero_buffer_ns
              <= Lesser(now, window_state.window_end_ns) - RoundStart
        BY <2>2, AccountedBounded
      <4>2. w.window_zero_buffer_ns \in Nat
        BY <2>2 DEF WindowState, Word
      <4>3. window_state.window_end_ns \in Nat /\ now \in Nat
        BY DEF IInv, TypeOK, WindowState, Word
      <4>4. QED
        BY <2>3, <4>1, <4>2, <4>3, ConstantTypes DEF Lesser, RoundStart
    <3>3. RaisedThreshold(params, s, w)
            \in s.current_threshold_mtu .. MaxThresholdMtu
      BY <1>1, <1>2, <2>2, <3>1, <3>2, RaisedInRange, ParamsUsable DEF params
    <3>4. InRange(RaisedThreshold(params, s, w))
      BY <1>2, <3>3, ConstantTypes DEF InRange
    <3>5. InRange(RaisedSsthresh(params, s, w))
      BY <1>1, <1>2, <2>2, <3>3, RaisedSsthreshInRange, ParamsUsable DEF params
    <3>6. CurrentBuffer =
            [s EXCEPT !.current_threshold_mtu = RaisedThreshold(params, s, w),
                      !.ssthresh_mtu = RaisedSsthresh(params, s, w)]
      BY <2>1, <2>3 DEF AdjustState
    <3>7. QED
      BY <1>1, <1>3, <3>4, <3>5, <3>6 DEF BufferState
  <2>4. CASE ~ (w.window_zero_buffer_ns > 0)
    <3>1. InRange(LoweredThreshold(params, s))
      BY <1>1, <1>2, LoweredInRange, ParamsUsable
    <3>2. CurrentBuffer =
            [s EXCEPT !.current_threshold_mtu = LoweredThreshold(params, s)]
      BY <2>1, <2>4 DEF AdjustState
    <3>3. QED
      BY <1>1, <1>2, <1>3, <3>1, <3>2 DEF BufferState
  <2>5. QED
    BY <2>3, <2>4
<1>6. QED
  BY <1>4, <1>5

(* What a window must satisfy once the handler has stored its time: the     *)
(* invariants on windows, with now as the time of the last update.          *)
WindowSound(w) ==
  /\ w \in WindowState
  /\ w.is_window_active = 1 =>
       /\ WindowNs(params) < w.window_end_ns
       /\ w.window_count \in 1 .. MaxRounds
       /\ w.window_end_ns - WindowNs(params) <= now
       /\ w.window_zero_buffer_ns
            <= Lesser(now, w.window_end_ns)
                 - (w.window_end_ns - WindowNs(params))

(* Timestamps in the future are exact: the end of a window does not wrap.   *)
LEMMA WindowEndExact ==
  ASSUME IInv
  PROVE  /\ WindowEnd(params, now) = now + WindowNs(params)
         /\ WindowEnd(params, now) \in Word
         /\ now \in Nat \ {0}
<1>1. now + WindowNs(params) \in Word /\ now \in Nat \ {0}
  BY ConstantTypes DEF IInv, TypeOK, Word
<1>2. QED
  BY <1>1, U64Exact DEF WindowEnd

(* The window that reaches the admission test, expired or not, is sound.    *)
LEMMA CurrentWindowSound ==
  ASSUME IInv
  PROVE  WindowSound(CurrentWindow)
<1> DEFINE w == AccountedWindow
<1>1. WindowSound(w)
  BY AccountedBounded DEF WindowSound, RoundStart, IInv, ClocksAndRounds
<1>2. CASE ~ Expired(w, now)
  BY <1>1, <1>2 DEF CurrentWindow, AdjustedWindow
<1>3. CASE Expired(w, now)
  <2>1. CurrentWindow = AdjustWindow(params, w, now)
    BY <1>3 DEF CurrentWindow, AdjustedWindow
  <2>2. w \in WindowState /\ w.window_count \in 1 .. MaxRounds
    BY <1>1, <1>3 DEF WindowSound, Expired
  <2>3. CASE w.window_zero_buffer_ns = 0
             /\ w.window_count < WindowsConsidered
    <3>1. U64(w.window_count + 1) = w.window_count + 1
      BY <2>2, <2>3, U64Exact, ConstantTypes, ParamsAssumption DEF Word
    <3>2. CurrentWindow = [w EXCEPT !.window_count = w.window_count + 1,
                                    !.window_end_ns = WindowEnd(params, now)]
      BY <2>1, <2>3, <3>1 DEF AdjustWindow, params
    <3>3. w.window_count + 1 \in Word /\ w.window_count + 1 \in 1 .. MaxRounds
      BY <2>2, <2>3, ConstantTypes, ParamsAssumption DEF Word
    <3>4. /\ CurrentWindow \in WindowState
          /\ CurrentWindow.window_end_ns = now + WindowNs(params)
          /\ CurrentWindow.window_count \in 1 .. MaxRounds
          /\ CurrentWindow.window_zero_buffer_ns = 0
      BY <2>2, <2>3, <3>2, <3>3, WindowEndExact DEF WindowState
    <3>5. QED
      BY <3>4, WindowEndExact, ConstantTypes DEF WindowSound, Lesser
  <2>4. CASE ~ (w.window_zero_buffer_ns = 0
                /\ w.window_count < WindowsConsidered)
    <3>1. CurrentWindow = [w EXCEPT !.is_window_active = 0]
      BY <2>1, <2>4 DEF AdjustWindow, params
    <3>2. QED
      BY <2>2, <3>1 DEF WindowSound, WindowState
  <2>5. QED
    BY <2>3, <2>4
<1>4. QED
  BY <1>2, <1>3

(* So is the window a drop leaves behind.                                   *)
LEMMA OpenedWindowSound ==
  ASSUME IInv
  PROVE  WindowSound(OpenWindow(params, CurrentWindow, now))
<1>1. 0 \in Word /\ 1 \in Word
  BY WindowEndExact, ConstantTypes DEF Word
<1>2. QED
  BY <1>1, CurrentWindowSound, WindowEndExact, ConstantTypes
     DEF OpenWindow, WindowSound, WindowState, Lesser
-----------------------------------------------------------------------------
(* The invariant is inductive.                                              *)

(* The configured program satisfies the invariant.                          *)
LEMMA InitIInv == Init => IInv
<1> SUFFICES ASSUME Init PROVE IInv
  OBVIOUS
<1>1. /\ 0 \in Word /\ InitialThresholdMtu \in Word
      /\ InRange(InitialThresholdMtu) /\ 1 \in 1 .. MaxTime
  BY ConstantTypes, ParamsAssumption DEF Word, InRange
<1>2. TypeOK
  BY <1>1 DEF Init, TypeOK, BufferState, WindowState, ZeroWindow, Verdicts,
     ThroughputStats, ZeroStats
<1>3. BufferBounded /\ ThresholdInRange
  BY <1>1, ConstantTypes DEF Init, BufferBounded, ThresholdInRange, InRange
<1>4. IdleWithinWindow /\ ClocksAndRounds /\ IdleWithinUptime
  BY DEF Init, ZeroWindow, ZeroStats, IdleWithinWindow, ClocksAndRounds,
     IdleWithinUptime
<1>5. QED
  BY <1>2, <1>3, <1>4 DEF IInv

(* The statistics stay within the uptime.                                   *)
LEMMA StatsSound ==
  ASSUME IInv, CountStats
  PROVE  /\ throughput_stats' \in ThroughputStats
         /\ throughput_stats'.program_start_ns \in 1 .. now
         /\ throughput_stats'.total_zero_buffer_ns
              <= now - throughput_stats'.program_start_ns
<1> DEFINE start == throughput_stats.program_start_ns
           total == throughput_stats.total_zero_buffer_ns
           last == buffer_state.last_update_ns
<1>1. /\ start \in Nat /\ total \in Nat /\ last \in Nat
      /\ start <= last /\ last <= now /\ total <= last - start
      /\ start = 0 => last = 0
      /\ now \in Nat \ {0} /\ now \in Word /\ WordMod \in Nat
      /\ start \in Word
  BY ConstantTypes
     DEF IInv, TypeOK, BufferState, ThroughputStats, ClocksAndRounds,
         IdleWithinUptime, Word
<1>2. /\ AtZero \in Nat
      /\ AtZero <= IF last = 0 THEN 0 ELSE now - last
  BY AtZeroBounded, ElapsedExact
<1>3. total + AtZero \in Word
  BY <1>1, <1>2 DEF Word
<1>4. throughput_stats' =
        [program_start_ns |-> IF start = 0 THEN now ELSE start,
         total_zero_buffer_ns |-> total + AtZero]
  BY <1>3, U64Exact DEF CountStats, Counted
<1>5. QED
  BY <1>1, <1>2, <1>3, <1>4 DEF ThroughputStats

(* A data packet, dropped or passed: the buffer and the window it leaves    *)
(* are sound, and both are dated now.                                       *)
LEMMA PacketStep ==
  ASSUME IInv, CountStats, UNCHANGED <<avg_queue_bits, now>>,
         verdict' \in Verdicts,
         NEW bits \in 0 .. MaxThresholdMtu * MtuBits,
         bits \in Word,
         buffer_state' = [CurrentBuffer EXCEPT !.current_buffer_bits = bits,
                                               !.last_update_ns = now],
         WindowSound(window_state')
  PROVE  IInv'
<1>1. now \in Word /\ now \in Nat \ {0}
  BY ConstantTypes DEF IInv, TypeOK, Word
<1>2. /\ buffer_state' \in BufferState
      /\ buffer_state'.last_update_ns = now
      /\ buffer_state'.current_buffer_bits = bits
      /\ InRange(buffer_state'.current_threshold_mtu)
      /\ InRange(buffer_state'.ssthresh_mtu)
  BY <1>1, CurrentBufferBounded DEF BufferState
<1>3. TypeOK'
  BY <1>2, StatsSound DEF IInv, TypeOK, WindowSound
<1>4. BufferBounded' /\ ThresholdInRange'
  BY <1>2, ConstantTypes DEF BufferBounded, ThresholdInRange, InRange
<1>5. IdleWithinWindow'
  BY <1>2 DEF WindowSound, IdleWithinWindow, RoundStart
<1>6. ClocksAndRounds' /\ IdleWithinUptime'
  BY <1>1, <1>2, StatsSound DEF WindowSound, ClocksAndRounds, IdleWithinUptime
<1>7. QED
  BY <1>3, <1>4, <1>5, <1>6 DEF IInv

(* Every packet, every tick and every publication preserves it.             *)
LEMMA NextIInv == IInv /\ [Next]_vars => IInv'
<1> SUFFICES ASSUME IInv, [Next]_vars PROVE IInv'
  OBVIOUS
<1>1. ASSUME NEW i \in Interfaces, NEW size \in PacketBits, Drop(i, size)
      PROVE  IInv'
  <2>1. WindowSound(window_state')
    BY <1>1, OpenedWindowSound DEF Drop
  <2>2. CurrentBuffer.current_buffer_bits \in 0 .. MaxThresholdMtu * MtuBits
        /\ CurrentBuffer.current_buffer_bits \in Word
    BY CurrentBufferBounded DEF BufferState
  <2>3. buffer_state' =
          [CurrentBuffer EXCEPT
             !.current_buffer_bits = CurrentBuffer.current_buffer_bits,
             !.last_update_ns = now]
    BY <1>1, CurrentBufferBounded DEF Drop, BufferState
  <2>4. QED
    BY <1>1, <2>1, <2>2, <2>3, PacketStep DEF Drop, Verdicts
<1>2. ASSUME NEW i \in Interfaces, NEW size \in PacketBits, Accept(i, size)
      PROVE  IInv'
  <2> DEFINE sum == CurrentBuffer.current_buffer_bits + size
             limit == MaxThresholdMtu * MtuBits
  <2>1. WindowSound(window_state')
    BY <1>2, CurrentWindowSound DEF Accept
  <2>2. size \in Nat /\ limit \in Nat /\ limit + size < WordMod
    BY EnvironmentAssumption, RangeAssumption, ConstantTypes DEF Word
  <2>3. sum \in Word /\ limit \in Word
    BY <2>2, CurrentBufferBounded, ConstantTypes DEF Word
  <2>4. U64(sum) = sum /\ U64(limit) = limit
    BY <2>3, U64Exact
  <2>5. sum <= limit
    <3>1. ~ Exceeds(CurrentBuffer.current_buffer_bits, size, MaxThresholdMtu)
      BY <1>2 DEF Accept, MustDrop, params
    <3> HIDE DEF limit
    <3>2. QED
      BY <2>2, <2>3, <2>4, <3>1, ConstantTypes DEF Exceeds, limit, Word
  <2>6. buffer_state' = [CurrentBuffer EXCEPT !.current_buffer_bits = sum,
                                              !.last_update_ns = now]
    BY <1>2, <2>4 DEF Accept
  <2>7. sum \in 0 .. limit
    BY <2>2, <2>3, <2>5 DEF Word
  <2> HIDE DEF sum
  <2>8. QED
    BY <1>2, <2>1, <2>3, <2>6, <2>7, PacketStep DEF Accept, Verdicts
<1>3. ASSUME NEW i \in Interfaces, NEW kind \in {"runt", "ssh"},
             PassUnaccounted(i, kind)
      PROVE  IInv'
  BY <1>3 DEF PassUnaccounted, IInv, TypeOK, Verdicts, BufferBounded,
     ThresholdInRange, IdleWithinWindow, RoundStart, ClocksAndRounds,
     IdleWithinUptime
<1>4. ASSUME NEW i \in Interfaces, DropUnlisted(i)
      PROVE  IInv'
  BY <1>4 DEF DropUnlisted, IInv, TypeOK, Verdicts, BufferBounded,
     ThresholdInRange, IdleWithinWindow, RoundStart, ClocksAndRounds,
     IdleWithinUptime
<1>5. ASSUME NEW avg \in AvgBits, PublishAvg(avg)
      PROVE  IInv'
  BY <1>5, EnvironmentAssumption DEF PublishAvg, IInv, TypeOK, BufferBounded,
     ThresholdInRange, IdleWithinWindow, RoundStart, ClocksAndRounds,
     IdleWithinUptime
<1>6. ASSUME Tick
      PROVE  IInv'
  <2>1. now' = now + 1 /\ now' \in 1 .. MaxTime
    BY <1>6, ConstantTypes DEF Tick, IInv, TypeOK
  <2>2. buffer_state.last_update_ns \in Nat /\ now \in Nat
    BY DEF IInv, TypeOK, BufferState, Word
  <2>3. QED
    BY <1>6, <2>1, <2>2 DEF Tick, IInv, TypeOK, BufferBounded,
       ThresholdInRange, IdleWithinWindow, RoundStart, ClocksAndRounds,
       IdleWithinUptime
<1>7. CASE UNCHANGED vars
  BY <1>7 DEF vars, IInv, TypeOK, BufferBounded, ThresholdInRange,
     IdleWithinWindow, RoundStart, ClocksAndRounds, IdleWithinUptime
<1>8. QED
  BY <1>1, <1>2, <1>3, <1>4, <1>5, <1>6, <1>7 DEF Next

-----------------------------------------------------------------------------
(* The inductive invariant holds in every reachable state.                  *)
THEOREM Invariance == Spec => []IInv
BY InitIInv, NextIInv, PTL DEF Spec

(* Every map entry keeps its type: no __u64 field leaves its range.         *)
THEOREM TypeCorrect == Spec => []TypeOK
<1>1. IInv => TypeOK
  BY DEF IInv
<1>2. QED
  BY <1>1, Invariance, PTL

(* The virtual buffer stays below the maximum threshold for any rate, any   *)
(* packet sizes and any averages published by userspace.                    *)
THEOREM BufferStaysBounded == Spec => []BufferBounded
<1>1. IInv => BufferBounded
  BY DEF IInv
<1>2. QED
  BY <1>1, Invariance, PTL

(* No history of windows drives the thresholds out of the configured range. *)
THEOREM ThresholdStaysInRange == Spec => []ThresholdInRange
<1>1. IInv => ThresholdInRange
  BY DEF IInv
<1>2. QED
  BY <1>1, Invariance, PTL

(* Timestamps are never in the future, and a window never lasts more rounds *)
(* than windows_considered allows.                                          *)
THEOREM ClocksStayOrdered == Spec => []ClocksAndRounds
<1>1. IInv => ClocksAndRounds
  BY DEF IInv
<1>2. QED
  BY <1>1, Invariance, PTL

(* The idle time credited to a window fits in the window.                   *)
THEOREM IdleTimeFitsWindow == Spec => []IdleWithinWindow
<1>1. IInv => IdleWithinWindow
  BY DEF IInv
<1>2. QED
  BY <1>1, Invariance, PTL

(* The idle time reported to userspace fits in the program's uptime.        *)
THEOREM IdleTimeFitsUptime == Spec => []IdleWithinUptime
<1>1. IInv => IdleWithinUptime
  BY DEF IInv
<1>2. QED
  BY <1>1, Invariance, PTL

-----------------------------------------------------------------------------
(* The meter.                                                               *)

MeterInv ==
  /\ IInv
  /\ passed_bits \in Nat /\ packets \in Nat
  /\ ConformsToRate

-----------------------------------------------------------------------------
(* What is released from the buffer between two packets.                   *)
Released == buffer_state.current_buffer_bits - CurrentBuffer.current_buffer_bits

(* The elapsed time is a word, and the buffer in ticks of the rate is, too. *)
LEMMA HandlerWords ==
  ASSUME IInv
  PROVE  /\ ElapsedNow \in Word /\ buffer_state.current_buffer_bits \in Nat
         /\ params.rate_bps \in Word \ {0}
         /\ buffer_state.current_buffer_bits * NsPerSec < WordMod
         /\ CurrentBuffer.current_buffer_bits
              = DepletedBits(params, buffer_state, ElapsedNow)
<1> DEFINE bits == buffer_state.current_buffer_bits
<1>1. /\ bits \in Nat /\ bits <= MaxThresholdMtu * MtuBits
      /\ MaxThresholdMtu * MtuBits \in Nat
  BY ConstantTypes DEF IInv, TypeOK, BufferState, BufferBounded, Word
<1>2. bits * NsPerSec <= (MaxThresholdMtu * MtuBits) * NsPerSec
  BY <1>1, TimesMonotone, ConstantTypes
<1>3. (MaxThresholdMtu * MtuBits) * NsPerSec < WordMod
  BY RangeAssumption
<1>4. bits * NsPerSec \in Int /\ (MaxThresholdMtu * MtuBits) * NsPerSec \in Int
  BY <1>1, ConstantTypes
<1>5. ElapsedNow \in Word
  <2>1. /\ ElapsedNow \in Nat /\ ElapsedNow <= now /\ now <= MaxTime
        /\ now \in Nat /\ MaxTime \in Nat /\ MaxTime < WordMod
    BY ElapsedExact, ConstantTypes
    DEF IInv, TypeOK, BufferState, ClocksAndRounds, Word
  <2> QED
    BY <2>1, ConstantTypes DEF Word
<1>6. CurrentBuffer.current_buffer_bits = DepletedBits(params, buffer_state, ElapsedNow)
  BY DEF CurrentBuffer, AdjustedBuffer, AdjustState, Deplete, ElapsedNow, IInv,
     TypeOK, BufferState
<1> QED
  BY <1>1, <1>2, <1>3, <1>4, <1>5, <1>6, ParamsAssumption, ConstantTypes DEF params

LEMMA ReleaseBounded ==
  ASSUME IInv
  PROVE  /\ Released \in Nat
         /\ Released = ReleasedIn(params, buffer_state, ElapsedNow)
         /\ CurrentBuffer.current_buffer_bits \in Nat
         /\ Released * NsPerSec <= ElapsedNow * RateBps
<1>1. Released = ReleasedIn(params, buffer_state, ElapsedNow)
  BY HandlerWords DEF Released, ReleasedIn
<1>2. /\ Released \in Nat
      /\ Released * NsPerSec <= ElapsedNow * params.rate_bps
  BY <1>1, HandlerWords, ReleasedBelow
<1>3. CurrentBuffer.current_buffer_bits \in Nat
  BY HandlerWords, DepletedBounded
<1> QED
  BY <1>1, <1>2, <1>3 DEF params

(* A packet leaves the meter with what was released before it, and moves   *)
(* the handler's time on.                                                  *)
LEMMA MeteredStep ==
  ASSUME IInv, passed_bits \in Nat, NEW i \in AllowedIfs, NEW size \in PacketBits,
         Metered(i, size)
  PROVE  /\ ReleasedBits' = ReleasedBits + Released
         /\ Uptime' = Uptime + ElapsedNow
         /\ Uptime \in Nat /\ ReleasedBits \in Int
         /\ passed_bits' \in Nat
<1> DEFINE bits == buffer_state.current_buffer_bits
           cur == CurrentBuffer.current_buffer_bits
           last == buffer_state.last_update_ns
           start == throughput_stats.program_start_ns
<1>1. /\ bits \in Nat /\ cur \in Nat /\ cur <= MaxThresholdMtu * MtuBits
      /\ CurrentBuffer \in BufferState /\ size \in Nat
      /\ last \in Nat /\ start \in Nat /\ now \in Nat
      /\ start <= last /\ last <= now /\ (start = 0 => last = 0)
  BY CurrentBufferBounded, ReleaseBounded, EnvironmentAssumption
  DEF IInv, TypeOK, BufferState, ThroughputStats, ClocksAndRounds, Word
<1>2. U64(cur + size) = cur + size
  <2>1. MaxThresholdMtu * MtuBits + size < WordMod
    BY RangeAssumption
  <2>2. cur + size \in Word
    <3>1. MaxThresholdMtu * MtuBits \in Nat
      BY ConstantTypes
    <3> QED
      BY <1>1, <2>1, <3>1, ConstantTypes DEF Word
  <2> QED
    BY <2>2, U64Exact
<1>3. /\ passed_bits' - buffer_state'.current_buffer_bits = passed_bits - cur
      /\ passed_bits' \in Nat
      /\ buffer_state'.last_update_ns = now
      /\ CountStats
  <2>1. CASE Accept(i, size) /\ passed_bits' = passed_bits + size
    BY <1>1, <1>2, <2>1 DEF Accept, BufferState
  <2>2. CASE Drop(i, size) /\ UNCHANGED passed_bits
    BY <1>1, <2>2 DEF Drop, BufferState
  <2> QED
    BY <2>1, <2>2 DEF Metered
<1>4. throughput_stats'.program_start_ns = IF start = 0 THEN now ELSE start
  BY <1>3 DEF CountStats, Counted
<1>5. ElapsedNow = IF last = 0 THEN 0 ELSE now - last
  BY ElapsedExact
<1> QED
  BY <1>1, <1>3, <1>4, <1>5 DEF ReleasedBits, Released, Uptime

(* A metered packet keeps the traffic within the rate.                     *)
LEMMA MeteredConforms ==
  ASSUME MeterInv, NEW i \in AllowedIfs, NEW size \in PacketBits,
         Metered(i, size)
  PROVE  ConformsToRate'
<1>1. /\ ReleasedBits' = ReleasedBits + Released
      /\ Uptime' = Uptime + ElapsedNow
      /\ Uptime \in Nat /\ ReleasedBits \in Int
  BY MeteredStep DEF MeterInv
<1>2. /\ Released \in Nat /\ ElapsedNow \in Nat
      /\ Released * NsPerSec <= ElapsedNow * RateBps
  BY ReleaseBounded, ElapsedExact DEF MeterInv
<1>3. ReleasedBits * NsPerSec <= Uptime * RateBps
  BY DEF MeterInv, ConformsToRate
<1>4. /\ (ReleasedBits + Released) * NsPerSec
           = ReleasedBits * NsPerSec + Released * NsPerSec
      /\ (Uptime + ElapsedNow) * RateBps = Uptime * RateBps + ElapsedNow * RateBps
  BY <1>1, <1>2, TimesSum, ConstantTypes
<1>5. /\ ReleasedBits * NsPerSec \in Int /\ Released * NsPerSec \in Int
      /\ Uptime * RateBps \in Int /\ ElapsedNow * RateBps \in Int
  BY <1>1, <1>2, ConstantTypes
<1>6. (ReleasedBits + Released) * NsPerSec <= (Uptime + ElapsedNow) * RateBps
  BY <1>2, <1>3, <1>4, <1>5
<1> QED
  BY <1>1, <1>6 DEF ConformsToRate

LEMMA MeterInitInv == MeterInit => MeterInv
<1> SUFFICES ASSUME MeterInit PROVE MeterInv
  OBVIOUS
<1>1. IInv
  BY InitIInv DEF MeterInit
<1>2. ReleasedBits = 0 /\ Uptime = 0
  BY DEF MeterInit, Init, ReleasedBits, Uptime, ZeroStats
<1> QED
  BY <1>1, <1>2, ConstantTypes DEF MeterInit, MeterInv, ConformsToRate

LEMMA MeterNextInv == MeterInv /\ [MeterNext]_mvars => MeterInv'
<1> SUFFICES ASSUME MeterInv, [MeterNext]_mvars PROVE MeterInv'
  OBVIOUS
<1>1. CASE \E i \in AllowedIfs, size \in PacketBits : Metered(i, size)
  <2>1. PICK i \in AllowedIfs, size \in PacketBits : Metered(i, size)
    BY <1>1
  <2>2. Next
    BY <2>1, EnvironmentAssumption DEF Metered, Next
  <2>3. IInv'
    BY <2>2, NextIInv DEF MeterInv
  <2>4. passed_bits' \in Nat
    BY <2>1, MeteredStep DEF MeterInv
  <2>5. packets' \in Nat
    BY <2>1 DEF MeterInv, Metered
  <2>6. ConformsToRate'
    BY <2>1, MeteredConforms
  <2> QED
    BY <2>3, <2>4, <2>5, <2>6 DEF MeterInv
<1>2. CASE Unmetered
  <2>1. Next
    BY <1>2 DEF Unmetered, Next
  <2>2. IInv'
    BY <2>1, NextIInv DEF MeterInv
  <2>3. UNCHANGED <<buffer_state, throughput_stats, passed_bits, packets>>
    BY <1>2 DEF Unmetered, Tick, PublishAvg, PassUnaccounted, DropUnlisted
  <2> QED
    BY <2>2, <2>3 DEF MeterInv, ConformsToRate, ReleasedBits, Uptime
<1>3. CASE UNCHANGED mvars
  <2>1. IInv'
    BY <1>3, NextIInv DEF MeterInv, mvars
  <2> QED
    BY <1>3, <2>1 DEF MeterInv, ConformsToRate, ReleasedBits, Uptime, mvars, vars
<1> QED
  BY <1>1, <1>2, <1>3 DEF MeterNext

-----------------------------------------------------------------------------
(* The bits passed, less those still buffered, never exceed rate_bps times  *)
(* the time since the first packet, for every configuration in range, every *)
(* packet size and every sequence of arrivals: what the rate limit promises *)
(* of the traffic (xdp_titrate.c 225-262, 376-395).                         *)
THEOREM TrafficConforms == MeterSpec => []ConformsToRate
<1>1. MeterInit => MeterInv
  BY MeterInitInv
<1>2. MeterInv /\ [MeterNext]_mvars => MeterInv'
  BY MeterNextInv
<1>3. MeterInv => ConformsToRate
  BY DEF MeterInv
<1> QED
  BY <1>1, <1>2, <1>3, PTL DEF MeterSpec

-----------------------------------------------------------------------------
(* The lower bound of the rate.  It needs that the product of line 225 does *)
(* not wrap: no pause since the last packet is longer than 184 s at 100     *)
(* Mbps.                                                                    *)
PauseFits == ElapsedNow * RateBps < WordMod

LEMMA BusyBounded ==
  ASSUME IInv, PauseFits
  PROVE  (ElapsedNow - AtZero) * RateBps <= (Released + 1) * NsPerSec
<1>1. ElapsedNow * params.rate_bps < WordMod
  BY DEF PauseFits, params
<1>2. (ElapsedNow - AtZero) * params.rate_bps
        <= (ReleasedIn(params, buffer_state, ElapsedNow) + 1) * NsPerSec
  BY <1>1, HandlerWords, BusyBelow DEF AtZero
<1> QED
  BY <1>2, ReleaseBounded DEF params

(* A metered packet adds that time to the busy time.                       *)
LEMMA MeteredBusy ==
  ASSUME MeterInv, NEW i \in AllowedIfs, NEW size \in PacketBits,
         Metered(i, size)
  PROVE  /\ BusyTime' = BusyTime + (ElapsedNow - AtZero)
         /\ BusyTime \in Int
<1> DEFINE total == throughput_stats.total_zero_buffer_ns
<1>1. Uptime' = Uptime + ElapsedNow /\ Uptime \in Nat
  BY MeteredStep DEF MeterInv
<1>2. /\ total \in Nat /\ total <= Uptime
      /\ AtZero \in Nat /\ AtZero <= ElapsedNow /\ ElapsedNow \in Nat
  BY AtZeroBounded, ElapsedExact
  DEF MeterInv, IInv, TypeOK, ThroughputStats, Word, IdleWithinUptime, Uptime
<1>3. total + AtZero \in Word
  <2>1. Uptime + ElapsedNow <= MaxTime
    BY <1>1, ElapsedExact, ConstantTypes
    DEF MeterInv, IInv, TypeOK, ThroughputStats, BufferState, ClocksAndRounds,
        Word, Uptime
  <2>2. MaxTime < WordMod
    BY ConstantTypes
  <2> QED
    BY <1>1, <1>2, <2>1, <2>2, ConstantTypes DEF Word
<1>4. throughput_stats'.total_zero_buffer_ns = total + AtZero
  <2>1. CountStats
    BY DEF Metered, Accept, Drop
  <2> QED
    BY <1>3, <2>1, U64Exact DEF CountStats, Counted
<1> QED
  BY <1>1, <1>2, <1>4 DEF BusyTime

LEMMA MeteredLosesLittle ==
  ASSUME MeterInv, PauseFits, LosesLessThanABitPerPacket,
         NEW i \in AllowedIfs, NEW size \in PacketBits, Metered(i, size)
  PROVE  LosesLessThanABitPerPacket'
<1> DEFINE busy == ElapsedNow - AtZero
           sent == ReleasedBits + packets
<1>1. /\ ReleasedBits' = ReleasedBits + Released /\ packets' = packets + 1
      /\ ReleasedBits \in Int /\ Released \in Nat /\ packets \in Nat
  BY MeteredStep, ReleaseBounded DEF MeterInv, Metered
<1>2. BusyTime' = BusyTime + busy /\ BusyTime \in Int /\ busy \in Int
  BY MeteredBusy, AtZeroBounded, ElapsedExact DEF MeterInv
<1>3. BusyTime * RateBps <= sent * NsPerSec
  BY DEF LosesLessThanABitPerPacket
<1>4. busy * RateBps <= (Released + 1) * NsPerSec
  BY BusyBounded DEF MeterInv
<1>5. ReleasedBits' + packets' = sent + (Released + 1) /\ sent \in Int
  BY <1>1
<1> HIDE DEF busy, sent
<1>6. /\ (BusyTime + busy) * RateBps = BusyTime * RateBps + busy * RateBps
      /\ (sent + (Released + 1)) * NsPerSec
           = sent * NsPerSec + (Released + 1) * NsPerSec
  BY <1>1, <1>2, <1>5, TimesSum, ConstantTypes
<1>7. /\ BusyTime * RateBps \in Int /\ busy * RateBps \in Int
      /\ sent * NsPerSec \in Int /\ (Released + 1) * NsPerSec \in Int
  BY <1>1, <1>2, <1>5, ConstantTypes
<1>8. (BusyTime + busy) * RateBps <= (sent + (Released + 1)) * NsPerSec
  BY <1>3, <1>4, <1>6, <1>7
<1> QED
  BY <1>2, <1>5, <1>8 DEF LosesLessThanABitPerPacket

(* While no pause makes line 225 wrap, discarding fractions of a bit costs  *)
(* less than a bit per packet, whatever the rate and the packets: the link  *)
(* is not slower than configured (xdp_titrate.c 225, 230-235).              *)
THEOREM LosesLittle == MeterSpec /\ []PauseFits => []LosesLessThanABitPerPacket
<1>1. MeterInit => MeterInv /\ LosesLessThanABitPerPacket
  <2> SUFFICES ASSUME MeterInit PROVE MeterInv /\ LosesLessThanABitPerPacket
    OBVIOUS
  <2>1. ReleasedBits = 0 /\ BusyTime = 0 /\ packets = 0
    BY DEF MeterInit, Init, ReleasedBits, BusyTime, Uptime, ZeroStats
  <2> QED
    BY <2>1, MeterInitInv, ConstantTypes DEF LosesLessThanABitPerPacket
<1>2. MeterInv /\ LosesLessThanABitPerPacket /\ PauseFits /\ [MeterNext]_mvars
        => (MeterInv /\ LosesLessThanABitPerPacket)'
  <2> SUFFICES ASSUME MeterInv, LosesLessThanABitPerPacket, PauseFits,
                      [MeterNext]_mvars
               PROVE  (MeterInv /\ LosesLessThanABitPerPacket)'
    OBVIOUS
  <2>1. MeterInv'
    BY MeterNextInv
  <2>2. CASE \E i \in AllowedIfs, size \in PacketBits : Metered(i, size)
    BY <2>1, <2>2, MeteredLosesLittle
  <2>3. CASE Unmetered \/ UNCHANGED mvars
    <3>1. UNCHANGED <<buffer_state, throughput_stats, passed_bits, packets>>
      BY <2>3 DEF Unmetered, Tick, PublishAvg, PassUnaccounted, DropUnlisted,
         mvars, vars
    <3> QED
      BY <2>1, <3>1 DEF LosesLessThanABitPerPacket, BusyTime, ReleasedBits, Uptime
  <2> QED
    BY <2>1, <2>2, <2>3 DEF MeterNext
<1> QED
  BY <1>1, <1>2, PTL DEF MeterSpec

-----------------------------------------------------------------------------
(* Lemmas about products and quotients.                                    *)

LEMMA ProductMonotone ==
  \A x, y \in Int, z \in Nat : x <= y => x * z <= y * z
OBVIOUS

LEMMA ProductSum == \A x, y, z \in Int : (x + y) * z = x * z + y * z
OBVIOUS

(* The quotient is the number whose multiple lies just below.              *)
LEMMA QuotientBetween ==
  ASSUME NEW y \in Nat, NEW d \in Nat \ {0}
  PROVE  /\ y \div d \in Nat
         /\ (y \div d) * d <= y
         /\ y < (y \div d) * d + d
OBVIOUS

LEMMA QuotientUnique ==
  ASSUME NEW y \in Nat, NEW d \in Nat \ {0}, NEW q \in Nat,
         q * d <= y, y < q * d + d
  PROVE  y \div d = q
<1>1. y \div d \in Nat /\ (y \div d) * d <= y /\ y < (y \div d) * d + d
  BY QuotientBetween
<1> DEFINE p == y \div d
<1> HIDE DEF p
<1>2. p \in Nat /\ p * d <= y /\ y < p * d + d
  BY <1>1 DEF p
<1>3. CASE p < q
  <2>1. (p + 1) * d <= q * d
    BY <1>2, <1>3, ProductMonotone
  <2>2. (p + 1) * d = p * d + d
    BY <1>2
  <2> QED
    BY <1>2, <2>1, <2>2
<1>4. CASE q < p
  <2>1. (q + 1) * d <= p * d
    BY <1>2, <1>4, ProductMonotone
  <2>2. (q + 1) * d = q * d + d
    OBVIOUS
  <2> QED
    BY <1>2, <2>1, <2>2
<1> QED
  BY <1>2, <1>3, <1>4 DEF p

-----------------------------------------------------------------------------
(* A buffer of b bits since s ticks, on a link of r bits per d ticks: what  *)
(* the handler computes with divisions, compared with the backlog itself.   *)
Backlog(b, s, r, d) == Greater(0, b * d - s * r)

(* The time to empty tells whether the backlog runs dry in the next tick,   *)
(* and the tokens tell whether it has run dry by now.                       *)
LEMMA BacklogTimes ==
  ASSUME NEW b \in Nat, NEW s \in Nat, NEW r \in Nat \ {0}, NEW d \in Nat \ {0}
  PROVE  /\ Backlog(b, s, r, d) \in Nat
         /\ (b * d) \div r \in Nat
         /\ Backlog(b, s, r, d) < r <=> (b * d) \div r <= s
         /\ b * d <= s * r => (b * d) \div r <= s
         /\ s * r < b * d => s <= (b * d) \div r
<1> DEFINE B == b * d
           l == B \div r
           y == s * r
<1>1. B \in Nat /\ y \in Nat
  OBVIOUS
<1>2. l \in Nat /\ l * r <= B /\ B < l * r + r
  BY <1>1, QuotientBetween
<1>3. /\ (s + 1) * r = y + r
      /\ (l + 1) * r = l * r + r
      /\ y \in Int /\ l * r \in Int
  BY <1>2
<1>4. l <= s => B < y + r
  <2> SUFFICES ASSUME l <= s PROVE B < y + r
    OBVIOUS
  <2>1. l * r <= s * r
    BY <1>2, ProductMonotone
  <2> QED
    BY <1>1, <1>2, <1>3, <2>1
<1>5. s < l => y + r <= B
  <2> SUFFICES ASSUME s < l PROVE y + r <= B
    OBVIOUS
  <2>1. (s + 1) * r <= l * r
    BY <1>2, ProductMonotone
  <2> QED
    BY <1>1, <1>2, <1>3, <2>1
<1>6. l < s => l * r + r <= y
  <2> SUFFICES ASSUME l < s PROVE l * r + r <= y
    OBVIOUS
  <2>1. (l + 1) * r <= s * r
    BY <1>2, ProductMonotone
  <2> QED
    BY <1>3, <2>1
<1> HIDE DEF B, l, y
<1>7. Greater(0, B - y) \in Nat /\ (Greater(0, B - y) < r <=> l <= s)
  BY <1>1, <1>2, <1>4, <1>5 DEF Greater
<1>8. /\ B <= y => l <= s
      /\ y < B => s <= l
  BY <1>1, <1>2, <1>3, <1>5, <1>6
<1> QED
  BY <1>2, <1>7, <1>8 DEF Backlog, B, l, y

(* The tokens released leave the backlog, rounded up to whole bits.         *)
LEMMA BacklogHeld ==
  ASSUME NEW b \in Nat, NEW s \in Nat, NEW r \in Nat \ {0}, NEW d \in Nat \ {0}
  PROVE  /\ b <= (s * r) \div d <=> b * d <= s * r
         /\ (Backlog(b, s, r, d) + d - 1) \div d
              = IF b <= (s * r) \div d THEN 0 ELSE b - (s * r) \div d
<1> DEFINE B == b * d
           y == s * r
           t == y \div d
<1>1. B \in Nat /\ y \in Nat
  OBVIOUS
<1>2. t \in Nat /\ t * d <= y /\ y < t * d + d /\ t * d \in Int
  BY <1>1, QuotientBetween
<1>3. b <= t => B <= y
  <2> SUFFICES ASSUME b <= t PROVE B <= y
    OBVIOUS
  <2>1. b * d <= t * d
    BY <1>2, ProductMonotone
  <2> QED
    BY <1>1, <1>2, <2>1
<1>4. t < b => t * d + d <= B
  <2> SUFFICES ASSUME t < b PROVE t * d + d <= B
    OBVIOUS
  <2>1. (t + 1) * d <= b * d
    BY <1>2, ProductMonotone
  <2>2. (t + 1) * d = t * d + d
    BY <1>2
  <2> QED
    BY <2>1, <2>2
<1>5. b * d - t * d = (b - t) * d
  BY <1>2
<1> HIDE DEF B, y, t
<1>6. b <= t <=> B <= y
  BY <1>1, <1>2, <1>3, <1>4
<1>7. CASE b <= t
  <2>1. Greater(0, B - y) + d - 1 = d - 1
    BY <1>1, <1>6, <1>7 DEF Greater
  <2>2. (d - 1) \div d = 0
    <3>1. 0 * d = 0
      OBVIOUS
    <3> QED
      BY <3>1, QuotientUnique
  <2> QED
    BY <1>6, <1>7, <2>1, <2>2 DEF Backlog, B, y, t
<1>8. CASE t < b
  <2> DEFINE q == b - t
             h == B - y + d - 1
  <2>1. q \in Nat /\ q * d = B - t * d
    BY <1>2, <1>5, <1>8 DEF B
  <2>2. h \in Nat /\ q * d <= h /\ h < q * d + d
    BY <1>1, <1>2, <1>4, <1>8, <2>1
  <2>3. Greater(0, B - y) + d - 1 = h
    BY <1>1, <1>2, <1>4, <1>8 DEF Greater
  <2> HIDE DEF q, h
  <2>4. h \div d = q
    BY <2>1, <2>2, QuotientUnique
  <2> QED
    BY <1>2, <1>6, <1>8, <2>3, <2>4 DEF Backlog, B, y, t, q
<1> QED
  BY <1>2, <1>7, <1>8

(* A tick drains the backlog by the rate.                                   *)
LEMMA BacklogTick ==
  ASSUME NEW b \in Nat, NEW s \in Nat, NEW r \in Nat \ {0}, NEW d \in Nat \ {0}
  PROVE  Backlog(b, s + 1, r, d) = Greater(0, Backlog(b, s, r, d) - r)
<1>1. (s + 1) * r = s * r + r /\ b * d \in Nat /\ s * r \in Nat
  OBVIOUS
<1> QED
  BY <1>1 DEF Backlog, Greater

-----------------------------------------------------------------------------
(* The inductive invariant: besides IInv, before the first packet there is  *)
(* nothing in the buffer and no window, a packet never finds its            *)
(* predecessor past the end of the window, and the average that userspace   *)
(* publishes is one of lengths that the buffer can have.                    *)
LinkInv ==
  /\ IInv
  /\ buffer_state.last_update_ns = 0 =>
       /\ buffer_state.current_buffer_bits = 0
       /\ window_state.is_window_active = 0
  /\ window_state.is_window_active = 1 =>
       buffer_state.last_update_ns <= window_state.window_end_ns
  /\ avg_queue_bits <= MaxThresholdMtu * MtuBits

AveragesFit == \A avg \in AvgBits : avg <= MaxThresholdMtu * MtuBits

(* No pause since the last packet is so long that line 225 wraps: 184 s at  *)
(* 100 Mbps.                                                                *)
NoLongPause == Since * RateBps < WordMod

LEMMA LinkFacts ==
  ASSUME LinkInv
  PROVE  /\ buffer_state.current_buffer_bits \in Nat
         /\ buffer_state.last_update_ns \in Nat
         /\ now \in Nat \ {0} /\ buffer_state.last_update_ns <= now
         /\ Since \in Nat /\ Since = ElapsedNow
         /\ throughput_stats.total_zero_buffer_ns \in Nat
         /\ window_state.is_window_active \in {0, 1}
         /\ window_state.window_end_ns \in Nat
         /\ window_state.window_zero_buffer_ns \in Nat
         /\ window_state.window_count \in Nat
         /\ window_state.is_window_active = 1 => window_state.window_count >= 1
         /\ buffer_state.current_threshold_mtu \in MinThresholdMtu .. MaxThresholdMtu
         /\ buffer_state.ssthresh_mtu \in MinThresholdMtu .. MaxThresholdMtu
         /\ avg_queue_bits \in Nat
         /\ QueueNow = Backlog(buffer_state.current_buffer_bits, Since, RateBps, NsPerSec)
         /\ QueueNow \in Nat
         /\ Lasts \in Nat
<1>1. /\ buffer_state.current_buffer_bits \in Nat
      /\ buffer_state.last_update_ns \in Nat
      /\ now \in Nat \ {0} /\ buffer_state.last_update_ns <= now
      /\ throughput_stats.total_zero_buffer_ns \in Nat
      /\ window_state.is_window_active \in {0, 1}
      /\ window_state.window_end_ns \in Nat
      /\ window_state.window_zero_buffer_ns \in Nat
      /\ window_state.window_count \in Nat
      /\ avg_queue_bits \in Nat
      /\ window_state.is_window_active = 1 => window_state.window_count >= 1
  BY ConstantTypes DEF LinkInv, IInv, TypeOK, BufferState, WindowState,
     ThroughputStats, ClocksAndRounds, Word
<1>2. Since \in Nat /\ Since = ElapsedNow
  BY <1>1, ElapsedExact DEF LinkInv, Since
<1>3. QueueNow = Backlog(buffer_state.current_buffer_bits, Since, RateBps, NsPerSec)
  BY DEF QueueNow, Backlog
<1>4. QueueNow \in Nat /\ Lasts \in Nat
  BY <1>1, <1>2, <1>3, BacklogTimes, ConstantTypes DEF Lasts
<1> QED
  BY <1>1, <1>2, <1>3, <1>4 DEF LinkInv, IInv, ThresholdInRange

-----------------------------------------------------------------------------
(* A tick of the clock is a tick of the link.                               *)
LEMMA TickIsTick ==
  ASSUME LinkInv, Tick
  PROVE  Link!LTick
<1> DEFINE bits == buffer_state.current_buffer_bits
           last == buffer_state.last_update_ns
           end == window_state.window_end_ns
<1>1. /\ now' = now + 1
      /\ UNCHANGED <<buffer_state, window_state, avg_queue_bits, throughput_stats>>
  BY DEF Tick
<1>2. Lasts' = Lasts
  BY <1>1 DEF Lasts
<1>3. CASE last = 0
  <2>1. Since = 0 /\ Since' = 0 /\ bits = 0 /\ window_state.is_window_active = 0
    BY <1>1, <1>3 DEF Since, LinkInv
  <2>2. QueueNow = 0 /\ QueueNow' = 0
    <3>1. 0 * NsPerSec = 0 /\ 0 * RateBps = 0
      BY ConstantTypes
    <3> QED
      BY <1>1, <2>1, <3>1 DEF QueueNow, Greater
  <2>3. IdleNow' = IdleNow
    BY <1>1, <1>2, <2>1 DEF IdleNow
  <2>4. WindowNow' = WindowNow /\ WindowNow.round = 0
    BY <1>1, <2>1 DEF WindowNow
  <2> QED
    BY <1>1, <1>3, <2>2, <2>3, <2>4, ConstantTypes
    DEF Link!LTick, Link!RunsDry, Link!LMax
<1>4. CASE last # 0
  <2>1. Since = now - last /\ Since' = Since + 1
    BY <1>1, <1>4, LinkFacts DEF Since
  <2>2. QueueNow' = Greater(0, QueueNow - RateBps)
    <3>1. QueueNow' = Backlog(bits, Since + 1, RateBps, NsPerSec)
      BY <1>1, <2>1 DEF QueueNow, Backlog
    <3>2. bits \in Nat /\ Since \in Nat /\ RateBps \in Nat \ {0} /\ NsPerSec \in Nat \ {0}
      BY LinkFacts, ConstantTypes
    <3>3. Backlog(bits, Since + 1, RateBps, NsPerSec)
            = Greater(0, Backlog(bits, Since, RateBps, NsPerSec) - RateBps)
      BY <3>2, BacklogTick
    <3> QED
      BY <3>1, <3>3, LinkFacts
  <2>3. QueueNow < RateBps <=> Lasts <= Since
    <3>1. bits \in Nat /\ Since \in Nat /\ RateBps \in Nat \ {0} /\ NsPerSec \in Nat \ {0}
      BY LinkFacts, ConstantTypes
    <3>2. Backlog(bits, Since, RateBps, NsPerSec) < RateBps <=> Lasts <= Since
      BY <3>1, BacklogTimes DEF Lasts
    <3> QED
      BY <3>2, LinkFacts
  <2>4. IdleNow' = IF Lasts <= Since THEN IdleNow + 1 ELSE IdleNow
    BY <1>1, <1>2, <2>1, LinkFacts DEF IdleNow, Greater
  <2>5. WindowNow' = IF WindowNow.round > 0 /\ WindowNow.left > 0
                     THEN [WindowNow EXCEPT
                             !.left = @ - 1,
                             !.idle = IF Lasts <= Since THEN @ + 1 ELSE @]
                     ELSE WindowNow
    <3>1. CASE window_state.is_window_active = 0
      BY <1>1, <3>1 DEF WindowNow
    <3>2. CASE window_state.is_window_active = 1
      <4> DEFINE zero == window_state.window_zero_buffer_ns
                 idle == zero + Greater(0, Lesser(now, end) - last - Lasts)
                 next == zero + Greater(0, Lesser(now + 1, end) - last - Lasts)
                 left == Greater(0, end - now)
                 rest == Greater(0, end - (now + 1))
      <4>1. WindowNow = [round |-> window_state.window_count,
                         left |-> left, idle |-> idle]
        BY <3>2 DEF WindowNow
      <4>2. WindowNow' = [round |-> window_state.window_count,
                          left |-> rest, idle |-> next]
        BY <1>1, <1>2, <3>2 DEF WindowNow
      <4>3. window_state.window_count > 0
        BY <3>2, LinkFacts
      <4>4. CASE end <= now
        <5>1. left = 0 /\ rest = 0 /\ next = idle
          BY <4>4, LinkFacts DEF Greater, Lesser
        <5> HIDE DEF idle, next, left, rest
        <5> QED
          BY <4>1, <4>2, <5>1
      <4>5. CASE now < end
        <5>1. left > 0 /\ rest = left - 1
          BY <4>5, LinkFacts DEF Greater
        <5>2. next = IF Lasts <= Since THEN idle + 1 ELSE idle
          <6>1. /\ zero \in Nat /\ Lasts \in Nat /\ Since \in Nat
                /\ now - last = Since /\ (now + 1) - last = Since + 1
            BY <2>1, LinkFacts
          <6>2. Lesser(now + 1, end) = now + 1 /\ Lesser(now, end) = now
            BY <4>5, LinkFacts DEF Lesser
          <6> QED
            BY <6>1, <6>2 DEF Greater
        <5> HIDE DEF idle, next, left, rest
        <5>3. WindowNow.round > 0 /\ WindowNow.left > 0
          BY <4>1, <4>3, <5>1
        <5> QED
          BY <4>1, <4>2, <5>1, <5>2, <5>3
      <4> QED
        BY <4>4, <4>5, LinkFacts
    <3> QED
      BY <3>1, <3>2, LinkFacts
  <2> QED
    BY <1>1, <1>4, <2>2, <2>3, <2>4, <2>5, LinkFacts, ConstantTypes
    DEF Link!LTick, Link!RunsDry, Link!LMax, Greater
<1> QED
  BY <1>3, <1>4

-----------------------------------------------------------------------------
(* What a packet finds: the handler's divisions give the state of the link  *)
(* at that moment.                                                          *)

LEMMA PacketFindsBacklog ==
  ASSUME LinkInv, NoLongPause
  PROVE  /\ CurrentBuffer.current_buffer_bits = Link!Held
         /\ AtZero = Greater(0, Since - Lasts)
<1> DEFINE bits == buffer_state.current_buffer_bits
           y == Since * RateBps
           B == bits * NsPerSec
<1>1. /\ bits \in Nat /\ Since \in Nat /\ Since = ElapsedNow /\ Lasts \in Nat
      /\ RateBps \in Nat \ {0} /\ NsPerSec \in Nat \ {0}
  BY LinkFacts, ConstantTypes
<1>2. y \in Nat /\ U64(y) = y
  <2>1. y \in Nat
    BY <1>1
  <2>2. y \in Word
    BY <2>1, ConstantTypes DEF NoLongPause, Word
  <2> QED
    BY <2>1, <2>2, U64Exact
<1>3. TokensReleased(params, ElapsedNow) = y \div NsPerSec
  BY <1>1, <1>2 DEF TokensReleased, params
<1>4. Empties(params, buffer_state, ElapsedNow) <=> bits <= y \div NsPerSec
  <2>1. y \div NsPerSec \in Nat
    BY <1>1, <1>2, QuotientBetween
  <2> HIDE DEF y
  <2> QED
    BY <1>1, <1>3, <2>1 DEF Empties
<1>5. CurrentBuffer.current_buffer_bits
        = IF bits <= y \div NsPerSec THEN 0 ELSE bits - y \div NsPerSec
  <2>1. CurrentBuffer.current_buffer_bits = DepletedBits(params, buffer_state, ElapsedNow)
    BY DEF CurrentBuffer, AdjustedBuffer, AdjustState, Deplete, ElapsedNow,
       LinkInv, IInv, TypeOK, BufferState
  <2> QED
    BY <1>3, <1>4, <2>1 DEF DepletedBits
<1>6. Link!Held = (Backlog(bits, Since, RateBps, NsPerSec) + NsPerSec - 1) \div NsPerSec
  BY LinkFacts DEF Link!Held
<1>7. CurrentBuffer.current_buffer_bits = Link!Held
  <2>1. (Backlog(bits, Since, RateBps, NsPerSec) + NsPerSec - 1) \div NsPerSec
          = IF bits <= (Since * RateBps) \div NsPerSec
            THEN 0 ELSE bits - (Since * RateBps) \div NsPerSec
    BY <1>1, BacklogHeld
  <2> QED
    BY <1>5, <1>6, <2>1
<1>8. TimeToEmpty(params, buffer_state) = Lasts
  <2>1. bits <= MaxThresholdMtu * MtuBits
    BY DEF LinkInv, IInv, BufferBounded
  <2>2. B \in Nat /\ B <= (MaxThresholdMtu * MtuBits) * NsPerSec
    BY <1>1, <2>1, ProductMonotone, ConstantTypes
  <2>3. B \in Word
    BY <2>2, RangeAssumption, ConstantTypes DEF Word
  <2> QED
    BY <1>1, <2>3, U64Exact DEF TimeToEmpty, BpfDiv, params, Lasts
<1>9. AtZero = Greater(0, Since - Lasts)
  <2>1. /\ bits <= y \div NsPerSec <=> B <= y
        /\ B <= y => Lasts <= Since
        /\ y < B => Since <= Lasts
    BY <1>1, BacklogHeld, BacklogTimes DEF Lasts
  <2>2. B \in Nat
    BY <1>1
  <2> HIDE DEF B, y
  <2>3. CASE B <= y
    <3>1. Since - Lasts \in Word
      <4>1. Since <= now /\ now < WordMod
        BY LinkFacts, ConstantTypes DEF Since, LinkInv, IInv, TypeOK
      <4> QED
        BY <1>1, <2>1, <2>3, <4>1, ConstantTypes, LinkFacts DEF Word
    <3>2. AtZero = Since - Lasts
      BY <1>1, <1>4, <1>8, <2>1, <2>3, <3>1, U64Exact DEF AtZero, TimeAtZero
    <3> QED
      BY <1>1, <2>1, <2>3, <3>2 DEF Greater
  <2>4. CASE y < B
    <3>1. AtZero = 0
      BY <1>2, <1>4, <2>1, <2>2, <2>4 DEF AtZero, TimeAtZero
    <3> QED
      BY <1>1, <2>1, <2>4, <3>1 DEF Greater
  <2> QED
    BY <1>2, <2>2, <2>3, <2>4
<1> QED
  BY <1>7, <1>9

(* A window as the link sees it at the moment of a packet.                  *)
WindowSeen(w) ==
  IF w.is_window_active = 0
  THEN [round |-> 0, left |-> 0, idle |-> 0]
  ELSE [round |-> w.window_count,
        left  |-> Greater(0, w.window_end_ns - now),
        idle  |-> w.window_zero_buffer_ns]

LEMMA PacketFindsWindow ==
  ASSUME LinkInv, NoLongPause
  PROVE  /\ WindowSeen(AccountedWindow) = WindowNow
         /\ Expired(AccountedWindow, now) <=> Link!Over
<1> DEFINE last == buffer_state.last_update_ns
           end  == window_state.window_end_ns
           zero == window_state.window_zero_buffer_ns
           idle == IdleInWindow(window_state, now, AtZero)
<1>1. /\ AccountedWindow \in WindowState
      /\ AccountedWindow.is_window_active = window_state.is_window_active
      /\ AccountedWindow.window_end_ns = end
      /\ AccountedWindow.window_count = window_state.window_count
  BY AccountedBounded DEF LinkInv
<1>2. CASE window_state.is_window_active = 0
  BY <1>1, <1>2 DEF WindowSeen, WindowNow, Expired, Link!Over
<1>3. CASE window_state.is_window_active = 1
  <2>1. /\ last # 0 /\ Since = now - last /\ last <= now /\ last <= end
        /\ last \in Nat /\ end \in Nat /\ zero \in Nat /\ now \in Nat
        /\ Lasts \in Nat
    BY <1>3, LinkFacts DEF LinkInv, Since
  <2>2. AtZero = Greater(0, now - last - Lasts)
    BY <2>1, PacketFindsBacklog
  <2>3. now < WordMod /\ end < WordMod /\ WordMod \in Nat
    BY ConstantTypes DEF LinkInv, IInv, TypeOK, WindowState, Word
  <2>4. idle = Greater(0, Lesser(now, end) - last - Lasts)
    <3>1. CASE now <= end
      BY <2>1, <2>2, <3>1 DEF IdleInWindow, Lesser
    <3>2. CASE now > end
      <4>1. U64(now - end) = now - end
        <5>1. now - end \in Word
          BY <2>1, <2>3, <3>2 DEF Word
        <5> QED
          BY <5>1, U64Exact
      <4>2. CASE AtZero >= now - end
        <5>1. AtZero \in Nat /\ AtZero <= now
          BY <2>1, AtZeroBounded, LinkFacts DEF LinkInv
        <5>2. AtZero - (now - end) \in Word
          BY <4>2, <5>1, <3>2, <2>1, <2>3 DEF Word
        <5>3. idle = AtZero - (now - end)
          BY <5>1, <5>2, <4>1, <4>2, <3>2, <2>1, U64Exact DEF IdleInWindow
        <5> QED
          BY <5>3, <2>1, <2>2, <3>2, <4>2 DEF Lesser, Greater
      <4>3. CASE AtZero < now - end
        <5>1. AtZero \in Nat
          BY <2>1, <2>2 DEF Greater
        <5>2. U64(AtZero - (now - end)) = AtZero - (now - end) + WordMod
          BY <4>3, <5>1, <3>2, <2>1, <2>3 DEF U64
        <5>3. idle = 0
          BY <5>1, <5>2, <4>1, <4>3, <3>2, <2>1, <2>3 DEF IdleInWindow
        <5> QED
          BY <5>3, <2>1, <2>2, <3>2, <4>3 DEF Lesser, Greater
      <4> QED
        BY <4>2, <4>3, <2>1, <2>2 DEF Greater
    <3> QED
      BY <3>1, <3>2, <2>1
  <2>5. AccountedWindow.window_zero_buffer_ns = zero + idle
    <3>1. zero + idle \in Word
      <4>1. zero <= Lesser(last, end) - RoundStart /\ RoundStart \in Nat
        BY <1>3, LinkFacts, ConstantTypes
        DEF LinkInv, IInv, IdleWithinWindow, RoundStart, ClocksAndRounds
      <4> QED
        BY <2>1, <2>3, <2>4, <4>1 DEF Lesser, Greater, Word
    <3> QED
      BY <1>3, <3>1, U64Exact DEF AccountedWindow, AccountIdle, LinkInv, IInv,
         TypeOK, WindowState
  <2>6. WindowSeen(AccountedWindow) = WindowNow
    BY <1>1, <1>3, <2>4, <2>5 DEF WindowSeen, WindowNow
  <2>7. window_state.window_count > 0 /\ window_state.window_count \in Nat
    BY <1>3, LinkFacts
  <2>8. /\ WindowNow.round = window_state.window_count
        /\ WindowNow.left = Greater(0, end - now)
    BY <1>3 DEF WindowNow
  <2>9. Link!Over <=> end <= now
    BY <2>1, <2>7, <2>8 DEF Link!Over, Greater
  <2> QED
    BY <1>1, <1>3, <2>1, <2>6, <2>9 DEF Expired
<1> QED
  BY <1>2, <1>3, LinkFacts

(* The thresholds that the packet is admitted with are those of the link.   *)
LEMMA PacketFindsThresholds ==
  ASSUME LinkInv, NoLongPause
  PROVE  /\ CurrentBuffer.current_threshold_mtu = Link!NewThr
         /\ CurrentBuffer.ssthresh_mtu = Link!NewSsthr
<1> DEFINE s == Deplete(params, buffer_state, ElapsedNow)
           w == AccountedWindow
           cur == buffer_state.current_threshold_mtu
<1>1. /\ s \in BufferState /\ s.current_threshold_mtu = cur
      /\ s.ssthresh_mtu = buffer_state.ssthresh_mtu
      /\ CurrentBuffer = IF Expired(w, now) THEN AdjustState(params, s, w) ELSE s
  <2>1. buffer_state \in BufferState
    BY DEF LinkInv, IInv, TypeOK
  <2>2. DepletedBits(params, buffer_state, ElapsedNow) \in Word
    BY <2>1, DepletedBounded, ConstantTypes DEF LinkInv, BufferState, Word
  <2> QED
    BY <2>1, <2>2 DEF Deplete, BufferState, CurrentBuffer, AdjustedBuffer, ElapsedNow
<1>2. /\ cur \in MinThresholdMtu .. MaxThresholdMtu
      /\ buffer_state.ssthresh_mtu \in MinThresholdMtu .. MaxThresholdMtu
      /\ cur \in Nat /\ buffer_state.ssthresh_mtu \in Nat
  BY LinkFacts, ConstantTypes
<1>3. Expired(w, now) <=> Link!Over
  BY PacketFindsWindow
<1>4. CASE ~ Expired(w, now)
  BY <1>1, <1>3, <1>4 DEF Link!NewThr, Link!NewSsthr
<1>5. CASE Expired(w, now)
  <2>1. /\ w \in WindowState /\ w.is_window_active = 1
        /\ window_state.is_window_active = 1
        /\ w.window_count \in 1 .. MaxRounds
    BY <1>5, AccountedBounded DEF Expired, LinkInv, IInv, ClocksAndRounds
  <2>2. /\ WindowNow.round = w.window_count
        /\ WindowNow.idle = w.window_zero_buffer_ns
        /\ WindowNow.idle \in Nat
    <3>1. WindowNow = WindowSeen(w)
      BY PacketFindsWindow
    <3> QED
      BY <2>1, <3>1 DEF WindowSeen, WindowState, Word
  <2>3. w.window_zero_buffer_ns <= WindowNs(params)
    <3>1. w.window_zero_buffer_ns
            <= Lesser(now, window_state.window_end_ns) - RoundStart
      BY <2>1, AccountedBounded DEF LinkInv
    <3> QED
      BY <2>1, <3>1, LinkFacts, ConstantTypes DEF Lesser, RoundStart, WindowState, Word
  <2>4. CASE w.window_zero_buffer_ns > 0
    <3> DEFINE full == WindowNs(params) * w.window_count
               zero == w.window_zero_buffer_ns
    <3>1. zero \in 1 .. WindowNs(params)
      BY <2>1, <2>3, <2>4, ConstantTypes DEF WindowState, Word
    <3>2. /\ full \in Nat /\ zero \in Nat
          /\ RaisedThreshold(params, s, w) = RaisedTo(params, cur, full, zero)
      BY <1>1, <1>2, <2>1, <3>1, RaisedExact, ParamsUsable DEF InRange
    <3>3. Link!Raised = RaisedTo(params, cur, full, zero)
      <4>1. full - zero = 0 <=> full = zero
        BY <3>2
      <4> HIDE DEF full, zero
      <4>2. Link!Raised = IF full - zero = 0
                          THEN MaxThresholdMtu
                          ELSE Lesser(MaxThresholdMtu,
                                      (cur * ((full * FixedPoint) \div (full - zero)))
                                        \div FixedPoint)
        BY <2>2 DEF Link!Raised, Link!LMin, Lesser, full, zero
      <4> QED
        BY <4>1, <4>2 DEF RaisedTo, params
    <3>4. /\ CurrentBuffer.current_threshold_mtu = RaisedThreshold(params, s, w)
          /\ CurrentBuffer.ssthresh_mtu = RaisedSsthresh(params, s, w)
      BY <1>1, <1>5, <2>4 DEF AdjustState, BufferState
    <3>5. Link!NewThr = Link!Raised
      BY <1>3, <1>5, <2>2, <2>4 DEF Link!NewThr
    <3>6. U64(cur * SsthreshMultiplier) = cur * SsthreshMultiplier
      <4>1. /\ cur * SsthreshMultiplier \in Nat
            /\ cur * SsthreshMultiplier <= MaxThresholdMtu * SsthreshMultiplier
        BY <1>2, ProductMonotone, ConstantTypes
      <4>2. cur * SsthreshMultiplier \in Word
        BY <4>1, RangeAssumption, ConstantTypes DEF Word
      <4> QED
        BY <4>2, U64Exact
    <3>7. RaisedSsthresh(params, s, w)
            = IF SsthreshEnabled # 0
              THEN Lesser(RaisedThreshold(params, s, w),
                          (cur * SsthreshMultiplier) \div FixedPoint)
              ELSE buffer_state.ssthresh_mtu
      BY <1>1, <3>6 DEF RaisedSsthresh, params
    <3>8. SsthreshEnabled # 0 <=> SsthreshEnabled = 1
      BY ParamsAssumption
    <3>9. Link!NewSsthr
            = IF SsthreshEnabled = 1
              THEN Lesser(Link!Raised, (cur * SsthreshMultiplier) \div FixedPoint)
              ELSE buffer_state.ssthresh_mtu
      BY <1>3, <1>5, <2>2, <2>4 DEF Link!NewSsthr, Link!LMin, Lesser
    <3> QED
      BY <3>2, <3>3, <3>4, <3>5, <3>7, <3>8, <3>9
  <2>5. CASE ~ (w.window_zero_buffer_ns > 0)
    <3>1. /\ CurrentBuffer.current_threshold_mtu = LoweredThreshold(params, s)
          /\ CurrentBuffer.ssthresh_mtu = buffer_state.ssthresh_mtu
      BY <1>1, <1>5, <2>5 DEF AdjustState, BufferState
    <3>2. U64(cur - DecreaseConstant) = cur - DecreaseConstant
      <4>1. cur - DecreaseConstant \in Word
        BY <1>2, ConstantTypes, ParamsAssumption DEF Word
      <4> QED
        BY <4>1, U64Exact
    <3>3. SsthreshEnabled # 0 <=> SsthreshEnabled = 1
      BY ParamsAssumption
    <3>4. LoweredThreshold(params, s) = Link!Lowered
      BY <1>1, <3>2, <3>3 DEF LoweredThreshold, params, Link!Lowered, Link!LMax, Greater
    <3>5. Link!NewThr = Link!Lowered /\ Link!NewSsthr = buffer_state.ssthresh_mtu
      BY <1>3, <1>5, <2>2, <2>5 DEF Link!NewThr, Link!NewSsthr
    <3> QED
      BY <3>1, <3>4, <3>5
  <2> QED
    BY <2>4, <2>5
<1> QED
  BY <1>4, <1>5

(* So is the window it leaves behind if it is passed.                       *)
LEMMA PacketLeavesWindow ==
  ASSUME LinkInv, NoLongPause
  PROVE  WindowSeen(CurrentWindow) = Link!NewWindow
<1> DEFINE w == AccountedWindow
<1>1. WindowSeen(w) = WindowNow /\ (Expired(w, now) <=> Link!Over)
  BY PacketFindsWindow
<1>2. CASE ~ Expired(w, now)
  BY <1>1, <1>2 DEF CurrentWindow, AdjustedWindow, Link!NewWindow
<1>3. CASE Expired(w, now)
  <2>1. CurrentWindow = AdjustWindow(params, w, now)
    BY <1>3 DEF CurrentWindow, AdjustedWindow
  <2>2. /\ w \in WindowState /\ w.is_window_active = 1
        /\ w.window_count \in 1 .. MaxRounds
        /\ w.window_zero_buffer_ns \in Nat /\ w.window_count \in Nat
    BY <1>3, AccountedBounded, ConstantTypes
    DEF Expired, LinkInv, IInv, ClocksAndRounds, WindowState, Word
  <2>3. /\ WindowNow.round = w.window_count
        /\ WindowNow.idle = w.window_zero_buffer_ns
    BY <1>1, <2>2 DEF WindowSeen
  <2>4. CASE w.window_zero_buffer_ns = 0 /\ w.window_count < WindowsConsidered
    <3>1. U64(w.window_count + 1) = w.window_count + 1
      <4>1. w.window_count + 1 \in Word
        BY <2>2, <2>4, ParamsAssumption, ConstantTypes DEF Word
      <4> QED
        BY <4>1, U64Exact
    <3>2. /\ CurrentWindow.is_window_active = 1
          /\ CurrentWindow.window_count = w.window_count + 1
          /\ CurrentWindow.window_end_ns = now + WindowNs(params)
          /\ CurrentWindow.window_zero_buffer_ns = 0
      BY <2>1, <2>2, <2>4, <3>1, WindowEndExact
      DEF AdjustWindow, params, WindowState, LinkInv
    <3>3. Greater(0, CurrentWindow.window_end_ns - now) = WindowNs(params)
      BY <3>2, LinkFacts, ConstantTypes DEF Greater
    <3>4. Link!NewWindow = Link!NewRound
      BY <1>1, <1>3, <2>3, <2>4 DEF Link!NewWindow
    <3> QED
      BY <2>3, <3>2, <3>3, <3>4 DEF WindowSeen, Link!NewRound
  <2>5. CASE ~ (w.window_zero_buffer_ns = 0 /\ w.window_count < WindowsConsidered)
    <3>1. CurrentWindow.is_window_active = 0
      BY <2>1, <2>2, <2>5 DEF AdjustWindow, params, WindowState
    <3>2. Link!NewWindow = Link!Closed
      BY <1>1, <1>3, <2>3, <2>5 DEF Link!NewWindow
    <3> QED
      BY <3>1, <3>2 DEF WindowSeen, Link!Closed
  <2> QED
    BY <2>4, <2>5
<1> QED
  BY <1>2, <1>3

-----------------------------------------------------------------------------
(* What a packet leaves.                                                    *)

(* The comparisons of the admission test do not wrap.                       *)
LEMMA ExceedsExact ==
  ASSUME NEW bits \in Nat, bits <= MaxThresholdMtu * MtuBits,
         NEW size \in PacketBits,
         NEW mtu \in Nat, mtu <= MaxThresholdMtu
  PROVE  /\ size \in Nat
         /\ U64(bits + size) = bits + size
         /\ Exceeds(bits, size, mtu) <=> bits + size > mtu * MtuBits
<1>1. size \in Nat /\ MaxThresholdMtu * MtuBits + size < WordMod
  BY EnvironmentAssumption, RangeAssumption DEF Word
<1>2. mtu * MtuBits \in Nat /\ mtu * MtuBits <= MaxThresholdMtu * MtuBits
  BY ProductMonotone, ConstantTypes
<1> HIDE DEF Exceeds
<1>3. bits + size \in Word
  BY <1>1, <1>2, ConstantTypes DEF Word
<1>4. mtu * MtuBits \in Word
  BY <1>1, <1>2, ConstantTypes DEF Word
<1> QED
  BY <1>1, <1>3, <1>4, U64Exact DEF Exceeds

(* The packet is passed if and only if the link has room for it.            *)
LEMMA PassedIfItFits ==
  ASSUME LinkInv, NoLongPause, NEW size \in PacketBits
  PROVE  /\ MustDrop(params, CurrentBuffer, avg_queue_bits, size)
              <=> ~ Link!Fits(size)
         /\ Link!Held \in Nat /\ Link!Held <= MaxThresholdMtu * MtuBits
<1> DEFINE thr == CurrentBuffer.current_threshold_mtu
<1>1. /\ CurrentBuffer.current_buffer_bits = Link!Held
      /\ thr = Link!NewThr
  BY PacketFindsBacklog, PacketFindsThresholds
<1>2. /\ Link!Held \in Nat /\ Link!Held <= MaxThresholdMtu * MtuBits
      /\ thr \in Nat /\ thr <= MaxThresholdMtu
  BY <1>1, CurrentBufferBounded, ConstantTypes DEF LinkInv, InRange
<1>3. avg_queue_bits \in Nat /\ avg_queue_bits <= MaxThresholdMtu * MtuBits
  BY LinkFacts DEF LinkInv
<1> DEFINE held == Link!Held
<1> HIDE DEF thr, held
<1>4. /\ Exceeds(held, size, MaxThresholdMtu) <=> held + size > MaxThresholdMtu * MtuBits
      /\ Exceeds(held, size, thr) <=> held + size > thr * MtuBits
      /\ Exceeds(avg_queue_bits, size, thr) <=> avg_queue_bits + size > thr * MtuBits
      /\ size \in Nat
  BY <1>2, <1>3, ExceedsExact, ConstantTypes DEF held
<1>5. Link!Fits(size) <=>
        /\ held + size <= MaxThresholdMtu * MtuBits
        /\ \/ avg_queue_bits + size <= thr * MtuBits
           \/ held + size <= thr * MtuBits
  BY <1>1 DEF Link!Fits, held, thr
<1>6. MustDrop(params, CurrentBuffer, avg_queue_bits, size) <=>
        \/ Exceeds(held, size, MaxThresholdMtu)
        \/ Exceeds(avg_queue_bits, size, thr) /\ Exceeds(held, size, thr)
  BY <1>1 DEF MustDrop, params, held, thr
<1>7. /\ MaxThresholdMtu * MtuBits \in Int /\ thr * MtuBits \in Int
      /\ held \in Nat
  BY <1>2, ConstantTypes DEF held
<1> QED
  BY <1>2, <1>3, <1>4, <1>5, <1>6, <1>7

(* The window that is left is not over yet.                                 *)
LEMMA WindowIsAhead ==
  ASSUME LinkInv
  PROVE  /\ CurrentWindow \in WindowState
         /\ CurrentWindow.is_window_active = 1 =>
              now <= CurrentWindow.window_end_ns /\ CurrentWindow.window_count >= 1
<1> DEFINE w == AccountedWindow
<1>1. /\ w \in WindowState /\ CurrentWindow \in WindowState
      /\ CurrentWindow.is_window_active = 1 => CurrentWindow.window_count >= 1
      /\ now \in Nat /\ WindowNs(params) \in Nat
      /\ WindowEnd(params, now) = now + WindowNs(params)
  BY AccountedBounded, CurrentWindowSound, WindowEndExact, ConstantTypes
  DEF LinkInv, WindowSound
<1>2. CASE ~ Expired(w, now)
  BY <1>1, <1>2 DEF CurrentWindow, AdjustedWindow, Expired, WindowState, Word
<1>3. CASE Expired(w, now)
  <2>1. CurrentWindow = AdjustWindow(params, w, now)
    BY <1>3 DEF CurrentWindow, AdjustedWindow
  <2>2. CurrentWindow.is_window_active = 1 =>
          CurrentWindow.window_end_ns = now + WindowNs(params)
    BY <1>1, <2>1 DEF AdjustWindow, WindowState
  <2> QED
    BY <1>1, <2>2
<1> QED
  BY <1>2, <1>3

(* The state that a packet stores is read back as it was stored: no time    *)
(* has passed since, and the idle time up to now has been counted.          *)
LEMMA PacketRecorded ==
  ASSUME LinkInv, NoLongPause, CountStats, now' = now,
         NEW bits \in Nat,
         buffer_state'.last_update_ns = now,
         buffer_state'.current_buffer_bits = bits,
         window_state' \in WindowState
  PROVE  /\ QueueNow' = bits * NsPerSec
         /\ IdleNow' = IdleNow
         /\ WindowNow' = WindowSeen(window_state')
<1>1. now \in Nat \ {0} /\ Since' = 0
  BY LinkFacts DEF Since
<1>2. bits * NsPerSec \in Nat /\ Lasts' \in Nat
  <2>1. bits * NsPerSec \in Nat
    BY ConstantTypes
  <2>2. Lasts' = (bits * NsPerSec) \div RateBps
    BY DEF Lasts
  <2> QED
    BY <2>1, <2>2, QuotientBetween, ConstantTypes
<1>3. QueueNow' = bits * NsPerSec
  <2>1. 0 * RateBps = 0
    BY ConstantTypes
  <2>2. QueueNow' = Greater(0, bits * NsPerSec - 0)
    BY <1>1, <2>1 DEF QueueNow
  <2> QED
    BY <1>2, <2>2 DEF Greater
<1>4. IdleNow' = IdleNow
  <2> DEFINE start == throughput_stats.program_start_ns
             total == throughput_stats.total_zero_buffer_ns
             last == buffer_state.last_update_ns
  <2>1. /\ start \in Nat /\ total \in Nat /\ last \in Nat
        /\ start <= last /\ last <= now /\ total <= last - start
        /\ now < WordMod /\ WordMod \in Nat
    BY ConstantTypes
    DEF LinkInv, IInv, TypeOK, BufferState, ThroughputStats, ClocksAndRounds,
        IdleWithinUptime, Word
  <2>2. AtZero \in Nat /\ AtZero <= IF last = 0 THEN 0 ELSE now - last
    BY AtZeroBounded, ElapsedExact DEF LinkInv
  <2>3. total + AtZero \in Word
    BY <1>1, <2>1, <2>2 DEF Word
  <2>4. throughput_stats'.total_zero_buffer_ns = total + AtZero
    BY <2>3, U64Exact DEF CountStats, Counted
  <2>5. Greater(0, Since' - Lasts') = 0
    <3> DEFINE lasts == Lasts'
    <3>1. lasts \in Nat
      BY <1>2
    <3> HIDE DEF lasts
    <3>2. Greater(0, 0 - lasts) = 0
      BY <3>1 DEF Greater
    <3> QED
      BY <1>1, <3>2 DEF lasts
  <2>6. IdleNow' = total + AtZero
    <3>1. IdleNow' = throughput_stats'.total_zero_buffer_ns
                       + Greater(0, Since' - Lasts')
      BY DEF IdleNow
    <3> QED
      BY <2>1, <2>2, <2>4, <2>5, <3>1
  <2> QED
    BY <2>6, PacketFindsBacklog DEF IdleNow
<1>5. WindowNow' = WindowSeen(window_state')
  <2>1. CASE window_state'.is_window_active = 0
    BY <2>1 DEF WindowNow, WindowSeen
  <2>2. CASE window_state'.is_window_active # 0
    <3> DEFINE end == window_state'.window_end_ns
               zero == window_state'.window_zero_buffer_ns
    <3>1. end \in Nat /\ zero \in Nat
      BY ConstantTypes DEF WindowState, Word
    <3>2. Greater(0, Lesser(now, end) - now - Lasts') = 0
      <4> HIDE DEF end
      <4>1. Lesser(now, end) \in Nat /\ Lesser(now, end) <= now
        BY <1>1, <3>1 DEF Lesser
      <4> QED
        BY <1>1, <1>2, <4>1 DEF Greater
    <3>3. WindowNow' = [round |-> window_state'.window_count,
                        left |-> Greater(0, end - now),
                        idle |-> zero + Greater(0, Lesser(now, end) - now - Lasts')]
      BY <2>2 DEF WindowNow
    <3>4. zero + Greater(0, Lesser(now, end) - now - Lasts') = zero
      BY <3>1, <3>2
    <3> QED
      BY <2>2, <3>3, <3>4 DEF WindowSeen
  <2> QED
    BY <2>1, <2>2
<1> QED
  BY <1>3, <1>4, <1>5

(* The window that a drop leaves is the one the link opens.                 *)
LEMMA DropLeavesWindow ==
  ASSUME LinkInv, NoLongPause
  PROVE  WindowSeen(OpenWindow(params, CurrentWindow, now))
           = IF Link!NewWindow.round > 0
             THEN Link!NewWindow
             ELSE [round |-> 1, left |-> WindowNs(params), idle |-> 0]
<1> DEFINE w == CurrentWindow
<1>1. WindowSeen(w) = Link!NewWindow
  BY PacketLeavesWindow
<1>2. /\ w \in WindowState /\ w.is_window_active \in {0, 1}
      /\ w.window_count \in Nat
      /\ w.is_window_active = 1 => w.window_count >= 1
  BY WindowIsAhead, ConstantTypes DEF WindowState, Word
<1> HIDE DEF w
<1>3. CASE w.is_window_active = 1
  <2>1. Link!NewWindow.round > 0
    BY <1>1, <1>2, <1>3 DEF WindowSeen
  <2>2. OpenWindow(params, w, now) = w
    BY <1>3 DEF OpenWindow
  <2> QED
    BY <1>1, <2>1, <2>2 DEF w
<1>4. CASE w.is_window_active = 0
  <2> DEFINE o == OpenWindow(params, w, now)
  <2>1. ~ (Link!NewWindow.round > 0)
    BY <1>1, <1>4 DEF WindowSeen
  <2>2. /\ o.is_window_active = 1 /\ o.window_count = 1
        /\ o.window_zero_buffer_ns = 0
        /\ o.window_end_ns = now + WindowNs(params)
    BY <1>4, WindowEndExact DEF OpenWindow, LinkInv
  <2> HIDE DEF o
  <2>3. Greater(0, o.window_end_ns - now) = WindowNs(params)
    BY <2>2, LinkFacts, ConstantTypes DEF Greater
  <2>4. WindowSeen(o) = [round |-> 1, left |-> WindowNs(params), idle |-> 0]
    BY <2>2, <2>3 DEF WindowSeen
  <2> QED
    BY <2>1, <2>4 DEF w, o
<1> QED
  BY <1>2, <1>3, <1>4

(* A data packet is an arrival at the link.                                 *)
LEMMA AcceptIsArrival ==
  ASSUME LinkInv, NoLongPause, NEW i \in Interfaces, NEW size \in PacketBits,
         Accept(i, size)
  PROVE  Link!LArrive(size)
<1> DEFINE bits == Link!Held + size
<1>1. Link!Fits(size) /\ bits \in Nat /\ U64(CurrentBuffer.current_buffer_bits + size) = bits
  <2>1. Link!Held \in Nat /\ Link!Held <= MaxThresholdMtu * MtuBits
    BY PassedIfItFits
  <2>2. U64(Link!Held + size) = Link!Held + size /\ size \in Nat
    BY <2>1, ExceedsExact, ConstantTypes
  <2> QED
    BY <2>1, <2>2, PassedIfItFits, PacketFindsBacklog DEF Accept
<1>2. /\ buffer_state' = [CurrentBuffer EXCEPT !.current_buffer_bits = bits,
                                               !.last_update_ns = now]
      /\ window_state' = CurrentWindow
      /\ CountStats /\ now' = now /\ avg_queue_bits' = avg_queue_bits
  BY <1>1 DEF Accept
<1>3. CurrentBuffer \in BufferState
  BY CurrentBufferBounded DEF LinkInv
<1>4. /\ buffer_state'.current_buffer_bits = bits
      /\ buffer_state'.last_update_ns = now
      /\ buffer_state'.current_threshold_mtu = Link!NewThr
      /\ buffer_state'.ssthresh_mtu = Link!NewSsthr
  BY <1>2, <1>3, PacketFindsThresholds DEF BufferState
<1>5. window_state' \in WindowState
  BY <1>2, WindowIsAhead
<1> HIDE DEF bits
<1>6. /\ QueueNow' = bits * NsPerSec
      /\ IdleNow' = IdleNow
      /\ WindowNow' = WindowSeen(CurrentWindow)
  BY <1>1, <1>2, <1>4, <1>5, PacketRecorded
<1>7. WindowNow' = Link!NewWindow /\ now # 0
  BY <1>6, PacketLeavesWindow, LinkFacts
<1> QED
  BY <1>1, <1>2, <1>4, <1>6, <1>7 DEF Link!LArrive, bits

LEMMA DropIsArrival ==
  ASSUME LinkInv, NoLongPause, NEW i \in Interfaces, NEW size \in PacketBits,
         Drop(i, size)
  PROVE  Link!LArrive(size)
<1> DEFINE bits == Link!Held
<1>1. ~ Link!Fits(size) /\ bits \in Nat /\ CurrentBuffer.current_buffer_bits = bits
  BY PassedIfItFits, PacketFindsBacklog DEF Drop
<1>2. /\ buffer_state' = [CurrentBuffer EXCEPT !.last_update_ns = now]
      /\ window_state' = OpenWindow(params, CurrentWindow, now)
      /\ CountStats /\ now' = now /\ avg_queue_bits' = avg_queue_bits
  BY DEF Drop
<1>3. CurrentBuffer \in BufferState
  BY CurrentBufferBounded DEF LinkInv
<1>4. /\ buffer_state'.current_buffer_bits = bits
      /\ buffer_state'.last_update_ns = now
      /\ buffer_state'.current_threshold_mtu = Link!NewThr
      /\ buffer_state'.ssthresh_mtu = Link!NewSsthr
  BY <1>1, <1>2, <1>3, PacketFindsThresholds DEF BufferState
<1>5. window_state' \in WindowState
  BY <1>2, OpenedWindowSound DEF LinkInv, WindowSound
<1> HIDE DEF bits
<1>6. /\ QueueNow' = bits * NsPerSec
      /\ IdleNow' = IdleNow
      /\ WindowNow' = WindowSeen(OpenWindow(params, CurrentWindow, now))
  BY <1>1, <1>2, <1>4, <1>5, PacketRecorded
<1>7. now # 0
  BY LinkFacts
<1> QED
  BY <1>1, <1>2, <1>4, <1>6, <1>7, DropLeavesWindow DEF Link!LArrive, bits

-----------------------------------------------------------------------------
(* The invariant is inductive.                                              *)

LEMMA InitLinkInv == Init => LinkInv
BY InitIInv, ConstantTypes DEF Init, LinkInv, ZeroWindow

LEMMA NextLinkInv == AveragesFit /\ LinkInv /\ [Next]_vars => LinkInv'
<1> SUFFICES ASSUME AveragesFit, LinkInv, [Next]_vars PROVE LinkInv'
  OBVIOUS
<1>0. IInv'
  BY NextIInv DEF LinkInv
<1>1. ASSUME NEW i \in Interfaces, NEW size \in PacketBits, Drop(i, size)
      PROVE  LinkInv'
  <2>1. /\ buffer_state' = [CurrentBuffer EXCEPT !.last_update_ns = now]
        /\ window_state' = OpenWindow(params, CurrentWindow, now)
        /\ avg_queue_bits' = avg_queue_bits
    BY <1>1 DEF Drop
  <2>2. buffer_state'.last_update_ns = now /\ now # 0
    BY <2>1, CurrentBufferBounded, LinkFacts DEF LinkInv, BufferState
  <2>3. window_state'.is_window_active = 1 => now <= window_state'.window_end_ns
    BY <2>1, WindowIsAhead, WindowEndExact, LinkFacts, ConstantTypes
    DEF OpenWindow, LinkInv
  <2> QED
    BY <1>0, <2>1, <2>2, <2>3 DEF LinkInv
<1>2. ASSUME NEW i \in Interfaces, NEW size \in PacketBits, Accept(i, size)
      PROVE  LinkInv'
  <2>1. /\ buffer_state'.last_update_ns = now
        /\ window_state' = CurrentWindow
        /\ avg_queue_bits' = avg_queue_bits
    BY <1>2, CurrentBufferBounded DEF Accept, LinkInv, BufferState
  <2>2. now # 0
    BY LinkFacts
  <2> QED
    BY <1>0, <2>1, <2>2, WindowIsAhead DEF LinkInv
<1>3. ASSUME NEW i \in Interfaces, NEW kind \in {"runt", "ssh"},
             PassUnaccounted(i, kind)
      PROVE  LinkInv'
  BY <1>0, <1>3 DEF PassUnaccounted, LinkInv
<1>4. ASSUME NEW i \in Interfaces, DropUnlisted(i)
      PROVE  LinkInv'
  BY <1>0, <1>4 DEF DropUnlisted, LinkInv
<1>5. ASSUME NEW a \in AvgBits, PublishAvg(a)
      PROVE  LinkInv'
  BY <1>0, <1>5 DEF PublishAvg, AveragesFit, LinkInv
<1>6. ASSUME Tick
      PROVE  LinkInv'
  BY <1>0, <1>6 DEF Tick, LinkInv
<1>7. CASE UNCHANGED vars
  BY <1>0, <1>7 DEF vars, LinkInv
<1> QED
  BY <1>1, <1>2, <1>3, <1>4, <1>5, <1>6, <1>7 DEF Next

-----------------------------------------------------------------------------
(* The refinement.                                                          *)

(* The configured program is a link at rest.                                *)
LEMMA InitIsInit == Init => Link!LInit
<1> SUFFICES ASSUME Init PROVE Link!LInit
  OBVIOUS
<1>1. 0 * NsPerSec = 0 /\ 0 * RateBps = 0 /\ 0 \div RateBps = 0
  BY QuotientUnique, ConstantTypes
<1>2. Since = 0 /\ Lasts = 0
  BY <1>1 DEF Init, Since, Lasts
<1>3. QueueNow = 0 /\ IdleNow = 0
  BY <1>1, <1>2 DEF Init, QueueNow, IdleNow, ZeroStats, Greater
<1>4. WindowNow = Link!Closed
  BY DEF Init, ZeroWindow, WindowNow, Link!Closed
<1> QED
  BY <1>3, <1>4 DEF Init, Link!LInit

(* What the link is computed from is unchanged, so is the link.             *)
LEMMA SameLink ==
  ASSUME UNCHANGED <<buffer_state, window_state, throughput_stats, now>>
  PROVE  /\ UNCHANGED <<QueueNow, IdleNow, WindowNow>>
         /\ avg_queue_bits' = avg_queue_bits => UNCHANGED Link!lvars
<1>1. UNCHANGED <<Since, Lasts>>
  BY DEF Since, Lasts
<1>2. UNCHANGED <<QueueNow, IdleNow, WindowNow>>
  BY <1>1 DEF QueueNow, IdleNow, WindowNow
<1> QED
  BY <1>2 DEF Link!lvars

(* Every step of the handler is a step of the link, or changes nothing.     *)
LEMMA StepIsStep ==
  LinkInv /\ NoLongPause /\ [Next]_vars => [Link!LNext]_(Link!lvars)
<1> SUFFICES ASSUME LinkInv, NoLongPause, [Next]_vars
             PROVE  Link!LNext \/ UNCHANGED Link!lvars
  OBVIOUS
<1>1. ASSUME NEW i \in Interfaces, NEW size \in PacketBits, Drop(i, size)
      PROVE  Link!LNext
  BY <1>1, DropIsArrival DEF Link!LNext
<1>2. ASSUME NEW i \in Interfaces, NEW size \in PacketBits, Accept(i, size)
      PROVE  Link!LNext
  BY <1>2, AcceptIsArrival DEF Link!LNext
<1>3. ASSUME NEW i \in Interfaces, NEW kind \in {"runt", "ssh"},
             PassUnaccounted(i, kind)
      PROVE  UNCHANGED Link!lvars
  BY <1>3, SameLink DEF PassUnaccounted
<1>4. ASSUME NEW i \in Interfaces, DropUnlisted(i)
      PROVE  UNCHANGED Link!lvars
  BY <1>4, SameLink DEF DropUnlisted
<1>5. ASSUME NEW a \in AvgBits, PublishAvg(a)
      PROVE  Link!LNext
  BY <1>5, SameLink DEF PublishAvg, Link!LPublish, Link!LNext
<1>6. ASSUME Tick
      PROVE  Link!LNext
  BY <1>6, TickIsTick DEF Link!LNext
<1>7. CASE UNCHANGED vars
  BY <1>7, SameLink DEF vars
<1> QED
  BY <1>1, <1>2, <1>3, <1>4, <1>5, <1>6, <1>7 DEF Next

(* As long as the averages userspace publishes are lengths the buffer can   *)
(* have and no pause makes elapsed_ns * rate_bps wrap, what the handler     *)
(* computes from timestamps is a queue drained at every tick: the same      *)
(* backlog, idle time, windows, thresholds and drops, at every instant.     *)
THEOREM HandlerImplementsLink ==
  ASSUME AveragesFit
  PROVE  Spec /\ []NoLongPause => LinkSpec
<1>1. Init => LinkInv /\ Link!LInit
  BY InitLinkInv, InitIsInit
<1>2. LinkInv /\ [Next]_vars => LinkInv'
  BY NextLinkInv
<1>3. LinkInv /\ NoLongPause /\ [Next]_vars => [Link!LNext]_(Link!lvars)
  BY StepIsStep
<1> QED
  BY <1>1, <1>2, <1>3, PTL DEF Spec, LinkSpec, Link!LSpec
=============================================================================
