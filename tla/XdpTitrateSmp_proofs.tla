------------------------ MODULE XdpTitrateSmp_proofs ------------------------
(***************************************************************************)
(* The buffer stays bounded for any number of CPUs and any interleaving of *)
(* their handlers.                                                         *)
(***************************************************************************)
EXTENDS XdpTitrateSmp, TitrateOps_proofs

Limit == Params.max_threshold_mtu * MtuBits

(* The inductive invariant: what a handler has in its registers was once in *)
(* the map, hence is bounded, and a packet that is to be passed fits on top *)
(* of the length that was tested, whatever has become of the map since.     *)
SmpInv ==
  /\ TypeOK
  /\ BufferBounded
  /\ \A c \in CPUs :
       /\ cpu[c].bits <= Limit
       /\ cpu[c].pc # "idle" => cpu[c].size \in PacketBits
       /\ cpu[c].pc = "pass" => cpu[c].bits + cpu[c].size <= Limit

LEMMA SmpConstants ==
  /\ 0 \in Word /\ 1 \in Word /\ WordMod \in Nat
  /\ Limit \in Nat
  /\ Params \in RateLimitParams
  /\ MaxTime \in Nat \ {0} /\ 0 .. MaxTime \subseteq Word
  /\ PacketBits \subseteq Word /\ MaxPackets \in Nat
BY SmpAssumption, OpsAssumption DEF Word, Limit, RateLimitParams

(* The admission test passes only what fits below the maximum threshold.    *)
LEMMA PassedFits ==
  ASSUME NEW bits \in Nat, bits <= Limit, NEW size \in PacketBits,
         ~ Exceeds(bits, size, Params.max_threshold_mtu)
  PROVE  bits + size <= Limit
<1>1. size \in Nat /\ Limit + size < WordMod
  BY SmpAssumption DEF Word, Limit
<1>2. bits + size \in Word /\ Limit \in Word
  BY <1>1, SmpConstants DEF Word
<1>3. Exceeds(bits, size, Params.max_threshold_mtu)
        <=> U64(bits + size) > U64(Limit)
  BY DEF Exceeds, Limit
<1> QED
  BY <1>1, <1>2, <1>3, U64Exact, SmpConstants

LEMMA IdleType ==
  /\ Idle \in Registers
  /\ \A size \in PacketBits, t \in 0 .. MaxTime :
       [Idle EXCEPT !.pc = "elapsed", !.size = size, !.now = t] \in Registers
<1>1. 0 \in 0 .. MaxTime /\ 0 \in Word /\ 0 \in {0} \cup PacketBits
  BY SmpConstants
<1>2. Idle \in Registers
  BY <1>1 DEF Idle, Registers
<1>3. ASSUME NEW size \in PacketBits, NEW t \in 0 .. MaxTime
      PROVE  [Idle EXCEPT !.pc = "elapsed", !.size = size, !.now = t] \in Registers
  BY <1>1 DEF Idle, Registers
<1> QED
  BY <1>2, <1>3

LEMMA SmpInit == Init => SmpInv
<1> SUFFICES ASSUME Init PROVE SmpInv
  OBVIOUS
<1>1. buffer_state \in BufferState /\ buffer_state.current_buffer_bits = 0
  BY SmpConstants DEF Init, BufferState, RateLimitParams
<1>2. window_state \in WindowState /\ throughput_stats \in ThroughputStats
  BY SmpConstants DEF Init, ZeroWindow, WindowState, ZeroStats, ThroughputStats
<1>3. TypeOK
  <2>1. cpu \in [CPUs -> Registers]
    BY IdleType DEF Init
  <2>2. now \in 1 .. MaxTime /\ packets \in 0 .. MaxPackets
    BY SmpConstants DEF Init
  <2> QED
    BY <1>1, <1>2, <2>1, <2>2 DEF Init, TypeOK
<1>4. BufferBounded
  BY <1>1, SmpConstants DEF BufferBounded, Limit
<1> QED
  BY <1>3, <1>4, SmpConstants DEF Init, Idle, SmpInv

(* What a handler has loaded, as the buffer state it works on.              *)
LEMMA SeenType ==
  ASSUME SmpInv, NEW c \in CPUs
  PROVE  /\ Seen(c) \in BufferState
         /\ Seen(c).current_buffer_bits = cpu[c].bits
         /\ cpu[c].bits \in Nat /\ cpu[c].bits <= Limit
         /\ cpu[c].elapsed \in Word /\ cpu[c].now \in Word
         /\ cpu[c].size \in Nat
BY SmpConstants DEF SmpInv, TypeOK, Registers, BufferState, Seen, Word

LEMMA SmpNext == SmpInv /\ [Next]_pvars => SmpInv'
<1> SUFFICES ASSUME SmpInv, [Next]_pvars PROVE SmpInv'
  OBVIOUS
<1> USE DEF history, maps
<1>0. /\ TypeOK /\ BufferBounded
      /\ buffer_state.current_buffer_bits \in Nat
      /\ buffer_state.current_buffer_bits <= Limit
      /\ buffer_state \in BufferState
      /\ window_state \in WindowState
  BY DEF SmpInv, TypeOK, Registers, BufferState, Word, BufferBounded, Limit
<1>1. ASSUME NEW c \in CPUs, NEW size \in PacketBits, ReadClock(c, size)
      PROVE  SmpInv'
  <2>1. TypeOK'
    <3>1. now \in 0 .. MaxTime /\ packets + 1 \in 0 .. MaxPackets
      BY <1>0, <1>1, SmpConstants DEF ReadClock, TypeOK, Registers
    <3>2. [Idle EXCEPT !.pc = "elapsed", !.size = size, !.now = now] \in Registers
      BY <3>1, IdleType
    <3> QED
      BY <1>0, <1>1, <3>1, <3>2 DEF ReadClock, TypeOK, Registers
  <2> QED
    BY <1>0, <1>1, <2>1, SmpConstants DEF SmpInv, ReadClock, Idle, BufferBounded, TypeOK, Registers
<1>2. ASSUME NEW c \in CPUs, ReadElapsed(c)
      PROVE  SmpInv'
  <2>1. Elapsed(buffer_state, cpu[c].now) \in Word
    BY <1>0, SeenType, ElapsedType
  <2>2. /\ buffer_state' \in BufferState
        /\ buffer_state'.current_buffer_bits = buffer_state.current_buffer_bits
    BY <1>0, <1>2, SeenType DEF ReadElapsed, BufferState
  <2>3. throughput_stats' \in ThroughputStats
    BY <1>0, <1>2, SeenType DEF ReadElapsed, TypeOK, Registers, ThroughputStats
  <2>4. TypeOK'
    BY <1>0, <1>2, <2>1, <2>2, <2>3 DEF ReadElapsed, TypeOK, Registers
  <2> QED
    BY <1>0, <1>2, <2>2, <2>4 DEF SmpInv, ReadElapsed, BufferBounded, TypeOK, Registers
<1>3. ASSUME NEW c \in CPUs, LoadBuffer(c)
      PROVE  SmpInv'
  <2>1. TypeOK'
    BY <1>0, <1>3 DEF LoadBuffer, TypeOK, Registers, BufferState
  <2> QED
    BY <1>0, <1>3, <2>1 DEF SmpInv, LoadBuffer, BufferBounded, TypeOK, Registers
<1>4. ASSUME NEW c \in CPUs, AccountTime(c)
      PROVE  SmpInv'
  <2> DEFINE atZero == TimeAtZero(Params, Seen(c), cpu[c].elapsed)
  <2>1. atZero \in Word
    BY SeenType, TimeAtZeroType, SmpConstants
  <2>2. window_state' \in WindowState
    BY <1>0, <1>4, <2>1, SeenType, AccountIdleType DEF AccountTime
  <2>3. throughput_stats' \in ThroughputStats
    <3>1. throughput_stats.total_zero_buffer_ns + atZero \in Int
      BY <1>0, <2>1 DEF TypeOK, Registers, ThroughputStats, Word
    <3>2. U64(throughput_stats.total_zero_buffer_ns + atZero) \in Word
      BY <3>1, U64Type
    <3> QED
      BY <1>0, <1>4, <3>2 DEF AccountTime, TypeOK, Registers, ThroughputStats
  <2>4. TypeOK'
    BY <1>0, <1>4, <2>2, <2>3 DEF AccountTime, TypeOK, Registers
  <2> QED
    BY <1>0, <1>4, <2>4 DEF SmpInv, AccountTime, BufferBounded, TypeOK, Registers
<1>5. ASSUME NEW c \in CPUs, StoreDepleted(c)
      PROVE  SmpInv'
  <2>1. /\ buffer_state' \in BufferState
        /\ buffer_state'.current_buffer_bits \in 0 .. cpu[c].bits
    BY <1>5, SeenType, DepleteType, SmpConstants DEF StoreDepleted
  <2>2. BufferBounded'
    BY <2>1, SeenType, SmpConstants DEF BufferBounded, Limit
  <2>3. TypeOK'
    BY <1>0, <1>5, <2>1 DEF StoreDepleted, TypeOK, Registers
  <2> QED
    BY <1>0, <1>5, <2>2, <2>3 DEF SmpInv, StoreDepleted, TypeOK, Registers
<1>6. ASSUME NEW c \in CPUs, ExpireWindow(c)
      PROVE  SmpInv'
  <2>1. /\ buffer_state' \in BufferState
        /\ buffer_state'.current_buffer_bits = buffer_state.current_buffer_bits
        /\ window_state' \in WindowState
    <3>1. /\ AdjustState(Params, buffer_state, window_state) \in BufferState
          /\ AdjustState(Params, buffer_state, window_state).current_buffer_bits
               = buffer_state.current_buffer_bits
      BY <1>0, AdjustStateType, SmpConstants
    <3>2. AdjustWindow(Params, window_state, cpu[c].now) \in WindowState
      BY <1>0, SeenType, WindowType, SmpConstants
    <3> QED
      BY <1>0, <1>6, <3>1, <3>2 DEF ExpireWindow
  <2>2. TypeOK'
    BY <1>0, <1>6, <2>1 DEF ExpireWindow, TypeOK, Registers
  <2> QED
    BY <1>0, <1>6, <2>1, <2>2 DEF SmpInv, ExpireWindow, BufferBounded, TypeOK, Registers
<1>7. ASSUME NEW c \in CPUs, NEW avg \in AvgBits, Admit(c, avg)
      PROVE  SmpInv'
  <2> DEFINE bits == buffer_state.current_buffer_bits
             fits == ~ MustDrop(Params, buffer_state, avg, cpu[c].size)
  <2>1. cpu[c].size \in PacketBits
    BY <1>7 DEF Admit, SmpInv
  <2>2. fits => bits + cpu[c].size <= Limit
    BY <1>0, <2>1, PassedFits DEF MustDrop
  <2>3. cpu' = [cpu EXCEPT ![c].bits = bits, ![c].pc = IF fits THEN "pass" ELSE "drop"]
    BY <1>7 DEF Admit
  <2> HIDE DEF fits
  <2>4. TypeOK'
    BY <1>0, <1>7, <2>3 DEF Admit, TypeOK, Registers, BufferState
  <2>5. BufferBounded'
    BY <1>0, <1>7 DEF Admit, BufferBounded
  <2>6. ASSUME NEW d \in CPUs
        PROVE  /\ cpu'[d].bits <= Limit
               /\ cpu'[d].pc # "idle" => cpu'[d].size \in PacketBits
               /\ cpu'[d].pc = "pass" => cpu'[d].bits + cpu'[d].size <= Limit
    <3>1. CASE d = c
      BY <1>0, <2>1, <2>2, <2>3, <3>1 DEF TypeOK, Registers
    <3>2. CASE d # c
      BY <1>0, <2>3, <3>2 DEF SmpInv, TypeOK, Registers
    <3> QED
      BY <3>1, <3>2
  <2> QED
    BY <2>4, <2>5, <2>6 DEF SmpInv, Limit
<1>8. ASSUME NEW c \in CPUs, Drop(c)
      PROVE  SmpInv'
  <2>1. /\ buffer_state' \in BufferState
        /\ buffer_state'.current_buffer_bits = buffer_state.current_buffer_bits
        /\ window_state' \in WindowState
    BY <1>0, <1>8, SeenType, WindowType, SmpConstants DEF Drop, BufferState
  <2>2. TypeOK'
    BY <1>0, <1>8, <2>1, IdleType DEF Drop, TypeOK, Registers
  <2> QED
    BY <1>0, <1>8, <2>1, <2>2, SmpConstants DEF SmpInv, Drop, Idle, BufferBounded, TypeOK, Registers
<1>9. ASSUME NEW c \in CPUs, Accept(c)
      PROVE  SmpInv'
  <2> DEFINE bits == cpu[c].bits + cpu[c].size
  <2>1. bits \in Nat /\ bits <= Limit /\ bits \in Word
    <3>1. cpu[c].size \in PacketBits /\ bits <= Limit
      BY <1>9 DEF Accept, SmpInv
    <3>2. Limit + cpu[c].size < WordMod
      BY <3>1, SmpAssumption DEF Limit
    <3> QED
      BY <3>1, <3>2, SeenType, SmpConstants DEF Word
  <2>2. buffer_state' = [buffer_state EXCEPT !.current_buffer_bits = bits,
                                             !.last_update_ns = cpu[c].now]
    BY <1>9, <2>1, U64Exact DEF Accept
  <2> HIDE DEF bits
  <2>3. buffer_state' \in BufferState /\ buffer_state'.current_buffer_bits = bits
    BY <1>0, <2>1, <2>2, SeenType DEF BufferState
  <2>4. TypeOK'
    <3>1. passed_bits + cpu[c].size \in Nat
      BY <1>0, SeenType DEF TypeOK, Registers
    <3> QED
      BY <1>0, <1>9, <2>3, <3>1, IdleType DEF Accept, TypeOK, Registers
  <2>5. BufferBounded'
    BY <2>1, <2>3 DEF BufferBounded, Limit
  <2> QED
    BY <1>0, <1>9, <2>4, <2>5, SmpConstants DEF SmpInv, Accept, Idle, TypeOK, Registers
<1>10. ASSUME Tick
       PROVE  SmpInv'
  <2>1. now' \in 1 .. MaxTime
    BY <1>0, <1>10, SmpConstants DEF Tick, TypeOK, Registers
  <2> QED
    BY <1>0, <1>10, <2>1 DEF SmpInv, Tick, TypeOK, Registers, BufferBounded
<1>11. CASE UNCHANGED pvars
  BY <1>0, <1>11 DEF pvars, SmpInv, TypeOK, Registers, BufferBounded
<1> QED
  BY <1>1, <1>2, <1>3, <1>4, <1>5, <1>6, <1>7, <1>8, <1>9, <1>10, <1>11 DEF Next

THEOREM SmpInvariance == Spec => []SmpInv
BY SmpInit, SmpNext, PTL DEF Spec

(* The maps keep their types on any number of CPUs.                         *)
THEOREM SmpTypeCorrect == Spec => []TypeOK
<1>1. SmpInv => TypeOK
  BY DEF SmpInv
<1> QED
  BY <1>1, SmpInvariance, PTL

(* However the handlers of any number of CPUs interleave, none stores a     *)
(* buffer length above the maximum threshold.                               *)
THEOREM SmpBufferStaysBounded == Spec => []BufferBounded
<1>1. SmpInv => BufferBounded
  BY DEF SmpInv
<1> QED
  BY <1>1, SmpInvariance, PTL

-----------------------------------------------------------------------------
(* Handlers that have not overlapped.  The invariant follows the one busy   *)
(* handler through its steps.  Its clock reading is not before the last     *)
(* update, and time passes from the one to the other piece by piece: the    *)
(* window is credited with it at one step, the buffer depleted at another,  *)
(* and only the store of the verdict dates the state.                       *)

Last == buffer_state.last_update_ns
Start == throughput_stats.program_start_ns

WindowAt(w, t) ==
  w.is_window_active = 1 =>
    /\ WindowNs(Params) < w.window_end_ns
    /\ w.window_count \in 1 .. RoundsOf(Params)
    /\ w.window_end_ns - WindowNs(Params) <= t
    /\ w.window_zero_buffer_ns
         <= Lesser(t, w.window_end_ns) - (w.window_end_ns - WindowNs(Params))

SentBy(t) ==
  (passed_bits - buffer_state.current_buffer_bits) * NsPerSec
    <= (t - Start) * Params.rate_bps

Thresholds ==
  /\ Within(Params, buffer_state.current_threshold_mtu)
  /\ Within(Params, buffer_state.ssthresh_mtu)

Dated == Start <= Last /\ (Start = 0 => Last = 0)

HandlerSound(c) ==
  /\ cpu[c].now \in 1 .. now /\ Last <= cpu[c].now
  /\ cpu[c].pc # "elapsed" => Last >= 1 /\ cpu[c].elapsed = cpu[c].now - Last
  /\ cpu[c].pc \in {"account", "deplete", "pass"} =>
       cpu[c].bits = buffer_state.current_buffer_bits
  /\ WindowAt(window_state, IF cpu[c].pc \in {"elapsed", "load", "account"}
                            THEN Last ELSE cpu[c].now)
  /\ SentBy(IF cpu[c].pc \in {"elapsed", "load", "account", "deplete"}
            THEN Last ELSE cpu[c].now)

Busy(c) == cpu[c].pc # "idle"

Serial ==
  /\ \A c, d \in CPUs : Busy(c) /\ Busy(d) => c = d
  /\ Thresholds
  /\ Dated
  /\ AllIdle => Last <= now /\ WindowAt(window_state, Last) /\ SentBy(Last)
  /\ \A c \in CPUs : Busy(c) => HandlerSound(c)

SerialInv == ~ overlapped => Serial

LEMMA SerialConstants ==
  /\ WindowNs(Params) \in Nat /\ RoundsOf(Params) \in Nat \ {0}
  /\ MaxTime + WindowNs(Params) < WordMod
  /\ NsPerSec \in Nat /\ Params.rate_bps \in Nat /\ Params.rate_bps \in Word
  /\ Params.windows_considered \in Nat
  /\ Params.windows_considered <= RoundsOf(Params)
  /\ RoundsOf(Params) < WordMod
<1>1. Params.windows_considered \in Word /\ Params.rate_bps \in Word
  BY SmpConstants DEF RateLimitParams
<1>2. RoundsOf(Params) < WordMod
  BY <1>1, OpsAssumption DEF RoundsOf, Greater, Word
<1> QED
  BY <1>1, <1>2, FlagsAssumption, UsableTypes, OpsAssumption DEF Word

(* What the types give of the maps and of a handler's registers.            *)
LEMMA SerialTypes ==
  ASSUME SmpInv
  PROVE  /\ buffer_state \in BufferState /\ window_state \in WindowState
         /\ throughput_stats \in ThroughputStats
         /\ Last \in Nat /\ Start \in Nat /\ now \in Nat /\ passed_bits \in Nat
         /\ buffer_state.current_buffer_bits \in Nat
         /\ now <= MaxTime
         /\ cpu \in [CPUs -> Registers]
BY SmpConstants DEF SmpInv, TypeOK, BufferState, ThroughputStats, Word, Last, Start

(* A window stays sound as time goes by.                                    *)
LEMMA WindowLater ==
  ASSUME NEW w \in WindowState, NEW t \in Nat, NEW u \in Nat, t <= u,
         WindowAt(w, t)
  PROVE  WindowAt(w, u)
<1>1. w.window_end_ns \in Nat /\ w.window_zero_buffer_ns \in Nat
  BY SmpConstants DEF WindowState, Word
<1> QED
  BY <1>1, SerialConstants DEF WindowAt, Lesser

(* The idle time between the last update and the handler's clock, credited. *)
LEMMA WindowCredited ==
  ASSUME NEW w \in WindowState, NEW last \in Nat, NEW h \in Word, last <= h,
         NEW atZero \in 0 .. h - last, WindowAt(w, last)
  PROVE  WindowAt(AccountIdle(w, h, atZero), h)
<1>1. /\ w.window_end_ns \in Nat /\ w.window_zero_buffer_ns \in Nat
      /\ h \in Nat /\ atZero \in Nat /\ atZero <= h - last
  BY SmpConstants DEF WindowState, Word
<1>2. CASE w.is_window_active # 1
  BY <1>2 DEF AccountIdle, WindowAt
<1>3. CASE w.is_window_active = 1
  <2> DEFINE start == w.window_end_ns - WindowNs(Params)
  <2>1. start \in Nat /\ start <= last /\ start <= w.window_end_ns
    BY <1>1, <1>3, SerialConstants DEF WindowAt
  <2>2. w.window_zero_buffer_ns <= Lesser(last, w.window_end_ns) - start
    BY <1>3 DEF WindowAt
  <2> HIDE DEF start
  <2>3. /\ AccountIdle(w, h, atZero).is_window_active = 1
        /\ AccountIdle(w, h, atZero).window_end_ns = w.window_end_ns
        /\ AccountIdle(w, h, atZero).window_count = w.window_count
        /\ AccountIdle(w, h, atZero).window_zero_buffer_ns
             <= Lesser(h, w.window_end_ns) - start
    BY <1>1, <1>3, <2>1, <2>2, IdleCredited
  <2> QED
    BY <1>1, <1>3, <2>1, <2>3 DEF WindowAt, start
<1> QED
  BY <1>2, <1>3

(* Windows that expire and windows that open.                               *)
LEMMA WindowMoved ==
  ASSUME NEW w \in WindowState, NEW h \in Nat, h >= 1, h <= MaxTime, WindowAt(w, h)
  PROVE  /\ Expired(w, h) => WindowAt(AdjustWindow(Params, w, h), h)
         /\ WindowAt(OpenWindow(Params, w, h), h)
<1>1. /\ WindowEnd(Params, h) = h + WindowNs(Params)
      /\ WindowEnd(Params, h) \in Nat
  <2>1. h + WindowNs(Params) \in Word
    BY SerialConstants, SmpConstants DEF Word
  <2> QED
    BY <2>1, U64Exact, SerialConstants DEF WindowEnd
<1>2. ASSUME Expired(w, h) PROVE WindowAt(AdjustWindow(Params, w, h), h)
  <2>1. w.window_count \in 1 .. RoundsOf(Params)
    BY <1>2 DEF Expired, WindowAt
  <2>2. CASE w.window_zero_buffer_ns = 0 /\ w.window_count < Params.windows_considered
    <3>1. U64(w.window_count + 1) = w.window_count + 1
      BY <2>1, <2>2, SerialConstants, SmpConstants, U64Exact DEF Word
    <3>2. AdjustWindow(Params, w, h) =
            [w EXCEPT !.window_count = w.window_count + 1,
                      !.window_end_ns = h + WindowNs(Params)]
      BY <1>1, <2>2, <3>1 DEF AdjustWindow
    <3>3. w.window_count + 1 \in 1 .. RoundsOf(Params)
      BY <2>1, <2>2, SerialConstants
    <3>4. /\ AdjustWindow(Params, w, h).window_count = w.window_count + 1
          /\ AdjustWindow(Params, w, h).window_end_ns = h + WindowNs(Params)
          /\ AdjustWindow(Params, w, h).window_zero_buffer_ns = 0
      BY <2>2, <3>2 DEF WindowState
    <3> QED
      BY <3>3, <3>4, SerialConstants DEF WindowAt, Lesser
  <2>3. CASE ~ (w.window_zero_buffer_ns = 0
                /\ w.window_count < Params.windows_considered)
    <3>1. AdjustWindow(Params, w, h) = [w EXCEPT !.is_window_active = 0]
      BY <2>3 DEF AdjustWindow
    <3>2. AdjustWindow(Params, w, h).is_window_active = 0
      BY <3>1 DEF WindowState
    <3> QED
      BY <3>2 DEF WindowAt
  <2> QED
    BY <2>2, <2>3
<1>3. WindowAt(OpenWindow(Params, w, h), h)
  <2>1. CASE w.is_window_active = 1
    BY <2>1 DEF OpenWindow
  <2>2. CASE w.is_window_active # 1
    BY <1>1, <2>2, SerialConstants DEF OpenWindow, WindowAt, Lesser
  <2> QED
    BY <2>1, <2>2
<1> QED
  BY <1>2, <1>3

(* The thresholds after an expiry.                                          *)
LEMMA AdjustedWithin ==
  ASSUME NEW s \in BufferState, NEW w \in WindowState, NEW h \in Nat,
         Expired(w, h), WindowAt(w, h),
         Within(Params, s.current_threshold_mtu), Within(Params, s.ssthresh_mtu)
  PROVE  /\ Within(Params, AdjustState(Params, s, w).current_threshold_mtu)
         /\ Within(Params, AdjustState(Params, s, w).ssthresh_mtu)
<1> DEFINE a == AdjustState(Params, s, w)
<1>1. Usable(Params)
  BY FlagsAssumption
<1>2. CASE w.window_zero_buffer_ns > 0
  <2>1. w.window_count \in 1 .. RoundsOf(Params)
    BY DEF Expired, WindowAt
  <2>2. w.window_zero_buffer_ns \in 1 .. WindowNs(Params)
    <3>1. w.window_zero_buffer_ns \in Nat /\ w.window_end_ns \in Nat
      BY SmpConstants DEF WindowState, Word
    <3> QED
      BY <1>2, <3>1, SerialConstants DEF WindowAt, Expired, Lesser
  <2>3. RaisedThreshold(Params, s, w)
          \in s.current_threshold_mtu .. Params.max_threshold_mtu
    BY <1>1, <2>1, <2>2, RaisedInRange
  <2>4. Within(Params, RaisedThreshold(Params, s, w))
    BY <1>1, <2>3, UsableTypes DEF Within
  <2>5. Within(Params, RaisedSsthresh(Params, s, w))
    BY <1>1, <2>3, RaisedSsthreshInRange
  <2>6. /\ a.current_threshold_mtu = RaisedThreshold(Params, s, w)
        /\ a.ssthresh_mtu = RaisedSsthresh(Params, s, w)
    BY <1>2 DEF AdjustState, BufferState
  <2> QED
    BY <2>4, <2>5, <2>6
<1>3. CASE ~ (w.window_zero_buffer_ns > 0)
  <2>1. Within(Params, LoweredThreshold(Params, s))
    BY <1>1, LoweredInRange
  <2>2. /\ a.current_threshold_mtu = LoweredThreshold(Params, s)
        /\ a.ssthresh_mtu = s.ssthresh_mtu
    BY <1>3 DEF AdjustState, BufferState
  <2> QED
    BY <2>1, <2>2
<1> QED
  BY <1>2, <1>3

-----------------------------------------------------------------------------
(* A step of the busy handler that does not end it.                         *)
LEMMA BusyStep ==
  ASSUME SmpInv, Serial, NEW c \in CPUs, Busy(c),
         cpu' \in [CPUs -> Registers], \A d \in CPUs \ {c} : cpu'[d] = cpu[d],
         cpu'[c].pc # "idle",
         Thresholds', Dated', HandlerSound(c)'
  PROVE  Serial'
<1>1. \A d \in CPUs : Busy(d)' => d = c
  BY DEF Serial, Busy
<1>2. ~ AllIdle'
  BY DEF AllIdle
<1> QED
  BY <1>1, <1>2 DEF Serial

(* The step that ends it.                                                   *)
LEMMA LastStep ==
  ASSUME SmpInv, Serial, NEW c \in CPUs, Busy(c), cpu' = [cpu EXCEPT ![c] = Idle],
         Thresholds', Dated', (Last <= now)', WindowAt(window_state', Last'),
         SentBy(Last)'
  PROVE  Serial'
<1>1. \A d \in CPUs : ~ Busy(d)'
  BY SerialTypes DEF Serial, Busy, Idle
<1> QED
  BY <1>1 DEF Serial

(* The packet that finds every CPU idle.                                    *)
LEMMA SerialRead ==
  ASSUME SmpInv, Serial, ~ overlapped', NEW c \in CPUs, NEW size \in PacketBits,
         ReadClock(c, size)
  PROVE  Serial'
<1> DEFINE r == [Idle EXCEPT !.pc = "elapsed", !.size = size, !.now = now]
<1>1. AllIdle /\ UNCHANGED <<maps, now, passed_bits>> /\ cpu' = [cpu EXCEPT ![c] = r]
  BY DEF ReadClock, AllIdle
<1>2. r.pc = "elapsed" /\ r.now = now
  BY DEF Idle
<1> HIDE DEF r
<1>3. cpu'[c] = r /\ \A d \in CPUs \ {c} : cpu'[d] = cpu[d]
  BY <1>1, SerialTypes
<1>4. Last <= now /\ WindowAt(window_state, Last) /\ SentBy(Last)
  BY <1>1 DEF Serial
<1>5. HandlerSound(c)'
  BY <1>1, <1>2, <1>3, <1>4, SmpConstants
  DEF HandlerSound, maps, Last, Start, SentBy, WindowAt, SmpInv, TypeOK
<1>6. \A d \in CPUs : Busy(d)' => d = c
  BY <1>1, <1>3 DEF AllIdle, Busy
<1>7. ~ AllIdle'
  BY <1>2, <1>3 DEF AllIdle
<1>8. Thresholds' /\ Dated'
  BY <1>1 DEF Serial, Thresholds, Dated, maps, Last, Start
<1> QED
  BY <1>5, <1>6, <1>7, <1>8 DEF Serial

(* The first packet dates the program's start and the last update.          *)
LEMMA SerialElapsed ==
  ASSUME SmpInv, Serial, NEW c \in CPUs, ReadElapsed(c), SmpInv'
  PROVE  Serial'
<1> DEFINE h == cpu[c].now
           e == Elapsed(buffer_state, h)
<1>1. /\ Busy(c) /\ cpu[c].pc = "elapsed" /\ HandlerSound(c)
      /\ UNCHANGED <<window_state, now, passed_bits>>
      /\ cpu' = [cpu EXCEPT ![c].pc = "load", ![c].elapsed = e]
  BY DEF ReadElapsed, Busy, Serial, history
<1>2. h \in 1 .. now /\ Last <= h /\ WindowAt(window_state, Last) /\ SentBy(Last)
  BY <1>1 DEF HandlerSound
<1>3. h \in Nat /\ h \in Word /\ h >= 1
  BY <1>2, SeenType, SerialTypes
<1>4. /\ Last' = IF Last = 0 THEN h ELSE Last
      /\ Start' = IF Start = 0 THEN h ELSE Start
      /\ buffer_state'.current_buffer_bits = buffer_state.current_buffer_bits
      /\ buffer_state'.current_threshold_mtu = buffer_state.current_threshold_mtu
      /\ buffer_state'.ssthresh_mtu = buffer_state.ssthresh_mtu
  BY SerialTypes DEF ReadElapsed, Last, Start, BufferState, ThroughputStats
<1>5. e = IF Last = 0 THEN 0 ELSE h - Last
  BY <1>2, <1>3, ElapsedType, SerialTypes DEF Last
<1> HIDE DEF e
<1>6. /\ cpu'[c].pc = "load" /\ cpu'[c].now = h /\ cpu'[c].elapsed = e
      /\ \A d \in CPUs \ {c} : cpu'[d] = cpu[d]
  BY <1>1, SerialTypes DEF Registers
<1>7. Dated /\ Thresholds
  BY DEF Serial
<1>8. WindowAt(window_state', Last')
  BY <1>1, <1>2, <1>3, <1>4, WindowLater, SerialTypes
<1>9. SentBy(Last)'
  <2>1. CASE Start # 0
    BY <1>1, <1>2, <1>3, <1>4, <1>7, <2>1, SerialTypes DEF SentBy, Dated
  <2>2. CASE Start = 0
    <3>1. Last = 0 /\ Last' = h /\ Start' = h
      BY <1>4, <1>7, <2>2 DEF Dated
    <3>2. /\ (Last - Start) * Params.rate_bps = 0
          /\ (Last' - Start') * Params.rate_bps = 0
      BY <1>3, <2>2, <3>1, SerialConstants
    <3> QED
      BY <1>1, <1>2, <1>4, <3>2 DEF SentBy
  <2> QED
    BY <2>1, <2>2
<1>10. HandlerSound(c)'
  BY <1>1, <1>2, <1>3, <1>4, <1>5, <1>6, <1>8, <1>9, SerialTypes DEF HandlerSound
<1>11. Thresholds' /\ Dated'
  BY <1>2, <1>3, <1>4, <1>7, SerialTypes DEF Thresholds, Dated
<1> QED
  BY <1>1, <1>6, <1>10, <1>11, SerialTypes, BusyStep DEF SmpInv, TypeOK

LEMMA SerialLoad ==
  ASSUME SmpInv, Serial, NEW c \in CPUs, LoadBuffer(c), SmpInv'
  PROVE  Serial'
<1>1. /\ Busy(c) /\ cpu[c].pc = "load" /\ HandlerSound(c)
      /\ UNCHANGED <<maps, now, passed_bits>>
      /\ cpu' = [cpu EXCEPT ![c].pc = "account",
                            ![c].bits = buffer_state.current_buffer_bits]
  BY DEF LoadBuffer, Busy, Serial, history
<1>2. /\ cpu'[c].pc = "account" /\ cpu'[c].now = cpu[c].now
      /\ cpu'[c].elapsed = cpu[c].elapsed
      /\ cpu'[c].bits = buffer_state.current_buffer_bits
      /\ \A d \in CPUs \ {c} : cpu'[d] = cpu[d]
  BY <1>1, SerialTypes DEF Registers
<1>3. HandlerSound(c)'
  BY <1>1, <1>2 DEF HandlerSound, maps, Last, Start, SentBy
<1>4. Thresholds' /\ Dated'
  BY <1>1 DEF Serial, Thresholds, Dated, maps, Last, Start
<1> QED
  BY <1>1, <1>2, <1>3, <1>4, SerialTypes, BusyStep DEF SmpInv, TypeOK

(* The window is credited with the idle time before the handler's clock.    *)
LEMMA SerialAccount ==
  ASSUME SmpInv, Serial, NEW c \in CPUs, AccountTime(c), SmpInv'
  PROVE  Serial'
<1> DEFINE h == cpu[c].now
           atZero == TimeAtZero(Params, Seen(c), cpu[c].elapsed)
<1>1. /\ Busy(c) /\ cpu[c].pc = "account" /\ HandlerSound(c)
      /\ UNCHANGED <<buffer_state, now, passed_bits>>
      /\ window_state' = AccountIdle(window_state, h, atZero)
      /\ Start' = Start
      /\ cpu' = [cpu EXCEPT ![c].pc = "deplete"]
  <2>1. Start' = Start
    BY SerialTypes DEF AccountTime, Start, ThroughputStats
  <2> QED
    BY <2>1 DEF AccountTime, Busy, Serial, history
<1>2. /\ cpu'[c].pc = "deplete" /\ cpu'[c].now = h
      /\ cpu'[c].elapsed = cpu[c].elapsed /\ cpu'[c].bits = cpu[c].bits
      /\ \A d \in CPUs \ {c} : cpu'[d] = cpu[d]
  BY <1>1, SerialTypes DEF Registers
<1>3. /\ h \in Nat /\ h \in Word /\ Last <= h /\ cpu[c].elapsed = h - Last
      /\ WindowAt(window_state, Last)
  BY <1>1, SeenType, SerialTypes DEF HandlerSound
<1>4. atZero \in 0 .. h - Last
  <2>1. /\ Seen(c).current_buffer_bits \in Nat /\ Seen(c).current_buffer_bits <= Limit
        /\ cpu[c].elapsed \in Word
    BY SeenType
  <2>2. Seen(c).current_buffer_bits * NsPerSec <= Limit * NsPerSec
    BY <2>1, TimesMonotone, SmpConstants, SerialConstants
  <2>3. Limit * NsPerSec < WordMod
    BY FlagsAssumption DEF Limit
  <2>4. Seen(c).current_buffer_bits * NsPerSec < WordMod
    BY <2>1, <2>2, <2>3, SmpConstants, SerialConstants
  <2> QED
    BY <1>3, <2>1, <2>4, TimeAtZeroBounded, SerialConstants
<1> HIDE DEF atZero
<1>5. WindowAt(window_state', h)
  BY <1>1, <1>3, <1>4, WindowCredited, SerialTypes
<1>6. HandlerSound(c)'
  BY <1>1, <1>2, <1>5 DEF HandlerSound, Last, SentBy
<1>7. Thresholds' /\ Dated'
  BY <1>1 DEF Serial, Thresholds, Dated, Last
<1> QED
  BY <1>1, <1>2, <1>6, <1>7, SerialTypes, BusyStep DEF SmpInv, TypeOK

(* The buffer is depleted by no more than the rate allows in that time.     *)
LEMMA SerialDeplete ==
  ASSUME SmpInv, Serial, NEW c \in CPUs, StoreDepleted(c), SmpInv'
  PROVE  Serial'
<1> DEFINE h == cpu[c].now
           bits == buffer_state.current_buffer_bits
           released == ReleasedIn(Params, Seen(c), cpu[c].elapsed)
           rate == Params.rate_bps
<1>1. /\ Busy(c) /\ cpu[c].pc = "deplete" /\ HandlerSound(c)
      /\ UNCHANGED <<window_state, throughput_stats, now, passed_bits>>
      /\ buffer_state' = Deplete(Params, Seen(c), cpu[c].elapsed)
      /\ cpu' = [cpu EXCEPT ![c].pc = "expire"]
  BY DEF StoreDepleted, Busy, Serial, history
<1>2. /\ cpu'[c].pc = "expire" /\ cpu'[c].now = h
      /\ cpu'[c].elapsed = cpu[c].elapsed
      /\ \A d \in CPUs \ {c} : cpu'[d] = cpu[d]
  BY <1>1, SerialTypes DEF Registers
<1>3. /\ h \in Nat /\ Last <= h /\ Last >= 1 /\ cpu[c].elapsed = h - Last
      /\ WindowAt(window_state, h) /\ SentBy(Last) /\ cpu[c].bits = bits
      /\ h \in 1 .. now
  BY <1>1, SeenType, SerialTypes DEF HandlerSound
<1>4. Seen(c) = buffer_state
  BY <1>3, SerialTypes DEF Seen, BufferState
<1>5. /\ released \in Nat /\ released * NsPerSec <= (h - Last) * rate
      /\ buffer_state'.current_buffer_bits = bits - released
  <2>1. /\ released \in Nat
        /\ released * NsPerSec <= cpu[c].elapsed * rate
    BY ReleasedBelow, SeenType, SerialConstants
  <2>2. DepletedBits(Params, buffer_state, cpu[c].elapsed) \in Nat
    BY DepletedBelow, SeenType, SerialConstants, SerialTypes
  <2>3. buffer_state'.current_buffer_bits = bits - released
    BY <1>1, <1>4, <2>2, SerialTypes DEF Deplete, BufferState, ReleasedIn
  <2> QED
    BY <1>3, <2>1, <2>3
<1>6. /\ Last' = Last
      /\ buffer_state'.current_threshold_mtu = buffer_state.current_threshold_mtu
      /\ buffer_state'.ssthresh_mtu = buffer_state.ssthresh_mtu
  BY <1>1, <1>4, SerialTypes DEF Deplete, BufferState, Last
<1> HIDE DEF released
<1>7. SentBy(h)'
  <2> DEFINE sent == passed_bits - bits
  <2>1. sent \in Int /\ passed_bits' - buffer_state'.current_buffer_bits = sent + released
    BY <1>1, <1>5, SerialTypes
  <2>2. sent * NsPerSec <= (Last - Start) * rate
    BY <1>3 DEF SentBy
  <2>3. Last - Start \in Int /\ h - Last \in Int /\ h - Start = (Last - Start) + (h - Last)
    BY <1>3, SerialTypes
  <2>4. /\ (sent + released) * NsPerSec = sent * NsPerSec + released * NsPerSec
        /\ (h - Start) * rate = (Last - Start) * rate + (h - Last) * rate
    BY <1>5, <2>1, <2>3, TimesSum, SerialConstants
  <2>5. /\ sent * NsPerSec \in Int /\ released * NsPerSec \in Int
        /\ (Last - Start) * rate \in Int /\ (h - Last) * rate \in Int
    BY <1>5, <2>1, <2>3, SerialConstants
  <2> HIDE DEF sent
  <2>6. (sent + released) * NsPerSec <= (h - Start) * rate
    BY <1>5, <2>2, <2>4, <2>5
  <2> QED
    BY <1>1, <1>2, <2>1, <2>6 DEF SentBy, Start
<1>8. HandlerSound(c)'
  BY <1>1, <1>2, <1>3, <1>6, <1>7 DEF HandlerSound, SentBy
<1>9. Thresholds' /\ Dated'
  BY <1>1, <1>6 DEF Serial, Thresholds, Dated, Start
<1> QED
  BY <1>1, <1>2, <1>8, <1>9, SerialTypes, BusyStep DEF SmpInv, TypeOK

LEMMA SerialExpire ==
  ASSUME SmpInv, Serial, NEW c \in CPUs, ExpireWindow(c), SmpInv'
  PROVE  Serial'
<1> DEFINE h == cpu[c].now
<1>1. /\ Busy(c) /\ cpu[c].pc = "expire" /\ HandlerSound(c)
      /\ UNCHANGED <<throughput_stats, now, passed_bits>>
      /\ cpu' = [cpu EXCEPT ![c].pc = "admit"]
  BY DEF ExpireWindow, Busy, Serial, history
<1>2. /\ cpu'[c].pc = "admit" /\ cpu'[c].now = h
      /\ cpu'[c].elapsed = cpu[c].elapsed
      /\ \A d \in CPUs \ {c} : cpu'[d] = cpu[d]
  BY <1>1, SerialTypes DEF Registers
<1>3. /\ h \in Nat /\ h >= 1 /\ h <= MaxTime /\ h \in 1 .. now /\ Last <= h
      /\ Last >= 1 /\ cpu[c].elapsed = h - Last
      /\ WindowAt(window_state, h) /\ SentBy(h)
  BY <1>1, SeenType, SerialTypes, SmpConstants DEF HandlerSound
<1>4. Thresholds /\ Dated
  BY DEF Serial
<1>5. /\ Last' = Last /\ WindowAt(window_state', h) /\ Thresholds'
      /\ buffer_state'.current_buffer_bits = buffer_state.current_buffer_bits
  <2>1. CASE Expired(window_state, h)
    <3>1. /\ buffer_state' = AdjustState(Params, buffer_state, window_state)
          /\ window_state' = AdjustWindow(Params, window_state, h)
      BY <2>1 DEF ExpireWindow
    <3>2. Thresholds'
      BY <1>3, <1>4, <2>1, <3>1, AdjustedWithin, SerialTypes DEF Thresholds
    <3>3. WindowAt(window_state', h)
      BY <1>3, <2>1, <3>1, WindowMoved, SerialTypes
    <3>4. /\ Last' = Last
          /\ buffer_state'.current_buffer_bits = buffer_state.current_buffer_bits
      BY <3>1, AdjustStateType, SerialTypes, SmpConstants DEF Last
    <3> QED
      BY <3>2, <3>3, <3>4
  <2>2. CASE ~ Expired(window_state, h)
    BY <1>3, <1>4, <2>2 DEF ExpireWindow, Thresholds, Last
  <2> QED
    BY <2>1, <2>2
<1>6. HandlerSound(c)'
  BY <1>1, <1>2, <1>3, <1>5 DEF HandlerSound, SentBy, Start
<1>7. Dated'
  BY <1>1, <1>4, <1>5 DEF Dated, Start
<1> QED
  BY <1>1, <1>2, <1>5, <1>6, <1>7, SerialTypes, BusyStep DEF SmpInv, TypeOK

LEMMA SerialAdmit ==
  ASSUME SmpInv, Serial, NEW c \in CPUs, NEW avg \in AvgBits, Admit(c, avg), SmpInv'
  PROVE  Serial'
<1> DEFINE verdict == IF MustDrop(Params, buffer_state, avg, cpu[c].size)
                      THEN "drop" ELSE "pass"
<1>1. /\ Busy(c) /\ cpu[c].pc = "admit" /\ HandlerSound(c)
      /\ UNCHANGED <<maps, now, passed_bits>>
      /\ cpu' = [cpu EXCEPT ![c].bits = buffer_state.current_buffer_bits,
                            ![c].pc = verdict]
  BY DEF Admit, Busy, Serial, history
<1>2. verdict \in {"drop", "pass"}
  OBVIOUS
<1> HIDE DEF verdict
<1>3. /\ cpu'[c].pc = verdict /\ cpu'[c].now = cpu[c].now
      /\ cpu'[c].elapsed = cpu[c].elapsed
      /\ cpu'[c].bits = buffer_state.current_buffer_bits
      /\ \A d \in CPUs \ {c} : cpu'[d] = cpu[d]
  BY <1>1, SerialTypes DEF Registers
<1>4. HandlerSound(c)'
  BY <1>1, <1>2, <1>3 DEF HandlerSound, maps, Last, Start, SentBy
<1>5. Thresholds' /\ Dated'
  BY <1>1 DEF Serial, Thresholds, Dated, maps, Last, Start
<1> QED
  BY <1>1, <1>2, <1>3, <1>4, <1>5, SerialTypes, BusyStep DEF SmpInv, TypeOK

(* A drop opens a window and dates the state.                               *)
LEMMA SerialDrop ==
  ASSUME SmpInv, Serial, NEW c \in CPUs, Drop(c), SmpInv'
  PROVE  Serial'
<1> DEFINE h == cpu[c].now
<1>1. /\ Busy(c) /\ cpu[c].pc = "drop" /\ HandlerSound(c)
      /\ UNCHANGED <<throughput_stats, now, passed_bits>>
      /\ window_state' = OpenWindow(Params, window_state, h)
      /\ cpu' = [cpu EXCEPT ![c] = Idle]
  BY DEF Drop, Busy, Serial, history
<1>2. /\ h \in Nat /\ h >= 1 /\ h <= MaxTime /\ h <= now
      /\ Last <= h /\ Last >= 1
      /\ WindowAt(window_state, h) /\ SentBy(h)
  BY <1>1, SeenType, SerialTypes, SmpConstants DEF HandlerSound
<1>3. /\ Last' = h
      /\ buffer_state'.current_buffer_bits = buffer_state.current_buffer_bits
      /\ buffer_state'.current_threshold_mtu = buffer_state.current_threshold_mtu
      /\ buffer_state'.ssthresh_mtu = buffer_state.ssthresh_mtu
  BY SerialTypes DEF Drop, BufferState, Last
<1>4. WindowAt(window_state', Last')
  BY <1>1, <1>2, <1>3, WindowMoved, SerialTypes
<1>5. SentBy(Last)'
  BY <1>1, <1>2, <1>3 DEF SentBy, Start
<1>6. Thresholds' /\ Dated'
  BY <1>1, <1>2, <1>3, SerialTypes DEF Serial, Thresholds, Dated, Start
<1> QED
  BY <1>1, <1>2, <1>3, <1>4, <1>5, <1>6, LastStep

(* What is passed is added to the buffer: neither gains on the other.       *)
LEMMA SerialAccept ==
  ASSUME SmpInv, Serial, NEW c \in CPUs, Accept(c), SmpInv'
  PROVE  Serial'
<1> DEFINE h == cpu[c].now
           bits == buffer_state.current_buffer_bits
           size == cpu[c].size
<1>1. /\ Busy(c) /\ cpu[c].pc = "pass" /\ HandlerSound(c)
      /\ UNCHANGED <<window_state, throughput_stats, now>>
      /\ passed_bits' = passed_bits + size
      /\ cpu' = [cpu EXCEPT ![c] = Idle]
  BY DEF Accept, Busy, Serial
<1>2. /\ h \in Nat /\ h >= 1 /\ h <= now /\ Last <= h /\ Last >= 1
      /\ cpu[c].bits = bits
      /\ WindowAt(window_state, h) /\ SentBy(h)
  BY <1>1, SeenType, SerialTypes DEF HandlerSound
<1>3. U64(cpu[c].bits + size) = bits + size /\ size \in Nat
  <2>1. size \in PacketBits /\ cpu[c].bits + size <= Limit
    BY <1>1 DEF SmpInv
  <2>2. Limit + size < WordMod
    BY <2>1, SmpAssumption DEF Limit
  <2>3. cpu[c].bits + size \in Word
    BY <2>1, <2>2, SeenType, SmpConstants DEF Word
  <2> QED
    BY <1>2, <2>3, U64Exact, SeenType
<1>4. /\ Last' = h
      /\ buffer_state'.current_buffer_bits = bits + size
      /\ buffer_state'.current_threshold_mtu = buffer_state.current_threshold_mtu
      /\ buffer_state'.ssthresh_mtu = buffer_state.ssthresh_mtu
  BY <1>3, SerialTypes DEF Accept, BufferState, Last
<1>5. passed_bits' - buffer_state'.current_buffer_bits = passed_bits - bits
  BY <1>1, <1>3, <1>4, SerialTypes
<1>6. SentBy(Last)'
  BY <1>1, <1>2, <1>4, <1>5 DEF SentBy, Start
<1>7. Thresholds' /\ Dated'
  BY <1>1, <1>2, <1>4, SerialTypes DEF Serial, Thresholds, Dated, Start
<1> QED
  BY <1>1, <1>2, <1>4, <1>6, <1>7, LastStep

LEMMA SerialTick ==
  ASSUME SmpInv, Serial, Tick
  PROVE  Serial'
<1>1. now' = now + 1 /\ UNCHANGED <<maps, cpu, passed_bits>> /\ now \in Nat
  BY SerialTypes DEF Tick, history
<1>2. \A c \in CPUs : HandlerSound(c) => HandlerSound(c)'
  BY <1>1 DEF HandlerSound, maps, Last, Start, SentBy
<1>3. AllIdle' = AllIdle /\ \A c \in CPUs : Busy(c)' = Busy(c)
  BY <1>1 DEF AllIdle, Busy
<1>4. Last' = Last /\ Start' = Start /\ (SentBy(Last)' <=> SentBy(Last))
  BY <1>1 DEF Last, Start, SentBy, maps
<1>5. Thresholds' /\ Dated'
  BY <1>1, <1>4 DEF Serial, Thresholds, Dated, maps
<1> QED
  BY <1>1, <1>2, <1>3, <1>4, <1>5, SerialTypes DEF Serial, maps

LEMMA SerialInit == Init => SerialInv
<1> SUFFICES ASSUME Init PROVE Serial
  BY DEF SerialInv
<1>1. Last = 0 /\ Start = 0 /\ passed_bits = 0 /\ now = 1
      /\ buffer_state.current_buffer_bits = 0 /\ window_state.is_window_active = 0
  BY DEF Init, Last, Start, ZeroStats, ZeroWindow
<1>2. \A c \in CPUs : ~ Busy(c)
  BY DEF Init, Busy, Idle
<1>3. Thresholds
  BY FlagsAssumption DEF Init, Thresholds, Within
<1>4. SentBy(Last)
  BY <1>1, SerialConstants DEF SentBy
<1> QED
  BY <1>1, <1>2, <1>3, <1>4 DEF Serial, Dated, WindowAt

LEMMA SerialNext == SmpInv /\ SerialInv /\ [Next]_pvars => SerialInv'
<1> SUFFICES ASSUME SmpInv, SerialInv, [Next]_pvars, ~ overlapped' PROVE Serial'
  BY DEF SerialInv
<1>1. SmpInv'
  BY SmpNext
<1>2. CASE UNCHANGED pvars
  <2>1. Serial
    BY <1>2 DEF SerialInv, pvars, history
  <2>2. UNCHANGED <<buffer_state, window_state, throughput_stats, now, cpu, passed_bits>>
    BY <1>2 DEF pvars, history, maps
  <2> QED
    BY <2>1, <2>2 DEF Serial, Thresholds, Dated, AllIdle, Busy, HandlerSound,
       SentBy, Last, Start
<1>3. CASE Next
  <2>1. overlapped \in BOOLEAN
    BY DEF SmpInv, TypeOK
  <2>2. Serial
    BY <1>3, <2>1 DEF Next, ReadClock, ReadElapsed, LoadBuffer, AccountTime,
       StoreDepleted, ExpireWindow, Admit, Drop, Accept, Tick, history, SerialInv
  <2>3. ASSUME NEW c \in CPUs, NEW size \in PacketBits, ReadClock(c, size)
        PROVE  Serial'
    BY <2>2, <2>3, SerialRead
  <2>4. ASSUME NEW c \in CPUs, ReadElapsed(c) PROVE Serial'
    BY <1>1, <2>2, <2>4, SerialElapsed
  <2>5. ASSUME NEW c \in CPUs, LoadBuffer(c) PROVE Serial'
    BY <1>1, <2>2, <2>5, SerialLoad
  <2>6. ASSUME NEW c \in CPUs, AccountTime(c) PROVE Serial'
    BY <1>1, <2>2, <2>6, SerialAccount
  <2>7. ASSUME NEW c \in CPUs, StoreDepleted(c) PROVE Serial'
    BY <1>1, <2>2, <2>7, SerialDeplete
  <2>8. ASSUME NEW c \in CPUs, ExpireWindow(c) PROVE Serial'
    BY <1>1, <2>2, <2>8, SerialExpire
  <2>9. ASSUME NEW c \in CPUs, NEW avg \in AvgBits, Admit(c, avg) PROVE Serial'
    BY <1>1, <2>2, <2>9, SerialAdmit
  <2>10. ASSUME NEW c \in CPUs, Drop(c) PROVE Serial'
    BY <1>1, <2>2, <2>10, SerialDrop
  <2>11. ASSUME NEW c \in CPUs, Accept(c) PROVE Serial'
    BY <1>1, <2>2, <2>11, SerialAccept
  <2>12. CASE Tick
    BY <2>2, <2>12, SerialTick
  <2> QED
    BY <1>3, <2>3, <2>4, <2>5, <2>6, <2>7, <2>8, <2>9, <2>10, <2>11, <2>12 DEF Next
<1> QED
  BY <1>2, <1>3

(* While the handlers of any number of CPUs run one after the other, the    *)
(* traffic conforms to the rate and the threshold stays in its range        *)
(* whenever none is running, however the clock moves during each of them.   *)
THEOREM SerialHandlersAreSound == Spec => []SoundWhileSerial
<1>1. SmpInv /\ SerialInv => SoundWhileSerial
  <2> SUFFICES ASSUME SmpInv, Serial, AllIdle PROVE ConformsToRate /\ ThresholdInRange
    BY DEF SerialInv, SoundWhileSerial
  <2>1. Last <= now /\ SentBy(Last)
    BY DEF Serial
  <2>2. (Last - Start) * Params.rate_bps <= (now - Start) * Params.rate_bps
    <3>1. Last - Start \in Int /\ now - Start \in Int /\ Last - Start <= now - Start
      BY <2>1, SerialTypes
    <3> QED
      BY <3>1, TimesMonotone, SerialConstants
  <2>3. ConformsToRate
    <3> DEFINE sent == passed_bits - buffer_state.current_buffer_bits
    <3>1. /\ sent \in Int /\ sent * NsPerSec \in Int
          /\ (Last - Start) * Params.rate_bps \in Int
          /\ (now - Start) * Params.rate_bps \in Int
      BY SerialTypes, SerialConstants
    <3>2. sent * NsPerSec <= (Last - Start) * Params.rate_bps
      BY <2>1 DEF SentBy
    <3> HIDE DEF sent
    <3>3. sent * NsPerSec <= (now - Start) * Params.rate_bps
      BY <2>2, <3>1, <3>2
    <3> QED
      BY <3>3 DEF ConformsToRate, Start, sent
  <2> QED
    BY <2>3 DEF Serial, Thresholds, Within, ThresholdInRange
<1>2. Init => SmpInv /\ SerialInv
  BY SmpInit, SerialInit
<1>3. SmpInv /\ SerialInv /\ [Next]_pvars => (SmpInv /\ SerialInv)'
  BY SmpNext, SerialNext
<1> QED
  BY <1>1, <1>2, <1>3, PTL DEF Spec
=============================================================================
