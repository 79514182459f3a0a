------------------------- MODULE TitrateOps_proofs --------------------------
(***************************************************************************)
(* Lemmas about the arithmetic of the XDP program that hold of every state *)
(* and every parameters, those of a program that is being configured or    *)
(* runs on several CPUs included.                                          *)
(***************************************************************************)
EXTENDS TitrateOps, TLAPS

-----------------------------------------------------------------------------
(* Lemmas about __u64 arithmetic.                                          *)

(* A result is a word.                                                     *)
LEMMA U64Type == \A x \in Int : U64(x) \in Word
BY OpsAssumption DEF U64, Word

(* Nothing is lost of a value below 2^64.                                  *)
LEMMA U64Exact == \A x \in Word : U64(x) = x
BY OpsAssumption DEF U64, Word

(* Reduction never enlarges a value.                                       *)
LEMMA U64Below == \A x \in Nat : U64(x) \in Nat /\ U64(x) <= x
BY OpsAssumption DEF U64, Word

(* Quotients round down.                                                   *)
LEMMA DivBelow ==
  ASSUME NEW x \in Nat, NEW d \in Nat \ {0}
  PROVE  x \div d \in Nat /\ x \div d <= x /\ (x \div d) * d <= x
OBVIOUS

(* A lower bound of a product bounds the quotient from below.              *)
LEMMA DivLower ==
  ASSUME NEW x \in Nat, NEW y \in Nat, NEW d \in Nat \ {0}, x * d <= y
  PROVE  x <= y \div d
OBVIOUS

(* An upper bound of a product bounds the quotient from above.             *)
LEMMA DivUpper ==
  ASSUME NEW x \in Nat, NEW y \in Nat, NEW d \in Nat \ {0}, y <= x * d
  PROVE  y \div d <= x
OBVIOUS
-----------------------------------------------------------------------------
(* The idle time before now is a part of the time since the last update,    *)
(* even when elapsed_ns * rate_bps wraps.                                   *)
LEMMA TimeAtZeroBounded ==
  ASSUME NEW p, NEW s, NEW elapsed \in Word,
         p.rate_bps \in Word, s.current_buffer_bits \in Nat,
         s.current_buffer_bits * NsPerSec < WordMod
  PROVE  TimeAtZero(p, s, elapsed) \in 0 .. elapsed
<1> DEFINE bits == s.current_buffer_bits
           product == elapsed * p.rate_bps
           tte == TimeToEmpty(p, s)
<1>0. /\ WordMod \in Nat \ {0} /\ NsPerSec \in Nat \ {0}
      /\ elapsed \in Nat /\ p.rate_bps \in Nat
  BY OpsAssumption DEF Word
<1>1. bits * NsPerSec \in Nat /\ bits * NsPerSec \in Word
  BY <1>0 DEF Word
<1>2. tte = IF p.rate_bps = 0 THEN 0 ELSE (bits * NsPerSec) \div p.rate_bps
  BY <1>1, U64Exact DEF TimeToEmpty, BpfDiv
<1>3. CASE Empties(p, s, elapsed)
  <2>1. product \in Nat
    BY <1>0
  <2>2. U64(product) \in Nat /\ U64(product) <= product
    BY <2>1, U64Below
  <2>3. bits <= U64(product) \div NsPerSec
    BY <1>3 DEF Empties, TokensReleased
  <2>4. /\ U64(product) \div NsPerSec \in Nat
        /\ (U64(product) \div NsPerSec) * NsPerSec <= U64(product)
    BY <1>0, <2>2, DivBelow
  <2>5. bits * NsPerSec <= (U64(product) \div NsPerSec) * NsPerSec
    BY <1>0, <2>3, <2>4
  <2>6. bits * NsPerSec <= elapsed * p.rate_bps
    BY <1>0, <1>1, <2>1, <2>2, <2>4, <2>5
  <2>7. tte \in Nat /\ tte <= elapsed
    <3>1. CASE p.rate_bps = 0
      BY <1>0, <1>2, <3>1
    <3>2. CASE p.rate_bps # 0
      <4>1. bits * NsPerSec \in Nat /\ p.rate_bps \in Nat \ {0}
        BY <1>0, <1>1, <3>2
      <4> HIDE DEF bits, tte
      <4> QED
        BY <1>0, <1>2, <2>6, <4>1, <3>2, DivBelow, DivUpper
    <3> QED
      BY <3>1, <3>2
  <2>8. elapsed - tte \in Word
    BY <1>0, <2>7 DEF Word
  <2> QED
    BY <1>0, <1>3, <2>7, <2>8, U64Exact DEF TimeAtZero
<1>4. CASE ~ Empties(p, s, elapsed)
  BY <1>0, <1>4 DEF TimeAtZero
<1> QED
  BY <1>3, <1>4

(* Whatever the lengths, it is a word.                                      *)
LEMMA TimeAtZeroType ==
  ASSUME NEW p \in RateLimitParams, NEW s \in BufferState, NEW elapsed \in Word
  PROVE  TimeAtZero(p, s, elapsed) \in Word
<1>1. p.rate_bps \in Nat /\ s.current_buffer_bits * NsPerSec \in Int /\ 0 \in Word
  BY OpsAssumption DEF RateLimitParams, BufferState, Word
<1>2. U64(s.current_buffer_bits * NsPerSec) \in Nat
  BY <1>1, U64Type, OpsAssumption DEF Word
<1>3. TimeToEmpty(p, s) \in Int
  BY <1>1, <1>2, DivBelow DEF TimeToEmpty, BpfDiv
<1>4. elapsed - TimeToEmpty(p, s) \in Int
  BY <1>3 DEF Word
<1> QED
  BY <1>1, <1>4, U64Type DEF TimeAtZero

(* Depleting the buffer never makes it longer, nor negative.                *)
LEMMA DepletedBelow ==
  ASSUME NEW p, NEW s, NEW elapsed \in Word,
         p.rate_bps \in Word, s.current_buffer_bits \in Nat
  PROVE  DepletedBits(p, s, elapsed) \in 0 .. s.current_buffer_bits
<1>1. elapsed * p.rate_bps \in Nat /\ NsPerSec \in Nat \ {0}
  BY OpsAssumption DEF Word
<1>2. U64(elapsed * p.rate_bps) \in Nat
  BY <1>1, U64Below
<1>3. TokensReleased(p, elapsed) \in Nat
  BY <1>1, <1>2, DivBelow DEF TokensReleased
<1> QED
  BY <1>3 DEF DepletedBits, Empties

-----------------------------------------------------------------------------
(* Rate and time: what is released in a time, and the time that takes.      *)

(* Products grow with their factors and distribute over sums.               *)
LEMMA TimesMonotone ==
  \A x, y \in Int, z \in Nat : x <= y => x * z <= y * z
OBVIOUS

LEMMA TimesSum == \A x, y, z \in Int : (x + y) * z = x * z + y * z
OBVIOUS

LEMMA TimesDifference == \A x, y, z \in Int : (x - y) * z = x * z - y * z
OBVIOUS

(* A quotient is less than one below the exact value.                       *)
LEMMA DivAbove ==
  ASSUME NEW x \in Nat, NEW d \in Nat \ {0}
  PROVE  x \div d \in Nat /\ x < ((x \div d) + 1) * d
OBVIOUS

ReleasedIn(p, s, elapsed) == s.current_buffer_bits - DepletedBits(p, s, elapsed)

(* No more is released than the rate allows in the time since the last      *)
(* packet, even when elapsed_ns * rate_bps wraps.                           *)
LEMMA ReleasedBelow ==
  ASSUME NEW p, NEW s, NEW elapsed \in Word,
         p.rate_bps \in Word, s.current_buffer_bits \in Nat
  PROVE  /\ ReleasedIn(p, s, elapsed) \in Nat
         /\ ReleasedIn(p, s, elapsed) * NsPerSec <= elapsed * p.rate_bps
<1> DEFINE tokens == TokensReleased(p, elapsed)
           released == ReleasedIn(p, s, elapsed)
           product == elapsed * p.rate_bps
<1>1. DepletedBits(p, s, elapsed) \in 0 .. s.current_buffer_bits
  BY DepletedBelow
<1>2. product \in Nat /\ NsPerSec \in Nat \ {0}
  BY OpsAssumption DEF Word
<1>3. tokens \in Nat /\ tokens * NsPerSec <= product
  <2>1. tokens = U64(product) \div NsPerSec
    BY DEF TokensReleased
  <2> HIDE DEF tokens, product
  <2>2. U64(product) \in Nat /\ U64(product) <= product
    BY <1>2, U64Below
  <2> QED
    BY <1>2, <2>1, <2>2, DivBelow
<1>4. released \in Nat /\ released <= tokens
  BY <1>1, <1>3 DEF ReleasedIn, DepletedBits, Empties
<1>5. released * NsPerSec <= tokens * NsPerSec
  BY <1>2, <1>3, <1>4, TimesMonotone
<1>6. released * NsPerSec \in Int /\ tokens * NsPerSec \in Int
  BY <1>2, <1>3, <1>4
<1> HIDE DEF tokens, product, released
<1> QED
  BY <1>2, <1>3, <1>4, <1>5, <1>6 DEF product, released

(* While the product does not wrap, the buffer holds less than a bit more   *)
(* than the exact queue at this instant.                                    *)
LEMMA DepletedAbove ==
  ASSUME NEW p, NEW s, NEW elapsed \in Word,
         p.rate_bps \in Word, s.current_buffer_bits \in Nat,
         elapsed * p.rate_bps < WordMod
  PROVE  DepletedBits(p, s, elapsed) * NsPerSec
           < Greater(0, s.current_buffer_bits * NsPerSec - elapsed * p.rate_bps)
               + NsPerSec
<1> DEFINE bits == s.current_buffer_bits
           product == elapsed * p.rate_bps
           tokens == product \div NsPerSec
           queue == Greater(0, bits * NsPerSec - product)
<1>1. product \in Nat /\ NsPerSec \in Nat \ {0} /\ WordMod \in Nat
  BY OpsAssumption DEF Word
<1>2. product \in Word
  <2> HIDE DEF product
  <2> QED
    BY <1>1 DEF Word, product
<1>3. TokensReleased(p, elapsed) = tokens
  BY <1>2, U64Exact DEF TokensReleased
<1> HIDE DEF product
<1>4. tokens \in Nat /\ product < (tokens + 1) * NsPerSec
  BY <1>1, DivAbove
<1> HIDE DEF tokens
<1>5. bits * NsPerSec \in Int /\ tokens * NsPerSec \in Int
  BY <1>1, <1>4
<1>6. queue \in Nat /\ bits * NsPerSec - product <= queue
  BY <1>1, <1>5 DEF Greater
<1>7. CASE tokens >= bits
  <2>1. DepletedBits(p, s, elapsed) = 0
    BY <1>3, <1>7 DEF DepletedBits, Empties
  <2> HIDE DEF queue
  <2>2. DepletedBits(p, s, elapsed) * NsPerSec < queue + NsPerSec
    BY <1>1, <1>6, <2>1
  <2> QED
    BY <2>2 DEF queue, product
<1>8. CASE ~ (tokens >= bits)
  <2>1. DepletedBits(p, s, elapsed) = bits - tokens
    BY <1>3, <1>8 DEF DepletedBits, Empties
  <2>2. (bits - tokens) * NsPerSec = bits * NsPerSec - tokens * NsPerSec
    BY <1>1, <1>4, TimesDifference
  <2>3. (tokens + 1) * NsPerSec = tokens * NsPerSec + NsPerSec
    BY <1>1, <1>4
  <2> HIDE DEF queue
  <2>4. DepletedBits(p, s, elapsed) * NsPerSec < queue + NsPerSec
    BY <1>1, <1>4, <1>5, <1>6, <2>1, <2>2, <2>3
  <2> QED
    BY <2>4 DEF queue, product
<1> QED
  BY <1>7, <1>8

(* While the product does not wrap, the time the link was busy is that of   *)
(* sending what was released, but for a fraction of a bit.                  *)
LEMMA BusyBelow ==
  ASSUME NEW p, NEW s, NEW elapsed \in Word,
         p.rate_bps \in Word \ {0}, s.current_buffer_bits \in Nat,
         s.current_buffer_bits * NsPerSec < WordMod,
         elapsed * p.rate_bps < WordMod
  PROVE  (elapsed - TimeAtZero(p, s, elapsed)) * p.rate_bps
           <= (ReleasedIn(p, s, elapsed) + 1) * NsPerSec
<1> DEFINE bits == s.current_buffer_bits
           rate == p.rate_bps
           atZero == TimeAtZero(p, s, elapsed)
           released == ReleasedIn(p, s, elapsed)
           product == elapsed * rate
           tokens == product \div NsPerSec
           needed == bits * NsPerSec
           tte == needed \div rate
<1>1. /\ bits \in Nat /\ elapsed \in Nat /\ released \in Nat /\ atZero \in 0 .. elapsed
      /\ rate \in Nat \ {0} /\ NsPerSec \in Nat \ {0} /\ WordMod \in Nat
  BY TimeAtZeroBounded, ReleasedBelow, OpsAssumption DEF Word
<1>2. product \in Nat /\ product \in Word /\ needed \in Nat /\ needed \in Word
  BY <1>1 DEF Word
<1>3. TokensReleased(p, elapsed) = tokens
  BY <1>2, U64Exact DEF TokensReleased
<1>4. TimeToEmpty(p, s) = tte
  BY <1>1, <1>2, U64Exact DEF TimeToEmpty, BpfDiv
<1>5. CASE tokens >= bits
  <2>1. released = bits
    BY <1>1, <1>3, <1>5 DEF ReleasedIn, DepletedBits, Empties
  <2>2. atZero = U64(elapsed - tte)
    BY <1>3, <1>4, <1>5 DEF TimeAtZero, Empties
  <2>3. tokens \in Nat /\ tokens * NsPerSec <= product
    <3> HIDE DEF product
    <3> QED
      BY <1>1, <1>2, DivBelow
  <2>4. needed <= tokens * NsPerSec /\ tokens * NsPerSec \in Int
    BY <1>1, <1>5, <2>3, TimesMonotone
  <2>5. needed <= elapsed * rate
    <3> HIDE DEF tokens, needed
    <3> QED
      BY <1>2, <2>3, <2>4
  <2>6. needed <= (released + 1) * NsPerSec
    BY <1>1, <2>1, TimesMonotone
  <2>7. (released + 1) * NsPerSec \in Int
    BY <1>1
  <2> HIDE DEF needed, tokens, product, atZero, released
  <2>8. tte \in Nat /\ tte * rate <= needed
    BY <1>1, <1>2, DivBelow
  <2>9. tte <= elapsed
    BY <1>1, <1>2, <2>5, DivUpper
  <2> HIDE DEF tte
  <2>10. atZero = elapsed - tte
    <3>1. elapsed - tte \in Word
      BY <1>1, <2>8, <2>9 DEF Word
    <3> QED
      BY <2>2, <3>1, U64Exact
  <2>11. elapsed - atZero = tte /\ tte * rate \in Int
    BY <1>1, <2>8, <2>10
  <2>12. (elapsed - atZero) * rate <= (released + 1) * NsPerSec
    BY <1>2, <2>6, <2>7, <2>8, <2>11
  <2> QED
    BY <2>12 DEF atZero, released
<1>6. CASE ~ (tokens >= bits)
  <2>1. atZero = 0
    BY <1>3, <1>6 DEF TimeAtZero, Empties
  <2>2. tokens \in Nat /\ product < (tokens + 1) * NsPerSec
    <3> HIDE DEF product
    <3> QED
      BY <1>1, <1>2, DivAbove
  <2>3. DepletedBits(p, s, elapsed) = bits - tokens
    BY <1>3, <1>6 DEF DepletedBits, Empties
  <2> HIDE DEF tokens, atZero
  <2>4. released = tokens
    BY <1>1, <2>2, <2>3 DEF ReleasedIn
  <2> HIDE DEF released
  <2>5. elapsed - atZero = elapsed
    BY <1>1, <2>1
  <2>6. (released + 1) * NsPerSec \in Int
    BY <1>1
  <2>7. (elapsed - atZero) * rate <= (released + 1) * NsPerSec
    BY <1>2, <2>2, <2>4, <2>5, <2>6
  <2> QED
    BY <2>7 DEF atZero, released
<1> QED
  BY <1>5, <1>6

-----------------------------------------------------------------------------
(* The operators return states of their types.                              *)

LEMMA DepleteType ==
  ASSUME NEW p \in RateLimitParams, NEW s \in BufferState, NEW elapsed \in Word
  PROVE  /\ Deplete(p, s, elapsed) \in BufferState
         /\ Deplete(p, s, elapsed).last_update_ns = s.last_update_ns
         /\ Deplete(p, s, elapsed).current_buffer_bits
              \in 0 .. s.current_buffer_bits
<1>1. /\ p.rate_bps \in Word /\ s.current_buffer_bits \in Nat
      /\ s.current_buffer_bits \in Word
  BY DEF RateLimitParams, BufferState, Word
<1>2. DepletedBits(p, s, elapsed) \in 0 .. s.current_buffer_bits
  BY <1>1, DepletedBelow
<1>3. DepletedBits(p, s, elapsed) \in Word
  BY <1>1, <1>2, OpsAssumption DEF Word
<1> QED
  BY <1>2, <1>3 DEF Deplete, BufferState

LEMMA ElapsedType ==
  ASSUME NEW s \in BufferState, NEW now \in Word
  PROVE  /\ Elapsed(s, now) \in Word
         /\ s.last_update_ns <= now =>
              Elapsed(s, now) = IF s.last_update_ns = 0
                                THEN 0 ELSE now - s.last_update_ns
<1>1. s.last_update_ns \in Nat /\ now \in Nat /\ now < WordMod /\ 0 \in Word
  BY OpsAssumption DEF BufferState, Word
<1>2. s.last_update_ns <= now => now - s.last_update_ns \in Word
  BY <1>1, OpsAssumption DEF Word
<1> QED
  BY <1>1, <1>2, U64Type, U64Exact DEF Elapsed

LEMMA AccountIdleType ==
  ASSUME NEW w \in WindowState, NEW now \in Word, NEW atZero \in Word
  PROVE  /\ AccountIdle(w, now, atZero) \in WindowState
         /\ AccountIdle(w, now, atZero).is_window_active = w.is_window_active
<1>1. U64(now - w.window_end_ns) \in Word
  BY U64Type DEF WindowState, Word
<1>2. IdleInWindow(w, now, atZero) \in Word
  <2>1. atZero - U64(now - w.window_end_ns) \in Int /\ 0 \in Word
    BY <1>1, OpsAssumption DEF Word
  <2> QED
    BY <2>1, U64Type DEF IdleInWindow
<1>3. w.window_zero_buffer_ns + IdleInWindow(w, now, atZero) \in Int
  BY <1>2 DEF WindowState, Word
<1>4. U64(w.window_zero_buffer_ns + IdleInWindow(w, now, atZero)) \in Word
  BY <1>3, U64Type
<1> QED
  BY <1>4 DEF AccountIdle, WindowState

(* Whatever the rates and durations, a threshold is a word: a raise stops   *)
(* at the maximum and a decrease is reduced modulo 2^64.                    *)
LEMMA AdjustStateType ==
  ASSUME NEW p \in RateLimitParams, NEW s \in BufferState, NEW w \in WindowState
  PROVE  /\ AdjustState(p, s, w) \in BufferState
         /\ AdjustState(p, s, w).last_update_ns = s.last_update_ns
         /\ AdjustState(p, s, w).current_buffer_bits = s.current_buffer_bits
<1> DEFINE cur == s.current_threshold_mtu
           duration == U64(WindowNs(p) * w.window_count)
           denom == U64(duration - w.window_zero_buffer_ns)
           factor == U64(duration * FixedPoint) \div denom
<1>1. /\ cur \in Word /\ cur \in Nat /\ s.ssthresh_mtu \in Word
      /\ p.max_threshold_mtu \in Word /\ p.min_threshold_mtu \in Word
      /\ p.decrease_constant \in Word /\ p.ssthresh_multiplier \in Word
      /\ p.window_duration_ms \in Word
      /\ w.window_count \in Nat /\ w.window_zero_buffer_ns \in Nat
      /\ WordMod \in Nat \ {0} /\ NsPerSec \in Nat \ {0}
      /\ MsPerSec \in Nat \ {0} /\ FixedPoint \in Nat \ {0}
  BY OpsAssumption DEF RateLimitParams, BufferState, WindowState, Word
<1>2. ASSUME NEW x \in Int, NEW d \in Nat \ {0}
      PROVE  U64(x) \div d \in Word
  BY <1>1, U64Type, DivBelow DEF Word
<1>3. WindowNs(p) \in Nat
  <2>1. p.window_duration_ms * NsPerSec \in Int
    BY <1>1 DEF Word
  <2>2. WindowNs(p) \in Word
    BY <1>1, <1>2, <2>1 DEF WindowNs
  <2> QED
    BY <2>2 DEF Word
<1>4. duration \in Nat
  <2>1. WindowNs(p) * w.window_count \in Int
    BY <1>1, <1>3
  <2> QED
    BY <2>1, U64Type DEF Word
<1>5. denom \in Nat
  <2>1. duration - w.window_zero_buffer_ns \in Int
    BY <1>1, <1>4
  <2> QED
    BY <2>1, U64Type DEF Word
<1>6. RaisedThreshold(p, s, w) \in Word
  <2>1. CASE denom = 0
    BY <1>1, <2>1 DEF RaisedThreshold
  <2>2. CASE denom # 0
    <3> HIDE DEF duration, denom
    <3>1. duration * FixedPoint \in Int
      BY <1>1, <1>4
    <3>2. factor \in Word
      BY <1>2, <1>5, <2>2, <3>1
    <3> HIDE DEF factor
    <3>3. cur * factor \in Int
      BY <1>1, <3>2 DEF Word
    <3>4. U64(cur * factor) \div FixedPoint \in Word
      BY <1>1, <1>2, <3>3
    <3>5. RaisedThreshold(p, s, w)
            = Lesser(p.max_threshold_mtu, U64(cur * factor) \div FixedPoint)
      BY <2>2 DEF RaisedThreshold, duration, denom, factor
    <3> QED
      BY <1>1, <3>4, <3>5 DEF Lesser
  <2> QED
    BY <2>1, <2>2
<1>7. RaisedSsthresh(p, s, w) \in Word
  <2>1. cur * p.ssthresh_multiplier \in Int
    BY <1>1 DEF Word
  <2>2. U64(cur * p.ssthresh_multiplier) \div FixedPoint \in Word
    BY <1>1, <1>2, <2>1
  <2> QED
    BY <1>1, <1>6, <2>2 DEF RaisedSsthresh, Lesser
<1>8. LoweredThreshold(p, s) \in Word
  <2>1. cur \div 2 \in Word
    BY <1>1 DEF Word
  <2>2. U64(cur - p.decrease_constant) \in Word
    BY <1>1, U64Type DEF Word
  <2> QED
    BY <1>1, <2>1, <2>2 DEF LoweredThreshold, Greater
<1> QED
  BY <1>6, <1>7, <1>8 DEF AdjustState, BufferState

LEMMA WindowType ==
  ASSUME NEW p \in RateLimitParams, NEW w \in WindowState, NEW now \in Word
  PROVE  /\ AdjustWindow(p, w, now) \in WindowState
         /\ OpenWindow(p, w, now) \in WindowState
<1>1. /\ NsPerSec \in Nat \ {0} /\ MsPerSec \in Nat \ {0}
      /\ p.window_duration_ms \in Nat /\ now \in Nat /\ w.window_count \in Nat
      /\ 0 \in Word /\ 1 \in Word
  BY OpsAssumption DEF RateLimitParams, WindowState, Word
<1>2. p.window_duration_ms * NsPerSec \in Int
  BY <1>1
<1>3. U64(p.window_duration_ms * NsPerSec) \in Nat
  BY <1>2, U64Type DEF Word
<1>4. WindowNs(p) \in Nat
  BY <1>1, <1>3, DivBelow DEF WindowNs
<1>5. WindowEnd(p, now) \in Word /\ U64(w.window_count + 1) \in Word
  BY <1>1, <1>4, U64Type DEF WindowEnd
<1> QED
  BY <1>1, <1>5 DEF AdjustWindow, OpenWindow, WindowState

-----------------------------------------------------------------------------
(* The idle time up to now that is credited to a window is time of the      *)
(* window: with start the beginning of what is credited and last the        *)
(* previous update, the credit fits in the time seen since start.           *)
LEMMA IdleCredited ==
  ASSUME NEW w \in WindowState, NEW now \in Word, NEW last \in Nat, last <= now,
         NEW atZero \in Nat, atZero <= now - last,
         NEW start \in Nat, start <= last, start <= w.window_end_ns,
         w.window_zero_buffer_ns <= Lesser(last, w.window_end_ns) - start,
         w.is_window_active = 1
  PROVE  /\ AccountIdle(w, now, atZero) \in WindowState
         /\ AccountIdle(w, now, atZero).is_window_active = 1
         /\ AccountIdle(w, now, atZero).window_end_ns = w.window_end_ns
         /\ AccountIdle(w, now, atZero).window_count = w.window_count
         /\ AccountIdle(w, now, atZero).window_zero_buffer_ns
              <= Lesser(now, w.window_end_ns) - start
<1> DEFINE end  == w.window_end_ns
           zero == w.window_zero_buffer_ns
           idle == IdleInWindow(w, now, atZero)
<1>1. /\ end \in Nat /\ zero \in Nat /\ WordMod \in Nat \ {0}
      /\ end < WordMod /\ now \in Nat /\ now < WordMod
  BY OpsAssumption DEF WindowState, Word
<1>2. zero <= Lesser(last, end) - start
  OBVIOUS
<1>3. idle \in Nat /\ zero + idle <= Lesser(now, end) - start
  <2>1. CASE now <= end
    BY <2>1, <1>1, <1>2 DEF IdleInWindow, Lesser
  <2>2. CASE now > end
    <3>1. U64(now - end) = now - end
      <4>1. now - end \in Word
        BY <2>2, <1>1 DEF Word
      <4> QED
        BY <4>1, U64Exact
    <3>2. CASE atZero >= now - end
      <4>1. atZero - (now - end) \in Word
        BY <3>2, <2>2, <1>1 DEF Word
      <4>2. idle = atZero - (now - end)
        BY <4>1, <3>1, <3>2, <2>2, <1>1, U64Exact DEF IdleInWindow
      <4> QED
        BY <4>2, <2>2, <3>2, <1>1, <1>2 DEF Lesser
    <3>3. CASE atZero < now - end
      <4>1. U64(atZero - (now - end)) = atZero - (now - end) + WordMod
        BY <3>3, <2>2, <1>1 DEF U64
      <4>2. idle = 0
        BY <4>1, <3>1, <3>3, <2>2, <1>1 DEF IdleInWindow
      <4> QED
        BY <4>2, <2>2, <1>1, <1>2 DEF Lesser
    <3> QED
      BY <3>2, <3>3, <1>1
  <2> QED
    BY <2>1, <2>2, <1>1
<1>4. zero + idle \in Word
  BY <1>1, <1>3 DEF Lesser, Word
<1>5. AccountIdle(w, now, atZero) = [w EXCEPT !.window_zero_buffer_ns = zero + idle]
  BY <1>4, U64Exact DEF AccountIdle
<1> QED
  BY <1>3, <1>4, <1>5 DEF WindowState

-----------------------------------------------------------------------------
(* The thresholds an expiry computes, with usable parameters.               *)

Within(p, mtu) == mtu \in p.min_threshold_mtu .. p.max_threshold_mtu

LEMMA UsableTypes ==
  ASSUME NEW p, Usable(p)
  PROVE  /\ WordMod \in Nat \ {0} /\ FixedPoint \in Nat \ {0}
         /\ p.min_threshold_mtu \in Nat \ {0} /\ p.max_threshold_mtu \in Nat \ {0}
         /\ p.min_threshold_mtu <= p.max_threshold_mtu
         /\ p.max_threshold_mtu \in Word
         /\ p.decrease_constant \in Nat /\ p.decrease_constant <= p.min_threshold_mtu
         /\ p.ssthresh_multiplier \in Nat /\ p.ssthresh_multiplier >= FixedPoint
         /\ RoundsOf(p) \in Nat \ {0} /\ WindowNs(p) \in Nat
         /\ p.windows_considered \in Nat /\ p.windows_considered <= RoundsOf(p)
         /\ p.max_threshold_mtu * p.ssthresh_multiplier < WordMod
         /\ p.max_threshold_mtu * (WindowNs(p) * RoundsOf(p) * FixedPoint) < WordMod
<1>1. /\ p.window_duration_ms \in Nat /\ NsPerSec \in Nat \ {0}
      /\ MsPerSec \in Nat \ {0}
  BY OpsAssumption DEF Usable, RateLimitParams, Word
<1>2. U64(p.window_duration_ms * NsPerSec) \in Nat
  BY <1>1, U64Below
<1>3. WindowNs(p) \in Nat
  BY <1>1, <1>2, DivBelow DEF WindowNs
<1> QED
  BY <1>3, OpsAssumption DEF Usable, RateLimitParams, Word, RoundsOf, Greater

(* The threshold a raise computes, without the modulus.                     *)
RaisedTo(p, cur, full, zero) ==
  IF full = zero
  THEN p.max_threshold_mtu
  ELSE Lesser(p.max_threshold_mtu,
              (cur * ((full * FixedPoint) \div (full - zero))) \div FixedPoint)

(* Nothing in the computation of a raise wraps.                             *)
LEMMA RaisedExact ==
  ASSUME NEW p, Usable(p), NEW s \in BufferState, NEW w \in WindowState,
         Within(p, s.current_threshold_mtu),
         w.window_count \in 1 .. RoundsOf(p),
         w.window_zero_buffer_ns \in 1 .. WindowNs(p)
  PROVE  /\ WindowNs(p) * w.window_count \in Nat
         /\ w.window_zero_buffer_ns <= WindowNs(p) * w.window_count
         /\ RaisedThreshold(p, s, w)
              = RaisedTo(p, s.current_threshold_mtu, WindowNs(p) * w.window_count,
                         w.window_zero_buffer_ns)
<1> DEFINE cur == s.current_threshold_mtu
           zero == w.window_zero_buffer_ns
           full == WindowNs(p) * w.window_count
           most == WindowNs(p) * RoundsOf(p)
           duration == U64(full)
           denom == U64(duration - zero)
           factor == U64(duration * FixedPoint) \div denom
           product == cur * factor
<1>1. /\ cur \in Nat /\ p.min_threshold_mtu <= cur /\ cur <= p.max_threshold_mtu
      /\ cur >= 1 /\ zero \in Nat /\ zero >= 1
  BY UsableTypes DEF Within
<1>2. /\ full \in Nat /\ most \in Nat /\ full <= most /\ zero <= full
  <2>1. WindowNs(p) * w.window_count <= WindowNs(p) * RoundsOf(p)
    BY UsableTypes
  <2>2. WindowNs(p) <= WindowNs(p) * w.window_count
    BY UsableTypes
  <2>3. QED
    BY <2>1, <2>2, <1>1, UsableTypes
<1>3. /\ most * FixedPoint \in Nat
      /\ p.max_threshold_mtu * (most * FixedPoint) < WordMod
      /\ most * FixedPoint < WordMod
      /\ most < WordMod
  <2>1. p.max_threshold_mtu * (most * FixedPoint) < WordMod
    BY UsableTypes
  <2>2. most * FixedPoint \in Nat /\ most <= most * FixedPoint
    BY <1>2, UsableTypes
  <2>3. most * FixedPoint <= p.max_threshold_mtu * (most * FixedPoint)
    BY <2>2, UsableTypes
  <2> HIDE DEF most
  <2>4. QED
    BY <2>1, <2>2, <2>3, <1>2, UsableTypes
<1>4. duration = full
  BY <1>2, <1>3, U64Exact, UsableTypes DEF Word
<1>5. denom = full - zero /\ denom \in Nat
  BY <1>1, <1>2, <1>3, <1>4, U64Exact, UsableTypes DEF Word
<1>6. CASE denom = 0
  BY <1>1, <1>2, <1>5, <1>6, UsableTypes DEF RaisedThreshold, RaisedTo
<1>7. CASE denom # 0
  <2>1. full * FixedPoint \in Nat /\ full * FixedPoint <= most * FixedPoint
    <3> HIDE DEF full, most
    <3>1. QED
      BY <1>2, UsableTypes
  <2>2. U64(duration * FixedPoint) = full * FixedPoint
    BY <2>1, <1>3, <1>4, U64Exact, UsableTypes DEF Word
  <2>3. factor = (full * FixedPoint) \div denom
    BY <2>2
  <2>4. factor \in Nat /\ factor <= full * FixedPoint
    <3> HIDE DEF denom, full
    <3>1. QED
      BY <2>1, <2>3, <1>5, <1>7, DivBelow
  <2>5. product \in Nat /\ product < WordMod
    <3> HIDE DEF factor, full, most, cur
    <3>1. factor <= most * FixedPoint
      BY <2>1, <2>4, <1>2, <1>3, UsableTypes
    <3>2. cur * factor <= p.max_threshold_mtu * factor
      BY <2>4, <1>1, UsableTypes
    <3>3. p.max_threshold_mtu * factor <= p.max_threshold_mtu * (most * FixedPoint)
      BY <3>1, <2>4, <1>3, UsableTypes
    <3>4. product \in Nat
      BY <2>4, <1>1
    <3>5. QED
      BY <3>2, <3>3, <3>4, <2>4, <1>1, <1>3, UsableTypes
  <2>6. U64(product) = product
    BY <2>5, U64Exact, UsableTypes DEF Word
  <2>7. RaisedThreshold(p, s, w)
          = Lesser(p.max_threshold_mtu, product \div FixedPoint)
    BY <2>6, <1>7 DEF RaisedThreshold
  <2>8. product \div FixedPoint
          = (cur * ((full * FixedPoint) \div (full - zero))) \div FixedPoint
    BY <1>5, <2>3
  <2>9. full # zero
    BY <1>1, <1>2, <1>5, <1>7
  <2> QED
    BY <1>2, <2>7, <2>8, <2>9 DEF RaisedTo
<1>8. QED
  BY <1>2, <1>6, <1>7

(* A raise is a raise: the quotient of the window and its busy part, in     *)
(* fixed point, is at least one.                                            *)
LEMMA RaisedInRange ==
  ASSUME NEW p, Usable(p), NEW s \in BufferState, NEW w \in WindowState,
         Within(p, s.current_threshold_mtu),
         w.window_count \in 1 .. RoundsOf(p),
         w.window_zero_buffer_ns \in 1 .. WindowNs(p)
  PROVE  /\ RaisedThreshold(p, s, w)
              \in s.current_threshold_mtu .. p.max_threshold_mtu
<1> DEFINE cur == s.current_threshold_mtu
           zero == w.window_zero_buffer_ns
           full == WindowNs(p) * w.window_count
           denom == full - zero
           factor == (full * FixedPoint) \div denom
           product == cur * factor
<1>1. /\ cur \in Nat /\ cur <= p.max_threshold_mtu
      /\ zero \in Nat /\ full \in Nat /\ zero <= full
      /\ RaisedThreshold(p, s, w) = RaisedTo(p, cur, full, zero)
  BY RaisedExact, UsableTypes DEF Within
<1>2. CASE full = zero
  BY <1>1, <1>2, UsableTypes DEF RaisedTo
<1>3. CASE full # zero
  <2>1. denom \in Nat \ {0}
    BY <1>1, <1>3
  <2>2. full * FixedPoint \in Nat /\ FixedPoint * denom <= full * FixedPoint
    BY <1>1, <2>1, UsableTypes
  <2>3. factor \in Nat /\ FixedPoint <= factor
    <3> HIDE DEF denom, full
    <3>1. QED
      BY <2>1, <2>2, DivBelow, DivLower, UsableTypes
  <2>4. product \in Nat /\ cur * FixedPoint <= product
    <3> HIDE DEF factor
    <3>1. QED
      BY <1>1, <2>3, UsableTypes
  <2>5. RaisedTo(p, cur, full, zero) = Lesser(p.max_threshold_mtu, product \div FixedPoint)
    BY <1>3 DEF RaisedTo
  <2> HIDE DEF product
  <2>6. product \div FixedPoint \in Nat /\ cur <= product \div FixedPoint
    BY <1>1, <2>4, DivBelow, DivLower, UsableTypes
  <2>7. QED
    BY <1>1, <2>5, <2>6, UsableTypes DEF Lesser
<1>4. QED
  BY <1>2, <1>3

(* The slow-start threshold a raise leaves behind is in range as well.      *)
LEMMA RaisedSsthreshInRange ==
  ASSUME NEW p, Usable(p), NEW s \in BufferState, NEW w \in WindowState,
         Within(p, s.current_threshold_mtu), Within(p, s.ssthresh_mtu),
         RaisedThreshold(p, s, w)
           \in s.current_threshold_mtu .. p.max_threshold_mtu
  PROVE  Within(p, RaisedSsthresh(p, s, w))
<1> DEFINE cur == s.current_threshold_mtu
           product == cur * p.ssthresh_multiplier
<1>1. /\ cur \in Nat /\ p.min_threshold_mtu <= cur /\ cur <= p.max_threshold_mtu
  BY UsableTypes DEF Within
<1>2. /\ product \in Nat
      /\ product <= p.max_threshold_mtu * p.ssthresh_multiplier
      /\ cur * FixedPoint <= product
  BY <1>1, UsableTypes
<1>3. U64(product) = product
  BY <1>2, U64Exact, UsableTypes DEF Word
<1>4. product \div FixedPoint \in Nat /\ cur <= product \div FixedPoint
  <2> HIDE DEF product
  <2>1. QED
    BY <1>1, <1>2, DivBelow, DivLower, UsableTypes
<1>5. RaisedSsthresh(p, s, w)
        = IF p.ssthresh_enabled # 0
          THEN Lesser(RaisedThreshold(p, s, w), product \div FixedPoint)
          ELSE s.ssthresh_mtu
  BY <1>3 DEF RaisedSsthresh
<1> HIDE DEF product
<1>6. QED
  BY <1>1, <1>4, <1>5, UsableTypes DEF Within, Lesser

(* Neither the halving nor the slow decrease leaves the range: the decrease *)
(* cannot wrap because it is at most the minimum.                           *)
LEMMA LoweredInRange ==
  ASSUME NEW p, Usable(p), NEW s \in BufferState,
         Within(p, s.current_threshold_mtu), Within(p, s.ssthresh_mtu)
  PROVE  Within(p, LoweredThreshold(p, s))
<1>1. s.current_threshold_mtu - p.decrease_constant \in Word
  BY UsableTypes DEF Within, BufferState, Word
<1>2. U64(s.current_threshold_mtu - p.decrease_constant)
        = s.current_threshold_mtu - p.decrease_constant
  BY <1>1, U64Exact
<1>3. QED
  BY <1>2, UsableTypes
     DEF LoweredThreshold, Within, Greater
=============================================================================
