----------------------------- MODULE TitrateOps -----------------------------
(***************************************************************************)
(* The arithmetic of the XDP program of the testbed switch                 *)
(* (detailed_ae/testbed/switch/titrate/bpf/xdp_titrate.c): how much of the *)
(* virtual buffer is released between two packets, how much of that time   *)
(* the virtual link was idle, how the threshold moves when a window        *)
(* expires and when a packet is dropped.                                   *)
(*                                                                         *)
(* Every operator is pure.  p is the rate_limit_params record, s the       *)
(* buffer_state record and w the window_state record of the program's BPF  *)
(* maps, with the program's field names.  The program computes in __u64:   *)
(* each addition, subtraction and product is reduced modulo WordMod.       *)
(***************************************************************************)
EXTENDS Integers

CONSTANTS
  WordMod,      (* 2^64: the modulus of __u64 arithmetic                   *)
  NsPerSec,     (* NS_PER_SEC: clock ticks per second                      *)
  MsPerSec,     (* the literal 1000 of the window duration's conversion    *)
  MtuBits,      (* MTU * 8: MTU_TO_BITS(x) is x * MtuBits                  *)
  FixedPoint    (* FIXED_POINT_FACTOR                                      *)

ASSUME OpsAssumption ==
  /\ WordMod \in Nat \ {0, 1}
  /\ NsPerSec \in Nat \ {0}
  /\ MsPerSec \in Nat \ {0}
  /\ MtuBits \in Nat \ {0}
  /\ FixedPoint \in Nat \ {0}

Word == 0 .. (WordMod - 1)

U64(x) == x % WordMod

(* The kernel defines the quotient of a BPF division by zero as zero.      *)
BpfDiv(x, y) == IF y = 0 THEN 0 ELSE x \div y

Lesser(x, y)  == IF x < y THEN x ELSE y
Greater(x, y) == IF x > y THEN x ELSE y

RateLimitParams ==
  [rate_bps : Word, window_duration_ms : Word, decrease_constant : Word,
   min_threshold_mtu : Word, max_threshold_mtu : Word,
   initial_threshold_mtu : Word, windows_considered : Word,
   ssthresh_multiplier : Word, ssthresh_enabled : Word]

BufferState == [current_buffer_bits : Word, last_update_ns : Word,
                current_threshold_mtu : Word, ssthresh_mtu : Word]

WindowState == [is_window_active : {0, 1}, window_end_ns : Word,
                window_zero_buffer_ns : Word, window_count : Word]

ZeroWindow == [is_window_active |-> 0, window_end_ns |-> 0,
               window_zero_buffer_ns |-> 0, window_count |-> 0]

-----------------------------------------------------------------------------
(* The virtual link: tokens released since the last packet.                *)

(* As Elapsed, if the first packet were not told apart.                    *)
ElapsedFromZero(s, now) == U64(now - s.last_update_ns)

Elapsed(s, now) ==
  IF s.last_update_ns = 0 THEN 0 ELSE U64(now - s.last_update_ns)

(* As TokensReleased, if the rate were converted before the product.       *)
TokensPerWholeTick(p, elapsed) == elapsed * (p.rate_bps \div NsPerSec)

TokensReleased(p, elapsed) == U64(elapsed * p.rate_bps) \div NsPerSec

Empties(p, s, elapsed) == TokensReleased(p, elapsed) >= s.current_buffer_bits

TimeToEmpty(p, s) == BpfDiv(U64(s.current_buffer_bits * NsPerSec), p.rate_bps)

TimeAtZero(p, s, elapsed) ==
  IF Empties(p, s, elapsed) THEN U64(elapsed - TimeToEmpty(p, s)) ELSE 0

(* As DepletedBits, if the buffer were signed and not stopped at zero.     *)
DepletedSigned(p, s, elapsed) ==
  s.current_buffer_bits - TokensReleased(p, elapsed)

DepletedBits(p, s, elapsed) ==
  IF Empties(p, s, elapsed)
  THEN 0
  ELSE s.current_buffer_bits - TokensReleased(p, elapsed)

Deplete(p, s, elapsed) ==
  [s EXCEPT !.current_buffer_bits = DepletedBits(p, s, elapsed)]

(* As IdleInWindow, if idle time after the window's end were counted.      *)
IdlePastWindow(w, now, atZero) == atZero

(* The part of the idle time atZero, which ended now, that lies before the *)
(* end of the window.                                                      *)
IdleInWindow(w, now, atZero) ==
  LET inWindow == U64(atZero - U64(now - w.window_end_ns))
  IN  IF now <= w.window_end_ns THEN atZero
      ELSE IF inWindow > 0 /\ inWindow <= atZero THEN inWindow
      ELSE 0

AccountIdle(w, now, atZero) ==
  IF w.is_window_active = 1
  THEN [w EXCEPT !.window_zero_buffer_ns =
                   U64(@ + IdleInWindow(w, now, atZero))]
  ELSE w

-----------------------------------------------------------------------------
(* The Titrate algorithm, run on the first packet after a window's end.    *)

WindowNs(p) == U64(p.window_duration_ms * NsPerSec) \div MsPerSec

(* The most rounds a window lasts: one, or windows_considered.             *)
RoundsOf(p) == Greater(1, p.windows_considered)

(* Parameters that keep the threshold's arithmetic exact, and a raise a    *)
(* raise: a nonzero minimum, decreased by no more than itself; a           *)
(* multiplier of at least 1.0; products below 2^64.                        *)
Usable(p) ==
  /\ p \in RateLimitParams
  /\ p.min_threshold_mtu >= 1 /\ p.min_threshold_mtu <= p.max_threshold_mtu
  /\ p.decrease_constant <= p.min_threshold_mtu
  /\ p.ssthresh_multiplier >= FixedPoint
  /\ p.max_threshold_mtu * p.ssthresh_multiplier < WordMod
  /\ p.max_threshold_mtu * (WindowNs(p) * RoundsOf(p) * FixedPoint) < WordMod

Expired(w, now) == w.is_window_active = 1 /\ now >= w.window_end_ns

RaisedThreshold(p, s, w) ==
  LET duration == U64(WindowNs(p) * w.window_count)
      denom    == U64(duration - w.window_zero_buffer_ns)
      factor   == U64(duration * FixedPoint) \div denom
  IN  IF denom = 0
      THEN p.max_threshold_mtu
      ELSE Lesser(p.max_threshold_mtu,
                  U64(s.current_threshold_mtu * factor) \div FixedPoint)

RaisedSsthresh(p, s, w) ==
  IF p.ssthresh_enabled # 0
  THEN Lesser(RaisedThreshold(p, s, w),
              U64(s.current_threshold_mtu * p.ssthresh_multiplier)
                \div FixedPoint)
  ELSE s.ssthresh_mtu

LoweredThreshold(p, s) ==
  IF p.ssthresh_enabled # 0 /\ s.current_threshold_mtu > s.ssthresh_mtu
  THEN Greater(s.ssthresh_mtu, s.current_threshold_mtu \div 2)
  ELSE Greater(p.min_threshold_mtu,
               U64(s.current_threshold_mtu - p.decrease_constant))

WindowEnd(p, now) == U64(now + WindowNs(p))

(* The buffer state and the window state after the expiry of window w.     *)
AdjustState(p, s, w) ==
  IF w.window_zero_buffer_ns > 0
  THEN [s EXCEPT !.current_threshold_mtu = RaisedThreshold(p, s, w),
                 !.ssthresh_mtu = RaisedSsthresh(p, s, w)]
  ELSE [s EXCEPT !.current_threshold_mtu = LoweredThreshold(p, s)]

(* As AdjustWindow, with <= in line 343.                                   *)
AdjustOneRoundMore(p, w, now) ==
  IF w.window_zero_buffer_ns = 0 /\ w.window_count <= p.windows_considered
  THEN [w EXCEPT !.window_count = U64(@ + 1),
                 !.window_end_ns = WindowEnd(p, now)]
  ELSE [w EXCEPT !.is_window_active = 0]

AdjustWindow(p, w, now) ==
  IF w.window_zero_buffer_ns = 0 /\ w.window_count < p.windows_considered
  THEN [w EXCEPT !.window_count = U64(@ + 1),
                 !.window_end_ns = WindowEnd(p, now)]
  ELSE [w EXCEPT !.is_window_active = 0]

(* What the admission test sees: the buffer depleted and the window         *)
(* credited with idle time up to now, adjusted if the window has expired.   *)
AdjustedBuffer(p, s, w, now) ==
  LET depleted == Deplete(p, s, Elapsed(s, now))
  IN  IF Expired(w, now) THEN AdjustState(p, depleted, w) ELSE depleted

AdjustedWindow(p, w, now) ==
  IF Expired(w, now) THEN AdjustWindow(p, w, now) ELSE w

-----------------------------------------------------------------------------
(* Admission.                                                              *)

(* As Exceeds, if the arriving packet were not counted.                    *)
ExceedsAlready(bits, size, mtu) == bits > U64(mtu * MtuBits)

Exceeds(bits, size, mtu) == U64(bits + size) > U64(mtu * MtuBits)

(* As MustDrop, without the cap that does not depend on the average.       *)
MustDropUncapped(p, s, avg, size) ==
  /\ Exceeds(avg, size, s.current_threshold_mtu)
  /\ Exceeds(s.current_buffer_bits, size, s.current_threshold_mtu)

MustDrop(p, s, avg, size) ==
  \/ Exceeds(s.current_buffer_bits, size, p.max_threshold_mtu)
  \/ /\ Exceeds(avg, size, s.current_threshold_mtu)
     /\ Exceeds(s.current_buffer_bits, size, s.current_threshold_mtu)

(* As OpenWindow, without line 383.                                        *)
OpenKeepingIdle(p, w, now) ==
  IF w.is_window_active = 1
  THEN w
  ELSE [w EXCEPT !.is_window_active = 1, !.window_end_ns = WindowEnd(p, now),
                 !.window_count = 1]

(* As OpenWindow, if every drop restarted the window.                      *)
ReopenWindow(p, w, now) ==
  [is_window_active |-> 1, window_end_ns |-> WindowEnd(p, now),
   window_zero_buffer_ns |-> 0, window_count |-> 1]

(* A drop opens a window unless one is active.                             *)
OpenWindow(p, w, now) ==
  IF w.is_window_active = 1
  THEN w
  ELSE [is_window_active |-> 1, window_end_ns |-> WindowEnd(p, now),
        window_zero_buffer_ns |-> 0, window_count |-> 1]

-----------------------------------------------------------------------------
(* Statistics.                                                             *)

ThroughputStats == [program_start_ns : Word, total_zero_buffer_ns : Word]

ZeroStats == [program_start_ns |-> 0, total_zero_buffer_ns |-> 0]

Counted(stats, now, atZero) ==
  [program_start_ns |-> IF stats.program_start_ns = 0
                        THEN now ELSE stats.program_start_ns,
   total_zero_buffer_ns |-> U64(stats.total_zero_buffer_ns + atZero)]
=============================================================================
