--------------------------- MODULE XdpTitrateLink ---------------------------
(***************************************************************************)
(* The handler's lazy bookkeeping implements the queue that is drained at  *)
(* every tick: the refinement mapping from XdpTitrate to TitrateLink.      *)
(***************************************************************************)
EXTENDS XdpTitrate

(* Time that has passed since the handler last brought its state up to     *)
(* date, and how long the buffer of that moment lasts.                     *)
Since ==
  IF buffer_state.last_update_ns = 0
  THEN 0 ELSE now - buffer_state.last_update_ns

Lasts == (buffer_state.current_buffer_bits * NsPerSec) \div RateBps

QueueNow ==
  Greater(0, buffer_state.current_buffer_bits * NsPerSec - Since * RateBps)

IdleNow ==
  throughput_stats.total_zero_buffer_ns + Greater(0, Since - Lasts)

WindowNow ==
  IF window_state.is_window_active = 0
  THEN [round |-> 0, left |-> 0, idle |-> 0]
  ELSE [round |-> window_state.window_count,
        left  |-> Greater(0, window_state.window_end_ns - now),
        idle  |-> window_state.window_zero_buffer_ns +
                    Greater(0, Lesser(now, window_state.window_end_ns)
                               - buffer_state.last_update_ns - Lasts)]

Link == INSTANCE TitrateLink WITH
  Rate <- RateBps, Scale <- NsPerSec, WindowTicks <- WindowNs(params),
  Rounds <- WindowsConsidered, MtuSize <- MtuBits,
  MinThr <- MinThresholdMtu, MaxThr <- MaxThresholdMtu,
  InitThr <- InitialThresholdMtu, Decrease <- DecreaseConstant,
  SsOn <- SsthreshEnabled = 1, SsMult <- SsthreshMultiplier,
  One <- FixedPoint, Sizes <- PacketBits, Averages <- AvgBits,
  queue <- QueueNow,
  started <- buffer_state.last_update_ns # 0,
  idle <- IdleNow,
  thr <- buffer_state.current_threshold_mtu,
  ssthr <- buffer_state.ssthresh_mtu,
  window <- WindowNow,
  avg <- avg_queue_bits

(* Every behaviour of the handler is one of the link: the lazily updated    *)
(* buffer, idle time, window and threshold agree at every instant with a    *)
(* queue drained tick by tick, whichever the arrival times (223-359).       *)
LinkSpec == Link!LSpec

(* "Deplete buffer with released tokens" (line 227), at a rate in "bits per *)
(* second" (line 43): a packet that finds the link drained is alone in the  *)
(* buffer afterwards, however long the pause before it was.                 *)
DrainedAfterIdle ==
  [][buffer_state'.last_update_ns = now /\ QueueNow = 0 =>
       buffer_state'.current_buffer_bits \in {0} \cup PacketBits]_vars
=============================================================================
