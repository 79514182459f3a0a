-------------------------- MODULE MC_XdpTitrateSmp ---------------------------
(* Two CPUs and one packet size; 1.5 bits per tick.                         *)
EXTENDS XdpTitrateSmp

MCParams ==
  [rate_bps |-> 6, window_duration_ms |-> 1, decrease_constant |-> 1,
   min_threshold_mtu |-> 1, max_threshold_mtu |-> 2,
   initial_threshold_mtu |-> 1, windows_considered |-> 1,
   ssthresh_multiplier |-> 6, ssthresh_enabled |-> 1]

MCCPUs == {1, 2}
MCPacketBits == {2}
MCAvgBits == {0, 5}
=============================================================================
