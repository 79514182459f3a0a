-------------------------- MODULE MC_SwitchStartup --------------------------
(* Two interfaces, two packet sizes; 1.5 bits per tick.                     *)
EXTENDS SwitchStartup

CONSTANTS if0, if1

MCConfig ==
  [rate_bps |-> 6, window_duration_ms |-> 1, decrease_constant |-> 1,
   min_threshold_mtu |-> 1, max_threshold_mtu |-> 3,
   initial_threshold_mtu |-> 2, windows_considered |-> 1,
   ssthresh_multiplier |-> 6, ssthresh_enabled |-> 1]

MCInterfaces == {if0, if1}
MCPacketBits == {2, 4}
=============================================================================
