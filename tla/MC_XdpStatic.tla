---------------------------- MODULE MC_XdpStatic -----------------------------
(* A threshold of two packets, averages of two samples.                     *)
EXTENDS XdpStatic

MCPacketBits == {2, 3}
=============================================================================
