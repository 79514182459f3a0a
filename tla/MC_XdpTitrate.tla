--------------------------- MODULE MC_XdpTitrate ----------------------------
(* Small instances of the metered packet handler and of its refinement of   *)
(* the link: two sizes, one interface that is listed and one that is not.   *)
EXTENDS XdpTitrateLink, TitrateMeter

MCPacketBits == {2, 4}
MCAvgBits == {0, 5}
MCInterfaces == {2, 3}
MCAllowedIfs == {2}
=============================================================================
