-------------------------- MODULE MC_TitrateDaemon --------------------------
(* Two queue lengths: with three samples, a short and a long one mixed.        *)
EXTENDS TitrateDaemon

MCQueueBits == {0, 2}
=============================================================================
