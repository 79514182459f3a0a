--------------------------- MODULE MC_GenQueueDisc ---------------------------
(* One port with a control and a data class.  Two control packets fill the  *)
(* buffer, as the queues of other ports would, when the data queue is empty.*)
EXTENDS GenQueueDisc

MCPorts == {0}
MCDataSizes == {2}
MCControlSizes == {3}
=============================================================================
