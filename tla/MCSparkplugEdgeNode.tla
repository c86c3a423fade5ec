------------------------ MODULE MCSparkplugEdgeNode ------------------------
(* Instance for TLC: every metric takes one value besides null. *)
EXTENDS SparkplugEdgeNode

ReadingValues == {<<"int", 7>>}
=============================================================================
