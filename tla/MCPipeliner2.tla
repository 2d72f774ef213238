---------------------------- MODULE MCPipeliner2 ----------------------------
(* Pipeliner2 for TLC.  The runs differ in their constants only.            *)
EXTENDS Pipeliner2

CONSTANTS t1, t2

(* An unassigned keyFrameSeqNo_: negative, or ahead of the producer.        *)
AnyKeyNo == {-1, 5}
=============================================================================
