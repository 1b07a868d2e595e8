--------------------------- MODULE MCScanRequests ---------------------------
(* Instances of ScanRequests for TLC: requests meet a scan of their node,  *)
(* its retry loop and another node.                                        *)
EXTENDS ScanRequests, TLC
=============================================================================
