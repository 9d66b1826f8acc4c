--------------------------- MODULE MCResourceMgmt ---------------------------
(* Two physical functions, the first with a virtual one, and a few queues. *)
EXTENDS ResourceMgmtProps, TLC

CONSTANTS p1, p2, v1

MCParent == [v \in {v1} |-> p1]
=============================================================================
