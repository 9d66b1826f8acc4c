-------------------------------- MODULE MCTcp --------------------------------
(* The TCP engine's table of connections under bursts: three headers, in any *)
(* cycles.  x and y meet in both of their sets, the right hash of z is that  *)
(* of x.                                                                     *)
EXTENDS TcpEngine, TLC

CONSTANTS x, y, z

MCHashL == (x :> [set |-> 0, tag |-> 1]) @@ (y :> [set |-> 1, tag |-> 2])
             @@ (z :> [set |-> 0, tag |-> 5])
MCHashR == (x :> [set |-> 1, tag |-> 3]) @@ (y :> [set |-> 0, tag |-> 4])
             @@ (z :> [set |-> 1, tag |-> 3])
MCCsrs  == {SYN, RST}
=============================================================================
