---------------------------- MODULE MCConnection ----------------------------
(* Connection for TLC: machines of any byte order.                         *)
EXTENDS Connection

MCMachines == [Side -> ByteOrder]
=============================================================================
