------------------------------ MODULE MCDataFlow ------------------------------
(***************************************************************************)
(* Two names of one register, which calls may change, and a register of    *)
(* its own, which they keep.                                               *)
(***************************************************************************)
EXTENDS DataFlow

MCRegisters == {"RAX", "EAX", "RBX"}
MCVolatile == {"RAX", "EAX"}
MCOverlapping == [r \in MCRegisters |-> IF r \in MCVolatile THEN MCVolatile ELSE {r}]
MCValues == 0..2
=============================================================================
