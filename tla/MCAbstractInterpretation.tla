----------------------- MODULE MCAbstractInterpretation -----------------------
(***************************************************************************)
(* A register that the pass treats as any other, with a second, narrower   *)
(* name, and one of the three it keeps at zero, which calls may change;    *)
(* immediates of either sign.                                              *)
(***************************************************************************)
EXTENDS AbstractInterpretation

MCRegisters == {"RAX", "RBX", "BL"}
MCBits == [r \in MCRegisters |-> IF r = "BL" THEN 1 ELSE 2]
MCFull == [r \in MCRegisters |-> IF r = "RAX" THEN r ELSE "RBX"]
MCZeroKept == {"RAX"}
MCImmediates == {-2, 0, 1}
=============================================================================
