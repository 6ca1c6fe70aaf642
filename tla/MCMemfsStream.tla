------------------------------ MODULE MCMemfsStream ------------------------------
(* Values of the constants of MemfsStream for TLC.                         *)
EXTENDS MemfsStream

(* The bytes themselves matter to no property of the stream: there is one, *)
(* which is also Zero and Uninit.                                          *)
CONSTANT byte

MCPayloads == {<<byte>>, <<byte, byte, byte>>}
MCOffsets  == {-1, 0, 1, LLONG_MAX}
MCAmounts  == {-1, 1, INT_MAX}
MCSizes    == {-1, 0, 2, 4}

===============================================================================
