------------------------------ MODULE MCMemfsFile ------------------------------
(* Values of the constants of MemfsFile for TLC.                           *)
EXTENDS MemfsFile

CONSTANTS a, b          \* two bytes

(* Reads and writes of every length that stays in a chunk, crosses one or  *)
(* spans the list, at every offset.                                        *)
MCPayloads == {<<>>, <<a>>, <<b, a>>, <<a, b, b>>}
MCOffsets  == -1 .. LLONG_MAX
MCAmounts  == 0 .. 4
MCSizes    == 0 .. LLONG_MAX

(* For what resizing does the bytes matter little and the reads not at all. *)
MCFewPayloads == {<<a>>, <<a, a, a>>}
MCNoAmounts   == {}
MCAllSizes    == -1 .. LLONG_MAX

===============================================================================
