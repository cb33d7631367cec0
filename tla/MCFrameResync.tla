--------------------------- MODULE MCFrameResync ---------------------------
(* An instance of FrameResync: a magic of two bytes, a header with one      *)
(* field between it and the size, and a payload long enough to hold a       *)
(* magic.  A byte of the magic is an oversized size.                        *)
EXTENDS FrameResync

MCBytes == {"I", "M", "0", "2"}
MCMagic == <<"I", "M">>
MCSizeOf == [b \in MCBytes |-> CASE b = "0" -> 0 [] b = "2" -> 2 [] OTHER -> 3]

============================================================================
