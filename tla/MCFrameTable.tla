----------------------------- MODULE MCFrameTable -----------------------------
(***************************************************************************)
(* Values for the constants of FrameTable: data_align is negative, and a   *)
(* cfg cannot write a negative number.                                     *)
(***************************************************************************)
EXTENDS FrameTable

\* The data alignment of x86-64.
DataAlignment == -8

\* A PLT entry's return address lies behind (or in front of) its pc; an
\* expression the parser does not know yields 0.
PcOffsets == {0, -2}
=============================================================================
