----------------------------- MODULE MCOwnNote -----------------------------
(***************************************************************************)
(* OwnNote with six rings (two of them may be off) and enough epochs to    *)
(* use up the quota and recycle it.                                        *)
(***************************************************************************)
EXTENDS OwnNote
=============================================================================
