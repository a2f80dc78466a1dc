------------------------------- MODULE MCWal -------------------------------
(***************************************************************************)
(* Wal for TLC: writes are cut on both sides of the magic and of the       *)
(* header, the two places where the reader changes its mind.               *)
(***************************************************************************)
EXTENDS Wal

MCTornSizes == {MagicLen - 1, MagicLen, HeaderLen - 1, HeaderLen}
=============================================================================
