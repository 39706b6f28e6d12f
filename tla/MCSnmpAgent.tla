---------------------------- MODULE MCSnmpAgent ----------------------------
(***************************************************************************)
(* Two devices; a number just beyond what one byte holds and one whose two *)
(* bytes the stripping leaves of three.  The arcs of MCBases need one, two *)
(* and three base-128 bytes; the last base does not fit the byte of the    *)
(* first two arcs.                                                         *)
(***************************************************************************)
EXTENDS SnmpAgent

MCNumbers == {-32768, 128}
MCBases == {<<1, 3, 6, 127, 32473, 1>>, <<0, 39, 128, 16384>>, <<2, 48, 1>>}
=============================================================================
