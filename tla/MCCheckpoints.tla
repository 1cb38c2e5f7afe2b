---------------------------- MODULE MCCheckpoints ----------------------------
(* Small instances of Checkpoints for TLC. *)
EXTENDS Checkpoints

MCLists == {<<1, 2>>, <<0>>, <<1, 1, 2>>}
=============================================================================
