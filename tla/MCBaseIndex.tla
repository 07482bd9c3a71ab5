---------------------------- MODULE MCBaseIndex ----------------------------
(***************************************************************************)
(* A chain of two blocks over the genesis block and a branch of three that *)
(* overtakes it.                                                           *)
(***************************************************************************)
EXTENDS BaseIndex

MCBlocks == Ancestors(<<"g", "a", "a">>) \cup Ancestors(<<"g", "b", "b", "b">>)
MCInitialTips == {NullBlock, <<"g", "a">>}
============================================================================
