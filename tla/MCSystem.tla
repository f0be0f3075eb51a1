------------------------------ MODULE MCSystem ------------------------------
(***************************************************************************)
(* System for TLC.                                                         *)
(***************************************************************************)
EXTENDS System

MCParamFiles == <<"sapling", "sprout">>

\* Three objects over three pages; neighbours share a page.
MCObjects == [a |-> [address |-> 0, size |-> 3], b |-> [address |-> 3, size |-> 2], c |-> [address |-> 5, size |-> 1]]

MCStages == <<"headers", "blocks", "senders">>

MCKeys == {<<0>>, <<0, 1>>, <<1>>, <<1, 0>>, <<1, 1>>}
MCTables == SUBSET MCKeys
MCSearches == {<<>>, <<0>>, <<1>>, <<1, 0>>, <<2>>}
=============================================================================
