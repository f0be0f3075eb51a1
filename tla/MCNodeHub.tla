------------------------------ MODULE MCNodeHub ------------------------------
(* Instances of NodeHub for model checking. *)
EXTENDS NodeHub

NothingFed == {<<>>}
OneFed == {<<[address |-> "a", type |-> "kSeedOutbound"]>>}
=============================================================================
