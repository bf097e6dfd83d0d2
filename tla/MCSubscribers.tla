---------------------------- MODULE MCSubscribers ----------------------------
(***************************************************************************)
(* Instances of Subscribers for TLC: blocks without data.                  *)
(***************************************************************************)
EXTENDS Subscribers

NoKeys == {}
PlainTxs == {[comp |-> FALSE, chg |-> [k \in Keys |-> "none"]]}

=============================================================================
