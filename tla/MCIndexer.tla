----------------------------- MODULE MCIndexer -----------------------------
(***************************************************************************)
(* Instances of Indexer for TLC: blocks without data.                      *)
(***************************************************************************)
EXTENDS Indexer

NoKeys == {}

PlainTxs == {[comp |-> FALSE, chg |-> [k \in Keys |-> "none"]]}

=============================================================================
