----------------------------- MODULE MCExtractor -----------------------------
(***************************************************************************)
(* Instances of ProtocolExtractor for TLC.                                 *)
(***************************************************************************)
EXTENDS ProtocolExtractor

NoKeys == {}

\* A transaction that changes the keys of f and nothing else.
Tx(comp, f) ==
    [comp |-> comp, chg |-> [k \in Keys |-> IF k \in DOMAIN f THEN f[k] ELSE "none"]]

PlainTxs == {Tx(FALSE, <<>>)}

\* One key of each kind.
AttrKey == {"attr"}
BalanceKey == {"balance"}
SlotKey == {"slot"}
AccBalanceKey == {"accbalance"}

RevertTxs ==
    {Tx(TRUE, [balance |-> "update"]),
     Tx(FALSE, [attr |-> "create"]),
     Tx(FALSE, [attr |-> "update", balance |-> "update"]),
     Tx(FALSE, [attr |-> "delete"]),
     Tx(FALSE, [slot |-> "update", accbalance |-> "update"]),
     Tx(FALSE, [accbalance |-> "update"])}

=============================================================================
