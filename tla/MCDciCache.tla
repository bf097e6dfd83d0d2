----------------------------- MODULE MCDciCache -----------------------------
(***************************************************************************)
(* Instances of DciCache for TLC.                                          *)
(***************************************************************************)
EXTENDS DciCache

\* Two branches that fork after the second block.
TwoBranches ==
    {[hash |-> 1, parent |-> 0, number |-> 1],
     [hash |-> 2, parent |-> 1, number |-> 2],
     [hash |-> 3, parent |-> 2, number |-> 3],
     [hash |-> 4, parent |-> 2, number |-> 3]}

=============================================================================
