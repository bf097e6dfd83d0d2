------------------------------ MODULE MCTracing ------------------------------
(***************************************************************************)
(* Instances of DynamicContractIndexer for TLC: two params of one entry    *)
(* point, which points at the account "A" or at the account "B" with two   *)
(* slots, of which each of the params reads one.                           *)
(***************************************************************************)
EXTENDS DynamicContractIndexer

MCSlots == {"ptr", "a", "b1", "b2"}

MCTargets == {"A", "B"}

MCAccount == [s \in MCSlots |-> CASE s = "ptr" -> "P" [] s = "a" -> "A" [] OTHER -> "B"]

MCAccess ==
    [p \in Params |->
        [t \in MCTargets |->
            CASE t = "A" -> {"a"} [] t = "B" /\ p = "p" -> {"b1"} [] OTHER -> {"b2"}]]

Nothing == [links |-> {}, params |-> {}, tokens |-> {}, updated |-> {}, slots |-> {}]

Link(comp) == [Nothing EXCEPT !.links = {comp}]

LinkWith(comp, p) == [Link(comp) EXCEPT !.params = {<<p, comp>>}]

New(p, comp) == [Nothing EXCEPT !.params = {<<p, comp>>}]

Write(slots) == [Nothing EXCEPT !.slots = slots]

MCEvents ==
    {Link("c"), LinkWith("c", "p"), LinkWith("d", "p"),
     New("q", "c"), [New("q", "c") EXCEPT !.slots = {"ptr", "b1"}],
     Write({"ptr"}), Write({"b1", "b2"}), [Write({"ptr"}) EXCEPT !.tokens = {"B"}],
     [Nothing EXCEPT !.updated = {"c"}]}

=============================================================================
