------------------------------- MODULE MCExit -------------------------------
EXTENDS ExitOwner, TLC

MCContract == [s \in Sids |-> "c"]

Scenario(a, b, n, overnight, max) ==
    [lane |-> ("a" :> a) @@ ("b" :> b), outside |-> n, overnight |-> overnight,
     max |-> [reprices |-> max[1], deaths |-> max[2], crashes |-> max[3]]]

(* An option, an equity alone and beside another's share, two equities of  *)
(* one contract.                                                           *)
MCScenarios ==
    {Scenario("option", "absent", 0, TRUE, <<1, 1, 1>>),
     Scenario("equity", "absent", 0, TRUE, <<1, 0, 1>>),
     Scenario("equity", "absent", 1, FALSE, <<1, 0, 1>>),
     Scenario("held", "held", 1, FALSE, <<0, 0, 1>>)}

MCOptionOnly == {Scenario("option", "absent", 0, FALSE, <<0, 0, 1>>)}

MCQuantity == ("a" :> 2) @@ ("b" :> 1)

MCKillSets == {{}, {"HALT"}, {"FLATTEN"}, {"PAUSE_ENTRIES"}}
=============================================================================
