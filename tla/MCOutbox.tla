------------------------------ MODULE MCOutbox ------------------------------
(***************************************************************************)
(* SupervisedOutbox for TLC: two intents of one package, v1 mandates.      *)
(***************************************************************************)
EXTENDS SupervisedOutbox, TLC

CONSTANTS i1, i2, e1, s1, a1, a2, p1

MCScopeOf == (i1 :> s1) @@ (i2 :> s1)
MCPackageOf == (i1 :> i1) @@ (i2 :> i1)
MCDeadline == (i1 :> 1) @@ (i2 :> 3)
MCApprovedIntent == [a \in Approvals |-> IF a = a1 THEN i1 ELSE i2]
MCApprovedEffect == [a \in Approvals |-> e1]
=============================================================================
