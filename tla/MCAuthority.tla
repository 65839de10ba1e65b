---------------------------- MODULE MCAuthority ----------------------------
(***************************************************************************)
(* SupervisedAuthority for TLC: i1 can be authorised by two approvals of   *)
(* two different proposals (different effects), i2 by one; e2 is an equity *)
(* effect, so i1's second proposal has no v1 route.                        *)
(***************************************************************************)
EXTENDS SupervisedAuthority, TLC

CONSTANTS i1, i2, e1, e2, s1, a1, a2, a3, p1, p2

MCScopeOf == (i1 :> s1) @@ (i2 :> s1)
MCDeadline == (i1 :> 2) @@ (i2 :> 3)
MCApprovedIntent == (a1 :> i1) @@ (a2 :> i1) @@ (a3 :> i2)
MCApprovedEffect == (a1 :> e1) @@ (a2 :> e2) @@ (a3 :> e1)
=============================================================================
