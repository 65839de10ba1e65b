---------------------------- MODULE EntrySlots -----------------------------
(***************************************************************************)
(* What the outbox promises its callers, with no files, permits, clocks or *)
(* crashes: a package is a slot that one intent at a time may occupy, and  *)
(* the broker can hold an order only of the intent that occupies its slot. *)
(*                                                                         *)
(* An intent opens the slot when it is free.  An open one either lapses or *)
(* is committed to the broker.  From then on its order may appear, and the *)
(* slot is given back only once no order of it can exist.                  *)
(***************************************************************************)
CONSTANTS Intents, PackageOf

VARIABLES phase, orders

slotVars == <<phase, orders>>

Phases == {"new", "open", "lapsed", "committed", "released"}

SlotTypeOK == phase \in [Intents -> Phases] /\ orders \subseteq Intents

SlotInit == phase = [i \in Intents |-> "new"] /\ orders = {}

Occupied(i) == \E j \in Intents : PackageOf[j] = PackageOf[i]
                                     /\ phase[j] \in {"open", "committed"}

Open(i) ==
    /\ phase[i] = "new" /\ ~Occupied(i)
    /\ phase' = [phase EXCEPT ![i] = "open"]
    /\ UNCHANGED orders

\* Deadlines pass together.
Lapse ==
    /\ \E S \in SUBSET {i \in Intents : phase[i] = "open"} :
         phase' = [i \in Intents |-> IF i \in S THEN "lapsed" ELSE phase[i]]
    /\ UNCHANGED orders

Commit(i) ==
    /\ phase[i] = "open"
    /\ phase' = [phase EXCEPT ![i] = "committed"]
    /\ UNCHANGED orders

OrderAppears(i) ==
    /\ phase[i] = "committed" /\ i \notin orders
    /\ orders' = orders \cup {i}
    /\ UNCHANGED phase

OrderLost(i) ==
    /\ orders' = orders \ {i}
    /\ UNCHANGED phase

Release(i) ==
    /\ phase[i] = "committed" /\ i \notin orders
    /\ phase' = [phase EXCEPT ![i] = "released"]
    /\ UNCHANGED orders

SlotNext == Lapse \/ \E i \in Intents : \/ Open(i) \/ Commit(i) \/ OrderAppears(i)
                                        \/ OrderLost(i) \/ Release(i)

SlotSpec == SlotInit /\ [][SlotNext]_slotVars
=============================================================================
