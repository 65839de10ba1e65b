------------------------------- MODULE RunLog -------------------------------
(***************************************************************************)
(* What the journal of a run promises: a history of acknowledged records   *)
(* that only grows, and that at every moment is a legal history of a run.  *)
(* A record a crash left behind its write is acknowledged together with    *)
(* the next one, so the history may grow by several records at once.       *)
(***************************************************************************)
EXTENDS RunStates

VARIABLE history

Init == LegalHistory(history)

Extend ==
    /\ Len(history') > Len(history)
    /\ IsPrefix(history, history')
    /\ LegalHistory(history')

Spec == Init /\ [][Extend]_history
=============================================================================
