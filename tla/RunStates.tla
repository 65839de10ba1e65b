----------------------------- MODULE RunStates -----------------------------
(***************************************************************************)
(* The life of a campaign run: runstate/states.py.                         *)
(*                                                                         *)
(* A journal record is the state it moves the run to (the GENESIS record   *)
(* is "PLANNED", the TRANSITION records the rest) or the manifest it pins  *)
(* (MANIFEST_PINNED).  Sequence numbers, reasons, actors and times are     *)
(* left out: no decision reads them.                                       *)
(***************************************************************************)
EXTENDS Naturals, Sequences, SequencesExt

CONSTANTS Manifests,    \* hashes of capture manifests
          None

\* STATE_ORDER: the rank of every state but UNKNOWN.
StateOrder ==
    << "PLANNED", "CAPTURING", "CAPTURE_COMPLETE", "INSPECTION_RUNNING",
       "INSPECTION_FAILED", "INSPECTED", "AMENDMENT_PENDING_OWNER",
       "AMENDMENT_READY", "BARS_READY", "BARS_CAPTURING", "BARS_COMPLETE",
       "SEALED_PREFLIGHT_READY", "SEALED_RUNNING", "SEALED_COMPLETE", "FAILED" >>

RunStates == {StateOrder[k] : k \in DOMAIN StateOrder}
Rank(s) == CHOOSE k \in DOMAIN StateOrder : StateOrder[k] = s

\* _RETRY_EDGES: the sanctioned regressions.
RetryEdges ==
    {<<"FAILED", s>> : s \in {"CAPTURING", "INSPECTION_RUNNING", "BARS_CAPTURING"}}
        \cup {<<"INSPECTION_FAILED", "INSPECTION_RUNNING">>}

\* _FORWARD_EDGES.
ForwardEdges ==
    {<<"PLANNED", "CAPTURING">>, <<"CAPTURING", "CAPTURE_COMPLETE">>,
     <<"CAPTURING", "FAILED">>, <<"CAPTURE_COMPLETE", "INSPECTION_RUNNING">>,
     <<"INSPECTION_RUNNING", "INSPECTED">>,
     <<"INSPECTION_RUNNING", "INSPECTION_FAILED">>,
     <<"INSPECTION_FAILED", "FAILED">>,
     <<"INSPECTED", "AMENDMENT_PENDING_OWNER">>,
     <<"AMENDMENT_PENDING_OWNER", "AMENDMENT_READY">>,
     <<"AMENDMENT_READY", "BARS_READY">>, <<"BARS_READY", "BARS_CAPTURING">>,
     <<"BARS_CAPTURING", "BARS_COMPLETE">>, <<"BARS_CAPTURING", "FAILED">>,
     <<"BARS_COMPLETE", "SEALED_PREFLIGHT_READY">>,
     <<"SEALED_PREFLIGHT_READY", "SEALED_RUNNING">>,
     <<"SEALED_RUNNING", "SEALED_COMPLETE">>}

\* is_legal; UNKNOWN is on no edge.
IsLegal(source, target) ==
    \/ <<source, target>> \in RetryEdges
    \/ <<source, target>> \in ForwardEdges /\ Rank(target) > Rank(source)

Records == RunStates \cup Manifests

\* RunStore.state and RunStore.pinned_manifest_sha256 of a view.
StateOf(view) ==
    LET states == SelectSeq(view, LAMBDA r : r \in RunStates)
    IN  IF states = <<>> THEN None ELSE Last(states)
PinOf(view) ==
    LET pins == SelectSeq(view, LAMBDA r : r \in Manifests)
    IN  IF pins = <<>> THEN None ELSE Last(pins)

\* What append_record may be asked to put behind a history: the first state
\* is PLANNED, every other one is reached by a legal edge; one manifest is
\* pinned.  (transition refuses a journal without a state, pin_manifest does
\* not.)
MayFollow(past, r) ==
    IF r \in Manifests THEN PinOf(past) = None
    ELSE \/ past = <<>> /\ r = "PLANNED"
         \/ StateOf(past) # None /\ IsLegal(StateOf(past), r)

LegalHistory(h) == \A k \in 1..Len(h) : MayFollow(SubSeq(h, 1, k - 1), h[k])
=============================================================================
