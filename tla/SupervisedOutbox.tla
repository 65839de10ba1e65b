------------------------- MODULE SupervisedOutbox --------------------------
(***************************************************************************)
(* The outbox half of trex/supervised.py on top of its authority: durable  *)
(* intents, the send boundary, orphan recovery and reconciliation.         *)
(*                                                                         *)
(* An intent is pending, then claimed (renamed to .sending), then has one  *)
(* terminal receipt; an uncertain receipt may get one reconciliation       *)
(* verdict.  send() holds the lock across the broker call and writes eight *)
(* times around it, so it is the one call modelled step by step: between   *)
(* two steps time passes, HALT appears, the broker acts, or the process    *)
(* dies and the lock falls free.  Every other call is one step, with a     *)
(* disjunct for each durable prefix it can die after.                      *)
(***************************************************************************)
EXTENDS SupervisedAuthority

CONSTANTS
    PackageOf,      \* package_intent_sha256 of an intent
    SettleDelay,    \* RECONCILE_SETTLE_S
    SurfaceDelay    \* bound: an order sent is in the broker's views (or
                    \* will never be) before this much time has passed

ASSUME OutboxAssumption ==
    /\ PackageOf \in [Intents -> Intents]
    /\ SettleDelay \in Nat \ {0}
    /\ SurfaceDelay \in Nat \ {0}

\* The settle window outlasts a stale `now` and the broker's own delay.
ASSUME SettleAssumption == MaxStale + SurfaceDelay <= SettleDelay

VARIABLES
    pending,     \* intents with an outbox/<intent>.pending.json
    sending,     \* outbox/<intent>.sending.json: bare, or rewritten with
                 \* claimed_at and permit_id
    terminal,    \* outbox/<intent>.terminal.json
    reconciled,  \* outbox/<intent>.reconciled.json
    journal,     \* kinds of records in journal/<intent>.jsonl
    call,        \* the send() that holds the lock, or None
    order,       \* the broker's side of an intent (external), or None
    late         \* history: intents claimed at or after their deadline

outboxVars == <<pending, sending, terminal, reconciled, journal, call, order, late>>
vars == <<authVars, outboxVars>>

-----------------------------------------------------------------------------
(* Documents. *)

Receipt == [outcome: {"acknowledged", "rejected", "uncertain"}, at: Nat]
RecordKinds == {"intent", "attempt", "fact", "uncertainty"}
Steps == {"claimed", "stamped", "consumed", "opened", "attempted", "submitted",
          "answered", "receipted"}
Call == [intent: Intents, effect: Effects, now: Nat, step: Steps,
         outcome: {"none", "acknowledged", "rejected", "uncertain"}]
Order == [state: {"wire", "lost", "live", "refused"}, effect: Effects, at: Nat]

ASSUME OutboxNone == None \notin Receipt \cup Call \cup Order

TypeOK ==
    /\ AuthTypeOK
    /\ pending \subseteq Intents
    /\ sending \in [Intents -> {"absent", "bare", "stamped"}]
    /\ terminal \in [Intents -> Receipt \cup {None}]
    /\ reconciled \in [Intents -> {"none", "confirmed_submitted",
                                   "confirmed_not_submitted"}]
    /\ journal \in [Intents -> SUBSET RecordKinds]
    /\ call \in Call \cup {None}
    /\ order \in [Intents -> Order \cup {None}]
    /\ late \subseteq Intents

Init ==
    /\ AuthInit
    /\ pending = {} /\ late = {} /\ call = None
    /\ sending = [i \in Intents |-> "absent"]
    /\ terminal = [i \in Intents |-> None]
    /\ reconciled = [i \in Intents |-> "none"]
    /\ journal = [i \in Intents |-> {}]
    /\ order = [i \in Intents |-> None]

-----------------------------------------------------------------------------
(* Helpers. *)

Unlocked == call = None

Outcome(i) == IF terminal[i] = None THEN "none" ELSE terminal[i].outcome

Holds_ForgetsUncertain(i, now) ==
    \/ reconciled[i] = "confirmed_submitted"
    \/ /\ reconciled[i] = "none"
       /\ \/ Outcome(i) = "acknowledged"
          \/ /\ terminal[i] = None
             /\ sending[i] # "absent" \/ (i \in pending /\ now < Deadline[i])

Holds_ForgetsClaims(i, now) ==
    \/ reconciled[i] = "confirmed_submitted"
    \/ /\ reconciled[i] = "none"
       /\ \/ Outcome(i) \in {"acknowledged", "uncertain"}
          \/ terminal[i] = None /\ i \in pending /\ now < Deadline[i]

\* _in_flight_reason for one intent of the package: a verdict decides, else
\* the terminal receipt, else the claim, else a pending whose deadline lies
\* ahead of the new intent's creation time.
Holds(i, now) ==
    \/ reconciled[i] = "confirmed_submitted"
    \/ /\ reconciled[i] = "none"
       /\ \/ Outcome(i) \in {"acknowledged", "uncertain"}
          \/ /\ terminal[i] = None
             /\ sending[i] # "absent" \/ (i \in pending /\ now < Deadline[i])

InFlight(i, now) == \E j \in Intents : PackageOf[j] = PackageOf[i] /\ Holds(j, now)

Orphans_OnlyStamped == {i \in Intents : sending[i] = "stamped"}
Orphans == {i \in Intents : sending[i] # "absent"}

Settled_AtOnce(i, now) == now >= terminal[i].at
Settled(i, now) == now >= terminal[i].at + SettleDelay

-----------------------------------------------------------------------------
(* record_intent *)

RecordIntent(i, now) ==
    /\ Unlocked
    /\ now < Deadline[i]
    /\ i \notin pending
    /\ sending[i] = "absent" /\ terminal[i] = None /\ reconciled[i] = "none"
    /\ ~InFlight(i, now)
    /\ pending' = pending \cup {i}
    /\ UNCHANGED <<authVars, sending, terminal, reconciled, journal, call, order, late>>

-----------------------------------------------------------------------------
(* send, step by step *)

SendAllowed_TrustsPermit(i, e, now) ==
    /\ permit[<<i, e>>] # None
    /\ permit[<<i, e>>].state = "issued"
    /\ ~halted
    /\ i \in pending

SendAllowed(i, e, now) ==
    /\ SendAuthorized(i, e, now)
    /\ i \in pending
    /\ now < Deadline[i]

\* Step s of the send holding the lock; it continues at step t.
At(s) == call # None /\ call.step = s
Goto(t) == call' = [call EXCEPT !.step = t]

\* The rename pending -> sending is the claim.
SendClaim(i, e, now) ==
    /\ Unlocked
    /\ SendAllowed(i, e, now)
    /\ pending' = pending \ {i}
    /\ sending' = [sending EXCEPT ![i] = "bare"]
    /\ call' = [intent |-> i, effect |-> e, now |-> now, step |-> "claimed",
                outcome |-> "none"]
    /\ late' = IF clock >= Deadline[i] THEN late \cup {i} ELSE late
    /\ UNCHANGED <<authVars, terminal, reconciled, journal, order>>

SendStamp ==
    /\ At("claimed") /\ Goto("stamped")
    /\ sending' = [sending EXCEPT ![call.intent] = "stamped"]
    /\ UNCHANGED <<authVars, pending, terminal, reconciled, journal, order, late>>

SendConsume_Never ==
    /\ At("stamped") /\ Goto("consumed")
    /\ UNCHANGED <<authVars, pending, sending, terminal, reconciled, journal, order, late>>

SendConsume ==
    /\ At("stamped") /\ Goto("consumed")
    /\ ConsumePermit(call.intent, call.effect)
    /\ UNCHANGED <<pending, sending, terminal, reconciled, journal, order, late>>

Append(i, kinds) == journal' = [journal EXCEPT ![i] = @ \cup kinds]

SendJournal ==
    /\ \/ At("consumed") /\ Goto("opened") /\ Append(call.intent, {"intent"})
       \/ At("opened") /\ Goto("attempted") /\ Append(call.intent, {"attempt"})
    /\ UNCHANGED <<authVars, pending, sending, terminal, reconciled, order, late>>

\* The broker call leaves: nothing was sent, or the order is on the wire, in
\* the broker's book, or turned down.
SendSubmit ==
    /\ At("attempted") /\ Goto("submitted")
    /\ \/ \E s \in {"wire", "live", "refused"} :
            order' = [order EXCEPT ![call.intent] =
                        [state |-> s, effect |-> call.effect, at |-> clock]]
       \/ UNCHANGED order
    /\ UNCHANGED <<authVars, pending, sending, terminal, reconciled, journal, late>>

\* The outcomes the adapter may report.  A timeout, an exception and facts the
\* lifecycle refuses to fold are all an uncertain outcome, whatever happened.
Answers(i) ==
    {"uncertain"}
        \cup (IF order[i] # None /\ order[i].state = "live" THEN {"acknowledged"} ELSE {})
        \cup (IF order[i] # None /\ order[i].state = "refused" THEN {"rejected"} ELSE {})

SendAnswer ==
    /\ At("submitted")
    /\ \E o \in Answers(call.intent) :
         /\ call' = [call EXCEPT !.step = "answered", !.outcome = o]
         /\ Append(call.intent, IF o = "uncertain" THEN {"uncertainty"} ELSE {"fact"})
    /\ UNCHANGED <<authVars, pending, sending, terminal, reconciled, order, late>>

SendReceipt_RetriesUncertain ==
    /\ At("answered")
    /\ IF call.outcome = "uncertain"
       THEN Goto("attempted") /\ UNCHANGED terminal
       ELSE /\ Goto("receipted")
            /\ terminal' = [terminal EXCEPT ![call.intent] =
                              [outcome |-> call.outcome, at |-> call.now]]
    /\ UNCHANGED <<authVars, pending, sending, reconciled, journal, order, late>>

SendReceipt ==
    /\ At("answered") /\ Goto("receipted")
    /\ terminal' = [terminal EXCEPT ![call.intent] =
                      [outcome |-> call.outcome, at |-> call.now]]
    /\ UNCHANGED <<authVars, pending, sending, reconciled, journal, order, late>>

SendReturn ==
    /\ At("receipted")
    /\ sending' = [sending EXCEPT ![call.intent] = "absent"]
    /\ call' = None
    /\ UNCHANGED <<authVars, pending, terminal, reconciled, journal, order, late>>

\* The sender dies; the kernel drops its flock.
Crash ==
    /\ call # None
    /\ call' = None
    /\ UNCHANGED <<authVars, pending, sending, terminal, reconciled, journal, order, late>>

-----------------------------------------------------------------------------
(* recover *)

RecoveryRecords == {"intent", "attempt", "uncertainty"}

\* The claim can be journaled on behalf of the dead sender.
Rejournal(i) == terminal[i] = None /\ sending[i] = "stamped" /\ journal[i] = {}

RecoveredTerminal_Overwrites(S, now) ==
    [i \in Intents |-> IF i \in S THEN [outcome |-> "uncertain", at |-> now]
                       ELSE terminal[i]]

\* _recover over the claims of S.
RecoveredTerminal(S, now) ==
    [i \in Intents |-> IF i \in S /\ terminal[i] = None
                       THEN [outcome |-> "uncertain", at |-> now] ELSE terminal[i]]
RecoveredSending(S) == [i \in Intents |-> IF i \in S THEN "absent" ELSE sending[i]]
RecoveredJournal(S) ==
    [i \in Intents |-> IF i \in S /\ Rejournal(i) THEN RecoveryRecords ELSE journal[i]]

RecoverAll(S, now) ==
    /\ terminal' = RecoveredTerminal(S, now)
    /\ sending' = RecoveredSending(S)
    /\ journal' = RecoveredJournal(S)

Recover(now) ==
    /\ Unlocked
    /\ Orphans # {}
    /\ \E S \in SUBSET Orphans : S # {} /\ RecoverAll(S, now)
    /\ UNCHANGED <<authVars, pending, reconciled, call, order, late>>

\* _recover dies inside one claim: part of the journal, or everything but the
\* unlink of the claim.
RecoverDies(i, now) ==
    /\ Unlocked
    /\ i \in Orphans /\ terminal[i] = None
    /\ \/ /\ Rejournal(i)
          /\ \E part \in {{"intent"}, {"intent", "attempt"}, RecoveryRecords} : Append(i, part)
          /\ UNCHANGED terminal
       \/ /\ terminal' = [terminal EXCEPT ![i] = [outcome |-> "uncertain", at |-> now]]
          /\ journal' = IF Rejournal(i) THEN [journal EXCEPT ![i] = RecoveryRecords]
                        ELSE journal
    /\ UNCHANGED <<authVars, pending, sending, reconciled, call, order, late>>

-----------------------------------------------------------------------------
(* reconcile_intent *)

\* What the broker's authoritative view can show.  An order still on the wire
\* is not in it; an order that was turned down may be (completed orders).
LookupVerdicts(i) ==
    IF order[i] = None \/ order[i].state \in {"wire", "lost"} THEN {"confirmed_not_submitted"}
    ELSE IF order[i].state = "refused" THEN {"confirmed_not_submitted", "confirmed_submitted"}
    ELSE {"confirmed_submitted"}

\* _recover runs first (over every claim), then the verdict.  A receipt that
\* _recover has just written is not settled, so i's was there before.  An
\* inconclusive lookup, and a submitted one whose facts do not fold, change
\* nothing but the audit trail.  Last disjunct: died before the verdict file.
Reconcile(i, now) ==
    /\ Unlocked
    /\ Outcome(i) = "uncertain"
    /\ Settled(i, now)
    /\ reconciled[i] = "none"
    /\ \E v \in LookupVerdicts(i) :
         /\ v = "confirmed_submitted" => "intent" \in journal[i]
         /\ terminal' = RecoveredTerminal(Orphans, now)
         /\ sending' = RecoveredSending(Orphans)
         /\ journal' = IF v = "confirmed_submitted"
                       THEN [RecoveredJournal(Orphans) EXCEPT ![i] = @ \cup {"fact"}]
                       ELSE RecoveredJournal(Orphans)
         /\ \/ reconciled' = [reconciled EXCEPT ![i] = v]
            \/ UNCHANGED reconciled
    /\ UNCHANGED <<authVars, pending, call, order, late>>

-----------------------------------------------------------------------------
(* The broker and time (external). *)

Surface(i) ==
    /\ order[i] # None /\ order[i].state = "wire"
    /\ \E s \in {"live", "lost"} : order' = [order EXCEPT ![i].state = s]
    /\ UNCHANGED <<authVars, pending, sending, terminal, reconciled, journal, call, late>>

BeforeSubmit == call # None /\ call.step \in {"claimed", "stamped", "consumed",
                                              "opened", "attempted"}

\* Time: an order surfaces in time, and a send reaches its broker call while
\* its `now` is at most MaxStale old.
Tick ==
    /\ Advance
    /\ \A i \in Intents : order[i] # None /\ order[i].state = "wire"
                             => clock + 1 < order[i].at + SurfaceDelay
    /\ BeforeSubmit => clock < call.now + MaxStale
    /\ UNCHANGED outboxVars

-----------------------------------------------------------------------------

SendStep == SendStamp \/ SendConsume \/ SendJournal \/ SendSubmit \/ SendAnswer
               \/ SendReceipt \/ SendReturn

Next ==
    \/ Unlocked /\ (AuthMutate \/ Restart) /\ UNCHANGED outboxVars
    \/ AuthWorld /\ UNCHANGED outboxVars
    \/ \E i \in Intents, now \in Recent : RecordIntent(i, now)
    \/ \E i \in Intents, e \in Effects, now \in Recent : SendClaim(i, e, now)
    \/ SendStep
    \/ Crash
    \/ \E now \in Recent : Recover(now)
    \/ \E i \in Intents, now \in Recent : RecoverDies(i, now)
    \/ \E i \in Intents, now \in Recent : Reconcile(i, now)
    \/ \E i \in Intents : Surface(i)
    \/ Tick

Spec == Init /\ [][Next]_vars

-----------------------------------------------------------------------------
(* Safety. *)

MayExist(i) == order[i] # None /\ order[i].state \in {"wire", "live"}

\* The docstring of send: claim and permit consumption "are persisted BEFORE
\* the broker call, so a crash at any point leaves an uncertain effect".  An
\* order the broker was ever handed has the one permit for exactly its effect
\* spent, its claim or receipt on disk, and a journal with intent and attempt,
\* without which reconcile_intent could never fold broker facts.
Backed(i) ==
    /\ permit[<<i, order[i].effect>>] # None
    /\ permit[<<i, order[i].effect>>].state = "consumed"
    /\ i \notin pending
    /\ sending[i] = "stamped" \/ terminal[i] # None
    /\ {"intent", "attempt"} \subseteq journal[i]

OrderIsBacked == \A i \in Intents : order[i] # None => Backed(i)

\* record_intent's in-flight rule: two orders of one package never exist side
\* by side, unless one of them was claimed at or past its own send deadline.
OneLiveOrder ==
    \A i, j \in Intents :
        /\ i # j /\ PackageOf[i] = PackageOf[j]
        /\ MayExist(i) /\ MayExist(j)
        => i \in late \/ j \in late

\* What the files say of the broker is true for good: a cleared intent has no
\* order and never gets one, an acknowledged one has an order, and a rejected
\* one has none (reconcile_intent, send's receipts, RECONCILE_SETTLE_S).
RecordsAreTrue ==
    \A i \in Intents :
        /\ reconciled[i] = "confirmed_not_submitted" => ~MayExist(i)
        /\ reconciled[i] = "confirmed_submitted" => order[i] # None
        /\ Outcome(i) = "acknowledged" => MayExist(i)
        /\ Outcome(i) = "rejected" => ~MayExist(i)

\* No order leaves more than MaxStale after its send deadline, however the
\* permit TTL, the lock wait and the steps before the broker call add up.
OrderWithinDeadline ==
    \A i \in Intents : order[i] # None => order[i].at < Deadline[i] + MaxStale

\* Receipts and verdicts are written once and journals only grow, whatever
\* recover, reconcile_intent and a dying send write over each other.
HistoryIsFinal ==
    [][\A i \in Intents :
         /\ terminal[i] # None => terminal'[i] = terminal[i]
         /\ reconciled[i] # "none" => reconciled'[i] = reconciled[i]
         /\ journal[i] \subseteq journal'[i]]_vars

\* An intent meets the broker at most once (single-use permit, single claim):
\* its order never goes back to the wire.
SubmittedOnce ==
    [][\A i \in Intents : order[i] # None /\ order'[i] # order[i]
         => order[i].state = "wire" /\ order'[i].at = order[i].at]_vars

\* halt_effects takes no lock, so one send may be past its checks; from the
\* first moment the lock is free no order leaves any more.  A revocation
\* holds the lock and stops every v1 order at once.
StopIsFinal ==
    [][/\ halted /\ Unlocked => Unlocked' /\ \A i \in Intents : order[i] = None => order'[i] = None
       /\ revoked => \A i \in Intents : order[i] = None /\ order'[i] # None
                        => permit[<<i, order'[i].effect>>].by \in Approvals]_vars

-----------------------------------------------------------------------------
(* A statement of the source the code does not keep.                       *)

\* _in_flight_reason's docstring: "A PENDING intent past its send deadline is
\* not in flight: send refuses it, so it can never reach the broker."
LapsedNeverSent ==
    [][\A i \in Intents : i \in pending /\ clock >= Deadline[i]
         => sending'[i] = "absent"]_vars

-----------------------------------------------------------------------------
(* The outbox implements the slots.                                        *)

SlotPhase(i) ==
    IF reconciled[i] = "confirmed_not_submitted" \/ Outcome(i) = "rejected" THEN "released"
    ELSE IF terminal[i] # None \/ sending[i] # "absent" THEN "committed"
    ELSE IF i \in pending THEN (IF clock < Deadline[i] THEN "open" ELSE "lapsed")
    ELSE "new"

Slots == INSTANCE EntrySlots WITH
            phase <- [i \in Intents |-> SlotPhase(i)],
            orders <- {i \in Intents : MayExist(i)}

\* Callers with a current `now` see record_intent, send, recover and
\* reconcile_intent as the slots of module EntrySlots.
ImplementsSlots == Slots!SlotSpec

-----------------------------------------------------------------------------
(* Liveness.                                                               *)

\* A send goes on until it returns or dies; time passes; the broker's views
\* catch up; snaptrade_runtime recovers at start and reconciles on every
\* refresh, with conclusive lookups (external) in the end.  An order surfaces
\* and an intent is reconciled once, so fairness of some covers all.
Fairness ==
    /\ WF_vars(SendStep)
    /\ WF_vars(Tick)
    /\ WF_vars(\E i \in Intents : Surface(i))
    /\ WF_vars(Recover(clock))
    /\ SF_vars(\E i \in Intents : Reconcile(i, clock))

FairSpec == Spec /\ Fairness

\* Neither a claim a dead sender left nor an uncertain effect holds its
\* package for ever: recovery ends every claim in a receipt, and every
\* uncertain receipt gets a verdict, at whichever step sender or recoverer
\* died.  (A receipt too young for the model's last clock value is excepted.)
EffectsEnd ==
    \A i \in Intents :
        sending[i] # "absent" \/ Outcome(i) = "uncertain"
            ~> /\ sending[i] = "absent" /\ terminal[i] # None
               /\ \/ Outcome(i) # "uncertain" \/ reconciled[i] # "none"
                  \/ terminal[i].at + SettleDelay > MaxClock
=============================================================================
