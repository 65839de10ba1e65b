---------------------- MODULE SupervisedOutbox_proof -----------------------
(***************************************************************************)
(* Theorems about SupervisedOutbox for all values of its constants.        *)
(***************************************************************************)
EXTENDS SupervisedOutbox, SupervisedAuthority_proof

USE OutboxAssumption

-----------------------------------------------------------------------------
(* The inductive invariant. *)

\* What the files and the broker's book say of one intent, whoever is running.
FilesOK(i) ==
    /\ i \in pending => sending[i] = "absent" /\ terminal[i] = None
    /\ sending[i] = "absent" /\ terminal[i] = None => journal[i] = {} /\ order[i] = None
    /\ sending[i] = "bare" => journal[i] = {} /\ order[i] = None
    /\ reconciled[i] # "none" => terminal[i] # None /\ terminal[i].outcome = "uncertain"

FilesInv == \A i \in Intents : FilesOK(i)

\* The steps at which the call's order cannot have left yet.
Early == {"claimed", "stamped", "consumed", "opened", "attempted"}

\* Where the send holding the lock is, told from the files.
CallOK(i, e, s) ==
    /\ i \notin pending
    /\ sending[i] = (IF s = "claimed" THEN "bare" ELSE "stamped")
    /\ permit[<<i, e>>] # None
    /\ s \notin {"claimed", "stamped"} => permit[<<i, e>>].state = "consumed"
    /\ s \in {"opened", "attempted"} => "intent" \in journal[i]
    /\ s \in {"attempted", "submitted", "answered", "receipted"}
          => {"intent", "attempt"} \subseteq journal[i]
    /\ s \in Early => order[i] = None
    /\ order[i] # None => order[i].effect = e
    /\ (terminal[i] = None) <=> (s # "receipted")
    /\ reconciled[i] = "none"

CallInv ==
    call # None =>
        /\ CallOK(call.intent, call.effect, call.step)
        /\ call.step = "answered" => call.outcome \in Answers(call.intent)

IInv == TypeOK /\ FilesInv /\ CallInv /\ OrderIsBacked

-----------------------------------------------------------------------------
(* Types. *)

\* A step of the outbox that leaves the authority alone keeps its type.
LEMMA SameAuthType == ASSUME AuthTypeOK, UNCHANGED authVars PROVE AuthTypeOK'
  BY DEF AuthTypeOK, authVars

LEMMA GotoCall ==
    ASSUME call \in Call, NEW t \in Steps, Goto(t)
    PROVE  /\ call' \in Call
           /\ call'.intent = call.intent /\ call'.effect = call.effect
           /\ call'.now = call.now /\ call'.outcome = call.outcome
           /\ call'.step = t
  BY DEF Goto, Call

LEMMA AtCall ==
    ASSUME TypeOK, NEW s, At(s)
    PROVE  /\ call \in Call /\ call # None /\ call.step = s
           /\ call.intent \in Intents /\ call.effect \in Effects
           /\ call.now \in Nat
  BY DEF TypeOK, At, Call

LEMMA RecoveredType ==
    ASSUME TypeOK, NEW S, NEW now \in Nat
    PROVE  /\ RecoveredTerminal(S, now) \in [Intents -> Receipt \cup {None}]
           /\ RecoveredSending(S) \in [Intents -> {"absent", "bare", "stamped"}]
           /\ RecoveredJournal(S) \in [Intents -> SUBSET RecordKinds]
<1>1. [outcome |-> "uncertain", at |-> now] \in Receipt
  BY DEF Receipt
<1>2. RecoveryRecords \in SUBSET RecordKinds
  BY DEF RecoveryRecords, RecordKinds
<1> HIDE DEF RecoveryRecords
<1> QED BY <1>1, <1>2 DEF TypeOK, RecoveredTerminal, RecoveredSending, RecoveredJournal

LEMMA SendStepType ==
    ASSUME TypeOK, CallInv, SendStep PROVE TypeOK'
<1> USE DEF TypeOK, Steps
<1>1. CASE SendStamp
  BY <1>1, AtCall, GotoCall, SameAuthType DEF SendStamp
<1>2. CASE SendConsume
  <2>1. AuthTypeOK'
    BY <1>2, AtCall, ConsumeType DEF SendConsume, CallInv, CallOK
  <2> QED BY <1>2, <2>1, AtCall, GotoCall DEF SendConsume
<1>3. CASE SendJournal
  <2>1. ASSUME NEW kinds \in SUBSET RecordKinds, Append(call.intent, kinds)
        PROVE  journal' \in [Intents -> SUBSET RecordKinds]
    BY <2>1 DEF Append
  <2>2. {"intent"} \in SUBSET RecordKinds /\ {"attempt"} \in SUBSET RecordKinds
    BY DEF RecordKinds
  <2> QED BY <1>3, <2>1, <2>2, AtCall, GotoCall, SameAuthType DEF SendJournal
<1>4. CASE SendSubmit
  <2>1. call \in Call /\ call.intent \in Intents /\ call.effect \in Effects
    BY <1>4, AtCall DEF SendSubmit
  <2>2. order' \in [Intents -> Order \cup {None}]
    BY <1>4, <2>1 DEF SendSubmit, Order, AuthTypeOK
  <2> QED BY <1>4, <2>1, <2>2, GotoCall, SameAuthType DEF SendSubmit
<1>5. CASE SendAnswer
  <2>1. call \in Call /\ call.intent \in Intents
    BY <1>5, AtCall DEF SendAnswer
  <2>2. PICK o \in Answers(call.intent) :
          /\ call' = [call EXCEPT !.step = "answered", !.outcome = o]
          /\ Append(call.intent, IF o = "uncertain" THEN {"uncertainty"} ELSE {"fact"})
    BY <1>5 DEF SendAnswer
  <2>3. o \in {"acknowledged", "rejected", "uncertain"}
    BY DEF Answers
  <2>4. call' \in Call
    BY <2>1, <2>2, <2>3 DEF Call
  <2>5. journal' \in [Intents -> SUBSET RecordKinds]
    BY <2>1, <2>2 DEF Append, RecordKinds
  <2> QED BY <1>5, <2>4, <2>5, SameAuthType DEF SendAnswer
<1>6. CASE SendReceipt
  <2>1. /\ call \in Call /\ call.intent \in Intents /\ call.now \in Nat
        /\ call.outcome \in Answers(call.intent)
    BY <1>6, AtCall DEF SendReceipt, CallInv, At
  <2>2. [outcome |-> call.outcome, at |-> call.now] \in Receipt
    BY <2>1 DEF Receipt, Answers
  <2> QED BY <1>6, <2>1, <2>2, GotoCall, SameAuthType DEF SendReceipt
<1>7. CASE SendReturn
  BY <1>7, AtCall, SameAuthType DEF SendReturn
<1> QED BY <1>1, <1>2, <1>3, <1>4, <1>5, <1>6, <1>7 DEF SendStep

LEMMA NextType ==
    ASSUME TypeOK, CallInv, Next PROVE TypeOK'
<1> USE DEF TypeOK
<1>0. clock \in Nat /\ Recent \subseteq Nat
  BY RecentNat DEF AuthTypeOK
<1>1. CASE Unlocked /\ (AuthMutate \/ Restart) /\ UNCHANGED outboxVars
  BY <1>1, MutateType, RestType DEF outboxVars
<1>2. CASE AuthWorld /\ UNCHANGED outboxVars
  BY <1>2, RestType DEF outboxVars
<1>3. ASSUME NEW i \in Intents, NEW now \in Recent, RecordIntent(i, now)
      PROVE  TypeOK'
  BY <1>3, SameAuthType DEF RecordIntent
<1>4. ASSUME NEW i \in Intents, NEW e \in Effects, NEW now \in Recent,
             SendClaim(i, e, now)
      PROVE  TypeOK'
  <2>1. call' \in Call
    BY <1>0, <1>4 DEF SendClaim, Call, Steps
  <2> QED BY <1>4, <2>1, SameAuthType DEF SendClaim
<1>5. CASE SendStep
  BY <1>5, SendStepType
<1>6. CASE Crash
  BY <1>6, SameAuthType DEF Crash
<1>7. ASSUME NEW now \in Recent, Recover(now) PROVE TypeOK'
  BY <1>0, <1>7, SameAuthType, RecoveredType DEF Recover, RecoverAll
<1>8. ASSUME NEW i \in Intents, NEW now \in Recent, RecoverDies(i, now)
      PROVE  TypeOK'
  <2>1. terminal' \in [Intents -> Receipt \cup {None}]
    <3>1. [outcome |-> "uncertain", at |-> now] \in Receipt
      BY <1>0 DEF Receipt
    <3> QED BY <1>8, <3>1 DEF RecoverDies
  <2>2. journal' \in [Intents -> SUBSET RecordKinds]
    BY <1>8 DEF RecoverDies, Append, RecoveryRecords, RecordKinds
  <2> QED BY <1>8, <2>1, <2>2, SameAuthType DEF RecoverDies
<1>9. ASSUME NEW i \in Intents, NEW now \in Recent, Reconcile(i, now)
      PROVE  TypeOK'
  <2>1. PICK v \in LookupVerdicts(i) :
         /\ terminal' = RecoveredTerminal(Orphans, now)
         /\ sending' = RecoveredSending(Orphans)
         /\ journal' = IF v = "confirmed_submitted"
                       THEN [RecoveredJournal(Orphans) EXCEPT ![i] = @ \cup {"fact"}]
                       ELSE RecoveredJournal(Orphans)
         /\ \/ reconciled' = [reconciled EXCEPT ![i] = v]
            \/ UNCHANGED reconciled
    BY <1>9 DEF Reconcile
  <2>2. v \in {"confirmed_submitted", "confirmed_not_submitted"}
    BY DEF LookupVerdicts
  <2>3. journal' \in [Intents -> SUBSET RecordKinds]
    BY <1>0, <2>1, RecoveredType DEF RecordKinds
  <2> QED BY <1>0, <1>9, <2>1, <2>2, <2>3, SameAuthType, RecoveredType DEF Reconcile
<1>10. ASSUME NEW i \in Intents, Surface(i) PROVE TypeOK'
  BY <1>10, SameAuthType DEF Surface, Order
<1>11. CASE Tick
  BY <1>11, RestType DEF Tick, outboxVars
<1> QED BY <1>1, <1>2, <1>3, <1>4, <1>5, <1>6, <1>7, <1>8, <1>9, <1>10, <1>11 DEF Next
-----------------------------------------------------------------------------
(* Steps of the world. *)

LEMMA InitIInv == Init => IInv
<1> SUFFICES ASSUME Init PROVE IInv
  OBVIOUS
<1>1. TypeOK
  BY InitType DEF Init, TypeOK
<1>2. FilesInv /\ CallInv /\ OrderIsBacked
  BY DEF Init, FilesInv, FilesOK, CallInv, OrderIsBacked
<1> QED BY <1>1, <1>2 DEF IInv

\* What is said of files, call and orders survives any step that leaves them
\* alone and every permit as it is.
LEMMA SameOutbox ==
    ASSUME TypeOK, FilesInv, CallInv, OrderIsBacked,
           UNCHANGED <<pending, sending, terminal, reconciled, journal, call, order>>,
           \A i \in Intents, e \in Effects :
             permit[<<i, e>>] # None => permit'[<<i, e>>] = permit[<<i, e>>]
    PROVE  FilesInv' /\ CallInv' /\ OrderIsBacked'
<1>1. FilesInv'
  BY DEF FilesInv, FilesOK
<1>2. CallInv'
  <2>1. ASSUME call # None PROVE call.intent \in Intents /\ call.effect \in Effects
    BY <2>1 DEF TypeOK, Call
  <2> QED BY <2>1 DEF CallInv, CallOK, Answers
<1>3. OrderIsBacked'
  <2>1. \A i \in Intents : order[i] # None => order[i].effect \in Effects
    BY DEF TypeOK, Order
  <2> QED BY <2>1 DEF OrderIsBacked, Backed
<1> QED BY <1>1, <1>2, <1>3

LEMMA WorldIInv ==
    ASSUME IInv,
           \/ Unlocked /\ (AuthMutate \/ Restart) /\ UNCHANGED outboxVars
           \/ AuthWorld /\ UNCHANGED outboxVars
           \/ Tick
    PROVE  FilesInv' /\ CallInv' /\ OrderIsBacked'
<1>1. UNCHANGED outboxVars
  BY DEF Tick
<1>2. \A i \in Intents, e \in Effects :
         permit[<<i, e>>] # None => permit'[<<i, e>>] = permit[<<i, e>>]
  <2>1. CASE AuthMutate
    BY <2>1, MutateKeepsPermits DEF IInv, TypeOK
  <2>2. CASE Restart \/ AuthWorld \/ Tick
    BY <2>2 DEF Restart, AuthWorld, EditProfile, HaltEffects, Tick, Advance
  <2> QED BY <2>1, <2>2
<1> QED BY <1>1, <1>2, SameOutbox DEF IInv, outboxVars

-----------------------------------------------------------------------------
(* Steps of the outbox. *)

LEMMA RecordIInv ==
    ASSUME IInv, NEW i \in Intents, NEW now \in Recent, RecordIntent(i, now)
    PROVE  FilesInv' /\ CallInv' /\ OrderIsBacked'
<1> USE DEF IInv, RecordIntent
<1>1. FilesInv'
  BY DEF FilesInv, FilesOK
<1>2. CallInv'
  BY DEF Unlocked, CallInv
<1>3. OrderIsBacked'
  <2>1. order[i] = None
    BY DEF FilesInv, FilesOK
  <2> QED BY <2>1 DEF OrderIsBacked, Backed, authVars
<1> QED BY <1>1, <1>2, <1>3

LEMMA ClaimIInv ==
    ASSUME IInv, NEW i \in Intents, NEW e \in Effects, NEW now \in Recent,
           SendClaim(i, e, now)
    PROVE  FilesInv' /\ CallInv' /\ OrderIsBacked'
<1> USE DEF IInv, SendClaim
<1>0. /\ i \in pending /\ permit[<<i, e>>] # None
      /\ sending[i] = "absent" /\ terminal[i] = None
      /\ journal[i] = {} /\ order[i] = None /\ reconciled[i] = "none"
  BY DEF SendAllowed, SendAuthorized, FilesInv, FilesOK, TypeOK
<1>1. FilesInv'
  BY <1>0 DEF FilesInv, FilesOK, TypeOK
<1>2. CallInv'
  <2>1. /\ call'.intent = i /\ call'.effect = e /\ call'.step = "claimed"
        /\ sending'[i] = "bare" /\ i \notin pending'
        /\ UNCHANGED <<permit, terminal, reconciled, journal, order>>
    BY DEF TypeOK, authVars
  <2> QED BY <1>0, <2>1 DEF CallInv, CallOK
<1>3. OrderIsBacked'
  BY <1>0 DEF OrderIsBacked, Backed, TypeOK, authVars
<1> QED BY <1>1, <1>2, <1>3

LEMMA SendStepIInv ==
    ASSUME IInv, SendStep
    PROVE  FilesInv' /\ CallInv' /\ OrderIsBacked'
<1> DEFINE i == call.intent
           e == call.effect
<1> USE DEF IInv
<1>0. /\ call \in Call /\ call # None /\ i \in Intents /\ e \in Effects
      /\ CallOK(i, e, call.step)
      /\ call.step = "answered" => call.outcome \in Answers(i)
  <2>1. \E s \in Steps : At(s)
    BY DEF SendStep, SendStamp, SendConsume, SendJournal, SendSubmit, SendAnswer,
           SendReceipt, SendReturn, Steps
  <2> QED BY <2>1, AtCall DEF CallInv
<1>1. CASE SendStamp
  <2>1. /\ call.step = "claimed" /\ call'.step = "stamped"
        /\ call'.intent = i /\ call'.effect = e
        /\ sending' = [sending EXCEPT ![i] = "stamped"]
        /\ UNCHANGED <<permit, pending, terminal, reconciled, journal, order>>
    BY <1>0, <1>1, GotoCall DEF SendStamp, At, Steps, authVars
  <2>2. FilesInv'
    BY <1>0, <2>1 DEF FilesInv, FilesOK, CallOK, TypeOK
  <2>3. CallInv'
    BY <1>0, <2>1 DEF CallInv, CallOK, TypeOK, Early
  <2>4. OrderIsBacked'
    BY <1>0, <2>1 DEF OrderIsBacked, Backed, TypeOK
  <2> QED BY <2>2, <2>3, <2>4
<1>2. CASE SendConsume
  <2>1. /\ call.step = "stamped" /\ call'.step = "consumed"
        /\ call'.intent = i /\ call'.effect = e
        /\ permit' = [permit EXCEPT ![<<i, e>>].state = "consumed"]
        /\ UNCHANGED <<sending, pending, terminal, reconciled, journal, order>>
    BY <1>0, <1>2, GotoCall DEF SendConsume, ConsumePermit, At, Steps
  <2>2. permit[<<i, e>>] \in Permit
    BY <1>0 DEF CallOK, TypeOK, AuthTypeOK
  <2>3. [permit[<<i, e>>] EXCEPT !.state = "consumed"] \in Permit
    BY <2>2 DEF Permit
  <2>4. permit'[<<i, e>>] # None /\ permit'[<<i, e>>].state = "consumed"
    BY <1>0, <2>1, <2>2, <2>3, AuthorityNone DEF TypeOK, AuthTypeOK, Permit
  <2>5. \A j \in Intents, d \in Effects :
           permit[<<j, d>>] # None /\ permit[<<j, d>>].state = "consumed"
             => permit'[<<j, d>>] # None /\ permit'[<<j, d>>].state = "consumed"
    BY <2>1, <2>4 DEF TypeOK, AuthTypeOK
  <2>6. FilesInv'
    BY <2>1 DEF FilesInv, FilesOK
  <2>7. CallInv'
    BY <1>0, <2>1, <2>4 DEF CallInv, CallOK, Early
  <2>8. OrderIsBacked'
    BY <2>1, <2>5 DEF OrderIsBacked, Backed, TypeOK, Order
  <2> QED BY <2>6, <2>7, <2>8
<1>3. CASE SendJournal
  <2>1. /\ \/ /\ call.step = "consumed" /\ call'.step = "opened"
              /\ journal' = [journal EXCEPT ![i] = @ \cup {"intent"}]
           \/ /\ call.step = "opened" /\ call'.step = "attempted"
              /\ journal' = [journal EXCEPT ![i] = @ \cup {"attempt"}]
        /\ call'.intent = i /\ call'.effect = e
        /\ UNCHANGED <<permit, sending, pending, terminal, reconciled, order>>
    BY <1>0, <1>3, GotoCall DEF SendJournal, Append, At, Steps, authVars
  <2>2. /\ sending[i] = "stamped"
        /\ \A j \in Intents : j # i => journal'[j] = journal[j]
        /\ \A j \in Intents : journal[j] \subseteq journal'[j]
        /\ call'.step = "attempted" => {"intent", "attempt"} \subseteq journal'[i]
        /\ call'.step = "opened" => "intent" \in journal'[i]
    BY <1>0, <2>1 DEF CallOK, TypeOK
  <2>3. FilesInv'
    BY <2>1, <2>2 DEF FilesInv, FilesOK
  <2>4. CallInv'
    BY <1>0, <2>1, <2>2 DEF CallInv, CallOK, Early
  <2>5. OrderIsBacked'
    BY <2>1, <2>2 DEF OrderIsBacked, Backed
  <2> QED BY <2>3, <2>4, <2>5
<1>4. CASE SendSubmit
  <2>1. /\ call.step = "attempted" /\ call'.step = "submitted"
        /\ call'.intent = i /\ call'.effect = e
        /\ UNCHANGED <<permit, sending, pending, terminal, reconciled, journal>>
    BY <1>0, <1>4, GotoCall DEF SendSubmit, At, Steps, authVars
  <2>2. /\ \A j \in Intents : j # i => order'[j] = order[j]
        /\ order'[i] # None => order'[i].effect = e
    BY <1>0, <1>4, <2>1 DEF SendSubmit, CallOK, Early, TypeOK
  <2>3. FilesInv'
    BY <1>0, <2>1, <2>2 DEF FilesInv, FilesOK, CallOK
  <2>4. CallInv'
    BY <1>0, <2>1, <2>2 DEF CallInv, CallOK, Early
  <2>5. OrderIsBacked'
    BY <1>0, <2>1, <2>2 DEF OrderIsBacked, Backed, CallOK
  <2> QED BY <2>3, <2>4, <2>5
<1>5. CASE SendAnswer
  <2>1. PICK o \in Answers(i) :
          /\ call' = [call EXCEPT !.step = "answered", !.outcome = o]
          /\ Append(i, IF o = "uncertain" THEN {"uncertainty"} ELSE {"fact"})
    BY <1>5 DEF SendAnswer
  <2>2. /\ call.step = "submitted" /\ call'.step = "answered"
        /\ call'.intent = i /\ call'.effect = e /\ call'.outcome = o
        /\ UNCHANGED <<permit, sending, pending, terminal, reconciled, order>>
    BY <1>0, <1>5, <2>1 DEF SendAnswer, At, Call, authVars
  <2>3. /\ sending[i] = "stamped"
        /\ \A j \in Intents : j # i => journal'[j] = journal[j]
        /\ \A j \in Intents : journal[j] \subseteq journal'[j]
    BY <1>0, <2>1, <2>2 DEF CallOK, TypeOK, Append
  <2>4. FilesInv'
    BY <2>2, <2>3 DEF FilesInv, FilesOK
  <2>5. CallInv'
    BY <1>0, <2>1, <2>2, <2>3 DEF CallInv, CallOK, Early, Answers
  <2>6. OrderIsBacked'
    BY <2>2, <2>3 DEF OrderIsBacked, Backed
  <2> QED BY <2>4, <2>5, <2>6
<1>6. CASE SendReceipt
  <2>1. /\ call.step = "answered" /\ call'.step = "receipted"
        /\ call'.intent = i /\ call'.effect = e
        /\ terminal' = [terminal EXCEPT ![i] =
                           [outcome |-> call.outcome, at |-> call.now]]
        /\ UNCHANGED <<permit, sending, pending, reconciled, journal, order>>
    BY <1>0, <1>6, GotoCall DEF SendReceipt, At, Steps, authVars
  <2>2. [outcome |-> call.outcome, at |-> call.now] \in Receipt
    BY <1>0, <2>1 DEF Call, Receipt, Answers
  <2>3. terminal'[i] # None /\ \A j \in Intents : j # i => terminal'[j] = terminal[j]
    BY <1>0, <2>1, <2>2, OutboxNone DEF TypeOK
  <2>4. FilesInv'
    BY <1>0, <2>1, <2>3 DEF FilesInv, FilesOK, CallOK
  <2>5. CallInv'
    BY <1>0, <2>1, <2>3 DEF CallInv, CallOK, Early
  <2>6. OrderIsBacked'
    BY <2>1, <2>3 DEF OrderIsBacked, Backed
  <2> QED BY <2>4, <2>5, <2>6
<1>7. CASE SendReturn
  <2>1. /\ call.step = "receipted" /\ call' = None
        /\ sending' = [sending EXCEPT ![i] = "absent"]
        /\ UNCHANGED <<permit, terminal, pending, reconciled, journal, order>>
    BY <1>7 DEF SendReturn, At, authVars
  <2>2. /\ terminal[i] # None /\ sending'[i] = "absent"
        /\ \A j \in Intents : j # i => sending'[j] = sending[j]
    BY <1>0, <2>1 DEF CallOK, TypeOK
  <2>3. FilesInv'
    BY <1>0, <2>1, <2>2 DEF FilesInv, FilesOK, CallOK
  <2>4. OrderIsBacked'
    BY <2>1, <2>2 DEF OrderIsBacked, Backed
  <2> QED BY <2>1, <2>3, <2>4 DEF CallInv
<1> QED BY <1>1, <1>2, <1>3, <1>4, <1>5, <1>6, <1>7 DEF SendStep

\* The three ways recovery is run share what it does to a claim.
LEMMA RecoveredFacts ==
    ASSUME IInv, NEW S \in SUBSET Orphans, NEW now \in Nat, RecoverAll(S, now)
    PROVE  \A j \in Intents :
             /\ j \in S => sending[j] # "absent" /\ sending'[j] = "absent"
             /\ j \notin S => /\ sending'[j] = sending[j] /\ terminal'[j] = terminal[j]
                              /\ journal'[j] = journal[j]
             /\ j \in S => terminal'[j] # None
             /\ terminal[j] # None => terminal'[j] = terminal[j]
             /\ journal[j] \subseteq journal'[j]
             /\ sending'[j] # "absent" => journal'[j] = journal[j]
<1>1. [outcome |-> "uncertain", at |-> now] \in Receipt
  BY DEF Receipt
<1>2. [outcome |-> "uncertain", at |-> now] # None
  BY <1>1, OutboxNone
<1>3. \A j \in Intents :
        /\ sending'[j] = IF j \in S THEN "absent" ELSE sending[j]
        /\ terminal'[j] = IF j \in S /\ terminal[j] = None
                          THEN [outcome |-> "uncertain", at |-> now] ELSE terminal[j]
        /\ journal'[j] = IF j \in S /\ Rejournal(j) THEN RecoveryRecords ELSE journal[j]
  BY DEF RecoverAll, RecoveredTerminal, RecoveredSending, RecoveredJournal
<1>4. \A j \in Intents : journal[j] \subseteq journal'[j]
  BY <1>3 DEF Rejournal
<1> QED BY <1>2, <1>3, <1>4 DEF Orphans

LEMMA RecoverIInv ==
    ASSUME IInv, NEW S \in SUBSET Orphans, NEW now \in Nat, RecoverAll(S, now),
           Unlocked, UNCHANGED <<authVars, pending, reconciled, call, order>>
    PROVE  FilesInv' /\ CallInv' /\ OrderIsBacked'
<1> USE DEF IInv
<1>1. FilesInv'
  <2> SUFFICES ASSUME NEW j \in Intents PROVE FilesOK(j)'
    BY DEF FilesInv
  <2>1. FilesOK(j) /\ UNCHANGED <<pending, reconciled, order>>
    BY DEF FilesInv
  <2>2. CASE j \in S
    BY <2>1, <2>2, RecoveredFacts DEF FilesOK
  <2>3. CASE j \notin S
    BY <2>1, <2>3, RecoveredFacts DEF FilesOK
  <2> QED BY <2>2, <2>3
<1>2. CallInv'
  BY DEF CallInv, Unlocked
<1>3. OrderIsBacked'
  <2> SUFFICES ASSUME NEW j \in Intents, order[j] # None PROVE Backed(j)'
    BY DEF OrderIsBacked
  <2>1. Backed(j) /\ UNCHANGED <<permit, pending, order>>
    BY DEF OrderIsBacked, authVars
  <2>2. /\ journal[j] \subseteq journal'[j]
        /\ sending'[j] = "stamped" \/ terminal'[j] # None
    BY <2>1, RecoveredFacts DEF Backed
  <2> QED BY <2>1, <2>2 DEF Backed
<1> QED BY <1>1, <1>2, <1>3

LEMMA RecoverDiesIInv ==
    ASSUME IInv, NEW i \in Intents, NEW now \in Nat, RecoverDies(i, now)
    PROVE  FilesInv' /\ CallInv' /\ OrderIsBacked'
<1> USE DEF IInv, RecoverDies
<1>0. [outcome |-> "uncertain", at |-> now] # None
  <2>1. [outcome |-> "uncertain", at |-> now] \in Receipt
    BY DEF Receipt
  <2> QED BY <2>1, OutboxNone
<1>1. \A j \in Intents :
        /\ j # i => terminal'[j] = terminal[j] /\ journal'[j] = journal[j]
        /\ terminal[j] # None => terminal'[j] = terminal[j]
        /\ journal[j] \subseteq journal'[j]
        /\ sending[j] # "stamped" => journal'[j] = journal[j]
  BY DEF TypeOK, Append, Rejournal
<1>2. sending[i] # "absent" /\ UNCHANGED <<permit, pending, sending, reconciled, order>>
  BY DEF Orphans, authVars
<1>3. FilesInv'
  BY <1>1, <1>2 DEF FilesInv, FilesOK
<1>4. CallInv'
  BY DEF CallInv, Unlocked
<1>5. OrderIsBacked'
  BY <1>1, <1>2 DEF OrderIsBacked, Backed
<1> QED BY <1>3, <1>4, <1>5

LEMMA ReconcileIInv ==
    ASSUME IInv, NEW i \in Intents, NEW now \in Nat, Reconcile(i, now)
    PROVE  FilesInv' /\ CallInv' /\ OrderIsBacked'
<1> USE DEF IInv, Reconcile
<1>0. [outcome |-> "uncertain", at |-> now] # None
  <2>1. [outcome |-> "uncertain", at |-> now] \in Receipt
    BY DEF Receipt
  <2> QED BY <2>1, OutboxNone
<1>1. terminal[i] # None /\ terminal[i].outcome = "uncertain"
  BY DEF Outcome
<1>2. \A j \in Intents :
        /\ sending'[j] = "absent"
        /\ sending[j] # "absent" => terminal'[j] # None
        /\ terminal[j] # None => terminal'[j] = terminal[j]
        /\ terminal[j] = None /\ sending[j] = "absent" => terminal'[j] = None
        /\ reconciled'[j] = reconciled[j] \/ j = i
  BY <1>0 DEF RecoveredTerminal, RecoveredSending, Orphans, TypeOK
<1>3. \A j \in Intents :
        /\ journal[j] \subseteq journal'[j]
        /\ sending[j] = "absent" /\ terminal[j] = None => journal'[j] = journal[j]
  <2>1. RecoveredJournal(Orphans) \in [Intents -> SUBSET RecordKinds]
    BY RecoveredType
  <2>2. \A j \in Intents :
          /\ journal[j] \subseteq RecoveredJournal(Orphans)[j]
          /\ sending[j] = "absent" => RecoveredJournal(Orphans)[j] = journal[j]
    BY DEF RecoveredJournal, Rejournal, Orphans
  <2> HIDE DEF RecoveredJournal
  <2> QED BY <1>1, <2>1, <2>2
<1>4. FilesInv'
  BY <1>1, <1>2, <1>3 DEF FilesInv, FilesOK
<1>5. CallInv'
  BY DEF CallInv, Unlocked
<1>6. OrderIsBacked'
  BY <1>2, <1>3 DEF OrderIsBacked, Backed, authVars
<1> QED BY <1>4, <1>5, <1>6

LEMMA SurfaceIInv ==
    ASSUME IInv, NEW i \in Intents, Surface(i)
    PROVE  FilesInv' /\ CallInv' /\ OrderIsBacked'
<1> USE DEF IInv, Surface
<1>1. \A j \in Intents :
        /\ order[j] = None => order'[j] = None
        /\ order'[j] # None => order[j] # None /\ order'[j].effect = order[j].effect
        /\ j # i => order'[j] = order[j]
  BY DEF TypeOK, Order
<1>2. UNCHANGED <<permit, pending, sending, terminal, reconciled, journal, call>>
  BY DEF authVars
<1>3. FilesInv'
  BY <1>1, <1>2 DEF FilesInv, FilesOK
<1>4. CallInv'
  <2>1. ASSUME call # None PROVE call.intent \in Intents
    BY <2>1 DEF TypeOK, Call
  <2>2. \A j \in Intents : Answers(j) \subseteq Answers(j)'
    BY <1>1 DEF Answers
  <2> QED BY <1>1, <1>2, <2>1, <2>2 DEF CallInv, CallOK
<1>5. OrderIsBacked'
  BY <1>1, <1>2 DEF OrderIsBacked, Backed
<1> QED BY <1>3, <1>4, <1>5

LEMMA NextIInv == ASSUME IInv, [Next]_vars PROVE IInv'
<1>0. clock \in Nat /\ Recent \subseteq Nat
  BY RecentNat DEF IInv, TypeOK, AuthTypeOK
<1>1. CASE UNCHANGED vars
  <2>1. TypeOK'
    BY <1>1, SameAuthType DEF IInv, TypeOK, vars, outboxVars
  <2>2. FilesInv' /\ CallInv' /\ OrderIsBacked'
    BY <1>1, SameOutbox DEF IInv, vars, authVars, outboxVars
  <2> QED BY <2>1, <2>2 DEF IInv
<1>2. CASE Next
  <2>1. TypeOK'
    BY <1>2, NextType DEF IInv
  <2>2. FilesInv' /\ CallInv' /\ OrderIsBacked'
    <3>1. CASE Crash
      <4>1. FilesInv'
        BY <3>1 DEF IInv, Crash, FilesInv, FilesOK
      <4>2. OrderIsBacked'
        BY <3>1 DEF IInv, Crash, OrderIsBacked, Backed, authVars
      <4> QED BY <3>1, <4>1, <4>2 DEF Crash, CallInv
    <3>2. ASSUME NEW now \in Recent, Recover(now)
          PROVE  FilesInv' /\ CallInv' /\ OrderIsBacked'
      BY <1>0, <3>2, RecoverIInv DEF Recover
    <3>3. ASSUME NEW i \in Intents, NEW now \in Recent, RecoverDies(i, now)
          PROVE  FilesInv' /\ CallInv' /\ OrderIsBacked'
      BY <1>0, <3>3, RecoverDiesIInv
    <3>4. ASSUME NEW i \in Intents, NEW now \in Recent, Reconcile(i, now)
          PROVE  FilesInv' /\ CallInv' /\ OrderIsBacked'
      BY <1>0, <3>4, ReconcileIInv
    <3> QED BY <1>2, <3>1, <3>2, <3>3, <3>4, WorldIInv, RecordIInv, ClaimIInv,
               SendStepIInv, SurfaceIInv DEF Next
  <2> QED BY <2>1, <2>2 DEF IInv
<1> QED BY <1>1, <1>2

-----------------------------------------------------------------------------
(* What follows from it. *)

\* The inductive invariant is an invariant.
THEOREM Inductive == Spec => []IInv
  BY InitIInv, NextIInv, PTL DEF Spec

\* Every file the code writes, at every step of every call, is one of the
\* documents the code can read back.
THEOREM TypeCorrect == Spec => []TypeOK
<1>1. IInv => TypeOK
  BY DEF IInv
<1> QED BY <1>1, Inductive, PTL

\* However a sender dies, and whatever recovery, reconciliation, time and the
\* authority do meanwhile, an order the broker was ever handed is backed by
\* one spent permit, a claim or receipt, and a journal that can take facts.
THEOREM BackedOrders == Spec => []OrderIsBacked
<1>1. IInv => OrderIsBacked
  BY DEF IInv
<1> QED BY <1>1, Inductive, PTL

LEMMA NextHistory ==
    ASSUME IInv, [Next]_vars
    PROVE  \A i \in Intents :
             /\ terminal[i] # None => terminal'[i] = terminal[i]
             /\ reconciled[i] # "none" => reconciled'[i] = reconciled[i]
             /\ journal[i] \subseteq journal'[i]
<1> USE DEF IInv
<1>0. Recent \subseteq Nat
  BY RecentNat DEF TypeOK, AuthTypeOK
<1> DEFINE Kept == \A i \in Intents :
             /\ terminal[i] # None => terminal'[i] = terminal[i]
             /\ reconciled[i] # "none" => reconciled'[i] = reconciled[i]
             /\ journal[i] \subseteq journal'[i]
<1>1. ASSUME UNCHANGED <<terminal, reconciled, journal>> PROVE Kept
  BY <1>1
<1>2. ASSUME SendJournal \/ SendAnswer PROVE Kept
  <2>1. UNCHANGED <<terminal, reconciled>>
    BY <1>2 DEF SendJournal, SendAnswer
  <2>2. \E kinds : Append(call.intent, kinds)
    BY <1>2 DEF SendJournal, SendAnswer
  <2>3. \A i \in Intents : journal[i] \subseteq journal'[i]
    BY <2>2 DEF Append, TypeOK
  <2> QED BY <2>1, <2>3
<1>3. ASSUME SendReceipt PROVE Kept
  <2>1. terminal[call.intent] = None
    BY <1>3 DEF SendReceipt, At, CallInv, CallOK
  <2> QED BY <1>3, <2>1 DEF SendReceipt, TypeOK
<1>4. ASSUME NEW now \in Recent, Recover(now) PROVE Kept
  BY <1>0, <1>4, RecoveredFacts DEF Recover
<1>5. ASSUME NEW i \in Intents, NEW now \in Recent, RecoverDies(i, now) PROVE Kept
  BY <1>5 DEF RecoverDies, Append, Rejournal, TypeOK
<1>6. ASSUME NEW i \in Intents, NEW now \in Recent, Reconcile(i, now) PROVE Kept
  <2>1. \A j \in Intents : journal[j] \subseteq RecoveredJournal(Orphans)[j]
    BY DEF RecoveredJournal, Rejournal
  <2>2. RecoveredJournal(Orphans) \in [Intents -> SUBSET RecordKinds]
    BY <1>0, RecoveredType
  <2>3. \A j \in Intents : journal[j] \subseteq journal'[j]
    BY <1>6, <2>1, <2>2 DEF Reconcile
  <2>4. \A j \in Intents : terminal[j] # None => terminal'[j] = terminal[j]
    BY <1>6 DEF Reconcile, RecoveredTerminal
  <2>5. \A j \in Intents : reconciled[j] # "none" => reconciled'[j] = reconciled[j]
    BY <1>6 DEF Reconcile, TypeOK
  <2> QED BY <2>3, <2>4, <2>5
<1> HIDE DEF Kept
<1>7. Kept
  <2>1. \/ UNCHANGED <<terminal, reconciled, journal>>
        \/ SendJournal \/ SendAnswer \/ SendReceipt
        \/ \E now \in Recent : Recover(now)
        \/ \E i \in Intents, now \in Recent : RecoverDies(i, now)
        \/ \E i \in Intents, now \in Recent : Reconcile(i, now)
    BY DEF Next, vars, outboxVars, RecordIntent, SendClaim, SendStep, SendStamp,
           SendConsume, SendSubmit, SendReturn, Crash, Surface, Tick
  <2> QED BY <1>1, <1>2, <1>3, <1>4, <1>5, <1>6, <2>1
<1> QED BY <1>7 DEF Kept

\* No dying sender, recovery or reconciliation rewrites a receipt, a verdict
\* or a journal.
THEOREM FinalHistory == Spec => HistoryIsFinal
<1>1. IInv /\ [Next]_vars => \A i \in Intents :
             /\ terminal[i] # None => terminal'[i] = terminal[i]
             /\ reconciled[i] # "none" => reconciled'[i] = reconciled[i]
             /\ journal[i] \subseteq journal'[i]
  BY NextHistory
<1> QED BY <1>1, Inductive, PTL DEF Spec, HistoryIsFinal

LEMMA NextSubmits ==
    ASSUME IInv, [Next]_vars
    PROVE  \A i \in Intents : order[i] # None /\ order'[i] # order[i]
             => order[i].state = "wire" /\ order'[i].at = order[i].at
<1> USE DEF IInv
<1>1. CASE UNCHANGED order
  BY <1>1
<1>2. CASE SendSubmit
  <2>1. order[call.intent] = None
    BY <1>2 DEF SendSubmit, At, CallInv, CallOK, Early
  <2> QED BY <1>2, <2>1 DEF SendSubmit, TypeOK
<1>3. ASSUME NEW i \in Intents, Surface(i)
      PROVE  \A j \in Intents : order[j] # None /\ order'[j] # order[j]
               => order[j].state = "wire" /\ order'[j].at = order[j].at
  BY <1>3 DEF Surface, TypeOK, Order
<1>4. \/ UNCHANGED order \/ SendSubmit \/ \E i \in Intents : Surface(i)
  BY DEF Next, vars, outboxVars, RecordIntent, SendClaim, SendStep, SendStamp,
         SendConsume, SendJournal, SendAnswer, SendReceipt, SendReturn, Crash,
         Recover, RecoverDies, Reconcile, Tick
<1> QED BY <1>1, <1>2, <1>3, <1>4

\* An intent meets the broker at most once.
THEOREM OneSubmit == Spec => SubmittedOnce
<1>1. IInv /\ [Next]_vars =>
        \A i \in Intents : order[i] # None /\ order'[i] # order[i]
             => order[i].state = "wire" /\ order'[i].at = order[i].at
  BY NextSubmits
<1> QED BY <1>1, Inductive, PTL DEF Spec, SubmittedOnce
=============================================================================
