---------------------- MODULE SupervisedOrders_proof -----------------------
(***************************************************************************)
(* What SupervisedOutbox promises about the broker's orders, for all       *)
(* values of its constants: deadlines, the truth of the records, and one   *)
(* live order per package.  On top of IInv these need to know how old the  *)
(* instants in calls, receipts and orders can be.                          *)
(***************************************************************************)
EXTENDS SupervisedOutbox_proof

USE AuthorityAssumption

-----------------------------------------------------------------------------
(* Time. *)

CallTimes ==
    call # None =>
        /\ call.now <= clock
        /\ call.now < Deadline[call.intent]
        /\ call.step \in Early => clock <= call.now + MaxStale
        /\ order[call.intent] # None => order[call.intent].at <= call.now + MaxStale

OrderTime(i) ==
    order[i] # None =>
        /\ order[i].at <= clock
        /\ order[i].at < Deadline[i] + MaxStale
        /\ order[i].state = "wire" => clock < order[i].at + SurfaceDelay
        /\ terminal[i] # None => order[i].at <= terminal[i].at + MaxStale

TimeInv == CallTimes /\ \A i \in Intents : OrderTime(i)

\* The numbers in the state.
LEMMA Numbers ==
    ASSUME TypeOK
    PROVE  /\ clock \in Nat
           /\ \A now \in Recent : now \in Nat /\ now <= clock /\ clock <= now + MaxStale
           /\ MaxStale \in Nat /\ SettleDelay \in Nat /\ SurfaceDelay \in Nat \ {0}
           /\ \A i \in Intents : Deadline[i] \in Nat
           /\ call # None => call \in Call /\ call.now \in Nat /\ call.intent \in Intents
           /\ \A i \in Intents : order[i] # None => order[i] \in Order /\ order[i].at \in Nat
           /\ \A i \in Intents : terminal[i] # None => terminal[i].at \in Nat
<1>1. clock \in Nat
  BY DEF TypeOK, AuthTypeOK
<1>2. MaxStale \in Nat /\ SettleDelay \in Nat /\ SurfaceDelay \in Nat \ {0}
      /\ \A i \in Intents : Deadline[i] \in Nat
  BY AuthorityAssumption, OutboxAssumption
<1>3. \A now \in Recent : now \in Nat /\ now <= clock /\ clock <= now + MaxStale
  BY <1>1, <1>2 DEF Recent
<1>4. call # None => call \in Call /\ call.now \in Nat /\ call.intent \in Intents
  BY DEF TypeOK, Call
<1>5. \A i \in Intents : order[i] # None => order[i] \in Order /\ order[i].at \in Nat
  BY DEF TypeOK, Order
<1>6. \A i \in Intents : terminal[i] # None => terminal[i].at \in Nat
  BY DEF TypeOK, Receipt
<1> QED BY <1>1, <1>2, <1>3, <1>4, <1>5, <1>6

\* A send carries its intent and its `now` from the claim to the end.
LEMMA CallSteps ==
    ASSUME TypeOK, SendStep
    PROVE  /\ call # None
           /\ call' # None => /\ call'.intent = call.intent /\ call'.now = call.now
                              /\ call'.step \in Early => call.step \in Early
                              /\ ~SendSubmit /\ call'.step \notin Early => call.step \notin Early
<1>1. CASE SendReturn
  BY <1>1 DEF SendReturn, At
<1>2. CASE SendAnswer
  <2>1. call \in Call /\ call # None /\ call.step = "submitted"
    BY <1>2, AtCall DEF SendAnswer
  <2> QED BY <1>2, <2>1 DEF SendAnswer, Call, Early
<1>3. CASE SendStamp \/ SendConsume \/ SendJournal \/ SendSubmit \/ SendReceipt
  <2>1. PICK s \in Steps, t \in Steps :
          /\ At(s) /\ Goto(t)
          /\ t \in Early => s \in Early
          /\ ~SendSubmit /\ t \notin Early => s \notin Early
    BY <1>3 DEF SendStamp, SendConsume, SendJournal, SendSubmit, SendReceipt, Steps, Early
  <2> QED BY <2>1, AtCall, GotoCall
<1> QED BY <1>1, <1>2, <1>3 DEF SendStep

LEMMA NextTimes == ASSUME IInv, TimeInv, [Next]_vars PROVE TimeInv'
<1> USE DEF IInv, TimeInv
<1>0. TypeOK
  OBVIOUS
<1>1. CASE UNCHANGED <<clock, call, order, terminal>>
  BY <1>1 DEF CallTimes, OrderTime
<1>2. ASSUME NEW i \in Intents, NEW e \in Effects, NEW now \in Recent,
             SendClaim(i, e, now)
      PROVE  TimeInv'
  <2>1. /\ call'.intent = i /\ call'.now = now /\ now < Deadline[i]
        /\ UNCHANGED <<clock, order, terminal>>
    BY <1>2 DEF SendClaim, SendAllowed, authVars
  <2>2. order[i] = None
    BY <1>2 DEF SendClaim, SendAllowed, FilesInv, FilesOK
  <2> QED BY <2>1, <2>2, Numbers DEF CallTimes, OrderTime
<1>3. CASE SendSubmit
  <2>1. /\ call # None /\ call.step = "attempted" /\ call.intent \in Intents
        /\ UNCHANGED <<clock, terminal>> /\ terminal[call.intent] = None
    BY <1>3, AtCall DEF SendSubmit, CallInv, CallOK, authVars
  <2>2. clock <= call.now + MaxStale /\ call.now < Deadline[call.intent]
    BY <2>1 DEF CallTimes, Early
  <2>3. call'.intent = call.intent /\ call'.now = call.now /\ call'.step \notin Early
    BY <1>3, AtCall, GotoCall DEF SendSubmit, Early, Steps
  <2>4. /\ \A j \in Intents : j # call.intent => order'[j] = order[j]
        /\ order'[call.intent] # None =>
              order'[call.intent].at = clock \/ order'[call.intent] = order[call.intent]
    BY <1>3, <2>1 DEF SendSubmit, TypeOK
  <2>5. order[call.intent] = None
    BY <2>1 DEF CallInv, CallOK, Early
  <2>6. CallTimes'
    BY <2>1, <2>2, <2>3, <2>4, <2>5, Numbers DEF CallTimes
  <2>7. ASSUME NEW j \in Intents PROVE OrderTime(j)'
    <3>1. CASE j = call.intent
      BY <2>1, <2>2, <2>4, <2>5, <3>1, Numbers DEF OrderTime
    <3>2. CASE j # call.intent
      BY <2>1, <2>4, <3>2 DEF OrderTime
    <3> QED BY <3>1, <3>2
  <2> QED BY <2>6, <2>7
<1>4. CASE SendReceipt
  <2>1. /\ call.intent \in Intents /\ UNCHANGED <<clock, order>> /\ call # None
        /\ terminal' = [terminal EXCEPT ![call.intent] =
                          [outcome |-> call.outcome, at |-> call.now]]
        /\ SendStep
    BY <1>4, AtCall DEF SendReceipt, SendStep, authVars
  <2>2. CallTimes'
    BY <2>1, CallSteps DEF CallTimes
  <2>3. /\ terminal'[call.intent].at = call.now
        /\ \A j \in Intents : j # call.intent => terminal'[j] = terminal[j]
    BY <2>1 DEF TypeOK
  <2> QED BY <2>1, <2>2, <2>3 DEF OrderTime, CallTimes
<1>5. CASE SendStamp \/ SendConsume \/ SendJournal \/ SendAnswer \/ SendReturn
  <2>1. SendStep /\ UNCHANGED <<clock, order, terminal>>
    BY <1>5 DEF SendStep, SendStamp, SendConsume, ConsumePermit, SendJournal, SendAnswer,
                SendReturn, authVars, worldVars
  <2> QED BY <2>1, CallSteps DEF CallTimes, OrderTime
<1>6. ASSUME call' = None, UNCHANGED <<clock, order, terminal>> PROVE TimeInv'
  BY <1>6 DEF CallTimes, OrderTime
<1>7. ASSUME NEW now \in Recent, UNCHANGED <<clock, order>>, call' = None,
             \A j \in Intents :
               terminal'[j] = terminal[j] \/ terminal'[j].at = now
      PROVE  TimeInv'
  <2>1. CallTimes'
    BY <1>7 DEF CallTimes
  <2>2. ASSUME NEW j \in Intents PROVE OrderTime(j)'
    BY <1>7, Numbers DEF OrderTime
  <2> QED BY <2>1, <2>2
<1>8. ASSUME NEW now \in Recent, Recover(now) PROVE TimeInv'
  BY <1>7, <1>8 DEF Recover, RecoverAll, RecoveredTerminal, Unlocked, authVars
<1>9. ASSUME NEW i \in Intents, NEW now \in Recent, RecoverDies(i, now) PROVE TimeInv'
  <2>1. \A j \in Intents : terminal'[j] = terminal[j] \/ terminal'[j].at = now
    BY <1>9 DEF RecoverDies, TypeOK
  <2> QED BY <1>7, <1>9, <2>1 DEF RecoverDies, Unlocked, authVars
<1>10. ASSUME NEW i \in Intents, NEW now \in Recent, Reconcile(i, now) PROVE TimeInv'
  <2>1. \A j \in Intents : terminal'[j] = terminal[j] \/ terminal'[j].at = now
    BY <1>10 DEF Reconcile, RecoveredTerminal
  <2> QED BY <1>7, <1>10, <2>1 DEF Reconcile, Unlocked, authVars
<1>11. ASSUME NEW i \in Intents, Surface(i) PROVE TimeInv'
  <2>1. /\ UNCHANGED <<clock, call, terminal>>
        /\ \A j \in Intents :
             /\ order'[j] # None => order[j] # None /\ order'[j].at = order[j].at
             /\ order'[j] # None /\ order'[j].state = "wire" => order[j].state = "wire"
    BY <1>11 DEF Surface, TypeOK, Order, authVars
  <2>2. CallTimes'
    BY <2>1, Numbers DEF CallTimes
  <2> QED BY <2>1, <2>2 DEF OrderTime
<1>12. CASE Tick
  <2>1. clock' = clock + 1 /\ UNCHANGED <<call, order, terminal>>
    BY <1>12 DEF Tick, Advance, outboxVars
  <2>2. CallTimes'
    <3>1. call # None /\ call.step \in Early => clock < call.now + MaxStale
      BY <1>12 DEF Tick, BeforeSubmit, Early
    <3> QED BY <2>1, <3>1, Numbers DEF CallTimes
  <2>3. ASSUME NEW j \in Intents PROVE OrderTime(j)'
    <3>1. order[j] # None /\ order[j].state = "wire" => clock + 1 < order[j].at + SurfaceDelay
      BY <1>12 DEF Tick
    <3> QED BY <2>1, <3>1, Numbers DEF OrderTime
  <2> QED BY <2>2, <2>3
<1>13. CASE Unlocked /\ (AuthMutate \/ Restart) /\ UNCHANGED outboxVars
  <2>1. clock' = clock
    BY <1>13, MutateKeepsPermits DEF Restart, TypeOK
  <2> QED BY <1>1, <1>13, <2>1 DEF outboxVars
<1>14. CASE AuthWorld /\ UNCHANGED outboxVars
  BY <1>1, <1>14 DEF AuthWorld, EditProfile, HaltEffects, outboxVars
<1>15. ASSUME NEW i \in Intents, NEW now \in Recent, RecordIntent(i, now) PROVE TimeInv'
  BY <1>1, <1>15 DEF RecordIntent, authVars
<1>16. CASE Crash
  BY <1>6, <1>16 DEF Crash, authVars
<1>17. CASE UNCHANGED vars
  BY <1>1, <1>17 DEF vars, authVars, outboxVars
<1> QED BY <1>2, <1>3, <1>4, <1>5, <1>8, <1>9, <1>10, <1>11, <1>12, <1>13, <1>14,
           <1>15, <1>16, <1>17 DEF Next, SendStep
-----------------------------------------------------------------------------
(* The records. *)

\* RecordsAreTrue for one intent, inductive: an acknowledged order is not in
\* transit any more.
Record(i) ==
    /\ reconciled[i] = "confirmed_not_submitted" => ~MayExist(i)
    /\ reconciled[i] = "confirmed_submitted" => order[i] # None
    /\ Outcome(i) = "acknowledged" => order[i] # None /\ order[i].state = "live"
    /\ Outcome(i) = "rejected" => ~MayExist(i)

\* A settled receipt's order is off the wire: the settle window outlasts the
\* staleness of the receipt and the broker's delay together.
LEMMA SettledIsOffWire ==
    ASSUME IInv, TimeInv, NEW i \in Intents, NEW now \in Recent,
           terminal[i] # None, Settled(i, now), order[i] # None
    PROVE  order[i].state # "wire"
  BY Numbers, SettleAssumption DEF IInv, TimeInv, OrderTime, Settled

LEMMA NextRecords ==
    ASSUME IInv, TimeInv, \A i \in Intents : Record(i), [Next]_vars
    PROVE  \A i \in Intents : Record(i)'
<1> USE DEF IInv
<1>1. ASSUME UNCHANGED <<order, reconciled, terminal>>
      PROVE  \A i \in Intents : Record(i)'
  BY <1>1 DEF Record, MayExist, Outcome
<1>2. CASE SendSubmit
  <2>1. /\ UNCHANGED <<reconciled, terminal>> /\ call.intent \in Intents
        /\ \A j \in Intents : j # call.intent => order'[j] = order[j]
        /\ terminal[call.intent] = None /\ reconciled[call.intent] = "none"
    BY <1>2, AtCall DEF SendSubmit, CallInv, CallOK, At, TypeOK
  <2>2. ASSUME NEW j \in Intents PROVE Record(j)'
    <3>1. CASE j = call.intent
      BY <2>1, <3>1 DEF Record, Outcome
    <3>2. CASE j # call.intent
      BY <2>1, <3>2 DEF Record, Outcome, MayExist
    <3> QED BY <3>1, <3>2
  <2> QED BY <2>2
<1>3. CASE SendReceipt
  <2>1. /\ UNCHANGED <<reconciled, order>> /\ call.intent \in Intents
        /\ reconciled[call.intent] = "none" /\ call.outcome \in Answers(call.intent)
        /\ call \in Call /\ call.now \in Nat
        /\ terminal' = [terminal EXCEPT ![call.intent] =
                          [outcome |-> call.outcome, at |-> call.now]]
    BY <1>3, AtCall DEF SendReceipt, CallInv, CallOK, At
  <2>2. [outcome |-> call.outcome, at |-> call.now] # None
    <3>1. [outcome |-> call.outcome, at |-> call.now] \in Receipt
      BY <2>1 DEF Receipt, Answers
    <3> QED BY <3>1, OutboxNone
  <2>3. /\ terminal'[call.intent] # None
        /\ terminal'[call.intent].outcome = call.outcome
        /\ \A j \in Intents : j # call.intent => terminal'[j] = terminal[j]
    BY <2>1, <2>2 DEF TypeOK
  <2>5. ASSUME NEW j \in Intents PROVE Record(j)'
    <3>1. CASE j = call.intent
      <4>1. Outcome(j)' = call.outcome
        BY <2>3, <3>1 DEF Outcome
      <4>2. /\ UNCHANGED <<order, reconciled>> /\ reconciled[j] = "none"
            /\ call.outcome \in Answers(j)
        BY <2>1, <3>1
      <4> QED BY <4>1, <4>2 DEF Record, MayExist, Answers
    <3>2. CASE j # call.intent
      BY <2>1, <2>3, <3>2 DEF Record, Outcome, MayExist
    <3> QED BY <3>1, <3>2
  <2> QED BY <2>5
\* Recovery writes nothing but uncertain receipts.
<1>4. ASSUME NEW now \in Recent, UNCHANGED <<order, reconciled>>,
             \A j \in Intents :
               terminal'[j] = terminal[j] \/ Outcome(j)' = "uncertain"
      PROVE  \A i \in Intents : Record(i)'
  BY <1>4 DEF Record, MayExist, Outcome
<1>5. ASSUME NEW now \in Recent, \E S : terminal' = RecoveredTerminal(S, now)
      PROVE  \A j \in Intents : terminal'[j] = terminal[j] \/ Outcome(j)' = "uncertain"
  BY <1>5 DEF RecoveredTerminal, Outcome
<1>6. ASSUME NEW now \in Recent, Recover(now) PROVE \A i \in Intents : Record(i)'
  BY <1>4, <1>5, <1>6 DEF Recover, RecoverAll
<1>7. ASSUME NEW i \in Intents, NEW now \in Recent, RecoverDies(i, now)
      PROVE  \A j \in Intents : Record(j)'
  <2>1. \A j \in Intents : terminal'[j] = terminal[j] \/ Outcome(j)' = "uncertain"
    BY <1>7 DEF RecoverDies, TypeOK, Outcome
  <2> QED BY <1>4, <1>7, <2>1 DEF RecoverDies
<1>8. ASSUME NEW i \in Intents, NEW now \in Recent, Reconcile(i, now)
      PROVE  \A j \in Intents : Record(j)'
  <2>1. /\ UNCHANGED order
        /\ \A j \in Intents : terminal'[j] = terminal[j] \/ Outcome(j)' = "uncertain"
    BY <1>5, <1>8 DEF Reconcile
  <2>2. /\ terminal[i] # None /\ Settled(i, now) /\ terminal'[i] = terminal[i]
        /\ Outcome(i) = "uncertain"
    BY <1>8 DEF Reconcile, Outcome, RecoveredTerminal
  <2>3. PICK v \in LookupVerdicts(i) :
          reconciled' = [reconciled EXCEPT ![i] = v] \/ UNCHANGED reconciled
    BY <1>8 DEF Reconcile
  <2>4. order[i] # None => order[i].state # "wire"
    BY <2>2, SettledIsOffWire
  <2>5. /\ v = "confirmed_not_submitted" => ~MayExist(i)
        /\ v = "confirmed_submitted" => order[i] # None
    BY <2>4 DEF LookupVerdicts, MayExist
  <2>6. ASSUME NEW j \in Intents PROVE Record(j)'
    <3>1. \/ reconciled'[j] = reconciled[j]
          \/ j = i /\ reconciled'[j] = v
      BY <2>3 DEF TypeOK
    <3> QED BY <2>1, <2>2, <2>5, <3>1 DEF Record, Outcome, MayExist
  <2> QED BY <2>6
<1>9. ASSUME NEW i \in Intents, Surface(i) PROVE \A j \in Intents : Record(j)'
  <2>1. /\ UNCHANGED <<terminal, reconciled>>
        /\ \A j \in Intents : j # i => order'[j] = order[j]
        /\ order[i] # None /\ order[i].state = "wire"
    BY <1>9 DEF Surface, TypeOK
  <2>2. order'[i] # None
    <3>1. order'[i] \in Order
      BY <1>9, <2>1 DEF Surface, TypeOK, Order
    <3> QED BY <3>1, OutboxNone
  <2>3. Record(i)'
    BY <2>1, <2>2 DEF Record, MayExist, Outcome
  <2>4. ASSUME NEW j \in Intents, j # i PROVE Record(j)'
    BY <2>1, <2>4 DEF Record, MayExist, Outcome
  <2> QED BY <2>3, <2>4
<1>10. \/ UNCHANGED <<order, reconciled, terminal>> \/ SendSubmit \/ SendReceipt
       \/ \E now \in Recent : Recover(now)
       \/ \E i \in Intents, now \in Recent : RecoverDies(i, now) \/ Reconcile(i, now)
       \/ \E i \in Intents : Surface(i)
  BY DEF Next, vars, outboxVars, RecordIntent, SendClaim, SendStep, SendStamp,
         SendConsume, SendJournal, SendAnswer, SendReturn, Crash, Tick
<1> QED BY <1>1, <1>2, <1>3, <1>6, <1>7, <1>8, <1>9, <1>10
-----------------------------------------------------------------------------
(* Packages. *)

\* The intent occupies its package whatever the time.
Held(i) ==
    \/ reconciled[i] = "confirmed_submitted"
    \/ /\ reconciled[i] = "none"
       /\ \/ Outcome(i) \in {"acknowledged", "uncertain"}
          \/ terminal[i] = None /\ sending[i] # "absent"

Active(i) == Held(i) \/ i \in pending

\* It slipped past its deadline: claimed after it, or never claimed.
Overdue(i) == IF Held(i) THEN i \in late ELSE clock >= Deadline[i]

PairInv ==
    \A i, j \in Intents :
        i # j /\ PackageOf[i] = PackageOf[j] /\ Active(i) /\ Active(j)
            => Overdue(i) \/ Overdue(j)

LEMMA HeldNotPending ==
    ASSUME IInv, NEW i \in Intents, Held(i) PROVE i \notin pending
  BY DEF IInv, FilesInv, FilesOK, Held, Outcome

\* No step but record_intent makes an intent active, and an overdue intent
\* stays overdue while it is active.
LEMMA KeepsOverdue ==
    ASSUME IInv, NEW i \in Intents,
           late \subseteq late', clock' \in Nat, clock' >= clock,
           i \in pending' => i \in pending,
           Held(i)' => \/ Held(i)
                       \/ i \in pending /\ (clock >= Deadline[i] => i \in late')
    PROVE  /\ Active(i)' => Active(i)
           /\ Active(i)' /\ Overdue(i) => Overdue(i)'
<1>1. clock \in Nat /\ Deadline[i] \in Nat
  BY Numbers DEF IInv
<1>2. Active(i)' => Active(i)
  BY DEF Active
<1>3. ASSUME Active(i)', Overdue(i) PROVE Overdue(i)'
  <2>1. CASE Held(i)
    <3>1. i \in late /\ i \notin pending
      BY <1>3, <2>1, HeldNotPending DEF Overdue
    <3>2. Held(i)'
      BY <1>3, <3>1 DEF Active
    <3> QED BY <3>1, <3>2 DEF Overdue
  <2>2. CASE ~Held(i)
    <3>1. clock >= Deadline[i]
      BY <1>3, <2>2 DEF Overdue
    <3>2. CASE Held(i)'
      BY <2>2, <3>1, <3>2 DEF Overdue
    <3>3. CASE ~Held(i)'
      BY <1>1, <3>1, <3>3 DEF Overdue
    <3> QED BY <3>2, <3>3
  <2> QED BY <2>1, <2>2
<1> QED BY <1>2, <1>3

\* What a step does to who holds a package.
LEMMA NextHeld ==
    ASSUME IInv, [Next]_vars,
           ~ \E i \in Intents, now \in Recent : RecordIntent(i, now)
    PROVE  /\ late \subseteq late' /\ clock' \in Nat /\ clock' >= clock
           /\ pending' \subseteq pending
           /\ \A i \in Intents :
                Held(i)' => \/ Held(i)
                            \/ i \in pending /\ (clock >= Deadline[i] => i \in late')
<1> USE DEF IInv
<1>0. clock \in Nat
  BY Numbers
<1>1. late \subseteq late' /\ pending' \subseteq pending
  BY DEF Next, vars, outboxVars, SendClaim, SendStep, SendStamp, SendConsume,
         SendJournal, SendSubmit, SendAnswer, SendReceipt, SendReturn, Crash,
         Recover, RecoverDies, Reconcile, Surface, Tick
<1>2. clock' = clock \/ Tick
  <2>1. AuthMutate => clock' = clock
    BY MutateKeepsPermits DEF TypeOK
  <2> QED BY <2>1 DEF Next, vars, authVars, worldVars, Restart, AuthWorld, EditProfile,
         HaltEffects, SendClaim, SendStep, SendStamp, SendConsume, ConsumePermit,
         SendJournal, SendSubmit, SendAnswer, SendReceipt, SendReturn, Crash,
         Recover, RecoverDies, Reconcile, Surface
<1>3. clock' \in Nat /\ clock' >= clock
  BY <1>0, <1>2 DEF Tick, Advance
<1> DEFINE HeldStep == \A i \in Intents :
                Held(i)' => \/ Held(i)
                            \/ i \in pending /\ (clock >= Deadline[i] => i \in late')
<1>4. ASSUME UNCHANGED <<sending, terminal, reconciled>> PROVE HeldStep
  BY <1>4 DEF Held, Outcome
<1>5. ASSUME NEW i \in Intents, NEW e \in Effects, NEW now \in Recent,
             SendClaim(i, e, now)
      PROVE  HeldStep
  <2>1. /\ i \in pending /\ (clock >= Deadline[i] => i \in late')
        /\ UNCHANGED <<terminal, reconciled>>
        /\ \A j \in Intents : j # i => sending'[j] = sending[j]
    BY <1>5 DEF SendClaim, SendAllowed, TypeOK
  <2> QED BY <2>1 DEF Held, Outcome
<1>6. ASSUME SendStamp \/ SendReturn PROVE HeldStep
  <2>1. /\ call.intent \in Intents /\ UNCHANGED <<terminal, reconciled>>
        /\ \A j \in Intents : sending'[j] # "absent" => sending[j] # "absent"
    BY <1>6, AtCall DEF SendStamp, SendReturn, CallInv, CallOK, At, TypeOK
  <2> QED BY <2>1 DEF Held, Outcome
<1>7. ASSUME SendReceipt PROVE HeldStep
  <2>1. /\ call.intent \in Intents /\ UNCHANGED <<sending, reconciled>>
        /\ \A j \in Intents : j # call.intent => terminal'[j] = terminal[j]
        /\ Held(call.intent)
    BY <1>7, AtCall DEF SendReceipt, CallInv, CallOK, At, TypeOK, Held
  <2>2. ASSUME NEW j \in Intents, j # call.intent PROVE Held(j)' => Held(j)
    BY <2>1, <2>2 DEF Held, Outcome
  <2> QED BY <2>1, <2>2
\* Recovery turns a claim into an uncertain receipt.
<1>8. ASSUME \A j \in Intents :
               /\ terminal'[j] = terminal[j] \/ (terminal[j] = None /\ sending[j] # "absent")
               /\ sending'[j] # "absent" => sending[j] # "absent"
               /\ \/ reconciled'[j] = reconciled[j]
                  \/ reconciled[j] = "none" /\ Outcome(j) = "uncertain"
      PROVE  HeldStep
  BY <1>8 DEF Held, Outcome
<1>9. ASSUME NEW now \in Recent, Recover(now) PROVE HeldStep
  <2>1. PICK S \in SUBSET Orphans : RecoverAll(S, now)
    BY <1>9 DEF Recover
  <2>2. UNCHANGED reconciled
    BY <1>9 DEF Recover
  <2> QED BY <1>8, <2>1, <2>2 DEF RecoverAll, RecoveredTerminal, RecoveredSending, Orphans
<1>10. ASSUME NEW i \in Intents, NEW now \in Recent, RecoverDies(i, now) PROVE HeldStep
  BY <1>8, <1>10 DEF RecoverDies, Orphans, TypeOK
<1>11. ASSUME NEW i \in Intents, NEW now \in Recent, Reconcile(i, now) PROVE HeldStep
  BY <1>8, <1>11 DEF Reconcile, RecoveredTerminal, RecoveredSending, Orphans, TypeOK
<1> HIDE DEF HeldStep
<1>12. \/ UNCHANGED <<sending, terminal, reconciled>>
       \/ \E i \in Intents, e \in Effects, now \in Recent : SendClaim(i, e, now)
       \/ SendStamp \/ SendReturn \/ SendReceipt
       \/ \E now \in Recent : Recover(now)
       \/ \E i \in Intents, now \in Recent : RecoverDies(i, now) \/ Reconcile(i, now)
  BY DEF Next, vars, outboxVars, SendStep, SendConsume, SendJournal, SendSubmit,
         SendAnswer, Crash, Surface, Tick
<1>13. HeldStep
  BY <1>4, <1>5, <1>6, <1>7, <1>9, <1>10, <1>11, <1>12
<1> QED BY <1>1, <1>3, <1>13 DEF HeldStep

LEMMA NextPairs == ASSUME IInv, PairInv, [Next]_vars PROVE PairInv'
<1>1. CASE ~ \E i \in Intents, now \in Recent : RecordIntent(i, now)
  <2>1. \A i \in Intents : /\ Active(i)' => Active(i)
                           /\ Active(i)' /\ Overdue(i) => Overdue(i)'
    BY <1>1, NextHeld, KeepsOverdue
  <2> QED BY <2>1 DEF PairInv
<1>2. ASSUME NEW i \in Intents, NEW now \in Recent, RecordIntent(i, now) PROVE PairInv'
  <2>1. /\ UNCHANGED <<clock, sending, terminal, reconciled, late>>
        /\ pending' = pending \cup {i} /\ ~InFlight(i, now)
    BY <1>2 DEF RecordIntent, authVars
  <2>2. /\ \A j \in Intents : Held(j)' = Held(j) /\ Overdue(j)' = Overdue(j)
        /\ \A j \in Intents : j # i => Active(j)' = Active(j)
    BY <2>1 DEF Active, Held, Overdue, Outcome
  <2>3. ASSUME NEW j \in Intents, PackageOf[j] = PackageOf[i], Active(j)
        PROVE  Overdue(j)
    <3>1. ~Holds(j, now)
      BY <2>1, <2>3 DEF InFlight
    <3>2. ~Held(j) /\ j \in pending
      BY <2>3, <3>1 DEF Holds, Held, Active
    <3>3. terminal[j] = None /\ reconciled[j] = "none"
      BY <3>2 DEF IInv, FilesInv, FilesOK
    <3>4. ~(now < Deadline[j])
      BY <3>1, <3>2, <3>3 DEF Holds
    <3> QED BY <3>2, <3>4, Numbers DEF Overdue, IInv
  <2> QED BY <2>2, <2>3 DEF PairInv
<1> QED BY <1>1, <1>2

-----------------------------------------------------------------------------
(* Theorems. *)

SafeInv == IInv /\ TimeInv /\ (\A i \in Intents : Record(i)) /\ PairInv

LEMMA InitSafe == Init => SafeInv
<1> SUFFICES ASSUME Init PROVE SafeInv
  OBVIOUS
<1>1. /\ pending = {} /\ call = None
      /\ \A i \in Intents : /\ sending[i] = "absent" /\ terminal[i] = None
                            /\ reconciled[i] = "none" /\ order[i] = None
  BY DEF Init
<1>2. TimeInv
  BY <1>1 DEF TimeInv, CallTimes, OrderTime
<1>3. \A i \in Intents : Record(i) /\ ~Active(i)
  BY <1>1 DEF Record, MayExist, Outcome, Active, Held
<1> QED BY <1>2, <1>3, InitIInv DEF SafeInv, PairInv

LEMMA NextSafe == SafeInv /\ [Next]_vars => SafeInv'
<1> SUFFICES ASSUME SafeInv, [Next]_vars PROVE SafeInv'
  OBVIOUS
<1> USE DEF SafeInv
<1>1. IInv'
  BY NextIInv
<1>2. TimeInv'
  BY NextTimes
<1>3. (\A i \in Intents : Record(i))'
  BY NextRecords
<1>4. PairInv'
  BY NextPairs
<1> QED BY <1>1, <1>2, <1>3, <1>4

LEMMA Safe == Spec => []SafeInv
  BY InitSafe, NextSafe, PTL DEF Spec

\* No order leaves more than MaxStale after its intent's send deadline.
THEOREM WithinDeadline == Spec => []OrderWithinDeadline
<1>1. SafeInv => OrderWithinDeadline
  BY DEF SafeInv, TimeInv, OrderTime, OrderWithinDeadline
<1> QED BY <1>1, Safe, PTL

\* A receipt or a verdict that says there is an order, or none, is right for
\* good, provided the settle window outlasts a stale `now` and the broker's
\* own delay (SettleAssumption).
THEOREM TrueRecords == Spec => []RecordsAreTrue
<1>1. SafeInv => RecordsAreTrue
  BY DEF SafeInv, Record, RecordsAreTrue, MayExist
<1> QED BY <1>1, Safe, PTL

\* A package never has two orders at the broker, unless one of the two was
\* claimed at or past its own send deadline.
THEOREM SingleOrder == Spec => []OneLiveOrder
<1>1. ASSUME SafeInv, NEW i \in Intents, MayExist(i) PROVE Held(i)
  <2>1. order[i] # None /\ Record(i) /\ Backed(i)
    BY <1>1 DEF SafeInv, IInv, OrderIsBacked, MayExist
  <2>2. reconciled[i] \in {"none", "confirmed_submitted", "confirmed_not_submitted"}
        /\ Outcome(i) \in {"none", "acknowledged", "rejected", "uncertain"}
        /\ (Outcome(i) = "none" => terminal[i] = None)
    BY <1>1 DEF SafeInv, IInv, TypeOK, Receipt, Outcome
  <2> QED BY <1>1, <2>1, <2>2 DEF Record, Backed, Held
<1>2. SafeInv => OneLiveOrder
  BY <1>1 DEF SafeInv, PairInv, Active, Overdue, OneLiveOrder
<1> QED BY <1>2, Safe, PTL
-----------------------------------------------------------------------------
(* Stops. *)

\* A send that has not reached the broker when the mandate is revoked, or is
\* claimed after, is a per-trade one: revocation waits for the lock.
RevokedInv ==
    revoked /\ call # None /\ call.step \in Early
        => permit[<<call.intent, call.effect>>].by \in Approvals

LEMMA NextRevoked == ASSUME IInv, RevokedInv, [Next]_vars PROVE RevokedInv'
<1> USE DEF IInv
<1>1. CASE UNCHANGED <<revoked, permit, call>>
  BY <1>1 DEF RevokedInv
<1>2. ASSUME call' = None PROVE RevokedInv'
  BY <1>2 DEF RevokedInv
<1>3. ASSUME NEW i \in Intents, NEW e \in Effects, NEW now \in Recent,
             SendClaim(i, e, now)
      PROVE  RevokedInv'
  <2>1. /\ UNCHANGED <<revoked, permit>> /\ SendAuthorized(i, e, now)
        /\ call'.intent = i /\ call'.effect = e
    BY <1>3 DEF SendClaim, SendAllowed, authVars
  <2>2. CASE PerTrade(i, permit[<<i, e>>])
    <3>1. spent[i] \in EntryMandate /\ spent[i].approval = permit[<<i, e>>].by
      BY <2>1, <2>2 DEF SendAuthorized, TypeOK, AuthTypeOK
    <3> QED BY <2>1, <3>1 DEF EntryMandate, RevokedInv
  <2>3. CASE ~PerTrade(i, permit[<<i, e>>])
    BY <2>1, <2>3 DEF SendAuthorized, ActiveMandate, RevokedInv
  <2> QED BY <2>2, <2>3
<1>4. ASSUME SendStep, call' # None PROVE RevokedInv'
  <2>1. call'.step \in Early => call.step \in Early
    BY <1>4, CallSteps
  <2>2. UNCHANGED revoked /\ call # None
    BY <1>4, CallSteps DEF SendStep, SendStamp, SendConsume, ConsumePermit, SendJournal,
       SendSubmit, SendAnswer, SendReceipt, SendReturn, authVars
  <2>3. /\ call \in Call /\ call'.intent = call.intent /\ call'.effect = call.effect
    <3>1. CASE SendAnswer
      BY <2>2, <3>1, Numbers DEF SendAnswer, Call
    <3>2. CASE ~SendAnswer
      <4>1. \E t \in Steps : Goto(t)
        BY <1>4, <3>2 DEF SendStep, SendStamp, SendConsume, SendJournal, SendSubmit,
           SendReceipt, SendReturn, Steps
      <4> QED BY <2>2, <4>1, GotoCall, Numbers
    <3> QED BY <3>1, <3>2
  <2>4. permit'[<<call.intent, call.effect>>].by = permit[<<call.intent, call.effect>>].by
    <3>1. CASE UNCHANGED permit
      BY <3>1
    <3>2. CASE SendConsume
      <4>1. permit[<<call.intent, call.effect>>] \in Permit
        BY <2>2, <2>3 DEF CallInv, CallOK, TypeOK, AuthTypeOK, Call
      <4> QED BY <2>3, <3>2, <4>1 DEF SendConsume, ConsumePermit, TypeOK, AuthTypeOK,
                 Call, Permit
    <3> QED BY <1>4, <3>1, <3>2 DEF SendStep, SendStamp, SendJournal, SendSubmit,
               SendAnswer, SendReceipt, SendReturn, authVars
  <2> QED BY <2>1, <2>2, <2>3, <2>4 DEF RevokedInv
<1>5. \/ UNCHANGED <<revoked, permit, call>> \/ call' = None
      \/ \E i \in Intents, e \in Effects, now \in Recent : SendClaim(i, e, now)
      \/ SendStep
  BY DEF Next, vars, authVars, outboxVars, Unlocked, AuthWorld, EditProfile, HaltEffects,
         RecordIntent, Crash, Recover, RecoverDies, Reconcile, Surface, Tick, Advance
<1> QED BY <1>1, <1>2, <1>3, <1>4, <1>5

LEMMA NextStops ==
    ASSUME IInv, RevokedInv, [Next]_vars
    PROVE  /\ halted /\ Unlocked
                => Unlocked' /\ \A i \in Intents : order[i] = None => order'[i] = None
           /\ revoked => \A i \in Intents : order[i] = None /\ order'[i] # None
                        => permit[<<i, order'[i].effect>>].by \in Approvals
<1> USE DEF IInv
<1>1. SendStep => call # None
  BY CallSteps
<1>2. \/ UNCHANGED order \/ SendSubmit
      \/ \E i \in Intents : Surface(i)
  BY DEF Next, vars, outboxVars, RecordIntent, SendClaim, SendStep, SendStamp,
         SendConsume, SendJournal, SendAnswer, SendReceipt, SendReturn, Crash,
         Recover, RecoverDies, Reconcile, Tick
<1>3. ASSUME NEW i \in Intents, Surface(i)
      PROVE  \A j \in Intents : order[j] = None => order'[j] = None
  BY <1>3 DEF Surface, TypeOK
<1>4. ASSUME halted, Unlocked
      PROVE  Unlocked' /\ \A i \in Intents : order[i] = None => order'[i] = None
  <2>1. ~SendSubmit
    BY <1>1, <1>4 DEF SendStep, Unlocked
  <2>2. call' = None
    BY <1>1, <1>4 DEF Next, vars, outboxVars, Unlocked, RecordIntent, SendClaim,
       SendAllowed, SendAuthorized, Crash, Recover, RecoverDies, Reconcile, Surface, Tick
  <2> QED BY <1>2, <1>3, <2>1, <2>2 DEF Unlocked
<1>5. ASSUME revoked, NEW i \in Intents, order[i] = None, order'[i] # None
      PROVE  permit[<<i, order'[i].effect>>].by \in Approvals
  <2>1. SendSubmit
    BY <1>2, <1>3, <1>5
  <2>2. /\ call # None /\ call.step = "attempted" /\ call.intent \in Intents
    BY <2>1, AtCall DEF SendSubmit
  <2>3. i = call.intent /\ order'[i].effect = call.effect
    BY <1>5, <2>1, <2>2 DEF SendSubmit, TypeOK
  <2> QED BY <1>5, <2>2, <2>3 DEF RevokedInv, Early
<1> QED BY <1>4, <1>5

\* HALT stops every order once the lock is free, a revocation every v1 order
\* at once.
THEOREM FinalStops == Spec => StopIsFinal
<1>1. Init => RevokedInv
  BY DEF Init, RevokedInv
<1>2. IInv /\ RevokedInv /\ [Next]_vars => RevokedInv'
  BY NextRevoked
<1>3. IInv /\ RevokedInv /\ [Next]_vars
        => /\ halted /\ Unlocked
                => Unlocked' /\ \A i \in Intents : order[i] = None => order'[i] = None
           /\ revoked => \A i \in Intents : order[i] = None /\ order'[i] # None
                        => permit[<<i, order'[i].effect>>].by \in Approvals
  BY NextStops
<1> QED BY <1>1, <1>2, <1>3, Inductive, PTL DEF Spec, StopIsFinal
-----------------------------------------------------------------------------
(* The authority under the outbox. *)

LEMMA NextAuthInv == ASSUME IInv, AuthInv, [Next]_vars PROVE AuthInv'
<1>1. CASE AuthMutate
  BY <1>1, MutateInv
<1>2. CASE Restart \/ AuthWorld \/ Tick
  BY <1>2, RestInv DEF Tick
<1>3. CASE SendConsume
  BY <1>3, AtCall, ConsumeInv DEF SendConsume, IInv, CallInv, CallOK
<1>4. ASSUME UNCHANGED authVars PROVE AuthInv'
  <2>1. AuthTypeOK' /\ EntriesMatch' /\ UNCHANGED <<entry, spent, permit>>
    BY <1>4, SameAuthType DEF AuthInv, EntriesMatch, authVars
  <2>2. OneAuthorityPerIntent'
    BY <2>1, KeepsSingle DEF AuthInv, OneAuthorityPerIntent
  <2> QED BY <2>1, <2>2 DEF AuthInv
<1>5. \/ AuthMutate \/ Restart \/ AuthWorld \/ Tick \/ SendConsume \/ UNCHANGED authVars
  BY DEF Next, vars, RecordIntent, SendClaim, SendStep, SendStamp, SendJournal, SendSubmit,
         SendAnswer, SendReceipt, SendReturn, Crash, Recover, RecoverDies, Reconcile, Surface
<1> QED BY <1>1, <1>2, <1>3, <1>4, <1>5

\* The senders and recoverers of the outbox leave every intent its single
\* authority.
THEOREM OutboxOneAuthority == Spec => []OneAuthorityPerIntent
<1>1. Init => AuthInv
  BY InitInv DEF Init
<1>2. IInv /\ AuthInv /\ [Next]_vars => AuthInv'
  BY NextAuthInv
<1> QED BY <1>1, <1>2, Inductive, PTL DEF Spec, AuthInv
-----------------------------------------------------------------------------
(* The refinement of EntrySlots, for callers whose `now` is current.       *)

\* The phase of an intent is told from its own documents and the clock.
LEMMA SamePhase ==
    ASSUME NEW i \in Intents, clock' = clock, i \in pending' <=> i \in pending,
           sending'[i] = sending[i], terminal'[i] = terminal[i],
           reconciled'[i] = reconciled[i]
    PROVE  SlotPhase(i)' = SlotPhase(i)
  BY DEF SlotPhase, Outcome

\* A step that changes the phase of one intent, seen as a step of the slots.
LEMMA OnePhase ==
    ASSUME NEW i \in Intents, NEW new, SlotPhase(i)' = new,
           \A j \in Intents : j # i => SlotPhase(j)' = SlotPhase(j)
    PROVE  [j \in Intents |-> SlotPhase(j)]'
              = [[j \in Intents |-> SlotPhase(j)] EXCEPT ![i] = new]
  OBVIOUS

LEMMA SameOrders ==
    ASSUME \A i \in Intents : MayExist(i)' <=> MayExist(i)
    PROVE  {i \in Intents : MayExist(i)}' = {i \in Intents : MayExist(i)}
  OBVIOUS

LEMMA QuietSlots ==
    ASSUME \A i \in Intents : SlotPhase(i)' = SlotPhase(i) /\ (MayExist(i)' <=> MayExist(i))
    PROVE  UNCHANGED Slots!slotVars
  BY SameOrders DEF Slots!slotVars

\* What an intent in the outbox knows of its phase.
LEMMA PhaseFacts ==
    ASSUME IInv, NEW i \in Intents
    PROVE  /\ sending[i] # "absent" /\ terminal[i] = None => SlotPhase(i) = "committed"
           /\ terminal[i] # None /\ Outcome(i) # "rejected"
                 /\ reconciled[i] # "confirmed_not_submitted" => SlotPhase(i) = "committed"
           /\ i \in pending => SlotPhase(i) = IF clock < Deadline[i] THEN "open" ELSE "lapsed"
  BY OutboxNone DEF IInv, FilesInv, FilesOK, SlotPhase, Outcome

\* Recovery, however it is run, turns a claim into an uncertain receipt.
LEMMA RecoveredPhase ==
    ASSUME IInv, NEW i \in Intents, clock' = clock, pending' = pending,
           reconciled'[i] = reconciled[i],
           terminal[i] # None => terminal'[i] = terminal[i],
           terminal[i] = None => \/ terminal'[i] = None /\ sending'[i] = sending[i]
                                 \/ sending[i] # "absent" /\ Outcome(i)' = "uncertain"
    PROVE  SlotPhase(i)' = SlotPhase(i)
<1> USE DEF IInv, FilesInv, FilesOK
<1>1. CASE terminal[i] # None
  BY <1>1 DEF SlotPhase, Outcome
<1>2. CASE terminal[i] = None /\ terminal'[i] = None
  BY <1>2 DEF SlotPhase, Outcome
<1>3. CASE terminal[i] = None /\ terminal'[i] # None
  <2>1. sending[i] # "absent" /\ Outcome(i)' = "uncertain" /\ reconciled[i] = "none"
    BY <1>3
  <2> QED BY <1>3, <2>1 DEF SlotPhase, Outcome
<1> QED BY <1>1, <1>2, <1>3

LEMMA ClaimedIsRecovered ==
    ASSUME IInv, NEW S \in SUBSET Orphans, NEW now \in Nat,
           terminal' = RecoveredTerminal(S, now), sending' = RecoveredSending(S),
           NEW i \in Intents
    PROVE  /\ terminal[i] # None => terminal'[i] = terminal[i]
           /\ terminal[i] = None => \/ terminal'[i] = None /\ sending'[i] = sending[i]
                                    \/ sending[i] # "absent" /\ Outcome(i)' = "uncertain"
<1>1. [outcome |-> "uncertain", at |-> now] # None
  <2>1. [outcome |-> "uncertain", at |-> now] \in Receipt
    BY DEF Receipt
  <2> QED BY <2>1, OutboxNone
<1>2. /\ sending'[i] = IF i \in S THEN "absent" ELSE sending[i]
      /\ terminal'[i] = IF i \in S /\ terminal[i] = None
                        THEN [outcome |-> "uncertain", at |-> now] ELSE terminal[i]
  BY DEF RecoveredTerminal, RecoveredSending
<1> QED BY <1>1, <1>2 DEF Orphans, Outcome

LEMMA OpenSlot ==
    ASSUME SafeInv, NEW i \in Intents, RecordIntent(i, clock)
    PROVE  Slots!Open(i)
<1> USE DEF SafeInv, IInv
<1>1. /\ i \notin pending /\ sending[i] = "absent" /\ terminal[i] = None
      /\ reconciled[i] = "none" /\ clock < Deadline[i] /\ ~InFlight(i, clock)
      /\ pending' = pending \cup {i}
      /\ UNCHANGED <<clock, sending, terminal, reconciled, order>>
  BY DEF RecordIntent, authVars
<1>2. SlotPhase(i) = "new" /\ SlotPhase(i)' = "open"
  BY <1>1 DEF SlotPhase, Outcome
<1>3. ASSUME NEW j \in Intents, PackageOf[j] = PackageOf[i]
      PROVE  SlotPhase(j) \notin {"open", "committed"}
  <2>1. ~Holds(j, clock)
    BY <1>1, <1>3 DEF InFlight
  <2>2. reconciled[j] \in {"none", "confirmed_submitted", "confirmed_not_submitted"}
        /\ Outcome(j) \in {"none", "acknowledged", "rejected", "uncertain"}
        /\ (Outcome(j) = "none" <=> terminal[j] = None)
    BY DEF TypeOK, Receipt, Outcome
  <2> QED BY <2>1, <2>2 DEF Holds, SlotPhase
<1>4. \A j \in Intents : j # i => SlotPhase(j)' = SlotPhase(j)
  BY <1>1, SamePhase
<1>5. \A j \in Intents : MayExist(j)' <=> MayExist(j)
  BY <1>1 DEF MayExist
<1> QED BY <1>2, <1>3, <1>4, <1>5, OnePhase, SameOrders DEF Slots!Open, Slots!Occupied

LEMMA CommitSlot ==
    ASSUME SafeInv, NEW i \in Intents, NEW e \in Effects, SendClaim(i, e, clock)
    PROVE  Slots!Commit(i)
<1> USE DEF SafeInv
<1>1. /\ i \in pending /\ clock < Deadline[i]
      /\ pending' = pending \ {i} /\ sending' = [sending EXCEPT ![i] = "bare"]
      /\ UNCHANGED <<clock, terminal, reconciled, order>>
  BY DEF SendClaim, SendAllowed, authVars
<1>2. SlotPhase(i) = "open"
  BY <1>1, PhaseFacts
<1>3. sending'[i] = "bare" /\ \A j \in Intents : j # i => sending'[j] = sending[j]
  BY <1>1 DEF IInv, TypeOK
<1>4. SlotPhase(i)' = "committed"
  <2>1. terminal[i] = None /\ reconciled[i] = "none"
    BY <1>1 DEF IInv, FilesInv, FilesOK
  <2> QED BY <1>1, <1>3, <2>1 DEF SlotPhase, Outcome
<1>5. \A j \in Intents : j # i => SlotPhase(j)' = SlotPhase(j)
  BY <1>1, <1>3, SamePhase
<1>6. \A j \in Intents : MayExist(j)' <=> MayExist(j)
  BY <1>1 DEF MayExist
<1> QED BY <1>2, <1>4, <1>5, <1>6, OnePhase, SameOrders DEF Slots!Commit

\* The broker call leaves: the order may appear.
LEMMA SubmitSlot ==
    ASSUME SafeInv, SendSubmit
    PROVE  \/ \E i \in Intents : Slots!OrderAppears(i)
           \/ UNCHANGED Slots!slotVars
<1> USE DEF SafeInv, IInv
<1>0. PICK i \in Intents : i = call.intent
  BY AtCall DEF SendSubmit, At
<1>1. /\ i \in Intents /\ order[i] = None /\ terminal[i] = None /\ sending[i] = "stamped"
      /\ UNCHANGED <<clock, pending, sending, terminal, reconciled>>
      /\ \A j \in Intents : j # i => order'[j] = order[j]
  BY <1>0, AtCall DEF SendSubmit, CallInv, CallOK, Early, authVars, TypeOK
<1>2. SlotPhase(i) = "committed"
  BY <1>1, PhaseFacts
<1>3. \A j \in Intents : SlotPhase(j)' = SlotPhase(j)
  BY <1>1, SamePhase
<1>4. ~MayExist(i) /\ \A j \in Intents : j # i => (MayExist(j)' <=> MayExist(j))
  BY <1>1 DEF MayExist
<1>5. CASE MayExist(i)'
  <2>1. {j \in Intents : MayExist(j)}' = {j \in Intents : MayExist(j)} \cup {i}
    BY <1>1, <1>4, <1>5
  <2>2. [j \in Intents |-> SlotPhase(j)]' = [j \in Intents |-> SlotPhase(j)]
    BY <1>3
  <2> QED BY <1>1, <1>2, <1>4, <2>1, <2>2 DEF Slots!OrderAppears
<1>6. CASE ~MayExist(i)'
  BY <1>3, <1>4, <1>6, QuietSlots
<1> QED BY <1>5, <1>6

\* A receipt keeps the slot, or gives it back with a refused order.
LEMMA ReceiptSlot ==
    ASSUME SafeInv, SendReceipt
    PROVE  \/ \E i \in Intents : Slots!Release(i)
           \/ UNCHANGED Slots!slotVars
<1> USE DEF SafeInv, IInv
<1>0. PICK i \in Intents : i = call.intent
  BY AtCall DEF SendReceipt, At
<1>1. /\ i \in Intents /\ terminal[i] = None /\ sending[i] = "stamped"
      /\ reconciled[i] = "none" /\ call.outcome \in Answers(i)
      /\ terminal' = [terminal EXCEPT ![i] = [outcome |-> call.outcome, at |-> call.now]]
      /\ UNCHANGED <<clock, pending, sending, reconciled, order>>
  BY <1>0, AtCall DEF SendReceipt, CallInv, CallOK, At, authVars
<1>2. [outcome |-> call.outcome, at |-> call.now] # None
  <2>1. [outcome |-> call.outcome, at |-> call.now] \in Receipt
    BY <1>1, AtCall DEF SendReceipt, Receipt, Answers
  <2> QED BY <2>1, OutboxNone
<1>3. /\ terminal'[i] # None /\ Outcome(i)' = call.outcome
      /\ \A j \in Intents : j # i => terminal'[j] = terminal[j]
  <2>1. /\ terminal'[i] = [outcome |-> call.outcome, at |-> call.now]
        /\ \A j \in Intents : j # i => terminal'[j] = terminal[j]
    BY <1>1 DEF TypeOK
  <2> QED BY <1>2, <2>1 DEF Outcome
<1>4. SlotPhase(i) = "committed"
  BY <1>1, PhaseFacts
<1>5. \A j \in Intents : j # i => SlotPhase(j)' = SlotPhase(j)
  BY <1>1, <1>3, SamePhase
<1>6. \A j \in Intents : MayExist(j)' <=> MayExist(j)
  BY <1>1 DEF MayExist
<1>7. CASE call.outcome = "rejected"
  <2>1. SlotPhase(i)' = "released"
    BY <1>1, <1>3, <1>7 DEF SlotPhase
  <2>2. ~MayExist(i)
    BY <1>1, <1>7 DEF Answers, MayExist
  <2> QED BY <1>1, <1>4, <1>5, <1>6, <2>1, <2>2, OnePhase, SameOrders DEF Slots!Release
<1>8. CASE call.outcome # "rejected"
  <2>1. SlotPhase(i)' = "committed"
    BY <1>1, <1>3, <1>8 DEF SlotPhase
  <2> QED BY <1>4, <1>5, <1>6, <2>1, QuietSlots
<1> QED BY <1>7, <1>8

\* A verdict keeps the slot, or gives it back: a settled order is off the wire.
LEMMA ReconcileSlot ==
    ASSUME SafeInv, NEW i \in Intents, Reconcile(i, clock), clock \in Recent
    PROVE  Slots!Release(i) \/ UNCHANGED Slots!slotVars
<1> USE DEF SafeInv
<1>0. clock \in Nat
  BY Numbers DEF IInv
<1>1. PICK v \in LookupVerdicts(i) :
        /\ terminal' = RecoveredTerminal(Orphans, clock)
        /\ sending' = RecoveredSending(Orphans)
        /\ reconciled' = [reconciled EXCEPT ![i] = v] \/ UNCHANGED reconciled
  BY DEF Reconcile
<1>2. /\ UNCHANGED <<clock, pending, order>> /\ reconciled[i] = "none"
      /\ Outcome(i) = "uncertain" /\ Settled(i, clock) /\ terminal[i] # None
  BY DEF Reconcile, authVars, Outcome
<1>3. \A j \in Intents :
        /\ terminal[j] # None => terminal'[j] = terminal[j]
        /\ terminal[j] = None => \/ terminal'[j] = None /\ sending'[j] = sending[j]
                                 \/ sending[j] # "absent" /\ Outcome(j)' = "uncertain"
  BY <1>0, <1>1, ClaimedIsRecovered
<1>4. \A j \in Intents : j # i => reconciled'[j] = reconciled[j]
  BY <1>1 DEF IInv, TypeOK
<1>5. \A j \in Intents : j # i => SlotPhase(j)' = SlotPhase(j)
  BY <1>2, <1>3, <1>4, RecoveredPhase
<1>6. \A j \in Intents : MayExist(j)' <=> MayExist(j)
  BY <1>2 DEF MayExist
<1>7. SlotPhase(i) = "committed"
  BY <1>2, PhaseFacts
<1>8. terminal'[i] = terminal[i] /\ Outcome(i)' = "uncertain"
  BY <1>2, <1>3 DEF Outcome
<1>9. CASE reconciled'[i] = "confirmed_not_submitted"
  <2>1. SlotPhase(i)' = "released"
    BY <1>9 DEF SlotPhase
  <2>2. v = "confirmed_not_submitted"
    BY <1>1, <1>2, <1>9 DEF IInv, TypeOK
  <2>3. ~MayExist(i)
    BY <1>2, <2>2, SettledIsOffWire DEF LookupVerdicts, MayExist
  <2> QED BY <1>5, <1>6, <1>7, <2>1, <2>3, OnePhase, SameOrders DEF Slots!Release
<1>10. CASE reconciled'[i] # "confirmed_not_submitted"
  <2>1. SlotPhase(i)' = "committed"
    BY <1>2, <1>8, <1>10 DEF SlotPhase
  <2> QED BY <1>5, <1>6, <1>7, <2>1, QuietSlots
<1> QED BY <1>9, <1>10

LEMMA SurfaceSlot ==
    ASSUME SafeInv, NEW i \in Intents, Surface(i)
    PROVE  Slots!OrderLost(i) \/ UNCHANGED Slots!slotVars
<1> USE DEF SafeInv
<1>1. /\ MayExist(i) /\ UNCHANGED <<clock, pending, sending, terminal, reconciled>>
      /\ \A j \in Intents : j # i => order'[j] = order[j]
  BY DEF Surface, MayExist, authVars, IInv, TypeOK
<1>2. \A j \in Intents : SlotPhase(j)' = SlotPhase(j)
  BY <1>1, SamePhase
<1>3. \A j \in Intents : j # i => (MayExist(j)' <=> MayExist(j))
  BY <1>1 DEF MayExist
<1>4. CASE MayExist(i)'
  BY <1>1, <1>2, <1>3, <1>4, QuietSlots
<1>5. CASE ~MayExist(i)'
  <2>1. {j \in Intents : MayExist(j)}' = {j \in Intents : MayExist(j)} \ {i}
    BY <1>3, <1>5
  <2>2. [j \in Intents |-> SlotPhase(j)]' = [j \in Intents |-> SlotPhase(j)]
    BY <1>2
  <2> QED BY <2>1, <2>2 DEF Slots!OrderLost
<1> QED BY <1>4, <1>5

\* Time closes the slots whose deadline it reaches.
LEMMA TickSlot ==
    ASSUME SafeInv, Tick
    PROVE  Slots!Lapse
<1> USE DEF SafeInv
<1>1. /\ clock \in Nat /\ clock' = clock + 1 /\ \A i \in Intents : Deadline[i] \in Nat
      /\ UNCHANGED <<pending, sending, terminal, reconciled, order>>
  BY Numbers DEF Tick, Advance, outboxVars, IInv
<1> DEFINE S == {i \in Intents : SlotPhase(i) = "open" /\ clock' >= Deadline[i]}
<1>2. ASSUME NEW i \in Intents
      PROVE  SlotPhase(i)' = IF i \in S THEN "lapsed" ELSE SlotPhase(i)
  BY <1>1 DEF SlotPhase, Outcome
<1>3. \A i \in Intents : MayExist(i)' <=> MayExist(i)
  BY <1>1 DEF MayExist
<1>4. S \in SUBSET {i \in Intents : [j \in Intents |-> SlotPhase(j)][i] = "open"}
  OBVIOUS
<1> HIDE DEF S
<1>5. [i \in Intents |-> SlotPhase(i)]' =
        [i \in Intents |-> IF i \in S THEN "lapsed" ELSE [j \in Intents |-> SlotPhase(j)][i]]
  BY <1>2
<1> QED BY <1>3, <1>4, <1>5, SameOrders DEF Slots!Lapse

\* The steps the callers of the outbox do not see.
LEMMA HiddenSteps ==
    ASSUME SafeInv,
           \/ Unlocked /\ (AuthMutate \/ Restart) /\ UNCHANGED outboxVars
           \/ AuthWorld /\ UNCHANGED outboxVars
           \/ SendStamp \/ SendConsume \/ SendJournal \/ SendAnswer \/ SendReturn \/ Crash
           \/ \E now \in Recent : Recover(now)
           \/ \E i \in Intents, now \in Recent : RecoverDies(i, now)
           \/ UNCHANGED vars
    PROVE  UNCHANGED Slots!slotVars
<1> USE DEF SafeInv, IInv
<1>0. \A now \in Recent : now \in Nat
  BY Numbers
<1>1. UNCHANGED order => \A i \in Intents : MayExist(i)' <=> MayExist(i)
  BY DEF MayExist
<1>2. ASSUME UNCHANGED <<clock, pending, sending, terminal, reconciled, order>>
      PROVE  UNCHANGED Slots!slotVars
  BY <1>1, <1>2, SamePhase, QuietSlots
<1>3. CASE SendStamp \/ SendReturn
  <2>1. PICK i \in Intents : i = call.intent
    BY <1>3, AtCall DEF SendStamp, SendReturn, At
  <2>2. /\ UNCHANGED <<clock, pending, terminal, reconciled, order>>
        /\ sending[i] # "absent" /\ reconciled[i] = "none"
        /\ \A j \in Intents : j # i => sending'[j] = sending[j]
        /\ terminal[i] = None => sending'[i] # "absent"
    BY <1>3, <2>1, AtCall DEF SendStamp, SendReturn, At, CallInv, CallOK, authVars, TypeOK
  <2>3. SlotPhase(i)' = SlotPhase(i)
    BY <2>2 DEF SlotPhase, Outcome
  <2>4. \A j \in Intents : j # i => SlotPhase(j)' = SlotPhase(j)
    BY <2>2, SamePhase
  <2> QED BY <1>1, <2>2, <2>3, <2>4, QuietSlots
<1>4. ASSUME NEW now \in Recent, Recover(now) PROVE UNCHANGED Slots!slotVars
  <2>1. PICK S \in SUBSET Orphans : RecoverAll(S, now)
    BY <1>4 DEF Recover
  <2>2. UNCHANGED <<clock, pending, reconciled, order>>
    BY <1>4 DEF Recover, authVars
  <2>3. \A i \in Intents : SlotPhase(i)' = SlotPhase(i)
    BY <1>0, <2>1, <2>2, ClaimedIsRecovered, RecoveredPhase DEF RecoverAll
  <2> QED BY <1>1, <2>2, <2>3, QuietSlots
<1>5. ASSUME NEW i \in Intents, NEW now \in Recent, RecoverDies(i, now)
      PROVE  UNCHANGED Slots!slotVars
  <2>1. /\ UNCHANGED <<clock, pending, sending, reconciled, order>>
        /\ sending[i] # "absent" /\ terminal[i] = None
        /\ \/ UNCHANGED terminal
           \/ terminal' = [terminal EXCEPT ![i] = [outcome |-> "uncertain", at |-> now]]
    BY <1>5 DEF RecoverDies, Orphans, authVars
  <2>2. [outcome |-> "uncertain", at |-> now] # None
    <3>1. [outcome |-> "uncertain", at |-> now] \in Receipt
      BY <1>0 DEF Receipt
    <3> QED BY <3>1, OutboxNone
  <2>3. /\ terminal'[i] = None \/ Outcome(i)' = "uncertain"
        /\ \A j \in Intents : j # i => terminal'[j] = terminal[j]
    BY <2>1, <2>2 DEF TypeOK, Outcome
  <2>4. \A j \in Intents : SlotPhase(j)' = SlotPhase(j)
    BY <2>1, <2>3, RecoveredPhase
  <2> QED BY <1>1, <2>1, <2>4, QuietSlots
<1>6. CASE \/ AuthMutate /\ UNCHANGED outboxVars
           \/ Restart /\ UNCHANGED outboxVars
           \/ AuthWorld /\ UNCHANGED outboxVars
           \/ UNCHANGED vars
  <2>1. clock' = clock
    BY <1>6, MutateKeepsPermits DEF Restart, AuthWorld, EditProfile, HaltEffects, TypeOK,
                                    vars, authVars
  <2> QED BY <1>2, <1>6, <2>1 DEF vars, outboxVars
<1>7. CASE SendConsume \/ SendJournal \/ SendAnswer \/ Crash
  BY <1>2, <1>7 DEF SendConsume, ConsumePermit, SendJournal, SendAnswer, Crash, authVars,
                    worldVars
<1> QED BY <1>3, <1>4, <1>5, <1>6, <1>7

LEMMA NextSlots ==
    ASSUME MaxStale = 0, SafeInv, [Next]_vars
    PROVE  [Slots!SlotNext]_(Slots!slotVars)
<1>1. \A now \in Recent : now = clock
  <2>1. TypeOK
    BY DEF SafeInv, IInv
  <2>2. clock \in Nat /\ \A now \in Recent : now \in Nat /\ now <= clock /\ clock <= now + 0
    BY <2>1, Numbers
  <2> QED BY <2>2
<1>2. ASSUME NEW i \in Intents, NEW now \in Recent, RecordIntent(i, now)
      PROVE  Slots!SlotNext
  BY <1>1, <1>2, OpenSlot DEF Slots!SlotNext
<1>3. ASSUME NEW i \in Intents, NEW e \in Effects, NEW now \in Recent, SendClaim(i, e, now)
      PROVE  Slots!SlotNext
  BY <1>1, <1>3, CommitSlot DEF Slots!SlotNext
<1>4. ASSUME NEW i \in Intents, NEW now \in Recent, Reconcile(i, now)
      PROVE  [Slots!SlotNext]_(Slots!slotVars)
  BY <1>1, <1>4, ReconcileSlot DEF Slots!SlotNext
<1>5. CASE SendSubmit
  BY <1>5, SubmitSlot DEF Slots!SlotNext
<1>6. CASE SendReceipt
  BY <1>6, ReceiptSlot DEF Slots!SlotNext
<1>7. ASSUME NEW i \in Intents, Surface(i) PROVE [Slots!SlotNext]_(Slots!slotVars)
  BY <1>7, SurfaceSlot DEF Slots!SlotNext
<1>8. CASE Tick
  BY <1>8, TickSlot DEF Slots!SlotNext
<1> QED BY <1>2, <1>3, <1>4, <1>5, <1>6, <1>7, <1>8, HiddenSteps DEF Next, SendStep

\* To callers whose `now` is current, the outbox is the slots of EntrySlots:
\* a package is occupied from record_intent until its intent lapses, is
\* refused or is confirmed not submitted, and the broker has orders of
\* occupants only, through every death and recovery.
THEOREM OutboxImplementsSlots ==
    ASSUME MaxStale = 0
    PROVE  Spec => ImplementsSlots
<1>1. Init => Slots!SlotInit
  BY DEF Init, Slots!SlotInit, SlotPhase, Outcome, MayExist
<1>2. SafeInv /\ [Next]_vars => [Slots!SlotNext]_(Slots!slotVars)
  BY NextSlots
<1> QED BY <1>1, <1>2, Safe, PTL DEF Spec, ImplementsSlots, Slots!SlotSpec
=============================================================================
