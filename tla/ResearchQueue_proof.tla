------------------------ MODULE ResearchQueue_proof ------------------------
(***************************************************************************)
(* Theorems about ResearchQueue for all runs, workers, budgets and bounds: *)
(* records and locks, the runs being computed, honoured stops, the meter.  *)
(***************************************************************************)
EXTENDS ResearchQueue, TLAPS

USE RunsAssumption, NoneAssumption, BudgetAssumption

---------------------------------------------------------------------------
(* The inductive invariant.                                                *)

\* What a worker knows about its run at each of its steps: which run it is,
\* that nobody else queued it again, and that no stop came in between.
InHand ==
    \A w \in Workers :
        /\ worker[w].at \notin {"idle", "recover", "claim"} => Run(w) \in Runs
        /\ worker[w].at \in {"unsettled", "forget", "judge", "open"} => Run(w) \in PilotRuns
        /\ At(w, "complete") => ~Halted(Run(w))

\* Where the meter stands at each step of an admitted pilot run.
Metered ==
    \A w \in Workers :
        /\ At(w, "open") => jobs < requests
        /\ At(w, "begin") /\ Run(w) \in PilotRuns => jobs < requests /\ Run(w) \in marker
        /\ worker[w].at \in {"forget", "close"} /\ Run(w) \in PilotRuns => owed[Run(w)] = 0

IInv == TypeOK /\ InHand /\ ComputingIsActive /\ Metered /\ WorkIsMetered

WorkerType == [at : Labels, run : Runs \cup {None}, got : Outcomes \cup {None}]
StatusType == {"none", "queued"} \cup Active \cup Ended

---------------------------------------------------------------------------
(* The helpers the actions are built from.                                 *)

\* worker.lock: two workers are never both in a step.
LEMMA Alone ==
    ASSUME TypeOK, NEW v \in Workers, NEW w \in Workers, ~At(v, "idle"), ~At(w, "idle")
    PROVE  v = w
  BY DEF TypeOK, Fenced

LEMMA GoFacts ==
    ASSUME worker \in [Workers -> WorkerType],
           NEW w \in Workers, NEW l \in Labels, Go(w, l)
    PROVE  /\ worker' \in [Workers -> WorkerType]
           /\ worker'[w].at = l /\ worker'[w].run = worker[w].run
           /\ worker'[w].got = worker[w].got
           /\ \A v \in Workers \ {w} : worker'[v] = worker[v]
  BY DEF Go, WorkerType

LEMMA ReturnFacts ==
    ASSUME worker \in [Workers -> WorkerType], NEW w \in Workers, Return(w)
    PROVE  /\ worker' \in [Workers -> WorkerType]
           /\ worker'[w] = Idle /\ worker'[w].at = "idle"
           /\ \A v \in Workers \ {w} : worker'[v] = worker[v]
           /\ fence' = None
  BY DEF Return, WorkerType, Idle, Labels

\* put and replace keep the records in one order.
LEMMA WriteFacts ==
    ASSUME status \in [Runs -> StatusType], older \in [Runs -> SUBSET Runs], Ordered,
           NEW r \in Runs, NEW s \in StatusType \ {"none"}, Write(r, s)
    PROVE  /\ status' \in [Runs -> StatusType]
           /\ status'[r] = s /\ \A x \in Runs \ {r} : status'[x] = status[x]
           /\ older' \in [Runs -> SUBSET Runs]
           /\ Ordered'
<1>1. /\ status' \in [Runs -> StatusType]
      /\ status'[r] = s /\ \A x \in Runs \ {r} : status'[x] = status[x]
  BY DEF Write
<1>2. older' \in [Runs -> SUBSET Runs]
  BY DEF Write, Filed
<1>3. /\ older'[r] = Filed \ {r}
      /\ \A x \in Runs \ {r} : older'[x] = older[x] \ {r}
  BY DEF Write
<1>4. Filed' = Filed \cup {r}
  BY <1>1 DEF Filed, StatusType
<1>5. Filed \subseteq Runs
  BY DEF Filed
<1>6. \A x \in Runs : /\ x \notin older'[x] /\ older'[x] \subseteq Filed'
                      /\ status'[x] = "none" => older'[x] = {}
  BY <1>1, <1>3, <1>4, <1>5 DEF Ordered
<1>7. \A x \in Runs : \A y \in older'[x] : older'[y] \subseteq older'[x]
  BY <1>3, <1>5 DEF Ordered
<1>8. \A x, y \in Filed' : x = y \/ x \in older'[y] \/ y \in older'[x]
  BY <1>3, <1>4, <1>5 DEF Ordered
<1> QED BY <1>1, <1>2, <1>6, <1>7, <1>8 DEF Ordered

LEMMA RecordsKept == ASSUME Ordered, UNCHANGED <<status, older>> PROVE Ordered'
  BY DEF Ordered, Filed

\* _recover_interrupted writes each lost run again: the order stands.
LEMMA RecoverFacts ==
    ASSUME TypeOK, NEW w \in Workers, RecoverInterrupted(w)
    PROVE  /\ status' \in [Runs -> StatusType]
           /\ older' \in [Runs -> SUBSET Runs] /\ Ordered'
           /\ \A r \in Runs : status'[r] = "completed" => status[r] = "completed"
<1> DEFINE lost == {r \in Runs : status[r] \in Active}
<1>1. /\ status' = [r \in Runs |-> IF r \notin lost THEN status[r]
                                  ELSE IF Halted(r) THEN "stopped" ELSE "queued"]
      /\ older' = [r \in Runs |-> IF r \in lost THEN older[r] \cup (Filed \ lost)
                                             ELSE older[r] \ lost]
  BY DEF RecoverInterrupted
<1>2. /\ status' \in [Runs -> StatusType]
      /\ \A r \in Runs : status'[r] = "completed" => status[r] = "completed"
  BY <1>1 DEF TypeOK, StatusType, Ended
<1>3. Filed' = Filed
  BY <1>1 DEF TypeOK, Filed, Active
<1>4. Filed \subseteq Runs /\ lost \subseteq Filed
  BY DEF Filed, Active
<1>5. older' \in [Runs -> SUBSET Runs]
  BY <1>1, <1>4 DEF TypeOK
<1> HIDE DEF lost
<1>6. Ordered /\ older \in [Runs -> SUBSET Runs]
  BY DEF TypeOK
<1>7. /\ \A r \in lost : older'[r] = older[r] \cup (Filed \ lost)
      /\ \A r \in Runs \ lost : older'[r] = older[r] \ lost
  BY <1>1, <1>4
<1>8. \A x \in Runs : x \notin older'[x] /\ older'[x] \subseteq Filed'
  BY <1>3, <1>4, <1>6, <1>7 DEF Ordered
<1>9. \A x \in Runs : status'[x] = "none" => older'[x] = {}
  <2>1. \A x \in Runs \ Filed : x \notin lost /\ older[x] = {}
    BY <1>4, <1>6 DEF Ordered, Filed
  <2>2. \A x \in Runs : status'[x] = "none" => x \notin Filed'
    BY DEF Filed
  <2> QED BY <1>3, <1>7, <2>1, <2>2
<1>10. ASSUME NEW x \in Runs, NEW y \in older'[x] PROVE older'[y] \subseteq older'[x]
  <2>1. y \in Filed /\ y \in Runs
    BY <1>3, <1>4, <1>8
  <2>2. CASE x \in lost /\ y \in lost
    BY <1>6, <1>7, <2>1, <2>2, <1>10 DEF Ordered
  <2>3. CASE x \in lost /\ y \notin lost
    BY <1>6, <1>7, <2>1, <2>3, <1>10 DEF Ordered
  <2>4. CASE x \notin lost
    BY <1>6, <1>7, <2>1, <2>4, <1>10 DEF Ordered
  <2> QED BY <2>2, <2>3, <2>4
<1>11. \A x, y \in Filed' : x = y \/ x \in older'[y] \/ y \in older'[x]
  BY <1>3, <1>4, <1>6, <1>7 DEF Ordered
<1> QED BY <1>2, <1>5, <1>8, <1>9, <1>10, <1>11 DEF Ordered

---------------------------------------------------------------------------
(* The invariant is inductive.                                             *)

LEMMA InitIInv == Init => IInv
<1> SUFFICES ASSUME Init PROVE IInv
  OBVIOUS
<1> USE DEF Init, Idle
<1>1. TypeOK
  <2>1. Ordered
    BY DEF Ordered, Filed
  <2>2. Fenced
    BY DEF Fenced, At
  <2> QED BY <2>1, <2>2 DEF TypeOK, Labels
<1>2. InHand /\ Metered /\ ComputingIsActive
  BY DEF InHand, Metered, ComputingIsActive, At
<1>3. WorkIsMetered
  BY DEF WorkIsMetered
<1> QED BY <1>1, <1>2, <1>3 DEF IInv

\* The operator's controls run while nobody holds queue.control.lock.
LEMMA ControlsKeep ==
    ASSUME IInv, NEW r \in Runs,
           Submit(r) \/ Stop(r) \/ StopDies(r) \/ Resume(r) \/ ResumeDies(r)
    PROVE  IInv'
<1> USE DEF meterVars, locks, bounds
<1>1. /\ control = None /\ UNCHANGED <<result, marker, requests, jobs, owed, fence, control, worker>>
  BY DEF Submit, Stop, StopDies, Resume, ResumeDies, Controlled
<1>2. stopFile' \subseteq QuantRuns
  BY DEF Submit, Stop, StopDies, Resume, ResumeDies, Controlled, IInv, TypeOK
<1>3. /\ status' \in [Runs -> StatusType]
      /\ older' \in [Runs -> SUBSET Runs]
      /\ Ordered'
      /\ \A x \in Runs : status[x] \in Active => status'[x] \in Active
  <2>1. CASE UNCHANGED <<status, older>>
    BY <2>1, RecordsKept DEF IInv, TypeOK, StatusType
  <2>2. CASE Submit(r) \/ Resume(r)
    <3>1. Write(r, "queued") /\ status[r] \notin Active
      BY <2>2 DEF Submit, Resume, Controlled, Active
    <3> QED BY <3>1, WriteFacts DEF IInv, TypeOK, StatusType
  <2>3. CASE Stop(r)
    <3> DEFINE s == IF status[r] \in Active THEN "stopping" ELSE "stopped"
    <3>1. Write(r, s) /\ s \in StatusType \ {"none"}
      BY <2>3 DEF Stop, StatusType, Active, Ended
    <3>2. status[r] \in Active => s \in Active
      BY DEF Active
    <3> HIDE DEF s
    <3> QED BY <3>1, <3>2, WriteFacts DEF IInv, TypeOK, StatusType
  <2> QED BY <2>1, <2>2, <2>3 DEF StopDies, ResumeDies
<1>4. TypeOK'
  BY <1>1, <1>2, <1>3 DEF IInv, TypeOK, Fenced, At, StatusType
<1>5. InHand'
  BY <1>1 DEF IInv, TypeOK, Fenced, InHand, At, Run
<1>6. ComputingIsActive'
  BY <1>1, <1>3 DEF IInv, InHand, ComputingIsActive, Run
<1>7. Metered' /\ WorkIsMetered'
  BY <1>1 DEF IInv, Metered, WorkIsMetered, At, Run
<1> QED BY <1>4, <1>5, <1>6, <1>7 DEF IInv

\* A step that leaves records and meter alone: it moves one worker, and the
\* locks with it.
LEMMA MoveKeeps ==
    ASSUME IInv, NEW w \in Workers, UNCHANGED <<runVars, meterVars>>,
           \/ TakeFence(w) \/ ClaimNext(w) \/ Recheck(w) \/ Compute(w)
           \/ ComputeRaises(w) \/ SettleRaises(w) \/ Die(w)
    PROVE  IInv'
<1> USE DEF runVars, meterVars, locks, bounds
<1>0. worker \in [Workers -> WorkerType] /\ TypeOK
  BY DEF IInv, TypeOK, WorkerType
<1> DEFINE Moved ==
      /\ worker' \in [Workers -> WorkerType]
      /\ Fenced'
      /\ \A v \in Workers \ {w} : worker'[v] = worker[v]
      /\ worker'[w].at \notin {"idle", "recover", "claim"} => worker'[w].run \in Runs
      /\ worker'[w].at \in {"unsettled", "forget", "judge", "open"}
            => worker'[w].run \in PilotRuns
      /\ worker'[w].at \notin {"forget", "open", "complete", "close"}
      /\ worker'[w].at = "begin" => worker'[w].run \notin PilotRuns
      /\ worker'[w].at \in {"compute", "publish"} => status[worker'[w].run] \in Active
<1>1. Moved
  <2>1. CASE TakeFence(w)
    <3>1. Go(w, "recover") /\ fence = None /\ fence' = w /\ control' = control
          /\ At(w, "idle")
      BY <2>1 DEF TakeFence
    <3>2. "recover" \in Labels
      BY DEF Labels
    <3> QED BY <1>0, <3>1, <3>2, GoFacts DEF TypeOK, Fenced, At
  <2>2. CASE ClaimNext(w)
    <3>1. At(w, "claim") /\ control' = control
      BY <2>2 DEF ClaimNext
    <3>2. CASE Return(w)
      BY <1>0, <3>1, <3>2, ReturnFacts, Alone DEF TypeOK, Fenced, At
    <3>3. ASSUME NEW r \in Runs, fence' = fence,
                 worker' = [worker EXCEPT ![w].at = "admit", ![w].run = r]
          PROVE  Moved
      <4>1. /\ worker' \in [Workers -> WorkerType]
            /\ worker'[w].at = "admit" /\ worker'[w].run = r
            /\ \A v \in Workers \ {w} : worker'[v] = worker[v]
        <5> DEFINE n == [worker[w] EXCEPT !.at = "admit", !.run = r]
        <5>1. n \in WorkerType /\ n.at = "admit" /\ n.run = r
          BY <1>0 DEF WorkerType, Labels
        <5>2. worker' = [worker EXCEPT ![w] = n]
          BY <3>3
        <5> HIDE DEF n
        <5> QED BY <1>0, <5>1, <5>2
      <4>2. Fenced'
        BY <1>0, <3>1, <3>3, <4>1 DEF TypeOK, Fenced, At
      <4> QED BY <3>3, <4>1, <4>2
    <3> QED BY <2>2, <3>2, <3>3 DEF ClaimNext
  <2>3. CASE Recheck(w)
    <3>1. At(w, "admit") /\ control = None /\ Run(w) \in Runs
      BY <2>3 DEF Recheck, IInv, InHand, At
    <3>2. CASE Return(w) /\ UNCHANGED control
      BY <1>0, <3>1, <3>2, ReturnFacts, Alone DEF TypeOK, Fenced, At
    <3>3. ASSUME NEW l \in {"unsettled", "begin"}, Go(w, l), control' = w, fence' = fence,
                 l = IF Run(w) \in PilotRuns THEN "unsettled" ELSE "begin"
          PROVE  Moved
      <4>1. l \in Labels
        BY DEF Labels
      <4> QED BY <1>0, <3>1, <3>3, <4>1, GoFacts, Alone DEF TypeOK, Fenced, At, Run
    <3> QED BY <2>3, <3>2, <3>3 DEF Recheck
  <2>4. CASE Compute(w)
    <3>1. At(w, "compute") /\ fence' = fence /\ control' = control /\ Run(w) \in Runs
          /\ status[Run(w)] \in Active
      BY <2>4 DEF Compute, IInv, InHand, ComputingIsActive, At
    <3>2. PICK o \in Outcomes :
             worker' = [worker EXCEPT ![w].at = "publish", ![w].got = o]
      BY <2>4 DEF Compute
    <3>3. /\ worker' \in [Workers -> WorkerType]
          /\ worker'[w].at = "publish" /\ worker'[w].run = worker[w].run
          /\ \A v \in Workers \ {w} : worker'[v] = worker[v]
      <4> DEFINE n == [worker[w] EXCEPT !.at = "publish", !.got = o]
      <4>1. n \in WorkerType /\ n.at = "publish" /\ n.run = worker[w].run
        BY <1>0 DEF WorkerType, Labels
      <4>2. worker' = [worker EXCEPT ![w] = n]
        BY <3>2
      <4> HIDE DEF n
      <4> QED BY <1>0, <4>1, <4>2
    <3> QED BY <1>0, <3>1, <3>3 DEF TypeOK, Fenced, At, Run
  <2>5. CASE ComputeRaises(w)
    <3>1. At(w, "compute") /\ fence' = fence /\ control' = control /\ Run(w) \in Runs
          /\ Go(w, "charge") /\ "charge" \in Labels
      BY <2>5 DEF ComputeRaises, IInv, InHand, At, Labels
    <3> QED BY <1>0, <3>1, GoFacts DEF TypeOK, Fenced, At, Run
  <2>6. CASE SettleRaises(w)
    <3>1. worker[w].at \in {"charge", "close"} /\ control' = control /\ Run(w) \in Runs
          /\ "fail" \in Labels
      BY <2>6 DEF SettleRaises, IInv, InHand, At, Labels
    <3>2. CASE Go(w, "fail") /\ UNCHANGED fence
      BY <1>0, <3>1, <3>2, GoFacts DEF TypeOK, Fenced, At, Run
    <3>3. CASE Return(w)
      BY <1>0, <3>1, <3>3, ReturnFacts, Alone DEF TypeOK, Fenced, At
    <3> QED BY <2>6, <3>2, <3>3 DEF SettleRaises
  <2>7. CASE Die(w)
    <3>1. ~At(w, "idle") /\ Return(w) /\ control' = IF control = w THEN None ELSE control
      BY <2>7 DEF Die
    <3> QED BY <1>0, <3>1, ReturnFacts, Alone DEF TypeOK, Fenced, At
  <2> QED BY <2>1, <2>2, <2>3, <2>4, <2>5, <2>6, <2>7
<1>2. TypeOK'
  BY <1>0, <1>1, RecordsKept DEF TypeOK, WorkerType
<1>3. InHand'
  BY <1>1 DEF IInv, InHand, At, Run, Halted
<1>4. ComputingIsActive'
  BY <1>1 DEF IInv, ComputingIsActive, Run
<1>5. Metered' /\ WorkIsMetered'
  BY <1>1 DEF IInv, Metered, WorkIsMetered, At, Run
<1> QED BY <1>2, <1>3, <1>4, <1>5 DEF IInv

\* A step of the meter: PilotAdmission.admit and settle.  The records stand;
\* w is alone past the fence, so the meter is as w left it.
LEMMA MeterKeeps ==
    ASSUME IInv, NEW w \in Workers,
           \/ ChargeUnsettled(w) \/ CloseUnsettled(w) \/ OpenJob(w)
           \/ ChargeCompute(w) \/ CloseJob(w)
    PROVE  IInv'
<1> USE DEF runVars, meterVars, locks, bounds
<1>0. /\ worker \in [Workers -> WorkerType] /\ TypeOK /\ WorkIsMetered
      /\ ~At(w, "idle") /\ Run(w) \in Runs
  BY DEF IInv, TypeOK, WorkerType, InHand, At, ChargeUnsettled, CloseUnsettled,
         OpenJob, ChargeCompute, CloseJob
<1>1. /\ UNCHANGED <<status, older, result, stopFile, requests, jobs, control>>
      /\ Ordered'
  <2>1. UNCHANGED <<status, older, result, stopFile, requests, jobs, control>>
    BY DEF ChargeUnsettled, CloseUnsettled, OpenJob, ChargeCompute, CloseJob
  <2> QED BY <2>1, <1>0, RecordsKept DEF TypeOK
<1> DEFINE Settled ==
      /\ marker' \subseteq PilotRuns /\ owed' \in [Runs -> Nat]
      /\ \A r \in PilotRuns : owed'[r] > 0 => r \in marker'
      /\ worker' \in [Workers -> WorkerType] /\ Fenced'
      /\ \A v \in Workers \ {w} : worker'[v] = worker[v]
      /\ worker'[w].at \in {"forget", "judge", "begin", "close", "fail", "idle"}
      /\ worker'[w].at # "idle" => worker'[w].run = Run(w)
      /\ worker'[w].at \in {"forget", "judge"} => Run(w) \in PilotRuns
      /\ worker'[w].at = "begin" => jobs < requests /\ Run(w) \in marker'
      /\ worker'[w].at \in {"forget", "close"} /\ Run(w) \in PilotRuns => owed'[Run(w)] = 0
<1>2. Settled
  <2>1. CASE ChargeUnsettled(w)
    <3> DEFINE l == IF Run(w) \in marker THEN "forget" ELSE "judge"
    <3>1. /\ At(w, "unsettled") /\ Go(w, l) /\ l \in Labels /\ l \in {"forget", "judge"}
          /\ UNCHANGED <<marker, fence>> /\ Run(w) \in PilotRuns
      BY <2>1 DEF ChargeUnsettled, Labels, IInv, InHand, At
    <3>2. /\ owed' \in [Runs -> Nat]
          /\ \A r \in PilotRuns : owed'[r] > 0 => r \in marker
          /\ l = "forget" => owed'[Run(w)] = 0
      BY <1>0, <2>1 DEF ChargeUnsettled, TypeOK, WorkIsMetered
    <3> HIDE DEF l
    <3>3. Fenced'
      BY <1>0, <1>1, <3>1, GoFacts DEF TypeOK, Fenced, At
    <3> QED BY <1>0, <3>1, <3>2, <3>3, GoFacts DEF TypeOK, Run
  <2>2. CASE CloseUnsettled(w)
    <3>1. /\ At(w, "forget") /\ Go(w, "judge") /\ "judge" \in Labels
          /\ marker' = marker \ {Run(w)} /\ UNCHANGED <<owed, fence>>
          /\ Run(w) \in PilotRuns /\ owed[Run(w)] = 0
      BY <2>2 DEF CloseUnsettled, Labels, IInv, InHand, Metered, At
    <3>2. Fenced'
      BY <1>0, <1>1, <3>1, GoFacts DEF TypeOK, Fenced, At
    <3> QED BY <1>0, <3>1, <3>2, GoFacts DEF TypeOK, WorkIsMetered, Run
  <2>3. CASE OpenJob(w)
    <3>1. /\ At(w, "open") /\ Go(w, "begin") /\ "begin" \in Labels
          /\ marker' = marker \cup {Run(w)} /\ UNCHANGED <<owed, fence>>
          /\ Run(w) \in PilotRuns /\ jobs < requests
      BY <2>3 DEF OpenJob, Labels, IInv, InHand, Metered, At
    <3>2. Fenced'
      BY <1>0, <1>1, <3>1, GoFacts DEF TypeOK, Fenced, At
    <3> QED BY <1>0, <3>1, <3>2, GoFacts DEF TypeOK, WorkIsMetered, Run
  <2>4. CASE ChargeCompute(w)
    <3>1. /\ At(w, "charge") /\ Go(w, "close") /\ "close" \in Labels
          /\ UNCHANGED <<marker, fence>>
      BY <2>4 DEF ChargeCompute, Labels
    <3>2. /\ owed' \in [Runs -> Nat]
          /\ \A r \in PilotRuns : owed'[r] > 0 => r \in marker
          /\ Run(w) \in PilotRuns => owed'[Run(w)] = 0
      BY <1>0, <2>4 DEF ChargeCompute, TypeOK, WorkIsMetered
    <3>3. Fenced'
      BY <1>0, <1>1, <3>1, GoFacts DEF TypeOK, Fenced, At
    <3> QED BY <1>0, <3>1, <3>2, <3>3, GoFacts DEF TypeOK, Run
  <2>5. CASE CloseJob(w)
    <3>1. /\ At(w, "close") /\ "fail" \in Labels
          /\ marker' = marker \ {Run(w)} /\ UNCHANGED owed
          /\ Run(w) \in PilotRuns => owed[Run(w)] = 0
      BY <2>5 DEF CloseJob, Labels, IInv, Metered, At
    <3>2. CASE Go(w, "fail") /\ UNCHANGED fence
      <4>1. Fenced'
        BY <1>0, <1>1, <3>1, <3>2, GoFacts DEF TypeOK, Fenced, At
      <4> QED BY <1>0, <3>1, <3>2, <4>1, GoFacts DEF TypeOK, WorkIsMetered, Run
    <3>3. CASE Return(w)
      <4>1. Fenced'
        BY <1>0, <1>1, <3>1, <3>3, ReturnFacts, Alone DEF TypeOK, Fenced, At
      <4> QED BY <1>0, <3>1, <3>3, <4>1, ReturnFacts DEF TypeOK, WorkIsMetered
    <3> QED BY <2>5, <3>2, <3>3 DEF CloseJob
  <2> QED BY <2>1, <2>2, <2>3, <2>4, <2>5
<1>3. TypeOK'
  BY <1>0, <1>1, <1>2 DEF TypeOK, WorkerType
<1>4. InHand'
  BY <1>0, <1>1, <1>2 DEF IInv, InHand, At, Run, Halted
<1>5. ComputingIsActive'
  BY <1>1, <1>2 DEF IInv, ComputingIsActive, Run
<1>6. Metered'
  <2>1. \A v \in Workers \ {w} : worker'[v].at = "idle"
    BY <1>0, <1>2, Alone DEF At
  <2> QED BY <1>1, <1>2, <2>1 DEF Metered, At, Run
<1>7. WorkIsMetered'
  BY <1>0, <1>1, <1>2 DEF WorkIsMetered
<1> QED BY <1>3, <1>4, <1>5, <1>6, <1>7 DEF IInv

\* A step that writes a record: what is written keeps the order, and only the
\* worker's own record changes.
LEMMA RecordKeeps ==
    ASSUME IInv, NEW w \in Workers,
           \/ RecoverInterrupted(w) \/ Judge(w) \/ AdmissionRaises(w) \/ Begin(w)
           \/ Publish(w) \/ Complete(w) \/ Fail(w)
    PROVE  IInv'
<1> USE DEF runVars, meterVars, locks, bounds
<1>0. /\ worker \in [Workers -> WorkerType] /\ TypeOK /\ WorkIsMetered
      /\ ~At(w, "idle")
  BY DEF IInv, TypeOK, WorkerType, At, RecoverInterrupted, Judge, AdmissionRaises,
         Begin, Publish, Complete, Fail
<1>1. UNCHANGED <<stopFile, marker>>
  BY DEF RecoverInterrupted, Judge, AdmissionRaises, Begin, Publish, Complete, Fail
<1>2. worker[w].at # "recover" => Run(w) \in Runs
  BY DEF IInv, InHand, At, Judge, AdmissionRaises, Begin, Publish, Complete, Fail, RecoverInterrupted
<1> DEFINE Filing ==
      status' \in [Runs -> StatusType] /\ older' \in [Runs -> SUBSET Runs] /\ Ordered'
<1> DEFINE Meter ==
      /\ result' \in [Runs -> Outcomes \cup {None}]
      /\ requests' \in 0..Budget /\ jobs' \in Nat /\ owed' \in [Runs -> Nat]
      /\ jobs' <= requests'
      /\ \A r \in PilotRuns : owed'[r] > 0 => r \in marker
<1> DEFINE Moved ==
      /\ worker' \in [Workers -> WorkerType] /\ Fenced'
      /\ \A v \in Workers \ {w} : worker'[v] = worker[v]
      /\ worker'[w].at \in {"claim", "idle", "open", "compute", "complete", "charge"}
      /\ worker'[w].at \notin {"claim", "idle"} => worker'[w].run = Run(w) /\ Run(w) \in Runs
      /\ worker'[w].at = "open" => Run(w) \in PilotRuns /\ jobs' < requests'
      /\ worker'[w].at \in {"compute", "complete"} => status'[Run(w)] \in Active
      /\ worker'[w].at = "complete" => ~Halted(Run(w))
<1>3. ASSUME NEW s \in StatusType \ {"none"}, Run(w) \in Runs, Write(Run(w), s) PROVE Filing /\ status'[Run(w)] = s
  BY <1>0, <1>3, WriteFacts DEF TypeOK, StatusType
<1>4. ASSUME UNCHANGED <<status, older>> PROVE Filing
  BY <1>0, <1>4, RecordsKept DEF TypeOK, StatusType
<1>5. ASSUME UNCHANGED <<result, requests, jobs, owed>> PROVE Meter
  BY <1>0, <1>5 DEF TypeOK, WorkIsMetered
<1>6. Filing /\ Meter /\ Moved
  <2> HIDE DEF Filing, Meter
  <2>1. CASE RecoverInterrupted(w)
    <3>1. At(w, "recover") /\ Go(w, "claim") /\ "claim" \in Labels
          /\ UNCHANGED <<result, requests, jobs, owed, fence, control>>
      BY <2>1 DEF RecoverInterrupted, Labels
    <3>2. Moved
      BY <1>0, <3>1, GoFacts DEF TypeOK, Fenced, At
    <3>3. Filing
      BY <1>0, <2>1, RecoverFacts DEF Filing
    <3> QED BY <1>5, <3>1, <3>2, <3>3
  <2>2. CASE Judge(w)
    <3>1. /\ At(w, "judge") /\ UNCHANGED <<result, jobs, owed>>
          /\ Run(w) \in PilotRuns /\ Run(w) \in Runs
      BY <1>2, <2>2 DEF Judge, IInv, InHand, At
    <3>2. CASE Blocked
      <4>1. Write(Run(w), "failed") /\ Return(w) /\ control' = None /\ requests' = requests
        BY <2>2, <3>2 DEF Judge
      <4>2. Filing
        BY <1>3, <3>1, <4>1 DEF StatusType, Ended
      <4>3. Moved
        BY <1>0, <3>1, <4>1, ReturnFacts, Alone DEF TypeOK, Fenced, At
      <4> QED BY <1>5, <3>1, <4>1, <4>2, <4>3
    <3>3. CASE ~Blocked
      <4>1. /\ requests' = requests + 1 /\ requests < Budget
            /\ Go(w, "open") /\ "open" \in Labels /\ UNCHANGED <<status, older, fence, control>>
        BY <1>0, <2>2, <3>3 DEF Judge, Blocked, Labels, TypeOK
      <4>2. Meter /\ jobs' < requests'
        BY <1>0, <3>1, <4>1 DEF Meter, TypeOK, WorkIsMetered
      <4>3. Moved
        BY <1>0, <3>1, <4>1, <4>2, GoFacts DEF TypeOK, Fenced, At, Run
      <4> QED BY <1>4, <4>1, <4>2, <4>3
    <3> QED BY <3>2, <3>3
  <2>3. CASE AdmissionRaises(w)
    <3>1. /\ worker[w].at \in {"unsettled", "forget", "judge", "open"}
          /\ Write(Run(w), "failed") /\ Return(w) /\ control' = None
          /\ UNCHANGED <<result, requests, jobs, owed>> /\ Run(w) \in Runs
      BY <1>2, <2>3 DEF AdmissionRaises
    <3>2. Filing
      BY <1>3, <3>1 DEF StatusType, Ended
    <3>3. Moved
      BY <1>0, <3>1, ReturnFacts, Alone DEF TypeOK, Fenced, At
    <3> QED BY <1>5, <3>1, <3>2, <3>3
  <2>4. CASE Begin(w)
    <3>1. /\ At(w, "begin") /\ Write(Run(w), "running") /\ control' = None /\ fence' = fence
          /\ Go(w, "compute") /\ "compute" \in Labels /\ UNCHANGED <<result, requests>>
          /\ Run(w) \in Runs
      BY <1>2, <2>4 DEF Begin, Labels, At
    <3>2. Filing /\ status'[Run(w)] \in Active
      BY <1>3, <3>1 DEF StatusType, Active
    <3>3. ASSUME Run(w) \in PilotRuns PROVE Meter
      <4>1. /\ jobs' = jobs + 1 /\ owed' = [owed EXCEPT ![Run(w)] = @ + 1]
            /\ jobs < requests /\ Run(w) \in marker
        BY <2>4, <3>1, <3>3 DEF Begin, IInv, Metered
      <4> QED BY <1>0, <3>1, <3>3, <4>1 DEF Meter, TypeOK, WorkIsMetered
    <3>4. ASSUME Run(w) \notin PilotRuns PROVE Meter
      BY <1>5, <2>4, <3>1, <3>4 DEF Begin
    <3>5. Moved
      BY <1>0, <3>1, <3>2, GoFacts, Alone DEF TypeOK, Fenced, At, Run
    <3> QED BY <3>2, <3>3, <3>4, <3>5
  <2>5. CASE Publish(w)
    <3>1. /\ At(w, "publish") /\ control = None /\ UNCHANGED <<requests, jobs, owed>>
          /\ Run(w) \in Runs /\ status[Run(w)] \in Active
          /\ {"charge", "complete"} \subseteq Labels
      BY <1>2, <2>5 DEF Publish, IInv, ComputingIsActive, At, Labels
    <3>2. CASE Halted(Run(w))
      <4>1. Write(Run(w), "stopped") /\ Go(w, "charge") /\ UNCHANGED <<result, fence, control>>
        BY <2>5, <3>2 DEF Publish
      <4>2. Filing
        BY <1>3, <3>1, <4>1 DEF StatusType, Ended
      <4>3. Moved
        BY <1>0, <3>1, <4>1, GoFacts DEF TypeOK, Fenced, At, Run
      <4> QED BY <1>5, <3>1, <4>1, <4>2, <4>3
    <3>3. CASE ~Halted(Run(w)) /\ result[Run(w)] \in {None, worker[w].got}
      <4>1. /\ result' = [result EXCEPT ![Run(w)] = worker[w].got]
            /\ control' = w /\ Go(w, "complete") /\ UNCHANGED <<status, older, fence>>
        BY <2>5, <3>3 DEF Publish
      <4>2. Meter
        BY <1>0, <3>1, <4>1 DEF Meter, TypeOK, WorkIsMetered
      <4>3. Moved
        BY <1>0, <3>1, <3>3, <4>1, GoFacts, Alone DEF TypeOK, Fenced, At, Run
      <4> QED BY <1>4, <4>1, <4>2, <4>3
    <3>4. CASE ~Halted(Run(w)) /\ result[Run(w)] \notin {None, worker[w].got}
      <4>1. Return(w) /\ UNCHANGED <<result, control, status, older>>
        BY <2>5, <3>4 DEF Publish
      <4>2. Moved
        BY <1>0, <3>1, <4>1, ReturnFacts, Alone DEF TypeOK, Fenced, At
      <4> QED BY <1>4, <1>5, <3>1, <4>1, <4>2
    <3> QED BY <3>2, <3>3, <3>4
  <2>6. CASE Complete(w)
    <3>1. /\ At(w, "complete") /\ Write(Run(w), "completed") /\ control' = None
          /\ Go(w, "charge") /\ "charge" \in Labels /\ Run(w) \in Runs
          /\ UNCHANGED <<result, requests, jobs, owed, fence>>
      BY <1>2, <2>6 DEF Complete, At, Labels
    <3>2. Filing
      BY <1>3, <3>1 DEF StatusType, Ended
    <3>3. Moved
      BY <1>0, <3>1, GoFacts, Alone DEF TypeOK, Fenced, At, Run
    <3> QED BY <1>5, <3>1, <3>2, <3>3
  <2>7. CASE Fail(w)
    <3> DEFINE s == IF Halted(Run(w)) THEN "stopped" ELSE "failed"
    <3>1. /\ At(w, "fail") /\ control = None /\ Write(Run(w), s) /\ s \in StatusType \ {"none"}
          /\ Return(w) /\ Run(w) \in Runs
          /\ UNCHANGED <<result, requests, jobs, owed, control>>
      BY <1>2, <2>7 DEF Fail, At, StatusType, Ended
    <3> HIDE DEF s
    <3>2. Filing
      BY <1>3, <3>1
    <3>3. Moved
      BY <1>0, <3>1, ReturnFacts, Alone DEF TypeOK, Fenced, At
    <3> QED BY <1>5, <3>1, <3>2, <3>3
  <2> QED BY <2>1, <2>2, <2>3, <2>4, <2>5, <2>6, <2>7
<1>7. \A v \in Workers \ {w} : worker'[v].at = "idle"
  BY <1>0, <1>6, Alone DEF At
<1>8. TypeOK'
  BY <1>0, <1>1, <1>6 DEF TypeOK, WorkerType, StatusType
<1>9. InHand'
  BY <1>1, <1>6, <1>7 DEF InHand, At, Run, Halted
<1>10. ComputingIsActive'
  BY <1>6, <1>7 DEF ComputingIsActive, Run
<1>11. Metered' /\ WorkIsMetered'
  BY <1>1, <1>6, <1>7 DEF Metered, WorkIsMetered, At, Run
<1> QED BY <1>8, <1>9, <1>10, <1>11 DEF IInv

LEMMA StepIInv == IInv /\ [Next]_vars => IInv'
<1> SUFFICES ASSUME IInv, [Next]_vars PROVE IInv'
  OBVIOUS
<1>1. CASE UNCHANGED vars
  <2>1. Ordered'
    BY <1>1, RecordsKept DEF IInv, TypeOK, vars, runVars
  <2> QED BY <1>1, <2>1 DEF IInv, TypeOK, Fenced, InHand, Metered, ComputingIsActive,
             WorkIsMetered, At, Run, Halted, vars, runVars, meterVars, locks, bounds
<1>2. ASSUME NEW r \in Runs,
             Submit(r) \/ Stop(r) \/ StopDies(r) \/ Resume(r) \/ ResumeDies(r)
      PROVE  IInv'
  BY <1>2, ControlsKeep
<1>3. ASSUME NEW w \in Workers,
             \/ TakeFence(w) \/ ClaimNext(w) \/ Recheck(w) \/ Compute(w)
             \/ ComputeRaises(w) \/ SettleRaises(w) \/ Die(w)
      PROVE  IInv'
  <2>1. UNCHANGED <<runVars, meterVars>>
    BY <1>3 DEF TakeFence, ClaimNext, Recheck, Compute, ComputeRaises, SettleRaises, Die
  <2> QED BY <1>3, <2>1, MoveKeeps
<1>4. ASSUME NEW w \in Workers,
             \/ ChargeUnsettled(w) \/ CloseUnsettled(w) \/ OpenJob(w)
             \/ ChargeCompute(w) \/ CloseJob(w)
      PROVE  IInv'
  BY <1>4, MeterKeeps
<1>5. ASSUME NEW w \in Workers,
             \/ RecoverInterrupted(w) \/ Judge(w) \/ AdmissionRaises(w) \/ Begin(w)
             \/ Publish(w) \/ Complete(w) \/ Fail(w)
      PROVE  IInv'
  BY <1>5, RecordKeeps
<1> QED BY <1>1, <1>2, <1>3, <1>4, <1>5 DEF Next, Work

---------------------------------------------------------------------------
(* The theorems.                                                           *)

\* Records, meter, workers and both locks have their types in every reachable
\* state; the records stand in one order; worker.lock admits one worker.
THEOREM ResearchTyped == Spec => []TypeOK
<1>1. IInv => TypeOK
  BY DEF IInv
<1> QED BY InitIInv, StepIInv, <1>1, PTL DEF Spec

\* While a worker computes or publishes a run, nobody queues that run again.
THEOREM ComputedOnce == Spec => []ComputingIsActive
<1>1. IInv => ComputingIsActive
  BY DEF IInv
<1> QED BY InitIInv, StepIInv, <1>1, PTL DEF Spec

\* No pilot job escapes the meter, whatever dies or fails between two steps.
THEOREM NoHiddenWork == Spec => []WorkIsMetered
<1>1. IInv => WorkIsMetered
  BY DEF IInv
<1> QED BY InitIInv, StepIInv, <1>1, PTL DEF Spec

LEMMA StopStep ==
    ASSUME IInv, [Next]_vars, NEW r \in QuantRuns, r \in stopFile, status'[r] = "completed"
    PROVE  status[r] = "completed"
<1>0. r \in Runs /\ status \in [Runs -> StatusType]
  BY DEF IInv, TypeOK, StatusType
<1>1. ASSUME NEW x \in Runs, NEW s \in StatusType, s # "completed", Write(x, s)
      PROVE  status[r] = "completed"
  BY <1>0, <1>1 DEF Write
<1>2. CASE status' = status
  BY <1>2
<1>3. ASSUME NEW w \in Workers, RecoverInterrupted(w) PROVE status[r] = "completed"
  BY <1>0, <1>3, RecoverFacts DEF IInv
<1>4. ASSUME NEW w \in Workers, Complete(w) PROVE status[r] = "completed"
  <2>1. Run(w) \in Runs /\ ~Halted(Run(w)) /\ Write(Run(w), "completed")
    BY <1>4 DEF Complete, IInv, InHand, At
  <2> QED BY <1>0, <2>1 DEF Halted, Write
<1>5. ASSUME NEW x \in Runs,
             Submit(x) \/ Stop(x) \/ StopDies(x) \/ Resume(x) \/ ResumeDies(x)
      PROVE  status[r] = "completed"
  BY <1>1, <1>2, <1>5 DEF Submit, Stop, StopDies, Resume, ResumeDies, StatusType, Active, Ended
<1>6. ASSUME NEW w \in Workers, Judge(w) \/ AdmissionRaises(w) \/ Begin(w) \/ Publish(w) \/ Fail(w)
      PROVE  status[r] = "completed"
  <2>1. Run(w) \in Runs
    BY <1>6 DEF Judge, AdmissionRaises, Begin, Publish, Fail, IInv, InHand, At
  <2>2. \/ UNCHANGED status
        \/ \E s \in StatusType \ {"completed"} : Write(Run(w), s)
    BY <1>6 DEF Judge, AdmissionRaises, Begin, Publish, Fail, StatusType, Active, Ended
  <2> QED BY <1>1, <1>2, <2>1, <2>2
<1>7. ASSUME NEW w \in Workers,
             \/ TakeFence(w) \/ ClaimNext(w) \/ Recheck(w) \/ Compute(w)
             \/ ComputeRaises(w) \/ SettleRaises(w) \/ Die(w)
             \/ ChargeUnsettled(w) \/ CloseUnsettled(w) \/ OpenJob(w)
             \/ ChargeCompute(w) \/ CloseJob(w)
      PROVE  status[r] = "completed"
  BY <1>2, <1>7 DEF TakeFence, ClaimNext, Recheck, Compute, ComputeRaises, SettleRaises,
     Die, ChargeUnsettled, CloseUnsettled, OpenJob, ChargeCompute, CloseJob, runVars
<1>8. CASE UNCHANGED vars
  BY <1>2, <1>8 DEF vars, runVars
<1> QED BY <1>3, <1>4, <1>5, <1>6, <1>7, <1>8 DEF Next, Work

\* Once a stop is on file no run completes under it: publication and record
\* are one critical section of queue.control.lock.
THEOREM StopHonoured == Spec => StopIsHonoured
<1>1. IInv /\ [Next]_vars
        => [\A r \in QuantRuns : r \in stopFile /\ status'[r] = "completed"
                                    => status[r] = "completed"]_vars
  BY StopStep
<1> QED BY InitIInv, StepIInv, <1>1, PTL DEF Spec, StopIsHonoured
=============================================================================
