--------------------------- MODULE ResearchQueue ---------------------------
(***************************************************************************)
(* The research queue: runs in the runstate database, the worker of        *)
(* research/runstate/worker.py (one per process, several processes), the   *)
(* controls of research/quant_jobs.py, and the pilot meter the worker      *)
(* charges (research/pilot/admission.py, usage.py).                        *)
(*                                                                         *)
(* A worker's step is what it does between two points where it may die or  *)
(* where another process can come in.  A put or replace of the database is *)
(* one transaction.  The controls hold queue.control.lock throughout, as   *)
(* the worker does for its short state writes.  One ET day is modelled,    *)
(* and one pilot program.                                                  *)
(***************************************************************************)
EXTENDS Naturals

CONSTANTS Runs,
          PilotRuns,    \* runs that carry pilot_program_id
          QuantRuns,    \* quant_campaign runs: they can be stopped
          Workers,
          Outcomes,     \* what a computation may produce
          Budget,       \* requests_per_day of the program
          MaxControls,  \* bound on stop and resume
          MaxFaults,    \* bound on computations, admissions, settles that fail
          MaxCrashes,   \* bound on deaths
          None

ASSUME RunsAssumption == /\ PilotRuns \subseteq Runs /\ QuantRuns \subseteq Runs
                         /\ PilotRuns \cap QuantRuns = {}
ASSUME NoneAssumption == None \notin Runs \cup Workers \cup Outcomes
ASSUME BudgetAssumption == {Budget, MaxControls, MaxFaults, MaxCrashes} \subseteq Nat

VARIABLES
    status,     \* of each run record; "none": not submitted
    older,      \* of each run, the records last written before its own
    result,     \* the stored result of each run, or None
    stopFile,   \* the runs whose STOP file stands
    marker,     \* the pilot runs with an open job marker
    requests,   \* requests charged to the program
    fence,      \* who holds worker.lock, or None
    control,    \* which worker holds queue.control.lock, or None
    worker,     \* what each worker does: its step, its run, what it computed
    jobs,       \* history: computations of pilot runs that began
    owed,       \* history: of each run, those whose compute is not charged
    controls, faults, crashes

runVars == <<status, older, result, stopFile>>
meterVars == <<marker, requests, jobs, owed>>
locks == <<fence, control>>
bounds == <<controls, faults, crashes>>
vars == <<runVars, meterVars, locks, worker, bounds>>

Ended == {"completed", "failed", "stopped"}
Active == {"running", "stopping"}
Idle == [at |-> "idle", run |-> None, got |-> None]

Init ==
    /\ status = [r \in Runs |-> "none"] /\ older = [r \in Runs |-> {}]
    /\ result = [r \in Runs |-> None]
    /\ stopFile = {} /\ marker = {} /\ requests = 0
    /\ fence = None /\ control = None
    /\ worker = [w \in Workers |-> Idle]
    /\ jobs = 0 /\ owed = [r \in Runs |-> 0]
    /\ controls = 0 /\ faults = 0 /\ crashes = 0

---------------------------------------------------------------------------
(* The database.                                                           *)

Filed == {r \in Runs : status[r] # "none"}

\* put or replace of a run record: its created_at is now, so it is the newest
\* of all.
Write(r, s) ==
    /\ status' = [status EXCEPT ![r] = s]
    /\ older' = [x \in Runs |-> IF x = r THEN Filed \ {r} ELSE older[x] \ {r}]

\* STOP is looked at for quant campaigns only.
Halted(r) == r \in QuantRuns /\ r \in stopFile

---------------------------------------------------------------------------
(* Controls: enqueue and set_stopped, under queue.control.lock.            *)

Submit(r) ==
    /\ control = None /\ status[r] = "none"
    /\ Write(r, "queued")
    /\ UNCHANGED <<result, stopFile, meterVars, locks, worker, bounds>>

Controlled(r) ==
    /\ r \in QuantRuns /\ control = None
    /\ status[r] \notin {"none", "completed"}
    /\ controls < MaxControls
    /\ controls' = controls + 1

\* set_stopped(True): the file, then the record; the process may die between.
Stop(r) ==
    /\ Controlled(r)
    /\ stopFile' = stopFile \cup {r}
    /\ Write(r, IF status[r] \in Active THEN "stopping" ELSE "stopped")
    /\ UNCHANGED <<result, meterVars, locks, worker, faults, crashes>>

StopDies(r) ==
    /\ Controlled(r) /\ crashes < MaxCrashes
    /\ crashes' = crashes + 1
    /\ stopFile' = stopFile \cup {r}
    /\ UNCHANGED <<status, older, result, meterVars, locks, worker, faults>>

\* Mutant: a resume does not wait for the active job.
Resume_Active(r) ==
    /\ Controlled(r)
    /\ stopFile' = stopFile \ {r}
    /\ Write(r, "queued")
    /\ UNCHANGED <<result, meterVars, locks, worker, faults, crashes>>

\* set_stopped(False): not while the run is active; the file, then the record.
Resume(r) ==
    /\ Controlled(r) /\ status[r] \notin Active
    /\ stopFile' = stopFile \ {r}
    /\ Write(r, "queued")
    /\ UNCHANGED <<result, meterVars, locks, worker, faults, crashes>>

ResumeDies(r) ==
    /\ Controlled(r) /\ status[r] \notin Active /\ crashes < MaxCrashes
    /\ crashes' = crashes + 1
    /\ stopFile' = stopFile \ {r}
    /\ UNCHANGED <<status, older, result, meterVars, locks, worker, faults>>

---------------------------------------------------------------------------
(* ResearchWorker.step.                                                    *)

At(w, label) == worker[w].at = label
Go(w, label) == worker' = [worker EXCEPT ![w].at = label]
Run(w) == worker[w].run

\* step returns: the fence falls with the open file.
Return(w) == worker' = [worker EXCEPT ![w] = Idle] /\ fence' = None

\* worker.lock is tried, not waited for.
TakeFence(w) ==
    /\ At(w, "idle") /\ fence = None
    /\ fence' = w
    /\ Go(w, "recover")
    /\ UNCHANGED <<runVars, meterVars, control, bounds>>

\* Mutant: only runs with a STOP file are recovered.
RecoverInterrupted_StoppedOnly(w) ==
    /\ At(w, "recover") /\ control = None
    /\ status' = [r \in Runs |-> IF status[r] \in Active /\ Halted(r)
                                THEN "stopped" ELSE status[r]]
    /\ Go(w, "claim")
    /\ UNCHANGED <<older, result, stopFile, meterVars, locks, bounds>>

\* _recover_interrupted: a free fence proves that no worker has these runs,
\* and each, oldest first, is written again.
RecoverInterrupted(w) ==
    /\ At(w, "recover") /\ control = None
    /\ LET lost == {r \in Runs : status[r] \in Active}
       IN  /\ status' = [r \in Runs |->
                            IF r \notin lost THEN status[r]
                            ELSE IF Halted(r) THEN "stopped" ELSE "queued"]
           /\ older' = [r \in Runs |-> IF r \in lost THEN older[r] \cup (Filed \ lost)
                                                    ELSE older[r] \ lost]
    /\ Go(w, "claim")
    /\ UNCHANGED <<result, stopFile, meterVars, locks, bounds>>

\* _next_queued: the oldest queued record.
ClaimNext(w) ==
    /\ At(w, "claim")
    /\ LET queue == {r \in Runs : status[r] = "queued"}
       IN  IF queue = {} THEN Return(w)
           ELSE /\ \E r \in queue :
                      /\ older[r] \cap queue = {}
                      /\ worker' = [worker EXCEPT ![w].at = "admit", ![w].run = r]
                /\ UNCHANGED fence
    /\ UNCHANGED <<runVars, meterVars, control, bounds>>

\* _process: the record again, now under the control lock.
Recheck(w) ==
    /\ At(w, "admit") /\ control = None
    /\ IF status[Run(w)] # "queued"
       THEN Return(w) /\ UNCHANGED control
       ELSE /\ control' = w
            /\ Go(w, IF Run(w) \in PilotRuns THEN "unsettled" ELSE "begin")
            /\ UNCHANGED fence
    /\ UNCHANGED <<runVars, meterVars, bounds>>

---------------------------------------------------------------------------
(* PilotAdmission.admit.                                                   *)

\* Mutant: the marker of an interrupted job is dropped uncharged.
ChargeUnsettled_Forgets(w) ==
    /\ At(w, "unsettled")
    /\ Go(w, IF Run(w) \in marker THEN "forget" ELSE "judge")
    /\ UNCHANGED <<runVars, meterVars, locks, bounds>>

\* _recover: the run was admitted before and never settled: the time since
\* then is charged ...
ChargeUnsettled(w) ==
    /\ At(w, "unsettled")
    /\ owed' = IF Run(w) \in marker THEN [owed EXCEPT ![Run(w)] = 0] ELSE owed
    /\ Go(w, IF Run(w) \in marker THEN "forget" ELSE "judge")
    /\ UNCHANGED <<runVars, marker, requests, jobs, locks, bounds>>

\* ... and its marker closed.
CloseUnsettled(w) ==
    /\ At(w, "forget")
    /\ marker' = marker \ {Run(w)}
    /\ Go(w, "judge")
    /\ UNCHANGED <<runVars, requests, jobs, owed, locks, bounds>>

\* registration_run_blockers: usage is unknown while any job of the program
\* is open, and exhausted at the budget.
Blocked == marker # {} \/ requests >= Budget

\* Mutant: the early return of a refused run keeps the control lock.
Judge_KeepsLock(w) ==
    /\ At(w, "judge")
    /\ IF Blocked
       THEN /\ Write(Run(w), "failed")
            /\ Return(w) /\ UNCHANGED <<requests, control>>
       ELSE /\ requests' = requests + 1
            /\ Go(w, "open")
            /\ UNCHANGED <<status, older, locks>>
    /\ UNCHANGED <<result, stopFile, marker, jobs, owed, bounds>>

\* A refused run fails; an admitted one is charged a request ...
Judge(w) ==
    /\ At(w, "judge")
    /\ IF Blocked
       THEN /\ Write(Run(w), "failed")
            /\ Return(w) /\ control' = None
            /\ UNCHANGED requests
       ELSE /\ requests' = requests + 1
            /\ Go(w, "open")
            /\ UNCHANGED <<status, older, locks>>
    /\ UNCHANGED <<result, stopFile, marker, jobs, owed, bounds>>

\* ... and gets a job marker before any compute.
OpenJob(w) ==
    /\ At(w, "open")
    /\ marker' = marker \cup {Run(w)}
    /\ Go(w, "begin")
    /\ UNCHANGED <<runVars, requests, jobs, owed, locks, bounds>>

\* An admission that raises refuses the run.
AdmissionRaises(w) ==
    /\ worker[w].at \in {"unsettled", "forget", "judge", "open"}
    /\ faults < MaxFaults /\ faults' = faults + 1
    /\ Write(Run(w), "failed")
    /\ Return(w) /\ control' = None
    /\ UNCHANGED <<result, stopFile, meterVars, controls, crashes>>

---------------------------------------------------------------------------
(* The computation and what becomes of it.                                 *)

Begin(w) ==
    /\ At(w, "begin")
    /\ Write(Run(w), "running")
    /\ control' = None
    /\ Go(w, "compute")
    /\ IF Run(w) \in PilotRuns
       THEN jobs' = jobs + 1 /\ owed' = [owed EXCEPT ![Run(w)] = @ + 1]
       ELSE UNCHANGED <<jobs, owed>>
    /\ UNCHANGED <<result, stopFile, marker, requests, fence, bounds>>

Compute(w) ==
    /\ At(w, "compute")
    /\ \E o \in Outcomes :
          worker' = [worker EXCEPT ![w].at = "publish", ![w].got = o]
    /\ UNCHANGED <<runVars, meterVars, locks, bounds>>

\* An engine raises; a campaign also when it meets its STOP file.  A failed
\* job is metered before its record is written.
ComputeRaises(w) ==
    /\ At(w, "compute")
    /\ \/ Halted(Run(w)) /\ UNCHANGED faults
       \/ faults < MaxFaults /\ faults' = faults + 1
    /\ Go(w, "charge")
    /\ UNCHANGED <<runVars, meterVars, locks, controls, crashes>>

\* Mutant: the control lock is dropped between result and record.
Publish_Unlocked(w) ==
    LET r == Run(w) IN
    /\ At(w, "publish") /\ control = None
    /\ IF Halted(r)
       THEN Write(r, "stopped") /\ Go(w, "charge") /\ UNCHANGED <<result, fence>>
       ELSE /\ UNCHANGED <<status, older>>
            /\ IF result[r] \in {None, worker[w].got}
               THEN /\ result' = [result EXCEPT ![r] = worker[w].got]
                    /\ Go(w, "complete") /\ UNCHANGED fence
               ELSE Return(w) /\ UNCHANGED result
    /\ UNCHANGED <<stopFile, meterVars, control, bounds>>

\* Success: under the control lock a stopped campaign is not published; a
\* result is put once, and another content under its key raises out of step,
\* with the record as it is.
Publish(w) ==
    LET r == Run(w) IN
    /\ At(w, "publish") /\ control = None
    /\ IF Halted(r)
       THEN /\ Write(r, "stopped") /\ Go(w, "charge")
            /\ UNCHANGED <<result, locks>>
       ELSE /\ UNCHANGED <<status, older>>
            /\ IF result[r] \in {None, worker[w].got}
               THEN /\ result' = [result EXCEPT ![r] = worker[w].got]
                    /\ control' = w
                    /\ Go(w, "complete") /\ UNCHANGED fence
               ELSE Return(w) /\ UNCHANGED <<result, control>>
    /\ UNCHANGED <<stopFile, meterVars, bounds>>

Complete(w) ==
    /\ At(w, "complete")
    /\ Write(Run(w), "completed")
    /\ control' = None
    /\ Go(w, "charge")
    /\ UNCHANGED <<result, stopFile, meterVars, fence, bounds>>

\* _settle: an admitted job's compute is charged ...
ChargeCompute(w) ==
    /\ At(w, "charge")
    /\ owed' = IF Run(w) \in marker THEN [owed EXCEPT ![Run(w)] = 0] ELSE owed
    /\ Go(w, "close")
    /\ UNCHANGED <<runVars, marker, requests, jobs, locks, bounds>>

\* ... and its marker closed; a failed job has its record still to come.
CloseJob(w) ==
    /\ At(w, "close")
    /\ marker' = marker \ {Run(w)}
    /\ IF worker[w].got = None THEN Go(w, "fail") /\ UNCHANGED fence ELSE Return(w)
    /\ UNCHANGED <<runVars, requests, jobs, owed, control, bounds>>

\* A settle that raises is logged: its marker stands.
SettleRaises(w) ==
    /\ worker[w].at \in {"charge", "close"} /\ Run(w) \in marker
    /\ faults < MaxFaults /\ faults' = faults + 1
    /\ IF worker[w].got = None THEN Go(w, "fail") /\ UNCHANGED fence ELSE Return(w)
    /\ UNCHANGED <<runVars, meterVars, control, controls, crashes>>

\* The record of a job that raised.
Fail(w) ==
    /\ At(w, "fail") /\ control = None
    /\ Write(Run(w), IF Halted(Run(w)) THEN "stopped" ELSE "failed")
    /\ Return(w)
    /\ UNCHANGED <<result, stopFile, meterVars, control, bounds>>

\* A worker dies; its flocks fall.
Die(w) ==
    /\ ~At(w, "idle") /\ crashes < MaxCrashes
    /\ crashes' = crashes + 1
    /\ Return(w)
    /\ control' = IF control = w THEN None ELSE control
    /\ UNCHANGED <<runVars, meterVars, controls, faults>>

---------------------------------------------------------------------------
Work(w) ==
    \/ TakeFence(w) \/ RecoverInterrupted(w) \/ ClaimNext(w) \/ Recheck(w)
    \/ ChargeUnsettled(w) \/ CloseUnsettled(w) \/ Judge(w) \/ OpenJob(w)
    \/ Begin(w) \/ Compute(w) \/ Publish(w) \/ Complete(w)
    \/ ChargeCompute(w) \/ CloseJob(w) \/ Fail(w)

Next ==
    \/ \E r \in Runs : Submit(r) \/ Stop(r) \/ StopDies(r) \/ Resume(r) \/ ResumeDies(r)
    \/ \E w \in Workers : \/ Work(w) \/ AdmissionRaises(w) \/ ComputeRaises(w)
                          \/ SettleRaises(w) \/ Die(w)

Spec == Init /\ [][Next]_vars

\* Some worker's loop always comes round to its next step: a process that
\* dies is started again, and a poll finds the fence free.
FairSpec == Spec /\ WF_vars(\E w \in Workers : Work(w))

---------------------------------------------------------------------------
(* Properties.                                                             *)

Labels == {"idle", "recover", "claim", "admit", "unsettled", "forget", "judge",
           "open", "begin", "compute", "publish", "complete", "charge", "close",
           "fail"}

\* The records stand in one order, the order of their last writes.
Ordered ==
    /\ \A r \in Runs : /\ r \notin older[r] /\ older[r] \subseteq Filed
                       /\ status[r] = "none" => older[r] = {}
    /\ \A r \in Runs : \A s \in older[r] : older[s] \subseteq older[r]
    /\ \A r, s \in Filed : r = s \/ r \in older[s] \/ s \in older[r]

\* The two locks: only the worker past the fence is not idle, and it holds the
\* control lock during admission and while it publishes.
Fenced ==
    \A w \in Workers :
        /\ (fence = w) <=> ~At(w, "idle")
        /\ (control = w) <=> worker[w].at \in {"unsettled", "forget", "judge", "open",
                                               "begin", "complete"}

\* Types, the order of the records, and who holds which lock.
TypeOK ==
    /\ status \in [Runs -> {"none", "queued"} \cup Active \cup Ended]
    /\ older \in [Runs -> SUBSET Runs] /\ Ordered
    /\ result \in [Runs -> Outcomes \cup {None}]
    /\ stopFile \subseteq QuantRuns /\ marker \subseteq PilotRuns
    /\ requests \in 0..Budget /\ jobs \in Nat /\ owed \in [Runs -> Nat]
    /\ worker \in [Workers -> [at : Labels, run : Runs \cup {None},
                               got : Outcomes \cup {None}]]
    /\ Fenced

\* _recover_interrupted and set_stopped: while a worker computes or publishes
\* a run, its record says running or stopping: nobody queues it again.
ComputingIsActive ==
    \A w \in Workers :
        worker[w].at \in {"compute", "publish", "complete"} => status[Run(w)] \in Active

\* set_stopped: once a stop is on file no run completes under it, whenever
\* it came.
StopIsHonoured ==
    [][\A r \in QuantRuns : r \in stopFile /\ status'[r] = "completed"
                               => status[r] = "completed"]_vars

\* PilotAdmission: "a crash can over-count but never hide work".  Every job
\* was charged a request, and a job whose compute is not charged has its
\* marker, so that the program's usage is unknown until it is.
WorkIsMetered ==
    /\ jobs <= requests
    /\ \A r \in PilotRuns : owed[r] > 0 => r \in marker

\* A result that a death kept from its record: the run is computed again, and
\* ends only if the engine produces the same content.
Stranded(r) == result[r] # None /\ status[r] # "completed"

\* step: every queued run ends, through deaths, refusals, stops and resumes,
\* unless it is stranded.
EveryRunEnds ==
    \A r \in Runs : status[r] = "queued" ~> (status[r] \in Ended \/ Stranded(r))
=============================================================================
