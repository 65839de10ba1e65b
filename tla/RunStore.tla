------------------------------ MODULE RunStore ------------------------------
(***************************************************************************)
(* The durable store of one campaign run: runstate/store.py, journal.py,   *)
(* lease.py and the extent rules of custody.py, driven by the programs     *)
(* scripts/runstate_mark.py (create, transition, pin), era_status.py       *)
(* (status) and launch_bars_era.py (launch).                               *)
(*                                                                         *)
(* Each step of a process is what it does to the directory between two     *)
(* points where another process, a kill or a power failure can come in.    *)
(* A hash chain is a sequence of records: two chains have one tail hash    *)
(* exactly when the sequences are equal.  Sizes are counted in records.    *)
(***************************************************************************)
EXTENDS RunStates

CONSTANTS Procs,        \* pids of the programs that touch the store
          Targets,      \* states a mark asks for
          Starts,       \* histories of the store before the first step
          MaxPrograms,  \* bound on the programs that are started
          MaxCrashes    \* bound on kills and power failures together

ASSUME NoneAssumption ==
    /\ None \notin Procs /\ None \notin Nat
    /\ None \notin [pid : Procs, ticks : Nat, boot : Nat]
ASSUME RecordsAssumption ==
    /\ Targets \subseteq RunStates
    /\ Manifests \cap (RunStates \cup {"create", "status", "launch"}) = {}
    /\ None \notin Records \cup {"create", "status", "launch"}
ASSUME StartsAssumption == \A h \in Starts : h \in Seq(Records) /\ LegalHistory(h)
ASSUME BoundsAssumption == {MaxPrograms, MaxCrashes} \subseteq Nat

VARIABLES
    store,       \* the directory: "absent", "made" (no run.json) or "ready"
    journal,     \* the records of journal.jsonl that decode and chain
    tail,        \* what follows them: "clean", "bare" (the last record has no
                 \* newline yet) or "torn" (a line that does not decode)
    binding,     \* the committed extent of the companion file, or None
    projection,  \* the view current.json was written from, or None
    lease,       \* lease/owner.json: the owner it names, or None
    consumed,    \* the bars ledger has a CONSUMED record of the work manifest
    leaseLock, journalLock,   \* who holds the two flocks, or None
    proc,        \* what each process is doing
    boot, ticks, started, kills,
    alarms,      \* history: the corruptions that were reported
    runners      \* history: how often a bars runner was started

disk == <<store, journal, tail, binding, projection, lease, consumed>>
locks == <<leaseLock, journalLock>>
env == <<boot, ticks, started, kills, alarms, runners>>
vars == <<disk, locks, proc, env>>

Ops == {"create", "status", "launch"} \cup Targets \cup Manifests

\* A pid, its start ticks and the boot it was started in.
Owner(p) == [pid |-> p, ticks |-> ticks[p], boot |-> boot]

\* The scripts take the lease, a mark that is told to adopts a stale one; a
\* caller of RunStore needs none.
Modes == {"lease", "adopt", "direct"}

\* A program: its command, how it treats the lease, the step it is at, which
\* replay it is in, and what it has read or is about to write.
Off == [op |-> None, mode |-> "direct", at |-> "off", stage |-> "open",
        seen |-> None, view |-> <<>>, record |-> None, owner |-> None]

Init ==
    /\ \E h \in Starts :
          /\ journal = h
          /\ store = IF h = <<>> THEN "absent" ELSE "ready"
          /\ binding = IF h = <<>> THEN None ELSE Len(h)
          /\ projection = IF h = <<>> THEN None ELSE h
    /\ tail = "clean" /\ lease = None /\ consumed = FALSE
    /\ leaseLock = None /\ journalLock = None
    /\ proc = [p \in Procs |-> Off]
    /\ boot = 0 /\ ticks = [p \in Procs |-> 0] /\ started = 0 /\ kills = 0
    /\ alarms = {} /\ runners = 0

---------------------------------------------------------------------------
(* Programs.                                                               *)

At(p, label) == proc[p].at = label
Become(p, new) == proc' = [proc EXCEPT ![p] = IF new.at = "off" THEN Off ELSE new]
Go(p, label) == Become(p, [proc[p] EXCEPT !.at = label])

\* A mark takes the lease before it writes and releases it in the end; a
\* launch takes it and keeps it for its process's life.
TakesLease(p) == proc[p].mode # "direct"
Exit(p) == IF TakesLease(p) /\ proc[p].stage # "open" /\ proc[p].op # "launch"
           THEN "release" ELSE "off"

\* A call raises: the program ends.
Refuse(p) == Go(p, Exit(p))
Alarm(p, what) == Refuse(p) /\ alarms' = alarms \cup {what}

\* main: create goes to the directory, every other command opens the store,
\* which needs run.json.
Start(p, op, mode) ==
    /\ At(p, "off") /\ started < MaxPrograms
    /\ op = "create" \/ store = "ready"
    /\ op \in {"create", "status"} => mode = "direct"
    /\ op = "launch" => mode = "lease"
    /\ started' = started + 1
    /\ ticks' = [ticks EXCEPT ![p] = @ + 1]
    /\ Become(p, [Off EXCEPT !.op = op, !.mode = mode,
                             !.at = IF op = "create" THEN "mkdir" ELSE "load"])
    /\ UNCHANGED <<disk, locks, boot, kills, alarms, runners>>

\* RunStore.create: the exclusive mkdir ...
MakeDirectory(p) ==
    /\ At(p, "mkdir")
    /\ IF store = "absent" THEN store' = "made" /\ Go(p, "identity")
                           ELSE store' = store /\ Refuse(p)
    /\ UNCHANGED <<journal, tail, binding, projection, lease, consumed, locks, env>>

\* ... and run.json; the GENESIS record goes through append_record.
WriteIdentity(p) ==
    /\ At(p, "identity")
    /\ store' = "ready"
    /\ Become(p, [proc[p] EXCEPT !.record = "PLANNED", !.at = "append"])
    /\ UNCHANGED <<journal, tail, binding, projection, lease, consumed, locks, env>>

---------------------------------------------------------------------------
(* replay, without a lock.                                                 *)

\* The companion is loaded before the journal is read.
LoadBinding(p) ==
    /\ At(p, "load")
    /\ Become(p, [proc[p] EXCEPT !.seen = binding, !.at = "read"])
    /\ UNCHANGED <<disk, locks, env>>

HasBytes == journal # <<>> \/ tail # "clean"

\* What the process does with the view: RunStore.open only looks, and a
\* caller without the lease goes straight on to transition or pin_manifest.
AfterReplay(p) ==
    IF proc[p].op = "status" THEN "off"
    ELSE CASE proc[p].stage = "open" ->
                 IF proc[p].op = "launch" THEN "preflight"
                 ELSE IF TakesLease(p) THEN "lock" ELSE "load"
           [] proc[p].stage = "before" -> "decide"
           [] proc[p].stage = "after" -> "project"

\* A journal with bytes and no binding is refused, and so is one shorter
\* than its committed extent.
ExtentVerdict(extent) ==
    IF extent = None
    THEN IF HasBytes THEN "unbound" ELSE "ok"
    ELSE IF Len(journal) < extent THEN "rolled_back" ELSE "ok"

\* A torn tail is left out of the view.
ReadJournal(p) ==
    /\ At(p, "read")
    /\ LET verdict == ExtentVerdict(proc[p].seen)
       IN  IF verdict # "ok" THEN Alarm(p, verdict)
           ELSE /\ Become(p, [proc[p] EXCEPT
                                 !.view = journal, !.at = AfterReplay(p),
                                 !.stage = IF @ = "open" /\ ~TakesLease(p)
                                           THEN "before" ELSE @])
                /\ UNCHANGED alarms
    /\ UNCHANGED <<disk, locks, boot, ticks, started, kills, runners>>

---------------------------------------------------------------------------
(* The lease.                                                              *)

\* run_execute's checks before it takes the lease: the state, no lease file,
\* no CONSUMED record.  All three may be stale when the lease is taken.
Preflight(p) ==
    /\ At(p, "preflight")
    /\ Go(p, IF StateOf(proc[p].view) = "BARS_READY" /\ lease = None /\ ~consumed
             THEN "lock" ELSE "off")
    /\ UNCHANGED <<disk, locks, env>>

\* acquire: the flock on adopt.lock comes before the first look.
LockLease(p) ==
    /\ At(p, "lock") /\ leaseLock = None
    /\ leaseLock' = p
    /\ Go(p, "classify")
    /\ UNCHANGED <<disk, journalLock, env>>

\* _classify_owner: HELD, or stale because the boot changed, the pid is
\* dead, or the pid stands for another program.
Held(owner) ==
    /\ owner.boot = boot
    /\ ~At(owner.pid, "off")
    /\ ticks[owner.pid] = owner.ticks

\* Mutant: a mark told to adopt does not ask whether the owner is alive.
MayTake_Held(p) == lease = None \/ proc[p].mode = "adopt"

MayTake(p) == lease = None \/ (~Held(lease) /\ proc[p].mode = "adopt")

\* Mutant: a refusal keeps the flock.
Classify_KeepsLock(p) ==
    /\ At(p, "classify")
    /\ IF MayTake(p)
       THEN Become(p, [proc[p] EXCEPT !.owner = lease, !.at = "publish"])
       ELSE Refuse(p)
    /\ UNCHANGED <<disk, locks, env>>

Classify(p) ==
    /\ At(p, "classify")
    /\ IF MayTake(p)
       THEN /\ Become(p, [proc[p] EXCEPT !.owner = lease, !.at = "publish"])
            /\ UNCHANGED leaseLock
       ELSE leaseLock' = None /\ Refuse(p)
    /\ UNCHANGED <<disk, journalLock, env>>

\* The exclusive create, or the replace of exactly the owner classified.
Publish(p) ==
    /\ At(p, "publish")
    /\ leaseLock' = None
    /\ IF lease = proc[p].owner
       THEN /\ lease' = Owner(p)
            /\ Become(p, [proc[p] EXCEPT !.stage = "before", !.owner = None,
                            !.at = IF proc[p].op = "launch" THEN "consume" ELSE "load"])
       ELSE UNCHANGED lease /\ Refuse(p)
    /\ UNCHANGED <<store, journal, tail, binding, projection, consumed, journalLock, env>>

\* Mutant: only the scan before the lease looks for a CONSUMED record.
Consume_Unguarded(p) ==
    /\ At(p, "consume")
    /\ consumed' = TRUE
    /\ Go(p, "load")
    /\ UNCHANGED <<store, journal, tail, binding, projection, lease, locks, env>>

\* append_bars_launch_consumed, under the ledger's own lock: refused when
\* the work manifest is consumed, and then the lease is released.
Consume(p) ==
    /\ At(p, "consume")
    /\ consumed' = TRUE
    /\ Go(p, IF consumed THEN "release" ELSE "load")
    /\ UNCHANGED <<store, journal, tail, binding, projection, lease, locks, env>>

\* A launcher of another run store spends the same work manifest.
ConsumedElsewhere ==
    /\ ~consumed
    /\ consumed' = TRUE
    /\ runners' = runners + 1
    /\ UNCHANGED <<store, journal, tail, binding, projection, lease, locks, proc,
                   boot, ticks, started, kills, alarms>>

\* release: under the same flock, and only while the file names this owner.
LockRelease(p) ==
    /\ At(p, "release") /\ leaseLock = None
    /\ leaseLock' = p
    /\ Go(p, "unlink")
    /\ UNCHANGED <<disk, journalLock, env>>

Unlink(p) ==
    /\ At(p, "unlink")
    /\ lease' = IF lease = Owner(p) THEN None ELSE lease
    /\ leaseLock' = None
    /\ Go(p, "off")
    /\ UNCHANGED <<store, journal, tail, binding, projection, consumed, journalLock, env>>

---------------------------------------------------------------------------
(* transition, pin_manifest and append_record.                             *)

Target(p) == IF proc[p].op = "launch" THEN "BARS_CAPTURING" ELSE proc[p].op

\* A legal edge from the replayed state, or a manifest where none is pinned
\* (pinning the pinned one again returns at once).
Permitted(p) ==
    IF Target(p) \in Manifests THEN PinOf(proc[p].view) = None
    ELSE /\ StateOf(proc[p].view) # None
         /\ IsLegal(StateOf(proc[p].view), Target(p))

Decide(p) ==
    /\ At(p, "decide")
    /\ IF Permitted(p)
       THEN Become(p, [proc[p] EXCEPT !.record = Target(p), !.at = "append"])
       ELSE Refuse(p)
    /\ UNCHANGED <<disk, locks, env>>

\* The flock on the journal, then the companion: an empty journal is bound
\* to the empty extent, a journal with bytes must have one.
LockJournal(p) ==
    /\ At(p, "append") /\ journalLock = None
    /\ IF binding = None /\ HasBytes
       THEN Alarm(p, "unbound") /\ UNCHANGED <<binding, journalLock>>
       ELSE /\ journalLock' = p
            /\ binding' = IF binding = None THEN 0 ELSE binding
            /\ Go(p, "check")
            /\ UNCHANGED alarms
    /\ UNCHANGED <<store, journal, tail, projection, lease, consumed, leaseLock,
                   boot, ticks, started, kills, runners>>

\* Mutant: the caller's previous hash is not compared with the locked tail.
TailMatches_Blind(p) == tail # "torn"

\* The re-read tail must be whole and be the tail of the caller's view.
TailMatches(p) == tail # "torn" /\ journal = proc[p].view

\* Mutant: write_projection before the append.
CheckTail_ProjectsFirst(p) ==
    /\ At(p, "check")
    /\ IF TailMatches(p) /\ ExtentVerdict(binding) = "ok"
       THEN /\ projection' = Append(proc[p].view, proc[p].record)
            /\ Go(p, "write")
            /\ UNCHANGED journalLock
       ELSE UNCHANGED projection /\ journalLock' = None /\ Refuse(p)
    /\ UNCHANGED <<store, journal, tail, binding, lease, consumed, leaseLock, env>>

CheckTail(p) ==
    /\ At(p, "check")
    /\ IF TailMatches(p) /\ ExtentVerdict(binding) = "ok"
       THEN Go(p, "write") /\ UNCHANGED <<journalLock, alarms>>
       ELSE /\ journalLock' = None
            /\ IF TailMatches(p) THEN Alarm(p, "rolled_back")
                                 ELSE Refuse(p) /\ UNCHANGED alarms
    /\ UNCHANGED <<disk, leaseLock, boot, ticks, started, kills, runners>>

\* The first bytes of the line: they join a last line that has no newline.
WriteSome(p) ==
    /\ At(p, "write")
    /\ tail' = "torn"
    /\ journal' = IF tail = "bare" THEN Front(journal) ELSE journal
    /\ Go(p, IF tail = "bare" THEN "joined" ELSE "line")
    /\ UNCHANGED <<store, binding, projection, lease, consumed, locks, env>>

\* Mutant: the extent is advanced before the record is whole and synced.
WriteLine_Commits(p) ==
    /\ At(p, "line")
    /\ journal' = Append(journal, proc[p].record)
    /\ tail' = "bare"
    /\ binding' = Len(journal) + 1
    /\ Go(p, "newline")
    /\ UNCHANGED <<store, projection, lease, consumed, locks, env>>

\* The rest of it, up to the newline ...
WriteLine(p) ==
    /\ At(p, "line")
    /\ journal' = Append(journal, proc[p].record)
    /\ tail' = "bare"
    /\ Go(p, "newline")
    /\ UNCHANGED <<store, binding, projection, lease, consumed, locks, env>>

\* ... or a line that holds two records and decodes as none, which the check
\* after the fsync finds.
WriteJoined(p) ==
    /\ At(p, "joined")
    /\ journalLock' = None
    /\ Alarm(p, "spoiled")
    /\ UNCHANGED <<disk, leaseLock, boot, ticks, started, kills, runners>>

WriteNewline(p) ==
    /\ At(p, "newline")
    /\ tail' = "clean"
    /\ Go(p, "sync")
    /\ UNCHANGED <<store, journal, binding, projection, lease, consumed, locks, env>>

Fsync(p) ==
    /\ At(p, "sync")
    /\ Go(p, "advance")
    /\ UNCHANGED <<disk, locks, env>>

\* advance_name_binding_extent is the last act under the flock; the journal
\* is then replayed again for the projection.
AdvanceExtent(p) ==
    /\ At(p, "advance")
    /\ binding' = Len(journal)
    /\ journalLock' = None
    /\ Become(p, [proc[p] EXCEPT !.stage = "after", !.record = None, !.at = "load"])
    /\ UNCHANGED <<store, journal, tail, projection, lease, consumed, leaseLock, env>>

\* write_projection: an atomic replace.  A launch then runs its runner.
Project(p) ==
    /\ At(p, "project")
    /\ projection' = proc[p].view
    /\ LET launched == proc[p].op = "launch"
       IN  /\ Go(p, IF launched THEN "running" ELSE Exit(p))
           /\ runners' = IF launched THEN runners + 1 ELSE runners
    /\ UNCHANGED <<store, journal, tail, binding, lease, consumed, locks,
                   boot, ticks, started, kills, alarms>>

RunnerEnds(p) ==
    /\ At(p, "running")
    /\ Go(p, "off")
    /\ UNCHANGED <<disk, locks, env>>

---------------------------------------------------------------------------
(* Kills and power failures.                                               *)

\* The kernel drops a dead process's flocks; what it wrote stays.
Kill(p) ==
    /\ ~At(p, "off") /\ kills + boot < MaxCrashes
    /\ kills' = kills + 1
    /\ Go(p, "off")
    /\ leaseLock' = IF leaseLock = p THEN None ELSE leaseLock
    /\ journalLock' = IF journalLock = p THEN None ELSE journalLock
    /\ UNCHANGED <<disk, boot, ticks, started, alarms, runners>>

\* Bytes that were not synced may be lost, all of them or the last ones.
Unsynced == \E p \in Procs : proc[p].at \in {"newline", "sync"}

PowerFails ==
    /\ kills + boot < MaxCrashes
    /\ boot' = boot + 1
    /\ ticks' = [p \in Procs |-> 0]
    /\ proc' = [p \in Procs |-> Off]
    /\ leaseLock' = None /\ journalLock' = None
    /\ \/ UNCHANGED <<journal, tail>>
       \/ Unsynced /\ journal' = Front(journal) /\ tail' \in {"clean", "torn"}
       \/ Unsynced /\ journal' = journal /\ tail' = "bare"
    /\ UNCHANGED <<store, binding, projection, lease, consumed, started, kills,
                   alarms, runners>>

---------------------------------------------------------------------------
Step(p) ==
    \/ MakeDirectory(p) \/ WriteIdentity(p) \/ LoadBinding(p) \/ ReadJournal(p)
    \/ Preflight(p) \/ LockLease(p) \/ Classify(p) \/ Publish(p) \/ Consume(p)
    \/ LockRelease(p) \/ Unlink(p)
    \/ Decide(p) \/ LockJournal(p) \/ CheckTail(p)
    \/ WriteSome(p) \/ WriteLine(p) \/ WriteJoined(p) \/ WriteNewline(p) \/ Fsync(p)
    \/ AdvanceExtent(p) \/ Project(p) \/ RunnerEnds(p)

Next ==
    \/ \E p \in Procs, op \in Ops, mode \in Modes : Start(p, op, mode)
    \/ \E p \in Procs : Step(p) \/ Kill(p)
    \/ ConsumedElsewhere
    \/ PowerFails

Spec == Init /\ [][Next]_vars

---------------------------------------------------------------------------
(* Properties.                                                             *)

Labels == {"off", "mkdir", "identity", "load", "read", "preflight", "lock",
           "classify", "publish", "consume", "release", "unlink", "decide",
           "append", "check", "write", "line", "joined", "newline", "sync",
           "advance", "project", "running"}
Owners == [pid : Procs, ticks : 0..MaxPrograms, boot : 0..MaxCrashes]
Programs == [op : Ops \cup {None}, mode : Modes, at : Labels,
             stage : {"open", "before", "after"}, seen : Nat \cup {None},
             view : Seq(Records), record : Records \cup {None},
             owner : Owners \cup {None}]

DiskTypeOK ==
    /\ store \in {"absent", "made", "ready"}
    /\ journal \in Seq(Records)
    /\ tail \in {"clean", "bare", "torn"}
    /\ binding \in Nat \cup {None}
    /\ projection \in Seq(Records) \cup {None}
    /\ lease \in Owners \cup {None}
    /\ consumed \in BOOLEAN

EnvTypeOK ==
    /\ boot \in 0..MaxCrashes /\ ticks \in [Procs -> 0..MaxPrograms]
    /\ started \in 0..MaxPrograms /\ kills \in 0..MaxCrashes /\ runners \in Nat
    /\ alarms \subseteq {"unbound", "rolled_back", "spoiled"}

\* append_record holds the journal's flock from its check to its last act,
\* acquire and release hold the lease's.
LeaseSteps == {"classify", "publish", "unlink"}
JournalSteps == {"check", "write", "line", "joined", "newline", "sync", "advance"}
Flocks ==
    \A p \in Procs : /\ (leaseLock = p) <=> proc[p].at \in LeaseSteps
                     /\ (journalLock = p) <=> proc[p].at \in JournalSteps

\* Types, and who holds which flock.
TypeOK == DiskTypeOK /\ EnvTypeOK /\ proc \in [Procs -> Programs] /\ Flocks

\* lease.acquire: a program that has taken the lease and still runs is the
\* one the lease file names, so two launchers never both hold it, whatever
\* died, was adopted or was released meanwhile.
HolderIsNamed ==
    \A p \in Procs :
        TakesLease(p) /\ ~At(p, "off") /\ proc[p].stage # "open" => lease = Owner(p)

\* journal.replay and append_record: without damage from outside, no
\* interleaving and no crash makes the committed extent exceed the journal,
\* so nobody reports a rollback.
NeverRolledBack ==
    /\ "rolled_back" \notin alarms
    /\ binding # None => Len(journal) >= binding

\* append_record and check_committed_extent: the records within the
\* committed extent are a legal history of the run that only grows, with
\* concurrent writers, torn lines, kills and power failures.
Log == INSTANCE RunLog WITH
          history <- IF binding = None THEN <<>> ELSE SubSeq(journal, 1, binding)
ImplementsLog == Log!Spec

\* write_projection: current.json shows a past or the present of the journal,
\* never a state the journal does not hold, unless a crash in the middle of a
\* line left one that a later write spoiled or a power failure took.
ProjectionIsPast ==
    projection # None /\ tail # "torn" /\ boot = 0 => IsPrefix(projection, journal)

\* run_execute: the runner of a work manifest is started at most once, also
\* when a launcher of another store races it or a launcher dies between the
\* CONSUMED record and its transition.
RunnerOnce == runners <= 1
=============================================================================
