--------------------------- MODULE RunStore_proof ---------------------------
(***************************************************************************)
(* Theorems about RunStore for any number of programs, histories, kills    *)
(* and power failures: types and flocks, the lease, the runner, the extent,*)
(* the projection, and the refinement of RunLog.                           *)
(***************************************************************************)
EXTENDS RunStore, SequenceTheorems, TLAPS

USE NoneAssumption, RecordsAssumption, StartsAssumption, BoundsAssumption

---------------------------------------------------------------------------
(* The inductive invariant, part by part.                                  *)

Deciding == {"decide", "append", "project"} \cup JournalSteps

\* Which command may be at which step: only create makes the directory,
\* status stops at the end of its replay, and a program that takes the lease
\* decides, writes and projects only after it has taken it.
CourseOf(n) ==
    /\ n.op = "launch" => n.mode = "lease"
    /\ n.at \in {"mkdir", "identity"} => n.mode = "direct" /\ n.op # "launch"
    /\ n.at \in {"load", "read"} /\ n.stage # "after" => n.op # "create"
    /\ n.at # "off" => n.op # None
    /\ n.at \in {"preflight", "lock", "classify", "publish", "consume", "decide"}
          => n.op \in Targets \cup Manifests \cup {"launch"}
    /\ n.mode # "direct" /\ n.at \in Deciding => n.stage # "open"
    /\ n.at \in {"append", "check", "write", "line"} => n.record \in Records

Course == \A p \in Procs : CourseOf(proc[p]) /\ ticks[p] <= started

\* The lease file is not from the future, and the lease a program is about to
\* replace is the one it classified and nobody holds it.
LeaseKnown ==
    /\ lease # None => /\ lease.boot <= boot
                       /\ lease.boot = boot => lease.ticks <= ticks[lease.pid]
    /\ \A p \in Procs : At(p, "publish") => /\ lease = proc[p].owner
                                            /\ lease = None \/ ~Held(lease)

\* A launch between its CONSUMED record and its runner.
Launching(p) ==
    /\ proc[p].op = "launch" /\ proc[p].stage # "open"
    /\ proc[p].at \notin {"off", "consume", "release", "unlink", "running"}

\* The CONSUMED record comes first, and whoever wrote it is the only one that
\* may still start a runner.
Spent ==
    /\ runners <= 1
    /\ ~consumed => runners = 0
    /\ \A p \in Procs : Launching(p) => consumed /\ runners = 0
    /\ \A p, q \in Procs : Launching(p) /\ Launching(q) => p = q

\* The journal under its flock: legal, at least as long as the extent, with
\* one more record while it is written, and what follows it as it was left.
KeptOf(p) ==
    /\ proc[p].at \in {"mkdir", "identity"} => proc[p].view = <<>>
    /\ At(p, "read") /\ proc[p].seen # None => binding # None /\ proc[p].seen <= binding
    /\ proc[p].at \in {"append", "check", "write", "line"}
          => MayFollow(proc[p].view, proc[p].record)
    /\ proc[p].at \in JournalSteps => binding # None
    /\ proc[p].at \in {"write", "line"} => journal = proc[p].view
    /\ At(p, "write") => tail # "torn"
    /\ At(p, "line") => tail = "torn"
    /\ proc[p].at \in {"newline", "sync", "advance"} => binding < Len(journal)
    /\ At(p, "newline") => tail = "bare"
    /\ proc[p].at \in {"sync", "advance"} => tail = "clean"

Kept ==
    /\ LegalHistory(journal)
    /\ binding # None => binding <= Len(journal)
    /\ tail = "bare" => binding # None /\ binding < Len(journal)
    /\ \A p \in Procs : KeptOf(p)
    /\ "rolled_back" \notin alarms

\* Nothing was spoiled: the line being written may be torn, no other.
Whole == boot = 0 /\ (tail = "torn" => \E p \in Procs : At(p, "line"))

\* A view that is projected, and the projection, are prefixes of the journal.
Projected ==
    Whole => /\ projection # None => IsPrefix(projection, journal)
             /\ \A p \in Procs : At(p, "project") => IsPrefix(proc[p].view, journal)

TypeInv == TypeOK /\ Course
IInv == /\ TypeInv
        /\ LeaseKnown /\ HolderIsNamed
        /\ Spent
        /\ Kept /\ Projected

---------------------------------------------------------------------------
(* Moving one program.                                                     *)

\* The words of the commands are no states, manifests or None.
LEMMA CommandsApart ==
    /\ \A c \in {"create", "status", "launch"} : c \notin Targets \cup Manifests
    /\ None \notin Targets \cup Manifests
    /\ {"PLANNED", "BARS_CAPTURING"} \subseteq Records
    /\ "PLANNED" \notin Manifests
<1>1. \A k \in 1..15 : StateOrder[k] \notin {"create", "status", "launch"}
  BY SMTT(30) DEF StateOrder
<1>2. DOMAIN StateOrder = 1..15
  BY DEF StateOrder
<1>3. \A c \in {"create", "status", "launch"} : c \notin RunStates
  BY <1>1, <1>2 DEF RunStates
<1>4. StateOrder[1] = "PLANNED" /\ StateOrder[10] = "BARS_CAPTURING"
  BY DEF StateOrder
<1> QED BY <1>2, <1>3, <1>4 DEF Records, RunStates

LEMMA OffFacts ==
    /\ Off \in Programs /\ CourseOf(Off)
    /\ Off.at = "off" /\ Off.op = None /\ Off.mode = "direct" /\ Off.stage = "open"
    /\ Off.view = <<>>
<1>1. <<>> \in Seq(Records)
  OBVIOUS
<1>2. /\ Off \in Programs
      /\ Off.at = "off" /\ Off.op = None /\ Off.mode = "direct" /\ Off.stage = "open"
      /\ Off.view = <<>>
  BY <1>1 DEF Off, Programs, Modes, Labels
<1> QED BY <1>2 DEF CourseOf, Deciding, JournalSteps

\* The program of p becomes n.
LEMMA BecomeFacts ==
    ASSUME proc \in [Procs -> Programs], NEW p \in Procs, NEW n \in Programs, Become(p, n)
    PROVE  /\ proc' \in [Procs -> Programs]
           /\ \A q \in Procs \ {p} : proc'[q] = proc[q]
           /\ proc'[p].at = n.at
           /\ n.at = "off" => proc'[p] = Off
           /\ n.at # "off" => proc'[p] = n
<1>1. n.at = "off" => proc' = [proc EXCEPT ![p] = Off]
  BY DEF Become
<1>2. n.at # "off" => proc' = [proc EXCEPT ![p] = n]
  BY DEF Become
<1> QED BY <1>1, <1>2, OffFacts

LEMMA AtFacts ==
    ASSUME NEW P \in Programs, NEW l \in Labels
    PROVE  LET n == [P EXCEPT !.at = l]
           IN  /\ n \in Programs /\ n.at = l
               /\ n.op = P.op /\ n.mode = P.mode /\ n.stage = P.stage /\ n.seen = P.seen
               /\ n.view = P.view /\ n.record = P.record /\ n.owner = P.owner
  BY DEF Programs

\* A step to another label leaves the rest of the program alone.
LEMMA GoFacts ==
    ASSUME proc \in [Procs -> Programs], NEW p \in Procs, NEW l \in Labels, Go(p, l)
    PROVE  /\ proc' \in [Procs -> Programs]
           /\ \A q \in Procs \ {p} : proc'[q] = proc[q]
           /\ proc'[p].at = l
           /\ l = "off" => proc'[p] = Off
           /\ l # "off" => /\ proc'[p].op = proc[p].op /\ proc'[p].mode = proc[p].mode
                           /\ proc'[p].stage = proc[p].stage /\ proc'[p].seen = proc[p].seen
                           /\ proc'[p].view = proc[p].view
                           /\ proc'[p].record = proc[p].record
                           /\ proc'[p].owner = proc[p].owner
<1> DEFINE n == [proc[p] EXCEPT !.at = l]
<1>1. proc[p] \in Programs
  OBVIOUS
<1>2. /\ n \in Programs /\ n.at = l
      /\ n.op = proc[p].op /\ n.mode = proc[p].mode /\ n.stage = proc[p].stage
      /\ n.seen = proc[p].seen /\ n.view = proc[p].view /\ n.record = proc[p].record
      /\ n.owner = proc[p].owner
  BY <1>1, AtFacts, ZenonT(60)
<1>3. Become(p, n)
  BY DEF Go
<1> HIDE DEF n
<1>4. /\ proc' \in [Procs -> Programs]
      /\ \A q \in Procs \ {p} : proc'[q] = proc[q]
      /\ n.at = "off" => proc'[p] = Off
      /\ n.at # "off" => proc'[p] = n
  BY <1>2, <1>3, BecomeFacts
<1>5. CASE l = "off"
  BY <1>2, <1>4, <1>5, OffFacts
<1>6. CASE l # "off"
  BY <1>2, <1>4, <1>6
<1> QED BY <1>4, <1>5, <1>6

---------------------------------------------------------------------------
(* What each step does to its program.                                     *)

Others(p) == \A q \in Procs \ {p} : proc'[q] = proc[q]
SameTask(p) ==
    /\ proc'[p].op = proc[p].op /\ proc'[p].mode = proc[p].mode

LEMMA StartMove ==
    ASSUME TypeOK, NEW p \in Procs, NEW op \in Ops, NEW mode \in Modes, Start(p, op, mode)
    PROVE  /\ proc' \in [Procs -> Programs] /\ Others(p)
           /\ proc'[p].at = IF op = "create" THEN "mkdir" ELSE "load"
           /\ proc'[p].op = op /\ proc'[p].mode = mode /\ proc'[p].stage = "open"
           /\ proc'[p].view = <<>>
<1> DEFINE l == IF op = "create" THEN "mkdir" ELSE "load"
           n == [Off EXCEPT !.op = op, !.mode = mode, !.at = l]
<1>1. l \in Labels /\ l # "off"
  BY DEF Labels
<1>2. Become(p, n)
  BY DEF Start
<1>3. /\ n \in Programs /\ n.at = l /\ n.op = op /\ n.mode = mode /\ n.stage = "open"
      /\ n.view = <<>>
  <2> HIDE DEF l
  <2> QED BY <1>1, OffFacts DEF Programs
<1> HIDE DEF n
<1>4. proc' \in [Procs -> Programs] /\ Others(p) /\ proc'[p] = n
  <2> HIDE DEF l
  <2> QED BY <1>1, <1>2, <1>3, BecomeFacts DEF TypeOK, Others
<1> QED BY <1>3, <1>4

LEMMA LoadMove ==
    ASSUME TypeOK, NEW p \in Procs, LoadBinding(p)
    PROVE  /\ proc' \in [Procs -> Programs] /\ Others(p) /\ SameTask(p)
           /\ proc'[p].at = "read" /\ proc'[p].seen = binding
           /\ proc'[p].stage = proc[p].stage
<1> DEFINE n == [proc[p] EXCEPT !.seen = binding, !.at = "read"]
<1>1. "read" \in Labels /\ binding \in Nat \cup {None} /\ proc[p] \in Programs
  BY DEF Labels, TypeOK, DiskTypeOK
<1>2. /\ n \in Programs /\ n.at = "read" /\ n.seen = binding
      /\ n.op = proc[p].op /\ n.mode = proc[p].mode /\ n.stage = proc[p].stage
  BY <1>1 DEF Programs
<1>3. Become(p, n)
  BY DEF LoadBinding
<1> HIDE DEF n
<1> QED BY <1>2, <1>3, BecomeFacts DEF TypeOK, Others, SameTask

\* replay ends in an alarm or in a view.
LEMMA ReadMove ==
    ASSUME TypeOK, NEW p \in Procs, ReadJournal(p), ExtentVerdict(proc[p].seen) = "ok",
           AfterReplay(p) \in Labels
    PROVE  /\ proc' \in [Procs -> Programs] /\ Others(p)
           /\ proc'[p].at = AfterReplay(p)
           /\ AfterReplay(p) # "off" =>
                 /\ SameTask(p) /\ proc'[p].view = journal
                 /\ proc'[p].stage = IF proc[p].stage = "open" /\ ~TakesLease(p)
                                     THEN "before" ELSE proc[p].stage
           /\ AfterReplay(p) = "off" => proc'[p] = Off
           /\ alarms' = alarms
<1> DEFINE l == AfterReplay(p)
           g == IF proc[p].stage = "open" /\ ~TakesLease(p) THEN "before" ELSE proc[p].stage
           n == [proc[p] EXCEPT !.view = journal, !.at = l, !.stage = g]
<1>1. /\ l \in Labels /\ journal \in Seq(Records) /\ proc[p] \in Programs
      /\ g \in {"open", "before", "after"}
  BY DEF TypeOK, DiskTypeOK, Programs
<1>2. Become(p, n) /\ alarms' = alarms
  BY DEF ReadJournal
<1>3. /\ n \in Programs /\ n.at = l /\ n.view = journal /\ n.stage = g
      /\ n.op = proc[p].op /\ n.mode = proc[p].mode
  <2> HIDE DEF g, l
  <2> QED BY <1>1 DEF Programs
<1> HIDE DEF n, l
<1>4. /\ proc' \in [Procs -> Programs] /\ Others(p) /\ proc'[p].at = l
      /\ l = "off" => proc'[p] = Off
      /\ l # "off" => proc'[p] = n
  BY <1>2, <1>3, BecomeFacts DEF TypeOK, Others
<1> QED BY <1>2, <1>3, <1>4 DEF SameTask, l

LEMMA RecordMove ==
    ASSUME TypeOK, NEW p \in Procs, NEW r \in Records,
           Become(p, [proc[p] EXCEPT !.record = r, !.at = "append"])
    PROVE  /\ proc' \in [Procs -> Programs] /\ Others(p) /\ SameTask(p)
           /\ proc'[p].at = "append" /\ proc'[p].record = r
           /\ proc'[p].stage = proc[p].stage /\ proc'[p].view = proc[p].view
<1> DEFINE n == [proc[p] EXCEPT !.record = r, !.at = "append"]
<1>1. "append" \in Labels /\ proc[p] \in Programs
  BY DEF Labels, TypeOK
<1>2. /\ n \in Programs /\ n.at = "append" /\ n.record = r
      /\ n.op = proc[p].op /\ n.mode = proc[p].mode /\ n.stage = proc[p].stage
      /\ n.view = proc[p].view
  BY <1>1 DEF Programs
<1>3. Become(p, n)
  OBVIOUS
<1> HIDE DEF n
<1> QED BY <1>2, <1>3, BecomeFacts DEF TypeOK, Others, SameTask

LEMMA ClassifyMove ==
    ASSUME TypeOK, NEW p \in Procs, Classify(p), MayTake(p)
    PROVE  /\ proc' \in [Procs -> Programs] /\ Others(p) /\ SameTask(p)
           /\ proc'[p].at = "publish" /\ proc'[p].owner = lease
           /\ proc'[p].stage = proc[p].stage
<1> DEFINE n == [proc[p] EXCEPT !.owner = lease, !.at = "publish"]
<1>1. "publish" \in Labels /\ proc[p] \in Programs /\ lease \in Owners \cup {None}
  BY DEF Labels, TypeOK, DiskTypeOK
<1>2. /\ n \in Programs /\ n.at = "publish" /\ n.owner = lease
      /\ n.op = proc[p].op /\ n.mode = proc[p].mode /\ n.stage = proc[p].stage
  BY <1>1 DEF Programs
<1>3. Become(p, n)
  BY DEF Classify
<1> HIDE DEF n
<1> QED BY <1>2, <1>3, BecomeFacts DEF TypeOK, Others, SameTask

LEMMA PublishMove ==
    ASSUME TypeOK, NEW p \in Procs, Publish(p), lease = proc[p].owner
    PROVE  /\ proc' \in [Procs -> Programs] /\ Others(p) /\ SameTask(p)
           /\ proc'[p].at = IF proc[p].op = "launch" THEN "consume" ELSE "load"
           /\ proc'[p].stage = "before"
<1> DEFINE l == IF proc[p].op = "launch" THEN "consume" ELSE "load"
           n == [proc[p] EXCEPT !.stage = "before", !.owner = None, !.at = l]
<1>1. l \in Labels /\ l # "off" /\ proc[p] \in Programs
  BY DEF Labels, TypeOK
<1>2. Become(p, n)
  BY DEF Publish
<1> HIDE DEF l
<1>3. /\ n \in Programs /\ n.at = l /\ n.stage = "before"
      /\ n.op = proc[p].op /\ n.mode = proc[p].mode
  BY <1>1 DEF Programs
<1> HIDE DEF n
<1>4. proc' \in [Procs -> Programs] /\ Others(p) /\ proc'[p] = n
  BY <1>1, <1>2, <1>3, BecomeFacts DEF TypeOK, Others
<1> QED BY <1>3, <1>4 DEF SameTask, l

LEMMA AdvanceMove ==
    ASSUME TypeOK, NEW p \in Procs, AdvanceExtent(p)
    PROVE  /\ proc' \in [Procs -> Programs] /\ Others(p) /\ SameTask(p)
           /\ proc'[p].at = "load" /\ proc'[p].stage = "after"
<1> DEFINE n == [proc[p] EXCEPT !.stage = "after", !.record = None, !.at = "load"]
<1>1. "load" \in Labels /\ proc[p] \in Programs
  BY DEF Labels, TypeOK
<1>2. /\ n \in Programs /\ n.at = "load" /\ n.stage = "after"
      /\ n.op = proc[p].op /\ n.mode = proc[p].mode
  BY <1>1 DEF Programs
<1>3. Become(p, n)
  BY DEF AdvanceExtent
<1> HIDE DEF n
<1> QED BY <1>2, <1>3, BecomeFacts DEF TypeOK, Others, SameTask

\* Refuse: the program releases the lease it took, or ends.
LEMMA RefuseMove ==
    ASSUME TypeOK, NEW p \in Procs, Refuse(p)
    PROVE  /\ proc' \in [Procs -> Programs] /\ Others(p)
           /\ proc'[p].at \in {"release", "off"}
           /\ proc'[p].at = "off" => proc'[p] = Off
           /\ proc'[p].at = "release" =>
                 /\ SameTask(p) /\ proc'[p].stage = proc[p].stage /\ TakesLease(p)
                 /\ proc[p].stage # "open" /\ proc[p].op # "launch"
<1> DEFINE l == Exit(p)
<1>1. /\ l \in {"release", "off"} /\ l \in Labels
      /\ l = "release" => TakesLease(p) /\ proc[p].stage # "open" /\ proc[p].op # "launch"
  BY DEF Exit, Labels
<1>2. Go(p, l)
  BY DEF Refuse
<1> HIDE DEF l
<1> QED BY <1>1, <1>2, GoFacts DEF TypeOK, Others, SameTask

---------------------------------------------------------------------------
(* Types, flocks and courses.                                              *)

\* A step of p that respects the flocks keeps who holds what.
LEMMA TypeStep ==
    ASSUME TypeInv, NEW p \in Procs, Others(p), proc' \in [Procs -> Programs],
           DiskTypeOK', EnvTypeOK', started <= started',
           \A q \in Procs \ {p} : ticks'[q] = ticks[q],
           ticks'[p] <= started', CourseOf(proc'[p]),
           (leaseLock' = p) <=> proc'[p].at \in LeaseSteps,
           (journalLock' = p) <=> proc'[p].at \in JournalSteps,
           \A q \in Procs \ {p} : /\ (leaseLock' = q) <=> (leaseLock = q)
                                  /\ (journalLock' = q) <=> (journalLock = q)
    PROVE  TypeInv'
<1>1. Flocks'
  BY DEF TypeInv, TypeOK, Flocks, Others
<1>2. Course'
  <2> SUFFICES ASSUME NEW q \in Procs PROVE CourseOf(proc'[q]) /\ ticks'[q] <= started'
    BY DEF Course
  <2>1. CASE q = p
    BY <2>1
  <2>2. CASE q # p
    <3>1. CourseOf(proc[q]) /\ proc'[q] = proc[q]
      BY <2>2 DEF TypeInv, Course, Others
    <3>2. ticks'[q] = ticks[q] /\ ticks[q] <= started
      BY <2>2 DEF TypeInv, Course
    <3>3. ticks[q] \in Nat /\ started \in Nat /\ started' \in Nat
      BY DEF TypeInv, TypeOK, EnvTypeOK
    <3> QED BY <3>1, <3>2, <3>3
  <2> QED BY <2>1, <2>2
<1> QED BY <1>1, <1>2 DEF TypeInv, TypeOK

LEMMA InitType == Init => TypeInv
<1> SUFFICES ASSUME Init PROVE TypeInv
  OBVIOUS
<1>1. PICK h \in Starts :
          /\ journal = h
          /\ store = IF h = <<>> THEN "absent" ELSE "ready"
          /\ binding = IF h = <<>> THEN None ELSE Len(h)
          /\ projection = IF h = <<>> THEN None ELSE h
  BY DEF Init
<1>2. h \in Seq(Records) /\ Len(h) \in Nat
  OBVIOUS
<1>3. DiskTypeOK
  BY <1>1, <1>2 DEF DiskTypeOK, Init
<1>4. EnvTypeOK
  BY DEF EnvTypeOK, Init
<1>5. proc \in [Procs -> Programs] /\ \A p \in Procs : proc[p] = Off
  BY OffFacts DEF Init
<1>6. Flocks
  BY <1>5, OffFacts DEF Flocks, Init, LeaseSteps, JournalSteps
<1>7. Course
  BY <1>5, OffFacts DEF Course, Init
<1> QED BY <1>3, <1>4, <1>5, <1>6, <1>7 DEF TypeInv, TypeOK

\* Every command's own steps, without those of append_record.
LEMMA TypeCommands ==
    ASSUME TypeInv, NEW p \in Procs,
           \/ MakeDirectory(p) \/ WriteIdentity(p) \/ LoadBinding(p) \/ ReadJournal(p)
           \/ Preflight(p) \/ LockLease(p) \/ Classify(p) \/ Publish(p) \/ Consume(p)
           \/ LockRelease(p) \/ Unlink(p) \/ Decide(p) \/ Project(p) \/ RunnerEnds(p)
    PROVE  TypeInv'
<1> USE DEF disk, locks, env
<1>0. /\ TypeOK /\ DiskTypeOK /\ EnvTypeOK /\ proc \in [Procs -> Programs] /\ Flocks
      /\ proc[p] \in Programs /\ CourseOf(proc[p]) /\ ticks[p] <= started /\ started \in Nat
      /\ CourseOf(Off) /\ Off.at = "off"
  BY OffFacts DEF TypeInv, TypeOK, EnvTypeOK, Course
<1>1. UNCHANGED <<boot, ticks, started, kills>>
  BY DEF MakeDirectory, WriteIdentity, LoadBinding, ReadJournal, Preflight, LockLease,
         Classify, Publish, Consume, LockRelease, Unlink, Decide, Project, RunnerEnds
<1> DEFINE Right ==
      /\ Others(p) /\ proc' \in [Procs -> Programs] /\ CourseOf(proc'[p])
      /\ DiskTypeOK' /\ EnvTypeOK'
      /\ (leaseLock' = p) <=> proc'[p].at \in LeaseSteps
      /\ (journalLock' = p) <=> proc'[p].at \in JournalSteps
      /\ \A q \in Procs \ {p} : /\ (leaseLock' = q) <=> (leaseLock = q)
                                /\ (journalLock' = q) <=> (journalLock = q)
<1>2. ASSUME UNCHANGED <<locks, store, journal, tail, binding, projection, lease, consumed,
                         runners>>,
             alarms' \subseteq {"unbound", "rolled_back", "spoiled"},
             Others(p), proc' \in [Procs -> Programs], CourseOf(proc'[p]),
             proc[p].at \notin LeaseSteps \cup JournalSteps,
             proc'[p].at \notin LeaseSteps \cup JournalSteps
      PROVE  Right
  BY <1>0, <1>1, <1>2 DEF DiskTypeOK, EnvTypeOK, Flocks
<1>3. Right
  <2>1. CASE MakeDirectory(p)
    <3>1. /\ proc[p].at = "mkdir" /\ store' \in {"absent", "made", "ready"}
          /\ UNCHANGED <<journal, tail, binding, projection, lease, consumed, locks, env>>
          /\ Go(p, "identity") \/ Refuse(p)
      BY <2>1, <1>0 DEF MakeDirectory, At, DiskTypeOK
    <3>2. ASSUME Go(p, "identity") PROVE Right
      <4>1. "identity" \in Labels
        BY DEF Labels
      <4>2. Others(p) /\ proc' \in [Procs -> Programs] /\ proc'[p].at = "identity"
            /\ SameTask(p)
        BY <1>0, <3>2, <4>1, GoFacts DEF Others, SameTask
      <4>3. CourseOf(proc'[p])
        BY <1>0, <3>1, <4>2 DEF CourseOf, SameTask, Deciding, JournalSteps
      <4> QED BY <1>0, <3>1, <4>2, <4>3 DEF DiskTypeOK, EnvTypeOK, Flocks, LeaseSteps,
                 JournalSteps
    <3>3. ASSUME Refuse(p) PROVE Right
      <4>1. CourseOf(proc'[p])
        BY <1>0, <3>1, <3>3, RefuseMove DEF CourseOf, SameTask, Deciding, JournalSteps
      <4> QED BY <1>0, <3>1, <3>3, <4>1, RefuseMove DEF DiskTypeOK, EnvTypeOK, Flocks,
                 LeaseSteps, JournalSteps
    <3> QED BY <3>1, <3>2, <3>3
  <2>2. CASE WriteIdentity(p)
    <3>1. /\ proc[p].at = "identity" /\ store' = "ready"
          /\ UNCHANGED <<journal, tail, binding, projection, lease, consumed, locks, env>>
          /\ Become(p, [proc[p] EXCEPT !.record = "PLANNED", !.at = "append"])
      BY <2>2 DEF WriteIdentity, At
    <3>2. "PLANNED" \in Records
      BY CommandsApart
    <3>3. CourseOf(proc'[p])
      BY <1>0, <3>1, <3>2, RecordMove DEF CourseOf, SameTask, Deciding, JournalSteps
    <3> QED BY <1>0, <3>1, <3>2, <3>3, RecordMove DEF DiskTypeOK, EnvTypeOK, Flocks,
               LeaseSteps, JournalSteps
  <2>3. CASE LoadBinding(p)
    <3>1. proc[p].at = "load" /\ UNCHANGED <<disk, locks, env>>
      BY <2>3 DEF LoadBinding, At
    <3>2. CourseOf(proc'[p])
      BY <1>0, <2>3, <3>1, LoadMove DEF CourseOf, SameTask, Deciding, JournalSteps
    <3> QED BY <1>0, <1>2, <2>3, <3>1, <3>2, LoadMove DEF LeaseSteps, JournalSteps, EnvTypeOK
  <2>4. CASE ReadJournal(p)
    <3>1. proc[p].at = "read" /\ UNCHANGED <<disk, locks, runners>>
      BY <2>4 DEF ReadJournal, At
    <3>2. CASE ExtentVerdict(proc[p].seen) # "ok"
      <4>1. /\ Refuse(p)
            /\ alarms' \subseteq {"unbound", "rolled_back", "spoiled"}
        BY <1>0, <2>4, <3>2 DEF ReadJournal, Alarm, ExtentVerdict, EnvTypeOK
      <4>2. CourseOf(proc'[p])
        BY <1>0, <3>1, <4>1, RefuseMove DEF CourseOf, SameTask, Deciding, JournalSteps
      <4> QED BY <1>0, <1>2, <3>1, <4>1, <4>2, RefuseMove DEF LeaseSteps, JournalSteps
    <3>3. CASE ExtentVerdict(proc[p].seen) = "ok"
      <4>1. proc[p].stage \in {"open", "before", "after"}
        BY <1>0 DEF Programs
      <4>2. AfterReplay(p) \in {"off", "preflight", "lock", "load", "decide", "project"}
        BY <4>1 DEF AfterReplay
      <4>3. AfterReplay(p) \in Labels
        BY <4>2 DEF Labels
      <4>4. proc[p].op \in Ops \cup {None}
        BY <1>0 DEF Programs
      <4>5. CourseOf(proc'[p])
        <5>1. CASE AfterReplay(p) = "off"
          BY <1>0, <2>4, <3>3, <4>3, <5>1, ReadMove
        <5>2. CASE AfterReplay(p) # "off"
          <6>1. proc[p].op # "status"
            BY <5>2 DEF AfterReplay
          <6>2. CASE proc[p].stage = "open"
            BY <1>0, <2>4, <3>1, <3>3, <4>3, <4>4, <5>2, <6>1, <6>2, ReadMove
               DEF CourseOf, SameTask, Deciding, JournalSteps, AfterReplay, TakesLease, Ops
          <6>3. CASE proc[p].stage # "open"
            BY <1>0, <2>4, <3>1, <3>3, <4>1, <4>3, <4>4, <5>2, <6>1, <6>3, ReadMove
               DEF CourseOf, SameTask, Deciding, JournalSteps, AfterReplay, TakesLease, Ops
          <6> QED BY <6>2, <6>3
        <5> QED BY <5>1, <5>2
      <4> QED BY <1>0, <1>2, <2>4, <3>1, <3>3, <4>2, <4>3, <4>5, ReadMove
             DEF LeaseSteps, JournalSteps, EnvTypeOK
    <3> QED BY <3>2, <3>3
  <2>5. CASE Preflight(p)
    <3>1. PICK l \in {"lock", "off"} : Go(p, l)
      BY <2>5 DEF Preflight
    <3>2. proc[p].at = "preflight" /\ UNCHANGED <<disk, locks, env>> /\ l \in Labels
      BY <2>5 DEF Preflight, At, Labels
    <3>3. CourseOf(proc'[p])
      BY <1>0, <3>1, <3>2, GoFacts DEF CourseOf, Deciding, JournalSteps
    <3> QED BY <1>0, <1>2, <3>1, <3>2, <3>3, GoFacts DEF LeaseSteps, JournalSteps, Others,
               EnvTypeOK
  <2>6. CASE LockLease(p)
    <3>1. /\ proc[p].at = "lock" /\ leaseLock = None /\ leaseLock' = p /\ Go(p, "classify")
          /\ UNCHANGED <<disk, journalLock, env>> /\ "classify" \in Labels
      BY <2>6 DEF LockLease, At, Labels
    <3>2. CourseOf(proc'[p])
      BY <1>0, <3>1, GoFacts DEF CourseOf, Deciding, JournalSteps
    <3>3. Others(p) /\ proc' \in [Procs -> Programs] /\ proc'[p].at = "classify"
      BY <1>0, <3>1, GoFacts DEF Others
    <3> QED BY <1>0, <3>1, <3>2, <3>3 DEF DiskTypeOK, EnvTypeOK, Flocks, LeaseSteps,
               JournalSteps
  <2>7. CASE Classify(p)
    <3>1. proc[p].at = "classify" /\ UNCHANGED <<disk, journalLock, env>>
      BY <2>7 DEF Classify, At
    <3>2. CASE MayTake(p)
      <4>1. leaseLock' = leaseLock
        BY <2>7, <3>2 DEF Classify
      <4>2. CourseOf(proc'[p])
        BY <1>0, <2>7, <3>1, <3>2, ClassifyMove DEF CourseOf, SameTask, Deciding, JournalSteps
      <4> QED BY <1>0, <2>7, <3>1, <3>2, <4>1, <4>2, ClassifyMove
             DEF DiskTypeOK, EnvTypeOK, Flocks, LeaseSteps, JournalSteps
    <3>3. CASE ~MayTake(p)
      <4>1. leaseLock' = None /\ Refuse(p) /\ leaseLock = p
        BY <1>0, <2>7, <3>1, <3>3 DEF Classify, Flocks, LeaseSteps
      <4>2. CourseOf(proc'[p])
        BY <1>0, <3>1, <4>1, RefuseMove DEF CourseOf, SameTask, Deciding, JournalSteps
      <4> QED BY <1>0, <3>1, <4>1, <4>2, RefuseMove
             DEF DiskTypeOK, EnvTypeOK, Flocks, LeaseSteps, JournalSteps
    <3> QED BY <3>2, <3>3
  <2>8. CASE Publish(p)
    <3>1. /\ proc[p].at = "publish" /\ leaseLock = p /\ leaseLock' = None
          /\ UNCHANGED <<store, journal, tail, binding, projection, consumed, journalLock, env>>
      BY <1>0, <2>8 DEF Publish, At, Flocks, LeaseSteps
    <3>2. CASE lease = proc[p].owner
      <4>1. lease' \in Owners
        <5>1. lease' = Owner(p)
          BY <2>8, <3>2 DEF Publish
        <5> QED BY <1>0, <5>1 DEF Owner, Owners, EnvTypeOK
      <4>2. CourseOf(proc'[p])
        <5>1. proc[p].op # "create" /\ proc[p].op # None
          BY <1>0, <3>1, CommandsApart DEF CourseOf
        <5> QED BY <1>0, <2>8, <3>1, <3>2, <5>1, PublishMove DEF CourseOf, SameTask, Deciding,
                   JournalSteps
      <4> QED BY <1>0, <2>8, <3>1, <3>2, <4>1, <4>2, PublishMove
             DEF DiskTypeOK, EnvTypeOK, Flocks, LeaseSteps, JournalSteps
    <3>3. CASE lease # proc[p].owner
      <4>1. lease' = lease /\ Refuse(p)
        BY <2>8, <3>3 DEF Publish
      <4>2. CourseOf(proc'[p])
        BY <1>0, <3>1, <4>1, RefuseMove DEF CourseOf, SameTask, Deciding, JournalSteps
      <4> QED BY <1>0, <3>1, <4>1, <4>2, RefuseMove
             DEF DiskTypeOK, EnvTypeOK, Flocks, LeaseSteps, JournalSteps
    <3> QED BY <3>2, <3>3
  <2>9. CASE Consume(p)
    <3>1. PICK l \in {"release", "load"} : Go(p, l)
      BY <2>9 DEF Consume
    <3>2. /\ proc[p].at = "consume" /\ consumed' = TRUE /\ l \in Labels
          /\ UNCHANGED <<store, journal, tail, binding, projection, lease, locks, env>>
      BY <2>9 DEF Consume, At, Labels
    <3>3. CourseOf(proc'[p])
      <4>1. proc[p].op # "create" /\ proc[p].op # None
        BY <1>0, <3>2, CommandsApart DEF CourseOf
      <4> QED BY <1>0, <3>1, <3>2, <4>1, GoFacts DEF CourseOf, Deciding, JournalSteps
    <3> QED BY <1>0, <3>1, <3>2, <3>3, GoFacts DEF DiskTypeOK, EnvTypeOK, Flocks, LeaseSteps,
               JournalSteps, Others
  <2>10. CASE LockRelease(p)
    <3>1. /\ proc[p].at = "release" /\ leaseLock = None /\ leaseLock' = p /\ Go(p, "unlink")
          /\ UNCHANGED <<disk, journalLock, env>> /\ "unlink" \in Labels
      BY <2>10 DEF LockRelease, At, Labels
    <3>2. CourseOf(proc'[p])
      BY <1>0, <3>1, GoFacts DEF CourseOf, Deciding, JournalSteps
    <3>3. Others(p) /\ proc' \in [Procs -> Programs] /\ proc'[p].at = "unlink"
      BY <1>0, <3>1, GoFacts DEF Others
    <3> QED BY <1>0, <3>1, <3>2, <3>3 DEF DiskTypeOK, EnvTypeOK, Flocks, LeaseSteps,
               JournalSteps
  <2>11. CASE Unlink(p)
    <3>1. /\ proc[p].at = "unlink" /\ leaseLock = p /\ leaseLock' = None /\ Go(p, "off")
          /\ "off" \in Labels /\ lease' \in Owners \cup {None}
          /\ UNCHANGED <<store, journal, tail, binding, projection, consumed, journalLock, env>>
      BY <1>0, <2>11 DEF Unlink, At, Labels, DiskTypeOK, Flocks, LeaseSteps
    <3>2. Others(p) /\ proc' \in [Procs -> Programs] /\ proc'[p] = Off
      BY <1>0, <3>1, GoFacts DEF Others
    <3> QED BY <1>0, <3>1, <3>2 DEF DiskTypeOK, EnvTypeOK, Flocks, LeaseSteps, JournalSteps
  <2>12. CASE Decide(p)
    <3>1. proc[p].at = "decide" /\ UNCHANGED <<disk, locks, env>>
      BY <2>12 DEF Decide, At
    <3>2. CASE Permitted(p)
      <4>1. Target(p) \in Records
        <5>1. proc[p].op \in Targets \cup Manifests \cup {"launch"}
          BY <1>0, <3>1 DEF CourseOf
        <5>2. "BARS_CAPTURING" \in RunStates
          BY DEF RunStates, StateOrder
        <5> QED BY <5>1, <5>2 DEF Target, Records
      <4>2. Become(p, [proc[p] EXCEPT !.record = Target(p), !.at = "append"])
        BY <2>12, <3>2 DEF Decide
      <4>3. CourseOf(proc'[p])
        BY <1>0, <3>1, <4>1, <4>2, RecordMove DEF CourseOf, SameTask, Deciding, JournalSteps
      <4> QED BY <1>0, <1>2, <3>1, <4>1, <4>2, <4>3, RecordMove DEF LeaseSteps, JournalSteps,
                 EnvTypeOK
    <3>3. CASE ~Permitted(p)
      <4>1. Refuse(p)
        BY <2>12, <3>3 DEF Decide
      <4>2. CourseOf(proc'[p])
        BY <1>0, <3>1, <4>1, RefuseMove DEF CourseOf, SameTask, Deciding, JournalSteps
      <4> QED BY <1>0, <1>2, <3>1, <4>1, <4>2, RefuseMove DEF LeaseSteps, JournalSteps,
                 EnvTypeOK
    <3> QED BY <3>2, <3>3
  <2>13. CASE Project(p)
    <3>1. PICK l \in {"running", "release", "off"} : Go(p, l)
      BY <2>13 DEF Project, Exit
    <3>2. /\ proc[p].at = "project" /\ projection' \in Seq(Records) /\ runners' \in Nat
          /\ l \in Labels
          /\ UNCHANGED <<store, journal, tail, binding, lease, consumed, locks, alarms>>
      BY <1>0, <2>13 DEF Project, At, Labels, EnvTypeOK, Programs
    <3>3. CourseOf(proc'[p])
      BY <1>0, <3>1, <3>2, GoFacts DEF CourseOf, Deciding, JournalSteps
    <3> QED BY <1>0, <1>1, <3>1, <3>2, <3>3, GoFacts DEF DiskTypeOK, EnvTypeOK, Flocks,
               LeaseSteps, JournalSteps, Others
  <2>14. CASE RunnerEnds(p)
    <3>1. /\ proc[p].at = "running" /\ Go(p, "off") /\ "off" \in Labels
          /\ UNCHANGED <<disk, locks, env>>
      BY <2>14 DEF RunnerEnds, At, Labels
    <3> QED BY <1>0, <1>2, <3>1, GoFacts DEF LeaseSteps, JournalSteps, Others, EnvTypeOK
  <2> QED BY <2>1, <2>2, <2>3, <2>4, <2>5, <2>6, <2>7, <2>8, <2>9, <2>10, <2>11, <2>12,
             <2>13, <2>14
<1> QED BY <1>0, <1>1, <1>3, TypeStep

LEMMA FrontFacts ==
    ASSUME NEW s \in Seq(Records), s # <<>>
    PROVE  /\ Front(s) \in Seq(Records) /\ Len(Front(s)) = Len(s) - 1
           /\ \A k \in 1..(Len(s) - 1) : Front(s)[k] = s[k]
<1>1. Len(s) \in Nat /\ Len(s) > 0
  OBVIOUS
<1> DEFINE m == Len(s) - 1
<1>2. m \in Nat /\ m <= Len(s)
  BY <1>1
<1>3. /\ SubSeq(s, 1, m) \in Seq(Records) /\ Len(SubSeq(s, 1, m)) = m
      /\ \A k \in 1..m : SubSeq(s, 1, m)[k] = s[k]
  <2> HIDE DEF m
  <2> QED BY <1>2
<1> QED BY <1>3 DEF Front

LEMMA FrontEmpty == Front(<<>>) \in Seq(Records)
  BY DEF Front

\* append_record.
LEMMA TypeAppends ==
    ASSUME TypeInv, NEW p \in Procs,
           \/ LockJournal(p) \/ CheckTail(p) \/ WriteSome(p) \/ WriteLine(p)
           \/ WriteJoined(p) \/ WriteNewline(p) \/ Fsync(p) \/ AdvanceExtent(p)
    PROVE  TypeInv'
<1> USE DEF disk, locks, env
<1>0. /\ TypeOK /\ DiskTypeOK /\ EnvTypeOK /\ proc \in [Procs -> Programs] /\ Flocks
      /\ proc[p] \in Programs /\ CourseOf(proc[p]) /\ ticks[p] <= started /\ started \in Nat
      /\ CourseOf(Off) /\ Off.at = "off" /\ journal \in Seq(Records) /\ Len(journal) \in Nat
  BY OffFacts DEF TypeInv, TypeOK, DiskTypeOK, EnvTypeOK, Course
<1>1. UNCHANGED <<boot, ticks, started, kills, runners, leaseLock>>
  BY DEF LockJournal, CheckTail, WriteSome, WriteLine, WriteJoined, WriteNewline, Fsync,
         AdvanceExtent
<1> DEFINE Right ==
      /\ Others(p) /\ proc' \in [Procs -> Programs] /\ CourseOf(proc'[p])
      /\ DiskTypeOK' /\ EnvTypeOK'
      /\ proc[p].at \notin LeaseSteps /\ proc'[p].at \notin LeaseSteps
      /\ (journalLock' = p) <=> proc'[p].at \in JournalSteps
      /\ \A q \in Procs \ {p} : (journalLock' = q) <=> (journalLock = q)
<1>2. Right
  <2>1. CASE LockJournal(p)
    <3>1. /\ proc[p].at = "append" /\ journalLock = None
          /\ UNCHANGED <<store, journal, tail, projection, lease, consumed>>
      BY <2>1 DEF LockJournal, At
    <3>2. CASE binding = None /\ HasBytes
      <4>1. Refuse(p) /\ alarms' = alarms \cup {"unbound"} /\ UNCHANGED <<binding, journalLock>>
        BY <2>1, <3>2 DEF LockJournal, Alarm
      <4>2. CourseOf(proc'[p])
        BY <1>0, <3>1, <4>1, RefuseMove DEF CourseOf, SameTask, Deciding, JournalSteps
      <4> QED BY <1>0, <1>1, <3>1, <4>1, <4>2, RefuseMove
             DEF DiskTypeOK, EnvTypeOK, Flocks, LeaseSteps, JournalSteps
    <3>3. CASE ~(binding = None /\ HasBytes)
      <4>1. /\ journalLock' = p /\ Go(p, "check") /\ "check" \in Labels
            /\ binding' \in Nat \cup {None} /\ alarms' = alarms
        BY <1>0, <2>1, <3>3 DEF LockJournal, Labels, DiskTypeOK
      <4>2. Others(p) /\ proc' \in [Procs -> Programs] /\ proc'[p].at = "check"
        BY <1>0, <4>1, GoFacts DEF Others
      <4>3. CourseOf(proc'[p])
        BY <1>0, <3>1, <4>1, GoFacts DEF CourseOf, Deciding, JournalSteps
      <4> QED BY <1>0, <1>1, <3>1, <4>1, <4>2, <4>3
             DEF DiskTypeOK, EnvTypeOK, Flocks, LeaseSteps, JournalSteps
    <3> QED BY <3>2, <3>3
  <2>2. CASE CheckTail(p)
    <3>1. proc[p].at = "check" /\ journalLock = p /\ UNCHANGED disk
      BY <1>0, <2>2 DEF CheckTail, At, Flocks, JournalSteps
    <3>2. CASE Go(p, "write") /\ UNCHANGED <<journalLock, alarms>>
      <4>1. "write" \in Labels
        BY DEF Labels
      <4>2. Others(p) /\ proc' \in [Procs -> Programs] /\ proc'[p].at = "write"
        BY <1>0, <3>2, <4>1, GoFacts DEF Others
      <4>3. CourseOf(proc'[p])
        BY <1>0, <3>1, <3>2, <4>1, GoFacts DEF CourseOf, Deciding, JournalSteps
      <4> QED BY <1>0, <1>1, <3>1, <3>2, <4>2, <4>3
             DEF DiskTypeOK, EnvTypeOK, Flocks, LeaseSteps, JournalSteps
    <3>3. CASE journalLock' = None /\ Refuse(p) /\ alarms' \subseteq alarms \cup {"rolled_back"}
      <4>1. CourseOf(proc'[p])
        BY <1>0, <3>1, <3>3, RefuseMove DEF CourseOf, SameTask, Deciding, JournalSteps
      <4> QED BY <1>0, <1>1, <3>1, <3>3, <4>1, RefuseMove
             DEF DiskTypeOK, EnvTypeOK, Flocks, LeaseSteps, JournalSteps
    <3> QED BY <2>2, <3>2, <3>3 DEF CheckTail, Alarm
  <2>3. CASE WriteSome(p)
    <3>1. PICK l \in {"joined", "line"} : Go(p, l)
      BY <2>3 DEF WriteSome
    <3>2. /\ proc[p].at = "write" /\ tail' = "torn" /\ l \in Labels
          /\ journal' \in {Front(journal), journal}
          /\ UNCHANGED <<store, binding, projection, lease, consumed, journalLock, alarms>>
      BY <2>3 DEF WriteSome, At, Labels
    <3>3. journal' \in Seq(Records)
      BY <1>0, <3>2, FrontFacts, FrontEmpty
    <3>4. Others(p) /\ proc' \in [Procs -> Programs] /\ proc'[p].at = l
      BY <1>0, <3>1, <3>2, GoFacts DEF Others
    <3>5. CourseOf(proc'[p])
      BY <1>0, <3>1, <3>2, GoFacts DEF CourseOf, Deciding, JournalSteps
    <3> QED BY <1>0, <1>1, <3>2, <3>3, <3>4, <3>5
           DEF DiskTypeOK, EnvTypeOK, Flocks, LeaseSteps, JournalSteps
  <2>4. CASE WriteLine(p)
    <3>1. /\ proc[p].at = "line" /\ tail' = "bare" /\ Go(p, "newline") /\ "newline" \in Labels
          /\ journal' = Append(journal, proc[p].record)
          /\ UNCHANGED <<store, binding, projection, lease, consumed, journalLock, alarms>>
      BY <2>4 DEF WriteLine, At, Labels
    <3>2. journal' \in Seq(Records)
      BY <1>0, <3>1 DEF CourseOf
    <3>3. Others(p) /\ proc' \in [Procs -> Programs] /\ proc'[p].at = "newline"
      BY <1>0, <3>1, GoFacts DEF Others
    <3>4. CourseOf(proc'[p])
      BY <1>0, <3>1, GoFacts DEF CourseOf, Deciding, JournalSteps
    <3> QED BY <1>0, <1>1, <3>1, <3>2, <3>3, <3>4
           DEF DiskTypeOK, EnvTypeOK, Flocks, LeaseSteps, JournalSteps
  <2>5. CASE WriteJoined(p)
    <3>1. /\ proc[p].at = "joined" /\ journalLock = p /\ journalLock' = None /\ Refuse(p)
          /\ alarms' = alarms \cup {"spoiled"} /\ UNCHANGED disk
      BY <1>0, <2>5 DEF WriteJoined, Alarm, At, Flocks, JournalSteps
    <3>2. CourseOf(proc'[p])
      BY <1>0, <3>1, RefuseMove DEF CourseOf, SameTask, Deciding, JournalSteps
    <3> QED BY <1>0, <1>1, <3>1, <3>2, RefuseMove
           DEF DiskTypeOK, EnvTypeOK, Flocks, LeaseSteps, JournalSteps
  <2>6. CASE WriteNewline(p)
    <3>1. /\ proc[p].at = "newline" /\ tail' = "clean" /\ Go(p, "sync") /\ "sync" \in Labels
          /\ UNCHANGED <<store, journal, binding, projection, lease, consumed, journalLock, alarms>>
      BY <2>6 DEF WriteNewline, At, Labels
    <3>2. Others(p) /\ proc' \in [Procs -> Programs] /\ proc'[p].at = "sync"
      BY <1>0, <3>1, GoFacts DEF Others
    <3>3. CourseOf(proc'[p])
      BY <1>0, <3>1, GoFacts DEF CourseOf, Deciding, JournalSteps
    <3> QED BY <1>0, <1>1, <3>1, <3>2, <3>3
           DEF DiskTypeOK, EnvTypeOK, Flocks, LeaseSteps, JournalSteps
  <2>7. CASE Fsync(p)
    <3>1. /\ proc[p].at = "sync" /\ Go(p, "advance") /\ "advance" \in Labels
          /\ UNCHANGED <<disk, locks, alarms>>
      BY <2>7 DEF Fsync, At, Labels
    <3>2. Others(p) /\ proc' \in [Procs -> Programs] /\ proc'[p].at = "advance"
      BY <1>0, <3>1, GoFacts DEF Others
    <3>3. CourseOf(proc'[p])
      BY <1>0, <3>1, GoFacts DEF CourseOf, Deciding, JournalSteps
    <3> QED BY <1>0, <1>1, <3>1, <3>2, <3>3
           DEF DiskTypeOK, EnvTypeOK, Flocks, LeaseSteps, JournalSteps
  <2>8. CASE AdvanceExtent(p)
    <3>1. /\ proc[p].at = "advance" /\ journalLock = p /\ journalLock' = None
          /\ binding' = Len(journal)
          /\ UNCHANGED <<store, journal, tail, projection, lease, consumed, alarms>>
      BY <1>0, <2>8 DEF AdvanceExtent, At, Flocks, JournalSteps
    <3>2. CourseOf(proc'[p])
      <4>1. proc[p].op # None
        BY <1>0, <3>1 DEF CourseOf
      <4> QED BY <1>0, <2>8, <3>1, <4>1, AdvanceMove DEF CourseOf, SameTask, Deciding, JournalSteps
    <3> QED BY <1>0, <1>1, <2>8, <3>1, <3>2, AdvanceMove
           DEF DiskTypeOK, EnvTypeOK, Flocks, LeaseSteps, JournalSteps
  <2> QED BY <2>1, <2>2, <2>3, <2>4, <2>5, <2>6, <2>7, <2>8
<1>3. /\ (leaseLock' = p) <=> proc'[p].at \in LeaseSteps
      /\ \A q \in Procs \ {p} : (leaseLock' = q) <=> (leaseLock = q)
  BY <1>0, <1>1, <1>2 DEF Flocks
<1> QED BY <1>0, <1>1, <1>2, <1>3, TypeStep

\* Programs that start and die, other stores, power failures.
LEMMA TypeEvents ==
    ASSUME TypeInv,
           \/ \E p \in Procs, op \in Ops, mode \in Modes : Start(p, op, mode)
           \/ \E p \in Procs : Kill(p)
           \/ ConsumedElsewhere
           \/ PowerFails
    PROVE  TypeInv'
<1> USE DEF disk, locks, env
<1>0. /\ TypeOK /\ DiskTypeOK /\ EnvTypeOK /\ proc \in [Procs -> Programs] /\ Flocks /\ Course
      /\ CourseOf(Off) /\ Off.at = "off" /\ Off \in Programs
  BY OffFacts DEF TypeInv, TypeOK
<1>1. ASSUME NEW p \in Procs, NEW op \in Ops, NEW mode \in Modes, Start(p, op, mode)
      PROVE  TypeInv'
  <2>1. /\ proc[p].at = "off" /\ started < MaxPrograms /\ started' = started + 1
        /\ ticks' = [ticks EXCEPT ![p] = @ + 1]
        /\ op \in {"create", "status"} => mode = "direct"
        /\ op = "launch" => mode = "lease"
        /\ UNCHANGED <<disk, locks, boot, kills, alarms, runners>>
    BY <1>1 DEF Start, At
  <2>2. ticks[p] \in Nat /\ ticks[p] <= started /\ started \in Nat /\ MaxPrograms \in Nat
    BY <1>0 DEF EnvTypeOK, Course
  <2>3. EnvTypeOK' /\ ticks'[p] <= started' /\ \A q \in Procs \ {p} : ticks'[q] = ticks[q]
    BY <1>0, <2>1, <2>2 DEF EnvTypeOK
  <2>4. DiskTypeOK'
    BY <1>0, <2>1 DEF DiskTypeOK
  <2>5. CourseOf(proc'[p])
    BY <1>0, <1>1, <2>1, StartMove, CommandsApart DEF CourseOf, Deciding, JournalSteps, Ops
  <2>6. /\ (leaseLock' = p) <=> proc'[p].at \in LeaseSteps
        /\ (journalLock' = p) <=> proc'[p].at \in JournalSteps
    BY <1>0, <1>1, <2>1, StartMove DEF Flocks, LeaseSteps, JournalSteps
  <2> QED BY <1>0, <1>1, <2>1, <2>2, <2>3, <2>4, <2>5, <2>6, StartMove, TypeStep
<1>2. ASSUME NEW p \in Procs, Kill(p) PROVE TypeInv'
  <2>1. /\ kills' = kills + 1 /\ kills + boot < MaxCrashes /\ Go(p, "off") /\ "off" \in Labels
        /\ leaseLock' = IF leaseLock = p THEN None ELSE leaseLock
        /\ journalLock' = IF journalLock = p THEN None ELSE journalLock
        /\ UNCHANGED <<disk, boot, ticks, started, alarms, runners>>
    BY <1>2 DEF Kill, Labels
  <2>2. proc' \in [Procs -> Programs] /\ Others(p) /\ proc'[p] = Off
    BY <1>0, <2>1, GoFacts DEF Others
  <2>3. DiskTypeOK' /\ EnvTypeOK' /\ started \in Nat /\ ticks[p] <= started
    BY <1>0, <2>1 DEF DiskTypeOK, EnvTypeOK, Course
  <2>4. /\ (leaseLock' = p) <=> proc'[p].at \in LeaseSteps
        /\ (journalLock' = p) <=> proc'[p].at \in JournalSteps
        /\ \A q \in Procs \ {p} : /\ (leaseLock' = q) <=> (leaseLock = q)
                                  /\ (journalLock' = q) <=> (journalLock = q)
    BY <1>0, <2>1, <2>2 DEF LeaseSteps, JournalSteps
  <2> QED BY <1>0, <2>1, <2>2, <2>3, <2>4, TypeStep
<1>3. CASE ConsumedElsewhere
  <2>1. /\ UNCHANGED <<store, journal, tail, binding, projection, lease, locks, proc, boot,
                       ticks, started, kills, alarms>>
        /\ consumed' = TRUE /\ runners' = runners + 1
    BY <1>3 DEF ConsumedElsewhere
  <2>2. DiskTypeOK' /\ EnvTypeOK' /\ Flocks'
    BY <1>0, <2>1 DEF DiskTypeOK, EnvTypeOK, Flocks
  <2>3. Course'
    BY <1>0, <2>1 DEF Course
  <2> QED BY <1>0, <2>1, <2>2, <2>3 DEF TypeInv, TypeOK
<1>4. CASE PowerFails
  <2>1. /\ boot' = boot + 1 /\ kills + boot < MaxCrashes
        /\ ticks' = [q \in Procs |-> 0] /\ proc' = [q \in Procs |-> Off]
        /\ leaseLock' = None /\ journalLock' = None
        /\ UNCHANGED <<store, binding, projection, lease, consumed, started, kills, alarms,
                       runners>>
        /\ journal' \in {journal, Front(journal)} /\ tail' \in {"clean", "bare", "torn"}
    BY <1>0, <1>4 DEF PowerFails, DiskTypeOK
  <2>2. journal' \in Seq(Records)
    BY <1>0, <2>1, FrontFacts, FrontEmpty DEF DiskTypeOK
  <2>3. DiskTypeOK' /\ EnvTypeOK'
    BY <1>0, <2>1, <2>2 DEF DiskTypeOK, EnvTypeOK
  <2>4. proc' \in [Procs -> Programs] /\ Flocks'
    BY <1>0, <2>1 DEF Flocks, LeaseSteps, JournalSteps
  <2>5. \A q \in Procs : CourseOf(proc'[q]) /\ ticks'[q] <= started'
    BY <1>0, <2>1 DEF EnvTypeOK
  <2>6. Course'
    BY <2>5 DEF Course
  <2> QED BY <2>3, <2>4, <2>6 DEF TypeInv, TypeOK
<1> QED BY <1>1, <1>2, <1>3, <1>4

LEMMA StepType == TypeInv /\ [Next]_vars => TypeInv'
<1> SUFFICES ASSUME TypeInv, [Next]_vars PROVE TypeInv'
  OBVIOUS
<1>1. CASE UNCHANGED vars
  BY <1>1 DEF TypeInv, TypeOK, DiskTypeOK, EnvTypeOK, Flocks, Course, vars, disk, locks, env
<1>2. ASSUME NEW p \in Procs, Step(p) PROVE TypeInv'
  BY <1>2, TypeCommands, TypeAppends DEF Step
<1> QED BY <1>1, <1>2, TypeEvents DEF Next

\* Every variable has its type in every reachable state; the journal's flock
\* is held exactly from append_record's check to its last act, the lease's
\* during acquire and release.
THEOREM StoreTyped == Spec => []TypeOK
<1>1. TypeInv => TypeOK
  BY DEF TypeInv
<1> QED BY InitType, StepType, <1>1, PTL DEF Spec

---------------------------------------------------------------------------
(* The lease and the runner.                                               *)

\* What a step of p means for the lease and for launches.
Moved(p) ==
    /\ Others(p) /\ proc[p].at # "off" /\ UNCHANGED <<boot, ticks>>
    /\ proc'[p].at # "off" => SameTask(p)
    /\ proc'[p].at = "publish" => proc'[p].owner = lease /\ MayTake(p) /\ lease' = lease
    /\ proc'[p].at # "off" /\ TakesLease(p) /\ proc'[p].stage # "open"
          => \/ proc[p].stage # "open" /\ lease' = lease
             \/ lease' = Owner(p)
    /\ \/ lease' = lease
       \/ proc[p].at = "publish" /\ lease = proc[p].owner /\ lease' = Owner(p)
       \/ proc[p].at = "unlink" /\ lease = Owner(p) /\ lease' = None /\ proc'[p].at = "off"
    /\ \/ consumed' = consumed /\ (Launching(p)' => Launching(p))
       \/ consumed' = TRUE /\ (Launching(p)' => ~consumed)
    /\ \/ runners' = runners
       \/ Launching(p) /\ runners' = runners + 1 /\ ~Launching(p)'

LEMMA GoMoved ==
    ASSUME TypeInv, NEW p \in Procs, NEW l \in Labels, Go(p, l),
           proc[p].at # "off", l # "publish", UNCHANGED <<boot, ticks, lease, consumed, runners>>,
           l \in {"off", "consume", "release", "unlink", "running"}
             \/ proc[p].at \notin {"consume", "release", "unlink", "running"}
    PROVE  Moved(p)
<1>1. /\ proc' \in [Procs -> Programs] /\ Others(p) /\ proc'[p].at = l
      /\ l # "off" => SameTask(p) /\ proc'[p].stage = proc[p].stage
  BY GoFacts DEF TypeInv, TypeOK, Others, SameTask
<1>2. Launching(p)' => Launching(p)
  BY <1>1 DEF Launching, SameTask
<1> QED BY <1>1, <1>2 DEF Moved

LEMMA RefuseMoved ==
    ASSUME TypeInv, NEW p \in Procs, Refuse(p), proc[p].at # "off",
           UNCHANGED <<boot, ticks, lease, consumed, runners>>
    PROVE  Moved(p)
<1>1. Exit(p) \in {"release", "off"} /\ Exit(p) \in Labels
  BY DEF Exit, Labels
<1>2. Go(p, Exit(p))
  BY DEF Refuse
<1> QED BY <1>1, <1>2, GoMoved

LEMMA StepMoved ==
    ASSUME TypeInv, NEW p \in Procs, Step(p)
    PROVE  Moved(p)
<1> USE DEF disk, locks, env
<1>0. /\ TypeOK /\ proc \in [Procs -> Programs] /\ proc[p] \in Programs /\ CourseOf(proc[p])
      /\ Labels = {"off", "mkdir", "identity", "load", "read", "preflight", "lock",
                   "classify", "publish", "consume", "release", "unlink", "decide",
                   "append", "check", "write", "line", "joined", "newline", "sync",
                   "advance", "project", "running"}
  BY DEF TypeInv, TypeOK, Course, Labels
<1>1. CASE MakeDirectory(p)
  BY <1>0, <1>1, GoMoved, RefuseMoved DEF MakeDirectory, At
<1>2. CASE WriteIdentity(p)
  <2>1. "PLANNED" \in Records /\ proc[p].at = "identity" /\ UNCHANGED <<boot, ticks, lease, consumed, runners>>
        /\ Become(p, [proc[p] EXCEPT !.record = "PLANNED", !.at = "append"])
    BY <1>2, CommandsApart DEF WriteIdentity, At
  <2>2. Others(p) /\ SameTask(p) /\ proc'[p].at = "append" /\ proc'[p].stage = proc[p].stage
    BY <1>0, <2>1, RecordMove
  <2>3. Launching(p)' => Launching(p)
    BY <2>1, <2>2 DEF Launching, SameTask
  <2> QED BY <2>1, <2>2, <2>3 DEF Moved
<1>3. CASE LoadBinding(p)
  <2>1. proc[p].at = "load" /\ UNCHANGED <<boot, ticks, lease, consumed, runners>>
    BY <1>3 DEF LoadBinding, At
  <2>2. Others(p) /\ SameTask(p) /\ proc'[p].at = "read" /\ proc'[p].stage = proc[p].stage
    BY <1>0, <1>3, LoadMove
  <2>3. Launching(p)' => Launching(p)
    BY <2>1, <2>2 DEF Launching, SameTask
  <2> QED BY <2>1, <2>2, <2>3 DEF Moved
<1>4. CASE ReadJournal(p)
  <2>1. proc[p].at = "read" /\ UNCHANGED <<boot, ticks, lease, consumed, runners>>
    BY <1>4 DEF ReadJournal, At
  <2>2. CASE ExtentVerdict(proc[p].seen) # "ok"
    BY <1>4, <2>1, <2>2, RefuseMoved DEF ReadJournal, Alarm
  <2>3. CASE ExtentVerdict(proc[p].seen) = "ok"
    <3>1. proc[p].stage \in {"open", "before", "after"}
      BY <1>0 DEF Programs
    <3>2. /\ AfterReplay(p) \in {"off", "preflight", "lock", "load", "decide", "project"}
          /\ AfterReplay(p) \in Labels
      BY <1>0, <3>1 DEF AfterReplay
    <3>3. /\ Others(p) /\ proc'[p].at = AfterReplay(p)
          /\ proc'[p].at # "off" =>
                /\ SameTask(p)
                /\ proc'[p].stage = IF proc[p].stage = "open" /\ ~TakesLease(p)
                                    THEN "before" ELSE proc[p].stage
      BY <1>0, <1>4, <2>3, <3>2, ReadMove
    <3>4. proc[p].op = "launch" => TakesLease(p)
      BY <1>0 DEF CourseOf, TakesLease
    <3>5. Launching(p)' => Launching(p)
      BY <2>1, <3>3, <3>4 DEF Launching, SameTask
    <3> QED BY <2>1, <3>2, <3>3, <3>5 DEF Moved
  <2> QED BY <2>2, <2>3
<1>5. CASE Preflight(p)
  BY <1>0, <1>5, GoMoved DEF Preflight, At
<1>6. CASE LockLease(p)
  BY <1>0, <1>6, GoMoved DEF LockLease, At
<1>7. CASE Classify(p)
  <2>1. proc[p].at = "classify" /\ UNCHANGED <<boot, ticks, lease, consumed, runners>>
    BY <1>7 DEF Classify, At
  <2>2. CASE ~MayTake(p)
    BY <1>7, <2>1, <2>2, RefuseMoved DEF Classify
  <2>3. CASE MayTake(p)
    <3>1. /\ Others(p) /\ SameTask(p) /\ proc'[p].at = "publish" /\ proc'[p].owner = lease
          /\ proc'[p].stage = proc[p].stage
      BY <1>0, <1>7, <2>3, ClassifyMove
    <3>2. Launching(p)' => Launching(p)
      BY <2>1, <3>1 DEF Launching, SameTask
    <3> QED BY <2>1, <2>3, <3>1, <3>2 DEF Moved
  <2> QED BY <2>2, <2>3
<1>8. CASE Publish(p)
  <2>1. proc[p].at = "publish" /\ UNCHANGED <<boot, ticks, consumed, runners>>
    BY <1>8 DEF Publish, At
  <2>2. CASE lease # proc[p].owner
    BY <1>8, <2>1, <2>2, RefuseMoved DEF Publish
  <2>3. CASE lease = proc[p].owner
    <3>1. lease' = Owner(p)
      BY <1>8, <2>3 DEF Publish
    <3>2. /\ Others(p) /\ SameTask(p)
          /\ proc'[p].at = IF proc[p].op = "launch" THEN "consume" ELSE "load"
      BY <1>0, <1>8, <2>3, PublishMove
    <3>3. ~Launching(p)'
      BY <3>2 DEF Launching, SameTask
    <3> QED BY <2>1, <2>3, <3>1, <3>2, <3>3 DEF Moved
  <2> QED BY <2>2, <2>3
<1>9. CASE Consume(p)
  <2>1. PICK l \in {"release", "load"} : Go(p, l) /\ (l = "load" => ~consumed)
    BY <1>9 DEF Consume
  <2>2. proc[p].at = "consume" /\ consumed' = TRUE /\ UNCHANGED <<boot, ticks, lease, runners>>
    BY <1>9 DEF Consume, At
  <2>3. /\ Others(p) /\ SameTask(p) /\ proc'[p].at = l /\ proc'[p].stage = proc[p].stage
    BY <1>0, <2>1, GoFacts DEF Others, SameTask
  <2>4. Launching(p)' => ~consumed
    BY <2>1, <2>3 DEF Launching
  <2> QED BY <2>2, <2>3, <2>4 DEF Moved
<1>10. CASE LockRelease(p)
  BY <1>0, <1>10, GoMoved DEF LockRelease, At
<1>11. CASE Unlink(p)
  <2>1. /\ proc[p].at = "unlink" /\ Go(p, "off") /\ "off" \in Labels
        /\ lease' = IF lease = Owner(p) THEN None ELSE lease
        /\ UNCHANGED <<boot, ticks, consumed, runners>>
    BY <1>0, <1>11 DEF Unlink, At
  <2>2. Others(p) /\ proc'[p].at = "off"
    BY <1>0, <2>1, GoFacts DEF Others
  <2>3. ~Launching(p)'
    BY <2>2 DEF Launching
  <2> QED BY <2>1, <2>2, <2>3 DEF Moved
<1>12. CASE Decide(p)
  <2>1. proc[p].at = "decide" /\ UNCHANGED <<boot, ticks, lease, consumed, runners>>
    BY <1>12 DEF Decide, At
  <2>2. CASE ~Permitted(p)
    BY <1>12, <2>1, <2>2, RefuseMoved DEF Decide
  <2>3. CASE Permitted(p)
    <3>1. Target(p) \in Records
      BY <1>0, <2>1, CommandsApart DEF CourseOf, Target, Records
    <3>2. Become(p, [proc[p] EXCEPT !.record = Target(p), !.at = "append"])
      BY <1>12, <2>3 DEF Decide
    <3>3. Others(p) /\ SameTask(p) /\ proc'[p].at = "append" /\ proc'[p].stage = proc[p].stage
      BY <1>0, <3>1, <3>2, RecordMove
    <3>4. Launching(p)' => Launching(p)
      BY <2>1, <3>3 DEF Launching, SameTask
    <3> QED BY <2>1, <3>3, <3>4 DEF Moved
  <2> QED BY <2>2, <2>3
<1>13. CASE LockJournal(p)
  BY <1>0, <1>13, GoMoved, RefuseMoved DEF LockJournal, Alarm, At
<1>14. CASE CheckTail(p)
  BY <1>0, <1>14, GoMoved, RefuseMoved DEF CheckTail, Alarm, At
<1>15. CASE WriteSome(p)
  BY <1>0, <1>15, GoMoved DEF WriteSome, At
<1>16. CASE WriteLine(p)
  BY <1>0, <1>16, GoMoved DEF WriteLine, At
<1>17. CASE WriteJoined(p)
  BY <1>0, <1>17, RefuseMoved DEF WriteJoined, Alarm, At
<1>18. CASE WriteNewline(p)
  BY <1>0, <1>18, GoMoved DEF WriteNewline, At
<1>19. CASE Fsync(p)
  BY <1>0, <1>19, GoMoved DEF Fsync, At
<1>20. CASE AdvanceExtent(p)
  <2>1. proc[p].at = "advance" /\ UNCHANGED <<boot, ticks, lease, consumed, runners>>
    BY <1>20 DEF AdvanceExtent, At
  <2>2. Others(p) /\ SameTask(p) /\ proc'[p].at = "load" /\ proc'[p].stage = "after"
    BY <1>0, <1>20, AdvanceMove
  <2>3. TakesLease(p) => proc[p].stage # "open"
    BY <1>0, <2>1 DEF CourseOf, TakesLease, Deciding, JournalSteps
  <2>4. Launching(p)' => Launching(p)
    BY <1>0, <2>1, <2>2, <2>3 DEF Launching, SameTask, CourseOf, TakesLease
  <2> QED BY <2>1, <2>2, <2>3, <2>4 DEF Moved
<1>21. CASE Project(p)
  <2>1. proc[p].at = "project" /\ UNCHANGED <<boot, ticks, lease, consumed>>
    BY <1>21 DEF Project, At
  <2>2. CASE proc[p].op # "launch"
    <3>1. PICK l \in {"release", "off"} : Go(p, l)
      BY <1>21, <2>2 DEF Project, Exit
    <3>2. UNCHANGED runners
      BY <1>21, <2>2 DEF Project
    <3> QED BY <1>0, <2>1, <3>1, <3>2, GoMoved
  <2>3. CASE proc[p].op = "launch"
    <3>1. Go(p, "running") /\ "running" \in Labels /\ runners' = runners + 1
      BY <1>0, <1>21, <2>3 DEF Project
    <3>2. Others(p) /\ SameTask(p) /\ proc'[p].at = "running" /\ proc'[p].stage = proc[p].stage
      BY <1>0, <3>1, GoFacts DEF Others, SameTask
    <3>3. proc[p].stage # "open"
      BY <1>0, <2>1, <2>3 DEF CourseOf, Deciding
    <3>4. Launching(p) /\ ~Launching(p)'
      BY <2>1, <2>3, <3>2, <3>3 DEF Launching
    <3> QED BY <2>1, <3>1, <3>2, <3>3, <3>4 DEF Moved
  <2> QED BY <2>2, <2>3
<1>22. CASE RunnerEnds(p)
  BY <1>0, <1>22, GoMoved DEF RunnerEnds, At
<1> QED BY <1>1, <1>2, <1>3, <1>4, <1>5, <1>6, <1>7, <1>8, <1>9, <1>10, <1>11, <1>12,
           <1>13, <1>14, <1>15, <1>16, <1>17, <1>18, <1>19, <1>20, <1>21, <1>22 DEF Step

LeaseInv == LeaseKnown /\ HolderIsNamed

LEMMA OwnerNotNone == None \notin Owners
  BY DEF Owners

LEMMA InitLease == Init => LeaseInv /\ Spent
<1> SUFFICES ASSUME Init PROVE LeaseInv /\ Spent
  OBVIOUS
<1>1. \A p \in Procs : proc[p] = Off
  BY DEF Init
<1>2. lease = None /\ runners = 0
  BY DEF Init
<1> QED BY <1>1, <1>2, OffFacts DEF LeaseInv, LeaseKnown, HolderIsNamed, Spent, Launching,
           At, TakesLease

\* A step of one program.  Only the holder of the lease's flock writes the
\* lease: a publisher replaces the owner it classified, which nobody holds, a
\* releaser unlinks its own.
LEMMA StepLease ==
    ASSUME TypeInv, TypeInv', LeaseInv, NEW p \in Procs, Step(p)
    PROVE  LeaseInv'
<1>0. /\ Moved(p) /\ Others(p) /\ UNCHANGED <<boot, ticks>>
      /\ Flocks /\ proc \in [Procs -> Programs]
      /\ boot \in Nat /\ ticks \in [Procs -> Nat] /\ lease \in Owners \cup {None}
  <2>1. Moved(p)
    BY StepMoved
  <2>2. Others(p) /\ UNCHANGED <<boot, ticks>>
    BY <2>1 DEF Moved
  <2>3. Flocks /\ proc \in [Procs -> Programs] /\ DiskTypeOK /\ EnvTypeOK
    BY DEF TypeInv, TypeOK
  <2>4. lease \in Owners \cup {None}
    BY <2>3 DEF DiskTypeOK
  <2>5. boot \in Nat /\ ticks \in [Procs -> Nat]
    BY <2>3 DEF EnvTypeOK
  <2> QED BY <2>1, <2>2, <2>3, <2>4, <2>5
<1>1. \A q \in Procs : Owner(q)' = Owner(q)
  BY <1>0 DEF Owner
<1>2. \A q \in Procs : proc'[q].at # "off" => proc[q].at # "off"
  BY <1>0 DEF Moved, Others
<1> DEFINE HeldNext(o) == o.boot = boot' /\ proc'[o.pid].at # "off" /\ ticks'[o.pid] = o.ticks
<1>3. \A o \in Owners : HeldNext(o) => Held(o)
  BY <1>0, <1>2 DEF Held, Owners, At
<1>4. \A q \in Procs : Owner(q) \in [pid : Procs, ticks : Nat, boot : Nat]
  BY <1>0 DEF Owner
<1>5. /\ lease' # None => /\ lease'.boot <= boot'
                          /\ lease'.boot = boot' => lease'.ticks <= ticks'[lease'.pid]
  <2>1. CASE lease' = lease
    BY <1>0, <2>1 DEF LeaseInv, LeaseKnown
  <2>2. CASE lease' = Owner(p)
    BY <1>0, <2>2 DEF Owner
  <2> QED BY <1>0, <2>1, <2>2 DEF Moved
<1>6. ASSUME NEW q \in Procs, proc'[q].at = "publish"
      PROVE  lease' = proc'[q].owner /\ (lease' = None \/ ~Held(lease'))
  <2>1. CASE q = p
    BY <1>0, <1>6, <2>1 DEF Moved, MayTake
  <2>2. CASE q # p
    <3>1. proc'[q] = proc[q] /\ proc[q].at = "publish"
      BY <1>0, <1>6, <2>2 DEF Others
    <3>2. lease = proc[q].owner /\ (lease = None \/ ~Held(lease))
      BY <3>1 DEF LeaseInv, LeaseKnown, At
    <3>3. leaseLock = q
      BY <1>0, <3>1 DEF Flocks, LeaseSteps
    <3>4. proc[p].at \notin LeaseSteps
      BY <1>0, <2>2, <3>3 DEF Flocks
    <3>5. lease' = lease
      BY <1>0, <3>4 DEF Moved, LeaseSteps
    <3> QED BY <3>1, <3>2, <3>5
  <2> QED BY <2>1, <2>2
<1>7. lease' = None \/ Held(lease') \/ ~HeldNext(lease')
  BY <1>3 DEF TypeInv, TypeOK, DiskTypeOK
<1>8. LeaseKnown'
  BY <1>5, <1>6, <1>7 DEF LeaseKnown, At, Held
<1>9. ASSUME NEW q \in Procs,
             proc'[q].mode # "direct", proc'[q].at # "off", proc'[q].stage # "open"
      PROVE  lease' = Owner(q)
  <2>1. CASE q = p
    BY <1>0, <1>9, <2>1 DEF Moved, SameTask, TakesLease, LeaseInv, HolderIsNamed, At
  <2>2. CASE q # p
    <3>1. proc'[q] = proc[q]
      BY <1>0, <2>2 DEF Others
    <3>2. lease = Owner(q)
      BY <1>9, <3>1 DEF LeaseInv, HolderIsNamed, TakesLease, At
    <3>3. Held(lease) /\ lease # None
      BY <1>0, <1>4, <1>9, <3>1, <3>2 DEF Held, Owner, At
    <3>4. ~(proc[p].at = "publish" /\ lease = proc[p].owner)
      BY <3>3 DEF LeaseInv, LeaseKnown, At
    <3>5. lease # Owner(p)
      BY <2>2, <3>2 DEF Owner
    <3>6. lease' = lease
      BY <1>0, <3>4, <3>5 DEF Moved
    <3> QED BY <3>2, <3>6
  <2> QED BY <2>1, <2>2
<1>10. HolderIsNamed'
  BY <1>1, <1>9 DEF HolderIsNamed, TakesLease, At
<1> QED BY <1>8, <1>10 DEF LeaseInv

\* Programs that start or die, other stores and power failures: an owner that
\* is not held stays so, since a new program has new start ticks and every
\* power failure a new boot.
LEMMA EventLease ==
    ASSUME TypeInv, TypeInv', LeaseInv,
           \/ \E p \in Procs, op \in Ops, mode \in Modes : Start(p, op, mode)
           \/ \E p \in Procs : Kill(p)
           \/ ConsumedElsewhere
           \/ PowerFails
    PROVE  LeaseInv'
<1> USE DEF disk, locks, env
<1>0. /\ TypeOK /\ proc \in [Procs -> Programs] /\ lease \in Owners \cup {None}
      /\ boot \in Nat /\ ticks \in [Procs -> Nat]
  <2>1. TypeOK /\ proc \in [Procs -> Programs] /\ lease \in Owners \cup {None}
    BY DEF TypeInv, TypeOK, DiskTypeOK
  <2>2. EnvTypeOK
    BY <2>1 DEF TypeOK
  <2> QED BY <2>1, <2>2 DEF EnvTypeOK
<1>1. ASSUME NEW p \in Procs, NEW op \in Ops, NEW mode \in Modes, Start(p, op, mode)
      PROVE  LeaseInv'
  <2>1. /\ proc[p].at = "off" /\ ticks' = [ticks EXCEPT ![p] = @ + 1]
        /\ UNCHANGED <<lease, boot>>
    BY <1>1 DEF Start, At
  <2>2. /\ Others(p) /\ proc'[p].at \in {"mkdir", "load"} /\ proc'[p].stage = "open"
    BY <1>0, <1>1, StartMove
  <2>3. ticks'[p] = ticks[p] + 1 /\ \A q \in Procs \ {p} : ticks'[q] = ticks[q]
    BY <1>0, <2>1
  <2>4. lease # None => /\ lease.boot <= boot
                        /\ lease.boot = boot => lease.ticks <= ticks'[lease.pid]
    BY <1>0, <2>3 DEF LeaseInv, LeaseKnown, Owners
  <2>5. lease # None /\ ~Held(lease) => ~Held(lease)'
    <3> SUFFICES ASSUME lease \in Owners, ~Held(lease), Held(lease)' PROVE FALSE
      BY <1>0
    <3>1. /\ lease.boot = boot /\ proc'[lease.pid].at # "off" /\ ticks'[lease.pid] = lease.ticks
          /\ lease.pid \in Procs /\ lease.ticks \in Nat
      BY <2>1 DEF Held, At, Owners
    <3>2. CASE lease.pid = p
      <4>1. lease.ticks <= ticks[p]
        BY <3>1, <3>2, OwnerNotNone DEF LeaseInv, LeaseKnown
      <4> QED BY <1>0, <2>3, <3>1, <3>2, <4>1
    <3>3. CASE lease.pid # p
      BY <2>2, <2>3, <3>1, <3>3 DEF Held, At, Others
    <3> QED BY <3>2, <3>3
  <2>6. LeaseKnown'
    BY <2>1, <2>2, <2>4, <2>5 DEF LeaseInv, LeaseKnown, At, Others
  <2>7. \A q \in Procs \ {p} : Owner(q)' = Owner(q)
    BY <2>1, <2>3 DEF Owner
  <2>8. HolderIsNamed'
    BY <2>1, <2>2, <2>7 DEF LeaseInv, HolderIsNamed, TakesLease, At, Others
  <2> QED BY <2>6, <2>8 DEF LeaseInv
<1>2. ASSUME NEW p \in Procs, Kill(p) PROVE LeaseInv'
  <2>1. Go(p, "off") /\ "off" \in Labels /\ UNCHANGED <<lease, boot, ticks>>
    BY <1>2 DEF Kill, Labels
  <2>2. Others(p) /\ proc'[p].at = "off"
    BY <1>0, <2>1, GoFacts DEF Others
  <2>3. lease \in Owners => (Held(lease)' => Held(lease))
    BY <2>1, <2>2 DEF Held, At, Others, Owners
  <2>4. LeaseKnown'
    BY <1>0, <2>1, <2>2, <2>3 DEF LeaseInv, LeaseKnown, At, Others
  <2>5. \A q \in Procs : Owner(q)' = Owner(q)
    BY <2>1 DEF Owner
  <2>6. HolderIsNamed'
    BY <2>1, <2>2, <2>5 DEF LeaseInv, HolderIsNamed, TakesLease, At, Others
  <2> QED BY <2>4, <2>6 DEF LeaseInv
<1>3. CASE ConsumedElsewhere
  <2>1. UNCHANGED <<lease, boot, ticks, proc>>
    BY <1>3 DEF ConsumedElsewhere
  <2> QED BY <2>1 DEF LeaseInv, LeaseKnown, HolderIsNamed, TakesLease, At, Held, Owner
<1>4. CASE PowerFails
  <2>1. boot' = boot + 1 /\ proc' = [q \in Procs |-> Off] /\ lease' = lease
    BY <1>4 DEF PowerFails
  <2>2. \A q \in Procs : proc'[q].at = "off"
    BY <2>1, OffFacts
  <2>3. lease # None => lease.boot <= boot /\ lease.boot \in Nat
    BY <1>0 DEF LeaseInv, LeaseKnown, Owners
  <2>4. LeaseKnown'
    BY <1>0, <2>1, <2>2, <2>3 DEF LeaseKnown, At
  <2>5. HolderIsNamed'
    BY <2>2 DEF HolderIsNamed, At
  <2> QED BY <2>4, <2>5 DEF LeaseInv
<1> QED BY <1>1, <1>2, <1>3, <1>4

\* A launch and its runner: only the launch whose CONSUMED record was the
\* first goes on, and it starts one runner.
LEMMA StepSpent ==
    ASSUME TypeInv, TypeInv', Spent, [Next]_vars
    PROVE  Spent'
<1> USE DEF disk, locks, env
<1>0. /\ TypeOK /\ proc \in [Procs -> Programs] /\ runners \in Nat /\ consumed \in BOOLEAN
  BY DEF TypeInv, TypeOK, DiskTypeOK, EnvTypeOK
<1>1. ASSUME NEW p \in Procs, Step(p) PROVE Spent'
  <2>1. Moved(p)
    BY <1>1, StepMoved
  <2>2. \A q \in Procs \ {p} : Launching(q)' <=> Launching(q)
    BY <2>1 DEF Moved, Others, Launching
  <2>3. CASE runners' = runners /\ consumed' = consumed /\ (Launching(p)' => Launching(p))
    BY <2>2, <2>3 DEF Spent
  <2>4. CASE runners' = runners /\ consumed' = TRUE /\ (Launching(p)' => ~consumed)
    BY <1>0, <2>2, <2>4 DEF Spent
  <2>5. CASE Launching(p) /\ runners' = runners + 1 /\ ~Launching(p)'
    <3>1. consumed /\ runners = 0 /\ \A q \in Procs : Launching(q) => q = p
      BY <2>5 DEF Spent
    <3>2. consumed'
      BY <2>1, <3>1 DEF Moved
    <3> QED BY <2>2, <2>5, <3>1, <3>2 DEF Spent
  <2> QED BY <2>1, <2>3, <2>4, <2>5 DEF Moved
<1>2. ASSUME NEW p \in Procs, NEW op \in Ops, NEW mode \in Modes, Start(p, op, mode)
      PROVE  Spent'
  <2>1. UNCHANGED <<consumed, runners>>
    BY <1>2 DEF Start
  <2>2. Others(p) /\ proc'[p].stage = "open"
    BY <1>0, <1>2, StartMove
  <2>3. \A q \in Procs : Launching(q)' => Launching(q)
    BY <2>2 DEF Launching, Others
  <2> QED BY <2>1, <2>3 DEF Spent
<1>3. ASSUME NEW p \in Procs, Kill(p) PROVE Spent'
  <2>1. Go(p, "off") /\ "off" \in Labels /\ UNCHANGED <<consumed, runners>>
    BY <1>3 DEF Kill, Labels
  <2>2. Others(p) /\ proc'[p].at = "off"
    BY <1>0, <2>1, GoFacts DEF Others
  <2>3. \A q \in Procs : Launching(q)' => Launching(q)
    BY <2>2 DEF Launching, Others
  <2> QED BY <2>1, <2>3 DEF Spent
<1>4. CASE ConsumedElsewhere
  <2>1. ~consumed /\ consumed' = TRUE /\ runners' = runners + 1 /\ proc' = proc
    BY <1>4 DEF ConsumedElsewhere
  <2>2. runners = 0 /\ \A q \in Procs : ~Launching(q)
    BY <2>1 DEF Spent
  <2>3. \A q \in Procs : Launching(q)' <=> Launching(q)
    BY <2>1 DEF Launching
  <2> QED BY <2>1, <2>2, <2>3 DEF Spent
<1>5. CASE PowerFails
  <2>1. UNCHANGED <<consumed, runners>> /\ proc' = [q \in Procs |-> Off]
    BY <1>5 DEF PowerFails
  <2>2. \A q \in Procs : ~Launching(q)'
    BY <2>1, OffFacts DEF Launching
  <2> QED BY <2>1, <2>2 DEF Spent
<1>6. CASE UNCHANGED vars
  BY <1>6 DEF Spent, Launching, vars
<1> QED BY <1>1, <1>2, <1>3, <1>4, <1>5, <1>6 DEF Next

LEMMA LeaseInductive == TypeInv /\ TypeInv' /\ LeaseInv /\ [Next]_vars => LeaseInv'
<1> SUFFICES ASSUME TypeInv, TypeInv', LeaseInv, [Next]_vars PROVE LeaseInv'
  OBVIOUS
<1>1. CASE UNCHANGED vars
  BY <1>1 DEF LeaseInv, LeaseKnown, HolderIsNamed, TakesLease, At, Held, Owner, vars, disk, env
<1> QED BY <1>1, StepLease, EventLease DEF Next

\* A program that has taken the lease and still runs is the one the lease file
\* names, whatever died, was adopted or was released meanwhile.
THEOREM OneHolder == Spec => []HolderIsNamed
<1>1. LeaseInv => HolderIsNamed
  BY DEF LeaseInv
<1> QED BY InitType, StepType, InitLease, LeaseInductive, <1>1, PTL DEF Spec

\* The runner of a work manifest is started at most once.
THEOREM OneRunner == Spec => []RunnerOnce
<1>1. Spent => RunnerOnce
  BY DEF Spent, RunnerOnce
<1>2. TypeInv /\ TypeInv' /\ Spent /\ [Next]_vars => Spent'
  BY StepSpent
<1> QED BY InitType, StepType, InitLease, <1>1, <1>2, PTL DEF Spec

---------------------------------------------------------------------------
(* Histories.                                                              *)

LEMMA PrefixOfPrefix ==
    ASSUME NEW s \in Seq(Records), NEW n \in Nat, n <= Len(s), NEW m \in Nat, m <= n
    PROVE  SubSeq(SubSeq(s, 1, n), 1, m) = SubSeq(s, 1, m)
<1>1. /\ SubSeq(s, 1, n) \in Seq(Records) /\ Len(SubSeq(s, 1, n)) = n
      /\ \A k \in 1..n : SubSeq(s, 1, n)[k] = s[k]
  BY SMT
<1> DEFINE t == SubSeq(s, 1, n)
<1> HIDE DEF t
<1>2. t \in Seq(Records) /\ Len(t) = n /\ \A k \in 1..n : t[k] = s[k]
  BY <1>1 DEF t
<1>3. /\ SubSeq(t, 1, m) \in Seq(Records) /\ Len(SubSeq(t, 1, m)) = m
      /\ \A k \in 1..m : SubSeq(t, 1, m)[k] = s[k]
  BY <1>2
<1>4. /\ SubSeq(s, 1, m) \in Seq(Records) /\ Len(SubSeq(s, 1, m)) = m
      /\ \A k \in 1..m : SubSeq(s, 1, m)[k] = s[k]
  BY SMT
<1>5. SubSeq(t, 1, m) = SubSeq(s, 1, m)
  BY <1>3, <1>4, SeqEqual
<1> QED BY <1>5 DEF t

LEMMA PrefixOfAppend ==
    ASSUME NEW s \in Seq(Records), NEW r \in Records, NEW m \in Nat, m <= Len(s)
    PROVE  SubSeq(Append(s, r), 1, m) = SubSeq(s, 1, m)
<1>1. /\ Append(s, r) \in Seq(Records) /\ Len(Append(s, r)) = Len(s) + 1
      /\ \A k \in 1..Len(s) : Append(s, r)[k] = s[k]
  BY AppendProperties
<1> DEFINE t == Append(s, r)
<1> HIDE DEF t
<1>2. t \in Seq(Records) /\ Len(t) = Len(s) + 1 /\ \A k \in 1..Len(s) : t[k] = s[k]
  BY <1>1 DEF t
<1>3. /\ SubSeq(t, 1, m) \in Seq(Records) /\ Len(SubSeq(t, 1, m)) = m
      /\ \A k \in 1..m : SubSeq(t, 1, m)[k] = s[k]
  <2>1. m <= Len(t) /\ \A k \in 1..m : k \in 1..Len(s) /\ k \in 1..Len(t)
    BY <1>2
  <2>2. /\ SubSeq(t, 1, m) \in Seq(Records) /\ Len(SubSeq(t, 1, m)) = m
        /\ \A k \in 1..m : SubSeq(t, 1, m)[k] = t[k]
    BY <1>2, <2>1, SMT
  <2> QED BY <1>2, <2>1, <2>2
<1>4. /\ SubSeq(s, 1, m) \in Seq(Records) /\ Len(SubSeq(s, 1, m)) = m
      /\ \A k \in 1..m : SubSeq(s, 1, m)[k] = s[k]
  BY SMT
<1>5. SubSeq(t, 1, m) = SubSeq(s, 1, m)
  BY <1>3, <1>4, SeqEqual
<1> QED BY <1>5 DEF t

\* Every prefix of a legal history is one.
LEMMA PrefixIsLegal ==
    ASSUME NEW h \in Seq(Records), LegalHistory(h), NEW n \in Nat, n <= Len(h)
    PROVE  LegalHistory(SubSeq(h, 1, n))
<1> DEFINE g == SubSeq(h, 1, n)
<1>1. Len(g) = n /\ \A k \in 1..n : g[k] = h[k]
  BY SMT
<1>2. \A k \in 1..n : k - 1 \in Nat /\ k - 1 <= n /\ k \in 1..Len(h)
  OBVIOUS
<1>3. \A k \in 1..n : SubSeq(g, 1, k - 1) = SubSeq(h, 1, k - 1)
  BY <1>2, PrefixOfPrefix
<1> HIDE DEF g
<1>4. \A k \in 1..n : MayFollow(SubSeq(g, 1, k - 1), g[k])
  BY <1>1, <1>2, <1>3 DEF LegalHistory
<1>5. LegalHistory(g)
  BY <1>1, <1>4 DEF LegalHistory
<1> QED BY <1>5 DEF g

LEMMA FrontIsLegal ==
    ASSUME NEW h \in Seq(Records), h # <<>>, LegalHistory(h)
    PROVE  LegalHistory(Front(h))
<1>1. Len(h) - 1 \in Nat /\ Len(h) - 1 <= Len(h)
  OBVIOUS
<1> QED BY <1>1, PrefixIsLegal DEF Front

\* append_record keeps the history legal when it is asked for what may follow.
LEMMA AppendIsLegal ==
    ASSUME NEW h \in Seq(Records), LegalHistory(h), NEW r \in Records, MayFollow(h, r)
    PROVE  LegalHistory(Append(h, r))
<1> DEFINE g == Append(h, r)
<1>1. /\ Len(g) = Len(h) + 1 /\ \A k \in 1..Len(h) : g[k] = h[k]
      /\ g[Len(h) + 1] = r /\ Len(h) \in Nat
  BY AppendProperties
<1>2. \A k \in 1..(Len(h) + 1) : SubSeq(g, 1, k - 1) = SubSeq(h, 1, k - 1)
  <2>1. \A k \in 1..(Len(h) + 1) : k - 1 \in Nat /\ k - 1 <= Len(h)
    BY <1>1
  <2> QED BY <2>1, PrefixOfAppend
<1>3. SubSeq(h, 1, Len(h)) = h
  BY SubSeqFull
<1> HIDE DEF g
<1>4. ASSUME NEW k \in 1..(Len(h) + 1) PROVE MayFollow(SubSeq(g, 1, k - 1), g[k])
  <2>1. CASE k \in 1..Len(h)
    BY <1>1, <1>2, <2>1 DEF LegalHistory
  <2>2. CASE k = Len(h) + 1
    <3>1. k - 1 = Len(h) /\ g[k] = r
      BY <1>1, <2>2
    <3>2. SubSeq(g, 1, k - 1) = h
      BY <1>2, <1>3, <3>1
    <3> QED BY <3>1, <3>2
  <2> QED BY <1>1, <2>1, <2>2
<1>5. LegalHistory(g)
  BY <1>1, <1>4 DEF LegalHistory
<1> QED BY <1>5 DEF g

---------------------------------------------------------------------------
(* The journal and its extent.                                             *)

\* What a step of p does to the journal, to what follows it and to the extent.
Quiet(p) == UNCHANGED <<journal, tail, binding>> /\ proc'[p].at # "line"
Begins(p) ==
    /\ proc[p].at = "write" /\ tail' = "torn" /\ binding' = binding
    /\ tail = "bare" => journal' = Front(journal) /\ proc'[p].at = "joined"
    /\ tail # "bare" => journal' = journal /\ proc'[p].at = "line"
Completes(p) ==
    /\ proc[p].at = "line" /\ tail' = "bare" /\ binding' = binding
    /\ journal' = Append(journal, proc[p].record) /\ proc'[p].at = "newline"
Ends(p) ==
    /\ proc[p].at = "newline" /\ tail' = "clean" /\ proc'[p].at = "sync"
    /\ UNCHANGED <<journal, binding>>
Binds(p) ==
    /\ journal = <<>> /\ tail = "clean" /\ binding = None /\ binding' = 0
    /\ UNCHANGED <<journal, tail>> /\ proc'[p].at = "check"
Commits(p) ==
    /\ proc[p].at = "advance" /\ binding' = Len(journal) /\ proc'[p].at = "load"
    /\ UNCHANGED <<journal, tail>>

Wrote(p) ==
    /\ Others(p) /\ UNCHANGED boot
    /\ Quiet(p) \/ Begins(p) \/ Completes(p) \/ Ends(p) \/ Binds(p) \/ Commits(p)
    /\ proc'[p].at = "project" => Quiet(p) /\ proc'[p].view = journal
    /\ projection' = projection \/ (At(p, "project") /\ projection' = proc[p].view)

Kept1(p) == Wrote(p) /\ KeptOf(p)' /\ "rolled_back" \notin alarms'

Touching == {"mkdir", "identity", "read", "append", "project"} \cup JournalSteps

\* A step that leaves the journal alone and ends where KeptOf says nothing.
LEMMA QuietMove ==
    ASSUME Kept, NEW p \in Procs, Others(p), proc'[p].at \notin Touching, UNCHANGED boot,
           UNCHANGED <<journal, tail, binding>>, "rolled_back" \notin alarms',
           projection' = projection \/ (At(p, "project") /\ projection' = proc[p].view)
    PROVE  Kept1(p)
<1>1. KeptOf(p)'
  BY DEF KeptOf, At, Touching, JournalSteps
<1>2. Wrote(p)
  BY DEF Wrote, Quiet, Touching, JournalSteps
<1> QED BY <1>1, <1>2 DEF Kept1

LEMMA QuietGo ==
    ASSUME TypeInv, Kept, NEW p \in Procs, NEW l \in Labels, Go(p, l), l \notin Touching,
           UNCHANGED <<journal, tail, binding, alarms, boot>>,
           projection' = projection \/ (At(p, "project") /\ projection' = proc[p].view)
    PROVE  Kept1(p)
<1>1. Others(p) /\ proc'[p].at = l
  BY GoFacts DEF TypeInv, TypeOK, Others
<1>2. "rolled_back" \notin alarms'
  BY DEF Kept
<1> QED BY <1>1, <1>2, QuietMove

LEMMA QuietRefuse ==
    ASSUME TypeInv, Kept, NEW p \in Procs, Refuse(p), UNCHANGED <<journal, tail, binding, boot>>,
           "rolled_back" \notin alarms', projection' = projection
    PROVE  Kept1(p)
<1>1. Others(p) /\ proc'[p].at \in {"release", "off"}
  BY RefuseMove DEF TypeInv
<1>2. proc'[p].at \notin Touching
  BY <1>1 DEF Touching, JournalSteps
<1> QED BY <1>1, <1>2, QuietMove

\* Commands and the lease.
LEMMA KeptCommands ==
    ASSUME TypeInv, Kept, NEW p \in Procs,
           \/ MakeDirectory(p) \/ WriteIdentity(p) \/ LoadBinding(p) \/ ReadJournal(p)
           \/ Preflight(p) \/ LockLease(p) \/ Classify(p) \/ Publish(p) \/ Consume(p)
           \/ LockRelease(p) \/ Unlink(p) \/ Decide(p) \/ Project(p) \/ RunnerEnds(p)
    PROVE  Kept1(p)
<1> USE DEF disk, locks, env
<1>0. /\ TypeOK /\ proc \in [Procs -> Programs] /\ proc[p] \in Programs /\ CourseOf(proc[p])
      /\ KeptOf(p) /\ "rolled_back" \notin alarms
      /\ journal \in Seq(Records) /\ Len(journal) \in Nat /\ binding \in Nat \cup {None}
      /\ Labels = {"off", "mkdir", "identity", "load", "read", "preflight", "lock",
                   "classify", "publish", "consume", "release", "unlink", "decide",
                   "append", "check", "write", "line", "joined", "newline", "sync",
                   "advance", "project", "running"}
      /\ Touching = {"mkdir", "identity", "read", "append", "project", "check", "write",
                     "line", "joined", "newline", "sync", "advance"}
  BY DEF TypeInv, TypeOK, DiskTypeOK, Course, Kept, Labels, Touching, JournalSteps
<1>1. CASE MakeDirectory(p)
  <2>1. CASE store = "absent"
    <3>1. Go(p, "identity") /\ "identity" \in Labels /\ proc[p].at = "mkdir"
          /\ UNCHANGED <<journal, tail, binding, projection, boot, alarms>>
      BY <1>0, <1>1, <2>1 DEF MakeDirectory, At
    <3>2. Others(p) /\ proc'[p].at = "identity" /\ proc'[p].view = <<>>
      BY <1>0, <3>1, GoFacts DEF Others, KeptOf
    <3>3. KeptOf(p)'
      BY <3>2 DEF KeptOf, At, JournalSteps
    <3> QED BY <1>0, <3>1, <3>2, <3>3 DEF Kept1, Wrote, Quiet
  <2>2. CASE store # "absent"
    BY <1>0, <1>1, <2>2, QuietRefuse DEF MakeDirectory
  <2> QED BY <2>1, <2>2
<1>2. CASE WriteIdentity(p)
  <2>1. /\ "PLANNED" \in Records /\ "PLANNED" \notin Manifests /\ proc[p].at = "identity"
        /\ Become(p, [proc[p] EXCEPT !.record = "PLANNED", !.at = "append"])
        /\ UNCHANGED <<journal, tail, binding, projection, boot, alarms>>
    BY <1>2, CommandsApart DEF WriteIdentity, At
  <2>2. /\ Others(p) /\ proc'[p].at = "append" /\ proc'[p].record = "PLANNED"
        /\ proc'[p].view = <<>>
    BY <1>0, <2>1, RecordMove DEF KeptOf
  <2>3. MayFollow(<<>>, "PLANNED")
    BY <2>1 DEF MayFollow
  <2>4. KeptOf(p)'
    BY <2>2, <2>3 DEF KeptOf, At, JournalSteps
  <2> QED BY <1>0, <2>1, <2>2, <2>4 DEF Kept1, Wrote, Quiet
<1>3. CASE LoadBinding(p)
  <2>1. UNCHANGED <<journal, tail, binding, projection, boot, alarms>>
    BY <1>3 DEF LoadBinding
  <2>2. Others(p) /\ proc'[p].at = "read" /\ proc'[p].seen = binding
    BY <1>0, <1>3, LoadMove
  <2>3. KeptOf(p)'
    BY <1>0, <2>1, <2>2 DEF KeptOf, At, JournalSteps
  <2> QED BY <1>0, <2>1, <2>2, <2>3 DEF Kept1, Wrote, Quiet
<1>4. CASE ReadJournal(p)
  <2>1. proc[p].at = "read" /\ UNCHANGED <<journal, tail, binding, projection, boot>>
    BY <1>4 DEF ReadJournal, At
  <2>2. proc[p].seen # None => proc[p].seen <= Len(journal) /\ proc[p].seen \in Nat
    BY <1>0, <2>1 DEF KeptOf, Kept, At, Programs
  <2>3. ExtentVerdict(proc[p].seen) \in {"ok", "unbound"}
    BY <1>0, <2>2 DEF ExtentVerdict
  <2>4. CASE ExtentVerdict(proc[p].seen) = "unbound"
    <3>1. Refuse(p) /\ alarms' = alarms \cup {"unbound"}
      BY <1>4, <2>4 DEF ReadJournal, Alarm
    <3> QED BY <1>0, <2>1, <3>1, QuietRefuse
  <2>5. CASE ExtentVerdict(proc[p].seen) = "ok"
    <3>1. proc[p].stage \in {"open", "before", "after"}
      BY <1>0 DEF Programs
    <3>2. /\ AfterReplay(p) \in {"off", "preflight", "lock", "load", "decide", "project"}
          /\ AfterReplay(p) \in Labels
      BY <1>0, <3>1 DEF AfterReplay
    <3>3. /\ Others(p) /\ proc'[p].at = AfterReplay(p) /\ alarms' = alarms
          /\ AfterReplay(p) # "off" => proc'[p].view = journal
      BY <1>0, <1>4, <2>5, <3>2, ReadMove
    <3>4. KeptOf(p)'
      BY <3>2, <3>3 DEF KeptOf, At, JournalSteps
    <3> QED BY <1>0, <2>1, <3>2, <3>3, <3>4 DEF Kept1, Wrote, Quiet
  <2> QED BY <2>3, <2>4, <2>5
<1>5. CASE Preflight(p)
  BY <1>0, <1>5, QuietGo DEF Preflight
<1>6. CASE LockLease(p)
  BY <1>0, <1>6, QuietGo DEF LockLease
<1>7. CASE Classify(p)
  <2>1. UNCHANGED <<journal, tail, binding, projection, boot, alarms>>
    BY <1>7 DEF Classify
  <2>2. CASE ~MayTake(p)
    BY <1>0, <1>7, <2>1, <2>2, QuietRefuse DEF Classify
  <2>3. CASE MayTake(p)
    BY <1>0, <1>7, <2>1, <2>3, ClassifyMove, QuietMove
  <2> QED BY <2>2, <2>3
<1>8. CASE Publish(p)
  <2>1. UNCHANGED <<journal, tail, binding, projection, boot, alarms>>
    BY <1>8 DEF Publish
  <2>2. CASE lease # proc[p].owner
    BY <1>0, <1>8, <2>1, <2>2, QuietRefuse DEF Publish
  <2>3. CASE lease = proc[p].owner
    BY <1>0, <1>8, <2>1, <2>3, PublishMove, QuietMove
  <2> QED BY <2>2, <2>3
<1>9. CASE Consume(p)
  BY <1>0, <1>9, QuietGo DEF Consume
<1>10. CASE LockRelease(p)
  BY <1>0, <1>10, QuietGo DEF LockRelease
<1>11. CASE Unlink(p)
  BY <1>0, <1>11, QuietGo DEF Unlink
<1>12. CASE Decide(p)
  <2>1. proc[p].at = "decide" /\ UNCHANGED <<journal, tail, binding, projection, boot, alarms>>
    BY <1>12 DEF Decide, At
  <2>2. CASE ~Permitted(p)
    BY <1>0, <1>12, <2>1, <2>2, QuietRefuse DEF Decide
  <2>3. CASE Permitted(p)
    <3>1. Target(p) \in Records
      BY <1>0, <2>1, CommandsApart DEF CourseOf, Target, Records
    <3>2. Become(p, [proc[p] EXCEPT !.record = Target(p), !.at = "append"])
      BY <1>12, <2>3 DEF Decide
    <3>3. /\ Others(p) /\ proc'[p].at = "append" /\ proc'[p].record = Target(p)
          /\ proc'[p].view = proc[p].view
      BY <1>0, <3>1, <3>2, RecordMove
    <3>4. MayFollow(proc[p].view, Target(p))
      BY <2>3 DEF Permitted, MayFollow
    <3>5. KeptOf(p)'
      BY <3>3, <3>4 DEF KeptOf, At, JournalSteps
    <3> QED BY <1>0, <2>1, <3>3, <3>5 DEF Kept1, Wrote, Quiet
  <2> QED BY <2>2, <2>3
<1>13. CASE Project(p)
  <2>1. PICK l \in {"running", "release", "off"} : Go(p, l)
    BY <1>13 DEF Project, Exit
  <2>2. /\ At(p, "project") /\ projection' = proc[p].view
        /\ UNCHANGED <<journal, tail, binding, boot, alarms>>
    BY <1>13 DEF Project
  <2> QED BY <1>0, <2>1, <2>2, QuietGo
<1>14. CASE RunnerEnds(p)
  BY <1>0, <1>14, QuietGo DEF RunnerEnds
<1> QED BY <1>1, <1>2, <1>3, <1>4, <1>5, <1>6, <1>7, <1>8, <1>9, <1>10, <1>11, <1>12,
           <1>13, <1>14

\* append_record: what each step leaves to the next one under the flock.
LEMMA KeptAppends ==
    ASSUME TypeInv, Kept, NEW p \in Procs,
           \/ LockJournal(p) \/ CheckTail(p) \/ WriteSome(p) \/ WriteLine(p)
           \/ WriteJoined(p) \/ WriteNewline(p) \/ Fsync(p) \/ AdvanceExtent(p)
    PROVE  Kept1(p)
<1> USE DEF disk, locks, env
<1>0. /\ TypeOK /\ proc \in [Procs -> Programs] /\ proc[p] \in Programs /\ CourseOf(proc[p])
      /\ KeptOf(p) /\ "rolled_back" \notin alarms
      /\ journal \in Seq(Records) /\ Len(journal) \in Nat /\ binding \in Nat \cup {None}
      /\ binding # None => binding <= Len(journal)
      /\ {"check", "write", "joined", "line", "newline", "sync", "advance"} \subseteq Labels
  BY DEF TypeInv, TypeOK, DiskTypeOK, Course, Kept, Labels
<1>1. CASE LockJournal(p)
  <2>1. /\ proc[p].at = "append" /\ MayFollow(proc[p].view, proc[p].record)
        /\ UNCHANGED <<journal, tail, projection, boot>>
    BY <1>0, <1>1 DEF LockJournal, At, KeptOf
  <2>2. CASE binding = None /\ HasBytes
    <3>1. Refuse(p) /\ alarms' = alarms \cup {"unbound"} /\ binding' = binding
      BY <1>1, <2>2 DEF LockJournal, Alarm
    <3> QED BY <1>0, <2>1, <3>1, QuietRefuse
  <2>3. CASE ~(binding = None /\ HasBytes)
    <3>1. /\ Go(p, "check") /\ alarms' = alarms
          /\ binding' = IF binding = None THEN 0 ELSE binding
      BY <1>1, <2>3 DEF LockJournal
    <3>2. /\ Others(p) /\ proc'[p].at = "check" /\ proc'[p].view = proc[p].view
          /\ proc'[p].record = proc[p].record
      BY <1>0, <3>1, GoFacts DEF Others
    <3>3. KeptOf(p)'
      BY <1>0, <2>1, <3>1, <3>2 DEF KeptOf, At, JournalSteps
    <3>4. Quiet(p) \/ Binds(p)
      BY <1>0, <2>1, <2>3, <3>1, <3>2 DEF Quiet, Binds, HasBytes, DiskTypeOK
    <3> QED BY <1>0, <2>1, <3>1, <3>2, <3>3, <3>4 DEF Kept1, Wrote
  <2> QED BY <2>2, <2>3
<1>2. CASE CheckTail(p)
  <2>1. /\ proc[p].at = "check" /\ MayFollow(proc[p].view, proc[p].record) /\ binding # None
        /\ UNCHANGED <<journal, tail, binding, projection, boot>>
    BY <1>0, <1>2 DEF CheckTail, At, KeptOf, JournalSteps
  <2>2. ExtentVerdict(binding) = "ok"
    BY <1>0, <2>1 DEF ExtentVerdict
  <2>3. CASE ~TailMatches(p)
    BY <1>0, <1>2, <2>1, <2>3, QuietRefuse DEF CheckTail
  <2>4. CASE TailMatches(p)
    <3>1. Go(p, "write") /\ alarms' = alarms
      BY <1>2, <2>2, <2>4 DEF CheckTail
    <3>2. /\ Others(p) /\ proc'[p].at = "write" /\ proc'[p].view = proc[p].view
          /\ proc'[p].record = proc[p].record
      BY <1>0, <3>1, GoFacts DEF Others
    <3>3. tail # "torn" /\ journal = proc[p].view
      BY <2>4 DEF TailMatches
    <3>4. KeptOf(p)'
      BY <1>0, <2>1, <3>2, <3>3 DEF KeptOf, At, JournalSteps
    <3> QED BY <1>0, <2>1, <3>1, <3>2, <3>4 DEF Kept1, Wrote, Quiet
  <2> QED BY <2>3, <2>4
<1>3. CASE WriteSome(p)
  <2>1. /\ proc[p].at = "write" /\ tail' = "torn" /\ tail # "torn"
        /\ MayFollow(proc[p].view, proc[p].record) /\ journal = proc[p].view /\ binding # None
        /\ UNCHANGED <<binding, projection, boot, alarms>>
    BY <1>0, <1>3 DEF WriteSome, At, KeptOf, JournalSteps
  <2>2. CASE tail = "bare"
    <3>1. Go(p, "joined") /\ journal' = Front(journal)
      BY <1>3, <2>2 DEF WriteSome
    <3>2. Others(p) /\ proc'[p].at = "joined"
      BY <1>0, <3>1, GoFacts DEF Others
    <3>3. KeptOf(p)'
      BY <1>0, <2>1, <3>2 DEF KeptOf, At, JournalSteps
    <3> QED BY <1>0, <2>1, <2>2, <3>1, <3>2, <3>3 DEF Kept1, Wrote, Begins
  <2>3. CASE tail # "bare"
    <3>1. Go(p, "line") /\ journal' = journal
      BY <1>3, <2>3 DEF WriteSome
    <3>2. /\ Others(p) /\ proc'[p].at = "line" /\ proc'[p].view = proc[p].view
          /\ proc'[p].record = proc[p].record
      BY <1>0, <3>1, GoFacts DEF Others
    <3>3. KeptOf(p)'
      BY <1>0, <2>1, <3>1, <3>2 DEF KeptOf, At, JournalSteps
    <3> QED BY <1>0, <2>1, <2>3, <3>1, <3>2, <3>3 DEF Kept1, Wrote, Begins
  <2> QED BY <2>2, <2>3
<1>4. CASE WriteLine(p)
  <2>1. /\ proc[p].at = "line" /\ tail' = "bare" /\ Go(p, "newline") /\ binding # None
        /\ journal' = Append(journal, proc[p].record) /\ proc[p].record \in Records
        /\ UNCHANGED <<binding, projection, boot, alarms>>
    BY <1>0, <1>4 DEF WriteLine, At, KeptOf, CourseOf, JournalSteps
  <2>2. Others(p) /\ proc'[p].at = "newline"
    BY <1>0, <2>1, GoFacts DEF Others
  <2>3. Len(journal') = Len(journal) + 1
    BY <1>0, <2>1, AppendProperties
  <2>4. binding' < Len(journal')
    BY <1>0, <2>1, <2>3
  <2>5. KeptOf(p)'
    BY <1>0, <2>1, <2>2, <2>4 DEF KeptOf, At, JournalSteps
  <2> QED BY <1>0, <2>1, <2>2, <2>5 DEF Kept1, Wrote, Completes
<1>5. CASE WriteJoined(p)
  <2>1. /\ Refuse(p) /\ alarms' = alarms \cup {"spoiled"}
        /\ UNCHANGED <<journal, tail, binding, projection, boot>>
    BY <1>5 DEF WriteJoined, Alarm
  <2> QED BY <1>0, <2>1, QuietRefuse
<1>6. CASE WriteNewline(p)
  <2>1. /\ proc[p].at = "newline" /\ tail' = "clean" /\ Go(p, "sync") /\ binding # None
        /\ binding < Len(journal) /\ UNCHANGED <<journal, binding, projection, boot, alarms>>
    BY <1>0, <1>6 DEF WriteNewline, At, KeptOf, JournalSteps
  <2>2. Others(p) /\ proc'[p].at = "sync"
    BY <1>0, <2>1, GoFacts DEF Others
  <2>3. KeptOf(p)'
    BY <1>0, <2>1, <2>2 DEF KeptOf, At, JournalSteps
  <2> QED BY <1>0, <2>1, <2>2, <2>3 DEF Kept1, Wrote, Ends
<1>7. CASE Fsync(p)
  <2>1. /\ proc[p].at = "sync" /\ tail = "clean" /\ Go(p, "advance") /\ binding # None
        /\ binding < Len(journal) /\ UNCHANGED <<journal, tail, binding, projection, boot, alarms>>
    BY <1>0, <1>7 DEF Fsync, At, KeptOf, JournalSteps
  <2>2. Others(p) /\ proc'[p].at = "advance"
    BY <1>0, <2>1, GoFacts DEF Others
  <2>3. KeptOf(p)'
    BY <1>0, <2>1, <2>2 DEF KeptOf, At, JournalSteps
  <2> QED BY <1>0, <2>1, <2>2, <2>3 DEF Kept1, Wrote, Quiet
<1>8. CASE AdvanceExtent(p)
  <2>1. /\ proc[p].at = "advance" /\ binding' = Len(journal)
        /\ UNCHANGED <<journal, tail, projection, boot, alarms>>
    BY <1>8 DEF AdvanceExtent, At
  <2>2. Others(p) /\ proc'[p].at = "load"
    BY <1>0, <1>8, AdvanceMove
  <2>3. KeptOf(p)'
    BY <2>2 DEF KeptOf, At, JournalSteps
  <2> QED BY <1>0, <2>1, <2>2, <2>3 DEF Kept1, Wrote, Commits
<1> QED BY <1>1, <1>2, <1>3, <1>4, <1>5, <1>6, <1>7, <1>8

LEMMA StepWrote ==
    ASSUME TypeInv, Kept, NEW p \in Procs, Step(p)
    PROVE  Kept1(p)
  BY KeptCommands, KeptAppends DEF Step

\* What the others rely on is left to them: only the holder of the flock
\* writes the journal, and the extent never shrinks.
LEMMA KeptOthers ==
    ASSUME TypeInv, Kept, NEW p \in Procs, Kept1(p), NEW q \in Procs \ {p}
    PROVE  KeptOf(q)'
<1>0. /\ KeptOf(q) /\ proc'[q] = proc[q] /\ proc[q] \in Programs /\ Flocks
      /\ journal \in Seq(Records) /\ Len(journal) \in Nat /\ binding \in Nat \cup {None}
      /\ binding # None => binding <= Len(journal)
  BY DEF TypeInv, TypeOK, DiskTypeOK, Kept, Kept1, Wrote, Others
<1>1. CASE Quiet(p)
  BY <1>0, <1>1 DEF Quiet, KeptOf, At
<1>2. CASE Binds(p)
  BY <1>0, <1>2 DEF Binds, KeptOf, At, JournalSteps
<1>3. CASE Begins(p) \/ Completes(p) \/ Ends(p) \/ Commits(p)
  <2>1. proc[p].at \in JournalSteps
    BY <1>3 DEF Begins, Completes, Ends, Commits, JournalSteps
  <2>2. proc[q].at \notin JournalSteps
    BY <1>0, <2>1 DEF Flocks
  <2>3. binding # None => binding' # None /\ binding' \in Nat /\ binding <= binding'
    BY <1>0, <1>3 DEF Begins, Completes, Ends, Commits
  <2> QED BY <1>0, <2>2, <2>3 DEF KeptOf, At, JournalSteps, Programs
<1> QED BY <1>1, <1>2, <1>3 DEF Kept1, Wrote

LEMMA StepKept ==
    ASSUME TypeInv, TypeInv', Kept, NEW p \in Procs, Step(p)
    PROVE  Kept'
<1>0. /\ Kept1(p) /\ Wrote(p) /\ KeptOf(p) /\ LegalHistory(journal)
      /\ journal \in Seq(Records) /\ Len(journal) \in Nat /\ binding \in Nat \cup {None}
      /\ journal' \in Seq(Records) /\ Len(journal') \in Nat /\ CourseOf(proc[p])
      /\ binding # None => binding <= Len(journal)
      /\ tail = "bare" => binding # None /\ binding < Len(journal)
  BY StepWrote DEF Kept1, Kept, TypeInv, TypeOK, DiskTypeOK, Course
<1>1. \A q \in Procs : KeptOf(q)'
  BY <1>0, KeptOthers DEF Kept1
<1>2. /\ LegalHistory(journal')
      /\ binding' # None => binding' <= Len(journal')
      /\ tail' = "bare" => binding' # None /\ binding' < Len(journal')
  <2>1. CASE Quiet(p)
    BY <1>0, <2>1 DEF Quiet
  <2>2. CASE Begins(p)
    <3>1. CASE tail = "bare"
      <4>1. journal # <<>> /\ journal' = Front(journal) /\ tail' = "torn" /\ binding' = binding
        BY <1>0, <2>2, <3>1 DEF Begins
      <4>2. Len(journal') = Len(journal) - 1 /\ LegalHistory(journal')
        BY <1>0, <4>1, FrontFacts, FrontIsLegal
      <4> QED BY <1>0, <3>1, <4>1, <4>2
    <3>2. CASE tail # "bare"
      BY <1>0, <2>2, <3>2 DEF Begins
    <3> QED BY <3>1, <3>2
  <2>3. CASE Completes(p)
    <3>1. /\ journal' = Append(journal, proc[p].record) /\ proc[p].record \in Records
          /\ binding' = binding /\ binding # None
          /\ MayFollow(journal, proc[p].record)
      BY <1>0, <2>3 DEF Completes, CourseOf, KeptOf, JournalSteps
    <3>2. Len(journal') = Len(journal) + 1 /\ LegalHistory(journal')
      BY <1>0, <3>1, AppendProperties, AppendIsLegal
    <3> QED BY <1>0, <3>1, <3>2
  <2>4. CASE Ends(p)
    BY <1>0, <2>4 DEF Ends
  <2>5. CASE Binds(p)
    BY <1>0, <2>5 DEF Binds
  <2>6. CASE Commits(p)
    BY <1>0, <2>6 DEF Commits, KeptOf, JournalSteps
  <2> QED BY <1>0, <2>1, <2>2, <2>3, <2>4, <2>5, <2>6 DEF Wrote
<1> QED BY <1>0, <1>1, <1>2 DEF Kept, Kept1

LEMMA EventKept ==
    ASSUME TypeInv, TypeInv', Kept,
           \/ \E p \in Procs, op \in Ops, mode \in Modes : Start(p, op, mode)
           \/ \E p \in Procs : Kill(p)
           \/ ConsumedElsewhere
           \/ PowerFails
    PROVE  Kept'
<1> USE DEF disk, locks, env
<1>0. /\ TypeOK /\ proc \in [Procs -> Programs] /\ LegalHistory(journal)
      /\ journal \in Seq(Records) /\ Len(journal) \in Nat /\ binding \in Nat \cup {None}
      /\ binding # None => binding <= Len(journal)
      /\ tail = "bare" => binding # None /\ binding < Len(journal)
      /\ \A p \in Procs : KeptOf(p)
      /\ "rolled_back" \notin alarms
  BY DEF TypeInv, TypeOK, DiskTypeOK, Kept
<1>1. ASSUME NEW p \in Procs, Others(p), UNCHANGED <<journal, tail, binding, alarms>>,
             KeptOf(p)'
      PROVE  Kept'
  <2>1. \A q \in Procs : KeptOf(q)'
    BY <1>0, <1>1 DEF KeptOf, At, Others
  <2> QED BY <1>0, <1>1, <2>1 DEF Kept
<1>2. ASSUME NEW p \in Procs, NEW op \in Ops, NEW mode \in Modes, Start(p, op, mode)
      PROVE  Kept'
  <2>1. UNCHANGED <<journal, tail, binding, alarms>>
    BY <1>2 DEF Start
  <2>2. /\ Others(p) /\ proc'[p].view = <<>>
        /\ proc'[p].at = IF op = "create" THEN "mkdir" ELSE "load"
    BY <1>0, <1>2, StartMove
  <2>3. KeptOf(p)'
    BY <2>2 DEF KeptOf, At, JournalSteps
  <2> QED BY <1>1, <2>1, <2>2, <2>3
<1>3. ASSUME NEW p \in Procs, Kill(p) PROVE Kept'
  <2>1. UNCHANGED <<journal, tail, binding, alarms>> /\ Go(p, "off") /\ "off" \in Labels
    BY <1>3 DEF Kill, Labels
  <2>2. Others(p) /\ proc'[p].at = "off"
    BY <1>0, <2>1, GoFacts DEF Others
  <2>3. KeptOf(p)'
    BY <2>2 DEF KeptOf, At, JournalSteps
  <2> QED BY <1>1, <2>1, <2>2, <2>3
<1>4. CASE ConsumedElsewhere
  <2>1. UNCHANGED <<journal, tail, binding, alarms, proc>>
    BY <1>4 DEF ConsumedElsewhere
  <2>2. \A q \in Procs : KeptOf(q)'
    BY <1>0, <2>1 DEF KeptOf, At
  <2> QED BY <1>0, <2>1, <2>2 DEF Kept
<1>5. CASE PowerFails
  <2>1. /\ UNCHANGED <<binding, alarms>> /\ proc' = [q \in Procs |-> Off]
        /\ \/ UNCHANGED <<journal, tail>>
           \/ Unsynced /\ journal' = Front(journal) /\ tail' \in {"clean", "torn"}
           \/ Unsynced /\ journal' = journal /\ tail' = "bare"
    BY <1>5 DEF PowerFails
  <2>2. \A q \in Procs : proc'[q].at = "off"
    BY <2>1, OffFacts
  <2>3. \A q \in Procs : KeptOf(q)'
    BY <2>2 DEF KeptOf, At, JournalSteps
  <2>4. Unsynced => binding # None /\ binding < Len(journal)
    BY <1>0 DEF Unsynced, KeptOf, JournalSteps
  <2>5. CASE Unsynced /\ journal' = Front(journal) /\ tail' \in {"clean", "torn"}
    <3>1. journal # <<>>
      BY <1>0, <2>4, <2>5
    <3>2. Len(journal') = Len(journal) - 1 /\ LegalHistory(journal')
      BY <1>0, <2>5, <3>1, FrontFacts, FrontIsLegal
    <3>3. binding' <= Len(journal') /\ tail' # "bare"
      BY <1>0, <2>1, <2>4, <2>5, <3>2
    <3> QED BY <1>0, <2>1, <2>3, <3>2, <3>3 DEF Kept
  <2>6. CASE journal' = journal /\ (tail' = tail \/ Unsynced)
    BY <1>0, <2>1, <2>3, <2>4, <2>6 DEF Kept
  <2> QED BY <2>1, <2>5, <2>6
<1> QED BY <1>2, <1>3, <1>4, <1>5

LEMMA InitKept == Init => Kept
<1> SUFFICES ASSUME Init PROVE Kept
  OBVIOUS
<1>1. PICK h \in Starts : journal = h /\ binding = IF h = <<>> THEN None ELSE Len(h)
  BY DEF Init
<1>2. /\ LegalHistory(journal) /\ Len(journal) \in Nat
      /\ binding # None => binding <= Len(journal)
  BY <1>1
<1>3. \A p \in Procs : proc[p] = Off
  BY DEF Init
<1>4. \A p \in Procs : KeptOf(p)
  BY <1>3, OffFacts DEF KeptOf, At, JournalSteps
<1>5. tail = "clean" /\ alarms = {}
  BY DEF Init
<1> QED BY <1>2, <1>4, <1>5 DEF Kept

LEMMA KeptInductive == TypeInv /\ TypeInv' /\ Kept /\ [Next]_vars => Kept'
<1> SUFFICES ASSUME TypeInv, TypeInv', Kept, [Next]_vars PROVE Kept'
  OBVIOUS
<1>1. CASE UNCHANGED vars
  BY <1>1 DEF Kept, KeptOf, At, vars, disk, env
<1> QED BY <1>1, StepKept, EventKept DEF Next

\* No interleaving and no crash makes the committed extent exceed the journal,
\* so replay and append_record never report a rollback.
THEOREM NoRollback == Spec => []NeverRolledBack
<1>1. TypeInv /\ Kept => NeverRolledBack
  BY DEF Kept, NeverRolledBack, TypeInv, TypeOK, DiskTypeOK
<1> QED BY InitType, StepType, InitKept, KeptInductive, <1>1, PTL DEF Spec

---------------------------------------------------------------------------
(* The projection.                                                         *)

LEMMA PrefixRefl == ASSUME NEW t \in Seq(Records) PROVE IsPrefix(t, t)
  BY DEF IsPrefix

LEMMA PrefixAppend ==
    ASSUME NEW s \in Seq(Records), NEW t \in Seq(Records), NEW r \in Records, IsPrefix(s, t)
    PROVE  IsPrefix(s, Append(t, r))
<1>1. /\ Len(s) \in Nat /\ Len(t) \in Nat /\ Len(s) <= Len(t)
      /\ SubSeq(s, 1, Len(s)) = SubSeq(t, 1, Len(s))
  BY DEF IsPrefix
<1>2. Len(Append(t, r)) = Len(t) + 1
  BY AppendProperties
<1>3. SubSeq(Append(t, r), 1, Len(s)) = SubSeq(t, 1, Len(s))
  BY <1>1, PrefixOfAppend
<1> QED BY <1>1, <1>2, <1>3 DEF IsPrefix

\* A line is torn while it is written; one that stays torn was spoiled, and a
\* journal that was spoiled stays so.
LEMMA StepProjected ==
    ASSUME TypeInv, TypeInv', Kept, Projected, NEW p \in Procs, Step(p)
    PROVE  Projected'
<1>0. /\ Wrote(p) /\ Others(p) /\ KeptOf(p) /\ Flocks /\ Flocks' /\ boot' = boot
      /\ proc \in [Procs -> Programs] /\ proc' \in [Procs -> Programs]
      /\ journal \in Seq(Records) /\ projection \in Seq(Records) \cup {None}
      /\ CourseOf(proc[p])
      /\ \A q \in Procs : proc[q].view \in Seq(Records)
  BY StepWrote DEF Kept1, Wrote, Kept, TypeInv, TypeOK, DiskTypeOK, Course, Programs
<1> SUFFICES ASSUME Whole'
             PROVE  /\ projection' # None => IsPrefix(projection', journal')
                    /\ \A q \in Procs : proc'[q].at = "project" => IsPrefix(proc'[q].view, journal')
  BY DEF Projected, At
<1>1. boot = 0 /\ (tail' = "torn" => \E q \in Procs : proc'[q].at = "line")
  BY <1>0 DEF Whole, At
<1>2. ASSUME NEW q \in Procs, proc[q].at = "line", q # p
      PROVE  proc[p].at \notin JournalSteps /\ proc'[p].at \notin JournalSteps
  <2>1. proc[q].at \in JournalSteps /\ proc'[q].at \in JournalSteps
    BY <1>0, <1>2 DEF JournalSteps, Others
  <2> QED BY <1>0, <1>2, <2>1 DEF Flocks
<1>3. Whole
  <2> SUFFICES ASSUME tail = "torn" PROVE \E q \in Procs : proc[q].at = "line"
    BY <1>1 DEF Whole, At
  <2>1. CASE Quiet(p)
    <3>1. PICK q \in Procs : proc'[q].at = "line"
      BY <1>1, <2>1 DEF Quiet
    <3>2. q # p
      BY <2>1, <3>1 DEF Quiet
    <3> QED BY <1>0, <3>1, <3>2 DEF Others
  <2>2. CASE Begins(p)
    BY <1>0, <2>2 DEF Begins, KeptOf, At
  <2>3. CASE Completes(p)
    BY <2>3 DEF Completes
  <2>4. CASE Ends(p)
    BY <1>0, <2>4 DEF Ends, KeptOf, At
  <2>5. CASE Binds(p)
    BY <2>5 DEF Binds
  <2>6. CASE Commits(p)
    BY <1>0, <2>6 DEF Commits, KeptOf, At
  <2> QED BY <1>0, <2>1, <2>2, <2>3, <2>4, <2>5, <2>6 DEF Wrote
<1>4. /\ projection # None => IsPrefix(projection, journal)
      /\ \A q \in Procs : proc[q].at = "project" => IsPrefix(proc[q].view, journal)
  BY <1>3 DEF Projected, At
<1>5. \A s \in Seq(Records) : IsPrefix(s, journal) => IsPrefix(s, journal')
  <2>1. CASE journal' = journal
    BY <2>1
  <2>2. CASE Completes(p)
    <3>1. proc[p].record \in Records /\ journal' = Append(journal, proc[p].record)
      BY <1>0, <2>2 DEF Completes, CourseOf
    <3> QED BY <1>0, <3>1, PrefixAppend
  <2>3. CASE Begins(p) /\ tail = "bare"
    <3>1. tail' = "torn" /\ proc'[p].at = "joined" /\ proc[p].at \in JournalSteps
      BY <2>3 DEF Begins, JournalSteps
    <3>2. PICK q \in Procs : proc'[q].at = "line"
      BY <1>1, <3>1
    <3>3. q # p /\ proc[q].at = "line"
      BY <1>0, <3>1, <3>2 DEF Others
    <3> QED BY <1>2, <3>1, <3>3
  <2> QED BY <1>0, <2>1, <2>2, <2>3 DEF Wrote, Quiet, Begins, Ends, Binds, Commits
<1>6. projection' # None => IsPrefix(projection', journal')
  <2>1. CASE projection' = projection
    BY <1>0, <1>4, <1>5, <2>1
  <2>2. CASE At(p, "project") /\ projection' = proc[p].view
    BY <1>0, <1>4, <1>5, <2>2 DEF At
  <2> QED BY <1>0, <2>1, <2>2 DEF Wrote
<1>7. ASSUME NEW q \in Procs, proc'[q].at = "project"
      PROVE  IsPrefix(proc'[q].view, journal')
  <2>1. CASE q = p
    <3>1. journal' = journal /\ proc'[p].view = journal
      BY <1>0, <1>7, <2>1 DEF Wrote, Quiet
    <3> QED BY <1>0, <2>1, <3>1, PrefixRefl
  <2>2. CASE q # p
    BY <1>0, <1>4, <1>5, <1>7, <2>2 DEF Others
  <2> QED BY <2>1, <2>2
<1> QED BY <1>6, <1>7

LEMMA EventProjected ==
    ASSUME TypeInv, TypeInv', Projected,
           \/ \E p \in Procs, op \in Ops, mode \in Modes : Start(p, op, mode)
           \/ \E p \in Procs : Kill(p)
           \/ ConsumedElsewhere
           \/ PowerFails
    PROVE  Projected'
<1> USE DEF disk, locks, env
<1>1. ASSUME UNCHANGED <<journal, tail, projection, boot>>,
             \A q \in Procs : proc'[q].at \in {"line", "project"} => proc'[q] = proc[q]
      PROVE  Projected'
  <2>1. Whole' => Whole
    BY <1>1 DEF Whole, At
  <2> QED BY <1>1, <2>1 DEF Projected, At
<1>2. ASSUME NEW p \in Procs, NEW op \in Ops, NEW mode \in Modes, Start(p, op, mode)
      PROVE  Projected'
  <2>1. UNCHANGED <<journal, tail, projection, boot>>
    BY <1>2 DEF Start
  <2>2. Others(p) /\ proc'[p].at \in {"mkdir", "load"}
    BY <1>2, StartMove DEF TypeInv
  <2> QED BY <1>1, <2>1, <2>2 DEF Others
<1>3. ASSUME NEW p \in Procs, Kill(p) PROVE Projected'
  <2>1. UNCHANGED <<journal, tail, projection, boot>> /\ Go(p, "off") /\ "off" \in Labels
    BY <1>3 DEF Kill, Labels
  <2>2. Others(p) /\ proc'[p].at = "off"
    BY <2>1, GoFacts DEF TypeInv, TypeOK, Others
  <2> QED BY <1>1, <2>1, <2>2 DEF Others
<1>4. CASE ConsumedElsewhere
  BY <1>1, <1>4 DEF ConsumedElsewhere
<1>5. CASE PowerFails
  <2>1. boot \in Nat /\ boot' = boot + 1
    BY <1>5 DEF PowerFails, TypeInv, TypeOK, EnvTypeOK
  <2>2. ~Whole'
    BY <2>1 DEF Whole
  <2> QED BY <2>2 DEF Projected
<1> QED BY <1>2, <1>3, <1>4, <1>5

LEMMA InitProjected == Init => Projected
<1> SUFFICES ASSUME Init PROVE Projected
  OBVIOUS
<1>1. PICK h \in Starts : journal = h /\ projection = IF h = <<>> THEN None ELSE h
  BY DEF Init
<1>2. \A p \in Procs : proc[p].at = "off"
  BY OffFacts DEF Init
<1> QED BY <1>1, <1>2, PrefixRefl DEF Projected, At

LEMMA ProjectedInductive == TypeInv /\ TypeInv' /\ Kept /\ Projected /\ [Next]_vars => Projected'
<1> SUFFICES ASSUME TypeInv, TypeInv', Kept, Projected, [Next]_vars PROVE Projected'
  OBVIOUS
<1>1. CASE UNCHANGED vars
  BY <1>1 DEF Projected, Whole, At, vars, disk, env
<1> QED BY <1>1, StepProjected, EventProjected DEF Next

\* current.json shows a past or the present of the journal, unless a crash in
\* the middle of a line or a power failure took what it shows.
THEOREM ProjectionOfPast == Spec => []ProjectionIsPast
<1>1. Projected => ProjectionIsPast
  BY DEF Projected, Whole, ProjectionIsPast
<1> QED BY InitType, StepType, InitKept, KeptInductive, InitProjected, ProjectedInductive,
           <1>1, PTL DEF Spec

---------------------------------------------------------------------------
(* The committed records implement RunLog.                                 *)

Committed == IF binding = None THEN <<>> ELSE SubSeq(journal, 1, binding)

LEMMA LogLegal == \A h : Log!LegalHistory(h) <=> LegalHistory(h)
<1>1. /\ Log!StateOrder = StateOrder /\ Log!RunStates = RunStates
      /\ Log!RetryEdges = RetryEdges /\ Log!ForwardEdges = ForwardEdges
  BY DEF Log!StateOrder, StateOrder, Log!RunStates, RunStates, Log!RetryEdges, RetryEdges,
         Log!ForwardEdges, ForwardEdges
<1>2. \A s : Log!Rank(s) = Rank(s)
  BY <1>1 DEF Log!Rank, Rank
<1>3. \A s, t : Log!IsLegal(s, t) <=> IsLegal(s, t)
  BY <1>1, <1>2 DEF Log!IsLegal, IsLegal
<1>4. \A h : Log!StateOf(h) = StateOf(h)
  BY <1>1 DEF Log!StateOf, StateOf, Log!Last, Last
<1>5. \A h : Log!PinOf(h) = PinOf(h)
  BY DEF Log!PinOf, PinOf, Log!Last, Last
<1>6. \A h, r : Log!MayFollow(h, r) <=> MayFollow(h, r)
  BY <1>3, <1>4, <1>5 DEF Log!MayFollow, MayFollow
<1> QED BY <1>6 DEF Log!LegalHistory, LegalHistory

LEMMA LogPrefix == \A s, t : Log!IsPrefix(s, t) <=> IsPrefix(s, t)
  BY DEF Log!IsPrefix, IsPrefix

LEMMA InitLog == Init => Log!Init
<1> SUFFICES ASSUME Init PROVE Log!Init
  OBVIOUS
<1>1. PICK h \in Starts : journal = h /\ binding = IF h = <<>> THEN None ELSE Len(h)
  BY DEF Init
<1>2. h \in Seq(Records) /\ LegalHistory(h) /\ SubSeq(h, 1, Len(h)) = h /\ Len(h) \in Nat
  BY SubSeqFull
<1>3. LegalHistory(Committed)
  BY <1>1, <1>2 DEF Committed
<1> QED BY <1>3, LogLegal DEF Log!Init, Committed

\* The records within the extent stay what they are when the journal is
\* written behind them or loses its last line.
LEMMA CommittedStays ==
    ASSUME NEW s \in Seq(Records), NEW r \in Records, NEW n \in Nat
    PROVE  /\ n <= Len(s) => SubSeq(Append(s, r), 1, n) = SubSeq(s, 1, n)
           /\ n < Len(s) => SubSeq(Front(s), 1, n) = SubSeq(s, 1, n)
<1>1. n <= Len(s) => SubSeq(Append(s, r), 1, n) = SubSeq(s, 1, n)
  BY PrefixOfAppend
<1>2. ASSUME n < Len(s) PROVE SubSeq(Front(s), 1, n) = SubSeq(s, 1, n)
  <2>1. Len(s) - 1 \in Nat /\ Len(s) - 1 <= Len(s) /\ n <= Len(s) - 1
    BY <1>2
  <2> QED BY <2>1, PrefixOfPrefix DEF Front
<1> QED BY <1>1, <1>2

LEMMA StepLog ==
    ASSUME TypeInv, TypeInv', Kept, Kept', NEW p \in Procs, Step(p)
    PROVE  Log!Extend \/ Committed' = Committed
<1>0. /\ Wrote(p) /\ KeptOf(p) /\ CourseOf(proc[p])
      /\ journal \in Seq(Records) /\ Len(journal) \in Nat /\ binding \in Nat \cup {None}
      /\ binding # None => binding <= Len(journal)
      /\ tail = "bare" => binding # None /\ binding < Len(journal)
      /\ LegalHistory(journal)
  BY StepWrote DEF Kept1, Kept, TypeInv, TypeOK, DiskTypeOK, Course
<1>1. CASE Quiet(p) \/ Ends(p)
  BY <1>1 DEF Quiet, Ends, Committed
<1>2. CASE Begins(p)
  <2>1. CASE tail = "bare"
    <3>1. journal' = Front(journal) /\ binding' = binding /\ binding \in Nat
      BY <1>0, <1>2, <2>1 DEF Begins
    <3>2. SubSeq(Front(journal), 1, binding) = SubSeq(journal, 1, binding)
      BY <1>0, <2>1, <3>1, CommandsApart, CommittedStays
    <3> QED BY <3>1, <3>2 DEF Committed
  <2>2. CASE tail # "bare"
    BY <1>2, <2>2 DEF Begins, Committed
  <2> QED BY <2>1, <2>2
<1>3. CASE Completes(p)
  <2>1. /\ journal' = Append(journal, proc[p].record) /\ binding' = binding
        /\ proc[p].record \in Records
    BY <1>0, <1>3 DEF Completes, CourseOf
  <2>2. binding # None =>
            SubSeq(Append(journal, proc[p].record), 1, binding) = SubSeq(journal, 1, binding)
    BY <1>0, <2>1, CommittedStays
  <2> QED BY <2>1, <2>2 DEF Committed
<1>4. CASE Binds(p)
  BY <1>4 DEF Binds, Committed
<1>5. CASE Commits(p)
  <2>1. /\ proc[p].at = "advance" /\ binding' = Len(journal) /\ journal' = journal
        /\ binding \in Nat /\ binding < Len(journal)
    BY <1>0, <1>5 DEF Commits, KeptOf, JournalSteps
  <2>2. Committed = SubSeq(journal, 1, binding) /\ Committed' = journal
    BY <1>0, <2>1, SubSeqFull DEF Committed
  <2>3. Len(SubSeq(journal, 1, binding)) = binding
    BY <1>0, <2>1
  <2>4. SubSeq(SubSeq(journal, 1, binding), 1, binding) = SubSeq(journal, 1, binding)
    BY <1>0, <2>1, PrefixOfPrefix
  <2>5. /\ Len(Committed') > Len(Committed) /\ LegalHistory(Committed')
        /\ IsPrefix(Committed, Committed')
    BY <1>0, <2>1, <2>2, <2>3, <2>4 DEF IsPrefix
  <2> QED BY <2>5, LogLegal, LogPrefix DEF Log!Extend, Committed
<1> QED BY <1>0, <1>1, <1>2, <1>3, <1>4, <1>5 DEF Wrote

LEMMA EventLog ==
    ASSUME TypeInv, Kept,
           \/ \E p \in Procs, op \in Ops, mode \in Modes : Start(p, op, mode)
           \/ \E p \in Procs : Kill(p)
           \/ ConsumedElsewhere
           \/ PowerFails
    PROVE  Committed' = Committed
<1>0. /\ journal \in Seq(Records) /\ binding \in Nat \cup {None}
      /\ \A p \in Procs : KeptOf(p)
  BY DEF TypeInv, TypeOK, DiskTypeOK, Kept
<1>1. CASE UNCHANGED <<journal, binding>>
  BY <1>1 DEF Committed
<1>2. CASE binding' = binding /\ journal' = Front(journal) /\ Unsynced
  <2>1. binding \in Nat /\ binding < Len(journal)
    BY <1>0, <1>2 DEF Unsynced, KeptOf, JournalSteps
  <2>2. SubSeq(Front(journal), 1, binding) = SubSeq(journal, 1, binding)
    BY <1>0, <2>1, CommandsApart, CommittedStays
  <2> QED BY <1>2, <2>1, <2>2 DEF Committed
<1>3. ASSUME NEW p \in Procs, NEW op \in Ops, NEW mode \in Modes, Start(p, op, mode)
      PROVE  UNCHANGED <<journal, binding>>
  BY <1>3 DEF Start, disk
<1>4. ASSUME NEW p \in Procs, Kill(p) PROVE UNCHANGED <<journal, binding>>
  BY <1>4 DEF Kill, disk
<1>5. ConsumedElsewhere => UNCHANGED <<journal, binding>>
  BY DEF ConsumedElsewhere
<1>6. ASSUME PowerFails
      PROVE  \/ UNCHANGED <<journal, binding>>
             \/ binding' = binding /\ journal' = Front(journal) /\ Unsynced
  <2>1. /\ binding' = binding
        /\ \/ UNCHANGED <<journal, tail>>
           \/ Unsynced /\ journal' = Front(journal) /\ tail' \in {"clean", "torn"}
           \/ Unsynced /\ journal' = journal /\ tail' = "bare"
    BY <1>6 DEF PowerFails
  <2> QED BY <2>1
<1> QED BY <1>1, <1>2, <1>3, <1>4, <1>5, <1>6

LEMMA NextLog ==
    TypeInv /\ TypeInv' /\ Kept /\ Kept' /\ [Next]_vars
        => [Log!Extend]_(IF binding = None THEN <<>> ELSE SubSeq(journal, 1, binding))
<1> SUFFICES ASSUME TypeInv, TypeInv', Kept, Kept', [Next]_vars
             PROVE  Log!Extend \/ Committed' = Committed
  BY DEF Committed
<1>1. CASE UNCHANGED vars
  BY <1>1 DEF Committed, vars, disk
<1> QED BY <1>1, StepLog, EventLog DEF Next

\* The committed records are a legal history that only grows: every step of the
\* store is a step of RunLog or leaves its history alone.
THEOREM StoreImplementsLog == Spec => ImplementsLog
<1> QED BY InitType, StepType, InitKept, KeptInductive, InitLog, NextLog, PTL
       DEF Spec, ImplementsLog, Log!Spec
=============================================================================
