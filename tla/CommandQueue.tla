---------------------------- MODULE CommandQueue ----------------------------
(***************************************************************************)
(* The desk's command queue: commands/<key>.json.  The web                 *)
(* (trex_web/command_store.py) validates and queues a command; the desk    *)
(* owner (trex/desk_commands.py) claims it by rename, applies it, answers  *)
(* it and archives the claim.  The two processes share the directory and   *)
(* its flock; either may die between two file operations.                  *)
(*                                                                         *)
(* The stop files HALT, FLATTEN and PAUSE_ENTRIES (desk_commands._stop,    *)
(* trex/pause.py) are what the safety commands act on.  An approval        *)
(* (trex/desk_entries.py) spends the one approval of an intent and then    *)
(* sends its order; a proposal that was sent is not sent again, and one    *)
(* that was rejected never is.                                             *)
(*                                                                         *)
(* A definition named X_Y is X with the fault Y, for the mutation tests.   *)
(***************************************************************************)
EXTENDS Integers

CONSTANTS
    None,
    Commands,      \* command documents (body_sha256 identifies one)
    Keys,          \* idempotency keys
    KeyOf,         \* a command's key: two documents may claim one key
    Kind,          \* a command's kind
    IssuedAt,      \* a command's issued_at
    ExpiresAt,     \* a command's expires_at
    Proposals,     \* entry proposals, each stored once
    ProposalOf,    \* the proposal an approval or a rejection names
    Intents,       \* intents: two proposals may be composed for one
    IntentOf,      \* a proposal's intent
    MaxSkew,       \* MAX_CLOCK_SKEW_S = MAX_FUTURE_SKEW_S
    MaxPerPass,    \* MAX_COMMANDS_PER_PASS
    MaxClock,      \* bound on the clock
    MaxCrashes,    \* bound on deaths of the owner and of the web
    MaxForeign,    \* bound on what others do in the run directory
    Touchable,     \* bound: the stop files the terminal touches
    AuditFaults,   \* may an append to pause-entries.jsonl fail?
    ReadFaults,    \* may reading a result file fail? (stop files read well)
    StartFaults,   \* may the owner's start stop before its recovery?
    ApplyFaults    \* may placing a file, or a flow, raise?

SafetyKinds == {"halt", "flatten", "pause_entries"}
ResumeKinds == {"resume_all", "resume_entries"}
FileKinds == SafetyKinds \cup ResumeKinds \cup {"backup_state", "seal_registration"}
EntryKinds == {"compose_entry", "approve_entry", "reject_entry"}
StopFiles == {"HALT", "FLATTEN", "PAUSE_ENTRIES"}

ASSUME QueueAssumption ==
    /\ KeyOf \in [Commands -> Keys]
    /\ Kind \in [Commands -> FileKinds \cup EntryKinds]
    /\ IssuedAt \in [Commands -> Nat \ {0}]
    /\ ExpiresAt \in [Commands -> Nat]
    /\ \A c \in Commands : IssuedAt[c] < ExpiresAt[c]
    /\ ProposalOf \in [Commands -> Proposals]
    /\ IntentOf \in [Proposals -> Intents]
    /\ {MaxSkew, MaxCrashes, MaxForeign} \subseteq Nat
    /\ {MaxPerPass, MaxClock} \subseteq Nat \ {0}
    /\ {AuditFaults, ReadFaults, StartFaults, ApplyFaults} \subseteq BOOLEAN

VARIABLES
    clock,
    staged,      \* .<key>.json.staged, or None
    queued,      \* <key>.json: what the owner can see, or None
    claimed,     \* <key>.claimed.json, or None
    archived,    \* keys with a done/<key>.claimed.json
    result,      \* <key>.result.json, or None
    web,         \* the submission that holds commands/.lock, or None
    stop,        \* a stop file: Absent, or the issue time it records
    mode,        \* what the owner is doing: see Modes
    phase,       \* where it is in that: see Phases
    todo,        \* keys this pass listed and has not taken
    taken,       \* entry commands this pass took
    job,         \* the command in hand, or None
    unwritten,   \* key -> the answer the store refused, or None (memory)
    ran,         \* history: how often a key's effect was started (2: more);
                 \* of an approval, the sending of the order
    consumed,    \* intent -> the proposal whose approval is consumed, or None
    entered,     \* intents the outbox has claimed to send
    rejected,    \* proposals with a tombstone
    backing,     \* history: stop commands applied since the file was placed
    unaudited,   \* history: was PAUSE_ENTRIES lifted with no audit line?
    crashes, foreign   \* counters for the bounds

webVars == <<staged, web>>
stopVars == <<stop, backing, unaudited>>
ownerVars == <<mode, phase, todo, taken, job, unwritten>>
fileVars == <<queued, claimed, archived, result>>
entryVars == <<consumed, entered, rejected>>
others == <<clock, webVars, crashes, foreign>>    \* what an owner's step leaves alone
outside == <<others, entryVars>>                  \* and all but the entry flows' steps
vars == <<clock, webVars, stopVars, ownerVars, fileVars, entryVars, ran, crashes, foreign>>

-----------------------------------------------------------------------------
(* Documents and types. *)

\* A stop file as a number, so that "newest" is the maximum: no file; a file
\* that records no issue time (the terminal's touch); a recorded issue time.
Absent == -1
Unstamped == 0

Modes == {"down", "boot", "recover", "start", "loop", "exit"}
Phases == {"down", "top", "next", "validate", "apply", "permit", "lift", "audit",
           "answer", "archive"}
Statuses == {"accepted", "applied", "refused", "failed"}
Result == [cmd: Commands, status: Statuses, at: Nat, desk: BOOLEAN, sent: BOOLEAN]

\* An answer of the desk; "sent" is the fact that this command sent an order.
Answers == [status: {"applied", "refused", "failed"}, sent: BOOLEAN]
Reply(status) == [status |-> status, sent |-> FALSE]
Sent(status) == [status |-> status, sent |-> TRUE]

Job == [key: Keys, out: Answers, lift: SUBSET StopFiles,
        saved: Nat \cup {Absent}, backed: SUBSET Keys]
Submission == [cmd: Commands, at: Nat, step: {"accept", "publish"}]

ASSUME NoneAssumption ==
    /\ None \notin Commands /\ None \notin Result /\ None \notin Job
    /\ None \notin Submission /\ None \notin Answers /\ None \notin Proposals

FilesTypeOK ==
    /\ staged \in [Keys -> Commands \cup {None}]
    /\ queued \in [Keys -> Commands \cup {None}]
    /\ claimed \in [Keys -> Commands \cup {None}]
    /\ archived \subseteq Keys
    /\ result \in [Keys -> Result \cup {None}]
    /\ web \in Submission \cup {None}

OwnerTypeOK ==
    /\ mode \in Modes /\ phase \in Phases
    /\ todo \subseteq Keys /\ taken \in 0..MaxPerPass
    /\ job \in Job \cup {None}
    /\ unwritten \in [Keys -> Answers \cup {None}]

StopTypeOK ==
    /\ stop \in [StopFiles -> Nat \cup {Absent}]
    /\ backing \in [StopFiles -> SUBSET Keys]
    /\ unaudited \in BOOLEAN

EntryTypeOK ==
    /\ consumed \in [Intents -> Proposals \cup {None}]
    /\ entered \subseteq Intents /\ rejected \subseteq Proposals

CountTypeOK ==
    /\ clock \in 1..MaxClock
    /\ ran \in [Keys -> 0..2]
    /\ crashes \in 0..MaxCrashes /\ foreign \in 0..MaxForeign

TypeOK == FilesTypeOK /\ OwnerTypeOK /\ StopTypeOK /\ EntryTypeOK /\ CountTypeOK

Init ==
    /\ clock = 1
    /\ staged = [k \in Keys |-> None] /\ queued = staged /\ claimed = staged
    /\ result = staged /\ unwritten = staged
    /\ archived = {} /\ todo = {} /\ taken = 0
    /\ web = None /\ job = None
    /\ stop = [f \in StopFiles |-> Absent]
    /\ backing = [f \in StopFiles |-> {}] /\ unaudited = FALSE
    /\ mode = "down" /\ phase = "down"
    /\ consumed = [i \in Intents |-> None] /\ entered = {} /\ rejected = {}
    /\ ran = [k \in Keys |-> 0]
    /\ crashes = 0 /\ foreign = 0

-----------------------------------------------------------------------------
(* The web: CommandStore.submit, under commands/.lock. *)

\* command_window_blocker: neither issued too far ahead nor expired.
InWindow(c) == IssuedAt[c] <= clock + MaxSkew /\ clock < ExpiresAt[c]

WebResult(c, status, at) ==
    [cmd |-> c, status |-> status, at |-> at, desk |-> FALSE, sent |-> FALSE]

\* The key has a result: nothing is rewritten, but a command a crash left
\* staged is published while its result is still "accepted".
SubmitKnown(c) ==
    LET k == KeyOf[c] IN
    /\ web = None /\ result[k] # None /\ staged[k] # None
    /\ IF result[k].status # "accepted"
       THEN staged' = [staged EXCEPT ![k] = None] /\ UNCHANGED queued
       ELSE /\ staged[k] = result[k].cmd
            /\ queued' = [queued EXCEPT ![k] = staged[k]]
            /\ staged' = [staged EXCEPT ![k] = None]
    /\ UNCHANGED <<clock, web, stopVars, ownerVars, claimed, archived, result, entryVars, ran,
                   crashes, foreign>>

\* Outside the window: the refusal is written, so the key is spent.
SubmitRefused(c) ==
    LET k == KeyOf[c] IN
    /\ web = None /\ result[k] = None /\ ~InWindow(c)
    /\ staged' = [staged EXCEPT ![k] = None]
    /\ result' = [result EXCEPT ![k] = WebResult(c, "refused", clock)]
    /\ UNCHANGED <<clock, web, stopVars, ownerVars, queued, claimed, archived, entryVars, ran,
                   crashes, foreign>>

SubmitStage_Visible(c) ==
    /\ web = None /\ result[KeyOf[c]] = None /\ InWindow(c)
    /\ queued' = [queued EXCEPT ![KeyOf[c]] = c]
    /\ web' = [cmd |-> c, at |-> clock, step |-> "accept"]
    /\ UNCHANGED <<clock, staged, stopVars, ownerVars, claimed, archived, result, entryVars,
                   ran, crashes, foreign>>

\* _queue, in three durable steps: stage the command, ...
SubmitStage(c) ==
    /\ web = None /\ result[KeyOf[c]] = None /\ InWindow(c)
    /\ staged' = [staged EXCEPT ![KeyOf[c]] = c]
    /\ web' = [cmd |-> c, at |-> clock, step |-> "accept"]
    /\ UNCHANGED <<clock, stopVars, ownerVars, fileVars, entryVars, ran, crashes, foreign>>

\* ... write the accepted result, ...
SubmitAccept ==
    /\ web # None /\ web.step = "accept"
    /\ result' = [result EXCEPT ![KeyOf[web.cmd]] = WebResult(web.cmd, "accepted", web.at)]
    /\ web' = [web EXCEPT !.step = "publish"]
    /\ UNCHANGED <<clock, staged, stopVars, ownerVars, queued, claimed, archived, entryVars,
                   ran, crashes, foreign>>

\* ... and rename the staged file to where the owner looks.
SubmitPublish ==
    LET k == KeyOf[web.cmd] IN
    /\ web # None /\ web.step = "publish"
    /\ queued' = [queued EXCEPT ![k] = staged[k]]
    /\ staged' = [staged EXCEPT ![k] = None]
    /\ web' = None
    /\ UNCHANGED <<clock, stopVars, ownerVars, claimed, archived, result, entryVars, ran,
                   crashes, foreign>>

\* The web process dies mid-submission; the kernel drops its flock.
WebCrash ==
    /\ web # None /\ crashes < MaxCrashes
    /\ web' = None /\ crashes' = crashes + 1
    /\ UNCHANGED <<clock, staged, stopVars, ownerVars, fileVars, entryVars, ran, foreign>>

-----------------------------------------------------------------------------
(* The owner: processes that come and go under the run directory's lock.   *)
(* A process first runs the file pass (main before it connects, or the     *)
(* apply-commands program), then either ends or connects, recovers the     *)
(* claims a dead owner left, runs a second file pass, and loops; losing    *)
(* the gateway, it runs a last file pass and exits.                        *)

NewJob(k) ==
    [key |-> k, out |-> Reply("applied"), lift |-> {}, saved |-> Absent, backed |-> {}]

Listed(kinds) == {k \in Keys : queued[k] # None /\ Kind[queued[k]] \in kinds}

Boot ==
    /\ mode = "down"
    /\ mode' = "boot" /\ phase' = "top"
    /\ UNCHANGED <<outside, stopVars, todo, taken, job, unwritten, fileVars, ran>>

\* process() lists once; what is queued later waits for the next pass.
List ==
    /\ phase = "top"
    /\ todo' = Listed(IF mode = "loop" THEN FileKinds \cup EntryKinds ELSE FileKinds)
    /\ taken' = 0
    /\ phase' = "next"
    /\ UNCHANGED <<outside, stopVars, mode, job, unwritten, fileVars, ran>>

\* The order of a pass: file kinds, then by issue time, a resume before a
\* stop of the same instant (the key breaks what ties are left).
Ahead(c, d) ==
    LET group(x) == IF Kind[x] \in FileKinds THEN 0 ELSE 1
        tie(x) == IF Kind[x] \in ResumeKinds THEN 0 ELSE 1
    IN  \/ group(c) < group(d)
        \/ group(c) = group(d) /\ IssuedAt[c] < IssuedAt[d]
        \/ group(c) = group(d) /\ IssuedAt[c] = IssuedAt[d] /\ tie(c) < tie(d)

\* k is next in the pass, within the entry kinds' budget.
Turn(k) ==
    /\ phase = "next" /\ mode # "recover" /\ k \in todo
    /\ \A j \in todo : ~Ahead(queued[j], queued[k])
    /\ Kind[queued[k]] \in EntryKinds => taken < MaxPerPass

Taken_All(k) == taken' = taken + 1

Taken(k) == taken' = IF Kind[queued[k]] \in EntryKinds THEN taken + 1 ELSE taken

\* The claim: a no-replace rename, unless the key was claimed before.
Claim(k) ==
    /\ Turn(k) /\ claimed[k] = None /\ k \notin archived
    /\ claimed' = [claimed EXCEPT ![k] = queued[k]]
    /\ queued' = [queued EXCEPT ![k] = None]
    /\ todo' = todo \ {k} /\ Taken(k)
    /\ job' = NewJob(k) /\ phase' = "validate"
    /\ UNCHANGED <<outside, stopVars, mode, unwritten, archived, result, ran>>

\* The rename fails (contained): the command stays queued for a later pass.
ClaimFails(k) ==
    /\ Turn(k)
    /\ todo' = todo \ {k} /\ Taken(k)
    /\ UNCHANGED <<outside, stopVars, mode, phase, job, unwritten, fileVars, ran>>

\* A second file for a claimed or archived key: a duplicate, set aside.
SetAside(k) ==
    /\ Turn(k) /\ (claimed[k] # None \/ k \in archived)
    /\ queued' = [queued EXCEPT ![k] = None]
    /\ todo' = todo \ {k} /\ Taken(k)
    /\ UNCHANGED <<outside, stopVars, mode, phase, job, unwritten, claimed, archived,
                   result, ran>>

\* The pass took everything it listed, or an entry command and its budget.
PassOver ==
    /\ phase = "next"
    /\ \/ todo = {}
       \/ mode = "loop" /\ taken > 0 /\ \A k \in todo : Kind[queued[k]] \in EntryKinds

EndPass ==
    /\ PassOver /\ mode \in {"recover", "start", "loop"}
    /\ mode' = IF mode = "recover" THEN "start" ELSE "loop"
    /\ phase' = "top" /\ todo' = {}
    /\ UNCHANGED <<outside, stopVars, taken, job, unwritten, fileVars, ran>>

Connect_NoRecovery ==
    /\ PassOver /\ mode = "boot"
    /\ mode' = "start" /\ phase' = "top" /\ todo' = {}
    /\ unwritten' = [k \in Keys |-> None]
    /\ UNCHANGED <<outside, stopVars, taken, job, fileVars, ran>>

\* The process connects.  Its queue is a new object: answers that the boot
\* pass could not write are forgotten.  start() then recovers, unless what
\* comes before that in it raises, which main() only logs.
Connect ==
    /\ PassOver /\ mode = "boot"
    /\ \E recovers \in {TRUE, ~StartFaults} :
          IF recovers
          THEN mode' = "recover" /\ phase' = "next" /\ todo' = {k \in Keys : claimed[k] # None}
          ELSE mode' = "loop" /\ phase' = "top" /\ todo' = {}
    /\ unwritten' = [k \in Keys |-> None]
    /\ UNCHANGED <<outside, stopVars, taken, job, fileVars, ran>>

\* The gateway is lost between two passes of the loop.
GatewayLost ==
    /\ mode = "loop" /\ phase = "top"
    /\ mode' = "exit"
    /\ UNCHANGED <<outside, stopVars, phase, todo, taken, job, unwritten, fileVars,
                   ran>>

Down ==
    /\ mode' = "down" /\ phase' = "down"
    /\ todo' = {} /\ taken' = 0 /\ job' = None
    /\ unwritten' = [k \in Keys |-> None]
    /\ UNCHANGED <<clock, webVars, stopVars, fileVars, entryVars, ran, foreign>>

\* The process ends: after its only pass, after the exit pass, or stopped.
Leave ==
    /\ PassOver /\ mode \in {"boot", "loop", "exit"}
    /\ Down /\ UNCHANGED crashes

Crash ==
    /\ mode # "down" /\ crashes < MaxCrashes
    /\ Down /\ crashes' = crashes + 1

-----------------------------------------------------------------------------
(* One command: validate. *)

\* What reading the intake result gives: a failed read reads as no result.
Intakes(k) == {result[k]} \cup (IF ReadFaults THEN {None} ELSE {})

AnsweredByDesk(intake) == intake # None /\ intake.desk

Durable_Never(c, intake) == FALSE

\* A safety command the web took inside its window does not expire.
Durable(c, intake) ==
    Kind[c] \in SafetyKinds /\ intake.status \in {"accepted", "applied"}
    /\ intake.at < ExpiresAt[c]

Refusal(c, intake) ==
    \/ intake = None
    \/ intake.cmd # c
    \/ intake.status \notin {"accepted", "applied"}
    \/ clock >= ExpiresAt[c] /\ ~Durable(c, intake)
    \/ IssuedAt[c] > clock + MaxSkew

\* _process: an answer that stands is never replaced; the claim goes aside.
AlreadyAnswered ==
    /\ phase = "validate" /\ mode # "recover"
    /\ \E intake \in Intakes(job.key) : AnsweredByDesk(intake)
    /\ claimed' = [claimed EXCEPT ![job.key] = None]
    /\ job' = None /\ phase' = "next"
    /\ UNCHANGED <<outside, stopVars, mode, todo, taken, unwritten, queued, archived,
                   result, ran>>

Validate_NoAnswerCheck ==
    /\ phase = "validate"
    /\ mode = "recover" => Kind[claimed[job.key]] \in SafetyKinds
    /\ \E intake \in Intakes(job.key) :
          IF Refusal(claimed[job.key], intake)
          THEN phase' = "answer" /\ job' = [job EXCEPT !.out = Reply("refused")]
          ELSE phase' = "apply" /\ UNCHANGED job
    /\ UNCHANGED <<outside, stopVars, mode, todo, taken, unwritten, fileVars, ran>>

\* _process, and _recover for a safety kind: refuse it or apply it.
Validate ==
    /\ phase = "validate"
    /\ mode = "recover" => Kind[claimed[job.key]] \in SafetyKinds
    /\ \E intake \in Intakes(job.key) :
          /\ ~AnsweredByDesk(intake)
          /\ IF Refusal(claimed[job.key], intake)
             THEN phase' = "answer" /\ job' = [job EXCEPT !.out = Reply("refused")]
             ELSE phase' = "apply" /\ UNCHANGED job
    /\ UNCHANGED <<outside, stopVars, mode, todo, taken, unwritten, fileVars, ran>>

\* _recover: the next claim a dead owner left, in any order.
RecoverTake(k) ==
    /\ mode = "recover" /\ phase = "next" /\ k \in todo
    /\ todo' = todo \ {k}
    /\ job' = NewJob(k) /\ phase' = "validate"
    /\ UNCHANGED <<outside, stopVars, mode, taken, unwritten, fileVars, ran>>

\* Answered before: only its archiving was interrupted.
RecoverAnswered ==
    /\ mode = "recover" /\ phase = "validate"
    /\ \E intake \in Intakes(job.key) : AnsweredByDesk(intake)
    /\ phase' = "archive"
    /\ UNCHANGED <<outside, stopVars, mode, todo, taken, job, unwritten, fileVars, ran>>

RecoverInterrupted_Reapplies ==
    /\ mode = "recover" /\ phase = "validate"
    /\ Kind[claimed[job.key]] \notin SafetyKinds
    /\ \E intake \in Intakes(job.key) : ~AnsweredByDesk(intake)
    /\ phase' = "apply"
    /\ UNCHANGED <<outside, stopVars, mode, todo, taken, job, unwritten, fileVars, ran>>

\* Anything but a safety kind: owner_stopped_before_result, never re-applied.
RecoverInterrupted ==
    /\ mode = "recover" /\ phase = "validate"
    /\ Kind[claimed[job.key]] \notin SafetyKinds
    /\ \E intake \in Intakes(job.key) : ~AnsweredByDesk(intake)
    /\ job' = [job EXCEPT !.out = Reply("failed")] /\ phase' = "answer"
    /\ UNCHANGED <<outside, stopVars, mode, todo, taken, unwritten, fileVars, ran>>

-----------------------------------------------------------------------------
(* One command: apply, by kind. *)

Command == claimed[job.key]
Ran == ran' = [ran EXCEPT ![job.key] = IF @ = 0 THEN 1 ELSE 2]
Larger(a, b) == IF a > b THEN a ELSE b

FileOf(kind) == CASE kind = "halt" -> "HALT"
                  [] kind = "flatten" -> "FLATTEN"
                  [] OTHER -> "PAUSE_ENTRIES"

PlaceStop_NoRestamp ==
    LET f == FileOf(Kind[Command]) IN
    /\ phase = "apply" /\ Kind[Command] \in SafetyKinds
    /\ stop' = [stop EXCEPT ![f] = IF @ = Absent THEN IssuedAt[Command] ELSE @]
    /\ backing' = [backing EXCEPT ![f] = @ \cup {job.key}]
    /\ phase' = IF f = "PAUSE_ENTRIES" THEN "audit" ELSE "answer"
    /\ Ran
    /\ UNCHANGED <<outside, unaudited, mode, todo, taken, job, unwritten, fileVars>>

\* _stop and pause_entries: place the file, or re-stamp a standing one when
\* this command is newer.  A pause goes on to its audit line.
PlaceStop ==
    LET f == FileOf(Kind[Command]) IN
    /\ phase = "apply" /\ Kind[Command] \in SafetyKinds
    /\ stop' = [stop EXCEPT ![f] = Larger(@, IssuedAt[Command])]
    /\ backing' = [backing EXCEPT ![f] = @ \cup {job.key}]
    /\ phase' = IF f = "PAUSE_ENTRIES" THEN "audit" ELSE "answer"
    /\ Ran
    /\ UNCHANGED <<outside, unaudited, mode, todo, taken, job, unwritten, fileVars>>

\* A resume may lift what stands and was not issued after it.
Lifts(f) == stop[f] # Absent /\ stop[f] <= IssuedAt[Command]

Unlink(f) ==
    /\ stop' = [stop EXCEPT ![f] = Absent]
    /\ backing' = [backing EXCEPT ![f] = {}]

\* resume_all decides on HALT and FLATTEN together, ...
ResumeAll ==
    /\ phase = "apply" /\ Kind[Command] = "resume_all"
    /\ job' = [job EXCEPT !.lift = {f \in {"HALT", "FLATTEN"} : Lifts(f)}]
    /\ phase' = "lift"
    /\ Ran
    /\ UNCHANGED <<outside, stopVars, mode, todo, taken, unwritten, fileVars>>

\* ... removes them one by one, HALT first, ...
LiftStop ==
    /\ phase = "lift"
    /\ \E f \in job.lift :
          /\ f = "FLATTEN" => "HALT" \notin job.lift
          /\ Unlink(f)
          /\ job' = [job EXCEPT !.lift = @ \ {f}]
    /\ UNCHANGED <<outside, unaudited, mode, phase, todo, taken, unwritten, fileVars,
                   ran>>

\* ... and then lifts the pause, which is all a resume_entries does.
LiftPause ==
    /\ \/ phase = "lift" /\ job.lift = {} /\ UNCHANGED ran
       \/ phase = "apply" /\ Kind[Command] = "resume_entries" /\ Ran
    /\ phase' = "audit"
    /\ IF Lifts("PAUSE_ENTRIES")
       THEN /\ Unlink("PAUSE_ENTRIES") /\ unaudited' = TRUE
            /\ job' = [job EXCEPT !.saved = stop["PAUSE_ENTRIES"],
                                  !.backed = backing["PAUSE_ENTRIES"]]
       ELSE UNCHANGED <<stopVars, job>>
    /\ UNCHANGED <<outside, mode, todo, taken, unwritten, fileVars>>

Lifted == job.saved # Absent

Audit ==
    /\ phase = "audit"
    /\ unaudited' = (unaudited /\ ~Lifted)
    /\ phase' = "answer"
    /\ UNCHANGED <<outside, stop, backing, mode, todo, taken, job, unwritten, fileVars,
                   ran>>

AuditFails_NoRestore ==
    /\ AuditFaults /\ phase = "audit"
    /\ job' = [job EXCEPT !.out = Reply("failed")] /\ phase' = "answer"
    /\ UNCHANGED <<outside, stopVars, mode, todo, taken, unwritten, fileVars, ran>>

\* The line is not written: a lifted pause is put back; the command failed.
AuditFails ==
    /\ AuditFaults /\ phase = "audit"
    /\ IF Lifted
       THEN /\ stop' = [stop EXCEPT !["PAUSE_ENTRIES"] = job.saved]
            /\ backing' = [backing EXCEPT !["PAUSE_ENTRIES"] = job.backed]
            /\ unaudited' = FALSE
       ELSE UNCHANGED stopVars
    /\ job' = [job EXCEPT !.out = Reply("failed")] /\ phase' = "answer"
    /\ UNCHANGED <<outside, mode, todo, taken, unwritten, fileVars, ran>>

\* A file operation raises before it did anything: a failed answer.
ApplyFails ==
    /\ ApplyFaults /\ phase \in {"apply", "lift"} /\ Kind[Command] \in FileKinds
    /\ job' = [job EXCEPT !.out = Reply("failed")] /\ phase' = "answer"
    /\ UNCHANGED <<outside, stopVars, mode, todo, taken, unwritten, fileVars, ran>>

-----------------------------------------------------------------------------
(* One command: the entry flows, a backup request and a seal.  The flows   *)
(* run in the loop alone, so nothing else spends or sends meanwhile; a     *)
(* stop that lands between a check and the file operation behind it is     *)
(* the stop that lands after both.                                         *)

Stopped == \E f \in StopFiles : stop[f] # Absent     \* entry_send_blockers

Proposal == ProposalOf[Command]

Spent_OwnProposal(p) == consumed[IntentOf[p]] = p

\* The approval is consumed, or the outbox is past pending: nothing is sent
\* any more for the intent, whichever of its proposals is named.
Spent(p) == consumed[IntentOf[p]] # None \/ IntentOf[p] \in entered

SentAnswers_Any(p) ==
    {k \in Keys : /\ AnsweredByDesk(result[k]) /\ Kind[result[k].cmd] = "approve_entry"
                  /\ ProposalOf[result[k].cmd] = p}

\* The stored answers of the approval that sent p.
SentAnswers(p) ==
    {k \in Keys : /\ AnsweredByDesk(result[k]) /\ Kind[result[k].cmd] = "approve_entry"
                  /\ ProposalOf[result[k].cmd] = p /\ result[k].sent}

Answering(out) == phase' = "answer" /\ job' = [job EXCEPT !.out = out]

\* A flow refuses before it changed what counts: an unknown or a rejected
\* proposal, a gate, a screen, a spent approval that no answer says was sent.
FlowRefused ==
    /\ phase = "apply" /\ Kind[Command] \in EntryKinds \cup {"seal_registration"}
    /\ Kind[Command] = "approve_entry" /\ Proposal \notin rejected /\ Spent(Proposal)
          => ReadFaults \/ SentAnswers(Proposal) = {}
    /\ Answering(Reply("refused"))
    /\ UNCHANGED <<outside, stopVars, mode, todo, taken, unwritten, fileVars, ran>>

\* A flow raises, the gateway standing: apply_error.
FlowFails ==
    /\ phase \in {"apply", "permit"} /\ Kind[Command] \in EntryKinds
    /\ Answering(Reply("failed"))
    /\ UNCHANGED <<outside, stopVars, mode, todo, taken, unwritten, fileVars, ran>>

\* A proposal, a backup request or a seal is written; only compose does
\* something after that which may raise.
PlaceFile ==
    /\ phase = "apply"
    /\ Kind[Command] \in {"compose_entry", "backup_state", "seal_registration"}
    /\ \/ Answering(Reply("applied"))
       \/ Kind[Command] = "compose_entry" /\ Answering(Reply("failed"))
    /\ Ran
    /\ UNCHANGED <<outside, stopVars, mode, todo, taken, unwritten, fileVars>>

\* reject: the tombstone, unless the intent was sent or this proposal's
\* approval is spent.  (The pending approval it retires has no other use.)
Reject ==
    /\ phase = "apply" /\ Kind[Command] = "reject_entry"
    /\ IntentOf[Proposal] \notin entered /\ consumed[IntentOf[Proposal]] # Proposal
    /\ rejected' = rejected \cup {Proposal}
    /\ Ran

RejectEntry ==
    /\ Reject
    /\ Answering(Reply("applied")) \/ Answering(Reply("failed"))
    /\ UNCHANGED <<others, consumed, entered, stopVars, mode, todo, taken, unwritten,
                   fileVars>>

\* approve, of a proposal that was sent: the answer of the approval that sent
\* it, as a duplicate; nothing is sent by this one.
ApproveAgain ==
    /\ phase = "apply" /\ Kind[Command] = "approve_entry"
    /\ Proposal \notin rejected /\ Spent(Proposal)
    /\ \E k \in SentAnswers(Proposal) :
          Answering(Reply(IF result[k].status = "failed" THEN "failed" ELSE "applied"))
    /\ UNCHANGED <<outside, stopVars, mode, todo, taken, unwritten, fileVars, ran>>

\* approve, up to the permit: grant, record_intent and issue_permit, which
\* consumes the approval.
IssuePermit ==
    /\ phase = "apply" /\ Kind[Command] = "approve_entry"
    /\ Proposal \notin rejected /\ ~Spent(Proposal) /\ ~Stopped
    /\ consumed' = [consumed EXCEPT ![IntentOf[Proposal]] = Proposal]
    /\ phase' = "permit"
    /\ UNCHANGED <<others, entered, rejected, stopVars, mode, todo, taken, job, unwritten,
                   fileVars, ran>>

\* A stop after the permit, or a guard of issue_permit or send: "the approval
\* is spent", no order has left.
PermitRefused ==
    /\ phase = "permit" /\ Answering(Reply("refused"))
    /\ UNCHANGED <<outside, stopVars, mode, todo, taken, unwritten, fileVars, ran>>

\* send: the durable claim and the order.
Send ==
    /\ phase = "permit" /\ ~Stopped
    /\ entered' = entered \cup {IntentOf[Proposal]}
    /\ Ran

\* Acknowledged; rejected or uncertain; or send or the event after it raised.
SendEntry ==
    /\ Send
    /\ \E out \in {Sent("applied"), Sent("failed"), Reply("failed")} : Answering(out)
    /\ UNCHANGED <<others, consumed, rejected, stopVars, mode, todo, taken, unwritten,
                   fileVars>>

Flow ==
    \/ FlowRefused \/ FlowFails \/ PlaceFile \/ RejectEntry \/ ApproveAgain
    \/ IssuePermit \/ PermitRefused \/ SendEntry

\* An entry flow loses the gateway, before or after what it does: its claim
\* stays, unanswered.
SessionLost ==
    /\ mode = "loop" /\ phase \in {"apply", "permit"} /\ Kind[Command] \in EntryKinds
    /\ \/ UNCHANGED <<entryVars, ran>>
       \/ phase = "apply" /\ Kind[Command] = "compose_entry" /\ Ran /\ UNCHANGED entryVars
       \/ Reject /\ UNCHANGED <<consumed, entered>>
       \/ Send /\ UNCHANGED <<consumed, rejected>>
    /\ mode' = "exit" /\ phase' = "top" /\ todo' = {} /\ job' = None
    /\ UNCHANGED <<others, stopVars, taken, unwritten, fileVars>>

-----------------------------------------------------------------------------
(* One command: answer and archive. *)

\* The answer keeps the identity of the accepted command; when it was given
\* is left out.  It waits for the web's lock.
Write(k, out) ==
    /\ web = None
    /\ result' = [result EXCEPT ![k] =
                     [@ EXCEPT !.status = out.status, !.sent = out.sent, !.desk = TRUE]]

\* The claim moves to done/; a second claim of an archived key goes aside.
Archived(k) ==
    /\ claimed' = [claimed EXCEPT ![k] = None]
    /\ archived' = archived \cup {k}

Answer ==
    /\ phase = "answer" /\ Write(job.key, job.out)
    /\ phase' = "archive"
    /\ UNCHANGED <<outside, stopVars, mode, todo, taken, job, unwritten, queued,
                   claimed, archived, ran>>

AnswerFails_Drops ==
    /\ phase = "answer"
    /\ job' = None /\ phase' = "next"
    /\ UNCHANGED <<outside, stopVars, mode, todo, taken, unwritten, fileVars, ran>>

\* The store refuses the write: the answer is kept in memory.
AnswerFails ==
    /\ phase = "answer"
    /\ unwritten' = [unwritten EXCEPT ![job.key] = job.out]
    /\ job' = None /\ phase' = "next"
    /\ UNCHANGED <<outside, stopVars, mode, todo, taken, fileVars, ran>>

\* Best effort: a failure leaves the claim for the next start.
Archive ==
    /\ phase = "archive"
    /\ Archived(job.key) \/ UNCHANGED <<claimed, archived>>
    /\ job' = None /\ phase' = "next"
    /\ UNCHANGED <<outside, stopVars, mode, todo, taken, unwritten, queued, result,
                   ran>>

\* Every pass first writes what it can of the answers it holds.
WriteUnwritten(k) ==
    /\ phase = "top" /\ unwritten[k] # None
    /\ Write(k, unwritten[k])
    /\ Archived(k) \/ UNCHANGED <<claimed, archived>>
    /\ unwritten' = [unwritten EXCEPT ![k] = None]
    /\ UNCHANGED <<outside, stopVars, mode, phase, todo, taken, job, queued, ran>>

-----------------------------------------------------------------------------
(* What others do in the run directory (external, bounded). *)

Others == /\ foreign < MaxForeign /\ foreign' = foreign + 1
          /\ UNCHANGED <<clock, webVars, ownerVars, entryVars, ran, crashes>>

\* The terminal's `touch` (kill_file_action, `pause` with no issue time).
TouchStop(f) ==
    /\ Others /\ f \in Touchable /\ stop[f] = Absent
    /\ stop' = [stop EXCEPT ![f] = Unstamped]
    /\ UNCHANGED <<backing, unaudited, fileVars>>

\* A command the owner has taken reappears in the queue (a restored copy).
CopyBack(k) ==
    /\ Others /\ queued[k] = None
    /\ claimed[k] # None \/ AnsweredByDesk(result[k])
    /\ queued' = [queued EXCEPT ![k] = result[k].cmd]
    /\ UNCHANGED <<stopVars, claimed, archived, result>>

\* done/ is cleaned up.
PruneArchive(k) ==
    /\ Others /\ k \in archived
    /\ archived' = archived \ {k}
    /\ UNCHANGED <<stopVars, queued, claimed, result>>

Advance ==
    /\ clock < MaxClock
    /\ clock' = clock + 1
    /\ UNCHANGED <<webVars, stopVars, ownerVars, fileVars, entryVars, ran, crashes, foreign>>

-----------------------------------------------------------------------------
Web ==
    \/ \E c \in Commands : SubmitKnown(c) \/ SubmitRefused(c) \/ SubmitStage(c)
    \/ SubmitAccept \/ SubmitPublish \/ WebCrash

Owner ==
    \/ Boot \/ List \/ EndPass \/ Connect \/ GatewayLost \/ Leave \/ Crash
    \/ \E k \in Keys : Claim(k) \/ ClaimFails(k) \/ SetAside(k) \/ RecoverTake(k)
                       \/ WriteUnwritten(k)
    \/ AlreadyAnswered \/ Validate \/ RecoverAnswered \/ RecoverInterrupted
    \/ PlaceStop \/ ResumeAll \/ LiftStop \/ LiftPause \/ Audit \/ AuditFails
    \/ ApplyFails \/ Flow \/ SessionLost
    \/ Answer \/ AnswerFails \/ Archive

Environment ==
    \/ Advance
    \/ \E f \in StopFiles : TouchStop(f)
    \/ \E k \in Keys : CopyBack(k) \/ PruneArchive(k)

Next == Web \/ Owner \/ Environment
Spec == Init /\ [][Next]_vars

\* The service manager restarts the owner and a running process makes its
\* next step; connecting, keeping the gateway up to the next pass, a rename
\* and the write of an answer, tried again and again, succeed some time.
Fairness ==
    /\ WF_vars(Boot) /\ WF_vars(List) /\ WF_vars(EndPass) /\ WF_vars(Archive)
    /\ WF_vars(SubmitAccept \/ SubmitPublish)
    /\ WF_vars(Validate \/ AlreadyAnswered \/ RecoverAnswered \/ RecoverInterrupted)
    /\ WF_vars(PlaceStop \/ ResumeAll \/ LiftStop \/ LiftPause \/ Audit)
    /\ WF_vars(FlowRefused \/ PlaceFile \/ ApproveAgain \/ PermitRefused)
    /\ WF_vars(mode = "exit" /\ Leave)
    /\ SF_vars(Connect) /\ SF_vars(mode = "loop" /\ List)
    /\ \A k \in Keys :
          /\ WF_vars(RecoverTake(k)) /\ WF_vars(SetAside(k))
          /\ SF_vars(Claim(k) \/ (Answer /\ job.key = k) \/ WriteUnwritten(k))
LiveSpec == Spec /\ Fairness

-----------------------------------------------------------------------------
(* Safety properties. *)

\* What the owner has in the queue or in hand under a key is the one command
\* the web recorded for that key, whatever other document claimed the key
\* and wherever the web died: the order of the three writes of _queue, and
\* _finish_publication's check of the status.
QueuedIsAccepted ==
    \A k \in Keys : \A c \in {queued[k], claimed[k]} \ {None} :
        /\ result[k] # None /\ result[k].cmd = c
        /\ result[k].desk \/ result[k].status = "accepted"

\* A key's outcome moves once, from "accepted" to the desk's answer for the
\* same command; a refusal and an answer are final.  ("never replaced":
\* _process, CommandStore.submit.)
OutcomeIsFinal ==
    [][\A k \in Keys : result[k] # None /\ result'[k] # result[k] =>
          /\ result[k].status = "accepted" /\ ~result[k].desk
          /\ result'[k].desk /\ result'[k].cmd = result[k].cmd]_vars

\* The command k approves the entry of proposal p, and sent its order.
Approves(k, p) == Kind[result[k].cmd] = "approve_entry" /\ ProposalOf[result[k].cmd] = p
Sender(k, p) == ran[k] > 0 /\ Approves(k, p)

\* The effect of a command that is not a safety kind starts at most once,
\* across crashes, refused writes, recovery and copies of its file; and an
\* intent is sent by one approval, whatever other keys and other proposals
\* of that intent are approved, before or after.
AppliedOnce ==
    /\ \A k \in Keys : ran[k] > 1 => Kind[result[k].cmd] \in SafetyKinds
    /\ \A j, k \in Keys : \A p, q \in Proposals :
          Sender(j, p) /\ Sender(k, q) /\ IntentOf[p] = IntentOf[q] => j = k

\* What the web shows is what happened.  "applied": the effect ran; of an
\* approval, this one sent the order or the one that did is answered
\* "applied" too; of a rejection, no approval of the proposal has sent it or
\* will.  "refused": this command had no effect and sent nothing, though the
\* approval it used may be spent.
AnswersAreTrue ==
    \A k \in Keys : AnsweredByDesk(result[k]) =>
        LET p == ProposalOf[result[k].cmd] IN
        /\ result[k].status = "refused" => ran[k] = 0
        /\ result[k].status = "applied" =>
              \/ ran[k] > 0
              \/ Approves(k, p) /\ \E j \in Keys : /\ Sender(j, p) /\ AnsweredByDesk(result[j])
                                                   /\ result[j].status = "applied"
        /\ result[k].status = "applied" /\ Kind[result[k].cmd] = "reject_entry" =>
              \A j \in Keys : ~Sender(j, p)

\* An accepted halt, flatten or pause is never answered otherwise than
\* applied, however late the owner takes it and however often owners die
\* with it in hand (when no file operation fails).
SafetyNeverDropped ==
    \A k \in Keys : AnsweredByDesk(result[k]) /\ Kind[result[k].cmd] \in SafetyKinds
        => result[k].status = "applied"

\* While the owner loops, every safety command a dead owner left claimed has
\* had its effect: start() recovers before the first tick.
StopsBeforeLoop ==
    mode = "loop" => \A k \in Keys :
        /\ claimed[k] # None /\ Kind[claimed[k]] \in SafetyKinds
        /\ (job = None \/ job.key # k)
        => ran[k] > 0

\* A stop file goes away only by a resume that is at least as new as every
\* stop command applied since it was placed: a late or retried resume never
\* lifts a newer stop, whatever order passes and recoveries applied them in.
NewerStopStands ==
    [][\A f \in StopFiles : stop[f] # Absent /\ stop'[f] = Absent =>
          /\ Kind[Command] \in ResumeKinds
          /\ \A k \in backing[f] : IssuedAt[result[k].cmd] <= IssuedAt[Command]]_vars

\* No PAUSE_ENTRIES is lifted without an audit line, once the command that
\* lifted it is over ("an unaudited resume never stands"), unless the owner
\* died before the append.
ResumeIsAudited == crashes = 0 /\ phase \in {"down", "top", "next"} => ~unaudited

-----------------------------------------------------------------------------
(* Liveness. *)

\* Every command the owner can see is answered in the end, through crashes,
\* lost gateways, failing claims and refused writes.
EveryCommandAnswered ==
    \A k \in Keys : queued[k] # None ~> AnsweredByDesk(result[k])
=============================================================================
