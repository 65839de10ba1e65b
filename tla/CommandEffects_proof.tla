------------------------ MODULE CommandEffects_proof ------------------------
(***************************************************************************)
(* Theorems about CommandQueue, continued: what the commands do.  An       *)
(* effect starts once, its answer is true and final, a stop is obeyed and  *)
(* stands until a resume as new as it, and a lifted pause has its line.    *)
(* The steps rest on Base, the inductive invariant of CommandQueue_proof.  *)
(***************************************************************************)
EXTENDS CommandQueue_proof

USE QueueAssumption, NoneAssumption

---------------------------------------------------------------------------
(* Who changes what.                                                       *)

\* A key that has a result keeps it, but for the desk's answer.
LEMMA OutsideFacts ==
    ASSUME Base, Web \/ Environment
    PROVE  /\ UNCHANGED <<ownerVars, entryVars, claimed, ran, backing, unaudited>>
           /\ \A k \in Keys : /\ result[k] # None => result'[k] = result[k]
                              /\ Desk(k)' <=> Desk(k)
<1> USE DEF webVars, stopVars, ownerVars, fileVars, entryVars
<1>0. FilesTypeOK /\ WebInHand
  BY DEF Base, TypeOK, Intake
<1>1. UNCHANGED <<ownerVars, entryVars, claimed, ran, backing, unaudited>>
  BY DEF Web, SubmitKnown, SubmitRefused, SubmitStage, SubmitAccept, SubmitPublish, WebCrash,
         Environment, Advance, TouchStop, CopyBack, PruneArchive, Others
<1>2. ASSUME NEW k \in Keys, NEW c \in Commands, NEW s, NEW n, result[k] = None,
             result' = [result EXCEPT ![k] = WebResult(c, s, n)]
      PROVE  \A j \in Keys : /\ result[j] # None => result'[j] = result[j]
                             /\ Desk(j)' <=> Desk(j)
  <2>1. WebResult(c, s, n).desk = FALSE
    BY DEF WebResult
  <2> HIDE DEF WebResult
  <2>2. result'[k] = WebResult(c, s, n) /\ \A j \in Keys \ {k} : result'[j] = result[j]
    BY <1>0, <1>2 DEF FilesTypeOK
  <2> QED BY <1>2, <2>1, <2>2 DEF Desk, AnsweredByDesk
<1>3. CASE result' = result
  <2>1. \A k \in Keys : result'[k] = result[k]
    BY <1>3
  <2> QED BY <1>1, <2>1 DEF Desk, AnsweredByDesk
<1>4. CASE \E c \in Commands : SubmitRefused(c)
  <2>1. PICK c \in Commands : SubmitRefused(c)
    BY <1>4
  <2>2. /\ KeyOf[c] \in Keys /\ result[KeyOf[c]] = None
        /\ result' = [result EXCEPT ![KeyOf[c]] = WebResult(c, "refused", clock)]
    BY <2>1 DEF SubmitRefused
  <2> QED BY <1>1, <1>2, <2>2
<1>5. CASE SubmitAccept
  <2>1. /\ web # None /\ web.step = "accept"
        /\ result' = [result EXCEPT ![KeyOf[web.cmd]] = WebResult(web.cmd, "accepted", web.at)]
    BY <1>5 DEF SubmitAccept
  <2>2. KeyOf[web.cmd] \in Keys /\ web.cmd \in Commands /\ result[KeyOf[web.cmd]] = None
    BY <1>0, <2>1 DEF WebInHand, FilesTypeOK, Submission
  <2> QED BY <1>1, <1>2, <2>1, <2>2
<1> QED BY <1>3, <1>4, <1>5
       DEF Web, SubmitKnown, SubmitStage, SubmitPublish, WebCrash,
           Environment, Advance, TouchStop, CopyBack, PruneArchive, Others

\* The desk answers one key, and leaves the others alone.
Answered(k, out) ==
    /\ result'[k] # None /\ result'[k].cmd = result[k].cmd
    /\ result'[k].status = out.status /\ result'[k].sent = out.sent /\ result'[k].desk = TRUE
    /\ \A j \in Keys \ {k} : result'[j] = result[j]

LEMMA AnswerFacts ==
    ASSUME Base, Answer
    PROVE  /\ phase = "answer" /\ phase' = "archive" /\ job \in Job /\ job # None
           /\ job.key \in Keys /\ job.out \in Answers /\ Answered(job.key, job.out)
           /\ UNCHANGED <<job, claimed, ran, unwritten, mode, todo, stopVars, entryVars, crashes>>
<1>1. /\ phase = "answer" /\ phase \in Busy /\ phase' = "archive"
      /\ UNCHANGED <<job, claimed, ran, unwritten, mode, todo, stopVars, entryVars, crashes>>
  BY DEF Answer, Busy, outside, others
<1>2. job \in Job /\ job # None /\ job.key \in Keys /\ job.out \in Answers /\ result[job.key] # None
  BY <1>1, CommandFacts DEF Job
<1>3. TypeOK /\ Write(job.key, job.out)
  BY DEF Base, Answer
<1>4. ASSUME NEW k \in Keys, NEW o \in Answers, result[k] # None, Write(k, o)
      PROVE  Answered(k, o)
  BY <1>3, <1>4, WriteFacts DEF Answered
<1>5. Answered(job.key, job.out)
  BY <1>2, <1>3, <1>4
<1> QED BY <1>1, <1>2, <1>5

LEMMA WrittenFacts ==
    ASSUME Base, NEW k \in Keys, WriteUnwritten(k)
    PROVE  /\ phase = "top" /\ job = None /\ mode # "recover" /\ claimed[k] # None
           /\ unwritten[k] \in Answers /\ Answered(k, unwritten[k])
           /\ unwritten'[k] = None /\ \A j \in Keys \ {k} : unwritten'[j] = unwritten[j]
           /\ claimed'[k] \in {claimed[k], None}
           /\ \A j \in Keys \ {k} : claimed'[j] = claimed[j]
           /\ UNCHANGED <<phase, job, ran, mode, todo, stopVars, entryVars, crashes>>
<1>1. /\ phase = "top" /\ unwritten[k] # None /\ Write(k, unwritten[k])
      /\ unwritten' = [unwritten EXCEPT ![k] = None]
      /\ Archived(k) \/ UNCHANGED <<claimed, archived>>
      /\ UNCHANGED <<phase, job, ran, mode, todo, stopVars, entryVars, crashes>>
  BY DEF WriteUnwritten, outside, others
<1>2. FilesTypeOK /\ OwnerTypeOK /\ Course /\ QueuedIsAccepted
  BY DEF Base, TypeOK, Intake
<1>3. job = None /\ mode # "recover"
  BY <1>1, <1>2 DEF Course, Busy
<1>4. claimed[k] # None /\ unwritten[k] \in Answers /\ result[k] # None
  BY <1>1, <1>2 DEF Course, OwnerTypeOK, QueuedIsAccepted
<1>5. Answered(k, unwritten[k])
  BY <1>1, <1>4, WriteFacts DEF Base, Answered
<1>6. claimed'[k] \in {claimed[k], None} /\ \A j \in Keys \ {k} : claimed'[j] = claimed[j]
  BY <1>1, <1>2 DEF Archived, FilesTypeOK
<1>7. unwritten'[k] = None /\ \A j \in Keys \ {k} : unwritten'[j] = unwritten[j]
  BY <1>1, <1>2 DEF OwnerTypeOK
<1> QED BY <1>1, <1>3, <1>4, <1>5, <1>6, <1>7

\* The claim of a listed key.
LEMMA ClaimFacts ==
    ASSUME Base, NEW k \in Keys, Claim(k)
    PROVE  /\ phase' = "validate" /\ mode # "recover" /\ claimed[k] = None /\ job = None
           /\ job'.key = k /\ job' # None /\ job'.out = Reply("applied")
           /\ claimed'[k] = queued[k] /\ claimed'[k] # None
           /\ \A j \in Keys \ {k} : claimed'[j] = claimed[j]
           /\ UNCHANGED <<result, ran, unwritten, mode, stopVars, crashes>>
<1>1. /\ k \in todo /\ phase = "next" /\ mode # "recover" /\ claimed[k] = None
      /\ claimed' = [claimed EXCEPT ![k] = queued[k]]
      /\ job' = NewJob(k) /\ phase' = "validate"
      /\ UNCHANGED <<result, ran, unwritten, mode, stopVars, crashes>>
  BY DEF Claim, Turn, outside, others
<1>2. queued[k] # None /\ job = None
  <2>1. Course /\ phase \notin Busy
    BY <1>1 DEF Base, Busy
  <2> QED BY <1>1, <2>1 DEF Course
<1>3. claimed'[k] = queued[k] /\ \A j \in Keys \ {k} : claimed'[j] = claimed[j]
  BY <1>1 DEF Base, TypeOK, FilesTypeOK
<1> QED BY <1>1, <1>2, <1>3, NewJobFacts

\* The claim of an answered command goes away.
LEMMA ArchiveFacts ==
    ASSUME Base, Archive \/ AlreadyAnswered
    PROVE  /\ phase \in {"archive", "validate"} /\ phase' = "next" /\ job' = None
           /\ job.key \in Keys /\ claimed'[job.key] \in {claimed[job.key], None}
           /\ AlreadyAnswered => Desk(job.key)
           /\ \A j \in Keys \ {job.key} : claimed'[j] = claimed[j]
           /\ UNCHANGED <<result, ran, unwritten, mode, todo, stopVars, crashes>>
<1>1. /\ phase \in {"archive", "validate"} /\ phase' = "next" /\ job' = None /\ phase \in Busy
      /\ Archive => phase = "archive"
      /\ UNCHANGED <<result, ran, unwritten, mode, todo, stopVars, crashes>>
  BY DEF Archive, AlreadyAnswered, Busy, outside, others
<1>2. job.key \in Keys
  BY <1>1, CommandFacts
<1>3. claimed' \in {claimed, [claimed EXCEPT ![job.key] = None]}
  BY DEF Archive, AlreadyAnswered, Archived
<1>4. /\ claimed'[job.key] \in {claimed[job.key], None}
      /\ \A j \in Keys \ {job.key} : claimed'[j] = claimed[j]
  BY <1>2, <1>3 DEF Base, TypeOK, FilesTypeOK
<1>5. AlreadyAnswered => Desk(job.key)
  BY DEF AlreadyAnswered, Intakes, AnsweredByDesk, Desk
<1> QED BY <1>1, <1>2, <1>4, <1>5

\* An effect starts from "apply", and the sending of an order from "permit".
Acting == phase \in {"apply", "permit"}

LEMMA EffectFacts ==
    ASSUME Base, Ran, Acting
    PROVE  /\ job.key \in Keys /\ ran'[job.key] > 0
           /\ ran[job.key] = 0 => ran'[job.key] = 1
           /\ \A k \in Keys \ {job.key} : ran'[k] = ran[k]
<1>1. job # None
  BY DEF Base, Course, Busy, Acting
<1> QED BY <1>1, RanFacts

\* An effect starts in the hands of the owner, and what ran stays so.
LEMMA RanSteps ==
    ASSUME Base, [Next]_vars
    PROVE  ran' = ran \/ (Ran /\ Acting)
<1>1. CASE Flow
  BY <1>1, FlowFacts DEF Acting
<1> QED
  BY <1>1 DEF Next, Web, SubmitKnown, SubmitRefused, SubmitStage, SubmitAccept, SubmitPublish,
     WebCrash, Environment, Advance, TouchStop, CopyBack, PruneArchive, Others,
     Owner, vars, Boot, List, EndPass, Connect, GatewayLost, Leave, Crash,
     Down, Claim, ClaimFails, SetAside, RecoverTake, WriteUnwritten, AlreadyAnswered, Validate,
     RecoverAnswered, RecoverInterrupted, PlaceStop, ResumeAll, LiftStop, LiftPause, Audit,
     AuditFails, ApplyFails, SessionLost, Reject, Send, Answer, AnswerFails, Archive, Acting

LEMMA RanGrows ==
    ASSUME Base, [Next]_vars, NEW k \in Keys, ran[k] > 0
    PROVE  ran'[k] > 0
  BY RanSteps, EffectFacts

\* What the web recorded for a key stays.
Issue(k) == IssuedAt[result[k].cmd]

LEMMA RecordStays ==
    ASSUME Base, [Next]_vars
    PROVE  \A k \in Keys : result[k] # None =>
              /\ result'[k] # None /\ result'[k].cmd = result[k].cmd /\ Issue(k)' = Issue(k)
<1> SUFFICES \A k \in Keys : result[k] # None =>
                result'[k] # None /\ result'[k].cmd = result[k].cmd
  BY DEF Issue
<1>1. CASE Web \/ Environment
  BY <1>1, OutsideFacts
<1>2. CASE Answer
  BY <1>2, AnswerFacts DEF Answered
<1>3. CASE \E k \in Keys : WriteUnwritten(k)
  BY <1>3, WrittenFacts DEF Answered
<1>4. CASE result' = result
  BY <1>4
<1>5. Owner /\ ~Answer /\ ~(\E k \in Keys : WriteUnwritten(k)) => result' = result
  BY FlowFacts DEF Owner, Boot, List, EndPass, Connect, GatewayLost, Leave, Crash, Down, Claim, ClaimFails,
     SetAside, RecoverTake, AlreadyAnswered, Validate, RecoverAnswered, RecoverInterrupted,
     PlaceStop, ResumeAll, LiftStop, LiftPause, Audit, AuditFails, ApplyFails, SessionLost,
     AnswerFails, Archive, fileVars
<1>6. UNCHANGED vars => result' = result
  BY DEF vars, fileVars
<1> QED BY <1>1, <1>2, <1>3, <1>4, <1>5, <1>6 DEF Next

---------------------------------------------------------------------------
(* Effects start once.                                                     *)

\* An effect that started has its claim until it is answered; a command that
\* is about to be applied, and is not a safety kind, had none.
Fresh ==
    /\ phase = "validate" /\ mode # "recover" /\ ~Desk(job.key) => ran[job.key] = 0
    /\ phase = "apply" /\ Kind[Command] \notin SafetyKinds => ran[job.key] = 0
    /\ phase = "permit" => ran[job.key] = 0 /\ Kind[Command] = "approve_entry"
    /\ phase \in {"lift", "audit"} => Kind[Command] \in SafetyKinds \cup ResumeKinds
    /\ phase = "archive" => Desk(job.key)
NoSecondRun == \A k \in Keys : ran[k] > 1 => Kind[result[k].cmd] \in SafetyKinds
Once ==
    /\ NoSecondRun
    /\ \A k \in Keys : ran[k] > 0 /\ ~Desk(k) => claimed[k] # None
    /\ Fresh

\* A stop or a resume at work keeps its key.
LEMMA HandFacts ==
    ASSUME Base, PlaceStop \/ ResumeAll \/ LiftStop \/ LiftPause
    PROVE  job'.key = job.key
<1>1. job \in Job
  BY CommandFacts DEF PlaceStop, ResumeAll, LiftStop, LiftPause, Busy
<1> QED BY <1>1 DEF PlaceStop, ResumeAll, LiftStop, LiftPause, Job

LEMMA InitOnce == Init => Once
  BY DEF Init, Once, NoSecondRun, Fresh

LEMMA NextOnce == Base /\ Once /\ [Next]_vars => Once'
<1> SUFFICES ASSUME Base, Once, [Next]_vars PROVE Once'
  OBVIOUS
<1> DEFINE Claims == \A k \in Keys : ran[k] > 0 /\ ~Desk(k) => claimed[k] # None
<1>0. /\ NoSecondRun /\ Claims /\ Fresh /\ QueuedIsAccepted
      /\ ran \in [Keys -> 0..2] /\ claimed \in [Keys -> Commands \cup {None}]
      /\ result \in [Keys -> Result \cup {None}]
  BY DEF Once, Base, TypeOK, FilesTypeOK, CountTypeOK, Intake
<1>1. \A k \in Keys : ran[k] > 0 => result[k] # None
  BY <1>0 DEF Desk, AnsweredByDesk, QueuedIsAccepted
<1>2. CASE UNCHANGED vars
  BY <1>0, <1>2 DEF vars, Once, NoSecondRun, Fresh, Desk, AnsweredByDesk, ownerVars, fileVars, Command
<1>3. CASE Web \/ Environment
  <2>1. /\ UNCHANGED <<ownerVars, claimed, ran>>
        /\ \A k \in Keys : /\ result[k] # None => result'[k] = result[k]
                           /\ Desk(k)' <=> Desk(k)
    BY <1>3, OutsideFacts
  <2>2. NoSecondRun'
    BY <1>0, <1>1, <2>1 DEF NoSecondRun
  <2>3. Claims'
    BY <1>0, <2>1
  <2>4. Fresh'
    <3>1. phase \in Busy => job.key \in Keys
      BY CommandFacts
    <3> QED BY <1>0, <2>1, <3>1 DEF Fresh, ownerVars, Busy, Command
  <2> QED BY <2>2, <2>3, <2>4 DEF Once
\* The effect of the command in hand starts, or nothing that counts happens.
<1>4. ASSUME UNCHANGED <<result, claimed>>, ran' = ran \/ (Ran /\ Acting)
      PROVE  NoSecondRun' /\ Claims'
  <2>1. CASE ran' = ran
    BY <1>0, <1>4, <2>1 DEF NoSecondRun, Desk, AnsweredByDesk
  <2>2. CASE Ran /\ Acting
    <3>1. /\ job.key \in Keys /\ ran'[job.key] > 0 /\ (ran[job.key] = 0 => ran'[job.key] = 1)
          /\ \A k \in Keys \ {job.key} : ran'[k] = ran[k]
      BY <2>2, EffectFacts
    <3>2. result[job.key].cmd = Command /\ Command # None
      BY <2>2, CommandFacts DEF Busy, Acting
    <3>3. NoSecondRun'
      BY <1>0, <1>4, <2>2, <3>1, <3>2 DEF NoSecondRun, Fresh, Acting
    <3>4. Claims'
      BY <1>0, <1>4, <3>1, <3>2 DEF Desk, AnsweredByDesk, Command
    <3> QED BY <3>3, <3>4
  <2> QED BY <1>4, <2>1, <2>2
<1>5. CASE \/ Boot \/ List \/ EndPass \/ Connect \/ GatewayLost \/ Leave \/ Crash
           \/ (\E k \in Keys : ClaimFails(k) \/ SetAside(k))
           \/ RecoverInterrupted \/ AuditFails \/ ApplyFails \/ SessionLost \/ AnswerFails
           \/ Audit
  <2>1. /\ UNCHANGED <<result, claimed>> /\ (ran' = ran \/ (Ran /\ Acting))
        /\ phase' \in {"down", "top", "next", "answer"}
    BY <1>5 DEF Boot, List, EndPass, Connect, GatewayLost, Leave, Crash, Down, ClaimFails, Turn,
       SetAside, RecoverInterrupted, AuditFails, ApplyFails, SessionLost, Reject, Send, Audit,
       AnswerFails, Acting, fileVars
  <2>2. Fresh'
    BY <2>1 DEF Fresh
  <2> QED BY <1>4, <2>1, <2>2 DEF Once
\* A file command at work: a stop, or a resume.
<1>12. CASE PlaceStop \/ ResumeAll \/ LiftStop \/ LiftPause
  <2>1. /\ UNCHANGED <<result, claimed>> /\ (ran' = ran \/ (Ran /\ Acting))
        /\ phase' \in {"lift", "audit", "answer"}
        /\ phase \in Busy /\ (phase = "lift" \/ Kind[Command] \in SafetyKinds \cup ResumeKinds)
    BY <1>12 DEF PlaceStop, ResumeAll, LiftStop, LiftPause, Acting, Busy, ResumeKinds, fileVars
  <2>2. job'.key = job.key /\ Kind[Command] \in SafetyKinds \cup ResumeKinds
    BY <1>0, <1>12, <2>1, HandFacts DEF Fresh
  <2>3. Fresh'
    BY <2>1, <2>2 DEF Fresh, Command
  <2> QED BY <1>4, <2>1, <2>3 DEF Once
<1>13. CASE Flow
  <2>1. /\ UNCHANGED <<result, claimed>> /\ (ran' = ran \/ (Ran /\ Acting))
        /\ phase' \in {"permit", "answer"}
    BY <1>13, FlowFacts DEF Acting, fileVars
  <2>2. phase' = "permit" => /\ phase = "apply" /\ Kind[Command] = "approve_entry"
                             /\ UNCHANGED <<job, ran>>
    BY <1>13, <2>1 DEF Flow, FlowRefused, FlowFails, PlaceFile, RejectEntry, ApproveAgain,
       IssuePermit, PermitRefused, SendEntry, Answering
  <2>3. Fresh'
    BY <1>0, <2>1, <2>2 DEF Fresh, Command, SafetyKinds
  <2> QED BY <1>4, <2>1, <2>3 DEF Once
<1>6. CASE Validate
  <2>1. /\ phase = "validate" /\ UNCHANGED <<result, claimed, ran>> /\ phase' \in {"answer", "apply"}
        /\ mode = "recover" => Kind[Command] \in SafetyKinds
        /\ phase' = "apply" => job' = job
    BY <1>6 DEF Validate, fileVars, Command
  <2>2. phase' = "apply" => ~Desk(job.key)
    BY <1>6 DEF Validate, Intakes, Refusal, Desk
  <2>3. Fresh'
    BY <1>0, <2>1, <2>2 DEF Fresh, Command
  <2> QED BY <1>4, <2>1, <2>3 DEF Once
<1>7. CASE RecoverAnswered \/ \E k \in Keys : RecoverTake(k)
  <2>1. /\ UNCHANGED <<result, claimed, ran, mode>> /\ mode = "recover"
        /\ phase' \in {"archive", "validate"}
        /\ phase' = "archive" => job' = job /\ RecoverAnswered
    BY <1>7 DEF RecoverAnswered, RecoverTake, fileVars
  <2>2. RecoverAnswered => Desk(job.key)
    BY DEF RecoverAnswered, Intakes, AnsweredByDesk, Desk
  <2>3. Fresh'
    BY <2>1, <2>2 DEF Fresh, Desk, AnsweredByDesk
  <2> QED BY <1>4, <2>1, <2>3 DEF Once
<1>8. ASSUME NEW k \in Keys, Claim(k) PROVE Once'
  <2>1. /\ phase' = "validate" /\ claimed[k] = None /\ job'.key = k /\ claimed'[k] # None
        /\ \A j \in Keys \ {k} : claimed'[j] = claimed[j]
        /\ UNCHANGED <<result, ran>>
    BY <1>8, ClaimFacts
  <2>2. ~Desk(k) => ran[k] = 0
    BY <1>0, <2>1
  <2> QED BY <1>0, <2>1, <2>2 DEF Once, NoSecondRun, Fresh, Desk, AnsweredByDesk
<1>9. CASE Archive \/ AlreadyAnswered
  <2>1. /\ phase' = "next" /\ job.key \in Keys /\ UNCHANGED <<result, ran>>
        /\ \A j \in Keys \ {job.key} : claimed'[j] = claimed[j]
        /\ Desk(job.key)
    BY <1>0, <1>9, ArchiveFacts DEF Fresh, Archive
  <2> QED BY <1>0, <2>1 DEF Once, NoSecondRun, Fresh, Desk, AnsweredByDesk
<1>10. CASE Answer
  <2>1. /\ phase' = "archive" /\ job.key \in Keys /\ Answered(job.key, job.out)
        /\ UNCHANGED <<job, claimed, ran>>
    BY <1>10, AnswerFacts
  <2> QED BY <1>0, <2>1 DEF Once, NoSecondRun, Fresh, Desk, AnsweredByDesk, Answered
<1>11. ASSUME NEW k \in Keys, WriteUnwritten(k) PROVE Once'
  <2>1. /\ phase' = "top" /\ Answered(k, unwritten[k]) /\ UNCHANGED ran
        /\ \A j \in Keys \ {k} : claimed'[j] = claimed[j]
    BY <1>11, WrittenFacts
  <2> QED BY <1>0, <2>1 DEF Once, NoSecondRun, Fresh, Desk, AnsweredByDesk, Answered
<1> QED BY <1>2, <1>3, <1>5, <1>6, <1>7, <1>8, <1>9, <1>10, <1>11, <1>12, <1>13 DEF Next, Owner

---------------------------------------------------------------------------
(* An intent is sent once.                                                 *)

\* What was sent is claimed in the outbox, its approval is consumed, and it
\* is not rejected; with a permit in hand, nothing of the intent was sent.
Spending ==
    /\ \A k \in Keys : \A p \in Proposals : Sender(k, p) =>
          IntentOf[p] \in entered /\ consumed[IntentOf[p]] = p /\ p \notin rejected
    /\ phase = "permit" =>
          /\ IntentOf[Proposal] \notin entered
          /\ consumed[IntentOf[Proposal]] = Proposal /\ Proposal \notin rejected
OneSender ==
    \A j, k \in Keys : \A p, q \in Proposals :
        Sender(j, p) /\ Sender(k, q) /\ IntentOf[p] = IntentOf[q] => j = k
Entries == Spending /\ OneSender

LEMMA InitEntries == Init => Entries
  BY DEF Init, Entries, Spending, OneSender, Sender

\* Only the sending of an order makes a sender.
LEMMA SenderFacts ==
    ASSUME Base, Once, [Next]_vars, NEW k \in Keys, NEW p \in Proposals, Sender(k, p)'
    PROVE  \/ Sender(k, p)
           \/ /\ ran' # ran /\ k = job.key /\ p = Proposal
              /\ Kind[Command] = "approve_entry"
<1>1. CASE ran[k] > 0
  <2>1. result[k] # None
    BY <1>1 DEF Once, Desk, AnsweredByDesk, Base, Intake, QueuedIsAccepted
  <2>2. result'[k].cmd = result[k].cmd
    BY <2>1, RecordStays
  <2> QED BY <1>1, <2>2 DEF Sender, Approves
<1>2. CASE ~(ran[k] > 0)
  <2>1. ran'[k] > 0
    BY DEF Sender
  <2>2. Ran /\ Acting /\ k = job.key
    BY <1>2, <2>1, RanSteps, EffectFacts
  <2>3. result[k] # None /\ result[k].cmd = Command
    BY <2>2, CommandFacts DEF Acting, Busy
  <2>4. result'[k].cmd = Command
    BY <2>3, RecordStays
  <2> QED BY <1>2, <2>1, <2>2, <2>4 DEF Sender, Approves, Proposal
<1> QED BY <1>1, <1>2

\* An order leaves under a permit, which no other order of the intent had.
LEMMA SendSteps ==
    ASSUME Base, Once, Entries, [Next]_vars, Send, UNCHANGED <<consumed, rejected>>,
           phase' # "permit"
    PROVE  Entries'
<1> DEFINE i == IntentOf[Proposal]
<1>1. /\ phase = "permit" /\ entered' = entered \cup {i}
      /\ i \notin entered /\ consumed[i] = Proposal /\ Proposal \notin rejected
  BY DEF Send, Entries, Spending
<1>2. ASSUME NEW k \in Keys, NEW p \in Proposals, Sender(k, p)'
      PROVE  \/ Sender(k, p) /\ IntentOf[p] # i
             \/ k = job.key /\ p = Proposal
  BY <1>1, <1>2, SenderFacts DEF Entries, Spending
<1>3. Spending'
  BY <1>1, <1>2 DEF Entries, Spending
<1>4. OneSender'
  BY <1>2 DEF Entries, OneSender
<1> QED BY <1>3, <1>4 DEF Entries

\* A rejection finds its proposal unsent, and the approval with another.
LEMMA RejectSteps ==
    ASSUME Base, Once, Entries, [Next]_vars, Reject, UNCHANGED <<consumed, entered>>,
           phase' # "permit"
    PROVE  Entries'
<1>1. /\ Kind[Command] = "reject_entry" /\ rejected' = rejected \cup {Proposal}
      /\ IntentOf[Proposal] \notin entered
  BY DEF Reject
<1>2. ASSUME NEW k \in Keys, NEW p \in Proposals, Sender(k, p)' PROVE Sender(k, p)
  BY <1>1, <1>2, SenderFacts
<1>3. Spending'
  BY <1>1, <1>2 DEF Entries, Spending
<1>4. OneSender'
  BY <1>2 DEF Entries, OneSender
<1> QED BY <1>3, <1>4 DEF Entries

LEMMA NextEntries == Base /\ Once /\ Entries /\ [Next]_vars => Entries'
<1> SUFFICES ASSUME Base, Once, Entries, [Next]_vars PROVE Entries'
  OBVIOUS
<1>0. Spending /\ OneSender /\ consumed \in [Intents -> Proposals \cup {None}]
  BY DEF Entries, Base, TypeOK, EntryTypeOK
\* No step but the sending makes a sender.
<1>1. ASSUME UNCHANGED entryVars, ran' = ran \/ Kind[Command] # "approve_entry",
             phase' = "permit" => phase = "permit" /\ Proposal' = Proposal
      PROVE  Entries'
  <2>1. ASSUME NEW k \in Keys, NEW p \in Proposals, Sender(k, p)' PROVE Sender(k, p)
    BY <1>1, <2>1, SenderFacts
  <2>2. Spending'
    BY <1>0, <1>1, <2>1 DEF Spending, entryVars
  <2>3. OneSender'
    BY <1>0, <2>1 DEF OneSender
  <2> QED BY <2>2, <2>3 DEF Entries
<1>2. CASE UNCHANGED vars
  BY <1>1, <1>2 DEF vars, ownerVars, fileVars, Proposal, Command
<1>3. CASE Web \/ Environment
  BY <1>1, <1>3, OutsideFacts DEF ownerVars, Proposal, Command
<1>4. CASE IssuePermit
  <2> DEFINE i == IntentOf[Proposal]
  <2>1. /\ Proposal \notin rejected /\ consumed[i] = None /\ i \notin entered
        /\ consumed' = [consumed EXCEPT ![i] = Proposal] /\ phase = "apply"
        /\ UNCHANGED <<entered, rejected, job, claimed, ran>>
    BY <1>4 DEF IssuePermit, Spent, fileVars
  <2>2. i \in Intents /\ Proposal' = Proposal
    BY <2>1, CommandFacts DEF Busy, Proposal, Command
  <2>3. ASSUME NEW k \in Keys, NEW p \in Proposals, Sender(k, p)' PROVE Sender(k, p) /\ IntentOf[p] # i
    BY <1>0, <2>1, <2>3, SenderFacts DEF Spending
  <2>4. consumed'[i] = Proposal /\ \A j \in Intents \ {i} : consumed'[j] = consumed[j]
    BY <1>0, <2>1, <2>2
  <2>5. Spending'
    BY <1>0, <2>1, <2>2, <2>3, <2>4 DEF Spending
  <2>6. OneSender'
    BY <1>0, <2>3 DEF OneSender
  <2> QED BY <2>5, <2>6 DEF Entries
<1>5. CASE SendEntry
  BY <1>5, SendSteps DEF SendEntry, Answering
<1>6. CASE RejectEntry
  BY <1>6, RejectSteps DEF RejectEntry, Answering
<1>7. CASE SessionLost
  <2>1. phase' # "permit"
    BY <1>7 DEF SessionLost
  <2>2. \/ UNCHANGED entryVars /\ (ran' = ran \/ Kind[Command] # "approve_entry")
        \/ Reject /\ UNCHANGED <<consumed, entered>>
        \/ Send /\ UNCHANGED <<consumed, rejected>>
    BY <1>7 DEF SessionLost, entryVars
  <2> QED BY <1>1, <2>1, <2>2, RejectSteps, SendSteps
<1>8. CASE FlowRefused \/ FlowFails \/ PlaceFile \/ ApproveAgain \/ PermitRefused
  BY <1>1, <1>8 DEF FlowRefused, FlowFails, PlaceFile, ApproveAgain, PermitRefused, Answering,
     outside
<1>9. CASE \/ PlaceStop \/ ResumeAll \/ LiftStop \/ LiftPause \/ Audit \/ AuditFails \/ ApplyFails
  BY <1>1, <1>9 DEF PlaceStop, ResumeAll, LiftStop, LiftPause, Audit, AuditFails, ApplyFails,
     SafetyKinds, outside
<1>10. CASE \/ Boot \/ List \/ EndPass \/ Connect \/ GatewayLost \/ Leave \/ Crash
            \/ (\E k \in Keys : Claim(k) \/ ClaimFails(k) \/ SetAside(k) \/ RecoverTake(k)
                               \/ WriteUnwritten(k))
            \/ AlreadyAnswered \/ Validate \/ RecoverAnswered \/ RecoverInterrupted
            \/ Answer \/ AnswerFails \/ Archive
  <2>1. UNCHANGED entryVars /\ ran' = ran /\ phase' # "permit"
    BY <1>10 DEF Boot, List, EndPass, Connect, GatewayLost, Leave, Crash, Down, Claim,
       ClaimFails, SetAside, Turn, RecoverTake, WriteUnwritten, AlreadyAnswered, Validate,
       RecoverAnswered, RecoverInterrupted, Answer, AnswerFails, Archive, outside
  <2> QED BY <1>1, <2>1
<1> QED BY <1>2, <1>3, <1>4, <1>5, <1>6, <1>7, <1>8, <1>9, <1>10 DEF Next, Owner, Flow

\* The effect of a command that is not a safety kind starts at most once, and
\* one approval sends an intent.
THEOREM EffectOnce == Spec => []AppliedOnce
<1>1. Base /\ Once /\ Entries /\ [Next]_vars => Entries'
  BY NextEntries
<1>2. Once /\ Entries => AppliedOnce
  BY DEF Once, NoSecondRun, Entries, OneSender, AppliedOnce
<1> QED BY InitBase, NextBase, InitOnce, NextOnce, InitEntries, <1>1, <1>2, PTL DEF Spec

---------------------------------------------------------------------------
(* Stops and resumes.                                                      *)

\* A pause that was lifted without a line is about to get one.
Audited == unaudited /\ crashes = 0 => phase = "audit" /\ Lifted

LEMMA NextAudited == Base /\ Audited /\ [Next]_vars => Audited'
<1> SUFFICES ASSUME Base, Audited, [Next]_vars PROVE Audited'
  OBVIOUS
<1> USE DEF ownerVars, stopVars, outside, others, webVars
<1>0. crashes \in Nat /\ MaxCrashes \in Nat /\ (mode = "down" => phase = "down") /\ Course
  BY DEF Base, TypeOK, CountTypeOK, Course
<1>1. CASE UNCHANGED vars
  BY <1>1 DEF vars, Audited, Lifted
<1>2. CASE Web \/ Environment
  <2>1. UNCHANGED <<ownerVars, unaudited>>
    BY <1>2, OutsideFacts
  <2>2. crashes' = crashes \/ crashes' = crashes + 1
    BY <1>2 DEF Web, SubmitKnown, SubmitRefused, SubmitStage, SubmitAccept, SubmitPublish, WebCrash,
       Environment, Advance, TouchStop, CopyBack, PruneArchive, Others
  <2> QED BY <1>0, <2>1, <2>2 DEF Audited, Lifted
<1>3. CASE \/ Boot \/ List \/ EndPass \/ Connect \/ GatewayLost \/ Leave
           \/ (\E k \in Keys : Claim(k) \/ ClaimFails(k) \/ SetAside(k) \/ RecoverTake(k)
                               \/ WriteUnwritten(k))
           \/ AlreadyAnswered \/ Validate \/ RecoverAnswered \/ RecoverInterrupted
           \/ PlaceStop \/ ResumeAll \/ LiftStop
           \/ ApplyFails \/ Flow \/ SessionLost \/ Answer \/ AnswerFails \/ Archive
  <2>1. phase # "audit" /\ UNCHANGED <<unaudited, crashes>>
    BY <1>0, <1>3, FlowFacts
       DEF Boot, List, EndPass, Connect, GatewayLost, PassOver, Leave, Down, Claim,
       ClaimFails, SetAside, RecoverTake, Turn, WriteUnwritten, AlreadyAnswered, Validate,
       RecoverAnswered, RecoverInterrupted, PlaceStop, ResumeAll, LiftStop, Unlink, ApplyFails,
       SessionLost, Answer, AnswerFails, Archive
  <2> QED BY <2>1 DEF Audited
<1>4. CASE Crash
  <2>1. crashes' = crashes + 1
    BY <1>4 DEF Crash
  <2> QED BY <1>0, <2>1 DEF Audited
<1>5. CASE LiftPause
  <2>1. phase # "audit" /\ phase' = "audit" /\ UNCHANGED crashes
    BY <1>5 DEF LiftPause
  <2>2. CASE Lifts("PAUSE_ENTRIES")
    <3>1. /\ stop["PAUSE_ENTRIES"] \in Nat \cup {Absent} /\ stop["PAUSE_ENTRIES"] # Absent
          /\ backing["PAUSE_ENTRIES"] \in SUBSET Keys
      BY <2>2 DEF Lifts, Base, TypeOK, StopTypeOK, StopFiles
    <3>2. job' = [job EXCEPT !.saved = stop["PAUSE_ENTRIES"], !.backed = backing["PAUSE_ENTRIES"]]
      BY <1>5, <2>2 DEF LiftPause
    <3>3. job \in Job
      BY <1>5, CommandFacts DEF LiftPause, Busy
    <3> QED BY <2>1, <3>1, <3>2, <3>3, SavedFacts DEF Audited, Lifted
  <2>3. CASE ~Lifts("PAUSE_ENTRIES")
    BY <1>5, <2>1, <2>3 DEF LiftPause, Audited
  <2> QED BY <2>2, <2>3
<1>6. CASE Audit
  BY <1>6 DEF Audit, Audited
<1>7. CASE AuditFails
  BY <1>7 DEF AuditFails, Audited
<1> QED BY <1>1, <1>2, <1>3, <1>4, <1>5, <1>6, <1>7 DEF Next, Owner

\* While nothing crashed, no command that is over has lifted PAUSE_ENTRIES
\* without its audit line.
THEOREM ResumesAudited == Spec => []ResumeIsAudited
<1>1. Init => Audited
  BY DEF Init, Audited
<1>2. Audited => ResumeIsAudited
  BY DEF Audited, ResumeIsAudited
<1> QED BY InitBase, NextBase, <1>1, NextAudited, <1>2, PTL DEF Spec

\* A stop file records at least the newest stop applied since it was placed;
\* what a resume is about to lift, or has lifted and may put back, is known.
Backed == \A f \in StopFiles : \A k \in backing[f] : result[k] # None /\ Issue(k) <= stop[f]
Lifting ==
    /\ phase \in {"validate", "apply", "lift"} => ~Lifted
    /\ phase = "lift" => /\ Kind[Command] = "resume_all"
                         /\ \A f \in job.lift : f # "PAUSE_ENTRIES" /\ Lifts(f)
    /\ phase = "audit" /\ Lifted =>
          \A k \in job.backed : result[k] # None /\ Issue(k) <= job.saved
Stamped == Backed /\ Lifting

LEMMA InitStamped == Init => Stamped
  BY DEF Init, Stamped, Backed, Lifting

\* How stop files change.
LEMMA NextBacked == ASSUME Base, Stamped, [Next]_vars PROVE Backed'
<1> USE DEF stopVars
<1>0. /\ StopTypeOK /\ Backed /\ Lifting /\ "PAUSE_ENTRIES" \in StopFiles
      /\ \A k \in Keys : result[k] # None =>
            /\ result'[k] # None /\ result'[k].cmd = result[k].cmd /\ Issue(k)' = Issue(k)
  BY RecordStays DEF Stamped, Base, TypeOK, StopFiles
<1>1. CASE UNCHANGED <<stop, backing>>
  BY <1>0, <1>1 DEF Backed, StopTypeOK
<1>2. ASSUME NEW f \in StopFiles, TouchStop(f) PROVE Backed'
  <2>1. /\ stop[f] = Absent /\ stop' = [stop EXCEPT ![f] = Unstamped] /\ backing' = backing
        /\ UNCHANGED result
    BY <1>2 DEF TouchStop, fileVars
  <2>2. ASSUME NEW k \in Keys, result[k] # None, Issue(k) <= Absent PROVE Issue(k) <= Unstamped
    <3>1. result[k].cmd \in Commands
      BY <2>2 DEF Base, TypeOK, FilesTypeOK, Result
    <3>2. Issue(k) \in Nat
      BY <3>1 DEF Issue
    <3> QED BY <2>2, <3>2 DEF Absent
  <2> QED BY <1>0, <2>1, <2>2 DEF Backed, StopTypeOK
<1>3. ASSUME NEW f \in StopFiles, Unlink(f) PROVE Backed'
  BY <1>0, <1>3 DEF Unlink, Backed, StopTypeOK
<1>4. CASE PlaceStop
  <2> DEFINE f == FileOf(Kind[Command])
  <2>1. /\ stop' = [stop EXCEPT ![f] = Larger(@, IssuedAt[Command])]
        /\ backing' = [backing EXCEPT ![f] = @ \cup {job.key}] /\ phase = "apply"
    BY <1>4 DEF PlaceStop
  <2>2. f \in StopFiles
    BY DEF FileOf, StopFiles
  <2>3. /\ job.key \in Keys /\ result[job.key] # None /\ result[job.key].cmd = Command
        /\ IssuedAt[Command] \in Nat
    BY <2>1, CommandFacts DEF Busy
  <2>4. ASSUME NEW k \in {job.key} PROVE result'[k] # None /\ Issue(k)' = IssuedAt[Command]
    BY <1>0, <2>3 DEF Issue
  <2> HIDE DEF f
  <2>5. stop[f] \in Int /\ stop'[f] = Larger(stop[f], IssuedAt[Command])
    BY <1>0, <2>1, <2>2 DEF StopTypeOK, Absent
  <2>6. stop'[f] \in Int /\ stop[f] <= stop'[f] /\ IssuedAt[Command] <= stop'[f]
    BY <2>3, <2>5 DEF Larger
  <2>7. ASSUME NEW k \in backing[f] PROVE result'[k] # None /\ Issue(k)' <= stop'[f]
    <3>1. k \in Keys /\ result[k] # None /\ Issue(k) <= stop[f]
      BY <1>0, <2>2 DEF Backed, StopTypeOK
    <3>2. result[k].cmd \in Commands
      BY <3>1 DEF Base, TypeOK, FilesTypeOK, Result
    <3>3. Issue(k) \in Nat
      BY <3>2 DEF Issue
    <3> QED BY <1>0, <2>5, <2>6, <3>1, <3>3
  <2>8. \A g \in StopFiles \ {f} : stop'[g] = stop[g] /\ backing'[g] = backing[g]
    BY <1>0, <2>1 DEF StopTypeOK
  <2>9. backing'[f] = backing[f] \cup {job.key}
    BY <1>0, <2>1, <2>2 DEF StopTypeOK
  <2>10. ASSUME NEW g \in StopFiles, NEW k \in backing'[g]
         PROVE  result'[k] # None /\ Issue(k)' <= stop'[g]
    <3>1. CASE g = f
      BY <2>4, <2>6, <2>7, <2>9, <3>1
    <3>2. CASE g # f
      BY <1>0, <2>8, <3>2 DEF Backed, StopTypeOK
    <3> QED BY <3>1, <3>2
  <2> QED BY <2>10 DEF Backed
<1>5. CASE AuditFails /\ Lifted
  <2>1. /\ stop' = [stop EXCEPT !["PAUSE_ENTRIES"] = job.saved]
        /\ backing' = [backing EXCEPT !["PAUSE_ENTRIES"] = job.backed] /\ phase = "audit"
    BY <1>5 DEF AuditFails
  <2>2. /\ job.backed \in SUBSET Keys
        /\ \A k \in job.backed : result[k] # None /\ Issue(k) <= job.saved
    BY <1>0, <1>5, <2>1, CommandFacts DEF Lifting, Job, Busy
  <2> QED BY <1>0, <2>1, <2>2 DEF Backed, StopTypeOK
<1>6. CASE LiftStop
  <2>1. PICK f \in job.lift : Unlink(f)
    BY <1>6 DEF LiftStop
  <2>2. f \in StopFiles
    BY <1>6, <2>1, CommandFacts DEF LiftStop, Busy, Job
  <2> QED BY <1>3, <2>1, <2>2
<1>7. CASE LiftPause
  BY <1>0, <1>1, <1>3, <1>7 DEF LiftPause
<1>8. CASE AuditFails /\ ~Lifted
  BY <1>1, <1>8 DEF AuditFails
<1>9. CASE Web \/ Advance \/ \E k \in Keys : CopyBack(k) \/ PruneArchive(k)
  BY <1>1, <1>9 DEF Web, SubmitKnown, SubmitRefused, SubmitStage, SubmitAccept, SubmitPublish,
     WebCrash, Advance, CopyBack, PruneArchive
<1>10. CASE \/ Boot \/ List \/ EndPass \/ Connect \/ GatewayLost \/ Leave \/ Crash
            \/ (\E k \in Keys : Claim(k) \/ ClaimFails(k) \/ SetAside(k) \/ RecoverTake(k)
                               \/ WriteUnwritten(k))
            \/ AlreadyAnswered \/ Validate \/ RecoverAnswered \/ RecoverInterrupted
            \/ ResumeAll \/ Audit
            \/ ApplyFails \/ Flow \/ SessionLost \/ Answer \/ AnswerFails \/ Archive
  BY <1>1, <1>10, FlowFacts
     DEF Boot, List, EndPass, Connect, GatewayLost, Leave, Crash, Down, Claim,
     ClaimFails, SetAside, RecoverTake, WriteUnwritten, AlreadyAnswered, Validate,
     RecoverAnswered, RecoverInterrupted, ResumeAll, Audit, ApplyFails, SessionLost,
     Answer, AnswerFails, Archive
<1>11. UNCHANGED vars => UNCHANGED <<stop, backing>>
  BY DEF vars
<1> QED BY <1>1, <1>2, <1>4, <1>5, <1>6, <1>7, <1>8, <1>9, <1>10, <1>11
       DEF Next, Owner, Environment

\* A resume in hand: what it is about to lift and what it may put back.
LEMMA NextLifting == ASSUME Base, Stamped, [Next]_vars PROVE Lifting'
<1> USE DEF stopVars, ownerVars, fileVars, outside, others
<1>0. /\ StopTypeOK /\ Backed /\ Lifting /\ "PAUSE_ENTRIES" \in StopFiles
      /\ \A k \in Keys : result[k] # None =>
            /\ result'[k] # None /\ result'[k].cmd = result[k].cmd /\ Issue(k)' = Issue(k)
  BY RecordStays DEF Stamped, Base, TypeOK, StopFiles
<1>1. phase \in Busy => job \in Job /\ job.key \in Keys
  BY CommandFacts
<1>2. ASSUME UNCHANGED <<job, phase, claimed>>, \A f \in StopFiles : stop[f] # Absent => stop'[f] = stop[f]
      PROVE  Lifting'
  <2>1. phase \in {"validate", "apply", "lift"} => ~Lifted'
    BY <1>0, <1>2 DEF Lifting, Lifted
  <2>2. ASSUME phase = "lift"
        PROVE  /\ Kind[Command'] = "resume_all"
               /\ \A f \in job.lift : f # "PAUSE_ENTRIES" /\ Lifts(f)'
    <3>1. job.lift \subseteq StopFiles
      BY <1>1, <2>2 DEF Job, Busy
    <3> QED BY <1>0, <1>2, <2>2, <3>1 DEF Lifting, Lifts, Command
  <2>3. ASSUME phase = "audit", Lifted
        PROVE  \A k \in job.backed : result'[k] # None /\ Issue(k)' <= job.saved
    <3>1. job.backed \subseteq Keys
      BY <1>1, <2>3 DEF Job, Busy
    <3> QED BY <1>0, <2>3, <3>1 DEF Lifting
  <2>4. Lifted' <=> Lifted
    BY <1>2 DEF Lifted
  <2> QED BY <1>2, <2>1, <2>2, <2>3, <2>4 DEF Lifting
<1>3. CASE Web \/ Environment
  <2>1. UNCHANGED <<job, phase, claimed>>
    BY <1>3, OutsideFacts
  <2>2. stop' = stop \/ \E f \in StopFiles : stop[f] = Absent /\ stop' = [stop EXCEPT ![f] = Unstamped]
    BY <1>3 DEF Web, SubmitKnown, SubmitRefused, SubmitStage, SubmitAccept, SubmitPublish, WebCrash,
       Environment, Advance, TouchStop, CopyBack, PruneArchive
  <2>3. \A f \in StopFiles : stop[f] # Absent => stop'[f] = stop[f]
    BY <1>0, <2>2 DEF StopTypeOK
  <2> QED BY <1>2, <2>1, <2>3
<1>4. CASE UNCHANGED vars
  BY <1>2, <1>4 DEF vars
<1>5. ASSUME phase' \notin {"validate", "apply", "lift", "audit"} PROVE Lifting'
  BY <1>5 DEF Lifting
<1>6. CASE \/ Boot \/ List \/ EndPass \/ Connect \/ GatewayLost \/ Leave \/ Crash
           \/ (\E k \in Keys : ClaimFails(k) \/ SetAside(k) \/ WriteUnwritten(k))
           \/ AlreadyAnswered \/ RecoverAnswered \/ RecoverInterrupted \/ Audit \/ AuditFails
           \/ ApplyFails \/ Flow \/ SessionLost \/ Answer \/ AnswerFails \/ Archive
  BY <1>5, <1>6, FlowFacts
     DEF Boot, List, EndPass, Connect, GatewayLost, Leave, Crash, Down,
     ClaimFails, SetAside, Turn, WriteUnwritten, AlreadyAnswered,
     RecoverAnswered, RecoverInterrupted, Audit, AuditFails, ApplyFails, SessionLost,
     Answer, AnswerFails, Archive
<1>7. CASE \E k \in Keys : Claim(k) \/ RecoverTake(k)
  <2>1. phase' = "validate" /\ \E k \in Keys : job' = NewJob(k)
    BY <1>7 DEF Claim, RecoverTake
  <2>2. ~Lifted'
    BY <2>1, NewJobFacts DEF Lifted
  <2> QED BY <2>1, <2>2 DEF Lifting
<1>8. CASE Validate
  <2>1. phase = "validate" /\ (phase' = "answer" \/ (phase' = "apply" /\ job' = job))
    BY <1>8 DEF Validate
  <2> QED BY <1>0, <2>1 DEF Lifting, Lifted
<1>9. CASE PlaceStop
  <2>1. phase = "apply" /\ phase' \in {"audit", "answer"} /\ job' = job
    BY <1>9 DEF PlaceStop
  <2> QED BY <1>0, <2>1 DEF Lifting, Lifted
<1>10. CASE ResumeAll
  <2>1. /\ phase = "apply" /\ phase' = "lift" /\ Kind[Command] = "resume_all"
        /\ job' = [job EXCEPT !.lift = {f \in {"HALT", "FLATTEN"} : Lifts(f)}]
        /\ UNCHANGED <<stop, claimed>>
    BY <1>10 DEF ResumeAll
  <2>2. /\ job'.lift = {f \in {"HALT", "FLATTEN"} : Lifts(f)} /\ job'.saved = job.saved
        /\ job'.key = job.key
    BY <1>1, <2>1, LiftFacts DEF Busy, StopFiles
  <2>3. ~Lifted'
    BY <1>0, <2>1, <2>2 DEF Lifting, Lifted
  <2>4. Kind[Command'] = "resume_all" /\ \A f \in job'.lift : f # "PAUSE_ENTRIES" /\ Lifts(f)'
    BY <2>1, <2>2 DEF Command, Lifts
  <2> QED BY <2>1, <2>3, <2>4 DEF Lifting
<1>11. CASE LiftStop
  <2>1. PICK f \in job.lift : Unlink(f) /\ job' = [job EXCEPT !.lift = @ \ {f}]
    BY <1>11 DEF LiftStop
  <2>2. phase = "lift" /\ phase' = "lift" /\ claimed' = claimed
    BY <1>11 DEF LiftStop
  <2>3. job \in Job /\ job.lift \subseteq StopFiles /\ f \in StopFiles
    BY <1>1, <2>1, <2>2 DEF Busy, Job
  <2>4. /\ job'.lift = job.lift \ {f} /\ job'.saved = job.saved /\ job'.key = job.key
    <3>1. job' = [job EXCEPT !.lift = job.lift \ {f}]
      BY <2>1
    <3> QED BY <2>3, <3>1, LiftFacts
  <2>5. \A g \in StopFiles \ {f} : stop'[g] = stop[g]
    BY <1>0, <2>1, <2>3 DEF Unlink, StopTypeOK
  <2>6. Kind[Command'] = "resume_all" /\ \A g \in job'.lift : g # "PAUSE_ENTRIES" /\ Lifts(g)'
    BY <1>0, <2>2, <2>3, <2>4, <2>5 DEF Lifting, Command, Lifts
  <2>7. ~Lifted'
    BY <1>0, <2>2, <2>4 DEF Lifting, Lifted
  <2> QED BY <2>2, <2>6, <2>7 DEF Lifting
<1>12. CASE LiftPause
  <2>1. phase \in {"apply", "lift"} /\ phase' = "audit"
    BY <1>12 DEF LiftPause
  <2>2. CASE Lifts("PAUSE_ENTRIES")
    <3>1. /\ stop["PAUSE_ENTRIES"] \in Nat \cup {Absent} /\ backing["PAUSE_ENTRIES"] \in SUBSET Keys
          /\ job \in Job
      BY <1>0, <1>1, <2>1 DEF StopTypeOK, Busy
    <3>2. job' = [job EXCEPT !.saved = stop["PAUSE_ENTRIES"], !.backed = backing["PAUSE_ENTRIES"]]
      BY <1>12, <2>2 DEF LiftPause
    <3>3. job'.saved = stop["PAUSE_ENTRIES"] /\ job'.backed = backing["PAUSE_ENTRIES"]
      BY <3>1, <3>2, SavedFacts
    <3>4. \A k \in job'.backed : result'[k] # None /\ Issue(k)' <= job'.saved
      BY <1>0, <3>1, <3>3 DEF Backed
    <3> QED BY <2>1, <3>4 DEF Lifting
  <2>3. CASE ~Lifts("PAUSE_ENTRIES")
    <3>1. job' = job
      BY <1>12, <2>3 DEF LiftPause
    <3> QED BY <1>0, <2>1, <3>1 DEF Lifting, Lifted
  <2> QED BY <2>2, <2>3
<1> QED BY <1>3, <1>4, <1>6, <1>7, <1>8, <1>9, <1>10, <1>11, <1>12 DEF Next, Owner

LEMMA NextStamped == Base /\ Stamped /\ [Next]_vars => Stamped'
  BY NextBacked, NextLifting DEF Stamped

\* A stop file is lifted only by a resume as new as every stop behind it.
THEOREM StopsStand == Spec => NewerStopStands
<1>1. ASSUME Base, Stamped, [Next]_vars,
             NEW f \in StopFiles, stop[f] # Absent, stop'[f] = Absent
      PROVE  /\ Kind[Command] \in ResumeKinds
             /\ \A k \in backing[f] : IssuedAt[result[k].cmd] <= IssuedAt[Command]
  <2>0. /\ StopTypeOK /\ Backed /\ Lifting /\ "PAUSE_ENTRIES" \in StopFiles
    BY <1>1 DEF Stamped, Base, TypeOK, StopFiles
  <2>1. ASSUME Lifts(f), Kind[Command] \in ResumeKinds, phase \in Busy
        PROVE  /\ Kind[Command] \in ResumeKinds
               /\ \A k \in backing[f] : IssuedAt[result[k].cmd] <= IssuedAt[Command]
    <3> SUFFICES ASSUME NEW k \in backing[f] PROVE IssuedAt[result[k].cmd] <= IssuedAt[Command]
      BY <2>1
    <3>1. k \in Keys /\ result[k] # None /\ IssuedAt[result[k].cmd] <= stop[f]
      BY <2>0 DEF Backed, StopTypeOK, Issue
    <3>2. result[k].cmd \in Commands /\ IssuedAt[Command] \in Nat
      BY <1>1, <2>1, <3>1, CommandFacts DEF Base, TypeOK, FilesTypeOK, Result
    <3>3. stop[f] <= IssuedAt[Command] /\ stop[f] \in Nat
      BY <1>1, <2>0, <2>1 DEF Lifts, StopTypeOK
    <3> QED BY <3>1, <3>2, <3>3
  <2>2. CASE LiftStop
    <3>1. PICK g \in job.lift : Unlink(g)
      BY <2>2 DEF LiftStop
    <3>2. phase = "lift" /\ phase \in Busy
      BY <2>2 DEF LiftStop, Busy
    <3>3. g \in StopFiles /\ Lifts(g) /\ Kind[Command] \in ResumeKinds
      BY <1>1, <2>0, <3>1, <3>2, CommandFacts DEF Job, Lifting, ResumeKinds
    <3>4. f = g
      BY <1>1, <2>0, <3>1, <3>3 DEF Unlink, StopTypeOK
    <3> QED BY <2>1, <3>2, <3>3, <3>4
  <2>3. CASE LiftPause
    <3>1. Lifts("PAUSE_ENTRIES") /\ Unlink("PAUSE_ENTRIES")
      BY <1>1, <2>3 DEF LiftPause, stopVars
    <3>2. phase \in Busy /\ Kind[Command] \in ResumeKinds
      BY <2>0, <2>3 DEF LiftPause, Lifting, Busy, ResumeKinds
    <3>3. f = "PAUSE_ENTRIES"
      BY <1>1, <2>0, <3>1 DEF Unlink, StopTypeOK
    <3> QED BY <2>1, <3>1, <3>2, <3>3
  <2>4. ~PlaceStop
    <3> SUFFICES ASSUME PlaceStop PROVE FALSE
      OBVIOUS
    <3>1. IssuedAt[Command] \in Nat /\ phase = "apply"
      BY <1>1, CommandFacts DEF PlaceStop, Busy
    <3> DEFINE g == FileOf(Kind[Command])
    <3>2. stop' = [stop EXCEPT ![g] = Larger(@, IssuedAt[Command])]
      BY DEF PlaceStop
    <3> HIDE DEF g
    <3>3. CASE f = g
      BY <1>1, <2>0, <3>1, <3>2, <3>3 DEF Larger, StopTypeOK, Absent
    <3>4. CASE f # g
      BY <1>1, <2>0, <3>2, <3>4 DEF StopTypeOK
    <3> QED BY <3>3, <3>4
  <2>5. ~AuditFails
    <3> SUFFICES ASSUME AuditFails PROVE FALSE
      OBVIOUS
    <3>1. Lifted /\ stop' = [stop EXCEPT !["PAUSE_ENTRIES"] = job.saved]
      BY <1>1 DEF AuditFails, stopVars
    <3> QED BY <1>1, <2>0, <3>1 DEF StopTypeOK, Lifted
  <2>6. ~(\E g \in StopFiles : TouchStop(g))
    BY <1>1, <2>0 DEF TouchStop, StopTypeOK, Unstamped, Absent
  <2>7. stop' # stop
    BY <1>1
  <2> QED BY <1>1, <2>2, <2>3, <2>4, <2>5, <2>6, <2>7, FlowFacts
         DEF Next, Owner, Web, Environment, vars, stopVars, outside,
             SubmitKnown, SubmitRefused, SubmitStage, SubmitAccept, SubmitPublish, WebCrash,
             Advance, CopyBack, PruneArchive, Boot, List, EndPass, Connect, GatewayLost, Leave,
             Crash, Down, Claim, ClaimFails, SetAside, RecoverTake, WriteUnwritten,
             AlreadyAnswered, Validate, RecoverAnswered, RecoverInterrupted, ResumeAll, Audit,
             ApplyFails, SessionLost, Answer, AnswerFails, Archive
<1>2. Base /\ Stamped /\ [Next]_vars =>
         [\A f \in StopFiles : stop[f] # Absent /\ stop'[f] = Absent =>
             /\ Kind[Command] \in ResumeKinds
             /\ \A k \in backing[f] : IssuedAt[result[k].cmd] <= IssuedAt[Command]]_vars
  BY <1>1
<1> QED BY InitBase, NextBase, InitStamped, NextStamped, <1>2, PTL DEF Spec, NewerStopStands

---------------------------------------------------------------------------
(* Answers, when the file of an intake can be read (~ReadFaults): a failed *)
(* read looks like no intake record, and refuses what was answered before. *)

\* The approval k repeats the answer of the approval that sent the order.
Echo(k) ==
    LET p == ProposalOf[result[k].cmd] IN
    /\ Approves(k, p)
    /\ \E j \in Keys : Sender(j, p) /\ Desk(j) /\ result[j].status = "applied"

\* An answer says what became of the effect, from the moment it is decided.
Says(out, k) ==
    /\ out.status = "applied" => ran[k] > 0 \/ Echo(k)
    /\ out.status = "refused" => ran[k] = 0
    /\ out.sent => ran[k] > 0
    /\ out.status = "applied" /\ Kind[result[k].cmd] = "reject_entry" =>
          ProposalOf[result[k].cmd] \in rejected

\* The web took every command in its window, so a safety command in hand is
\* never refused, and any other is refused only before its effect.
LEMMA ValidateFacts ==
    ASSUME ~ReadFaults, Base, Fresh, Validate
    PROVE  /\ phase = "validate" /\ ~Desk(job.key)
           /\ UNCHANGED <<result, ran, claimed, unwritten, mode, todo, crashes>>
           /\ \/ phase' = "apply" /\ job' = job
              \/ /\ phase' = "answer" /\ job' # None /\ job'.key = job.key
                 /\ job'.out = Reply("refused") /\ ran[job.key] = 0
                 /\ Kind[Command] \notin SafetyKinds
<1> DEFINE r == result[job.key]
<1>1. /\ phase = "validate"
      /\ mode = "recover" => Kind[Command] \in SafetyKinds
      /\ UNCHANGED <<result, ran, claimed, unwritten, mode, todo, crashes>>
  BY DEF Validate, Command, fileVars, outside, others
<1>2. /\ ~Desk(job.key)
      /\ IF Refusal(Command, r)
         THEN phase' = "answer" /\ job' = [job EXCEPT !.out = Reply("refused")]
         ELSE phase' = "apply" /\ job' = job
  BY DEF Validate, Intakes, Desk, Command
<1>3. /\ job \in Job /\ job # None /\ job.key \in Keys /\ Command \in Commands
      /\ r \in Result /\ r # None /\ r.cmd = Command /\ r.status = "accepted"
  BY <1>1, <1>2, CommandFacts DEF Busy
<1>4. ASSUME Kind[Command] \in SafetyKinds PROVE ~Refusal(Command, r)
  <2>1. InTime(r)
    BY <1>3 DEF Base, Intake, TakenInTime
  <2>2. /\ r.at <= clock /\ r.at < ExpiresAt[Command] /\ IssuedAt[Command] <= r.at + MaxSkew
    BY <1>3, <2>1 DEF InTime
  <2>3. Durable(Command, r)
    BY <1>3, <1>4, <2>2 DEF Durable
  <2>4. /\ clock \in Nat /\ r.at \in Nat /\ MaxSkew \in Nat /\ IssuedAt[Command] \in Nat
    BY <1>1, <1>3, CommandFacts DEF Base, TypeOK, CountTypeOK, Result, Busy
  <2>5. ~(IssuedAt[Command] > clock + MaxSkew)
    BY <2>2, <2>4
  <2> QED BY <1>3, <2>3, <2>5 DEF Refusal
<1>5. ASSUME Refusal(Command, r)
      PROVE  /\ job' # None /\ job'.key = job.key /\ job'.out = Reply("refused")
             /\ ran[job.key] = 0 /\ Kind[Command] \notin SafetyKinds
  <2>1. job' \in Job /\ job'.key = job.key /\ job'.out = Reply("refused")
    BY <1>2, <1>3, <1>5, OutFacts, ReplyFacts
  <2>2. Kind[Command] \notin SafetyKinds
    BY <1>4, <1>5
  <2>3. ran[job.key] = 0
    BY <1>1, <1>2, <2>2 DEF Fresh
  <2> QED BY <2>1, <2>2, <2>3
<1> QED BY <1>1, <1>2, <1>5

\* A claim that a dead owner left, of a command that is not a safety kind.
LEMMA InterruptedFacts ==
    ASSUME ~ReadFaults, Base, RecoverInterrupted
    PROVE  /\ phase = "validate" /\ phase' = "answer" /\ ~Desk(job.key)
           /\ job' # None /\ job'.key = job.key /\ job'.out = Reply("failed")
           /\ Kind[Command] \notin SafetyKinds
           /\ UNCHANGED <<result, ran, claimed, unwritten, mode, todo, crashes>>
<1>1. /\ phase = "validate" /\ phase' = "answer" /\ ~Desk(job.key)
      /\ job' = [job EXCEPT !.out = Reply("failed")] /\ Kind[Command] \notin SafetyKinds
      /\ UNCHANGED <<result, ran, claimed, unwritten, mode, todo, crashes>>
  BY DEF RecoverInterrupted, Intakes, Desk, Command, fileVars, outside, others
<1>2. job \in Job
  BY <1>1, CommandFacts DEF Busy
<1> QED BY <1>1, <1>2, OutFacts, ReplyFacts

\* The steps from "apply" to "answer": what becomes of effect and outcome.
LEMMA ApplyFacts ==
    ASSUME Base, Fresh,
           \/ PlaceStop \/ ResumeAll \/ LiftStop \/ LiftPause \/ Audit
           \/ AuditFails \/ ApplyFails \/ Flow
    PROVE  /\ phase \in {"apply", "permit", "lift", "audit"}
           /\ phase' \in {"permit", "lift", "audit", "answer"}
           /\ job.key \in Keys /\ job' # None /\ job'.key = job.key
           /\ UNCHANGED <<result, claimed, unwritten, mode, todo, crashes>>
           /\ \A k \in Keys \ {job.key} : ran'[k] = ran[k]
           /\ ran' = ran \/ ran'[job.key] > 0
           /\ \/ /\ job'.out = job.out /\ (phase = "apply" => ran'[job.key] > 0)
                 /\ Kind[Command] \in SafetyKinds \cup ResumeKinds
                 /\ phase # "permit" /\ phase' # "permit"
              \/ /\ job'.out = Reply("failed") /\ phase' = "answer"
                 /\ (phase = "audit" /\ AuditFaults) \/ ApplyFaults
              \/ Flow /\ phase \in {"apply", "permit"} /\ Kind[Command] \notin SafetyKinds
<1> USE DEF fileVars, outside, others
<1>1. /\ phase \in {"apply", "permit", "lift", "audit"}
      /\ phase' \in {"permit", "lift", "audit", "answer"}
      /\ UNCHANGED <<result, claimed, unwritten, mode, todo, crashes>>
      /\ ran' = ran \/ (Ran /\ Acting)
  <2>1. CASE Flow
    BY <2>1, FlowFacts DEF Acting
  <2>2. CASE ~Flow
    BY <2>2 DEF PlaceStop, ResumeAll, LiftStop, LiftPause, Audit, AuditFails, ApplyFails, Acting
  <2> QED BY <2>1, <2>2
<1>2. /\ job \in Job /\ job.key \in Keys /\ Kind[Command] \in FileKinds \cup EntryKinds
  BY <1>1, CommandFacts DEF Busy
<1>3. /\ \A k \in Keys \ {job.key} : ran'[k] = ran[k]
      /\ ran' = ran \/ ran'[job.key] > 0
      /\ Ran /\ Acting => ran'[job.key] > 0
  BY <1>1, EffectFacts
<1> DEFINE Fate ==
      \/ /\ job'.out = job.out /\ (phase = "apply" => ran'[job.key] > 0)
         /\ Kind[Command] \in SafetyKinds \cup ResumeKinds
         /\ phase # "permit" /\ phase' # "permit"
      \/ /\ job'.out = Reply("failed") /\ phase' = "answer"
         /\ (phase = "audit" /\ AuditFaults) \/ ApplyFaults
      \/ Flow /\ phase \in {"apply", "permit"} /\ Kind[Command] \notin SafetyKinds
<1>4. SUFFICES job' \in Job /\ job'.key = job.key /\ Fate
  BY <1>1, <1>2, <1>3
<1>5. CASE PlaceStop
  BY <1>2, <1>3, <1>5 DEF PlaceStop, Acting
<1>6. CASE ResumeAll
  <2>1. job' = [job EXCEPT !.lift = {f \in {"HALT", "FLATTEN"} : Lifts(f)}] 
        /\ Ran /\ phase = "apply" /\ phase' = "lift" /\ Kind[Command] \in ResumeKinds
    BY <1>6 DEF ResumeAll, ResumeKinds
  <2> QED BY <1>2, <1>3, <2>1, LiftFacts DEF StopFiles, Acting
<1>7. CASE LiftStop
  <2>1. PICK f \in job.lift : job' = [job EXCEPT !.lift = @ \ {f}]
    BY <1>7 DEF LiftStop
  <2>2. /\ phase = "lift" /\ phase' = "lift" /\ job.lift \ {f} \in SUBSET StopFiles
        /\ Kind[Command] \in SafetyKinds \cup ResumeKinds
    BY <1>2, <1>7, <2>1 DEF LiftStop, Job, Fresh
  <2>3. job' \in Job /\ job'.key = job.key /\ job'.out = job.out
    BY <1>2, <2>1, <2>2, LiftFacts
  <2> QED BY <2>2, <2>3
<1>8. CASE LiftPause
  <2>1. /\ phase = "apply" => ran'[job.key] > 0
        /\ Kind[Command] \in SafetyKinds \cup ResumeKinds
        /\ phase # "permit" /\ phase' = "audit"
    BY <1>3, <1>8 DEF LiftPause, Acting, Fresh, ResumeKinds
  <2>2. CASE job' = job
    BY <1>2, <2>1, <2>2
  <2>3. CASE job' # job
    <3>1. /\ stop["PAUSE_ENTRIES"] \in Nat \cup {Absent} /\ backing["PAUSE_ENTRIES"] \in SUBSET Keys
      BY DEF Base, TypeOK, StopTypeOK, StopFiles
    <3>2. job' = [job EXCEPT !.saved = stop["PAUSE_ENTRIES"], !.backed = backing["PAUSE_ENTRIES"]]
      BY <1>8, <2>3 DEF LiftPause
    <3> QED BY <1>2, <2>1, <3>1, <3>2, SavedFacts
  <2> QED BY <2>2, <2>3
<1>9. CASE Audit
  BY <1>2, <1>9 DEF Audit, Fresh
<1>10. CASE AuditFails \/ ApplyFails
  <2>1. /\ job' = [job EXCEPT !.out = Reply("failed")] /\ phase' = "answer"
        /\ (phase = "audit" /\ AuditFaults) \/ ApplyFaults
    BY <1>10 DEF AuditFails, ApplyFails
  <2> QED BY <1>2, <2>1, OutFacts, ReplyFacts
<1>11. CASE Flow
  <2>1. phase \in {"apply", "permit"} /\ job' \in Job /\ job'.key = job.key
    BY <1>2, <1>11, FlowFacts, OutFacts
  <2>2. Kind[Command] \notin SafetyKinds
    BY <1>11 DEF Fresh, Flow, FlowRefused, FlowFails, PlaceFile, RejectEntry, Reject, ApproveAgain,
       IssuePermit, PermitRefused, SendEntry, Send, EntryKinds, SafetyKinds
  <2> QED BY <1>11, <2>1, <2>2
<1> QED BY <1>5, <1>6, <1>7, <1>8, <1>9, <1>10, <1>11

\* What was answered, and what waits to be, is true; the outcome in hand is
\* true from the moment it is decided.
Told ==
    \A k \in Keys : Desk(k) =>
        result[k].status \in {"applied", "refused", "failed"} /\ Says(result[k], k)
Kept == \A k \in Keys : unwritten[k] # None => ~Desk(k) /\ Says(unwritten[k], k)
Outcome ==
    /\ phase \in {"apply", "permit", "lift", "audit", "answer"} => ~Desk(job.key)
    /\ phase \in {"validate", "apply", "permit", "lift", "audit"} => job.out = Reply("applied")
    /\ phase \in {"lift", "audit"} => ran[job.key] > 0
    /\ phase = "answer" => Says(job.out, job.key)
Truthful == Told /\ Kept /\ Outcome

LEMMA InitTruthful == Init => Truthful
  BY DEF Init, Truthful, Told, Kept, Outcome, Desk, AnsweredByDesk

\* The desk answers an accepted command, and an answer stands.
LEMMA OutcomeStep ==
    ASSUME Base, Kept, Outcome, [Next]_vars,
           NEW k \in Keys, result[k] # None, result'[k] # result[k]
    PROVE  /\ result[k].status = "accepted" /\ ~result[k].desk
           /\ result'[k].desk /\ result'[k].cmd = result[k].cmd
<1>1. QueuedIsAccepted
  BY DEF Base, Intake
<1>2. ASSUME claimed[k] # None, ~Desk(k), NEW o, Answered(k, o)
      PROVE  /\ result[k].status = "accepted" /\ ~result[k].desk
             /\ result'[k].desk /\ result'[k].cmd = result[k].cmd
  <2>1. ~result[k].desk
    BY <1>2 DEF Desk, AnsweredByDesk
  <2>2. result[k].desk \/ result[k].status = "accepted"
    BY <1>1, <1>2 DEF QueuedIsAccepted
  <2> QED BY <1>2, <2>1, <2>2 DEF Answered
<1>3. CASE Web \/ Environment
  BY <1>3, OutsideFacts
<1>4. CASE Answer
  <2>1. phase = "answer" /\ job.key \in Keys /\ Answered(job.key, job.out)
    BY <1>4, AnswerFacts
  <2>2. k = job.key
    BY <2>1 DEF Answered
  <2>3. claimed[k] # None
    BY <2>1, <2>2, CommandFacts DEF Busy, Command
  <2>4. ~Desk(k)
    BY <2>1, <2>2 DEF Outcome
  <2> QED BY <1>2, <2>1, <2>2, <2>3, <2>4
<1>5. ASSUME NEW j \in Keys, WriteUnwritten(j)
      PROVE  /\ result[k].status = "accepted" /\ ~result[k].desk
             /\ result'[k].desk /\ result'[k].cmd = result[k].cmd
  <2>1. claimed[j] # None /\ unwritten[j] \in Answers /\ Answered(j, unwritten[j])
    BY <1>5, WrittenFacts
  <2>2. k = j
    BY <2>1 DEF Answered
  <2>3. ~Desk(k)
    BY <2>1, <2>2 DEF Kept
  <2> QED BY <1>2, <2>1, <2>2, <2>3
<1>6. result' # result
  OBVIOUS
<1> QED BY <1>3, <1>4, <1>5, <1>6, FlowFacts
       DEF Next, Owner, vars, fileVars, Boot, List, EndPass, Connect, GatewayLost, Leave, Crash,
           Down, Claim, ClaimFails, SetAside, RecoverTake, AlreadyAnswered, Validate,
           RecoverAnswered, RecoverInterrupted, PlaceStop, ResumeAll, LiftStop, LiftPause, Audit,
           AuditFails, ApplyFails, SessionLost, AnswerFails, Archive

\* A tombstone stays.
LEMMA RejectedStays == ASSUME Base, [Next]_vars PROVE rejected \subseteq rejected'
<1>1. CASE Web \/ Environment
  BY <1>1, OutsideFacts DEF entryVars
<1>2. CASE Flow
  BY <1>2 DEF Flow, FlowRefused, FlowFails, PlaceFile, RejectEntry, Reject, ApproveAgain,
     IssuePermit, PermitRefused, SendEntry, outside, entryVars
<1>3. CASE SessionLost
  BY <1>3 DEF SessionLost, Reject, entryVars
<1> QED BY <1>1, <1>2, <1>3
       DEF Next, Owner, vars, outside, entryVars, Boot, List, EndPass, Connect, GatewayLost,
           Leave, Crash, Down, Claim, ClaimFails, SetAside, RecoverTake, WriteUnwritten,
           AlreadyAnswered, Validate, RecoverAnswered, RecoverInterrupted, PlaceStop, ResumeAll,
           LiftStop, LiftPause, Audit, AuditFails, ApplyFails, Answer, AnswerFails, Archive

\* What an answer says stays true while no effect of its command starts.
LEMMA SaysStays ==
    ASSUME Base, Kept, Outcome, [Next]_vars,
           NEW k \in Keys, result[k] # None, ran'[k] = ran[k], NEW o, Says(o, k)
    PROVE  Says(o, k)'
<1>1. result'[k].cmd = result[k].cmd /\ rejected \subseteq rejected'
  BY RecordStays, RejectedStays
<1>2. ASSUME Echo(k) PROVE Echo(k)'
  <2> DEFINE p == ProposalOf[result[k].cmd]
  <2>1. Approves(k, p)
    BY <1>2 DEF Echo
  <2>2. PICK j \in Keys : Sender(j, p) /\ Desk(j) /\ result[j].status = "applied"
    BY <1>2 DEF Echo
  <2>3. result[j] # None /\ result[j].desk
    BY <2>2 DEF Desk, AnsweredByDesk
  <2>4. result'[j] = result[j]
    BY <2>3, OutcomeStep
  <2>5. ran'[j] > 0
    BY <2>2, RanGrows DEF Sender
  <2>6. /\ Approves(k, p)' /\ p' = p
        /\ Sender(j, p)' /\ Desk(j)' /\ result'[j].status = "applied"
    BY <1>1, <2>1, <2>2, <2>3, <2>4, <2>5 DEF Approves, Sender, Desk, AnsweredByDesk
  <2> QED BY <2>6 DEF Echo
<1> QED BY <1>1, <1>2 DEF Says

\* What a flow answers is true of what it did, or of what was done before it.
LEMMA FlowSays ==
    ASSUME ~ReadFaults, Base, Fresh, Told, Flow, phase' = "answer"
    PROVE  Says(job.out, job.key)'
<1>1. /\ phase \in {"apply", "permit"} /\ phase \in Busy /\ result' = result
  BY FlowFacts DEF Busy, fileVars
<1>2. /\ job \in Job /\ job.key \in Keys /\ result[job.key].cmd = Command
  BY <1>1, CommandFacts
<1>3. Ran => ran'[job.key] > 0
  BY <1>1, EffectFacts DEF Acting
<1>4. ASSUME NEW o \in Answers, Answering(o) PROVE job'.key = job.key /\ job'.out = o
  BY <1>2, <1>4, OutFacts DEF Answering
\* With its effect started, or failed, the answer is true of any but a rejection.
<1>5. ASSUME NEW o \in Answers, Answering(o),
             o.status # "refused" \/ ran'[job.key] = 0,
             o.status = "applied" => ran'[job.key] > 0 \/ Echo(job.key)',
             o.sent => ran'[job.key] > 0,
             o.status = "applied" /\ Kind[Command] = "reject_entry" => Proposal \in rejected'
      PROVE  Says(job.out, job.key)'
  BY <1>1, <1>2, <1>4, <1>5 DEF Says, Proposal
<1>6. CASE FlowRefused \/ PermitRefused
  <2>1. Answering(Reply("refused")) /\ ran' = ran /\ ran[job.key] = 0
    BY <1>6 DEF FlowRefused, PermitRefused, Fresh, EntryKinds, SafetyKinds
  <2> QED BY <1>5, <2>1, ReplyFacts
<1>7. CASE FlowFails
  <2>1. Answering(Reply("failed"))
    BY <1>7 DEF FlowFails
  <2> QED BY <1>5, <2>1, ReplyFacts
<1>8. CASE PlaceFile
  <2>1. /\ Answering(Reply("applied")) \/ Answering(Reply("failed"))
        /\ Ran /\ Kind[Command] # "reject_entry"
    BY <1>8 DEF PlaceFile
  <2> QED BY <1>3, <1>5, <2>1, ReplyFacts
<1>9. CASE RejectEntry
  <2>1. /\ Answering(Reply("applied")) \/ Answering(Reply("failed"))
        /\ Ran /\ Proposal \in rejected'
    BY <1>9 DEF RejectEntry, Reject
  <2> QED BY <1>3, <1>5, <2>1, ReplyFacts
<1>10. CASE ApproveAgain
  <2>1. PICK k \in SentAnswers(Proposal) :
           Answering(Reply(IF result[k].status = "failed" THEN "failed" ELSE "applied"))
    BY <1>10 DEF ApproveAgain
  <2>2. /\ k \in Keys /\ Desk(k) /\ Approves(k, Proposal) /\ result[k].sent
        /\ Kind[Command] = "approve_entry" /\ ran' = ran
    BY <1>10, <2>1 DEF SentAnswers, Desk, Approves, ApproveAgain
  <2>3. ran[k] > 0 /\ result[k].status \in {"applied", "failed"}
    <3>1. Says(result[k], k) /\ result[k].status \in {"applied", "refused", "failed"}
      BY <2>2 DEF Told
    <3> QED BY <2>2, <3>1 DEF Says
  <2>4. ASSUME result[k].status = "applied" PROVE Echo(job.key)'
    <3>1. PICK p : p = Proposal
      OBVIOUS
    <3>2. Sender(k, p)' /\ Desk(k)' /\ result'[k].status = "applied"
      BY <1>1, <2>2, <2>3, <2>4, <3>1 DEF Sender, Approves, Desk, AnsweredByDesk
    <3>3. job'.key = job.key
      BY <1>4, <2>1, ReplyFacts
    <3>4. ProposalOf[result'[job'.key].cmd] = p /\ Kind[result'[job'.key].cmd] = "approve_entry"
      BY <1>1, <1>2, <2>2, <3>1, <3>3 DEF Proposal
    <3> QED BY <2>2, <3>2, <3>4 DEF Echo, Approves
  <2>5. CASE result[k].status = "applied"
    BY <1>5, <2>1, <2>2, <2>4, <2>5, ReplyFacts
  <2>6. CASE result[k].status = "failed"
    BY <1>5, <2>1, <2>6, ReplyFacts
  <2> QED BY <2>3, <2>5, <2>6
<1>11. CASE SendEntry
  <2>1. PICK o \in {Sent("applied"), Sent("failed"), Reply("failed")} : Answering(o)
    BY <1>11 DEF SendEntry
  <2>2. Ran /\ Kind[Command] # "reject_entry"
    BY <1>11 DEF SendEntry, Send, Fresh
  <2> QED BY <1>3, <1>5, <2>1, <2>2, ReplyFacts
<1>12. ~IssuePermit
  BY DEF IssuePermit
<1> QED BY <1>6, <1>7, <1>8, <1>9, <1>10, <1>11, <1>12 DEF Flow

LEMMA NextTruthful ==
    ASSUME ~ReadFaults, Base, Once, Truthful, [Next]_vars
    PROVE  Truthful'
<1>0. /\ Told /\ Kept /\ Outcome /\ Fresh /\ QueuedIsAccepted
      /\ result \in [Keys -> Result \cup {None}] /\ ran \in [Keys -> 0..2]
      /\ unwritten \in [Keys -> Answers \cup {None}]
      /\ \A k \in Keys : unwritten[k] # None => ~Taker(k) /\ claimed[k] # None
  BY DEF Truthful, Once, Base, TypeOK, FilesTypeOK, OwnerTypeOK, CountTypeOK, Intake, Course
<1>1. phase \in Busy => /\ job \in Job /\ job # None /\ job.key \in Keys /\ job.out \in Answers
                        /\ result[job.key] # None /\ result[job.key].cmd = Command
  BY CommandFacts DEF Job
\* What counts is known of a key that has a record.
<1>2. \A k \in Keys : Desk(k) \/ unwritten[k] # None => result[k] # None
  BY <1>0 DEF Desk, AnsweredByDesk, QueuedIsAccepted
\* No key but the one in hand, which is not answered, has its effect started.
<1>3. \A k \in Keys : Desk(k) \/ unwritten[k] # None => ran'[k] = ran[k]
  <2>1. CASE ran' = ran
    BY <2>1
  <2>2. CASE Ran /\ Acting
    <3>1. ~Desk(job.key) /\ unwritten[job.key] = None
      BY <1>0, <1>1, <2>2 DEF Outcome, Taker, Busy, Acting
    <3> QED BY <2>2, <3>1, EffectFacts
  <2> QED BY <2>1, <2>2, RanSteps
\* What was said stays true.
<1>4. ASSUME NEW k \in Keys, Desk(k), result'[k] = result[k]
      PROVE  result'[k].status \in {"applied", "refused", "failed"} /\ Says(result[k], k)'
  <2>1. Says(result[k], k) /\ result[k].status \in {"applied", "refused", "failed"}
    BY <1>0, <1>4 DEF Told
  <2>2. PICK o : o = result[k]
    OBVIOUS
  <2>3. Says(o, k)'
    BY <1>0, <1>2, <1>3, <1>4, <2>1, <2>2, SaysStays
  <2> QED BY <1>4, <2>1, <2>2, <2>3 DEF Says
<1>5. ASSUME NEW k \in Keys, unwritten[k] # None, unwritten'[k] = unwritten[k]
      PROVE  Says(unwritten[k], k)'
  <2>1. Says(unwritten[k], k)
    BY <1>0, <1>5 DEF Kept
  <2>2. PICK o : o = unwritten[k]
    OBVIOUS
  <2>3. Says(o, k)'
    BY <1>0, <1>2, <1>3, <1>5, <2>1, <2>2, SaysStays
  <2> QED BY <1>5, <2>2, <2>3 DEF Says
<1>6. ASSUME \A k \in Keys : (result[k] # None => result'[k] = result[k]) /\ (Desk(k)' <=> Desk(k)),
             unwritten' = unwritten \/ unwritten' = [k \in Keys |-> None]
      PROVE  Told' /\ Kept'
  <2>1. Told'
    BY <1>2, <1>4, <1>6 DEF Told
  <2>2. ASSUME NEW k \in Keys, unwritten'[k] # None PROVE ~Desk(k)' /\ Says(unwritten[k], k)'
    <3>1. unwritten[k] # None /\ unwritten'[k] = unwritten[k]
      BY <1>6, <2>2
    <3> QED BY <1>0, <1>5, <1>6, <3>1 DEF Kept
  <2> QED BY <2>1, <2>2 DEF Kept
<1>7. result' = result => \A k \in Keys : (result[k] # None => result'[k] = result[k]) /\ (Desk(k)' <=> Desk(k))
  BY DEF Desk, AnsweredByDesk
<1>8. CASE UNCHANGED vars \/ Web \/ Environment
  <2>1. /\ UNCHANGED <<ownerVars, entryVars, ran>>
        /\ \A k \in Keys : (result[k] # None => result'[k] = result[k]) /\ (Desk(k)' <=> Desk(k))
    BY <1>7, <1>8, OutsideFacts DEF vars, fileVars
  <2>2. phase = "answer" => Says(job.out, job.key)'
    <3> SUFFICES ASSUME phase = "answer" PROVE Says(job.out, job.key)'
      OBVIOUS
    <3>1. job.key \in Keys /\ result[job.key] # None /\ Says(job.out, job.key)
      BY <1>0, <1>1 DEF Outcome, Busy
    <3>2. PICK k \in Keys : k = job.key
      BY <3>1
    <3>3. PICK o : o = job.out
      OBVIOUS
    <3>4. Says(o, k)'
      BY <1>0, <2>1, <3>1, <3>2, <3>3, SaysStays
    <3> QED BY <2>1, <3>2, <3>3, <3>4 DEF Says, ownerVars
  <2>3. Outcome'
    BY <1>0, <1>1, <2>1, <2>2 DEF Outcome, ownerVars, Busy
  <2> QED BY <1>6, <2>1, <2>3 DEF Truthful, ownerVars
<1>9. CASE \/ Boot \/ List \/ EndPass \/ Connect \/ GatewayLost \/ Leave \/ Crash
           \/ (\E k \in Keys : ClaimFails(k) \/ SetAside(k) \/ Claim(k) \/ RecoverTake(k))
           \/ RecoverAnswered \/ SessionLost \/ Archive \/ AlreadyAnswered
  <2>1. /\ UNCHANGED result
        /\ unwritten' = unwritten \/ unwritten' = [k \in Keys |-> None]
        /\ \/ phase' \in {"down", "top", "next", "archive"}
           \/ phase' = "validate" /\ \E k \in Keys : job' = NewJob(k)
    BY <1>9 DEF Boot, List, EndPass, Connect, GatewayLost, Leave, Crash, Down, ClaimFails, Turn,
       SetAside, Claim, RecoverTake, RecoverAnswered, SessionLost, Archive, AlreadyAnswered, fileVars
  <2>2. phase' = "validate" => job'.out = Reply("applied")
    BY <2>1, NewJobFacts
  <2>3. Outcome'
    BY <2>1, <2>2 DEF Outcome
  <2> QED BY <1>6, <1>7, <2>1, <2>3 DEF Truthful
<1>10. CASE Validate
  <2>1. /\ phase = "validate" /\ ~Desk(job.key)
        /\ UNCHANGED <<result, ran, claimed, unwritten>>
        /\ \/ phase' = "apply" /\ job' = job
           \/ /\ phase' = "answer" /\ job'.key = job.key
              /\ job'.out = Reply("refused") /\ ran[job.key] = 0
    BY <1>0, <1>10, ValidateFacts
  <2>2. Outcome'
    BY <1>0, <2>1, ReplyFacts DEF Outcome, Says, Desk, AnsweredByDesk
  <2> QED BY <1>6, <1>7, <2>1, <2>2 DEF Truthful
<1>11. CASE RecoverInterrupted
  <2>1. /\ phase' = "answer" /\ ~Desk(job.key) /\ job'.key = job.key /\ job'.out = Reply("failed")
        /\ UNCHANGED <<result, ran, claimed, unwritten>>
    BY <1>11, InterruptedFacts
  <2>2. Outcome'
    BY <2>1, ReplyFacts DEF Outcome, Says, Desk, AnsweredByDesk
  <2> QED BY <1>6, <1>7, <2>1, <2>2 DEF Truthful
<1>12. CASE \/ PlaceStop \/ ResumeAll \/ LiftStop \/ LiftPause \/ Audit
            \/ AuditFails \/ ApplyFails \/ Flow
  <2>1. /\ phase \in {"apply", "permit", "lift", "audit"}
        /\ phase' \in {"permit", "lift", "audit", "answer"}
        /\ job.key \in Keys /\ job'.key = job.key /\ UNCHANGED <<result, unwritten>>
        /\ ran' = ran \/ ran'[job.key] > 0
        /\ \/ /\ job'.out = job.out /\ (phase = "apply" => ran'[job.key] > 0)
              /\ Kind[Command] \in SafetyKinds \cup ResumeKinds
              /\ phase # "permit" /\ phase' # "permit"
           \/ job'.out = Reply("failed") /\ phase' = "answer"
           \/ Flow
    BY <1>0, <1>12, ApplyFacts
  <2>2. ~Desk(job.key)'
    BY <1>0, <2>1 DEF Outcome, Desk, AnsweredByDesk
  <2>3. Outcome'
    <3>1. CASE Flow
      <4>1. phase' = "answer" => Says(job.out, job.key)'
        BY <1>0, <3>1, FlowSays
      <4>2. phase' = "permit" => job' = job /\ phase = "apply"
        BY <3>1 DEF Flow, FlowRefused, FlowFails, PlaceFile, RejectEntry, ApproveAgain,
           IssuePermit, PermitRefused, SendEntry, Answering
      <4>3. phase' \in {"permit", "answer"}
        BY <3>1, FlowFacts
      <4> QED BY <1>0, <2>2, <4>1, <4>2, <4>3 DEF Outcome
    <3>2. CASE job'.out = Reply("failed") /\ phase' = "answer"
      BY <2>1, <2>2, <3>2, ReplyFacts DEF Outcome, Says
    <3>3. CASE /\ job'.out = job.out /\ (phase = "apply" => ran'[job.key] > 0)
               /\ Kind[Command] \in SafetyKinds \cup ResumeKinds
               /\ phase # "permit" /\ phase' # "permit"
      <4>1. job'.out = Reply("applied") /\ ran'[job.key] > 0
        BY <1>0, <2>1, <3>3 DEF Outcome
      <4>2. result'[job.key].cmd = Command /\ Kind[Command] # "reject_entry"
        BY <1>1, <2>1, <3>3 DEF Busy, SafetyKinds, ResumeKinds
      <4>3. Says(job.out, job.key)'
        BY <2>1, <4>1, <4>2, ReplyFacts DEF Says
      <4> QED BY <2>1, <2>2, <3>3, <4>1, <4>3 DEF Outcome
    <3> QED BY <2>1, <3>1, <3>2, <3>3
  <2> QED BY <1>6, <1>7, <2>1, <2>3 DEF Truthful
<1>13. CASE AnswerFails
  <2>1. /\ phase = "answer" /\ phase' = "next" /\ UNCHANGED <<result, ran, rejected>>
        /\ unwritten' = [unwritten EXCEPT ![job.key] = job.out]
    BY <1>13 DEF AnswerFails, fileVars, outside, entryVars
  <2>2. job.key \in Keys /\ ~Desk(job.key) /\ Says(job.out, job.key)
    BY <1>0, <1>1, <2>1 DEF Outcome, Busy
  <2>3. ASSUME NEW k \in Keys, unwritten'[k] # None PROVE ~Desk(k)' /\ Says(unwritten[k], k)'
    <3>1. CASE k = job.key
      <4>1. unwritten'[k] = job.out
        BY <1>0, <2>1, <2>2, <3>1
      <4> QED BY <2>1, <2>2, <3>1, <4>1 DEF Desk, AnsweredByDesk, Says, Echo, Sender, Approves
    <3>2. CASE k # job.key
      <4>1. unwritten'[k] = unwritten[k]
        BY <1>0, <2>1, <3>2
      <4> QED BY <1>0, <1>5, <2>1, <2>3, <4>1 DEF Kept, Desk, AnsweredByDesk
    <3> QED BY <3>1, <3>2
  <2>4. Told'
    BY <1>4, <2>1 DEF Told, Desk, AnsweredByDesk
  <2>5. Outcome'
    BY <2>1 DEF Outcome
  <2> QED BY <2>3, <2>4, <2>5 DEF Truthful, Kept
\* The answer that is written says what the effect says.
<1>14. ASSUME NEW k \in Keys, NEW o \in Answers, Answered(k, o), Says(o, k), result[k] # None,
              ran' = ran
       PROVE  Told'
  <2>1. Says(o, k)'
    BY <1>0, <1>14, SaysStays
  <2>2. result'[k].status \in {"applied", "refused", "failed"} /\ Says(result[k], k)'
    BY <1>14, <2>1 DEF Answered, Says, Answers
  <2>3. ASSUME NEW j \in Keys, j # k, Desk(j)'
        PROVE  result'[j].status \in {"applied", "refused", "failed"} /\ Says(result[j], j)'
    <3>1. result'[j] = result[j] /\ Desk(j)
      BY <1>14, <2>3 DEF Answered, Desk, AnsweredByDesk
    <3> QED BY <1>4, <3>1
  <2> QED BY <2>2, <2>3 DEF Told
<1>15. ASSUME NEW k \in Keys, NEW o, Answered(k, o), ran' = ran,
              \A j \in Keys : unwritten'[j] # None => j # k /\ unwritten'[j] = unwritten[j]
       PROVE  Kept'
  <2>1. ASSUME NEW j \in Keys, unwritten'[j] # None PROVE ~Desk(j)' /\ Says(unwritten[j], j)'
    <3>1. j # k /\ unwritten'[j] = unwritten[j]
      BY <1>15, <2>1
    <3>2. result'[j] = result[j]
      BY <1>15, <3>1 DEF Answered
    <3> QED BY <1>0, <1>5, <2>1, <3>1, <3>2 DEF Kept, Desk, AnsweredByDesk
  <2> QED BY <2>1 DEF Kept
<1>16. CASE Answer
  <2>1. /\ phase = "answer" /\ phase' = "archive" /\ job # None /\ job.out \in Answers
        /\ job.key \in Keys /\ Answered(job.key, job.out) /\ UNCHANGED <<ran, unwritten>>
    BY <1>16, AnswerFacts
  <2>2. Says(job.out, job.key) /\ unwritten[job.key] = None /\ result[job.key] # None
    BY <1>0, <1>1, <2>1 DEF Outcome, Taker, Busy
  <2>3. Told' /\ Kept'
    BY <1>14, <1>15, <2>1, <2>2
  <2>4. Outcome'
    BY <2>1 DEF Outcome
  <2> QED BY <2>3, <2>4 DEF Truthful
<1>17. ASSUME NEW k \in Keys, WriteUnwritten(k) PROVE Truthful'
  <2>1. /\ phase' = "top" /\ unwritten[k] \in Answers /\ Answered(k, unwritten[k])
        /\ ran' = ran /\ unwritten[k] # None
        /\ unwritten'[k] = None /\ \A j \in Keys \ {k} : unwritten'[j] = unwritten[j]
    BY <1>17, WrittenFacts DEF WriteUnwritten
  <2>2. Says(unwritten[k], k) /\ result[k] # None
    BY <1>0, <1>2, <2>1 DEF Kept
  <2>3. Told' /\ Kept'
    BY <1>14, <1>15, <2>1, <2>2
  <2>4. Outcome'
    BY <2>1 DEF Outcome
  <2> QED BY <2>3, <2>4 DEF Truthful
<1> QED BY <1>8, <1>9, <1>10, <1>11, <1>12, <1>13, <1>16, <1>17 DEF Next, Owner

\* "applied" is said of an effect that ran, or by an approval of an order that
\* an approval answered "applied" sent; "refused" of a command that had no
\* effect; and a rejection that is answered "applied" is of a proposal that
\* no approval has sent.
THEOREM TrueAnswers == ASSUME ~ReadFaults PROVE Spec => []AnswersAreTrue
<1>1. Base /\ Once /\ Truthful /\ [Next]_vars => Truthful'
  BY NextTruthful
<1>2. Base /\ Once /\ Entries /\ [Next]_vars => Entries'
  BY NextEntries
<1>3. Base /\ Truthful /\ Entries => AnswersAreTrue
  <2> SUFFICES ASSUME Base, Told, Spending, NEW k \in Keys, Desk(k)
               PROVE  LET p == ProposalOf[result[k].cmd] IN
                      /\ result[k].status = "refused" => ran[k] = 0
                      /\ result[k].status = "applied" => ran[k] > 0 \/ Echo(k)
                      /\ result[k].status = "applied" /\ Kind[result[k].cmd] = "reject_entry" =>
                            \A j \in Keys : ~Sender(j, p)
    BY DEF Truthful, Entries, AnswersAreTrue, Echo, Desk
  <2>1. Says(result[k], k)
    BY DEF Told
  <2>2. result[k].cmd \in Commands
    BY DEF Base, TypeOK, FilesTypeOK, Result, Desk, AnsweredByDesk
  <2>3. ProposalOf[result[k].cmd] \in Proposals
    BY <2>2
  <2> QED BY <2>1, <2>3 DEF Says, Spending
<1> QED BY InitBase, NextBase, InitOnce, NextOnce, InitEntries, InitTruthful, <1>1, <1>2, <1>3,
           PTL DEF Spec

\* A key's outcome moves once, from "accepted" to the desk's answer.
THEOREM FinalOutcome == ASSUME ~ReadFaults PROVE Spec => OutcomeIsFinal
<1>1. Base /\ Truthful /\ [Next]_vars =>
         [\A k \in Keys : result[k] # None /\ result'[k] # result[k] =>
             /\ result[k].status = "accepted" /\ ~result[k].desk
             /\ result'[k].desk /\ result'[k].cmd = result[k].cmd]_vars
  BY OutcomeStep DEF Truthful
<1>2. Base /\ Once /\ Truthful /\ [Next]_vars => Truthful'
  BY NextTruthful
<1> QED BY InitBase, NextBase, InitOnce, NextOnce, InitTruthful, <1>1, <1>2, PTL
       DEF Spec, OutcomeIsFinal

---------------------------------------------------------------------------
(* Safety commands: their effect, when no file operation fails either.     *)

\* An accepted safety command has had its effect when its answer is decided.
Safety(k) == result[k] # None /\ Kind[result[k].cmd] \in SafetyKinds
Decided(k) == Desk(k) \/ unwritten[k] # None \/ (Taker(k) /\ phase \in {"answer", "archive"})
Effected == \A k \in Keys : Safety(k) /\ Decided(k) => ran[k] > 0

\* A key that gets its record in a step has neither claim nor answer.
LEMMA SafetyFacts ==
    ASSUME Base, [Next]_vars, NEW k \in Keys, Safety(k)'
    PROVE  \/ Safety(k)
           \/ /\ UNCHANGED ownerVars /\ ~Desk(k)'
              /\ unwritten[k] = None /\ ~Taker(k)
<1>1. CASE result[k] # None
  BY <1>1, RecordStays DEF Safety
<1>2. CASE result[k] = None
  <2>1. claimed[k] = None
    BY <1>2 DEF Base, Intake, QueuedIsAccepted
  <2>2. unwritten[k] = None /\ ~Taker(k)
    BY <2>1 DEF Base, Course, Taker
  <2>3. CASE Web \/ Environment
    BY <1>2, <2>2, <2>3, OutsideFacts DEF Desk, AnsweredByDesk
  <2>4. result'[k] # None
    BY DEF Safety
  <2>5. ~Answer
    <3> SUFFICES ASSUME Answer PROVE FALSE
      OBVIOUS
    <3>1. phase = "answer" /\ job.key \in Keys /\ Answered(job.key, job.out)
      BY AnswerFacts
    <3>2. k = job.key
      BY <1>2, <2>4, <3>1 DEF Answered
    <3> QED BY <1>2, <3>1, <3>2, CommandFacts DEF Busy
  <2>6. ASSUME NEW j \in Keys, WriteUnwritten(j) PROVE FALSE
    <3>1. claimed[j] # None /\ Answered(j, unwritten[j])
      BY <2>6, WrittenFacts
    <3>2. k = j
      BY <1>2, <2>4, <3>1 DEF Answered
    <3> QED BY <2>1, <3>1, <3>2
  <2>7. result' # result
    BY <1>2, <2>4
  <2> QED BY <2>3, <2>5, <2>6, <2>7, FlowFacts
         DEF Next, Owner, vars, fileVars, Boot, List, EndPass, Connect, GatewayLost, Leave, Crash,
             Down, Claim, ClaimFails, SetAside, RecoverTake, AlreadyAnswered, Validate,
             RecoverAnswered, RecoverInterrupted, PlaceStop, ResumeAll, LiftStop, LiftPause, Audit,
             AuditFails, ApplyFails, SessionLost, AnswerFails, Archive
<1> QED BY <1>1, <1>2

LEMMA InitEffected == Init => Effected
  BY DEF Init, Effected, Safety

LEMMA NextEffected ==
    ASSUME ~ReadFaults, ~ApplyFaults, Base, Once, Truthful, Effected, [Next]_vars
    PROVE  Effected'
<1> SUFFICES ASSUME NEW k \in Keys, Safety(k)', Decided(k)' PROVE ran'[k] > 0
  BY DEF Effected
<1>0. Fresh /\ Outcome /\ (phase \in Busy => job.key \in Keys /\ result[job.key].cmd = Command)
  BY CommandFacts DEF Once, Truthful
<1>1. CASE ~Safety(k)
  BY <1>1, SafetyFacts DEF Decided, ownerVars, Taker
<1>2. CASE Decided(k) /\ Safety(k)
  BY <1>2, RanGrows DEF Effected
<1> SUFFICES ASSUME ~Decided(k), Safety(k) PROVE ran'[k] > 0
  BY <1>1, <1>2
<1>3. ASSUME result'[k] = result[k], unwritten'[k] \in {unwritten[k], None} PROVE Taker(k)' /\ phase' \in {"answer", "archive"}
  BY <1>3 DEF Decided, Desk, AnsweredByDesk
<1>4. CASE UNCHANGED vars
  BY <1>3, <1>4 DEF vars, ownerVars, fileVars, Decided, Taker
<1>5. CASE Web \/ Environment
  BY <1>5, OutsideFacts DEF ownerVars, Decided, Taker
<1>6. CASE \/ Boot \/ List \/ EndPass \/ Connect \/ GatewayLost \/ Leave \/ Crash
           \/ (\E j \in Keys : ClaimFails(j) \/ SetAside(j) \/ Claim(j) \/ RecoverTake(j))
           \/ SessionLost \/ Archive \/ AlreadyAnswered
  <2>1. /\ UNCHANGED result
        /\ unwritten' = unwritten \/ unwritten' = [j \in Keys |-> None]
        /\ phase' \notin {"answer", "archive"}
    BY <1>6 DEF Boot, List, EndPass, Connect, GatewayLost, Leave, Crash, Down, ClaimFails, Turn,
       SetAside, Claim, RecoverTake, SessionLost, Archive, AlreadyAnswered, fileVars
  <2> QED BY <1>3, <2>1
<1>7. CASE RecoverAnswered
  <2>1. /\ job' = job /\ UNCHANGED <<result, unwritten>> /\ Desk(job.key)
    BY <1>7 DEF RecoverAnswered, Intakes, AnsweredByDesk, Desk, fileVars
  <2> QED BY <1>3, <2>1 DEF Taker, Decided
\* Only a command that is not a safety kind is refused or found interrupted.
<1>8. ASSUME phase \in Busy, job'.key = job.key, UNCHANGED <<result, unwritten>>
      PROVE  k = job.key /\ Kind[Command] \in SafetyKinds
  BY <1>0, <1>3, <1>8 DEF Taker, Safety
<1>9. CASE Validate
  <2>1. phase' # "apply"
    BY <1>3, <1>9, ValidateFacts, <1>0
  <2> QED BY <1>0, <1>8, <1>9, <2>1, ValidateFacts DEF Busy
<1>10. CASE RecoverInterrupted
  BY <1>8, <1>10, InterruptedFacts DEF Busy
<1>11. CASE \/ PlaceStop \/ ResumeAll \/ LiftStop \/ LiftPause \/ Audit
            \/ AuditFails \/ ApplyFails \/ Flow
  <2>1. /\ phase \in {"apply", "permit", "lift", "audit"} /\ job'.key = job.key
        /\ UNCHANGED <<result, unwritten>>
        /\ \/ phase = "apply" => ran'[job.key] > 0
           \/ phase = "audit"
           \/ Kind[Command] \notin SafetyKinds
    BY <1>0, <1>11, ApplyFacts
  <2>2. k = job.key /\ Kind[Command] \in SafetyKinds
    BY <1>8, <2>1 DEF Busy
  <2>3. phase # "permit" /\ (phase \in {"lift", "audit"} => ran[k] > 0)
    BY <1>0, <2>2 DEF Outcome, Fresh, SafetyKinds
  <2> QED BY <2>1, <2>2, <2>3, RanGrows
<1>12. CASE Answer
  <2>1. /\ phase = "answer" /\ job # None /\ Answered(job.key, job.out) /\ UNCHANGED <<job, unwritten>>
    BY <1>12, AnswerFacts
  <2>2. ~Taker(k)
    BY <2>1 DEF Decided
  <2>3. result'[k] = result[k]
    BY <2>1, <2>2 DEF Answered, Taker
  <2> QED BY <1>3, <2>1, <2>2, <2>3 DEF Taker
<1>13. CASE AnswerFails
  <2>1. /\ phase = "answer" /\ phase' = "next" /\ UNCHANGED result
        /\ unwritten' = [unwritten EXCEPT ![job.key] = job.out]
    BY <1>13 DEF AnswerFails, fileVars
  <2>2. k # job.key /\ unwritten \in [Keys -> Answers \cup {None}]
    BY <2>1, CommandFacts DEF Busy, Decided, Taker, Base, TypeOK, OwnerTypeOK
  <2> QED BY <1>3, <2>1, <2>2
<1>14. ASSUME NEW j \in Keys, WriteUnwritten(j) PROVE ran'[k] > 0
  <2>1. /\ phase' = "top" /\ unwritten[j] \in Answers /\ Answered(j, unwritten[j])
        /\ \A i \in Keys \ {j} : unwritten'[i] = unwritten[i]
    BY <1>14, WrittenFacts
  <2>2. k # j
    BY <2>1 DEF Decided
  <2> QED BY <1>3, <2>1, <2>2 DEF Answered
<1> QED BY <1>4, <1>5, <1>6, <1>7, <1>9, <1>10, <1>11, <1>12, <1>13, <1>14 DEF Next, Owner

\* Only a recovery leaves claimed safety commands to be taken.
Waits(k) == claimed[k] # None /\ Kind[claimed[k]] \in SafetyKinds /\ ~Taker(k)
Recovered ==
    mode \in {"recover", "start", "loop"} => \A k \in Keys :
        Waits(k) => ran[k] > 0 \/ (mode = "recover" /\ k \in todo)

LEMMA InitRecovered == Init => Recovered
  BY DEF Init, Recovered

LEMMA NextRecovered ==
    ASSUME ~ReadFaults, ~ApplyFaults, ~StartFaults,
           Base, Once, Truthful, Effected, Recovered, [Next]_vars
    PROVE  Recovered'
<1> SUFFICES ASSUME mode' \in {"recover", "start", "loop"}, NEW k \in Keys, Waits(k)'
             PROVE  ran'[k] > 0 \/ (mode' = "recover" /\ k \in todo')
  BY DEF Recovered
<1>0. /\ Course /\ Fresh /\ QueuedIsAccepted
      /\ phase \in Busy => job # None /\ job.key \in Keys /\ result[job.key].cmd = Command
  BY CommandFacts DEF Base, Once, Intake
\* A command that goes out of hand has been decided, and so has had its effect.
<1>1. ASSUME Taker(k), phase \in Busy, claimed'[k] \in {claimed[k], None}, Decided(k) PROVE ran'[k] > 0
  <2>1. Safety(k)
    BY <1>0, <1>1 DEF Waits, Safety, QueuedIsAccepted
  <2> QED BY <1>1, <2>1, RanGrows DEF Effected
<1>2. ASSUME mode' = mode, mode = "recover" => todo' = todo, claimed'[k] \in {claimed[k], None},
             Taker(k) => Taker(k)' \/ (phase \in Busy /\ Decided(k))
      PROVE  ran'[k] > 0 \/ (mode' = "recover" /\ k \in todo')
  <2>1. CASE Taker(k)
    BY <1>1, <1>2, <2>1 DEF Waits
  <2>2. CASE ~Taker(k)
    <3>1. Waits(k)
      BY <1>2, <2>2 DEF Waits
    <3>2. ran[k] > 0 \/ (mode = "recover" /\ k \in todo)
      BY <1>2, <3>1 DEF Recovered
    <3> QED BY <1>2, <3>2, RanGrows
  <2> QED BY <2>1, <2>2
<1>3. CASE UNCHANGED vars
  BY <1>2, <1>3 DEF vars, ownerVars, fileVars, Taker
<1>4. CASE Web \/ Environment
  BY <1>2, <1>4, OutsideFacts DEF ownerVars, Taker
<1>5. CASE List \/ \E j \in Keys : ClaimFails(j) \/ SetAside(j)
  <2>1. mode' = mode /\ mode # "recover" /\ UNCHANGED <<claimed, job>>
    BY <1>0, <1>5 DEF List, ClaimFails, SetAside, Turn, fileVars, Course
  <2> QED BY <1>2, <2>1 DEF Taker
<1>6. CASE Boot \/ GatewayLost \/ Leave \/ Crash \/ SessionLost
  BY <1>6 DEF Boot, GatewayLost, Leave, Crash, Down, SessionLost
<1>7. CASE EndPass
  <2>1. /\ mode \in {"recover", "start", "loop"} /\ UNCHANGED <<claimed, job, ran>>
        /\ mode = "recover" => todo = {}
    BY <1>7 DEF EndPass, PassOver, fileVars
  <2>2. Waits(k)
    BY <2>1 DEF Waits, Taker
  <2> QED BY <2>1, <2>2 DEF Recovered
<1>8. CASE Connect
  <2>1. mode' = "recover" /\ todo' = {j \in Keys : claimed[j] # None} /\ claimed' = claimed
    BY <1>8 DEF Connect, fileVars
  <2> QED BY <2>1 DEF Waits
<1>9. ASSUME NEW j \in Keys, Claim(j) PROVE ran'[k] > 0 \/ (mode' = "recover" /\ k \in todo')
  <2>1. /\ mode' = mode /\ mode # "recover" /\ job = None /\ job'.key = j /\ job' # None
        /\ \A i \in Keys \ {j} : claimed'[i] = claimed[i]
    BY <1>9, ClaimFacts
  <2>2. k # j
    BY <2>1 DEF Waits, Taker
  <2> QED BY <1>2, <2>1, <2>2 DEF Taker
<1>10. ASSUME NEW j \in Keys, RecoverTake(j) PROVE ran'[k] > 0 \/ (mode' = "recover" /\ k \in todo')
  <2>1. /\ mode' = "recover" /\ mode = "recover" /\ todo' = todo \ {j} /\ job' = NewJob(j)
        /\ UNCHANGED <<claimed, ran>> /\ phase = "next"
    BY <1>10 DEF RecoverTake, fileVars
  <2>2. k # j
    BY <2>1, NewJobFacts DEF Waits, Taker
  <2>3. Waits(k)
    <3>1. phase \notin Busy
      BY <2>1 DEF Busy
    <3>2. job = None
      BY <1>0, <3>1 DEF Course
    <3> QED BY <2>1, <3>2 DEF Waits, Taker
  <2> QED BY <2>1, <2>2, <2>3 DEF Recovered
<1>11. CASE RecoverAnswered
  <2>1. mode' = mode /\ UNCHANGED <<todo, claimed, job>>
    BY <1>11 DEF RecoverAnswered, fileVars
  <2> QED BY <1>2, <2>1 DEF Taker
<1>12. CASE Validate \/ RecoverInterrupted
  <2>1. /\ mode' = mode /\ UNCHANGED <<todo, claimed>> /\ phase = "validate"
        /\ job' = job \/ (job' # None /\ job'.key = job.key)
    BY <1>0, <1>12, ValidateFacts, InterruptedFacts
  <2> QED BY <1>2, <2>1 DEF Taker
<1>13. CASE \/ PlaceStop \/ ResumeAll \/ LiftStop \/ LiftPause \/ Audit
            \/ AuditFails \/ ApplyFails \/ Flow
  <2>1. mode' = mode /\ UNCHANGED <<todo, claimed>> /\ job' # None /\ job'.key = job.key
    BY <1>0, <1>13, ApplyFacts
  <2> QED BY <1>2, <2>1 DEF Taker
<1>14. CASE Answer
  <2>1. mode' = mode /\ UNCHANGED <<todo, claimed, job>>
    BY <1>14, AnswerFacts
  <2> QED BY <1>2, <2>1 DEF Taker
<1>15. CASE AnswerFails
  <2>1. mode' = mode /\ UNCHANGED <<todo, claimed>> /\ phase = "answer"
    BY <1>15 DEF AnswerFails, fileVars
  <2> QED BY <1>2, <2>1 DEF Decided, Busy
<1>16. CASE Archive \/ AlreadyAnswered
  <2>1. /\ mode' = mode /\ todo' = todo /\ phase \in Busy /\ job.key \in Keys
        /\ claimed'[job.key] \in {claimed[job.key], None}
        /\ \A j \in Keys \ {job.key} : claimed'[j] = claimed[j]
        /\ Desk(job.key)
    BY <1>0, <1>16, ArchiveFacts DEF Fresh, Archive, Busy
  <2> QED BY <1>2, <2>1 DEF Decided, Taker
<1>17. ASSUME NEW j \in Keys, WriteUnwritten(j) PROVE ran'[k] > 0 \/ (mode' = "recover" /\ k \in todo')
  <2>1. /\ mode' = mode /\ todo' = todo /\ job' = job /\ claimed'[j] \in {claimed[j], None}
        /\ \A i \in Keys \ {j} : claimed'[i] = claimed[i]
    BY <1>17, WrittenFacts
  <2> QED BY <1>2, <2>1 DEF Taker
<1> QED BY <1>3, <1>4, <1>5, <1>6, <1>7, <1>8, <1>9, <1>10, <1>11, <1>12, <1>13, <1>14, <1>15,
           <1>16, <1>17 DEF Next, Owner

\* While the owner loops, every safety command a dead owner left has run.
THEOREM StopsRecovered ==
    ASSUME ~ReadFaults, ~ApplyFaults, ~StartFaults
    PROVE  Spec => []StopsBeforeLoop
<1>1. Base /\ Once /\ Truthful /\ [Next]_vars => Truthful'
  BY NextTruthful
<1>2. Base /\ Once /\ Truthful /\ Effected /\ [Next]_vars => Effected'
  BY NextEffected
<1>3. Base /\ Once /\ Truthful /\ Effected /\ Recovered /\ [Next]_vars => Recovered'
  BY NextRecovered
<1>4. Recovered => StopsBeforeLoop
  BY DEF Recovered, Waits, Taker, StopsBeforeLoop
<1> QED BY InitBase, NextBase, InitOnce, NextOnce, InitTruthful, InitEffected, InitRecovered,
           <1>1, <1>2, <1>3, <1>4, PTL DEF Spec

\* A safety command in hand or answered is applied.
Heeded(k) ==
    /\ Desk(k) => result[k].status = "applied"
    /\ unwritten[k] # None => unwritten[k].status = "applied"
    /\ Taker(k) => job.out.status = "applied"
Obeyed == \A k \in Keys : Safety(k) => Heeded(k)

LEMMA InitObeyed == Init => Obeyed
  BY DEF Init, Obeyed, Safety

LEMMA NextObeyed ==
    ASSUME ~ReadFaults, ~ApplyFaults, ~AuditFaults, Base, Once, Obeyed, [Next]_vars
    PROVE  Obeyed'
<1> SUFFICES ASSUME NEW k \in Keys, Safety(k)' PROVE Heeded(k)'
  BY DEF Obeyed
<1>0. /\ Fresh /\ unwritten \in [Keys -> Answers \cup {None}]
      /\ phase \in Busy => /\ job # None /\ job.key \in Keys /\ result[job.key] # None
                           /\ result[job.key].cmd = Command
  BY CommandFacts DEF Once, Base, TypeOK, OwnerTypeOK
<1>1. CASE ~Safety(k)
  BY <1>1, SafetyFacts DEF Heeded, ownerVars, Taker
<1> SUFFICES ASSUME Safety(k), Heeded(k) PROVE Heeded(k)'
  BY <1>1 DEF Obeyed
<1>2. ASSUME result'[k] = result[k], unwritten'[k] \in {unwritten[k], None},
             Taker(k)' => job'.out.status = "applied"
      PROVE  Heeded(k)'
  BY <1>2 DEF Heeded, Desk, AnsweredByDesk
<1>3. CASE UNCHANGED vars
  BY <1>2, <1>3 DEF vars, ownerVars, fileVars, Heeded, Taker
<1>4. CASE Web \/ Environment
  <2>1. UNCHANGED ownerVars /\ result'[k] = result[k]
    BY <1>4, OutsideFacts DEF Safety
  <2> QED BY <1>2, <2>1 DEF ownerVars, Heeded, Taker
<1>5. CASE \/ Boot \/ List \/ EndPass \/ Connect \/ GatewayLost \/ Leave \/ Crash
           \/ (\E j \in Keys : ClaimFails(j) \/ SetAside(j) \/ Claim(j) \/ RecoverTake(j))
           \/ RecoverAnswered \/ SessionLost \/ Archive \/ AlreadyAnswered
  <2>1. /\ UNCHANGED result
        /\ unwritten' = unwritten \/ unwritten' = [j \in Keys |-> None]
        /\ \/ job' \in {job, None}
           \/ \E j \in Keys : job' = NewJob(j)
    BY <1>5 DEF Boot, List, EndPass, Connect, GatewayLost, Leave, Crash, Down, ClaimFails,
       SetAside, Claim, RecoverTake, RecoverAnswered, SessionLost, Archive, AlreadyAnswered, fileVars
  <2>2. Taker(k)' => job'.out.status = "applied"
    BY <2>1, NewJobFacts, ReplyFacts DEF Heeded, Taker
  <2> QED BY <1>2, <2>1, <2>2
\* The command in hand, if it is k, is a safety kind.
<1>6. ASSUME phase \in Busy, job'.key = job.key, UNCHANGED <<result, unwritten>>,
             Kind[Command] \in SafetyKinds => job'.out = job.out
      PROVE  Heeded(k)'
  BY <1>0, <1>2, <1>6 DEF Heeded, Taker, Safety
<1>7. CASE Validate
  BY <1>0, <1>6, <1>7, ValidateFacts DEF Busy
<1>8. CASE RecoverInterrupted
  BY <1>6, <1>8, InterruptedFacts DEF Busy
<1>9. CASE \/ PlaceStop \/ ResumeAll \/ LiftStop \/ LiftPause \/ Audit
           \/ AuditFails \/ ApplyFails \/ Flow
  BY <1>0, <1>6, <1>9, ApplyFacts DEF Busy
<1>10. CASE Answer
  <2>1. /\ phase = "answer" /\ job # None /\ job.key \in Keys /\ Answered(job.key, job.out)
        /\ UNCHANGED <<job, unwritten>>
    BY <1>10, AnswerFacts
  <2>2. CASE k = job.key
    BY <2>1, <2>2 DEF Answered, Heeded, Taker
  <2>3. CASE k # job.key
    BY <1>2, <2>1, <2>3 DEF Answered, Taker
  <2> QED BY <2>2, <2>3
<1>11. CASE AnswerFails
  <2>1. /\ phase = "answer" /\ job' = None /\ UNCHANGED result
        /\ unwritten' = [unwritten EXCEPT ![job.key] = job.out]
    BY <1>11 DEF AnswerFails, fileVars
  <2>2. CASE k = job.key
    BY <1>0, <2>1, <2>2 DEF Heeded, Taker, Busy, Desk, AnsweredByDesk
  <2>3. CASE k # job.key
    BY <1>0, <1>2, <2>1, <2>3 DEF Taker
  <2> QED BY <2>2, <2>3
<1>12. ASSUME NEW j \in Keys, WriteUnwritten(j) PROVE Heeded(k)'
  <2>1. /\ job' = job /\ job = None /\ unwritten[j] \in Answers /\ Answered(j, unwritten[j])
        /\ unwritten'[j] = None /\ \A i \in Keys \ {j} : unwritten'[i] = unwritten[i]
    BY <1>12, WrittenFacts
  <2>2. CASE k = j
    BY <2>1, <2>2 DEF Answered, Heeded, Taker
  <2>3. CASE k # j
    BY <1>2, <2>1, <2>3 DEF Answered, Taker
  <2> QED BY <2>2, <2>3
<1> QED BY <1>3, <1>4, <1>5, <1>7, <1>8, <1>9, <1>10, <1>11, <1>12 DEF Next, Owner

\* An accepted halt, flatten or pause is never answered otherwise than applied.
THEOREM SafetyObeyed ==
    ASSUME ~ReadFaults, ~ApplyFaults, ~AuditFaults
    PROVE  Spec => []SafetyNeverDropped
<1>1. Base /\ Once /\ Obeyed /\ [Next]_vars => Obeyed'
  BY NextObeyed
<1>2. Obeyed => SafetyNeverDropped
  BY DEF Obeyed, Heeded, Safety, Desk, AnsweredByDesk, SafetyNeverDropped
<1> QED BY InitBase, NextBase, InitOnce, NextOnce, InitObeyed, <1>1, <1>2, PTL DEF Spec
=============================================================================
