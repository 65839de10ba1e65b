------------------------- MODULE CommandQueue_proof -------------------------
(***************************************************************************)
(* Theorems about CommandQueue for all commands, keys, clocks, faults and  *)
(* crashes: types, the course of a command, and what is queued.            *)
(***************************************************************************)
EXTENDS CommandQueue, TLAPS

USE QueueAssumption, NoneAssumption

---------------------------------------------------------------------------
(* The inductive invariant, part by part.                                  *)

\* The steps of one command.
Busy == {"validate", "apply", "permit", "lift", "audit", "answer", "archive"}

Taker(k) == job # None /\ job.key = k

\* Where a key can be: the command in hand, an answer kept in memory and a
\* claim still to be recovered each have their claim, and exclude each other;
\* what a pass has listed is still queued.
Course ==
    /\ job # None <=> phase \in Busy
    /\ job # None => claimed[job.key] # None
    /\ mode = "down" <=> phase = "down"
    /\ mode = "recover" => phase # "top"
    /\ \A k \in todo : IF mode = "recover" THEN claimed[k] # None /\ ~Taker(k)
                                           ELSE queued[k] # None
    /\ \A k \in Keys : unwritten[k] # None =>
          claimed[k] # None /\ ~Taker(k) /\ (mode = "recover" => k \notin todo)

\* The submission under the web's lock has written what _queue's order says.
WebInHand ==
    web # None =>
        /\ staged[KeyOf[web.cmd]] = web.cmd
        /\ web.at <= clock /\ web.at < ExpiresAt[web.cmd]
        /\ IssuedAt[web.cmd] <= web.at + MaxSkew
        /\ result[KeyOf[web.cmd]] = IF web.step = "accept" THEN None
                                    ELSE WebResult(web.cmd, "accepted", web.at)

\* Every accepted command was inside its window when the web took it.
InTime(r) ==
    r.status = "accepted" \/ r.desk =>
        r.at <= clock /\ r.at < ExpiresAt[r.cmd] /\ IssuedAt[r.cmd] <= r.at + MaxSkew
TakenInTime == \A k \in Keys : result[k] # None => InTime(result[k])

Intake == WebInHand /\ TakenInTime /\ QueuedIsAccepted
Base == TypeOK /\ Course /\ Intake

\* The desk has answered the key.
Desk(k) == AnsweredByDesk(result[k])

---------------------------------------------------------------------------
(* Records that the actions build.                                         *)

LEMMA NewJobFacts ==
    ASSUME NEW k \in Keys
    PROVE  /\ NewJob(k) \in Job /\ NewJob(k).key = k /\ NewJob(k).out = Reply("applied")
           /\ NewJob(k).saved = Absent
  BY DEF NewJob, Job, Answers, Reply, Absent

LEMMA OutFacts ==
    ASSUME job \in Job, NEW o \in Answers, job' = [job EXCEPT !.out = o]
    PROVE  /\ job' \in Job /\ job'.key = job.key /\ job'.out = o
           /\ job'.lift = job.lift /\ job'.saved = job.saved /\ job'.backed = job.backed
  BY DEF Job

LEMMA LiftFacts ==
    ASSUME job \in Job, NEW S \in SUBSET StopFiles, job' = [job EXCEPT !.lift = S]
    PROVE  /\ job' \in Job /\ job'.key = job.key /\ job'.out = job.out
           /\ job'.lift = S /\ job'.saved = job.saved /\ job'.backed = job.backed
  BY DEF Job

LEMMA SavedFacts ==
    ASSUME job \in Job, NEW n \in Nat \cup {Absent}, NEW B \in SUBSET Keys,
           job' = [job EXCEPT !.saved = n, !.backed = B]
    PROVE  /\ job' \in Job /\ job'.key = job.key /\ job'.out = job.out
           /\ job'.lift = job.lift /\ job'.saved = n /\ job'.backed = B
  BY DEF Job

LEMMA ReplyFacts ==
    \A status \in {"applied", "refused", "failed"} :
        /\ Reply(status) \in Answers /\ Reply(status).status = status /\ ~Reply(status).sent
        /\ Sent(status) \in Answers /\ Sent(status).status = status /\ Sent(status).sent
  BY DEF Reply, Sent, Answers

\* The answer of the desk keeps the command and the time it was taken.
LEMMA WriteFacts ==
    ASSUME TypeOK, NEW k \in Keys, NEW o \in Answers, result[k] # None, Write(k, o)
    PROVE  /\ result' \in [Keys -> Result \cup {None}] /\ result'[k] # None
           /\ result'[k].cmd = result[k].cmd /\ result'[k].at = result[k].at
           /\ result'[k].status = o.status /\ result'[k].sent = o.sent /\ result'[k].desk = TRUE
           /\ \A j \in Keys \ {k} : result'[j] = result[j]
           /\ web = None
<1> DEFINE r == [result[k] EXCEPT !.status = o.status, !.sent = o.sent, !.desk = TRUE]
<1>1. result[k] \in Result /\ result \in [Keys -> Result \cup {None}]
  BY DEF TypeOK, FilesTypeOK
<1>2. /\ r \in Result /\ r.cmd = result[k].cmd /\ r.at = result[k].at
      /\ r.status = o.status /\ r.sent = o.sent /\ r.desk = TRUE
  BY <1>1 DEF Result, Answers, Statuses
<1>3. result' = [result EXCEPT ![k] = r] /\ web = None
  BY DEF Write
<1> HIDE DEF r
<1>4. result'[k] = r /\ result' \in [Keys -> Result \cup {None}]
      /\ \A j \in Keys \ {k} : result'[j] = result[j]
  BY <1>1, <1>2, <1>3
<1> QED BY <1>2, <1>3, <1>4

---------------------------------------------------------------------------
(* Types, the command in hand and the intake.                              *)

\* Files that only move from the queue to a claim, or go away.
LEMMA FilesMove ==
    ASSUME Intake, UNCHANGED <<clock, staged, web, result>>,
           \A k \in Keys : /\ queued'[k] \in {queued[k], None}
                           /\ claimed'[k] \in {claimed[k], queued[k], None}
    PROVE  Intake'
<1>1. WebInHand' /\ TakenInTime'
  BY DEF Intake, WebInHand, TakenInTime, InTime
<1>2. QueuedIsAccepted'
  BY DEF Intake, QueuedIsAccepted
<1> QED BY <1>1, <1>2 DEF Intake

LEMMA InitBase == Init => Base
<1> SUFFICES ASSUME Init PROVE Base
  OBVIOUS
<1>1. TypeOK
  <2>1. FilesTypeOK
    BY DEF Init, FilesTypeOK
  <2>2. OwnerTypeOK
    BY DEF Init, OwnerTypeOK, Modes, Phases
  <2>3. StopTypeOK
    BY DEF Init, StopTypeOK
  <2>4. EntryTypeOK
    BY DEF Init, EntryTypeOK
  <2>5. CountTypeOK
    BY DEF Init, CountTypeOK
  <2> QED BY <2>1, <2>2, <2>3, <2>4, <2>5 DEF TypeOK
<1>2. Course
  BY DEF Init, Course, Busy
<1>3. Intake
  BY DEF Init, Intake, WebInHand, TakenInTime, QueuedIsAccepted
<1> QED BY <1>1, <1>2, <1>3 DEF Base

\* The web.
LEMMA BaseWeb ==
    ASSUME Base, Web
    PROVE  Base'
<1> USE DEF webVars, stopVars, ownerVars, fileVars, entryVars
<1>0. /\ TypeOK /\ FilesTypeOK /\ OwnerTypeOK /\ StopTypeOK /\ EntryTypeOK /\ CountTypeOK
      /\ clock \in Nat
      /\ Course /\ WebInHand /\ TakenInTime /\ QueuedIsAccepted
  BY DEF Base, Intake, TypeOK, CountTypeOK
<1>1. UNCHANGED <<clock, stopVars, ownerVars, entryVars, claimed, archived, ran, foreign>>
  BY DEF Web, SubmitKnown, SubmitRefused, SubmitStage, SubmitAccept, SubmitPublish, WebCrash
<1>2. OwnerTypeOK' /\ StopTypeOK' /\ EntryTypeOK'
  BY <1>0, <1>1 DEF OwnerTypeOK, StopTypeOK, EntryTypeOK
<1>3. ASSUME FilesTypeOK', crashes' \in 0..MaxCrashes, Intake',
             \A k \in Keys : queued[k] # None => queued'[k] # None
      PROVE  Base'
  <2>1. TypeOK'
    BY <1>0, <1>1, <1>2, <1>3 DEF TypeOK, CountTypeOK
  <2>2. Course'
    BY <1>0, <1>1, <1>3 DEF Course, Taker, OwnerTypeOK
  <2> QED BY <1>3, <2>1, <2>2 DEF Base
<1>4. ASSUME NEW c \in Commands, SubmitKnown(c) PROVE Base'
  <2> DEFINE k == KeyOf[c]
  <2>1. /\ k \in Keys /\ web = None /\ result[k] # None /\ staged[k] # None
        /\ staged' = [staged EXCEPT ![k] = None] /\ UNCHANGED <<web, result, crashes>>
        /\ \/ queued' = queued
           \/ /\ result[k].status = "accepted" /\ staged[k] = result[k].cmd
              /\ queued' = [queued EXCEPT ![k] = staged[k]]
    BY <1>4 DEF SubmitKnown
  <2> HIDE DEF k
  <2>2. FilesTypeOK' /\ \A j \in Keys : queued[j] # None => queued'[j] # None
    BY <1>0, <1>1, <2>1 DEF FilesTypeOK
  <2>3. WebInHand' /\ TakenInTime'
    BY <1>0, <1>1, <2>1 DEF WebInHand, TakenInTime, InTime
  <2>4. QueuedIsAccepted'
    <3> SUFFICES ASSUME NEW j \in Keys, NEW d \in {queued'[j], claimed'[j]} \ {None}
                 PROVE  /\ result[j] # None /\ result[j].cmd = d
                        /\ result[j].desk \/ result[j].status = "accepted"
      BY <2>1 DEF QueuedIsAccepted
    <3>1. d \in {queued[j], claimed[j]} \/ (j = k /\ d = staged[k] /\ queued' # queued)
      BY <1>0, <1>1, <2>1 DEF FilesTypeOK
    <3> QED BY <1>0, <2>1, <3>1 DEF QueuedIsAccepted
  <2> QED BY <1>0, <1>1, <1>3, <2>1, <2>2, <2>3, <2>4 DEF Intake, CountTypeOK
<1>5. ASSUME NEW c \in Commands, SubmitRefused(c) PROVE Base'
  <2> DEFINE k == KeyOf[c]
             r == WebResult(c, "refused", clock)
  <2>1. /\ k \in Keys /\ web = None /\ result[k] = None
        /\ staged' = [staged EXCEPT ![k] = None] /\ UNCHANGED <<web, queued, crashes>>
        /\ result' = [result EXCEPT ![k] = r]
    BY <1>5 DEF SubmitRefused
  <2>2. r \in Result /\ r.status = "refused" /\ r.desk = FALSE
    BY <1>0 DEF WebResult, Result, Statuses
  <2> HIDE DEF k, r
  <2>3. FilesTypeOK' /\ \A j \in Keys : queued[j] # None => queued'[j] # None
    BY <1>0, <1>1, <2>1, <2>2 DEF FilesTypeOK
  <2>4. WebInHand' /\ TakenInTime'
    BY <1>0, <1>1, <2>1, <2>2 DEF WebInHand, TakenInTime, InTime, FilesTypeOK
  <2>5. QueuedIsAccepted'
    <3> SUFFICES ASSUME NEW j \in Keys, NEW d \in {queued[j], claimed[j]} \ {None}
                 PROVE  /\ result'[j] # None /\ result'[j].cmd = d
                        /\ result'[j].desk \/ result'[j].status = "accepted"
      BY <1>1, <2>1 DEF QueuedIsAccepted
    <3>1. result[j] # None
      BY <1>0 DEF QueuedIsAccepted
    <3>2. result'[j] = result[j]
      BY <1>0, <2>1, <3>1 DEF FilesTypeOK
    <3> QED BY <1>0, <3>2 DEF QueuedIsAccepted
  <2> QED BY <1>0, <1>1, <1>3, <2>1, <2>3, <2>4, <2>5 DEF Intake, CountTypeOK
<1>6. ASSUME NEW c \in Commands, SubmitStage(c) PROVE Base'
  <2> DEFINE k == KeyOf[c]
             w == [cmd |-> c, at |-> clock, step |-> "accept"]
  <2>1. /\ k \in Keys /\ web = None /\ result[k] = None /\ InWindow(c)
        /\ staged' = [staged EXCEPT ![k] = c] /\ UNCHANGED <<queued, result, crashes>>
        /\ web' = w
    BY <1>6 DEF SubmitStage
  <2>2. w \in Submission /\ w.cmd = c /\ w.at = clock /\ w.step = "accept"
    BY <1>0 DEF Submission
  <2> HIDE DEF w
  <2>3. FilesTypeOK'
    BY <1>0, <1>1, <2>1, <2>2 DEF FilesTypeOK
  <2>4. WebInHand'
    BY <1>0, <1>1, <2>1, <2>2 DEF WebInHand, InWindow, FilesTypeOK
  <2>5. TakenInTime' /\ QueuedIsAccepted'
    BY <1>0, <1>1, <2>1 DEF TakenInTime, InTime, QueuedIsAccepted
  <2> QED BY <1>0, <1>1, <1>3, <2>1, <2>3, <2>4, <2>5 DEF Intake, CountTypeOK
<1>7. ASSUME web # None
      PROVE  /\ web \in Submission /\ web.cmd \in Commands /\ web.at \in Nat
             /\ KeyOf[web.cmd] \in Keys /\ web.step \in {"accept", "publish"}
  BY <1>0, <1>7 DEF FilesTypeOK, Submission
<1>8. CASE SubmitAccept
  <2> DEFINE k == KeyOf[web.cmd]
             r == WebResult(web.cmd, "accepted", web.at)
             w == [web EXCEPT !.step = "publish"]
  <2>1. /\ web # None /\ web.step = "accept" /\ web' = w
        /\ result' = [result EXCEPT ![k] = r] /\ UNCHANGED <<staged, queued, crashes>>
    BY <1>8 DEF SubmitAccept
  <2>2. w \in Submission /\ w.cmd = web.cmd /\ w.at = web.at /\ w.step = "publish"
    BY <1>7, <2>1 DEF Submission
  <2>3. /\ r \in Result /\ r.cmd = web.cmd /\ r.status = "accepted" /\ r.at = web.at
        /\ r.desk = FALSE
    BY <1>7, <2>1 DEF WebResult, Result, Statuses
  <2>4. k \in Keys /\ staged[k] = web.cmd /\ result[k] = None /\ InTime(r)
    BY <1>0, <1>7, <2>1, <2>3 DEF WebInHand, InTime
  <2>5. WebResult(w.cmd, "accepted", w.at) = r /\ KeyOf[w.cmd] = k
    BY <2>2
  <2> HIDE DEF k, r, w
  <2>6. FilesTypeOK'
    BY <1>0, <1>1, <2>1, <2>2, <2>3, <2>4 DEF FilesTypeOK
  <2>7. WebInHand'
    <3>1. result'[k] = r /\ staged'[k] = web.cmd
      BY <1>0, <2>1, <2>4 DEF FilesTypeOK
    <3>2. /\ web.at <= clock /\ web.at < ExpiresAt[web.cmd]
          /\ IssuedAt[web.cmd] <= web.at + MaxSkew
      BY <1>0, <2>1 DEF WebInHand
    <3> QED BY <1>1, <2>1, <2>2, <2>5, <3>1, <3>2 DEF WebInHand
  <2>8. TakenInTime'
    BY <1>0, <1>1, <2>1, <2>3, <2>4 DEF TakenInTime, InTime, FilesTypeOK
  <2>9. QueuedIsAccepted'
    <3>1. {queued[k], claimed[k]} \ {None} = {}
      BY <1>0, <2>4 DEF QueuedIsAccepted
    <3>2. /\ \A j \in Keys : j # k => result'[j] = result[j]
          /\ UNCHANGED <<queued, claimed>>
      BY <1>0, <1>1, <2>1 DEF FilesTypeOK
    <3>3. ASSUME NEW j \in Keys, NEW c \in {queued[j], claimed[j]} \ {None}
          PROVE  j # k /\ result'[j] = result[j]
      BY <3>1, <3>2, <3>3
    <3> QED BY <1>0, <3>2, <3>3 DEF QueuedIsAccepted
  <2> QED BY <1>0, <1>1, <1>3, <2>1, <2>6, <2>7, <2>8, <2>9 DEF Intake, CountTypeOK
<1>9. CASE SubmitPublish
  <2> DEFINE k == KeyOf[web.cmd]
  <2>1. /\ web # None /\ web.step = "publish" /\ web' = None
        /\ queued' = [queued EXCEPT ![k] = staged[k]]
        /\ staged' = [staged EXCEPT ![k] = None] /\ UNCHANGED <<result, crashes>>
    BY <1>9 DEF SubmitPublish
  <2>2. /\ k \in Keys /\ staged[k] = web.cmd /\ web.cmd \in Commands
        /\ result[k] = WebResult(web.cmd, "accepted", web.at)
    BY <1>0, <1>7, <2>1 DEF WebInHand
  <2>3. result[k] # None /\ result[k].cmd = web.cmd /\ result[k].status = "accepted"
    <3>1. WebResult(web.cmd, "accepted", web.at) \in Result
      BY <1>7, <2>1 DEF WebResult, Result, Statuses
    <3>2. result[k] # None
      BY <2>2, <3>1
    <3>3. result[k].cmd = web.cmd /\ result[k].status = "accepted"
      BY <2>2 DEF WebResult
    <3> QED BY <3>2, <3>3
  <2> HIDE DEF k
  <2>4. FilesTypeOK' /\ \A j \in Keys : queued[j] # None => queued'[j] # None
    BY <1>0, <1>1, <2>1, <2>2 DEF FilesTypeOK
  <2>5. WebInHand' /\ TakenInTime'
    BY <1>0, <1>1, <2>1 DEF WebInHand, TakenInTime, InTime
  <2>6. QueuedIsAccepted'
    <3>1. queued'[k] = web.cmd /\ \A j \in Keys : j # k => queued'[j] = queued[j]
      BY <1>0, <2>1, <2>2 DEF FilesTypeOK
    <3>2. UNCHANGED <<result, claimed>>
      BY <1>1, <2>1
    <3>3. ASSUME NEW j \in Keys, j # k, NEW c \in {queued'[j], claimed'[j]} \ {None}
          PROVE  result[j] # None /\ result[j].cmd = c
                 /\ (result[j].desk \/ result[j].status = "accepted")
      BY <1>0, <3>1, <3>2, <3>3 DEF QueuedIsAccepted
    <3>4. ASSUME NEW c \in {queued'[k], claimed'[k]} \ {None}
          PROVE  result[k] # None /\ result[k].cmd = c
                 /\ (result[k].desk \/ result[k].status = "accepted")
      BY <1>0, <2>2, <2>3, <3>1, <3>2, <3>4 DEF QueuedIsAccepted
    <3> QED BY <3>2, <3>3, <3>4 DEF QueuedIsAccepted
  <2> QED BY <1>0, <1>1, <1>3, <2>1, <2>4, <2>5, <2>6 DEF Intake, CountTypeOK
<1>10. CASE WebCrash
  <2>1. /\ web' = None /\ crashes < MaxCrashes /\ crashes' = crashes + 1
        /\ UNCHANGED <<staged, queued, result>>
    BY <1>10 DEF WebCrash
  <2>2. FilesTypeOK' /\ crashes' \in 0..MaxCrashes
    BY <1>0, <1>1, <2>1 DEF FilesTypeOK, CountTypeOK
  <2>3. Intake'
    BY <1>0, <1>1, <2>1 DEF Intake, WebInHand, TakenInTime, InTime, QueuedIsAccepted
  <2> QED BY <1>3, <2>1, <2>2, <2>3
<1> QED BY <1>4, <1>5, <1>6, <1>8, <1>9, <1>10 DEF Web

\* The owner answers nothing and does not touch what the web writes.
LEMMA OwnerStep ==
    ASSUME Base, UNCHANGED <<clock, webVars, result, foreign>>,
           FilesTypeOK', OwnerTypeOK', StopTypeOK', EntryTypeOK', ran' \in [Keys -> 0..2],
           crashes' \in 0..MaxCrashes, Course',
           \A k \in Keys : /\ queued'[k] \in {queued[k], None}
                           /\ claimed'[k] \in {claimed[k], queued[k], None}
    PROVE  Base'
<1>1. TypeOK'
  BY DEF Base, TypeOK, CountTypeOK
<1>2. Intake'
  BY FilesMove DEF Base, webVars
<1> QED BY <1>1, <1>2 DEF Base

\* A step between two points of one command.
LEMMA CommandStep ==
    ASSUME Base, UNCHANGED <<others, fileVars, mode, todo, taken, unwritten>>,
           phase \in Busy, phase' \in Busy, job' \in Job, job'.key = job.key,
           StopTypeOK', EntryTypeOK', ran' \in [Keys -> 0..2]
    PROVE  Base'
<1> USE DEF others, webVars, fileVars
<1>0. /\ FilesTypeOK /\ OwnerTypeOK /\ CountTypeOK /\ Course /\ job \in Job /\ job # None
      /\ job' # None
  BY DEF Base, TypeOK, Course, OwnerTypeOK
<1>1. FilesTypeOK'
  BY <1>0 DEF FilesTypeOK
<1>2. OwnerTypeOK'
  BY <1>0 DEF OwnerTypeOK, Busy, Phases
<1>3. Course'
  BY <1>0 DEF Course, Taker, Busy
<1>4. crashes' \in 0..MaxCrashes
  BY <1>0 DEF CountTypeOK
<1> QED BY <1>1, <1>2, <1>3, <1>4, OwnerStep

LEMMA RanFacts ==
    ASSUME Base, job # None, Ran
    PROVE  /\ ran' \in [Keys -> 0..2] /\ job.key \in Keys
           /\ ran'[job.key] = IF ran[job.key] = 0 THEN 1 ELSE 2
           /\ \A k \in Keys \ {job.key} : ran'[k] = ran[k]
<1>1. ran \in [Keys -> 0..2] /\ job.key \in Keys
  BY DEF Base, TypeOK, CountTypeOK, OwnerTypeOK, Job
<1> QED BY <1>1 DEF Ran

\* The command in hand: its claim holds what the web recorded.
LEMMA CommandFacts ==
    ASSUME Base, phase \in Busy
    PROVE  /\ job \in Job /\ job # None /\ job.key \in Keys
           /\ Command \in Commands /\ Command # None
           /\ result[job.key] \in Result /\ result[job.key] # None
           /\ result[job.key].cmd = Command
           /\ Desk(job.key) \/ result[job.key].status = "accepted"
           /\ IssuedAt[Command] \in Nat /\ IssuedAt[Command] > 0
           /\ Kind[Command] \in FileKinds \cup EntryKinds
<1>1. job \in Job /\ job # None /\ claimed[job.key] # None
  BY DEF Base, TypeOK, OwnerTypeOK, Course
<1>2. job.key \in Keys
  BY <1>1 DEF Job
<1>3. claimed[job.key] \in Commands
  BY <1>1, <1>2 DEF Base, TypeOK, FilesTypeOK
<1>4. /\ result[job.key] # None /\ result[job.key].cmd = claimed[job.key]
      /\ result[job.key].desk \/ result[job.key].status = "accepted"
  BY <1>1, <1>2 DEF Base, Intake, QueuedIsAccepted
<1>5. result[job.key] \in Result
  BY <1>2, <1>4 DEF Base, TypeOK, FilesTypeOK
<1>6. IssuedAt[claimed[job.key]] \in Nat \ {0}
  BY <1>3
<1> QED BY <1>1, <1>2, <1>3, <1>4, <1>5, <1>6 DEF Command, Desk, AnsweredByDesk

\* A flow leaves its claim in hand, and the stop files alone.
LEMMA FlowFacts ==
    ASSUME Base, Flow
    PROVE  /\ phase \in {"apply", "permit"} /\ phase' \in {"permit", "answer"}
           /\ UNCHANGED <<others, stopVars, fileVars, mode, todo, taken, unwritten>>
           /\ job' = job \/ \E o \in Answers : job' = [job EXCEPT !.out = o]
           /\ ran' = ran \/ Ran
           /\ EntryTypeOK'
<1>1. /\ phase \in {"apply", "permit"} /\ phase' \in {"permit", "answer"}
      /\ UNCHANGED <<others, stopVars, fileVars, mode, todo, taken, unwritten>>
      /\ ran' = ran \/ Ran
  BY DEF Flow, FlowRefused, FlowFails, PlaceFile, RejectEntry, Reject, ApproveAgain, IssuePermit,
         PermitRefused, SendEntry, Send, Answering, outside
<1>2. \A status \in {"applied", "refused", "failed"} :
         Reply(status) \in Answers /\ Sent(status) \in Answers
  BY ReplyFacts
<1>3. job' = job \/ \E o \in Answers : job' = [job EXCEPT !.out = o]
  BY <1>2 DEF Flow, FlowRefused, FlowFails, PlaceFile, RejectEntry, ApproveAgain, IssuePermit,
         PermitRefused, SendEntry, Answering
<1>4. Proposal \in Proposals /\ IntentOf[Proposal] \in Intents
  BY <1>1, CommandFacts DEF Proposal, Busy
<1>5. EntryTypeOK /\ (UNCHANGED entryVars => EntryTypeOK')
  BY DEF Base, TypeOK, EntryTypeOK, entryVars
<1>6. EntryTypeOK'
  <2>1. CASE FlowRefused \/ FlowFails \/ PlaceFile \/ ApproveAgain \/ PermitRefused
    BY <1>5, <2>1 DEF FlowRefused, FlowFails, PlaceFile, ApproveAgain, PermitRefused, outside
  <2>2. CASE RejectEntry
    BY <1>4, <1>5, <2>2 DEF RejectEntry, Reject, EntryTypeOK
  <2>3. CASE IssuePermit
    BY <1>4, <1>5, <2>3 DEF IssuePermit, EntryTypeOK
  <2>4. CASE SendEntry
    BY <1>4, <1>5, <2>4 DEF SendEntry, Send, EntryTypeOK
  <2> QED BY <2>1, <2>2, <2>3, <2>4 DEF Flow
<1> QED BY <1>1, <1>3, <1>6

\* The steps of one command that leave its claim in hand.
LEMMA BaseCommand ==
    ASSUME Base,
           \/ Validate \/ RecoverAnswered \/ RecoverInterrupted
           \/ PlaceStop \/ ResumeAll \/ LiftStop \/ LiftPause \/ Audit \/ AuditFails
           \/ ApplyFails \/ Flow
    PROVE  Base'
<1>0. /\ StopTypeOK /\ EntryTypeOK /\ ran \in [Keys -> 0..2]
      /\ \A status \in {"applied", "refused", "failed"} : Reply(status) \in Answers
  BY ReplyFacts DEF Base, TypeOK, CountTypeOK
<1>1. /\ phase \in Busy /\ phase' \in Busy
      /\ UNCHANGED <<others, fileVars, mode, todo, taken, unwritten>>
  BY FlowFacts DEF Validate, RecoverAnswered, RecoverInterrupted, PlaceStop, ResumeAll, LiftStop,
         LiftPause, Audit, AuditFails, ApplyFails, Busy, outside
<1>2. /\ job \in Job /\ job # None /\ IssuedAt[Command] \in Nat
  BY <1>1, CommandFacts
<1>3. job' \in Job /\ job'.key = job.key
  <2>1. CASE job' = job
    BY <1>2, <2>1
  <2>2. CASE \E o \in Answers : job' = [job EXCEPT !.out = o]
    BY <1>2, <2>2, OutFacts
  <2>3. CASE ResumeAll
    BY <1>2, <2>3, LiftFacts DEF ResumeAll, StopFiles
  <2>4. CASE LiftStop
    <3>1. PICK f \in job.lift : job' = [job EXCEPT !.lift = @ \ {f}]
      BY <2>4 DEF LiftStop
    <3>2. job.lift \ {f} \in SUBSET StopFiles /\ job' = [job EXCEPT !.lift = job.lift \ {f}]
      BY <1>2, <3>1 DEF Job
    <3> QED BY <1>2, <3>2, LiftFacts
  <2>5. CASE LiftPause /\ job' # job
    <3>1. /\ stop["PAUSE_ENTRIES"] \in Nat \cup {Absent}
          /\ backing["PAUSE_ENTRIES"] \in SUBSET Keys
      BY <1>0 DEF StopTypeOK, StopFiles
    <3>2. job' = [job EXCEPT !.saved = stop["PAUSE_ENTRIES"],
                             !.backed = backing["PAUSE_ENTRIES"]]
      BY <2>5 DEF LiftPause
    <3> QED BY <1>2, <3>1, <3>2, SavedFacts
  <2> QED BY <1>0, <2>1, <2>2, <2>3, <2>4, <2>5, FlowFacts
         DEF Validate, RecoverAnswered, RecoverInterrupted, PlaceStop, Audit, AuditFails, ApplyFails
<1>4. ran' \in [Keys -> 0..2]
  <2>1. ran' = ran \/ Ran
    BY FlowFacts DEF Validate, RecoverAnswered, RecoverInterrupted, PlaceStop, ResumeAll,
           LiftStop, LiftPause, Audit, AuditFails, ApplyFails
  <2> QED BY <1>0, <1>2, <2>1, RanFacts
<1>5. StopTypeOK'
  <2>1. CASE UNCHANGED stopVars
    BY <1>0, <2>1 DEF StopTypeOK, stopVars
  <2>2. CASE PlaceStop
    <3> DEFINE f == FileOf(Kind[Command])
    <3>1. f \in StopFiles
      BY DEF FileOf, StopFiles
    <3>2. job.key \in Keys
      BY <1>1, CommandFacts
    <3>3. /\ stop' = [stop EXCEPT ![f] = Larger(@, IssuedAt[Command])]
          /\ backing' = [backing EXCEPT ![f] = @ \cup {job.key}] /\ unaudited' = unaudited
      BY <2>2 DEF PlaceStop
    <3> HIDE DEF f
    <3> QED BY <1>0, <1>2, <3>1, <3>2, <3>3 DEF Larger, StopTypeOK
  <2>3. CASE LiftStop
    <3>1. PICK f \in job.lift : Unlink(f)
      BY <2>3 DEF LiftStop
    <3>2. unaudited' = unaudited
      BY <2>3 DEF LiftStop
    <3>3. f \in StopFiles
      BY <1>2, <3>1 DEF Job
    <3> QED BY <1>0, <3>1, <3>2, <3>3 DEF Unlink, StopTypeOK
  <2>4. CASE LiftPause
    <3>1. UNCHANGED stopVars \/ (Unlink("PAUSE_ENTRIES") /\ unaudited' = TRUE)
      BY <2>4 DEF LiftPause, stopVars
    <3>2. "PAUSE_ENTRIES" \in StopFiles
      BY DEF StopFiles
    <3> QED BY <1>0, <2>1, <3>1, <3>2 DEF Unlink, StopTypeOK
  <2>5. CASE Audit
    BY <1>0, <2>5 DEF Audit, StopTypeOK
  <2>6. CASE AuditFails
    <3>1. \/ UNCHANGED stopVars
          \/ /\ stop' = [stop EXCEPT !["PAUSE_ENTRIES"] = job.saved]
             /\ backing' = [backing EXCEPT !["PAUSE_ENTRIES"] = job.backed]
             /\ unaudited' = FALSE
      BY <2>6 DEF AuditFails
    <3>2. "PAUSE_ENTRIES" \in StopFiles
      BY DEF StopFiles
    <3>3. job.saved \in Nat \cup {Absent} /\ job.backed \in SUBSET Keys
      BY <1>2 DEF Job
    <3> QED BY <1>0, <2>1, <3>1, <3>2, <3>3 DEF StopTypeOK
  <2> QED BY <2>1, <2>2, <2>3, <2>4, <2>5, <2>6, FlowFacts
         DEF Validate, RecoverAnswered, RecoverInterrupted, ResumeAll, ApplyFails
<1>6. EntryTypeOK'
  <2>1. CASE Flow
    BY <2>1, FlowFacts
  <2>2. CASE UNCHANGED entryVars
    BY <1>0, <2>2 DEF EntryTypeOK, entryVars
  <2> QED BY <2>1, <2>2 DEF Validate, RecoverAnswered, RecoverInterrupted, PlaceStop, ResumeAll,
         LiftStop, LiftPause, Audit, AuditFails, ApplyFails, outside
<1> QED BY <1>1, <1>3, <1>4, <1>5, <1>6, CommandStep

\* A process comes and goes; a pass lists, claims and ends.
LEMMA BasePass ==
    ASSUME Base,
           \/ Boot \/ List \/ EndPass \/ Connect \/ GatewayLost \/ Leave \/ Crash
           \/ SessionLost \/ AlreadyAnswered \/ AnswerFails \/ Archive
           \/ \E k \in Keys : Claim(k) \/ ClaimFails(k) \/ SetAside(k) \/ RecoverTake(k)
    PROVE  Base'
<1> USE DEF outside, others, entryVars, webVars, stopVars, fileVars
<1>0. /\ TypeOK /\ FilesTypeOK /\ OwnerTypeOK /\ StopTypeOK /\ CountTypeOK /\ Course
      /\ EntryTypeOK
      /\ Modes = {"down", "boot", "recover", "start", "loop", "exit"}
      /\ Phases = {"down", "top", "next", "validate", "apply", "permit", "lift", "audit",
                   "answer", "archive"}
      /\ Busy = {"validate", "apply", "permit", "lift", "audit", "answer", "archive"}
  BY DEF Base, TypeOK, Modes, Phases, Busy
<1>1. UNCHANGED <<clock, webVars, stopVars, result, foreign>>
  BY DEF Boot, List, EndPass, Connect, GatewayLost, Leave, Crash, Down, SessionLost,
         AlreadyAnswered, AnswerFails, Archive, Claim, ClaimFails, SetAside, RecoverTake
<1>2. StopTypeOK' /\ EntryTypeOK'
  <2>1. UNCHANGED entryVars \/ (SessionLost /\ phase \in Busy)
    BY <1>0 DEF Boot, List, EndPass, Connect, GatewayLost, Leave, Crash, Down, SessionLost,
         AlreadyAnswered, AnswerFails, Archive, Claim, ClaimFails, SetAside, RecoverTake
  <2>2. ASSUME SessionLost, phase \in Busy PROVE EntryTypeOK'
    <3>1. Proposal \in Proposals /\ IntentOf[Proposal] \in Intents
      BY <2>2, CommandFacts DEF Proposal
    <3> QED BY <1>0, <2>2, <3>1 DEF SessionLost, Reject, Send, EntryTypeOK
  <2>3. UNCHANGED entryVars => EntryTypeOK'
    BY <1>0 DEF EntryTypeOK
  <2> QED BY <1>0, <1>1, <2>1, <2>2, <2>3 DEF StopTypeOK
<1>3. ran' \in [Keys -> 0..2]
  <2>1. ran' = ran \/ (Ran /\ phase \in Busy)
    BY <1>0 DEF Boot, List, EndPass, Connect, GatewayLost, Leave, Crash, Down, SessionLost, Reject,
         Send, AlreadyAnswered, AnswerFails, Archive, Claim, ClaimFails, SetAside, RecoverTake
  <2>2. phase \in Busy => job # None
    BY <1>0 DEF Course
  <2> QED BY <1>0, <2>1, <2>2, RanFacts DEF CountTypeOK
<1>4. crashes' \in 0..MaxCrashes
  <2>1. crashes' = crashes \/ (crashes < MaxCrashes /\ crashes' = crashes + 1)
    BY DEF Boot, List, EndPass, Connect, GatewayLost, Leave, Crash, Down, SessionLost,
         AlreadyAnswered, AnswerFails, Archive, Claim, ClaimFails, SetAside, RecoverTake
  <2> QED BY <1>0, <2>1 DEF CountTypeOK
<1> DEFINE Moves ==
      \A k \in Keys : /\ queued'[k] \in {queued[k], None}
                      /\ claimed'[k] \in {claimed[k], queued[k], None}
<1>5. ASSUME FilesTypeOK', OwnerTypeOK', Course', Moves PROVE Base'
  BY <1>1, <1>2, <1>3, <1>4, <1>5, OwnerStep
<1>6. ASSUME UNCHANGED fileVars PROVE FilesTypeOK' /\ Moves
  BY <1>0, <1>1, <1>6 DEF FilesTypeOK
<1>7. phase \in Busy => job \in Job /\ job # None /\ job.key \in Keys /\ mode # "down"
  BY <1>0, CommandFacts DEF Course
<1>8. CASE Boot
  <2>1. UNCHANGED fileVars /\ OwnerTypeOK'
    BY <1>0, <1>8 DEF Boot, OwnerTypeOK
  <2>2. Course'
    BY <1>0, <1>8 DEF Boot, Course, Taker, OwnerTypeOK
  <2> QED BY <1>5, <1>6, <2>1, <2>2
<1>9. CASE List
  <2>1. UNCHANGED fileVars /\ OwnerTypeOK'
    BY <1>0, <1>9 DEF List, Listed, OwnerTypeOK
  <2>2. Course'
    BY <1>0, <1>9 DEF List, Listed, Course, Taker, OwnerTypeOK
  <2> QED BY <1>5, <1>6, <2>1, <2>2
<1>10. CASE EndPass
  <2>1. UNCHANGED fileVars /\ OwnerTypeOK'
    BY <1>0, <1>10 DEF EndPass, OwnerTypeOK
  <2>2. Course'
    BY <1>0, <1>10 DEF EndPass, PassOver, Course, Taker, OwnerTypeOK
  <2> QED BY <1>5, <1>6, <2>1, <2>2
<1>11. CASE Connect
  <2>1. UNCHANGED fileVars /\ OwnerTypeOK'
    BY <1>0, <1>11 DEF Connect, OwnerTypeOK
  <2>2. Course'
    BY <1>0, <1>11 DEF Connect, PassOver, Course, Taker, OwnerTypeOK
  <2> QED BY <1>5, <1>6, <2>1, <2>2
<1>12. CASE GatewayLost
  <2>1. UNCHANGED fileVars /\ OwnerTypeOK'
    BY <1>0, <1>12 DEF GatewayLost, OwnerTypeOK
  <2>2. Course'
    BY <1>0, <1>12 DEF GatewayLost, Course, Taker, OwnerTypeOK
  <2> QED BY <1>5, <1>6, <2>1, <2>2
<1>13. CASE Leave \/ Crash
  <2>1. UNCHANGED fileVars /\ OwnerTypeOK'
    BY <1>0, <1>13 DEF Leave, Crash, Down, OwnerTypeOK
  <2>2. Course'
    BY <1>0, <1>13 DEF Leave, Crash, Down, Course, Taker, OwnerTypeOK
  <2> QED BY <1>5, <1>6, <2>1, <2>2
<1>14. CASE SessionLost
  <2>1. UNCHANGED fileVars /\ OwnerTypeOK'
    BY <1>0, <1>14 DEF SessionLost, OwnerTypeOK
  <2>2. Course'
    BY <1>0, <1>14 DEF SessionLost, Course, Taker, OwnerTypeOK
  <2> QED BY <1>5, <1>6, <2>1, <2>2
<1>15. CASE AnswerFails
  <2>1. job.key \in Keys /\ job # None /\ job.out \in Answers /\ claimed[job.key] # None
    BY <1>0, <1>7, <1>15 DEF AnswerFails, Course, Job
  <2>2. UNCHANGED fileVars /\ OwnerTypeOK'
    BY <1>0, <1>15, <2>1 DEF AnswerFails, OwnerTypeOK
  <2>3. Course'
    BY <1>0, <1>15, <2>1 DEF AnswerFails, Course, Taker, OwnerTypeOK
  <2> QED BY <1>5, <1>6, <2>2, <2>3
<1>16. CASE AlreadyAnswered
  <2>1. job.key \in Keys /\ job # None
    BY <1>0, <1>7, <1>16 DEF AlreadyAnswered
  <2>2. FilesTypeOK' /\ Moves
    BY <1>0, <1>1, <1>16, <2>1 DEF AlreadyAnswered, FilesTypeOK
  <2>3. OwnerTypeOK'
    BY <1>0, <1>16 DEF AlreadyAnswered, OwnerTypeOK
  <2>4. Course'
    BY <1>0, <1>16, <2>1 DEF AlreadyAnswered, Course, Taker, OwnerTypeOK, FilesTypeOK
  <2> QED BY <1>5, <2>2, <2>3, <2>4
<1>17. CASE Archive
  <2>1. job.key \in Keys /\ job # None
    BY <1>0, <1>7, <1>17 DEF Archive
  <2>2. FilesTypeOK' /\ Moves
    BY <1>0, <1>1, <1>17, <2>1 DEF Archive, Archived, FilesTypeOK
  <2>3. OwnerTypeOK'
    BY <1>0, <1>17 DEF Archive, OwnerTypeOK
  <2>4. Course'
    BY <1>0, <1>17, <2>1 DEF Archive, Archived, Course, Taker, OwnerTypeOK, FilesTypeOK
  <2> QED BY <1>5, <2>2, <2>3, <2>4
<1>18. ASSUME NEW k \in Keys, Turn(k), Taken(k) PROVE taken' \in 0..MaxPerPass
  BY <1>0, <1>18 DEF Turn, Taken, OwnerTypeOK
<1>19. ASSUME NEW k \in Keys, Claim(k) PROVE Base'
  <2>1. /\ k \in todo /\ phase = "next" /\ mode # "recover" /\ claimed[k] = None
        /\ claimed' = [claimed EXCEPT ![k] = queued[k]] /\ queued' = [queued EXCEPT ![k] = None]
        /\ todo' = todo \ {k} /\ job' = NewJob(k) /\ phase' = "validate"
        /\ UNCHANGED <<mode, unwritten, archived>> /\ Turn(k) /\ Taken(k)
    BY <1>19 DEF Claim, Turn
  <2>2. job' \in Job /\ job' # None /\ job'.key = k /\ job = None /\ queued[k] # None
    BY <1>0, <2>1, NewJobFacts DEF Course
  <2>3. FilesTypeOK' /\ Moves
    BY <1>0, <1>1, <2>1 DEF FilesTypeOK
  <2>4. OwnerTypeOK'
    BY <1>0, <1>18, <2>1, <2>2 DEF OwnerTypeOK
  <2>5. Course'
    BY <1>0, <2>1, <2>2 DEF Course, Taker, OwnerTypeOK, FilesTypeOK
  <2> QED BY <1>5, <2>3, <2>4, <2>5
<1>20. ASSUME NEW k \in Keys, ClaimFails(k) PROVE Base'
  <2>1. UNCHANGED fileVars /\ OwnerTypeOK'
    BY <1>0, <1>18, <1>20 DEF ClaimFails, OwnerTypeOK
  <2>2. Course'
    BY <1>0, <1>20 DEF ClaimFails, Course, Taker, OwnerTypeOK
  <2> QED BY <1>5, <1>6, <2>1, <2>2
<1>21. ASSUME NEW k \in Keys, SetAside(k) PROVE Base'
  <2>1. /\ mode # "recover" /\ queued' = [queued EXCEPT ![k] = None] /\ todo' = todo \ {k}
        /\ UNCHANGED <<mode, phase, job, unwritten, claimed, archived>> /\ Turn(k) /\ Taken(k)
    BY <1>21 DEF SetAside, Turn
  <2>2. FilesTypeOK' /\ Moves
    BY <1>0, <1>1, <2>1 DEF FilesTypeOK
  <2>3. OwnerTypeOK'
    BY <1>0, <1>18, <2>1 DEF OwnerTypeOK
  <2>4. Course'
    BY <1>0, <2>1 DEF Course, Taker, OwnerTypeOK, FilesTypeOK
  <2> QED BY <1>5, <2>2, <2>3, <2>4
<1>22. ASSUME NEW k \in Keys, RecoverTake(k) PROVE Base'
  <2>1. /\ k \in todo /\ phase = "next" /\ mode = "recover"
        /\ todo' = todo \ {k} /\ job' = NewJob(k) /\ phase' = "validate"
        /\ UNCHANGED <<mode, taken, unwritten>> /\ UNCHANGED fileVars
    BY <1>22 DEF RecoverTake
  <2>2. job' \in Job /\ job' # None /\ job'.key = k /\ job = None /\ claimed[k] # None
    BY <1>0, <2>1, NewJobFacts DEF Course
  <2>3. OwnerTypeOK'
    BY <1>0, <2>1, <2>2 DEF OwnerTypeOK
  <2>4. Course'
    BY <1>0, <2>1, <2>2 DEF Course, Taker, OwnerTypeOK
  <2> QED BY <1>5, <1>6, <2>1, <2>3, <2>4
<1> QED BY <1>8, <1>9, <1>10, <1>11, <1>12, <1>13, <1>14, <1>15, <1>16, <1>17, <1>19,
           <1>20, <1>21, <1>22

\* The desk writes an answer: the web has no submission in hand.
LEMMA AnswerIntake ==
    ASSUME Base, NEW k \in Keys, NEW o \in Answers, claimed[k] # None, Write(k, o),
           UNCHANGED <<clock, staged, web, queued>>,
           \A j \in Keys : claimed'[j] \in {claimed[j], None}
    PROVE  Intake' /\ result' \in [Keys -> Result \cup {None}]
<1>0. /\ TypeOK /\ FilesTypeOK /\ TakenInTime /\ QueuedIsAccepted /\ result[k] # None
      /\ \A j \in Keys : result[j] # None => result[j] \in Result
  <2>1. TypeOK /\ FilesTypeOK /\ TakenInTime /\ QueuedIsAccepted
    BY DEF Base, TypeOK, Intake
  <2>2. result[k] # None
    BY <2>1 DEF QueuedIsAccepted
  <2>3. \A j \in Keys : result[j] # None => result[j] \in Result
    BY <2>1 DEF FilesTypeOK
  <2> QED BY <2>1, <2>2, <2>3
<1>1. /\ result' \in [Keys -> Result \cup {None}] /\ result'[k] # None
      /\ result'[k].cmd = result[k].cmd /\ result'[k].at = result[k].at
      /\ result'[k].status = o.status /\ result'[k].sent = o.sent /\ result'[k].desk = TRUE
      /\ \A j \in Keys \ {k} : result'[j] = result[j]
      /\ web = None
  BY <1>0, WriteFacts
<1>2. WebInHand'
  BY <1>1 DEF WebInHand
<1>3. result[k].desk \/ result[k].status = "accepted"
  BY <1>0 DEF QueuedIsAccepted
<1>4. TakenInTime'
  <2> SUFFICES ASSUME NEW j \in Keys, result'[j] # None PROVE InTime(result[j])'
    BY DEF TakenInTime
  <2>1. CASE j = k
    BY <1>0, <1>1, <1>3, <2>1 DEF TakenInTime, InTime
  <2>2. CASE j # k
    BY <1>0, <1>1, <2>2 DEF TakenInTime, InTime
  <2> QED BY <2>1, <2>2
<1>5. QueuedIsAccepted'
  <2> SUFFICES ASSUME NEW j \in Keys, NEW d \in {queued[j], claimed'[j]} \ {None}
               PROVE  /\ result'[j] # None /\ result'[j].cmd = d
                      /\ result'[j].desk \/ result'[j].status = "accepted"
    BY DEF QueuedIsAccepted
  <2>1. d \in {queued[j], claimed[j]} \ {None}
    OBVIOUS
  <2>2. /\ result[j] # None /\ result[j].cmd = d
        /\ result[j].desk \/ result[j].status = "accepted"
    BY <1>0, <2>1 DEF QueuedIsAccepted
  <2> QED BY <1>1, <2>2
<1> QED BY <1>1, <1>2, <1>4, <1>5 DEF Intake

LEMMA BaseAnswer ==
    ASSUME Base, Answer \/ \E k \in Keys : WriteUnwritten(k)
    PROVE  Base'
<1> USE DEF outside, others, entryVars, webVars, stopVars
<1>0. /\ TypeOK /\ FilesTypeOK /\ OwnerTypeOK /\ StopTypeOK /\ CountTypeOK /\ Course
      /\ EntryTypeOK
      /\ UNCHANGED <<clock, staged, web, queued, stopVars, entryVars, ran, crashes, foreign>>
  BY DEF Base, TypeOK, Answer, WriteUnwritten
<1>1. StopTypeOK' /\ EntryTypeOK' /\ CountTypeOK'
  BY <1>0 DEF StopTypeOK, EntryTypeOK, CountTypeOK
<1>2. CASE Answer
  <2>0. phase \in Busy
    BY <1>2 DEF Answer, Busy
  <2>1. /\ job \in Job /\ job.key \in Keys /\ job.out \in Answers /\ job # None
        /\ claimed[job.key] # None /\ mode # "down"
    BY <1>0, <1>2, <2>0, CommandFacts DEF Answer, Job, Course
  <2>2. Intake' /\ result' \in [Keys -> Result \cup {None}]
    BY <1>0, <1>2, <2>1, AnswerIntake DEF Answer
  <2>3. FilesTypeOK'
    BY <1>0, <1>2, <2>2 DEF Answer, FilesTypeOK, webVars
  <2>4. OwnerTypeOK'
    BY <1>0, <1>2 DEF Answer, OwnerTypeOK, Phases
  <2>5. Course'
    BY <1>0, <1>2, <2>1 DEF Answer, Course, Taker, Busy
  <2> QED BY <1>1, <2>2, <2>3, <2>4, <2>5 DEF Base, TypeOK
<1>3. ASSUME NEW k \in Keys, WriteUnwritten(k) PROVE Base'
  <2>1. /\ phase = "top" /\ unwritten[k] \in Answers /\ claimed[k] # None
        /\ unwritten' = [unwritten EXCEPT ![k] = None] /\ Write(k, unwritten[k])
        /\ UNCHANGED <<mode, phase, todo, taken, job, queued>>
        /\ Archived(k) \/ UNCHANGED <<claimed, archived>>
    BY <1>0, <1>3 DEF WriteUnwritten, OwnerTypeOK, Course
  <2>2. /\ claimed' \in [Keys -> Commands \cup {None}] /\ archived' \subseteq Keys
        /\ \A j \in Keys \ {k} : claimed'[j] = claimed[j]
        /\ claimed'[k] \in {claimed[k], None}
    BY <1>0, <2>1 DEF Archived, FilesTypeOK
  <2>3. Intake' /\ result' \in [Keys -> Result \cup {None}]
    BY <1>0, <2>1, <2>2, AnswerIntake
  <2>4. FilesTypeOK'
    BY <1>0, <2>2, <2>3 DEF FilesTypeOK
  <2>5. OwnerTypeOK'
    BY <1>0, <2>1 DEF OwnerTypeOK
  <2>6. Course'
    <3>1. job = None /\ mode # "recover"
      BY <1>0, <2>1 DEF Course, Busy
    <3> QED BY <1>0, <2>1, <2>2, <3>1 DEF Course, Taker, OwnerTypeOK
  <2> QED BY <1>1, <2>3, <2>4, <2>5, <2>6 DEF Base, TypeOK
<1> QED BY <1>2, <1>3

LEMMA BaseEnvironment == ASSUME Base, Environment PROVE Base'
<1> USE DEF webVars, stopVars, ownerVars, fileVars, entryVars
<1>0. /\ FilesTypeOK /\ OwnerTypeOK /\ StopTypeOK /\ EntryTypeOK /\ CountTypeOK /\ Course
      /\ WebInHand /\ TakenInTime /\ QueuedIsAccepted
  BY DEF Base, TypeOK, Intake
<1>1. UNCHANGED <<webVars, ownerVars, entryVars, claimed, result, ran, crashes>>
  BY DEF Environment, Advance, TouchStop, CopyBack, PruneArchive, Others
<1>2. OwnerTypeOK' /\ EntryTypeOK'
  BY <1>0, <1>1 DEF OwnerTypeOK, EntryTypeOK
<1>3. CASE Advance
  <2>1. clock' \in 1..MaxClock /\ clock <= clock' /\ UNCHANGED <<stopVars, fileVars, foreign>>
        /\ clock \in Nat
    BY <1>0, <1>3 DEF Advance, CountTypeOK
  <2>2. FilesTypeOK' /\ StopTypeOK' /\ CountTypeOK' /\ Course'
    BY <1>0, <1>1, <2>1 DEF FilesTypeOK, StopTypeOK, CountTypeOK, Course, Taker
  <2>3. WebInHand'
    BY <1>0, <1>1, <2>1 DEF WebInHand, FilesTypeOK, Submission
  <2>4. TakenInTime'
    BY <1>0, <1>1, <2>1 DEF TakenInTime, InTime, FilesTypeOK, Result
  <2>5. QueuedIsAccepted'
    BY <1>0, <1>1, <2>1 DEF QueuedIsAccepted
  <2> QED BY <1>2, <2>2, <2>3, <2>4, <2>5 DEF Base, TypeOK, Intake
<1>4. ASSUME FilesTypeOK', StopTypeOK', foreign < MaxForeign, foreign' = foreign + 1, clock' = clock,
             QueuedIsAccepted', \A k \in Keys : queued[k] # None => queued'[k] # None
      PROVE  Base'
  <2>1. CountTypeOK'
    BY <1>0, <1>1, <1>4 DEF CountTypeOK
  <2>2. Course'
    BY <1>0, <1>1, <1>4 DEF Course, Taker, OwnerTypeOK
  <2>3. WebInHand' /\ TakenInTime'
    BY <1>0, <1>1, <1>4 DEF WebInHand, TakenInTime, InTime
  <2> QED BY <1>2, <1>4, <2>1, <2>2, <2>3 DEF Base, TypeOK, Intake
<1>5. ASSUME NEW f \in StopFiles, TouchStop(f) PROVE Base'
  <2>1. /\ foreign < MaxForeign /\ foreign' = foreign + 1 /\ clock' = clock
        /\ UNCHANGED <<backing, unaudited, fileVars>> /\ stop' = [stop EXCEPT ![f] = Unstamped]
    BY <1>5 DEF TouchStop, Others
  <2>2. FilesTypeOK' /\ StopTypeOK' /\ QueuedIsAccepted'
    BY <1>0, <1>1, <2>1 DEF FilesTypeOK, StopTypeOK, QueuedIsAccepted, Unstamped
  <2> QED BY <1>1, <1>4, <2>1, <2>2
<1>6. ASSUME NEW k \in Keys, CopyBack(k) PROVE Base'
  <2>1. /\ foreign < MaxForeign /\ foreign' = foreign + 1 /\ clock' = clock /\ queued[k] = None
        /\ UNCHANGED <<stopVars, claimed, archived>>
        /\ queued' = [queued EXCEPT ![k] = result[k].cmd]
        /\ claimed[k] # None \/ AnsweredByDesk(result[k])
    BY <1>6 DEF CopyBack, Others
  <2>2. /\ result[k] # None /\ result[k].cmd \in Commands
        /\ result[k].desk \/ result[k].status = "accepted"
    <3>1. result[k] # None /\ (result[k].desk \/ result[k].status = "accepted")
      BY <1>0, <2>1 DEF QueuedIsAccepted, AnsweredByDesk
    <3>2. result[k] \in Result
      BY <1>0, <3>1 DEF FilesTypeOK
    <3> QED BY <3>1, <3>2 DEF Result
  <2>3. FilesTypeOK' /\ StopTypeOK' /\ \A j \in Keys : queued[j] # None => queued'[j] # None
    <3>1. FilesTypeOK' /\ \A j \in Keys : queued[j] # None => queued'[j] # None
      BY <1>0, <1>1, <2>1, <2>2 DEF FilesTypeOK
    <3> QED BY <1>0, <1>1, <2>1, <3>1 DEF StopTypeOK
  <2>4. QueuedIsAccepted'
    <3> SUFFICES ASSUME NEW j \in Keys, NEW d \in {queued'[j], claimed'[j]} \ {None}
                 PROVE  /\ result[j] # None /\ result[j].cmd = d
                        /\ result[j].desk \/ result[j].status = "accepted"
      BY <1>1 DEF QueuedIsAccepted
    <3>1. d \in {queued[j], claimed[j]} \/ (j = k /\ d = result[k].cmd)
      BY <1>0, <1>1, <2>1 DEF FilesTypeOK
    <3> QED BY <1>0, <2>2, <3>1 DEF QueuedIsAccepted
  <2> QED BY <1>1, <1>4, <2>1, <2>3, <2>4
<1>7. ASSUME NEW k \in Keys, PruneArchive(k) PROVE Base'
  <2>1. /\ foreign < MaxForeign /\ foreign' = foreign + 1 /\ clock' = clock
        /\ UNCHANGED <<stopVars, queued, claimed>> /\ archived' = archived \ {k}
    BY <1>7 DEF PruneArchive, Others
  <2>2. FilesTypeOK' /\ StopTypeOK' /\ QueuedIsAccepted'
    BY <1>0, <1>1, <2>1 DEF FilesTypeOK, StopTypeOK, QueuedIsAccepted
  <2> QED BY <1>1, <1>4, <2>1, <2>2
<1> QED BY <1>3, <1>5, <1>6, <1>7 DEF Environment

LEMMA NextBase == Base /\ [Next]_vars => Base'
<1> SUFFICES ASSUME Base, [Next]_vars PROVE Base'
  OBVIOUS
<1>1. CASE UNCHANGED vars
  BY <1>1 DEF vars, webVars, stopVars, ownerVars, fileVars, entryVars, Base, TypeOK,
     FilesTypeOK, OwnerTypeOK, StopTypeOK, EntryTypeOK, CountTypeOK, Course, Taker, Intake, WebInHand, TakenInTime, InTime,
     QueuedIsAccepted
<1>2. CASE Owner
  BY <1>2, BasePass, BaseCommand, BaseAnswer DEF Owner
<1> QED BY <1>1, <1>2, BaseWeb, BaseEnvironment DEF Next

\* Every variable has its type in every reachable state.
THEOREM QueueTyped == Spec => []TypeOK
<1>1. Base => TypeOK
  BY DEF Base
<1> QED BY InitBase, NextBase, <1>1, PTL DEF Spec

\* What is queued or claimed under a key is the command the web recorded.
THEOREM OnlyAccepted == Spec => []QueuedIsAccepted
<1>1. Base => QueuedIsAccepted
  BY DEF Base, Intake
<1> QED BY InitBase, NextBase, <1>1, PTL DEF Spec
=============================================================================
