# TLA+ development for tree_options

`tree_options` is a point-in-time options research system with a paper
execution desk ("trex"). This directory specifies the parts of it where files,
processes and a broker have to agree: which authority an order leaves under,
what a crash leaves behind, what happens to a kill switch on its way from the
web to the desk, who closes a position and how often, who may launch a run, and
what a research worker owes when it dies. Paths below are relative to `src/src/tree_options/`.

## 1. The system

| part | state | operations | interacts with | what is hard |
|---|---|---|---|---|
| supervised authority (`trex/supervised.py`, `trex/contracts/mandates.py`) | `mandate.json`, `mandates/`, `permits/`, `HALT`, `.lock` | `grant_mandate`, `revoke_mandate`, `halt_effects`, `grant_entry_mandate`, `retire_entry_mandate`, `invalidate_entry_mandates`, `issue_permit` | outbox, desk owner, command line, profiles edited by hand | two kinds of authority for one intent, crashes between two writes, restarts |
| supervised outbox (`trex/supervised.py`) | `outbox/*.{pending,sending,terminal,reconciled}.json`, `journal/*.jsonl` | `record_intent`, `send`, `recover`, `reconcile_intent` | broker (`supervised_ibkr.py`), authority, exit owner | a claim and a broker call that cannot be atomic, stale `now`, orders that surface late |
| command store (`trex_web/command_store.py`) | `commands/.<key>.json.staged`, `<key>.json`, `<key>.result.json`, `commands/.lock` | `submit`, `read_result` | desk queue through the directory | three durable steps, retried submissions |
| desk command queue (`trex/desk_commands.py`, `trex/pause.py`) | claims, `done/`, answers, refused answers in memory, `HALT`, `FLATTEN`, `PAUSE_ENTRIES`, `pause-entries.jsonl` | `process`, `recover_interrupted`, `pause`, `resume_entries` | web, entry flows, owner process | deaths with a command in hand, order of stops and resumes, failing writes |
| desk owner (`trex/supervised_desk.py`) | `owner.json`, run lock, epoch | `main`, `start`, `run_loop`, `enter`, `process_requests` | everything above, gateway | start that fails half way, lost gateway |
| entry flows (`trex/desk_entries.py`) | proposals, approvals | `compose`, `approve`, `reject` | queue, outbox | one approval over several files |
| exit owner (`trex/desk_runtime.py`, `engine.py`, `state.py`) | `book.json`, ib_async's views of orders and positions | `register`, `_tick`, adopt, drain, cancel, close | outbox files read without their lock, broker | cancel/replace, late fills and views, a death between an order and the save of the book |
| put-spread monitor (`trex/monitor.py`, `enter.py`) | a `book.json` of its own | tick, reprice, drain | broker, entry runner | a book two processes write |
| desk ledger (`trex/ledger.py`), lab ledger (`ledger/book.py`) | JSONL of events, lots, cash | `append_events`, `fold_ledger`, `apply` | broker reports | duplicates, corrections, conservation |
| execution lifecycle (`execution/lifecycle.py`) | a tuple of records | `apply` | outbox journal | facts in any order |
| run state (`runstate/`) | lease, hash-chained journal, projection, heartbeat | `acquire`, `release`, `append_record`, `transition` | launchers, watchdogs | adoption races, torn tails |
| sealed event (`seal/`) | hash-chained ledger with anchor | approval, consumption, reconciliation | trials | consumed with no verdict |
| trial registry (`registry/`) | SQLite | `register`, `mark_running`, `complete`, `fail` | trials | cap under concurrent writers |
| research worker (`research/runstate/`, `research/pilot/`) | run records, meter | `step`, recovery, `admit`, `settle` | web | stop and death during a computation |
| watchdogs (`trex/deadman.py`, `alert_policy.py`, `gateway_watch.py`, `exit_watch.py`) | alert book, restart budget | `tick`, `plan_alerts`, `decide` | gateway, push service | debounce, retry, budgets |
| the rest (data, backtests, models, evaluation, protocol, desk agents, web views) | tables, reports | batch | | numerical or sequential |

What makes each correct is listed, hazard by hazard and line by line, under
`hazards` in `PROJECT.json`, with the property that would notice.

## 2. Modules

| module | models | state |
|---|---|---|
| `SupervisedAuthority` | authority half of `supervised.py` | `mandate`, `entry`, `spent`, `permit`, `revoked`, `halted`, `profile`, `epoch`, `clock` |
| `SupervisedOutbox` (extends it) | outbox half, with the broker's side of an intent | `pending`, `sending`, `terminal`, `reconciled`, `journal`, `call`, `order`, `late` |
| `EntrySlots` | abstract specification: what the outbox promises its callers | `phase`, `orders` |
| `CommandQueue` | `command_store.py`, `desk_commands.py`, `pause.py`, the entry flows of `desk_entries.py` as far as they spend an approval, send and answer, the life of the owner in `supervised_desk.py` | one function per kind of file, the owner's `mode`/`phase`/`job`, stop files, `consumed`/`entered`/`rejected` |
| `ExitOwner` | `desk_runtime.py` with `engine.drain`, `state.py` and the tail of an approval in `desk_entries.py` | `book` and what is saved of it, the tick in progress, the outbox's documents of an intent, the broker's orders and positions, the owner's views of them |
| `RunStates` | `runstate/states.py` and the fold of a journal | (operators) |
| `RunLog` | abstract specification: what a run's journal promises | `history` |
| `RunStore` | `lease.py`, `journal.py`, `store.py`, `custody.py`, and the programs `runstate_mark.py` and `launch_bars_era.py` that use them | the lease file and its lock, the journal with its tail, its lock and its committed extent, the projection, one program per pid |
| `ResearchQueue` | `research/runstate/worker.py`, `quant_jobs.py`, `pilot/admission.py`, `pilot/usage.py` | run records, results, stop files, job markers, the meter, two locks, the workers |
| `MCAuthority`, `MCOutbox`, `MCQueue`, `MCExit`, `MCRunStore`, `MCResearch` | the instances TLC checks | |
| `SupervisedAuthority_proof`, `SupervisedOutbox_proof`, `SupervisedOrders_proof` | theorems about authority and outbox | |
| `CommandQueue_proof`, `CommandEffects_proof` | theorems about the queue: its files; what its commands do | |
| `RunStore_proof`, `ResearchQueue_proof` | theorems about the run store and the research worker | |
| `ExitOwner_proof` | theorems about the exit owner, and the arithmetic of its sums | |

A definition named `X_Y` is `X` with the fault `Y`; no specification uses it.
`PROJECT.json` names, for every definition that models code, the lines it
translates.

### How actions correspond to calls

*Authority and outbox.* Every mutating call takes the flock of the state
directory (`_locked`), so a call is one step, with one more disjunct for each
durable prefix it can die after (`issue_permit` dying between budget and
permit, `_recover` dying between two journal appends). Its `now` argument is
any member of `Recent`, the times at most `MaxStale` old: callers capture it
before broker reads and before the lock wait. The two exceptions are modelled
as what they are. `halt_effects` takes no lock. `send` holds it across the
broker call, so it is a sequence of eight steps (`SendClaim`, `SendStamp`,
`SendConsume`, `SendJournal` twice, `SendSubmit`, `SendAnswer`, `SendReceipt`,
`SendReturn`); between two of them time passes, `HALT` appears, the broker
acts, or the process dies (`Crash`) and the kernel frees the lock.

*The broker* is external: an order handed over is on the wire, and then live,
refused or lost within `SurfaceDelay`; the answer `submit` returns says what
the broker did or is uncertain; `lookup` reports what the broker's views show.

*Command queue.* Each file operation of web and owner is a step, because the
two share the directory and only the web's submission and the owner's answers
take `commands/.lock`. `mode` says which pass the owner is in: the file pass
before it connects (or the `apply-commands` program), the recovery of
`start`, its file pass, the loop, the last pass after the gateway is lost.
`phase` says where the command in hand is. A stop file is the number of its
issue time, with one number for a file that records none and one for no file.
The entry flows run in the loop's thread. `approve` is two steps: `IssuePermit`
consumes the approval of the intent (`consumed`), and from phase `permit` on it
is refused ("the approval is spent", `PermitRefused`), raises, or makes the
outbox's claim and sends (`SendEntry`, `entered`). An approval of a proposal that
was sent repeats the stored answer that says `sent` (`ApproveAgain`, `_sent_result`);
without one it is refused. `RejectEntry` leaves a tombstone (`rejected`) unless
the proposal's approval is spent or its intent sent. An answer is its status with
the fact `sent`; every flow may refuse before its effect, raise before or after it, and lose
the session at any of its steps (`SessionLost`). What `compose` and `approve`
screen, and which gate refuses, is a nondeterministic choice.
`ran`, `backing` and `unaudited` are history: how often a key's effect was
started (of an approval: its order was sent), which stop commands stand behind a
stop file, and whether a lifted pause has no audit line.

*Exit owner.* The owner is one thread: between two of its `ib.sleep` calls no
event arrives, so a stretch of code between two sleeps is one step. A tick
visits the structures one after another (`TickBegin`, `StructureTick`,
`Finish`); a cancel and a close suspend it (`BeginCancel`, `BeginClear`,
`BeginExit`), and only while it is suspended or idle do the views of orders and
positions move (`SeeOrders`, `SeePosition`, each by itself and possibly late).
`CancelConfirmed` drains the final fills before the remainder is replaced,
`CancelUnconfirmed` leaves the structure for the next tick. `PlaceClose` and
`SavePlaced` are two steps because the book is saved at the end of a
structure's tick and the process may die between the two. An intent is the
state of its outbox documents (`Docs`), which the owner reads without the
outbox's lock; `Send`, `SendDies`, `Recover` and `Reconcile` move it as
`SupervisedOutbox` does. What a strategy decides is any of the decisions the
engine can return. Assumed of the broker's library: an order reported done
carries its final fills, executions are at least as fresh as order status, a
holding of others in the same contract stays as it is during the run.

*Run state.* Each program is a pid with a program counter; locks are held
between the steps that hold them in the code. An append is as many steps as
there are durable states in it: the first bytes, the line without its newline,
the line, the fsync, the advance of the committed extent, the projection.
`Kill` stops one program anywhere; `PowerFails` stops all of them, changes the
boot id and may lose bytes that were not synced. `Classify` and `Publish` are
separate because `acquire` classifies the owner it read and replaces it only
if the file still names that owner.

*Research worker.* A step of a worker is what it does between two durable
writes; `fence` is `worker.lock` and `control` the lock `set_stopped` and the
worker share. A stop writes the STOP file and then the record, so it has a
disjunct that dies between the two, and so has a resume. `requests` and
`marker` are the meter's file and the open-job marker; `jobs` and `owed` are
history, what was really computed and what of it is not charged yet.

## 3. Runs

| run | checks | distinct states |
|---|---|---|
| `authority` | a v1 mandate with budget one and three approvals compete for two intents and two effects (one an equity effect), with two epochs, two profiles and a clock that lets every expiry happen: `BudgetHeld`, `OneAuthorityPerIntent` | 562,624 |
| `outbox` | current callers, v1 mandates, two intents of one package of which the first lapses: `ImplementsSlots` (refinement), `StopIsFinal`, and under fairness `EffectsEnd` | 328,760 |
| `outbox_trade` | callers one tick late, per-trade approvals: `OrderIsBacked`, `OneLiveOrder`, `RecordsAreTrue`, `OrderWithinDeadline`, `HistoryIsFinal`, `SubmittedOnce` | 744,520 |
| `queue_stops` | two halts and a `resume_all` issued between them, one death: `SafetyNeverDropped`, `StopsBeforeLoop`, `NewerStopStands` | 925,809 |
| `queue_entries` | two approvals of one proposal, an approval of another proposal of the same intent and a rejection, three of the four documents with one key, one death, copied and pruned files, a touched `HALT`: `QueuedIsAccepted`, `AppliedOnce`, `AnswersAreTrue`, `OutcomeIsFinal` | 1,359,309 |
| `queue_live` | a pause, a `resume_entries` and two composes under two contested keys, with failing appends, reads and placements, lost gateways and two deaths: `ResumeIsAudited`, and under fairness `EveryCommandAnswered` | 118,640 |
| `exits` | an option spread, an equity alone and beside a share of somebody else, two equities of one contract: `SavedNeverOverClosed`, `OwnedUntilFlat`, `BookIsTrue`, `FlatIsClosed`, `ClosedIsFinal` | 1,286,217 |
| `run_state` | three programs (create, mark, pin, launch, status) under two pids, one kill or power failure: `HolderIsNamed`, `NeverRolledBack`, `ProjectionIsPast`, `RunnerOnce`, `ImplementsLog` (refinement) | 2,400,475 |
| `research` | two workers, a campaign that is stopped and resumed, two runs of a metered program, one failure and one death: `ComputingIsActive`, `WorkIsMetered`, `StopIsHonoured`, and under fairness `EveryRunEnds` | 548,407 |
| `late_send`, `queue_skip`, `double_close` | three statements of comments and docstrings that the code does not keep | counterexample |

`PROJECT.json` has a mutant for every property of a passing run: a version of
one definition with a plausible bug (a dropped guard, a swapped order of two
writes, a missing restore) under which TLC finds the property violated.

### Bounds and why they are enough

`MaxClock`, `MaxEpoch`, `MaxCrashes` and `MaxForeign` bound the clock, the
restarts of an owner, deaths, and what others do in the run directory. Two
intents of one package are what the in-flight rule is about; a third would
repeat the second. Deadlines 1 and 3 with a clock of 3 and a settle delay of 2
let the first intent lapse, be claimed late, stay uncertain and be reconciled
while the second is open. In the queue, three commands in issue order are the
least for "stop, resume, newer stop", two documents with one key the least
for a key that is contested, and one death at any file operation the least
for every recovery path: a lost session leaves a claim without a death, so the
death may be that of the recovery. Two keys with entry commands and `MaxPerPass` 1 let
`queue_entries` and `queue_live` meet the limit of a pass with an entry command
still waiting. Two proposals of one intent and two approvals of one proposal are
the least for an approval that is spent, repeated, or spent by another proposal;
`Touchable` bounds which stop files the terminal touches (one is enough to stop
an approval on either side of its permit). In `queue_live` the clock stands
still; expiry behind a down owner is in `queue_stops`.
Deadlock is not checked: clock, approvals, keys and deaths run out, after
which nothing need happen, and a desk with nothing to do really is at rest.

`exits` takes one of four scenarios in its initial state, each with its own
bound on reprices, orders the broker ends, and deaths, and with or without a
night (after which day orders are gone and older executions are not reported).
A quantity of two is the least with partial fills; two structures of one
contract are what the account's single position cannot tell apart. `run_state`
starts without a store or with one that waits for its launch; three programs
are the least for "a holder, an adopter and a third that finds what they left",
and one kill reaches every durable prefix. A budget of two requests lets the
second job of a program be admitted, refused because usage is unknown, or
refused because the budget is spent; two controls are a stop and a resume.

Pids and manifests of `run_state` are interchangeable and the run checks no
liveness, so its symmetry is sound. Elsewhere the orders of approvals and
commands differ, or liveness is checked, and no symmetry is used.

### Fairness

Outbox (`FairSpec`): a send goes on until it returns or dies, the clock and
the broker's views move, `snaptrade_runtime.py` recovers at its start and
reconciles on every refresh, and some lookup is conclusive in the end (strong
fairness of some `Reconcile`: a send may hold the lock again and again; each
order is surfaced once and each intent reconciled once, so fairness of *some*
of them reaches all). For the
IBKR desk the assumption is an operator's: its `start` does not call `recover`
(the command line has a `recover` of its own) and nothing under `src/` calls
`reconcile_intent` for its intents, so there an uncertain intent holds its
package until somebody reconciles it.

Queue (`LiveSpec`): the service manager starts the owner again, a running
process takes its next step, and whatever is retried until it works
(connecting, renaming a claim, writing an answer, staying connected up to the
next listing) does work some time, which is strong fairness because failures
disable it in between. Deaths are bounded by `MaxCrashes`.

Research (`FairSpec`): weak fairness of some worker's next step. The service
manager restarts workers, a poll finds the fence free once its holder returned
or died, and at any time only the worker past the fence has work. Engines are
assumed to return or raise.

## 4. Proofs

Checked by TLAPS for every value of the constants that satisfies the named
assumptions: any number of intents, approvals, commands, keys, programs, runs,
workers, deaths, and any clock. Where a theorem needs more than the module's
assumptions, its statement says so and this section says why the code
justifies it. `PROJECT.json` lists the theorems with the property each states.

### Authority and outbox

`SupervisedAuthority_proof`: `AuthTypeCorrect`, `OneAuthority`, `BudgetKept`.
The inductive invariant `AuthInv` adds to `OneAuthorityPerIntent` the types and
`EntriesMatch` (an unused approval lies in the file of the intent its proposal
names, for the effect it names): without it the step that turns the approval
into a permit could back another intent or another effect. `BudgetKept` needs
`Budget`: permits are told apart by the instant of the grant they were minted
under, and that instant is never granted again, because a mandate is replaced
only after it expired. The argument assumes `MaxStale < MandateTTL`: a `now`
captured before a wait for the lock must not be older than a whole mandate;
`supervised.py:102` sets the shortest mandate to 60 s and line 497 refuses a
shorter one.

`SupervisedOutbox_proof`: `TypeCorrect`, `BackedOrders`, `FinalHistory`,
`OneSubmit`. `OrderIsBacked` is not inductive because a send that is about to
submit has not yet an order: `IInv` adds `FilesInv` (which files of an intent
exclude which) and `CallInv` (what the files of the intent in `call` are at
each of the eight steps, down to the permit being consumed before the journal
is opened). The two action properties follow from the same invariant.

`SupervisedOrders_proof`: `WithinDeadline`, `TrueRecords`, `SingleOrder`,
`FinalStops`, `OutboxImplementsSlots`, and `OutboxOneAuthority`, which carries
the authority's theorem over to the outbox's specification. `TimeInv` relates
the clock, the `now` of the send in progress, the time an order left and the
time on its receipt; with `SettleAssumption` (`MaxStale + SurfaceDelay <=
SettleDelay`: the settle window outlasts the age of `now` and the broker's
delay) an order is off the wire by the time a verdict may fall, which is why a
verdict is true for good. `PairInv` says that of two intents of one package at
most one is active unless one is overdue, from `record_intent`'s in-flight rule,
and `RevokedInv` that after a revocation a send that has not reached the broker
yet is a per-trade one. `OutboxImplementsSlots` is the refinement of
`EntrySlots`, action by action (`OpenSlot`, `CommitSlot`, `SubmitSlot`,
`ReceiptSlot`, `ReconcileSlot`, `SurfaceSlot`, `TickSlot`; `HiddenSteps` for the
steps callers do not see). It is stated for `MaxStale = 0`; with a stale `now`
it is false, since an intent may then be claimed after it lapsed (run
`late_send`).

### Command queue

`CommandQueue_proof`: `QueueTyped`, `OnlyAccepted`. `Base` adds to the types
`Course` (where a key can be: the command in hand, an answer kept in memory and
a claim still to be recovered each have their claim and exclude each other)
and `Intake` (what the web's submission has written at each of its steps, and
that whatever is queued is what the web recorded).

`CommandEffects_proof` builds on `Base`. Each theorem has its own part:

| theorem | inductive part | why it is needed |
|---|---|---|
| `EffectOnce` | `Once`, with `Fresh` | a key without a claim, and one whose command is still being validated, has not run |
| | `Entries` (`Spending`, `OneSender`) | what was sent is entered, its approval is consumed for that proposal and it is not rejected; a permit in hand excludes an earlier send of the intent |
| `ResumesAudited` | `Audited` | between the unlink and its line only the command in hand owes one |
| `StopsStand` | `Stamped` (`Backed`, `Lifting`) | the issue time in a stop file is at least that of every command behind it, and a lifting resume was compared with it |
| `TrueAnswers`, `FinalOutcome` | `Truthful` (`Told`, `Kept`, `Outcome`); `TrueAnswers` also `Entries` | an answer on its way, also one kept in memory, says what became of the effect (`Says`); `sent` is said only of an order that left, so an approval that repeats it (`Echo`) is true too |
| `StopsRecovered` | `Effected`, `Recovered` | what a dead owner left is still in the recovery's list, or has had its effect |
| `SafetyObeyed` | `Obeyed` | the outcome on its way for a stop is `applied` |

`TrueAnswers` does not say that a refused approval changed nothing: `_send`
refuses after the approval is spent and the permit issued (`desk_entries.py:895`).
It says that a refused command sent nothing, that an approval answered `applied` sent
the order or repeats one that was answered `applied`, and that no approval sends a
proposal whose rejection was answered `applied`. It is about what is answered, so the case of
a `failed` answer, which promises nothing about the effect, is left out.

The first three hold with all the faults of the model. The others are
hypotheses on the fault switches, each of which the code cannot do without:
`TrueAnswers` and `FinalOutcome` assume `~ReadFaults` (a result file that
cannot be read looks like none, `desk_commands.py:626`), `StopsRecovered` also
that placing a stop does not raise and that `start` does not skip the recovery
(`~ApplyFaults`, `~StartFaults`: run `queue_skip`), `SafetyObeyed` assumes
`~ReadFaults`, `~ApplyFaults` and `~AuditFaults` (a stop whose placing raised
is answered `failed`). Crashes are never excluded. The runs that check
these four properties have the switches off.

### Run state

`RunStore_proof`: `StoreTyped`, `OneHolder`, `OneRunner`, `NoRollback`,
`ProjectionOfPast`, `StoreImplementsLog`. The inductive invariant has four
parts: `TypeInv` (types, who holds which flock, and `Course`, which command may
be at which step), `LeaseInv` with `Spent` (a program past `acquire` is the
owner in the lease file, a publisher still has the owner it classified in it,
and that owner is dead; the runner starts only after the CONSUMED record),
`Kept` (the committed extent is within the journal and a legal history, what a
reader has seen is a prefix of what is there, and what a writer appends may
follow it), and `Projected` (the projection, also the one about to be
written, shows a prefix). The refinement of `RunLog` follows from `Kept`: the
extent advances over lines that `MayFollow` allowed, and nothing that loses
bytes reaches into it. The sequence lemmas (prefixes, appends and fronts of
legal histories) need no induction because `LegalHistory` is stated by
position.

### Research worker

`ResearchQueue_proof`: `ResearchTyped`, `ComputedOnce`, `NoHiddenWork`,
`StopHonoured`. `IInv` adds `InHand` (which run a worker has at each of its
steps) and `Metered` (where the meter stands at each step of an admitted run);
that only the holder of the fence is past `idle` is part of the types.
`StopIsHonoured` then rests on `InHand`: between the look at the STOP file
and the record the worker holds the lock that `set_stopped` takes.

### Exit owner

`ExitOwner_proof`: `OwnerTyped`, `ClosedForGood`, for any number of structures
and contracts, any shares of others, with deaths and new sessions; and within
one session `NoDoubleClose`, `NeverUnowned`, `CountsAreTrue`, `FlatCloses`
(`SavedNeverOverClosed`, `OwnedUntilFlat`, `BookIsTrue`, `FlatIsClosed`).
`TypeOK` contains that no state of the book, saved or in memory, records more exits than
entries; that is what needs the inductive invariant `IInv`:

- `BrokerOf`: only a structure's last order may be open, and the owner's view
  of each order is an earlier state of it;
- `DocOf`, `AgedOf`, `LiveOf`, `Course`: what the outbox's documents, an
  earlier session's orders, the open orders found at the start of the tick and
  the step of the tick say of the orders;
- `BookOf`: what a state counts, and what it may still count of its current
  order, is within the entry (`Sane`); and an order the book may not know yet
  (placed, then the process died before the save) would also fit once it is
  adopted (`Room`). `Room` must speak of what the book *will* have of the entry
  (`Entered`): a structure may leave the entry lane and adopt an exit in one tick.

The sums over orders and structures are folds; that a sum over a finite set
adds each element once is proved from the definition of the fold (`LeastSet` to
`TotalOne`), with a least counterexample in place of an induction scheme.
`ClosedForGood` then uses that the orders of a closed structure are all over and
that a structure closed without orders has an entry that cannot be sent any more.

The other four say that the book agrees with the broker, not only with itself.
They hold until a new session begins (`aged = {}`: deaths, downtime and restarts
within the day included) and rest on a second invariant, `SInv`, with `IInv`:

- `Fair`: a state out of the entry lane has the whole entry, and what it counts
  of its exits once its current order is drained to the end (`Counted`), with the
  fills of a last exit it does not know (`Unknown`), is within what was sold; it
  is closed only when as much was sold as bought;
- `Exact`, for a structure whose closes were all saved: the state knows its last
  exit, and counts every fill. The saved book may lag between a close and its
  save (`Placing`);
- `Within`: the last exit, filled to the end, would not sell more than was
  bought. A new close keeps it because the tick that places it has drained the
  order before it (`SInv`'s part for `clear`).

`FlatCloses` further assumes `OptionsAlone`: nobody else trades or holds the
option's contract. The code compares the account's position with the book's open
quantity (`desk_runtime.py:1083`, `_leg_positions`), so with other holdings in
the contract it has nothing to close on.

### Only model-checked

The same four across a new session, by the run `exits` in its four
scenarios. They are not theorems for every scenario: with a new session they
fail for some instances outside the four of the run, because executions of an
earlier session are not reported and positions are all that is left. TLC finds
`SavedNeverOverClosed` violated for one equity beside *two* shares of somebody
else (a stale position view at `_holdings_ok`, `desk_runtime.py:1684`, makes
`exit_outside_qty` too small, so after the night an exit fill nobody drained is
taken for outside shares that went away, and is sold again), and the first
three violated for two structures of one contract with a night. That is the same
limit of the position comparison as in section 5.

The liveness properties `EffectsEnd`, `EveryCommandAnswered` and `EveryRunEnds`
are out of this prover's reach (fairness, ENABLED). `RECURSIVE` definitions are
not used.

## 5. Where code and comments disagree

Three, under `findings` in `PROJECT.json`, each with a run that shows it.

`late_send`: `send` is handed a `now` captured before preflight and lock wait,
and compares the deadline with it. `SingleOrder` and `WithinDeadline` say what
is left of the intended guarantee. The exit owner relies on the refusal when it
closes a structure as not sent by its deadline; `ExitOwner` therefore assumes
that no send is late, and the mutant of `ClosedIsFinal` is such a send.

`queue_skip`: a `start` that raises early skips the recovery of kill switches.

`double_close`: a close is placed before the book is saved. An owner that dies
in between leaves a close no file names; after the restart it may fill between
the look at the legs and the look at the open orders, and a second one goes
out. For a structure whose closes were saved this cannot happen within a session
(`NoDoubleClose`).

Seen while modelling, without a run of their own:

- outbox: the settle time of `reconcile_intent` (`supervised.py:1370`) counts
  from the same early `now`, so a verdict may fall sooner after the order left
  than `supervised.py:109` says; `TrueRecords` shows no wrong verdict follows
  within `SettleAssumption`.
- queue: `recover_interrupted` (`desk_commands.py:938`) places an unanswered
  halt again even when a newer `resume_all` has lifted it since; the dangerous
  direction, a newer stop lifted by an older resume, does not occur
  (`NewerStopStands`). A death between the unlink and the audit line in
  `pause.resume_entries` leaves an unaudited resume; a transient read error of
  a result file lets the owner replace a standing answer (`_intake` returns
  `None`); a `resume_all` whose audit fails is answered `failed` although
  `HALT` and `FLATTEN` are already gone; a stop whose placing raised is
  answered `failed` and not retried.
- exit owner: an exit fill that was drained before the position view shows it
  is remembered as an outside holding (`exit_outside_qty`,
  `desk_runtime.py:1703`); a close no file names that fills leaves the structure
  OPEN with nothing held, and every later close is refused by the holdings
  check until an operator steps in; after a night without executions the
  position does not tell two equities of one contract apart.
- run state: `pin_manifest` (`store.py:513`) does not ask for GENESIS, so on a
  store whose `create` died before it MANIFEST_PINNED becomes record 1, the
  GENESIS of a second `create` is refused, and the run never gets a state
  (`journal.py:62`: "1-based; GENESIS is seq 1"). A whole last line without its
  newline is shown by replays and joined, and so spoiled, by the next append. A
  replay that races the creation of the journal reports it as unbound. A
  launcher that dies between the CONSUMED record and its transition leaves a
  manifest that is consumed and was never run.
- research: `usage.py:11` says a second job of a program waits; the code fails
  it (`budget_usage_unknown`). A death between a result and its record,
  followed by a recomputation that differs, strands the run, and with it the
  program whose marker stays open.

## 6. Not modelled

In the modelled parts: torn lines in the outbox's and the desk ledger's
journals, unreadable or invalid documents and links in place of files, the
terminal's removal of stop files, the content of broker facts (the journal
keeps the kinds of its records), environment, account and strategy (folded into
the scope of a mandate), and the removal of `HALT` by hand in the outbox's
directory. In the entry flows: the content of candidates and screens, deadlines and
profiles of a proposal (`SupervisedAuthority` and `SupervisedOutbox` have them),
the mandate file that is granted but not yet consumed, and the registration of
the structure (in `ExitOwner`). In the exit owner: prices,
quotes, the health and alert files, the legs of other books in an option
contract, and the assignment and dividend screens. In the run state: files
swapped or linked behind the custody checks (so a journal that is missing is taken
for an empty one, and the errors at `journal.py:523` for those of a shortened one), a
manifest pinned in the identity document instead of by a record (the fallback at
`store.py:366`), heartbeats, and pids reused within one boot beyond the pids of
the instance. No property depends on these two branches. In the research worker: more than one
day and one program, and what an engine computes.

Numerical and data code (backtests, models, evaluation, labels, splitting,
synthetic data, campaign and census scripts) is most of the repository's lines:
sequential programs over decimals, floats and dated tables, whose correctness
is about data and which a state machine would only restate. The remaining
components are in `PROJECT.json` with the reason.

## 7. Plan

Done: authority and outbox, command queue, exit owner, run state, research
worker; theorems for all of them, both refinements included.
Next, in this order:

1. The desk ledger: append with torn lines, duplicate and corrected fills,
   conservation of its fold; the lifecycle fold, order independence over
   bounded records.
2. The monitor and the entry runner on one `book.json`.
3. `approve` with its proposal, approval, intent and permit files as in
   `SupervisedAuthority`, composed with `CommandQueue`.
4. Seal ledger, trial registry.
5. Watchdogs: alert debounce and retry, restart budget.
