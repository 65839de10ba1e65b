------------------------------ MODULE ExitOwner ------------------------------
(***************************************************************************)
(* The exit owner of supervised positions (trex/desk_runtime.py), with the *)
(* fill bookkeeping of trex/engine.py and the book of trex/state.py.       *)
(*                                                                         *)
(* One process registers an entry before it is sent, resolves it from the  *)
(* outbox and from the broker, and closes the position with orders it      *)
(* cancels and replaces.  book.json is written at the end of a structure's *)
(* tick; the broker, the account's positions and the process's views of    *)
(* them move on their own.  Orders of a structure are numbered: 1 is its   *)
(* entry, later numbers are its exits.  Prices, quotes and exit rules are  *)
(* abstracted to the choice they lead to.                                  *)
(***************************************************************************)
EXTENDS Integers, Sequences, FiniteSets, FiniteSetsExt

CONSTANTS
    Sids,           \* structures (an equity's id is its intent id)
    Contract,       \* the contract each structure holds
    Scenarios,      \* lanes, shares of others, whether a new day may come, bounds
    Quantity,       \* packages (shares) each entry asks for
    KillSets        \* the combinations of kill files a tick may find

(* Bounds of a scenario: exits cancelled to be priced again, exits the     *)
(* broker ends by itself, deaths of the owner process.                     *)
Bounds == [reprices : Nat, deaths : Nat, crashes : Nat]

(* "held" is an equity position open from the start.                       *)
Lanes == {"option", "equity", "held", "absent"}

ASSUME ScenarioAssumption ==
    /\ Scenarios \subseteq [lane : [Sids -> Lanes], outside : Nat, overnight : BOOLEAN,
                      max : Bounds]
    /\ Quantity \in [Sids -> Nat \ {0}]
    /\ KillSets \subseteq SUBSET {"HALT", "FLATTEN", "PAUSE_ENTRIES"}
    /\ IsFiniteSet(Sids)

VARIABLES
    scene,      \* the scenario, fixed
    doc,        \* what the outbox says of the entry
    lapsed,     \* whether its send deadline has passed
    spec,       \* structures with a spec file
    book,       \* book.json
    mem,        \* the book in the owner's memory during a tick
    orders,     \* the broker's orders of each structure, in order of id
    asked,      \* orders with a cancel under way
    seen,       \* the owner's view of those orders
    seenPos,    \* the owner's view of the positions
    aged,       \* orders whose executions a new session does not report
    held,       \* the last order of each structure this process saw
    pc,         \* where the owner is
    cur,        \* the structure whose order is being cancelled or placed
    todo,       \* structures the tick has still to visit
    live,       \* the orders the view showed open when the tick began
    flags,      \* kill files as the tick read them
    resolve,    \* structures with an operator's RESOLVE-FLAT file
    orphaned,   \* history: structures whose close was placed but not saved
    spent       \* how much of each bound is used up

broker == <<orders, asked, aged>>
views == <<seen, seenPos, held>>
ticking == <<mem, pc, cur, todo, live, flags>>
entryVars == <<doc, lapsed, spec>>
vars == <<scene, entryVars, book, broker, views, ticking, resolve, orphaned, spent>>

Docs == {"none", "pending", "sending", "acknowledged", "rejected", "uncertain",
         "confirmed_submitted", "confirmed_not_submitted"}

Statuses == {"planned", "enter_working", "open", "exit_working", "closed"}

EntryLane == {"planned", "enter_working"}

-----------------------------------------------------------------------------
(* The book.                                                               *)

NewState ==
    [status |-> "planned", entryOrder |-> 0, filled |-> 0, exitOrder |-> 0,
     exitSeen |-> 0, exitFilled |-> 0, outside |-> 0]

OpenState(qty) == [NewState EXCEPT !.status = "open", !.entryOrder = 1, !.filled = qty]

lane == scene.lane

IsEquity(s) == lane[s] \in {"equity", "held"}

OpenQty(st) == st.filled - st.exitFilled

(* Recording a report of order o: quantity beyond the order's checkpoint,  *)
(* a fresh checkpoint for another order, nothing for a stale report.       *)
DrainEntry(st, o, qty) ==
    [st EXCEPT !.entryOrder = o,
               !.filled = IF qty < @ THEN @ ELSE qty]

DrainExit_NoCheckpoint(st, o, qty) ==
    [st EXCEPT !.exitOrder = o,
               !.exitSeen = qty,
               !.exitFilled = @ + qty]

DrainExit(st, o, qty) ==
    LET before == IF st.exitOrder = o THEN st.exitSeen ELSE 0
        now == IF qty < before THEN before ELSE qty
    IN [st EXCEPT !.exitOrder = o,
                  !.exitSeen = now,
                  !.exitFilled = @ + now - before]

Drain(st, o, qty) == IF o = 1 THEN DrainEntry(st, o, qty) ELSE DrainExit(st, o, qty)

-----------------------------------------------------------------------------
(* The broker's side.                                                      *)

NewOrder(qty) == [qty |-> qty, filled |-> 0, done |-> FALSE]

FilledOrder(qty) == [qty |-> qty, filled |-> qty, done |-> TRUE]

Exits(s) == {o \in DOMAIN orders[s] : o > 1}

Working(s) == {o \in DOMAIN orders[s] : ~orders[s][o].done}

Bought(s) == IF orders[s] = <<>> THEN 0 ELSE orders[s][1].filled

Total(f, S) == MapThenSumSet(LAMBDA x : f[x], S)

Sold(s) == Total([o \in DOMAIN orders[s] |-> orders[s][o].filled], Exits(s))

(* What open exits may still sell.                                         *)
Resting(s) ==
    Total([o \in DOMAIN orders[s] |-> orders[s][o].qty - orders[s][o].filled],
          Exits(s) \cap Working(s))

Net(s) == Bought(s) - Sold(s)

Contracts == {Contract[s] : s \in Sids}

Position(c) ==
    scene.outside + Total([s \in Sids |-> Net(s)], {s \in Sids : Contract[s] = c})

-----------------------------------------------------------------------------
(* What the owner reads.                                                   *)

NoSid == "nobody"

None == -1

(* The current order of a structure: the open one with its entry tag (entry *)
(* lane) or desk tag, else the last one this process saw when the book     *)
(* still names it; 0 is none.                                              *)
TradeBy(s, st) ==
    LET tagged == IF st.status \in EntryLane THEN live[s] \cap {1} ELSE live[s] \ {1}
        expected == IF st.status \in EntryLane THEN st.entryOrder ELSE st.exitOrder
    IN IF tagged # {} THEN Max(tagged)
       ELSE IF held[s] # 0 /\ held[s] = expected THEN held[s] ELSE 0

(* The shares the book says the desk holds in the structure's contract.    *)
BookQty(s, st) ==
    LET others == {x \in Sids \ {s} : /\ x \in spec
                                      /\ IsEquity(x)
                                      /\ Contract[x] = Contract[s]
                                      /\ mem[x].status # "closed"}
    IN OpenQty(st) + Total([x \in others |-> OpenQty(mem[x])], others)

(* The account's position in the structure's contract, as the view has it. *)
PositionSeen(s) == seenPos[Contract[s]]

(* What the executions of today prove was filled of order o.               *)
Executed(s, o) == IF o # 0 /\ <<s, o>> \notin aged THEN seen[s][o].filled ELSE 0

(* An option without executions is proved unfilled only by legs not held.  *)
Evidence(s, o) ==
    IF ~IsEquity(s) /\ Executed(s, o) = 0 /\ PositionSeen(s) # 0
    THEN None
    ELSE Executed(s, o)

(* The guard every close passes: an option's legs are exactly the open     *)
(* quantity, an equity's shares at least what the book holds.              *)
HoldingsOK(s, st) ==
    IF lane[s] = "option"
    THEN PositionSeen(s) = OpenQty(st)
    ELSE PositionSeen(s) >= BookQty(s, st)

WithOutside(s, st) ==
    IF lane[s] = "option" THEN st
    ELSE [st EXCEPT !.outside = PositionSeen(s) - BookQty(s, st)]

-----------------------------------------------------------------------------
(* One structure's tick, up to its decision.                               *)

Closed(st) == [st EXCEPT !.status = "closed"]

EnterWorking(st) == [st EXCEPT !.status = "enter_working", !.entryOrder = 1]

ResolvePlanned_ClosesUncertain(s, st) ==
    CASE 1 \in live[s] -> EnterWorking(st)
      [] doc[s] \in {"confirmed_submitted", "acknowledged"} -> EnterWorking(st)
      [] doc[s] \in {"confirmed_not_submitted", "rejected", "uncertain"} -> Closed(st)
      [] doc[s] = "pending" /\ lapsed[s] -> Closed(st)
      [] OTHER -> st

ResolvePlanned(s, st) ==
    CASE 1 \in live[s] -> EnterWorking(st)
      [] doc[s] \in {"confirmed_submitted", "acknowledged"} -> EnterWorking(st)
      [] doc[s] \in {"confirmed_not_submitted", "rejected"} -> Closed(st)
      [] doc[s] = "pending" /\ lapsed[s] -> Closed(st)
      [] OTHER -> st

(* An equity without executions is proved unfilled only by its holdings.   *)
EntryUnproven(s, st, qty) ==
    \/ qty = None
    \/ IsEquity(s) /\ qty = 0 /\ PositionSeen(s) # BookQty(s, st)

(* The entry left the view: only evidence moves the book.                  *)
ResolveEntry(s, st) ==
    LET qty == Evidence(s, st.entryOrder)
        drained == IF qty > 0 THEN DrainEntry(st, 1, qty) ELSE st
    IN IF EntryUnproven(s, st, qty) THEN st
       ELSE IF qty > 0 \/ (IsEquity(s) /\ st.filled > 0)
       THEN [drained EXCEPT !.status = "open"]
       ELSE Closed(st)

(* A tick's outcome so far: the state it reached, the order it acts on and *)
(* whether it goes on to decide.                                           *)
Reached(st, t) ==
    [st |-> st, t |-> t, go |-> st.status # "closed", ask |-> FALSE, confirmed |-> FALSE]

(* The exit left the view: record what is proved, then compare positions.  *)
ExitProved(s, st, qty) == IF qty > 0 THEN DrainExit(st, st.exitOrder, qty) ELSE st

(* Shares in the contract beside this structure's: none for an option.     *)
Beside(s, st) ==
    IF lane[s] = "option" THEN 0 ELSE BookQty(s, st) + st.outside - OpenQty(st)

(* Flat beyond what executions explain waits for the operator.             *)
Compared(s, st, open, pos) ==
    IF pos = open
    THEN Reached(IF open <= 0 THEN Closed(st) ELSE st, 0)
    ELSE LET ask == pos = 0 /\ open > 0
         IN IF ask /\ s \in resolve
            THEN [Reached(Closed([st EXCEPT !.exitFilled = @ + open]), 0) EXCEPT
                    !.ask = TRUE, !.confirmed = TRUE]
            ELSE [Reached(st, 0) EXCEPT !.go = FALSE, !.ask = ask]

CompareExit(s, st) == Compared(s, st, OpenQty(st), PositionSeen(s) - Beside(s, st))

ResolveExit(s, st) == CompareExit(s, ExitProved(s, st, Evidence(s, st.exitOrder)))

(* Filled entry opens, dead unfilled entry closes, flat exit closes.       *)
Transitions_OpensPartial(s, st, t) ==
    LET done == t # 0 /\ seen[s][t].done
    IN CASE st.status = "enter_working" /\ st.filled > 0 -> [st EXCEPT !.status = "open"]
         [] st.status = "enter_working" /\ st.filled = 0 /\ done -> Closed(st)
         [] st.status = "exit_working" /\ OpenQty(st) <= 0 /\ (done \/ t = 0) -> Closed(st)
         [] OTHER -> st

Transitions(s, st, t) ==
    LET done == t # 0 /\ seen[s][t].done
    IN CASE st.status = "enter_working" /\ (st.filled >= Quantity[s] \/ (done /\ st.filled > 0))
               -> [st EXCEPT !.status = "open"]
         [] st.status = "enter_working" /\ st.filled = 0 /\ done -> Closed(st)
         [] st.status = "exit_working" /\ OpenQty(st) <= 0 /\ (done \/ t = 0) -> Closed(st)
         [] OTHER -> st

(* What the tick makes of the structure in state st with current order t.  *)
AdvanceOn(s, st, t) ==
    IF t # 0
    THEN Reached(Transitions(s, Drain(st, t, seen[s][t].filled), t), t)
    ELSE IF st.status = "enter_working"
    THEN LET after == ResolveEntry(s, st)
         IN [Reached(after, 0) EXCEPT !.go = after.status = "open"]
    ELSE IF st.status = "exit_working" /\ st.exitOrder # 0
    THEN ResolveExit(s, st)
    ELSE Reached(Transitions(s, st, 0), 0)

AdvanceFrom(s, st) ==
    IF st.status \in {"planned", "closed"}
    THEN [Reached(st, 0) EXCEPT !.go = FALSE]
    ELSE AdvanceOn(s, st, TradeBy(s, st))

(* A structure's tick before it decides.                                   *)
Advance(s) ==
    AdvanceFrom(s, IF mem[s].status = "planned" THEN ResolvePlanned(s, mem[s]) ELSE mem[s])

-----------------------------------------------------------------------------
(* The owner's steps.                                                      *)

Idle == pc = "idle"

(* The structure's tick is over: the whole book is saved.                  *)
Finish(s, st) ==
    /\ mem' = [mem EXCEPT ![s] = st]
    /\ book' = mem'
    /\ todo' = todo \ {s}
    /\ cur' = NoSid
    /\ IF todo' = {}
       THEN pc' = "idle" /\ live' = [x \in Sids |-> {}] /\ flags' = {}
       ELSE pc' = "tick" /\ UNCHANGED <<live, flags>>

TickBegin(kills) ==
    /\ Idle
    /\ todo' = {s \in spec : book[s].status # "closed"}
    /\ todo' # {}
    /\ pc' = "tick"
    /\ mem' = book
    /\ live' = [s \in Sids |-> {o \in DOMAIN seen[s] : ~seen[s][o].done}]
    /\ flags' = kills
    /\ UNCHANGED <<scene, entryVars, book, broker, views, cur, resolve, orphaned, spent>>

(* A structure that cannot be prepared, or whose tick fails, is contained. *)
SkipStructure(s) ==
    /\ pc = "tick"
    /\ s \in todo
    /\ Finish(s, mem[s])
    /\ UNCHANGED <<scene, entryVars, broker, views, resolve, orphaned, spent>>

BeginCancel(s, st, t) ==
    /\ asked' = asked \cup {<<s, t>>}
    /\ mem' = [mem EXCEPT ![s] = st]
    /\ pc' = "cancel"
    /\ cur' = s
    /\ UNCHANGED <<book, orders, aged, todo, live, flags>>

BeginClear(s, st) ==
    /\ mem' = [mem EXCEPT ![s] = WithOutside(s, st)]
    /\ pc' = "clear"
    /\ cur' = s
    /\ UNCHANGED <<book, broker, todo, live, flags, spent>>

(* What the decision, the kill files and the guards let the tick do.       *)
ActOnEntry(s, st, t) ==
    /\ st.status = "enter_working"
    /\ \/ BeginCancel(s, st, t) /\ UNCHANGED spent
       \/ /\ flags \cap {"FLATTEN", "PAUSE_ENTRIES"} = {}
          /\ Finish(s, st)
          /\ UNCHANGED <<broker, spent>>

Hold(s, st) ==
    /\ st.status \in {"open", "exit_working"}
    /\ Finish(s, st)
    /\ UNCHANGED <<broker, spent>>

BeginExit(s, st) ==
    /\ st.status = "open"
    /\ "HALT" \notin flags
    /\ OpenQty(st) > 0
    /\ HoldingsOK(s, st)
    /\ BeginClear(s, [st EXCEPT !.status = "exit_working"])

Reprice(s, st, t) ==
    /\ st.status = "exit_working"
    /\ "HALT" \notin flags
    /\ t # 0
    /\ ~seen[s][t].done
    /\ spent.reprices < scene.max.reprices
    /\ spent' = [spent EXCEPT !.reprices = @ + 1]
    /\ BeginCancel(s, st, t)

Replace(s, st, t) ==
    /\ st.status = "exit_working"
    /\ "HALT" \notin flags
    /\ t # 0 => seen[s][t].done
    /\ OpenQty(st) > 0
    /\ HoldingsOK(s, st)
    /\ BeginClear(s, st)

StructureTick(s) ==
    /\ pc = "tick"
    /\ s \in todo
    /\ \E a \in {Advance(s)} :
          /\ held' = [held EXCEPT ![s] = IF a.t # 0 THEN a.t ELSE @]
          /\ resolve' = IF a.confirmed THEN resolve \ {s} ELSE resolve
          /\ \/ ~a.go /\ Finish(s, a.st) /\ UNCHANGED <<broker, spent>>
             \/ /\ a.go
                /\ \/ ActOnEntry(s, a.st, a.t)
                   \/ Hold(s, a.st)
                   \/ BeginExit(s, a.st)
                   \/ Reprice(s, a.st, a.t)
                   \/ Replace(s, a.st, a.t)
    /\ UNCHANGED <<scene, entryVars, seen, seenPos, orphaned>>

(* The wait for a cancel's confirmation, during which views move.          *)
CancelConfirmed_Undrained(s) ==
    /\ pc = "cancel"
    /\ cur = s
    /\ seen[s][held[s]].done
    /\ \/ Finish(s, mem[s]) /\ UNCHANGED <<broker, spent>>
       \/ /\ held[s] # 1
          /\ HoldingsOK(s, mem[s])
          /\ BeginClear(s, mem[s])
    /\ UNCHANGED <<scene, entryVars, views, resolve, orphaned>>

CancelConfirmed(s) ==
    /\ pc = "cancel"
    /\ cur = s
    /\ seen[s][held[s]].done
    /\ LET st == IF held[s] = 1 THEN mem[s] ELSE DrainExit(mem[s], held[s], seen[s][held[s]].filled)
       IN \/ Finish(s, st) /\ UNCHANGED <<broker, spent>>
          \/ /\ held[s] # 1
             /\ OpenQty(st) > 0
             /\ HoldingsOK(s, st)
             /\ BeginClear(s, st)
    /\ UNCHANGED <<scene, entryVars, views, resolve, orphaned>>

CancelUnconfirmed(s) ==
    /\ pc = "cancel"
    /\ cur = s
    /\ ~seen[s][held[s]].done
    /\ Finish(s, mem[s])
    /\ UNCHANGED <<scene, entryVars, broker, views, resolve, orphaned, spent>>

(* Not the paper session, open orders unreadable, or the tag already open. *)
ClearRefused(s) ==
    /\ pc = "clear"
    /\ cur = s
    /\ Finish(s, mem[s])
    /\ UNCHANGED <<scene, entryVars, broker, views, resolve, orphaned, spent>>

(* The order is at the broker before the book names it.                    *)
PlaceClose_KeepsSeen(s) ==
    LET new == Len(orders[s]) + 1
        order == NewOrder(OpenQty(mem[s]))
    IN /\ pc = "clear"
       /\ cur = s
       /\ Exits(s) \cap Working(s) = {}
       /\ orders' = [orders EXCEPT ![s] = Append(@, order)]
       /\ seen' = [seen EXCEPT ![s] = Append(@, order)]
       /\ held' = [held EXCEPT ![s] = new]
       /\ mem' = [mem EXCEPT ![s].exitOrder = new]
       /\ pc' = "placed"
       /\ UNCHANGED <<scene, entryVars, book, asked, aged, seenPos, cur, todo, live, flags,
                      resolve, orphaned, spent>>

PlaceClose(s) ==
    LET new == Len(orders[s]) + 1
        order == NewOrder(OpenQty(mem[s]))
    IN /\ pc = "clear"
       /\ cur = s
       /\ Exits(s) \cap Working(s) = {}
       /\ orders' = [orders EXCEPT ![s] = Append(@, order)]
       /\ seen' = [seen EXCEPT ![s] = Append(@, order)]
       /\ held' = [held EXCEPT ![s] = new]
       /\ mem' = [mem EXCEPT ![s].exitOrder = new, ![s].exitSeen = 0]
       /\ pc' = "placed"
       /\ UNCHANGED <<scene, entryVars, book, asked, aged, seenPos, cur, todo, live, flags,
                      resolve, orphaned, spent>>

SavePlaced(s) ==
    /\ pc = "placed"
    /\ cur = s
    /\ Finish(s, mem[s])
    /\ UNCHANGED <<scene, entryVars, broker, views, resolve, orphaned, spent>>

(* The event loop runs between ticks and while the owner waits.            *)
Pumping == pc \in {"idle", "cancel", "clear"}

SeeOrders(s) ==
    /\ Pumping
    /\ seen[s] # orders[s]
    /\ seen' = [seen EXCEPT ![s] = orders[s]]
    /\ UNCHANGED <<scene, entryVars, book, broker, seenPos, held, ticking, resolve, orphaned, spent>>

SeePosition(c) ==
    /\ Pumping
    /\ seenPos[c] # Position(c)
    /\ seenPos' = [seenPos EXCEPT ![c] = Position(c)]
    /\ UNCHANGED <<scene, entryVars, book, broker, seen, held, ticking, resolve, orphaned, spent>>

Crash ==
    /\ pc # "down"
    /\ spent.crashes < scene.max.crashes
    /\ spent' = [spent EXCEPT !.crashes = @ + 1]
    /\ orphaned' = IF pc = "placed" THEN orphaned \cup {cur} ELSE orphaned
    /\ pc' = "down"
    /\ mem' = book
    /\ cur' = NoSid
    /\ todo' = {}
    /\ live' = [s \in Sids |-> {}]
    /\ flags' = {}
    /\ held' = [s \in Sids |-> 0]
    /\ UNCHANGED <<scene, entryVars, book, broker, seen, seenPos, resolve>>

(* Connecting loads the open orders, the day's executions and positions.   *)
Restart ==
    /\ pc = "down"
    /\ pc' = "idle"
    /\ seen' = orders
    /\ seenPos' = [c \in Contracts |-> Position(c)]
    /\ UNCHANGED <<scene, entryVars, book, broker, held, mem, cur, todo, live, flags,
                   resolve, orphaned, spent>>

-----------------------------------------------------------------------------
(* The entry, as the outbox handles it (SupervisedOutbox): its records are *)
(* true, and a pending intent past its deadline is not sent.               *)

RecordIntent(s) ==
    /\ Idle
    /\ lane[s] # "absent"
    /\ doc[s] = "none"
    /\ doc' = [doc EXCEPT ![s] = "pending"]
    /\ UNCHANGED <<scene, lapsed, spec, book, broker, views, ticking, resolve, orphaned, spent>>

Lapse(s) ==
    /\ doc[s] = "pending"
    /\ ~lapsed[s]
    /\ lapsed' = [lapsed EXCEPT ![s] = TRUE]
    /\ UNCHANGED <<scene, doc, spec, book, broker, views, ticking, resolve, orphaned, spent>>

(* The spec file, then a planned book entry (a load seeds the same).       *)
Register(s) ==
    /\ Idle
    /\ doc[s] = "pending"
    /\ s \notin spec
    /\ spec' = spec \cup {s}
    /\ UNCHANGED <<scene, doc, lapsed, book, broker, views, ticking, resolve, orphaned, spent>>

EnterOrder(s) ==
    /\ orders' = [orders EXCEPT ![s] = <<NewOrder(Quantity[s])>>]
    /\ seen' = orders'

Send_Late(s) ==
    /\ Idle
    /\ doc[s] = "pending"
    /\ s \in spec
    /\ doc' = [doc EXCEPT ![s] = "acknowledged"]
    /\ EnterOrder(s)
    /\ UNCHANGED <<scene, lapsed, spec, book, asked, aged, seenPos, held, ticking, resolve,
                   orphaned, spent>>

Send(s) ==
    /\ Idle
    /\ doc[s] = "pending"
    /\ s \in spec
    /\ ~lapsed[s]
    /\ \/ /\ doc' = [doc EXCEPT ![s] = "acknowledged"]
          /\ EnterOrder(s)
       \/ /\ doc' = [doc EXCEPT ![s] = "rejected"]
          /\ UNCHANGED <<orders, seen>>
       \/ /\ doc' = [doc EXCEPT ![s] = "uncertain"]
          /\ EnterOrder(s) \/ UNCHANGED <<orders, seen>>
    /\ UNCHANGED <<scene, lapsed, spec, book, asked, aged, seenPos, held, ticking, resolve,
                   orphaned, spent>>

(* The process dies inside send, before or after the order left.           *)
SendDies(s) ==
    /\ Idle
    /\ doc[s] = "pending"
    /\ s \in spec
    /\ ~lapsed[s]
    /\ spent.crashes < scene.max.crashes
    /\ spent' = [spent EXCEPT !.crashes = @ + 1]
    /\ doc' = [doc EXCEPT ![s] = "sending"]
    /\ EnterOrder(s) \/ UNCHANGED <<orders, seen>>
    /\ pc' = "down"
    /\ held' = [x \in Sids |-> 0]
    /\ UNCHANGED <<scene, lapsed, spec, book, asked, aged, seenPos, mem, cur, todo, live, flags,
                   resolve, orphaned>>

Recover(s) ==
    /\ doc[s] = "sending"
    /\ doc' = [doc EXCEPT ![s] = "uncertain"]
    /\ UNCHANGED <<scene, lapsed, spec, book, broker, views, ticking, resolve, orphaned, spent>>

Reconcile(s) ==
    /\ doc[s] = "uncertain"
    /\ doc' = [doc EXCEPT ![s] = IF orders[s] # <<>> THEN "confirmed_submitted"
                                 ELSE "confirmed_not_submitted"]
    /\ UNCHANGED <<scene, lapsed, spec, book, broker, views, ticking, resolve, orphaned, spent>>

-----------------------------------------------------------------------------
(* The broker, the market and the operator.                                *)

Fill(s, o) ==
    /\ o \in Working(s)
    /\ LET n == orders[s][o].filled + 1
       IN orders' = [orders EXCEPT ![s][o].filled = n, ![s][o].done = n = orders[s][o].qty]
    /\ UNCHANGED <<scene, entryVars, book, asked, aged, views, ticking, resolve, orphaned, spent>>

CancelLands(s, o) ==
    /\ <<s, o>> \in asked
    /\ o \in Working(s)
    /\ orders' = [orders EXCEPT ![s][o].done = TRUE]
    /\ UNCHANGED <<scene, entryVars, book, asked, aged, views, ticking, resolve, orphaned, spent>>

Dies(s, o) ==
    /\ o \in Working(s)
    /\ o # 1 => spent.deaths < scene.max.deaths
    /\ spent' = [spent EXCEPT !.deaths = IF o # 1 THEN @ + 1 ELSE @]
    /\ orders' = [orders EXCEPT ![s][o].done = TRUE]
    /\ UNCHANGED <<scene, entryVars, book, asked, aged, views, ticking, resolve, orphaned>>

(* A new session while the owner is down: day orders are gone, and their   *)
(* executions are no longer reported.                                      *)
NewDay ==
    /\ pc = "down"
    /\ scene.overnight
    /\ orders' = [s \in Sids |-> [o \in DOMAIN orders[s] |-> [orders[s][o] EXCEPT !.done = TRUE]]]
    /\ aged' = UNION {{s} \X DOMAIN orders[s] : s \in Sids}
    /\ aged' # aged
    /\ UNCHANGED <<scene, entryVars, book, asked, views, ticking, resolve, orphaned, spent>>

(* The operator confirms a position that is flat at the broker.            *)
ConfirmFlat(s) ==
    /\ book[s].status = "exit_working"
    /\ s \notin resolve
    /\ Net(s) = 0
    /\ Working(s) = {}
    /\ resolve' = resolve \cup {s}
    /\ UNCHANGED <<scene, entryVars, book, broker, views, ticking, orphaned, spent>>

-----------------------------------------------------------------------------
Init ==
    /\ scene \in Scenarios
    /\ spec = {s \in Sids : lane[s] = "held"}
    /\ doc = [s \in Sids |-> IF s \in spec THEN "acknowledged" ELSE "none"]
    /\ lapsed = [s \in Sids |-> FALSE]
    /\ book = [s \in Sids |-> IF s \in spec THEN OpenState(Quantity[s]) ELSE NewState]
    /\ mem = book
    /\ orders = [s \in Sids |-> IF s \in spec THEN <<FilledOrder(Quantity[s])>> ELSE <<>>]
    /\ asked = {}
    /\ seen = orders
    /\ seenPos = [c \in Contracts |-> Position(c)]
    /\ aged = {}
    /\ held = [s \in Sids |-> 0]
    /\ pc = "idle"
    /\ cur = NoSid
    /\ todo = {}
    /\ live = [s \in Sids |-> {}]
    /\ flags = {}
    /\ resolve = {}
    /\ orphaned = {}
    /\ spent = [reprices |-> 0, deaths |-> 0, crashes |-> 0]

OwnerNext ==
    \/ \E kills \in KillSets : TickBegin(kills)
    \/ \E s \in Sids :
          \/ SkipStructure(s) \/ StructureTick(s)
          \/ CancelConfirmed(s) \/ CancelUnconfirmed(s)
          \/ ClearRefused(s) \/ PlaceClose(s) \/ SavePlaced(s)
          \/ SeeOrders(s)
    \/ \E c \in Contracts : SeePosition(c)
    \/ Crash
    \/ Restart

EntryNext ==
    \E s \in Sids :
        \/ RecordIntent(s) \/ Lapse(s) \/ Register(s)
        \/ Send(s) \/ SendDies(s) \/ Recover(s) \/ Reconcile(s)

MarketNext ==
    \/ \E s \in Sids : \E o \in DOMAIN orders[s] : Fill(s, o) \/ CancelLands(s, o) \/ Dies(s, o)
    \/ NewDay
    \/ \E s \in Sids : ConfirmFlat(s)

Next == OwnerNext \/ EntryNext \/ MarketNext

Spec == Init /\ [][Next]_vars

-----------------------------------------------------------------------------
(* Type invariant; the book never records more exits than entries.         *)
StateRecord ==
    [status : Statuses, entryOrder : {0, 1}, filled : Nat, exitOrder : Nat \ {1},
     exitSeen : Nat, exitFilled : Nat, outside : Int]

OrderRecord == [qty : Nat, filled : Nat, done : BOOLEAN]

TypeOK ==
    /\ scene \in Scenarios
    /\ doc \in [Sids -> Docs]
    /\ lapsed \in [Sids -> BOOLEAN]
    /\ spec \subseteq Sids
    /\ book \in [Sids -> StateRecord]
    /\ mem \in [Sids -> StateRecord]
    /\ orders \in [Sids -> Seq(OrderRecord)]
    /\ asked \subseteq Sids \X Nat
    /\ seen \in [Sids -> Seq(OrderRecord)]
    /\ seenPos \in [Contracts -> Int]
    /\ aged \subseteq Sids \X Nat
    /\ held \in [Sids -> Nat]
    /\ pc \in {"down", "idle", "tick", "cancel", "clear", "placed"}
    /\ cur \in Sids \cup {NoSid}
    /\ todo \subseteq Sids
    /\ live \in [Sids -> SUBSET Nat]
    /\ flags \in KillSets \cup {{}}
    /\ resolve \subseteq Sids
    /\ orphaned \subseteq Sids
    /\ spent \in Bounds
    /\ \A b \in DOMAIN spent : spent[b] <= scene.max[b]
    /\ \A s \in Sids : OpenQty(mem[s]) >= 0 /\ OpenQty(book[s]) >= 0

(* "A double close cannot be sent, across restarts too": what a structure  *)
(* sold and its open exits may still sell stays within what it bought.     *)
NeverOverClosed == \A s \in Sids : Sold(s) + Resting(s) <= Bought(s)

(* The same for every structure whose closes were all saved: cancel,       *)
(* confirm, drain and replace, late views, restarts and fills in the       *)
(* downtime never lead to a double close.                                  *)
SavedNeverOverClosed == \A s \in Sids \ orphaned : Sold(s) + Resting(s) <= Bought(s)

(* "An order at the broker is never unowned": every order belongs to a     *)
(* registered structure, and a structure is closed only when no order of   *)
(* it is open and nothing it bought is left, whatever record or evidence   *)
(* closed it.                                                              *)
OwnedUntilFlat ==
    \A s \in Sids : orders[s] # <<>> =>
        /\ s \in spec
        /\ book[s].status = "closed" => Working(s) = {} /\ Net(s) <= 0

(* A structure leaves the entry lane only when its entry is over, with all *)
(* of its fills in the book, and the book never counts an exit fill twice: *)
(* _transitions, evidence and drain across cancels and restarts.           *)
BookIsTrue ==
    \A s \in Sids \ orphaned :
        /\ book[s].status \notin EntryLane /\ orders[s] # <<>> =>
               orders[s][1].done /\ book[s].filled = orders[s][1].filled
        /\ book[s].exitFilled <= Sold(s)

(* "flat exit -> CLOSED": an option position that is flat at the broker,   *)
(* and seen so, is closed by its next tick, or that tick asks the operator *)
(* for RESOLVE-FLAT; no structure stays open with nothing behind it.       *)
FlatIsClosed ==
    \A s \in spec \ orphaned :
        /\ Idle
        /\ lane[s] = "option"
        /\ seen[s] = orders[s]
        /\ PositionSeen(s) = Position(Contract[s])
        /\ book[s].status \in {"open", "exit_working"}
        /\ Net(s) = 0
        /\ Working(s) = {}
        => \E a \in {Advance(s)} : a.st.status = "closed" \/ a.ask

(* CLOSED is terminal, and an entry that was given up (rejected, not       *)
(* submitted, not sent by its deadline) never reaches the broker later.    *)
ClosedIsFinal ==
    [][\A s \in Sids : book[s].status = "closed" =>
            book'[s] = book[s] /\ orders'[s] = orders[s]]_vars
=============================================================================
