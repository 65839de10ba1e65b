-------------------------- MODULE ExitOwner_proof --------------------------
(***************************************************************************)
(* Proofs about ExitOwner.                                                 *)
(***************************************************************************)
EXTENDS ExitOwner, FiniteSetTheorems, SequenceTheorems, TLAPS

-----------------------------------------------------------------------------
(* The inductive invariant.                                                *)

Busy(s) == pc \in {"cancel", "clear", "placed"} /\ cur = s

Last(s) == Len(orders[s])

\* The broker's orders of a structure and the owner's view of them: only the
\* last one may be open, and the view is an earlier state of each.
BrokerOf(s) ==
    /\ DOMAIN seen[s] = DOMAIN orders[s]
    /\ \A o \in DOMAIN orders[s] :
          /\ orders[s][o].filled <= orders[s][o].qty
          /\ orders[s][o].filled = orders[s][o].qty => orders[s][o].done
          /\ seen[s][o].filled <= orders[s][o].filled
          /\ seen[s][o].done => seen[s][o] = orders[s][o]
          /\ \A q \in DOMAIN orders[s] :
                o < q => orders[s][o].done /\ (seen[s][q].done => seen[s][o].done)
    /\ orders[s] # <<>> => orders[s][1].qty = Quantity[s]

\* What the outbox says of the entry is true, and only a registered
\* structure has orders.
DocOf(s) ==
    /\ doc[s] \in {"none", "pending", "rejected", "confirmed_not_submitted"}
          => orders[s] = <<>>
    /\ doc[s] \in {"acknowledged", "confirmed_submitted"} => orders[s] # <<>>
    /\ s \notin spec => orders[s] = <<>> /\ book[s] = NewState

\* Executions of an earlier session are those of orders that are over.
AgedOf(s) ==
    /\ \A o \in Nat : <<s, o>> \in aged =>
          /\ o \in DOMAIN orders[s]
          /\ orders[s][o].done
          /\ pc # "down" => seen[s][o].done
    /\ held[s] # 0 => /\ pc # "down"
                      /\ held[s] \in DOMAIN orders[s]
                      /\ <<s, held[s]>> \notin aged

\* The open orders as the tick found them.
LiveOf(s) ==
    s \in todo /\ ~(pc = "placed" /\ cur = s) =>
        /\ live[s] \subseteq DOMAIN orders[s]
        /\ \A o \in DOMAIN orders[s] : ~seen[s][o].done => o \in live[s]
        /\ \A o \in live[s] : /\ <<s, o>> \notin aged
                              /\ \A q \in DOMAIN orders[s] : o < q => q \in live[s]

\* Where the owner is in a tick.
Course ==
    /\ pc \in {"down", "idle"} => todo = {} /\ \A s \in Sids : live[s] = {}
    /\ todo \subseteq spec
    /\ \A s \in todo : book[s].status # "closed"
    /\ pc \in {"cancel", "clear", "placed"} => cur \in todo
    /\ pc = "cancel" =>
          /\ held[cur] # 0
          /\ held[cur] = 1 => mem[cur].status = "enter_working"
          /\ held[cur] # 1 => /\ mem[cur].status = "exit_working"
                              /\ mem[cur].exitOrder = held[cur]
                              /\ held[cur] = Last(cur)
    /\ pc = "clear" => mem[cur].status = "exit_working" /\ OpenQty(mem[cur]) > 0
    /\ pc = "placed" => mem[cur].status = "exit_working" /\ mem[cur].exitOrder = Last(cur)

\* The entry can no longer be sent.
GivenUp(s) ==
    \/ doc[s] \in {"rejected", "confirmed_not_submitted"}
    \/ doc[s] = "pending" /\ lapsed[s]

\* A state of a structure with orders os, saved or not: what it counts, and
\* what it may still count of its order, is within what was bought.
Sane(st, os) ==
    /\ st.status = "planned" => st = NewState
    /\ st.status = "enter_working" => st.entryOrder = 1 /\ st.exitOrder = 0
    /\ st.status \notin {"planned", "closed"} => os # <<>>
    /\ st.status \in {"open", "exit_working"} => os[1].done
    /\ st.status = "closed" => \A o \in DOMAIN os : os[o].done
    /\ st.filled <= (IF os = <<>> THEN 0 ELSE os[1].filled)
    /\ st.exitFilled <= st.filled
    /\ st.exitOrder = 0 => st.exitSeen = 0 /\ st.exitFilled = 0
    /\ st.exitOrder # 0 =>
          /\ st.exitOrder \in DOMAIN os
          /\ st.exitSeen <= os[st.exitOrder].filled
          /\ st.status # "closed" =>
                st.exitFilled - st.exitSeen + os[st.exitOrder].qty <= st.filled

\* The session's orders whose executions are not reported any more.
Old(s) == {o \in DOMAIN orders[s] : <<s, o>> \in aged}

\* What the book has of the entry when it leaves the entry lane; an option
\* whose entry is of an earlier session cannot leave it but closed.
Entered(st, os, old, ln) ==
    IF st.status \notin EntryLane THEN st.filled
    ELSE IF 1 \notin old THEN (IF os = <<>> THEN 0 ELSE os[1].filled)
    ELSE IF ln \in {"equity", "held"} THEN st.filled ELSE 0

\* The last order is one the book may not know yet and the next tick may
\* act on; what it may sell is within what the book has left.
Adoptable(s) ==
    /\ orders[s] # <<>>
    /\ IF pc = "down" THEN ~orders[s][Last(s)].done
       ELSE ~seen[s][Last(s)].done \/ Last(s) \in live[s]

Room(st, os, old, ln) ==
    st.status # "closed" /\ Len(os) > 1 /\ Len(os) > st.exitOrder
    => st.exitFilled + os[Len(os)].qty <= Entered(st, os, old, ln)

BookOf(s) ==
    /\ Sane(book[s], orders[s]) /\ Sane(mem[s], orders[s])
    /\ Adoptable(s) => /\ Room(book[s], orders[s], Old(s), lane[s])
                       /\ Room(mem[s], orders[s], Old(s), lane[s])
    /\ book[s].status = "closed" /\ orders[s] = <<>> => GivenUp(s)
    /\ ~Busy(s) => mem[s] = book[s]
    /\ Busy(s) /\ mem[s].status \notin EntryLane =>
          /\ book[s].exitFilled <= mem[s].exitFilled
          /\ mem[s].filled <= Entered(book[s], orders[s], Old(s), lane[s])

IInv ==
    /\ TypeOK
    /\ Course
    /\ \A s \in Sids : BrokerOf(s) /\ DocOf(s) /\ AgedOf(s) /\ LiveOf(s) /\ BookOf(s)
-----------------------------------------------------------------------------
(* Sums.  Total folds + over a finite set, choosing its elements; the      *)
(* recursion behind it has exactly one solution, by induction on subsets   *)
(* (a least counterexample, from FiniteSetTheorems' well-foundedness).     *)

IntOn(f, S) == \A x \in S : f[x] \in Int

Pick(S) == CHOOSE x \in S : TRUE

Solves(f, S, g) ==
    g = [t \in SUBSET S |-> IF t = {} THEN 0 ELSE f[Pick(t)] + g[t \ {Pick(t)}]]

\* A set of subsets that is not empty has an element without a smaller one.
LEMMA LeastSet ==
  ASSUME NEW S, IsFiniteSet(S), NEW D, D \subseteq SUBSET S, D # {}
  PROVE  \E t \in D : \A u \in D : ~(u \subseteq t /\ u # t)
<1>1. IsWellFoundedOn(StrictSubsetOrdering(S), SUBSET S)
  BY FS_StrictSubsetOrderingWellFounded, FS_FiniteSubsetsOfFinite
<1>2. PICK t \in D : \A u \in D : ~(<<u, t>> \in StrictSubsetOrdering(S))
  BY <1>1, WFMin
<1> QED BY <1>2 DEF StrictSubsetOrdering

LEMMA PickIn == ASSUME NEW t, t # {} PROVE Pick(t) \in t
BY DEF Pick

LEMMA TotalUnfold ==
  ASSUME NEW f, NEW S
  PROVE  Total(f, S) = (CHOOSE g : Solves(f, S, g))[S]
BY DEF Total, MapThenSumSet, MapThenFoldSet, Solves, Pick
LEMMA SolvesAt ==
  ASSUME NEW f, NEW S, NEW g, Solves(f, S, g), NEW t \in SUBSET S
  PROVE  /\ t = {} => g[t] = 0
         /\ t # {} => g[t] = f[Pick(t)] + g[t \ {Pick(t)}]
BY DEF Solves

LEMMA SolvesUnique ==
  ASSUME NEW f, NEW S, IsFiniteSet(S), NEW g, Solves(f, S, g), NEW h, Solves(f, S, h)
  PROVE  g = h
<1> DEFINE D == {t \in SUBSET S : g[t] # h[t]}
<1>1. SUFFICES D = {}
  <2>1. /\ DOMAIN g = SUBSET S /\ DOMAIN h = SUBSET S
        /\ g = [t \in DOMAIN g |-> g[t]] /\ h = [t \in DOMAIN h |-> h[t]]
    BY DEF Solves
  <2> QED BY <1>1, <2>1
<1>2. SUFFICES ASSUME D # {} PROVE FALSE
  OBVIOUS
<1>3. PICK t \in D : \A u \in D : ~(u \subseteq t /\ u # t)
  <2> HIDE DEF D
  <2>1. D \subseteq SUBSET S
    BY DEF D
  <2> QED BY <1>2, <2>1, LeastSet
<1>4. t # {}
  BY <1>3, SolvesAt
<1>5. Pick(t) \in t
  BY <1>4, PickIn
<1>6. t \ {Pick(t)} \in SUBSET S /\ t \ {Pick(t)} \notin D
  BY <1>3, <1>5
<1>7. g[t \ {Pick(t)}] = h[t \ {Pick(t)}]
  BY <1>6
<1>8. g[t] = h[t]
  BY <1>4, <1>7, SolvesAt
<1> QED BY <1>3, <1>8

LEMMA SolvesBelow ==
  ASSUME NEW f, NEW S, NEW g, Solves(f, S, g), NEW T \in SUBSET S
  PROVE  Solves(f, T, [t \in SUBSET T |-> g[t]])
<1>1. \A t \in SUBSET T : t \in SUBSET S /\ t \ {Pick(t)} \in SUBSET T
  OBVIOUS
<1>2. \A t \in SUBSET T :
         g[t] = IF t = {} THEN 0 ELSE f[Pick(t)] + g[t \ {Pick(t)}]
  BY <1>1, SolvesAt
<1> QED BY <1>1, <1>2 DEF Solves

LEMMA TotalSolves ==
  ASSUME NEW f, NEW S, IsFiniteSet(S), NEW g, Solves(f, S, g)
  PROVE  Total(f, S) = g[S]
<1> DEFINE h == CHOOSE k : Solves(f, S, k)
<1>1. Solves(f, S, h)
  OBVIOUS
<1>2. h = g
  BY <1>1, SolvesUnique
<1> QED BY <1>2, TotalUnfold

LEMMA SolvesExists ==
  ASSUME NEW f, NEW S, IsFiniteSet(S)
  PROVE  \E g : Solves(f, S, g)
<1> DEFINE D == {t \in SUBSET S : ~\E g : Solves(f, t, g)}
<1>1. SUFFICES ASSUME D # {} PROVE FALSE
  BY DEF D
<1>2. PICK T \in D : \A u \in D : ~(u \subseteq T /\ u # T)
  <2> HIDE DEF D
  <2>1. D \subseteq SUBSET S
    BY DEF D
  <2> QED BY <1>1, <2>1, LeastSet
<1>3. \A u \in SUBSET T : u # T => \E g : Solves(f, u, g)
  BY <1>2
<1>4. \A u \in SUBSET T : IsFiniteSet(u)
  BY <1>2, FS_Subset
<1> DEFINE H(u) == CHOOSE g : Solves(f, u, g)
<1>5. \A u \in SUBSET T : u # T => Solves(f, u, H(u))
  BY <1>3
<1> DEFINE V(u) == IF u = {} THEN 0 ELSE f[Pick(u)] + Total(f, u \ {Pick(u)})
           G == [u \in SUBSET T |-> V(u)]
<1> HIDE DEF D, H
<1>6. \A u \in SUBSET T : u # T => V(u) = Total(f, u)
  <2> SUFFICES ASSUME NEW u \in SUBSET T, u # T PROVE V(u) = Total(f, u)
    OBVIOUS
  <2>1. Solves(f, u, H(u)) /\ IsFiniteSet(u)
    BY <1>4, <1>5
  <2>2. Total(f, u) = H(u)[u]
    BY <2>1, TotalSolves
  <2>3. CASE u = {}
    BY <2>1, <2>2, <2>3, SolvesAt
  <2>4. CASE u # {}
    <3> DEFINE w == u \ {Pick(u)}
    <3>1. w \in SUBSET u /\ IsFiniteSet(w)
      BY <1>4
    <3>2. Solves(f, w, [t \in SUBSET w |-> H(u)[t]])
      BY <2>1, <3>1, SolvesBelow
    <3>3. Total(f, w) = H(u)[w]
      BY <3>1, <3>2, TotalSolves
    <3>4. H(u)[u] = f[Pick(u)] + H(u)[w]
      BY <2>1, <2>4, SolvesAt
    <3> QED BY <2>2, <2>4, <3>3, <3>4
  <2> QED BY <2>3, <2>4
<1>7. \A u \in SUBSET T : u # {} => u \ {Pick(u)} \in SUBSET T /\ u \ {Pick(u)} # T
  BY PickIn
<1>8. Solves(f, T, G)
  <2>1. \A u \in SUBSET T :
           V(u) = IF u = {} THEN 0 ELSE f[Pick(u)] + G[u \ {Pick(u)}]
    BY <1>6, <1>7
  <2> HIDE DEF V
  <2> QED BY <2>1 DEF Solves
<1> QED BY <1>2, <1>8 DEF D

\* What the sum does: nothing over the empty set, and one element more.
LEMMA TotalNone == ASSUME NEW f PROVE Total(f, {}) = 0
<1>1. IsFiniteSet({})
  BY FS_EmptySet
<1>2. PICK g : Solves(f, {}, g)
  BY <1>1, SolvesExists
<1>3. Total(f, {}) = g[{}]
  BY <1>1, <1>2, TotalSolves
<1>4. {} \in SUBSET {}
  OBVIOUS
<1>5. g[{}] = 0
  BY <1>2, <1>4, SolvesAt
<1> QED BY <1>3, <1>5

LEMMA TotalPick ==
  ASSUME NEW f, NEW S, IsFiniteSet(S), S # {}
  PROVE  Total(f, S) = f[Pick(S)] + Total(f, S \ {Pick(S)})
<1> DEFINE T == S \ {Pick(S)}
<1>1. PICK g : Solves(f, S, g)
  BY SolvesExists
<1>2. T \in SUBSET S /\ IsFiniteSet(T)
  BY FS_Subset
<1>3. Solves(f, T, [t \in SUBSET T |-> g[t]])
  BY <1>1, <1>2, SolvesBelow
<1>4. Total(f, T) = g[T]
  BY <1>2, <1>3, TotalSolves
<1>5. g[S] = f[Pick(S)] + g[T]
  BY <1>1, SolvesAt
<1> QED BY <1>1, <1>4, <1>5, TotalSolves
LEMMA TotalInt ==
  ASSUME NEW f, NEW S, IsFiniteSet(S), IntOn(f, S)
  PROVE  Total(f, S) \in Int
<1> DEFINE D == {t \in SUBSET S : Total(f, t) \notin Int}
<1>1. SUFFICES ASSUME D # {} PROVE FALSE
  BY DEF D
<1>2. PICK t \in D : \A u \in D : ~(u \subseteq t /\ u # t)
  <2> HIDE DEF D
  <2>1. D \subseteq SUBSET S
    BY DEF D
  <2> QED BY <1>1, <2>1, LeastSet
<1>3. CASE t = {}
  BY <1>2, <1>3, TotalNone
<1>4. CASE t # {}
  <2>1. t \in SUBSET S /\ IsFiniteSet(t) /\ Pick(t) \in t
    BY <1>2, <1>4, FS_Subset, PickIn
  <2>2. t \ {Pick(t)} \notin D
    BY <1>2, <2>1
  <2>3. Total(f, t \ {Pick(t)}) \in Int /\ f[Pick(t)] \in Int
    BY <2>1, <2>2 DEF IntOn
  <2>4. Total(f, t) = f[Pick(t)] + Total(f, t \ {Pick(t)})
    BY <1>4, <2>1, TotalPick
  <2> QED BY <1>2, <2>3, <2>4
<1> QED BY <1>3, <1>4

LEMMA TotalAgree ==
  ASSUME NEW f, NEW h, NEW S, IsFiniteSet(S), \A x \in S : f[x] = h[x]
  PROVE  Total(f, S) = Total(h, S)
<1> DEFINE D == {t \in SUBSET S : Total(f, t) # Total(h, t)}
<1>1. SUFFICES ASSUME D # {} PROVE FALSE
  BY DEF D
<1>2. PICK t \in D : \A u \in D : ~(u \subseteq t /\ u # t)
  <2> HIDE DEF D
  <2>1. D \subseteq SUBSET S
    BY DEF D
  <2> QED BY <1>1, <2>1, LeastSet
<1>3. CASE t = {}
  BY <1>2, <1>3, TotalNone
<1>4. CASE t # {}
  <2>1. t \in SUBSET S /\ IsFiniteSet(t) /\ Pick(t) \in t
    BY <1>2, <1>4, FS_Subset, PickIn
  <2>2. t \ {Pick(t)} \notin D
    BY <1>2, <2>1
  <2>3. Total(f, t \ {Pick(t)}) = Total(h, t \ {Pick(t)}) /\ f[Pick(t)] = h[Pick(t)]
    BY <2>1, <2>2
  <2>4. /\ Total(f, t) = f[Pick(t)] + Total(f, t \ {Pick(t)})
        /\ Total(h, t) = h[Pick(t)] + Total(h, t \ {Pick(t)})
    BY <1>4, <2>1, TotalPick
  <2> QED BY <1>2, <2>3, <2>4
<1> QED BY <1>3, <1>4

\* Any element may be taken out, not only the one the fold picks.
LEMMA TotalWith ==
  ASSUME NEW f, NEW S, IsFiniteSet(S), IntOn(f, S), NEW x \in S
  PROVE  Total(f, S) = f[x] + Total(f, S \ {x})
<1> DEFINE D == {t \in SUBSET S : \E y \in t : Total(f, t) # f[y] + Total(f, t \ {y})}
<1>1. SUFFICES ASSUME D # {} PROVE FALSE
  <2>1. S \in SUBSET S /\ S \notin D
    BY <1>1
  <2> QED BY <2>1
<1>2. PICK t \in D : \A u \in D : ~(u \subseteq t /\ u # t)
  <2> HIDE DEF D
  <2>1. D \subseteq SUBSET S
    BY DEF D
  <2> QED BY <1>1, <2>1, LeastSet
<1>3. PICK y \in t : Total(f, t) # f[y] + Total(f, t \ {y})
  BY <1>2
<1>4. t \in SUBSET S /\ t # {} /\ Pick(t) \in t
  BY <1>2, <1>3, PickIn
<1> DEFINE c == Pick(t)
<1>5. Total(f, t) = f[c] + Total(f, t \ {c})
  BY <1>4, FS_Subset, TotalPick
<1>6. y # c
  BY <1>3, <1>5
<1>7. /\ Total(f, t \ {c}) = f[y] + Total(f, (t \ {c}) \ {y})
      /\ Total(f, t \ {y}) = f[c] + Total(f, (t \ {y}) \ {c})
  <2>1. /\ t \ {c} \in SUBSET S /\ t \ {c} \notin D /\ y \in t \ {c}
        /\ t \ {y} \in SUBSET S /\ t \ {y} \notin D /\ c \in t \ {y}
    BY <1>2, <1>3, <1>4, <1>6
  <2> HIDE DEF c
  <2> QED BY <2>1
<1>8. (t \ {c}) \ {y} = (t \ {y}) \ {c}
  OBVIOUS
<1>9. f[y] \in Int /\ f[c] \in Int /\ Total(f, (t \ {c}) \ {y}) \in Int
  <2>1. /\ (t \ {c}) \ {y} \in SUBSET S /\ IsFiniteSet((t \ {c}) \ {y})
        /\ IntOn(f, (t \ {c}) \ {y})
    BY <1>4, FS_Subset DEF IntOn
  <2> QED BY <1>3, <1>4, <2>1, TotalInt DEF IntOn
<1> DEFINE B == Total(f, (t \ {c}) \ {y})
<1>10. Total(f, t) = f[c] + (f[y] + B)
  BY <1>5, <1>7
<1>11. Total(f, t \ {y}) = f[c] + B
  BY <1>7, <1>8
<1> HIDE DEF c, B, D
<1>12. f[c] + (f[y] + B) = f[y] + (f[c] + B)
  BY <1>9 DEF B
<1> QED BY <1>3, <1>10, <1>11, <1>12

LEMMA TotalOne == ASSUME NEW f, NEW x, f[x] \in Int PROVE Total(f, {x}) = f[x]
<1>1. IsFiniteSet({x}) /\ IntOn(f, {x}) /\ {x} \ {x} = {}
  BY FS_Singleton DEF IntOn
<1> QED BY <1>1, TotalWith, TotalNone
-----------------------------------------------------------------------------
(* The structure of orders and states.                                     *)

LEMMA OrdersShape ==
  ASSUME NEW os \in Seq(OrderRecord)
  PROVE  /\ Len(os) \in Nat /\ DOMAIN os = 1..Len(os)
         /\ os # <<>> <=> Len(os) > 0
         /\ os # <<>> => 1 \in DOMAIN os /\ Len(os) \in DOMAIN os
         /\ \A o \in DOMAIN os : /\ os[o] \in OrderRecord /\ o \in Nat /\ o > 0 /\ o <= Len(os)
                                 /\ os[o].qty \in Nat /\ os[o].filled \in Nat
                                 /\ os[o].done \in BOOLEAN
<1>1. Len(os) \in Nat /\ DOMAIN os = 1..Len(os) /\ \A o \in 1..Len(os) : os[o] \in OrderRecord
  OBVIOUS
<1>2. os # <<>> <=> Len(os) > 0
  OBVIOUS
<1>3. \A r \in OrderRecord : r.qty \in Nat /\ r.filled \in Nat /\ r.done \in BOOLEAN
  BY DEF OrderRecord
<1>4. Len(os) > 0 => 1 \in DOMAIN os /\ Len(os) \in DOMAIN os
  BY <1>1
<1>5. \A o \in DOMAIN os : o \in Nat /\ o > 0 /\ o <= Len(os) /\ os[o] \in OrderRecord
  BY <1>1
<1> QED BY <1>1, <1>2, <1>3, <1>4, <1>5

LEMMA StateFields ==
  ASSUME NEW st \in StateRecord
  PROVE  /\ st.status \in Statuses /\ st.entryOrder \in {0, 1}
         /\ st.filled \in Nat /\ st.exitFilled \in Nat /\ st.exitSeen \in Nat
         /\ st.exitOrder \in Nat /\ st.exitOrder # 1 /\ st.outside \in Int
BY DEF StateRecord

Bounded(os) == \A o \in DOMAIN os : os[o].filled <= os[o].qty

LEMMA DrainExitSane ==
  ASSUME NEW st \in StateRecord, NEW os \in Seq(OrderRecord), Sane(st, os), Bounded(os),
         st.status \in {"open", "exit_working"},
         NEW o \in DOMAIN os, o # 1, NEW q \in Nat, q <= os[o].filled,
         o # st.exitOrder => st.exitFilled + os[o].qty <= st.filled
  PROVE  LET d == DrainExit(st, o, q)
         IN  /\ d \in StateRecord /\ Sane(d, os)
             /\ d.status = st.status /\ d.filled = st.filled /\ d.entryOrder = st.entryOrder
             /\ d.exitOrder = o /\ st.exitFilled <= d.exitFilled
<1> DEFINE before == IF st.exitOrder = o THEN st.exitSeen ELSE 0
           now == IF q < before THEN before ELSE q
           d == [st EXCEPT !.exitOrder = o, !.exitSeen = now,
                           !.exitFilled = @ + now - before]
<1>1. DrainExit(st, o, q) = d
  BY DEF DrainExit
<1>2. /\ st.filled \in Nat /\ st.exitFilled \in Nat /\ st.exitSeen \in Nat
      /\ st.exitOrder \in Nat
      /\ o \in Nat /\ o > 1 /\ os[o].qty \in Nat /\ os[o].filled \in Nat
      /\ os[o].filled <= os[o].qty
  BY OrdersShape, StateFields DEF Bounded
<1>3. before \in Nat /\ now \in Nat /\ before <= now
  BY <1>2
<1>4. now <= os[o].filled /\ st.exitFilled - before + os[o].qty <= st.filled
  BY <1>2 DEF Sane
<1> HIDE DEF before, now
<1>5. /\ d.status = st.status /\ d.filled = st.filled /\ d.entryOrder = st.entryOrder
      /\ d.exitOrder = o /\ d.exitSeen = now /\ d.exitFilled = st.exitFilled + now - before
  BY DEF StateRecord
<1>6. d.exitFilled \in Nat /\ st.exitFilled <= d.exitFilled /\ d.exitFilled <= d.filled
      /\ d.exitFilled - d.exitSeen + os[o].qty <= d.filled
  <2> DEFINE x == st.exitFilled
             k == st.filled
             c == os[o].qty
             f == os[o].filled
  <2>1. /\ x \in Nat /\ k \in Nat /\ c \in Nat /\ f \in Nat
        /\ now <= f /\ f <= c /\ x - before + c <= k
    BY <1>2, <1>4
  <2>2. /\ d.exitFilled = x + now - before /\ d.exitSeen = now /\ d.filled = k
    BY <1>5
  <2>3. /\ x + now - before \in Nat
        /\ x <= x + now - before
        /\ x + now - before <= k
        /\ (x + now - before) - now + c <= k
    <3> HIDE DEF d, x, k, c, f
    <3> QED BY <1>3, <2>1
  <2> QED BY <2>2, <2>3
<1>7. d \in StateRecord
  BY <1>2, <1>3, <1>5, <1>6 DEF StateRecord
<1>8. Sane(d, os)
  <2> HIDE DEF d
  <2> QED BY <1>2, <1>4, <1>5, <1>6 DEF Sane
<1> QED BY <1>1, <1>5, <1>6, <1>7, <1>8
LEMMA Shape ==
  ASSUME IInv, NEW s \in Sids
  PROVE  /\ orders[s] \in Seq(OrderRecord) /\ seen[s] \in Seq(OrderRecord)
         /\ mem[s] \in StateRecord /\ book[s] \in StateRecord
         /\ DOMAIN seen[s] = DOMAIN orders[s] /\ Bounded(orders[s])
         /\ \A o \in DOMAIN orders[s] :
               /\ seen[s][o].filled \in Nat /\ seen[s][o].filled <= orders[s][o].filled
               /\ seen[s][o].done \in BOOLEAN
               /\ seen[s][o].done => seen[s][o] = orders[s][o]
         /\ held[s] \in Nat
<1>1. seen[s] \in Seq(OrderRecord) /\ BrokerOf(s)
  BY DEF IInv, TypeOK
<1>2. \A o \in DOMAIN seen[s] : seen[s][o].filled \in Nat /\ seen[s][o].done \in BOOLEAN
  BY <1>1, OrdersShape
<1> QED BY <1>1, <1>2 DEF IInv, TypeOK, BrokerOf, Bounded

LEMMA MaxIs ==
  ASSUME NEW T, NEW n \in T, n \in Nat, \A o \in T : o \in Nat /\ o <= n
  PROVE  Max(T) = n
<1> DEFINE m == CHOOSE x \in T : \A y \in T : x >= y
<1>1. \E x \in T : \A y \in T : x >= y
  OBVIOUS
<1>2. m \in T /\ \A y \in T : m >= y
  BY <1>1
<1>3. Max(T) = m
  BY DEF Max
<1> HIDE DEF m
<1> QED BY <1>2, <1>3

\* The order a tick acts on: the last one when the tick found it open, else
\* one that is over for this process.
LEMMA TradeFacts ==
  ASSUME IInv, pc = "tick", NEW s \in todo, NEW st \in StateRecord, Sane(st, orders[s]),
         st.status \in {"enter_working", "open", "exit_working"},
         NEW t, t = TradeBy(s, st)
  PROVE  /\ t = 0 \/ t \in DOMAIN orders[s]
         /\ t # 0 => <<s, t>> \notin aged
         /\ st.status = "enter_working" =>
               /\ t \in {0, 1}
               /\ t = 0 => seen[s][1].done
         /\ st.status # "enter_working" =>
               /\ t # 1
               /\ t # 0 => t = st.exitOrder \/ t = Last(s)
               /\ t # 0 /\ t # st.exitOrder => Adoptable(s)
               /\ t # Last(s) => ~Adoptable(s) \/ Last(s) = 1
               /\ t = 0 \/ seen[s][t].done => \A o \in DOMAIN orders[s] \ {1} : seen[s][o].done
<1> DEFINE n == Last(s)
           tagged == IF st.status \in EntryLane THEN live[s] \cap {1} ELSE live[s] \ {1}
<1>1. s \in Sids /\ s \in spec
  BY DEF IInv, Course, TypeOK
<1>2. /\ live[s] \subseteq DOMAIN orders[s]
      /\ \A o \in DOMAIN orders[s] : ~seen[s][o].done => o \in live[s]
      /\ \A o \in live[s] : /\ <<s, o>> \notin aged
                            /\ \A q \in DOMAIN orders[s] : o < q => q \in live[s]
  BY <1>1 DEF IInv, LiveOf
<1>3. /\ n \in Nat /\ DOMAIN orders[s] = 1..n /\ n \in DOMAIN orders[s] /\ n > 0
      /\ orders[s] # <<>>
  BY <1>1, Shape, OrdersShape DEF Sane, Last
<1>4. Adoptable(s) <=> n \in live[s]
  BY <1>2, <1>3 DEF Adoptable, Last
<1>5. /\ held[s] # 0 => held[s] \in DOMAIN orders[s] /\ <<s, held[s]>> \notin aged
  BY <1>1 DEF IInv, AgedOf
<1>6. st.exitOrder \in Nat /\ st.exitOrder # 1 /\ st.entryOrder \in {0, 1}
  BY StateFields
<1>7. TradeBy(s, st) =
        IF tagged # {} THEN Max(tagged)
        ELSE IF held[s] # 0
                /\ held[s] = (IF st.status \in EntryLane THEN st.entryOrder ELSE st.exitOrder)
             THEN held[s] ELSE 0
  BY DEF TradeBy
<1>8. CASE st.status = "enter_working"
  <2>1. tagged = live[s] \cap {1} /\ st.status \in EntryLane
    BY <1>8 DEF EntryLane
  <2>2. CASE 1 \in live[s]
    <3>1. tagged = {1}
      BY <2>1, <2>2
    <3>2. Max({1}) = 1
      BY DEF Max
    <3>3. t = 1
      BY <1>7, <3>1, <3>2
    <3> QED BY <1>2, <1>8, <2>2, <3>3
  <2>3. CASE 1 \notin live[s]
    <3>1. tagged = {}
      BY <2>1, <2>3
    <3>2. seen[s][1].done
      BY <1>2, <1>3, <2>3
    <3>3. t = 0 \/ (t = held[s] /\ t # 0 /\ t = st.entryOrder)
      BY <1>7, <2>1, <3>1
    <3> QED BY <1>5, <1>6, <1>8, <3>2, <3>3
  <2> QED BY <2>2, <2>3
<1>9. CASE st.status # "enter_working"
  <2>1. tagged = live[s] \ {1} /\ st.status \notin EntryLane
    BY <1>9 DEF EntryLane
  <2>2. CASE tagged # {}
    <3>1. n \in tagged /\ \A o \in tagged : o \in Nat /\ o <= n
      <4>1. PICK o \in tagged : TRUE
        BY <2>2
      <4>2. o \in live[s] /\ o # 1 /\ o \in 1..n
        BY <1>2, <1>3, <2>1, <4>1
      <4>3. o < n => n \in live[s]
        BY <1>2, <1>3, <4>2
      <4>4. n \in live[s] /\ n # 1
        BY <1>3, <4>2, <4>3
      <4> QED BY <1>2, <1>3, <2>1, <4>4
    <3>2. Max(tagged) = n
      <4> HIDE DEF tagged, n
      <4> QED BY <3>1, <1>3, MaxIs
    <3>3. t = n /\ n # 1 /\ n \in live[s]
      BY <1>7, <2>1, <2>2, <3>1, <3>2
    <3>4. seen[s][n].done => \A o \in DOMAIN orders[s] : seen[s][o].done
      <4>1. BrokerOf(s)
        BY <1>1 DEF IInv
      <4>2. \A o \in DOMAIN orders[s] : o < n /\ seen[s][n].done => seen[s][o].done
        BY <1>3, <4>1 DEF BrokerOf
      <4> QED BY <1>3, <4>2
    <3> QED BY <1>2, <1>3, <1>4, <1>9, <3>3, <3>4
  <2>3. CASE tagged = {}
    <3>1. \A o \in DOMAIN orders[s] \ {1} : o \notin live[s] /\ seen[s][o].done
      BY <1>2, <2>1, <2>3
    <3>2. t = 0 \/ (t # 0 /\ t = held[s] /\ t = st.exitOrder)
      BY <1>7, <2>1, <2>3
    <3>3. Adoptable(s) => n = 1
      BY <1>3, <1>4, <3>1
    <3>4. n = 1 => st.exitOrder = 0
      BY <1>3, <1>6 DEF Sane
    <3> QED BY <1>3, <1>4, <1>5, <1>6, <1>9, <3>1, <3>2, <3>3, <3>4
  <2> QED BY <2>2, <2>3
<1> QED BY <1>8, <1>9
-----------------------------------------------------------------------------
(* What a tick makes of a structure.                                       *)

\* A state r the tick may leave a structure in that had the state m.
Sound(s, m, r) ==
    /\ r \in StateRecord
    /\ Sane(r, orders[s])
    /\ Adoptable(s) => Room(r, orders[s], Old(s), lane[s])
    /\ r.status = "closed" /\ orders[s] = <<>> => GivenUp(s)
    /\ m.exitFilled <= r.exitFilled
    /\ r.status \in {"open", "exit_working"}
          => r.filled <= Entered(m, orders[s], Old(s), lane[s])

LEMMA StatusFields ==
  ASSUME NEW st \in StateRecord, NEW x \in Statuses, NEW r, r = [st EXCEPT !.status = x]
  PROVE  /\ r \in StateRecord /\ r.status = x /\ r.filled = st.filled
         /\ r.exitFilled = st.exitFilled /\ r.exitSeen = st.exitSeen
         /\ r.exitOrder = st.exitOrder /\ r.entryOrder = st.entryOrder
BY DEF StateRecord

\* All orders but the last are over.
LEMMA AllDone ==
  ASSUME IInv, NEW s \in Sids, orders[s] # <<>>, orders[s][Last(s)].done
  PROVE  \A o \in DOMAIN orders[s] : orders[s][o].done
<1>1. BrokerOf(s) /\ orders[s] \in Seq(OrderRecord)
  BY Shape DEF IInv
<1>2. Last(s) \in DOMAIN orders[s] /\ \A o \in DOMAIN orders[s] : o \in Nat /\ o <= Last(s)
      /\ Last(s) \in Nat
  BY <1>1, OrdersShape DEF Last
<1>3. \A o \in DOMAIN orders[s] : o < Last(s) => orders[s][o].done
  BY <1>1, <1>2 DEF BrokerOf
<1> QED BY <1>2, <1>3

\* A structure that has entered nothing has no order left open.
LEMMA NoRoom ==
  ASSUME IInv, pc = "tick", NEW s \in Sids, orders[s] # <<>>,
         NEW st \in StateRecord, st.status # "closed", st.exitOrder = 0, st.exitFilled = 0,
         Adoptable(s) => Room(st, orders[s], Old(s), lane[s]),
         Entered(st, orders[s], Old(s), lane[s]) = 0,
         orders[s][1].done
  PROVE  \A o \in DOMAIN orders[s] : orders[s][o].done
<1> DEFINE os == orders[s]
           n == Last(s)
<1>1. /\ os \in Seq(OrderRecord) /\ Bounded(os) /\ BrokerOf(s) /\ n = Len(os)
      /\ \A o \in DOMAIN os : seen[s][o].done => os[o] = seen[s][o]
  BY Shape DEF IInv, Last
<1>2. n \in DOMAIN os /\ n \in Nat /\ n > 0 /\ os[n].qty \in Nat /\ os[n].filled \in Nat
  BY <1>1, OrdersShape
<1>3. CASE ~Adoptable(s)
  <2>1. seen[s][n].done
    BY <1>3 DEF Adoptable
  <2> QED BY <1>1, <1>2, <2>1, AllDone
<1>4. CASE n = 1
  BY <1>4, AllDone
<1>5. CASE Adoptable(s) /\ n # 1
  <2>1. Len(os) > 1 /\ Len(os) > st.exitOrder
    <3>1. n > 1
      <4> HIDE DEF n
      <4> QED BY <1>2, <1>5
    <3> QED BY <1>1, <3>1
  <2>2. os[n].qty = 0
    BY <1>1, <1>2, <1>5, <2>1 DEF Room
  <2>3. os[n].filled = os[n].qty
    BY <1>1, <1>2, <2>2 DEF Bounded
  <2>4. os[n].done
    BY <1>1, <1>2, <2>3 DEF BrokerOf
  <2> QED BY <2>4, AllDone
<1> QED BY <1>3, <1>4, <1>5

LEMMA TransitionsSound ==
  ASSUME IInv, pc = "tick", NEW s \in Sids, orders[s] # <<>>,
         NEW st \in StateRecord, Sane(st, orders[s]),
         st.status \in {"enter_working", "open", "exit_working"},
         Adoptable(s) => Room(st, orders[s], Old(s), lane[s]),
         NEW t, t = 0 \/ t \in DOMAIN orders[s],
         st.status = "enter_working" =>
            t = 1 /\ 1 \notin Old(s) /\ (seen[s][1].done => st.filled = orders[s][1].filled),
         st.status # "enter_working" /\ (t = 0 \/ seen[s][t].done) =>
            \A o \in DOMAIN orders[s] \ {1} : seen[s][o].done,
         NEW r, r = Transitions(s, st, t)
  PROVE  /\ Sound(s, st, r)
         /\ r.exitOrder = st.exitOrder
         /\ r.status = "enter_working" => st.status = "enter_working"
         /\ r.status = "exit_working" => st.status = "exit_working"
         /\ r.status # "planned"
<1> DEFINE done == t # 0 /\ seen[s][t].done
           os == orders[s]
<1>0. /\ os \in Seq(OrderRecord) /\ Bounded(os) /\ BrokerOf(s)
      /\ 1 \in DOMAIN os /\ Last(s) \in DOMAIN os /\ Last(s) \in Nat
      /\ \A o \in DOMAIN os : os[o].qty \in Nat /\ os[o].filled \in Nat
      /\ os[1].filled <= os[1].qty /\ os[1].qty = Quantity[s]
      /\ os[1].filled = os[1].qty => os[1].done
      /\ st.filled \in Nat /\ st.exitFilled \in Nat /\ st.filled <= os[1].filled
      /\ \A o \in DOMAIN os : seen[s][o].done => os[o] = seen[s][o]
      /\ OpenQty(st) \in Int
  <2>1. BrokerOf(s) /\ os \in Seq(OrderRecord) /\ Bounded(os)
        /\ \A o \in DOMAIN os : seen[s][o].done => seen[s][o] = os[o]
    BY Shape DEF IInv
  <2>2. 1 \in DOMAIN os /\ Last(s) \in DOMAIN os /\ Last(s) \in Nat
        /\ \A o \in DOMAIN os : os[o].qty \in Nat /\ os[o].filled \in Nat
    BY <2>1, OrdersShape DEF Last
  <2>3. st.filled \in Nat /\ st.exitFilled \in Nat
    BY StateFields
  <2> QED BY <2>1, <2>2, <2>3 DEF BrokerOf, Sane, OpenQty
<1>1. CASE st.status = "enter_working" /\ (st.filled >= Quantity[s] \/ (done /\ st.filled > 0))
  <2>0. st.filled # 0
    BY <1>0, <1>1, ScenarioAssumption
  <2>1. r = [st EXCEPT !.status = "open"]
    BY <1>1, <2>0 DEF Transitions
  <2>2. /\ r \in StateRecord /\ r.status = "open" /\ r.filled = st.filled
        /\ r.exitFilled = st.exitFilled /\ r.exitSeen = st.exitSeen
        /\ r.exitOrder = st.exitOrder /\ r.entryOrder = st.entryOrder
    BY <2>1, StatusFields DEF Statuses
  <2>3. os[1].done /\ st.filled = os[1].filled
    <3>1. CASE st.filled >= Quantity[s]
      BY <1>0, <3>1
    <3>2. CASE done
      BY <1>0, <1>1, <3>2
    <3> QED BY <1>1, <3>1, <3>2
  <2>4. Sane(r, os)
    BY <1>1, <2>2, <2>3 DEF Sane
  <2>5. Entered(st, os, Old(s), lane[s]) = os[1].filled /\ Entered(r, os, Old(s), lane[s]) = r.filled
    BY <1>1, <2>2 DEF Entered, EntryLane
  <2>6. Adoptable(s) => Room(r, os, Old(s), lane[s])
    BY <1>1, <2>2, <2>3, <2>5 DEF Room
  <2> QED BY <1>0, <2>2, <2>3, <2>4, <2>5, <2>6 DEF Sound
<1>2. CASE /\ st.status = "enter_working" /\ st.filled = 0 /\ done
           /\ ~(st.filled >= Quantity[s] \/ (done /\ st.filled > 0))
  <2>1. r = [st EXCEPT !.status = "closed"]
    BY <1>2 DEF Transitions, Closed
  <2>2. /\ r \in StateRecord /\ r.status = "closed" /\ r.filled = st.filled
        /\ r.exitFilled = st.exitFilled /\ r.exitSeen = st.exitSeen
        /\ r.exitOrder = st.exitOrder /\ r.entryOrder = st.entryOrder
    BY <2>1, StatusFields DEF Statuses
  <2>3. os[1].done /\ os[1].filled = 0
    BY <1>0, <1>2
  <2>4. Entered(st, os, Old(s), lane[s]) = 0
    BY <1>2, <2>3 DEF Entered, EntryLane
  <2>5. \A o \in DOMAIN os : os[o].done
    BY <1>2, <2>3, <2>4, NoRoom DEF Sane
  <2>6. Sane(r, os)
    BY <1>2, <2>2, <2>5 DEF Sane
  <2> QED BY <1>0, <1>2, <2>2, <2>6 DEF Sound, Room
<1>3. CASE st.status = "exit_working" /\ OpenQty(st) <= 0 /\ (done \/ t = 0)
  <2>1. r = [st EXCEPT !.status = "closed"]
    BY <1>3 DEF Transitions, Closed
  <2>2. /\ r \in StateRecord /\ r.status = "closed" /\ r.filled = st.filled
        /\ r.exitFilled = st.exitFilled /\ r.exitSeen = st.exitSeen
        /\ r.exitOrder = st.exitOrder /\ r.entryOrder = st.entryOrder
    BY <2>1, StatusFields DEF Statuses
  <2>3. \A o \in DOMAIN os : os[o].done
    <3>1. os[1].done
      BY <1>3 DEF Sane
    <3> QED BY <1>0, <1>3, <3>1
  <2>4. Sane(r, os)
    BY <1>3, <2>2, <2>3 DEF Sane
  <2> QED BY <1>0, <1>3, <2>2, <2>4 DEF Sound, Room
<1>4. CASE /\ ~(st.status = "enter_working" /\ (st.filled >= Quantity[s] \/ (done /\ st.filled > 0)))
           /\ ~(st.status = "enter_working" /\ st.filled = 0 /\ done)
           /\ ~(st.status = "exit_working" /\ OpenQty(st) <= 0 /\ (done \/ t = 0))
  <2>1. r = st
    BY <1>4 DEF Transitions
  <2>2. st.status \in {"open", "exit_working"} => st.filled <= Entered(st, os, Old(s), lane[s])
    BY <1>0 DEF Entered, EntryLane
  <2> QED BY <1>0, <2>1, <2>2 DEF Sound
<1> QED BY <1>1, <1>2, <1>3, <1>4
LEMMA DrainEntryFields ==
  ASSUME NEW st \in StateRecord, NEW q \in Nat, NEW d, d = DrainEntry(st, 1, q)
  PROVE  /\ d \in StateRecord /\ d.status = st.status /\ d.entryOrder = 1
         /\ d.filled = (IF q < st.filled THEN st.filled ELSE q)
         /\ d.exitFilled = st.exitFilled /\ d.exitSeen = st.exitSeen
         /\ d.exitOrder = st.exitOrder
BY DEF DrainEntry, StateRecord

LEMMA ResolveEntrySound ==
  ASSUME IInv, pc = "tick", NEW s \in Sids, orders[s] # <<>>,
         NEW st \in StateRecord, Sane(st, orders[s]), st.status = "enter_working",
         Adoptable(s) => Room(st, orders[s], Old(s), lane[s]),
         seen[s][1].done,
         NEW r, r = ResolveEntry(s, st)
  PROVE  Sound(s, st, r) /\ r.status \in {"enter_working", "open", "closed"}
<1> DEFINE os == orders[s]
           qty == Evidence(s, 1)
           drained == IF qty > 0 THEN DrainEntry(st, 1, qty) ELSE st
<1>1. /\ os \in Seq(OrderRecord) /\ Bounded(os) /\ BrokerOf(s)
      /\ 1 \in DOMAIN os /\ os[1].qty \in Nat /\ os[1].filled \in Nat
      /\ seen[s][1] = os[1] /\ os[1].done
      /\ st.filled \in Nat /\ st.exitFilled \in Nat /\ st.filled <= os[1].filled
      /\ st.exitOrder = 0 /\ st.exitFilled = 0 /\ st.exitSeen = 0 /\ st.entryOrder = 1
  <2>1. os \in Seq(OrderRecord) /\ Bounded(os) /\ BrokerOf(s)
        /\ \A o \in DOMAIN os : seen[s][o].done => seen[s][o] = os[o]
    BY Shape DEF IInv
  <2>2. 1 \in DOMAIN os /\ os[1].qty \in Nat /\ os[1].filled \in Nat
    BY <2>1, OrdersShape
  <2>3. st.filled \in Nat /\ st.exitFilled \in Nat
    BY StateFields
  <2> QED BY <2>1, <2>2, <2>3 DEF Sane
<1>2. 1 \in Old(s) <=> <<s, 1>> \in aged
  BY <1>1 DEF Old
<1>3. /\ 1 \notin Old(s) => qty \in {None, os[1].filled}
      /\ 1 \in Old(s) => qty \in {None, 0}
      /\ IsEquity(s) => qty # None
  <2>1. Executed(s, 1) = IF 1 \in Old(s) THEN 0 ELSE os[1].filled
    BY <1>1, <1>2 DEF Executed
  <2> QED BY <1>1, <2>1 DEF Evidence, None
<1>4. r = IF EntryUnproven(s, st, qty) THEN st
          ELSE IF qty > 0 \/ (IsEquity(s) /\ st.filled > 0)
          THEN [drained EXCEPT !.status = "open"]
          ELSE Closed(st)
  BY <1>1 DEF ResolveEntry
<1>5. IsEquity(s) <=> lane[s] \in {"equity", "held"}
  BY DEF IsEquity
<1> HIDE DEF qty
<1>6. CASE EntryUnproven(s, st, qty)
  BY <1>1, <1>4, <1>6 DEF Sound
<1>7. CASE /\ ~EntryUnproven(s, st, qty)
           /\ qty > 0 \/ (IsEquity(s) /\ st.filled > 0)
  <2>1. qty # None
    BY <1>7 DEF EntryUnproven
  <2>2. /\ drained \in StateRecord /\ drained.status = st.status /\ drained.entryOrder = 1
        /\ drained.exitFilled = st.exitFilled /\ drained.exitSeen = st.exitSeen
        /\ drained.exitOrder = st.exitOrder
        /\ drained.filled = Entered(st, os, Old(s), lane[s])
        /\ drained.filled <= os[1].filled /\ drained.filled \in Nat
    <3>1. CASE qty > 0
      <4>1. qty = os[1].filled /\ 1 \notin Old(s)
        BY <1>3, <2>1, <3>1
      <4>2. /\ drained = DrainEntry(st, 1, qty)
            /\ qty \in Nat
        BY <1>1, <3>1, <4>1
      <4>3. Entered(st, os, Old(s), lane[s]) = os[1].filled
        BY <1>1, <4>1 DEF Entered, EntryLane
      <4> HIDE DEF drained
      <4>4. /\ drained \in StateRecord /\ drained.status = st.status /\ drained.entryOrder = 1
            /\ drained.filled = (IF qty < st.filled THEN st.filled ELSE qty)
            /\ drained.exitFilled = st.exitFilled /\ drained.exitSeen = st.exitSeen
            /\ drained.exitOrder = st.exitOrder
        BY <4>2, DrainEntryFields
      <4>5. drained.filled = os[1].filled
        BY <1>1, <4>1, <4>4
      <4> QED BY <1>1, <4>3, <4>4, <4>5
    <3>2. CASE ~(qty > 0)
      <4>1. drained = st /\ IsEquity(s) /\ st.filled > 0
        BY <1>7, <3>2
      <4>2. 1 \in Old(s)
        BY <1>1, <1>3, <2>1, <3>2, <4>1
      <4>3. Entered(st, os, Old(s), lane[s]) = st.filled
        BY <1>5, <4>1, <4>2 DEF Entered, EntryLane
      <4> QED BY <1>1, <4>1, <4>3
    <3> QED BY <3>1, <3>2
  <2>3. r = [drained EXCEPT !.status = "open"]
    BY <1>4, <1>7
  <2> HIDE DEF drained
  <2>4. /\ r \in StateRecord /\ r.status = "open" /\ r.filled = drained.filled
        /\ r.exitFilled = st.exitFilled /\ r.exitSeen = st.exitSeen
        /\ r.exitOrder = st.exitOrder /\ r.entryOrder = 1
    BY <2>2, <2>3, StatusFields DEF Statuses
  <2>5. Sane(r, os)
    BY <1>1, <2>2, <2>4 DEF Sane
  <2>6. Entered(r, os, Old(s), lane[s]) = r.filled
    BY <2>4 DEF Entered, EntryLane
  <2>7. Adoptable(s) => Room(r, os, Old(s), lane[s])
    BY <1>1, <2>2, <2>4, <2>6 DEF Room
  <2> QED BY <1>1, <2>2, <2>4, <2>5, <2>7 DEF Sound
<1>8. CASE /\ ~EntryUnproven(s, st, qty)
           /\ ~(qty > 0 \/ (IsEquity(s) /\ st.filled > 0))
  <2>1. r = [st EXCEPT !.status = "closed"]
    BY <1>4, <1>8 DEF Closed
  <2>2. qty # None
    BY <1>8 DEF EntryUnproven
  <2>3. Entered(st, os, Old(s), lane[s]) = 0
    <3>1. CASE 1 \notin Old(s)
      BY <1>1, <1>3, <1>8, <2>2, <3>1 DEF Entered, EntryLane
    <3>2. CASE 1 \in Old(s)
      BY <1>1, <1>5, <1>8, <3>2 DEF Entered, EntryLane
    <3> QED BY <3>1, <3>2
  <2>4. \A o \in DOMAIN os : os[o].done
    BY <1>1, <2>3, NoRoom
  <2>5. /\ r \in StateRecord /\ r.status = "closed" /\ r.filled = st.filled
        /\ r.exitFilled = st.exitFilled /\ r.exitSeen = st.exitSeen
        /\ r.exitOrder = st.exitOrder /\ r.entryOrder = st.entryOrder
    BY <2>1, StatusFields DEF Statuses
  <2>6. Sane(r, os)
    BY <1>1, <2>4, <2>5 DEF Sane
  <2> QED BY <1>1, <2>5, <2>6 DEF Sound, Room
<1> QED BY <1>6, <1>7, <1>8
LEMMA ResolveExitSound ==
  ASSUME IInv, pc = "tick", NEW s \in Sids, orders[s] # <<>>,
         NEW st \in StateRecord, Sane(st, orders[s]), st.status = "exit_working",
         st.exitOrder # 0,
         ~Adoptable(s) \/ Last(s) = 1,
         \A o \in DOMAIN orders[s] \ {1} : seen[s][o].done,
         NEW a, a = ResolveExit(s, st)
  PROVE  /\ Sound(s, st, a.st) /\ a.t = 0
         /\ a.st.status \in {"exit_working", "closed"}
         /\ a.go => a.st.status # "closed"
<1> DEFINE os == orders[s]
           qty == Evidence(s, st.exitOrder)
           d == ExitProved(s, st, qty)
           open == OpenQty(d)
           pos == PositionSeen(s) - Beside(s, d)
<1>1. /\ os \in Seq(OrderRecord) /\ Bounded(os)
      /\ \A o \in DOMAIN os : seen[s][o].done => os[o] = seen[s][o]
      /\ st.exitOrder \in DOMAIN os /\ st.exitOrder # 1
      /\ seen[s][st.exitOrder].filled \in Nat
      /\ seen[s][st.exitOrder].filled <= os[st.exitOrder].filled
      /\ st.exitFilled \in Nat
  BY Shape, StateFields DEF Sane
<1>2. /\ d \in StateRecord /\ Sane(d, os) /\ d.status = "exit_working" /\ d.filled = st.filled
      /\ d.exitOrder = st.exitOrder /\ st.exitFilled <= d.exitFilled
  <2>1. qty \in {None, 0, seen[s][st.exitOrder].filled}
    BY DEF Evidence, Executed
  <2>2. CASE ~(qty > 0)
    BY <1>1, <2>2 DEF ExitProved
  <2>3. CASE qty > 0
    <3>1. qty \in Nat /\ qty <= os[st.exitOrder].filled
      BY <1>1, <2>1, <2>3 DEF None
    <3>2. d = DrainExit(st, st.exitOrder, qty)
      BY <2>3 DEF ExitProved
    <3> HIDE DEF qty, d
    <3> QED BY <1>1, <3>1, <3>2, DrainExitSane
  <2> QED BY <2>2, <2>3
<1>3. \A o \in DOMAIN os : os[o].done
  <2>1. os[1].done
    BY DEF Sane
  <2> QED BY <1>1, <2>1
<1>4. a = Compared(s, d, open, pos)
  BY DEF ResolveExit, CompareExit
<1>5. d.filled \in Nat /\ d.exitFilled \in Nat /\ open = d.filled - d.exitFilled /\ open \in Int
  BY <1>2, StateFields DEF OpenQty
<1> HIDE DEF d, qty, open, pos
<1>6. \A r : r = Closed(d) => Sound(s, st, r) /\ r.status = "closed"
  <2> SUFFICES ASSUME NEW r, r = Closed(d) PROVE Sound(s, st, r) /\ r.status = "closed"
    OBVIOUS
  <2>1. r = [d EXCEPT !.status = "closed"]
    BY DEF Closed
  <2>2. /\ r \in StateRecord /\ r.status = "closed" /\ r.filled = d.filled
        /\ r.exitFilled = d.exitFilled /\ r.exitSeen = d.exitSeen
        /\ r.exitOrder = d.exitOrder /\ r.entryOrder = d.entryOrder
    BY <1>2, <2>1, StatusFields DEF Statuses
  <2>3. Sane(r, os)
    BY <1>2, <1>3, <2>2 DEF Sane
  <2> QED BY <1>2, <2>2, <2>3 DEF Sound, Room
<1>7. Sound(s, st, d)
  <2>1. Entered(st, os, Old(s), lane[s]) = st.filled
    BY DEF Entered, EntryLane
  <2>2. Last(s) = 1 => Room(d, os, Old(s), lane[s])
    BY <1>1 DEF Room, Last
  <2> QED BY <1>2, <1>5, <2>1, <2>2 DEF Sound
<1>8. CASE pos = open
  <2> DEFINE r == IF open <= 0 THEN Closed(d) ELSE d
  <2>1. a = Reached(r, 0)
    BY <1>4, <1>8 DEF Compared
  <2>2. a.st = r /\ a.t = 0 /\ a.go = (r.status # "closed")
    <3> HIDE DEF r
    <3> QED BY <2>1 DEF Reached
  <2> QED BY <1>2, <1>6, <1>7, <2>2
<1>9. CASE pos # open /\ pos = 0 /\ open > 0 /\ s \in resolve
  <2> DEFINE e == [d EXCEPT !.exitFilled = @ + open]
             r == [e EXCEPT !.status = "closed"]
  <2>1. /\ a.st = r /\ a.t = 0 /\ a.go = (a.st.status # "closed")
    BY <1>4, <1>9 DEF Compared, Reached, Closed
  <2>2. e \in StateRecord /\ e.filled = d.filled /\ e.exitFilled = d.filled
        /\ e.exitSeen = d.exitSeen /\ e.exitOrder = d.exitOrder /\ e.status = d.status
    <3>1. d.exitFilled + open = d.filled
      BY <1>5
    <3> QED BY <1>2, <1>5, <3>1 DEF StateRecord
  <2> HIDE DEF e
  <2>3. /\ r \in StateRecord /\ r.status = "closed" /\ r.filled = e.filled
        /\ r.exitFilled = e.exitFilled /\ r.exitSeen = e.exitSeen
        /\ r.exitOrder = e.exitOrder
    BY <2>2, StatusFields DEF Statuses
  <2> HIDE DEF r
  <2>4. Sane(r, os)
    BY <1>1, <1>2, <1>3, <1>5, <2>2, <2>3 DEF Sane
  <2>5. st.exitFilled <= r.exitFilled
    BY <1>1, <1>2, <1>5, <2>2, <2>3 DEF Sane
  <2> QED BY <2>1, <2>3, <2>4, <2>5 DEF Sound, Room
<1>10. CASE pos # open /\ ~(pos = 0 /\ open > 0 /\ s \in resolve)
  <2>1. /\ a.st = d /\ a.t = 0 /\ a.go = FALSE
    BY <1>4, <1>10 DEF Compared, Reached
  <2> QED BY <1>2, <1>7, <2>1
<1> QED BY <1>8, <1>9, <1>10
\* The orders that a tick acts on, and what it makes of the structure.
LEMMA AdvanceOnSound ==
  ASSUME IInv, pc = "tick", NEW s \in todo, NEW st \in StateRecord, Sane(st, orders[s]),
         st.status \in {"enter_working", "open", "exit_working"},
         Adoptable(s) => Room(st, orders[s], Old(s), lane[s]),
         NEW t, t = TradeBy(s, st),
         NEW a, a = AdvanceOn(s, st, t)
  PROVE  /\ Sound(s, st, a.st) /\ a.t = t
         /\ a.go => /\ a.st.status \in {"enter_working", "open", "exit_working"}
                    /\ a.st.status = "enter_working" => t = 1
                    /\ a.st.status = "exit_working" /\ t # 0 =>
                          t # 1 /\ a.st.exitOrder = t /\ (seen[s][t].done \/ t = Last(s))
<1> DEFINE os == orders[s]
           q == seen[s][t].filled
<1>1. s \in Sids /\ os # <<>>
  BY DEF IInv, TypeOK, Sane
<1>2. /\ os \in Seq(OrderRecord) /\ Bounded(os) /\ 1 \in DOMAIN os
      /\ \A o \in DOMAIN os : /\ seen[s][o].filled \in Nat
                              /\ seen[s][o].filled <= os[o].filled
                              /\ seen[s][o].done => seen[s][o] = os[o]
      /\ \A o \in DOMAIN os : os[o].filled \in Nat
  BY <1>1, Shape, OrdersShape
<1>3. /\ t = 0 \/ t \in DOMAIN orders[s]
      /\ t # 0 => <<s, t>> \notin aged
      /\ st.status = "enter_working" => /\ t \in {0, 1}
                                        /\ t = 0 => seen[s][1].done
      /\ st.status # "enter_working" =>
            /\ t # 1
            /\ t # 0 => t = st.exitOrder \/ t = Last(s)
            /\ t # 0 /\ t # st.exitOrder => Adoptable(s)
            /\ t # Last(s) => ~Adoptable(s) \/ Last(s) = 1
            /\ t = 0 \/ seen[s][t].done => \A o \in DOMAIN orders[s] \ {1} : seen[s][o].done
  BY TradeFacts
<1>4. /\ st.filled \in Nat /\ st.exitFilled \in Nat /\ st.exitSeen \in Nat /\ st.exitOrder \in Nat
      /\ st.filled <= os[1].filled
  BY <1>1, StateFields DEF Sane
<1>5. CASE t # 0 /\ st.status = "enter_working"
  <2> DEFINE d == DrainEntry(st, 1, q)
             r == Transitions(s, d, t)
  <2>1. t = 1 /\ a = Reached(r, t)
    BY <1>3, <1>5 DEF AdvanceOn, Drain
  <2>2. a.st = r /\ a.t = t /\ a.go = (r.status # "closed")
    <3> HIDE DEF r
    <3> QED BY <2>1 DEF Reached
  <2>3. q \in Nat /\ q <= os[1].filled
    BY <1>2, <2>1
  <2>4. /\ d \in StateRecord /\ d.status = st.status /\ d.entryOrder = 1
        /\ d.filled = (IF q < st.filled THEN st.filled ELSE q)
        /\ d.exitFilled = st.exitFilled /\ d.exitSeen = st.exitSeen
        /\ d.exitOrder = st.exitOrder
    <3>1. d = DrainEntry(st, 1, q)
      OBVIOUS
    <3> HIDE DEF d, q
    <3> QED BY <2>3, <3>1, DrainEntryFields
  <2>5. 1 \notin Old(s)
    BY <1>3, <2>1 DEF Old
  <2>6. d.filled <= os[1].filled /\ (seen[s][1].done => d.filled = os[1].filled)
    BY <1>2, <1>4, <2>1, <2>3, <2>4
  <2> HIDE DEF d
  <2>7. Sane(d, os)
    <3>1. /\ st.exitOrder = 0 /\ st.exitSeen = 0 /\ st.exitFilled = 0
          /\ d.filled \in Nat /\ d.status = "enter_working"
      BY <1>4, <1>5, <2>3, <2>4 DEF Sane
    <3> HIDE DEF q
    <3> QED BY <1>1, <2>4, <2>6, <3>1 DEF Sane
  <2>8. /\ Entered(d, os, Old(s), lane[s]) = os[1].filled
        /\ Entered(st, os, Old(s), lane[s]) = os[1].filled
    BY <1>1, <1>5, <2>4, <2>5 DEF Entered, EntryLane
  <2>9. Adoptable(s) => Room(d, os, Old(s), lane[s])
    BY <1>5, <2>4, <2>8 DEF Room
  <2> HIDE DEF r
  <2>10. /\ Sound(s, d, r) /\ r.exitOrder = d.exitOrder
         /\ r.status = "enter_working" => d.status = "enter_working"
         /\ r.status = "exit_working" => d.status = "exit_working"
         /\ r.status # "planned"
    BY <1>1, <1>3, <1>5, <2>1, <2>4, <2>5, <2>6, <2>7, <2>9, TransitionsSound DEF r
  <2>11. Sound(s, st, r)
    BY <2>4, <2>8, <2>10 DEF Sound
  <2>12. r.status \in Statuses
    BY <2>11, StateFields DEF Sound
  <2> QED BY <1>5, <2>1, <2>2, <2>4, <2>10, <2>11, <2>12 DEF Statuses
<1>6. CASE t # 0 /\ st.status # "enter_working"
  <2> DEFINE d == DrainExit(st, t, q)
             r == Transitions(s, d, t)
  <2>1. t # 1 /\ t \in DOMAIN os /\ a = Reached(r, t)
    BY <1>3, <1>6 DEF AdvanceOn, Drain
  <2>2. a.st = r /\ a.t = t /\ a.go = (r.status # "closed")
    <3> HIDE DEF r
    <3> QED BY <2>1 DEF Reached
  <2>3. q \in Nat /\ q <= os[t].filled
    BY <1>2, <2>1
  <2>4. t # st.exitOrder => st.exitFilled + os[t].qty <= st.filled
    <3> SUFFICES ASSUME t # st.exitOrder PROVE st.exitFilled + os[t].qty <= st.filled
      OBVIOUS
    <3>1. t = Len(os) /\ Adoptable(s) /\ Len(os) \in Nat /\ t > 0
      BY <1>2, <1>3, <1>6, <2>1, OrdersShape DEF Last
    <3>2. Len(os) > 1
      <4> DEFINE n == Len(os)
      <4>1. n \in Nat /\ n > 0 /\ n # 1
        BY <2>1, <3>1
      <4> HIDE DEF n
      <4>2. n > 1
        BY <4>1
      <4> QED BY <4>2 DEF n
    <3>3. st.exitOrder = 0 \/ st.exitOrder \in DOMAIN os
      BY DEF Sane
    <3>4. Len(os) > st.exitOrder
      BY <1>2, <1>4, <3>1, <3>3, OrdersShape
    <3>5. Entered(st, os, Old(s), lane[s]) = st.filled
      BY <1>6 DEF Entered, EntryLane
    <3> QED BY <3>1, <3>2, <3>4, <3>5 DEF Room
  <2>5. /\ d \in StateRecord /\ Sane(d, os)
        /\ d.status = st.status /\ d.filled = st.filled /\ d.entryOrder = st.entryOrder
        /\ d.exitOrder = t /\ st.exitFilled <= d.exitFilled
    BY <1>2, <1>6, <2>1, <2>3, <2>4, DrainExitSane
  <2> HIDE DEF d
  <2>6. Adoptable(s) => Room(d, os, Old(s), lane[s])
    BY <1>2, <1>3, <1>6, <2>5, OrdersShape DEF Room, Last
  <2> HIDE DEF r
  <2>7. /\ Sound(s, d, r) /\ r.exitOrder = d.exitOrder
        /\ r.status = "enter_working" => d.status = "enter_working"
        /\ r.status = "exit_working" => d.status = "exit_working"
        /\ r.status # "planned"
    BY <1>1, <1>3, <1>6, <2>1, <2>5, <2>6, TransitionsSound DEF r
  <2>8. /\ Entered(d, os, Old(s), lane[s]) = st.filled
        /\ Entered(st, os, Old(s), lane[s]) = st.filled
    BY <1>6, <2>5 DEF Entered, EntryLane
  <2>9. d.exitFilled \in Nat /\ r.exitFilled \in Nat /\ r.status \in Statuses
    BY <2>5, <2>7, StateFields DEF Sound
  <2>10. Sound(s, st, r)
    BY <1>4, <2>5, <2>7, <2>8, <2>9 DEF Sound
  <2>11. seen[s][t].done \/ t = Last(s)
    <3>1. BrokerOf(s) /\ Last(s) \in DOMAIN os /\ Last(s) \in Nat
          /\ \A o \in DOMAIN os : o \in Nat /\ o <= Last(s)
      BY <1>1, <1>2, OrdersShape DEF IInv, Last
    <3>2. CASE t # Last(s)
      <4>1. Last(s) # 1 /\ t < Last(s)
        <5> DEFINE n == Last(s)
        <5>1. t \in Nat /\ t <= n /\ n \in Nat /\ t # 1 /\ t > 0 /\ t # n
          BY <1>2, <2>1, <3>1, <3>2, OrdersShape
        <5> HIDE DEF n
        <5>2. n # 1 /\ t < n
          BY <5>1
        <5> QED BY <5>2 DEF n
      <4>2. seen[s][Last(s)].done
        BY <1>1, <1>3, <1>6, <3>2, <4>1 DEF Adoptable
      <4> QED BY <2>1, <3>1, <4>1, <4>2 DEF BrokerOf
    <3> QED BY <3>2
  <2> QED BY <1>6, <2>1, <2>2, <2>5, <2>7, <2>9, <2>10, <2>11 DEF Statuses
<1>7. CASE t = 0 /\ st.status = "enter_working"
  <2> DEFINE r == ResolveEntry(s, st)
  <2>1. a = [Reached(r, 0) EXCEPT !.go = r.status = "open"]
    BY <1>7 DEF AdvanceOn
  <2>2. a.st = r /\ a.t = 0 /\ a.go = (r.status = "open")
    BY <2>1 DEF Reached
  <2>3. Sound(s, st, r)
    BY <1>1, <1>3, <1>7, ResolveEntrySound
  <2> QED BY <1>7, <2>2, <2>3
<1>8. CASE t = 0 /\ st.status = "exit_working" /\ st.exitOrder # 0
  <2>1. a = ResolveExit(s, st)
    BY <1>8 DEF AdvanceOn
  <2>2. Last(s) # 0
    BY <1>1, <1>2, OrdersShape DEF Last
  <2> QED BY <1>1, <1>3, <1>8, <2>1, <2>2, ResolveExitSound
<1>9. CASE /\ t = 0 /\ st.status # "enter_working"
           /\ ~(st.status = "exit_working" /\ st.exitOrder # 0)
  <2> DEFINE r == Transitions(s, st, 0)
  <2>1. a = Reached(r, 0)
    BY <1>9 DEF AdvanceOn
  <2>2. a.st = r /\ a.t = 0 /\ a.go = (r.status # "closed")
    <3> HIDE DEF r
    <3> QED BY <2>1 DEF Reached
  <2> HIDE DEF r
  <2>3. /\ Sound(s, st, r) /\ r.exitOrder = st.exitOrder
        /\ r.status = "enter_working" => st.status = "enter_working"
        /\ r.status = "exit_working" => st.status = "exit_working"
        /\ r.status # "planned"
    BY <1>1, <1>3, <1>9, TransitionsSound DEF r
  <2>4. r.status \in Statuses
    BY <2>3, StateFields DEF Sound
  <2> QED BY <1>9, <2>2, <2>3, <2>4 DEF Statuses
<1> QED BY <1>5, <1>6, <1>7, <1>8, <1>9

\* The entry resolved from the outbox and from the view.
LEMMA ResolvePlannedSound ==
  ASSUME IInv, pc = "tick", NEW s \in todo, mem[s].status = "planned",
         NEW r, r = ResolvePlanned(s, mem[s])
  PROVE  /\ Sound(s, mem[s], r)
         /\ r.status \in {"planned", "enter_working", "closed"}
         /\ r.exitFilled = mem[s].exitFilled
         /\ r.status = "enter_working" =>
               Entered(r, orders[s], Old(s), lane[s]) = Entered(mem[s], orders[s], Old(s), lane[s])
<1> DEFINE os == orders[s]
           m == mem[s]
<1>1. s \in Sids /\ m \in StateRecord /\ os \in Seq(OrderRecord)
  BY Shape DEF IInv, TypeOK
<1>2. /\ BookOf(s) /\ DocOf(s) /\ LiveOf(s) /\ Sane(m, os) /\ m = NewState
      /\ Adoptable(s) => Room(m, os, Old(s), lane[s])
  BY <1>1 DEF IInv, BookOf, Sane
<1>3. /\ m.filled = 0 /\ m.exitFilled = 0 /\ m.exitSeen = 0 /\ m.exitOrder = 0
      /\ m.status = "planned"
  BY <1>2 DEF NewState
<1>4. 1 \in live[s] => os # <<>>
  BY <1>1, <1>2, OrdersShape DEF LiveOf
<1>5. CASE r = EnterWorking(m) /\ os # <<>>
  <2>1. /\ r \in StateRecord /\ r.status = "enter_working" /\ r.entryOrder = 1
        /\ r.filled = 0 /\ r.exitFilled = 0 /\ r.exitSeen = 0 /\ r.exitOrder = 0
    BY <1>1, <1>3, <1>5 DEF EnterWorking, StateRecord, Statuses
  <2>2. Sane(r, os)
    BY <1>1, <1>2, <1>3, <1>5, <2>1, OrdersShape DEF Sane
  <2>3. Entered(r, os, Old(s), lane[s]) = Entered(m, os, Old(s), lane[s])
    BY <1>3, <2>1 DEF Entered, EntryLane
  <2>4. Adoptable(s) => Room(r, os, Old(s), lane[s])
    BY <1>2, <1>3, <2>1, <2>3 DEF Room
  <2> QED BY <1>3, <2>1, <2>2, <2>3, <2>4 DEF Sound
<1>6. CASE r = Closed(m) /\ os = <<>> /\ GivenUp(s)
  <2>1. r = [m EXCEPT !.status = "closed"]
    BY <1>6 DEF Closed
  <2>2. /\ r \in StateRecord /\ r.status = "closed" /\ r.filled = m.filled
        /\ r.exitFilled = m.exitFilled /\ r.exitSeen = m.exitSeen
        /\ r.exitOrder = m.exitOrder
    BY <1>1, <2>1, StatusFields DEF Statuses
  <2>3. Sane(r, os)
    BY <1>1, <1>3, <1>6, <2>2 DEF Sane
  <2> QED BY <1>3, <1>6, <2>2, <2>3 DEF Sound, Room
<1>7. CASE r = m
  BY <1>1, <1>2, <1>3, <1>7 DEF Sound
<1>8. \/ r = EnterWorking(m) /\ os # <<>>
      \/ r = Closed(m) /\ os = <<>> /\ GivenUp(s)
      \/ r = m
  <2>1. CASE 1 \in live[s] \/ doc[s] \in {"confirmed_submitted", "acknowledged"}
    <3>1. os # <<>> /\ doc[s] \notin {"confirmed_not_submitted", "rejected", "pending"}
      BY <1>2, <1>4, <2>1 DEF DocOf
    <3>2. r = EnterWorking(m)
      BY <2>1, <3>1 DEF ResolvePlanned
    <3> QED BY <3>1, <3>2
  <2>2. CASE /\ ~(1 \in live[s] \/ doc[s] \in {"confirmed_submitted", "acknowledged"})
             /\ \/ doc[s] \in {"confirmed_not_submitted", "rejected"}
                \/ doc[s] = "pending" /\ lapsed[s]
    <3>1. os = <<>> /\ GivenUp(s)
      BY <1>2, <2>2 DEF DocOf, GivenUp
    <3>2. r = Closed(m)
      BY <2>2 DEF ResolvePlanned
    <3> QED BY <3>1, <3>2
  <2>3. CASE /\ ~(1 \in live[s] \/ doc[s] \in {"confirmed_submitted", "acknowledged"})
             /\ ~(doc[s] \in {"confirmed_not_submitted", "rejected"})
             /\ ~(doc[s] = "pending" /\ lapsed[s])
    BY <2>3 DEF ResolvePlanned
  <2> QED BY <2>1, <2>2, <2>3
<1> QED BY <1>5, <1>6, <1>7, <1>8

\* A structure's tick before it decides: the whole of it.
LEMMA AdvanceSound ==
  ASSUME IInv, pc = "tick", NEW s \in todo, NEW a, a = Advance(s)
  PROVE  /\ Sound(s, mem[s], a.st)
         /\ a.t = 0 \/ a.t \in DOMAIN orders[s]
         /\ a.t # 0 => <<s, a.t>> \notin aged
         /\ a.go => /\ a.st.status \in {"enter_working", "open", "exit_working"}
                    /\ a.st.status = "enter_working" => a.t = 1
                    /\ a.st.status = "exit_working" /\ a.t # 0 =>
                          a.t # 1 /\ a.st.exitOrder = a.t /\ (seen[s][a.t].done \/ a.t = Last(s))
<1> DEFINE os == orders[s]
           m == mem[s]
           st == IF m.status = "planned" THEN ResolvePlanned(s, m) ELSE m
<1>1. s \in Sids /\ m \in StateRecord /\ os \in Seq(OrderRecord)
  BY Shape DEF IInv, TypeOK
<1>2. /\ Sane(m, os) /\ book[s] = m /\ book[s].status # "closed"
      /\ Adoptable(s) => Room(m, os, Old(s), lane[s])
  BY <1>1 DEF IInv, BookOf, Busy, Course
<1>3. m.status \in Statuses /\ m.filled \in Nat /\ m.exitFilled \in Nat
  BY <1>1, StateFields
<1>4. /\ st \in StateRecord /\ Sane(st, os)
      /\ Adoptable(s) => Room(st, os, Old(s), lane[s])
      /\ st.exitFilled = m.exitFilled
      /\ st.status \notin {"planned", "closed"} =>
            Entered(st, os, Old(s), lane[s]) = Entered(m, os, Old(s), lane[s])
      /\ st.status \in {"planned", "closed"} => Sound(s, m, st)
  <2>1. CASE m.status = "planned"
    <3>1. st = ResolvePlanned(s, m)
      BY <2>1
    <3> HIDE DEF st
    <3>2. /\ Sound(s, m, st)
          /\ st.status \in {"planned", "enter_working", "closed"}
          /\ st.exitFilled = m.exitFilled
          /\ st.status = "enter_working" =>
                Entered(st, os, Old(s), lane[s]) = Entered(m, os, Old(s), lane[s])
      BY <2>1, <3>1, ResolvePlannedSound
    <3> QED BY <3>2 DEF Sound
  <2>2. CASE m.status # "planned"
    BY <1>1, <1>2, <1>3, <2>2
  <2> QED BY <2>1, <2>2
<1>5. a = AdvanceFrom(s, st)
  BY DEF Advance
<1> HIDE DEF st
<1>6. CASE st.status \in {"planned", "closed"}
  <2>1. a = [Reached(st, 0) EXCEPT !.go = FALSE]
    BY <1>5, <1>6 DEF AdvanceFrom
  <2>2. a.st = st /\ a.t = 0 /\ a.go = FALSE
    BY <2>1 DEF Reached
  <2> QED BY <1>4, <1>6, <2>2
<1>7. CASE st.status \notin {"planned", "closed"}
  <2> DEFINE t == TradeBy(s, st)
  <2>1. a = AdvanceOn(s, st, t)
    BY <1>5, <1>7 DEF AdvanceFrom
  <2>2. st.status \in {"enter_working", "open", "exit_working"}
    BY <1>4, <1>7, StateFields DEF Statuses
  <2>3. t = 0 \/ (t \in DOMAIN os /\ <<s, t>> \notin aged)
    BY <1>4, <2>2, TradeFacts
  <2>4. /\ Sound(s, st, a.st) /\ a.t = t
        /\ a.go => /\ a.st.status \in {"enter_working", "open", "exit_working"}
                   /\ a.st.status = "enter_working" => t = 1
                   /\ a.st.status = "exit_working" /\ t # 0 =>
                         t # 1 /\ a.st.exitOrder = t /\ (seen[s][t].done \/ t = Last(s))
    BY <1>4, <2>1, <2>2, AdvanceOnSound
  <2>5. Sound(s, m, a.st)
    BY <1>4, <1>7, <2>4 DEF Sound
  <2> HIDE DEF t
  <2> QED BY <2>3, <2>4, <2>5
<1> QED BY <1>6, <1>7
-----------------------------------------------------------------------------
(* The owner's steps keep the invariant.                                   *)

\* A state the book may hold of a structure.
Fit(s, st) ==
    /\ st \in StateRecord
    /\ Sane(st, orders[s])
    /\ Adoptable(s) => Room(st, orders[s], Old(s), lane[s])
    /\ st.status = "closed" /\ orders[s] = <<>> => GivenUp(s)

LEMMA SaneOpen ==
  ASSUME NEW st \in StateRecord, NEW os, Sane(st, os)
  PROVE  OpenQty(st) >= 0
<1>1. st.filled \in Nat /\ st.exitFilled \in Nat /\ st.exitFilled <= st.filled
  BY StateFields DEF Sane
<1> QED BY <1>1 DEF OpenQty

\* What the book and the memory hold fits, before every step.
LEMMA BothFit ==
  ASSUME IInv, NEW s \in Sids
  PROVE  Fit(s, mem[s]) /\ Fit(s, book[s])
<1>1. /\ BookOf(s) /\ book[s] \in StateRecord /\ mem[s] \in StateRecord /\ Course
  BY DEF IInv, TypeOK
<1>2. Busy(s) => mem[s].status # "closed"
  BY <1>1 DEF Busy, Course
<1>3. mem[s].status = "closed" => mem[s] = book[s]
  BY <1>1, <1>2 DEF BookOf
<1> QED BY <1>1, <1>3 DEF BookOf, Fit

LEMMA FinishKeeps ==
  ASSUME IInv, NEW s \in todo, NEW st, Fit(s, st), Finish(s, st),
         pc \in {"tick", "cancel", "clear", "placed"}, pc # "tick" => cur = s,
         held' \in [Sids -> Nat],
         \A x \in Sids : \/ held'[x] = held[x]
                         \/ held'[x] \in DOMAIN orders[x] /\ <<x, held'[x]>> \notin aged,
         resolve' \subseteq Sids,
         UNCHANGED <<scene, doc, lapsed, spec, orders, asked, aged, seen, seenPos,
                     orphaned, spent>>
  PROVE  IInv'
<1>0. /\ TypeOK /\ Course /\ s \in Sids
      /\ \A x \in Sids : BrokerOf(x) /\ DocOf(x) /\ AgedOf(x) /\ LiveOf(x) /\ BookOf(x)
  BY DEF IInv, TypeOK
<1>1. /\ mem' = [mem EXCEPT ![s] = st] /\ book' = mem' /\ todo' = todo \ {s} /\ cur' = NoSid
      /\ pc' \in {"idle", "tick"}
      /\ pc' = "idle" => todo' = {} /\ live' = [x \in Sids |-> {}] /\ flags' = {}
      /\ pc' = "tick" => live' = live /\ flags' = flags
  BY DEF Finish
<1>2. mem'[s] = st /\ \A x \in Sids \ {s} : mem'[x] = mem[x] /\ mem[x] = book[x]
  <2>1. mem'[s] = st /\ \A x \in Sids \ {s} : mem'[x] = mem[x]
    BY <1>0, <1>1 DEF TypeOK
  <2>2. \A x \in Sids \ {s} : ~Busy(x)
    BY DEF Busy
  <2> QED BY <1>0, <2>1, <2>2 DEF BookOf
<1>3. \A x \in Sids : Fit(x, mem'[x]) /\ Fit(x, book'[x])
  BY <1>1, <1>2, BothFit
<1>4. \A x \in Sids : Adoptable(x)' => Adoptable(x)
  <2> SUFFICES ASSUME NEW x \in Sids, Adoptable(x)' PROVE Adoptable(x)
    OBVIOUS
  <2>1. pc # "down" /\ pc' # "down" /\ live'[x] \subseteq live[x]
    BY <1>1
  <2> QED BY <2>1 DEF Adoptable, Last
<1>5. lane' = lane /\ \A x \in Sids : Old(x)' = Old(x) /\ (GivenUp(x)' <=> GivenUp(x))
  BY DEF lane, Old, GivenUp
<1>6. TypeOK'
  <2>1. \A x \in Sids : OpenQty(mem'[x]) >= 0 /\ OpenQty(book'[x]) >= 0
    BY <1>3, SaneOpen DEF Fit
  <2>2. mem' \in [Sids -> StateRecord] /\ book' \in [Sids -> StateRecord]
    BY <1>0, <1>1, <1>3 DEF TypeOK, Fit
  <2>3. /\ todo' \subseteq Sids /\ live' \in [Sids -> SUBSET Nat] /\ flags' \in KillSets \cup {{}}
        /\ cur' \in Sids \cup {NoSid} /\ pc' \in {"down", "idle", "tick", "cancel", "clear", "placed"}
    BY <1>0, <1>1 DEF TypeOK
  <2>4. /\ scene' \in Scenarios /\ doc' \in [Sids -> Docs] /\ lapsed' \in [Sids -> BOOLEAN]
        /\ spec' \subseteq Sids /\ orders' \in [Sids -> Seq(OrderRecord)]
        /\ asked' \subseteq Sids \X Nat /\ seen' \in [Sids -> Seq(OrderRecord)]
        /\ seenPos' \in [Contracts -> Int] /\ aged' \subseteq Sids \X Nat
        /\ orphaned' \subseteq Sids /\ spent' \in Bounds
        /\ \A b \in DOMAIN spent' : spent'[b] <= scene'.max[b]
    BY <1>0 DEF TypeOK
  <2> QED BY <2>1, <2>2, <2>3, <2>4 DEF TypeOK, OpenQty
<1>7. Course'
  <2>1. todo' \subseteq todo /\ s \notin todo'
    BY <1>1
  <2>2. \A x \in todo' : book'[x].status # "closed"
    BY <1>0, <1>1, <1>2, <2>1 DEF Course, TypeOK
  <2> QED BY <1>0, <1>1, <2>1, <2>2 DEF Course
<1>8. ASSUME NEW x \in Sids PROVE (BrokerOf(x) /\ DocOf(x) /\ AgedOf(x) /\ LiveOf(x) /\ BookOf(x))'
  <2>1. BrokerOf(x)'
    BY <1>0 DEF BrokerOf
  <2>2. DocOf(x)'
    <3>1. x \notin spec => x # s
      BY <1>0 DEF Course
    <3> QED BY <1>0, <1>1, <1>2, <3>1 DEF DocOf
  <2>3. AgedOf(x)'
    BY <1>0, <1>1 DEF AgedOf
  <2>4. LiveOf(x)'
    BY <1>0, <1>1 DEF LiveOf
  <2>5. BookOf(x)'
    <3>1. ~Busy(x)'
      BY <1>1 DEF Busy
    <3> QED BY <1>1, <1>3, <1>4, <1>5, <3>1 DEF BookOf, Fit
  <2> QED BY <2>1, <2>2, <2>3, <2>4, <2>5
<1> QED BY <1>6, <1>7, <1>8 DEF IInv

\* The same for a step that goes on to cancel or to place an order.
LEMMA MoveKeeps ==
  ASSUME IInv, NEW s \in todo, NEW st, Fit(s, st),
         mem' = [mem EXCEPT ![s] = st], cur' = s, pc' \in {"cancel", "clear"},
         pc \in {"tick", "cancel"}, pc # "tick" => cur = s,
         pc' = "cancel" =>
            /\ held'[s] # 0
            /\ held'[s] = 1 => st.status = "enter_working"
            /\ held'[s] # 1 => /\ st.status = "exit_working" /\ st.exitOrder = held'[s]
                               /\ held'[s] = Last(s),
         pc' = "clear" => st.status = "exit_working" /\ OpenQty(st) > 0,
         st.status \notin EntryLane =>
            /\ book[s].exitFilled <= st.exitFilled
            /\ st.filled <= Entered(book[s], orders[s], Old(s), lane[s]),
         held' \in [Sids -> Nat],
         \A x \in Sids : \/ held'[x] = held[x]
                         \/ held'[x] \in DOMAIN orders[x] /\ <<x, held'[x]>> \notin aged,
         resolve' \subseteq Sids, asked' \subseteq Sids \X Nat,
         spent' \in Bounds, \A b \in DOMAIN spent' : spent'[b] <= scene.max[b],
         UNCHANGED <<scene, doc, lapsed, spec, book, orders, aged, seen, seenPos, todo, live,
                     flags, orphaned>>
  PROVE  IInv'
<1>0. /\ TypeOK /\ Course /\ s \in Sids
      /\ \A x \in Sids : BrokerOf(x) /\ DocOf(x) /\ AgedOf(x) /\ LiveOf(x) /\ BookOf(x)
  BY DEF IInv, TypeOK
<1>1. mem'[s] = st /\ \A x \in Sids \ {s} : mem'[x] = mem[x] /\ mem[x] = book[x]
  <2>1. mem'[s] = st /\ \A x \in Sids \ {s} : mem'[x] = mem[x]
    BY <1>0 DEF TypeOK
  <2>2. \A x \in Sids \ {s} : ~Busy(x)
    BY DEF Busy
  <2> QED BY <1>0, <2>1, <2>2 DEF BookOf
<1>2. \A x \in Sids : Fit(x, mem'[x]) /\ Fit(x, book[x])
  BY <1>1, BothFit
<1>3. \A x \in Sids : Adoptable(x)' => Adoptable(x)
  <2> SUFFICES ASSUME NEW x \in Sids, Adoptable(x)' PROVE Adoptable(x)
    OBVIOUS
  <2>1. pc # "down" /\ pc' # "down"
    OBVIOUS
  <2> QED BY <2>1 DEF Adoptable, Last
<1>4. lane' = lane /\ \A x \in Sids : Old(x)' = Old(x) /\ (GivenUp(x)' <=> GivenUp(x))
  BY DEF lane, Old, GivenUp
<1>5. TypeOK'
  <2>1. \A x \in Sids : OpenQty(mem'[x]) >= 0 /\ OpenQty(book'[x]) >= 0
    BY <1>2, SaneOpen DEF Fit
  <2>2. mem' \in [Sids -> StateRecord]
    BY <1>0, <1>2 DEF TypeOK, Fit
  <2>3. /\ todo' \subseteq Sids /\ live' \in [Sids -> SUBSET Nat] /\ flags' \in KillSets \cup {{}}
        /\ cur' \in Sids \cup {NoSid} /\ pc' \in {"down", "idle", "tick", "cancel", "clear", "placed"}
    BY <1>0 DEF TypeOK
  <2>4. /\ scene' \in Scenarios /\ doc' \in [Sids -> Docs] /\ lapsed' \in [Sids -> BOOLEAN]
        /\ spec' \subseteq Sids /\ orders' \in [Sids -> Seq(OrderRecord)]
        /\ seen' \in [Sids -> Seq(OrderRecord)] /\ book' \in [Sids -> StateRecord]
        /\ seenPos' \in [Contracts -> Int] /\ aged' \subseteq Sids \X Nat
        /\ orphaned' \subseteq Sids
        /\ \A b \in DOMAIN spent' : spent'[b] <= scene'.max[b]
    BY <1>0 DEF TypeOK
  <2> QED BY <2>1, <2>2, <2>3, <2>4 DEF TypeOK, OpenQty
<1>6. Course'
  <2>1. mem'[cur'] = st /\ cur' \in todo'
    BY <1>0, <1>1
  <2>2. OpenQty(mem[cur])' = OpenQty(st)
    BY <1>1, <2>1 DEF OpenQty
  <2> QED BY <1>0, <2>1, <2>2 DEF Course, Last
<1>7. ASSUME NEW x \in Sids PROVE (BrokerOf(x) /\ DocOf(x) /\ AgedOf(x) /\ LiveOf(x) /\ BookOf(x))'
  <2>1. BrokerOf(x)' /\ DocOf(x)'
    BY <1>0 DEF BrokerOf, DocOf
  <2>2. AgedOf(x)'
    BY <1>0 DEF AgedOf
  <2>3. LiveOf(x)'
    BY <1>0 DEF LiveOf
  <2>4. BookOf(x)'
    <3>1. Busy(x)' <=> x = s
      BY DEF Busy
    <3> QED BY <1>1, <1>2, <1>3, <1>4, <3>1 DEF BookOf, Fit
  <2> QED BY <2>1, <2>2, <2>3, <2>4
<1> QED BY <1>5, <1>6, <1>7 DEF IInv

\* The shares the desk holds are a number.
LEMMA BookQtyInt ==
  ASSUME IInv, NEW s \in Sids, NEW st \in StateRecord
  PROVE  BookQty(s, st) \in Int /\ PositionSeen(s) \in Int
<1> DEFINE others == {x \in Sids \ {s} : /\ x \in spec /\ IsEquity(x)
                                         /\ Contract[x] = Contract[s]
                                         /\ mem[x].status # "closed"}
           f == [x \in others |-> OpenQty(mem[x])]
<1>1. TypeOK
  BY DEF IInv
<1>2. IsFiniteSet(others)
  BY ScenarioAssumption, FS_Subset
<1>3. IntOn(f, others)
  <2>1. \A x \in Sids : mem[x].filled \in Nat /\ mem[x].exitFilled \in Nat
    BY <1>1, StateFields DEF TypeOK
  <2> QED BY <2>1 DEF IntOn, OpenQty
<1>4. Total(f, others) \in Int
  <2> HIDE DEF f, others
  <2> QED BY <1>2, <1>3, TotalInt
<1>5. OpenQty(st) \in Int
  BY StateFields DEF OpenQty
<1>6. BookQty(s, st) = OpenQty(st) + Total(f, others)
  BY DEF BookQty
<1>7. PositionSeen(s) \in Int
  BY <1>1 DEF TypeOK, PositionSeen, Contracts
<1> QED BY <1>4, <1>5, <1>6, <1>7

LEMMA WithOutsideFit ==
  ASSUME IInv, NEW s \in Sids, NEW st, Fit(s, st), st.status = "exit_working",
         NEW r, r = WithOutside(s, st)
  PROVE  /\ Fit(s, r) /\ r.status = "exit_working" /\ r.filled = st.filled
         /\ r.exitFilled = st.exitFilled /\ r.exitOrder = st.exitOrder
<1>1. st \in StateRecord
  BY DEF Fit
<1>2. PositionSeen(s) - BookQty(s, st) \in Int
  BY <1>1, BookQtyInt
<1>3. /\ r \in StateRecord /\ r.status = st.status /\ r.filled = st.filled
      /\ r.exitFilled = st.exitFilled /\ r.exitOrder = st.exitOrder
      /\ r.exitSeen = st.exitSeen /\ r.entryOrder = st.entryOrder
  BY <1>1, <1>2 DEF WithOutside, StateRecord
<1>4. Sane(r, orders[s])
  BY <1>3 DEF Fit, Sane
<1>5. Room(st, orders[s], Old(s), lane[s]) => Room(r, orders[s], Old(s), lane[s])
  BY <1>3 DEF Room, Entered
<1> QED BY <1>3, <1>4, <1>5 DEF Fit

\* One more of a bound that is not used up.
LEMMA SpentOne ==
  ASSUME TypeOK, NEW b \in {"reprices", "deaths", "crashes"}, spent[b] < scene.max[b],
         spent' = [spent EXCEPT ![b] = @ + 1]
  PROVE  spent' \in Bounds /\ \A c \in DOMAIN spent' : spent'[c] <= scene.max[c]
<1>1. /\ spent \in [reprices : Nat, deaths : Nat, crashes : Nat]
      /\ scene.max \in [reprices : Nat, deaths : Nat, crashes : Nat]
      /\ \A c \in DOMAIN spent : spent[c] <= scene.max[c]
  BY ScenarioAssumption DEF TypeOK, Bounds
<1>2. /\ DOMAIN spent = {"reprices", "deaths", "crashes"}
      /\ \A c \in {"reprices", "deaths", "crashes"} : spent[c] \in Nat /\ scene.max[c] \in Nat
  BY <1>1
<1>3. /\ DOMAIN spent' = {"reprices", "deaths", "crashes"}
      /\ \A c \in {"reprices", "deaths", "crashes"} :
            spent'[c] = IF c = b THEN spent[c] + 1 ELSE spent[c]
  BY <1>1, <1>2
<1>4. \A c \in {"reprices", "deaths", "crashes"} : spent'[c] \in Nat /\ spent'[c] <= scene.max[c]
  BY <1>1, <1>2, <1>3
<1>5. spent' \in [reprices : Nat, deaths : Nat, crashes : Nat]
  BY <1>1, <1>2, <1>4
<1> QED BY <1>3, <1>4, <1>5 DEF Bounds

LEMMA SoundFits ==
  ASSUME NEW s, NEW m, NEW r, Sound(s, m, r)
  PROVE  Fit(s, r)
BY DEF Sound, Fit

LEMMA StructureTickKeeps ==
  ASSUME IInv, NEW s \in Sids, StructureTick(s)
  PROVE  IInv'
<1>0. /\ pc = "tick" /\ s \in todo
      /\ UNCHANGED <<scene, doc, lapsed, spec, seen, seenPos, orphaned>>
  BY DEF StructureTick, entryVars
<1>1. PICK a \in {Advance(s)} :
          /\ held' = [held EXCEPT ![s] = IF a.t # 0 THEN a.t ELSE @]
          /\ resolve' = IF a.confirmed THEN resolve \ {s} ELSE resolve
          /\ \/ ~a.go /\ Finish(s, a.st) /\ UNCHANGED <<broker, spent>>
             \/ /\ a.go
                /\ \/ ActOnEntry(s, a.st, a.t)
                   \/ Hold(s, a.st)
                   \/ BeginExit(s, a.st)
                   \/ Reprice(s, a.st, a.t)
                   \/ Replace(s, a.st, a.t)
  BY DEF StructureTick
<1>2. /\ Sound(s, mem[s], a.st)
      /\ a.t = 0 \/ a.t \in DOMAIN orders[s]
      /\ a.t # 0 => <<s, a.t>> \notin aged
      /\ a.go => /\ a.st.status \in {"enter_working", "open", "exit_working"}
                 /\ a.st.status = "enter_working" => a.t = 1
                 /\ a.st.status = "exit_working" /\ a.t # 0 =>
                       a.t # 1 /\ a.st.exitOrder = a.t /\ (seen[s][a.t].done \/ a.t = Last(s))
  BY <1>0, <1>1, AdvanceSound
<1>3. /\ TypeOK /\ mem[s] = book[s] /\ orders[s] \in Seq(OrderRecord)
  BY <1>0, Shape DEF IInv, BookOf, Busy
<1>4. a.t \in Nat
  BY <1>2, <1>3, OrdersShape
<1>5. /\ held' \in [Sids -> Nat]
      /\ \A x \in Sids : \/ held'[x] = held[x]
                         \/ held'[x] \in DOMAIN orders[x] /\ <<x, held'[x]>> \notin aged
      /\ a.t # 0 => held'[s] = a.t
  BY <1>1, <1>2, <1>3, <1>4 DEF TypeOK
<1>6. resolve' \subseteq Sids
  BY <1>1, <1>3 DEF TypeOK
<1>7. /\ Fit(s, a.st) /\ mem[s].exitFilled <= a.st.exitFilled
      /\ a.st.status \in {"open", "exit_working"} =>
            a.st.filled <= Entered(book[s], orders[s], Old(s), lane[s])
  BY <1>2, <1>3, SoundFits DEF Sound
<1>8. CASE Finish(s, a.st) /\ UNCHANGED <<broker, spent>>
  BY <1>0, <1>5, <1>6, <1>7, <1>8, FinishKeeps DEF broker
<1>9. /\ spent \in Bounds /\ \A b \in DOMAIN spent : spent[b] <= scene.max[b]
      /\ asked \subseteq Sids \X Nat
  BY <1>3 DEF TypeOK
<1>10. ASSUME a.go, BeginCancel(s, a.st, a.t), a.t # 0,
              a.st.status \in {"enter_working", "exit_working"},
              a.st.status = "exit_working" => ~seen[s][a.t].done,
              spent' \in Bounds, \A b \in DOMAIN spent' : spent'[b] <= scene.max[b]
       PROVE  IInv'
  <2>1. /\ asked' \subseteq Sids \X Nat /\ mem' = [mem EXCEPT ![s] = a.st]
        /\ pc' = "cancel" /\ cur' = s
        /\ UNCHANGED <<book, orders, aged, todo, live, flags>>
    BY <1>4, <1>9, <1>10 DEF BeginCancel
  <2>2. /\ held'[s] # 0
        /\ held'[s] = 1 => a.st.status = "enter_working"
        /\ held'[s] # 1 => /\ a.st.status = "exit_working" /\ a.st.exitOrder = held'[s]
                           /\ held'[s] = Last(s)
    BY <1>2, <1>5, <1>10
  <2>3. a.st.status \notin EntryLane =>
            /\ book[s].exitFilled <= a.st.exitFilled
            /\ a.st.filled <= Entered(book[s], orders[s], Old(s), lane[s])
    BY <1>3, <1>7, <1>10 DEF EntryLane
  <2> QED BY <1>0, <1>5, <1>6, <1>7, <1>10, <2>1, <2>2, <2>3, MoveKeeps
<1>11. ASSUME NEW st, Fit(s, st), st.status = "exit_working", OpenQty(st) > 0,
              book[s].exitFilled <= st.exitFilled,
              st.filled <= Entered(book[s], orders[s], Old(s), lane[s]),
              BeginClear(s, st)
       PROVE  IInv'
  <2> DEFINE r == WithOutside(s, st)
  <2>1. /\ mem' = [mem EXCEPT ![s] = r] /\ pc' = "clear" /\ cur' = s
        /\ UNCHANGED <<book, orders, asked, aged, todo, live, flags, spent>>
    BY <1>11 DEF BeginClear, broker
  <2> HIDE DEF r
  <2>2. /\ Fit(s, r) /\ r.status = "exit_working" /\ r.filled = st.filled
        /\ r.exitFilled = st.exitFilled
    BY <1>11, WithOutsideFit DEF r
  <2>3. OpenQty(r) > 0 /\ book[s].exitFilled <= r.exitFilled
        /\ r.filled <= Entered(book[s], orders[s], Old(s), lane[s])
    BY <1>11, <2>2 DEF OpenQty
  <2> QED BY <1>0, <1>5, <1>6, <1>9, <2>1, <2>2, <2>3, MoveKeeps
<1>12. CASE a.go /\ ActOnEntry(s, a.st, a.t)
  <2>1. a.t = 1 /\ a.st.status = "enter_working"
    BY <1>2, <1>12 DEF ActOnEntry
  <2>2. CASE BeginCancel(s, a.st, a.t) /\ UNCHANGED spent
    BY <1>9, <1>10, <1>12, <2>1, <2>2
  <2> QED BY <1>8, <1>12, <2>2 DEF ActOnEntry
<1>13. CASE a.go /\ Hold(s, a.st)
  BY <1>8, <1>13 DEF Hold
<1>14. CASE a.go /\ BeginExit(s, a.st)
  <2> DEFINE st == [a.st EXCEPT !.status = "exit_working"]
  <2>1. a.st \in StateRecord /\ a.st.status = "open" /\ OpenQty(a.st) > 0 /\ BeginClear(s, st)
    BY <1>7, <1>14 DEF BeginExit, Fit
  <2>2. /\ st \in StateRecord /\ st.status = "exit_working" /\ st.filled = a.st.filled
        /\ st.exitFilled = a.st.exitFilled /\ st.exitSeen = a.st.exitSeen
        /\ st.exitOrder = a.st.exitOrder /\ st.entryOrder = a.st.entryOrder
    BY <2>1, StatusFields DEF Statuses
  <2> HIDE DEF st
  <2>3. Sane(st, orders[s])
    BY <1>7, <2>1, <2>2 DEF Fit, Sane
  <2>4. Adoptable(s) => Room(st, orders[s], Old(s), lane[s])
    BY <1>7, <2>1, <2>2 DEF Fit, Room, Entered, EntryLane
  <2>5. Fit(s, st)
    BY <2>2, <2>3, <2>4 DEF Fit
  <2>6. OpenQty(st) > 0
    BY <2>1, <2>2 DEF OpenQty
  <2> QED BY <1>3, <1>7, <1>11, <2>1, <2>2, <2>5, <2>6
<1>15. CASE a.go /\ Reprice(s, a.st, a.t)
  <2>1. spent' = [spent EXCEPT !.reprices = @ + 1] /\ spent.reprices < scene.max.reprices
    BY <1>15 DEF Reprice
  <2>2. spent' \in Bounds /\ \A b \in DOMAIN spent' : spent'[b] <= scene.max[b]
    BY <1>3, <2>1, SpentOne
  <2> QED BY <1>10, <1>15, <2>2 DEF Reprice
<1>16. CASE a.go /\ Replace(s, a.st, a.t)
  BY <1>3, <1>7, <1>11, <1>16 DEF Replace
<1> QED BY <1>1, <1>8, <1>12, <1>13, <1>14, <1>15, <1>16

\* What the cancelled order sold is recorded before another is placed.
LEMMA CancelConfirmedKeeps ==
  ASSUME IInv, NEW s \in Sids, CancelConfirmed(s)
  PROVE  IInv'
<1> DEFINE h == held[s]
           q == seen[s][h].filled
           st == IF h = 1 THEN mem[s] ELSE DrainExit(mem[s], h, q)
           os == orders[s]
<1>0. /\ pc = "cancel" /\ cur = s /\ seen[s][h].done /\ s \in todo
      /\ UNCHANGED <<scene, doc, lapsed, spec, seen, seenPos, held, resolve, orphaned>>
      /\ \/ Finish(s, st) /\ UNCHANGED <<broker, spent>>
         \/ h # 1 /\ OpenQty(st) > 0 /\ HoldingsOK(s, st) /\ BeginClear(s, st)
  BY DEF CancelConfirmed, entryVars, views, IInv, Course
<1>1. /\ TypeOK /\ Course /\ AgedOf(s) /\ BookOf(s) /\ Busy(s)
      /\ mem[s] \in StateRecord /\ os \in Seq(OrderRecord) /\ Bounded(os)
      /\ \A o \in DOMAIN os : seen[s][o].filled \in Nat /\ seen[s][o].filled <= os[o].filled
  BY <1>0, Shape DEF IInv, Busy
<1>2. /\ h # 0 /\ h \in DOMAIN os
      /\ h = 1 => mem[s].status = "enter_working"
      /\ h # 1 => mem[s].status = "exit_working" /\ mem[s].exitOrder = h
  BY <1>0, <1>1 DEF Course, AgedOf
<1>3. Fit(s, mem[s])
  BY BothFit
<1>5. h # 1 => h = Len(os)
  BY <1>0, <1>1 DEF Course, Last
<1>4. h # 1 => /\ Fit(s, st) /\ st.status = "exit_working" /\ st.exitOrder = h
               /\ st.filled = mem[s].filled /\ mem[s].exitFilled <= st.exitFilled
  <2> SUFFICES ASSUME h # 1
               PROVE  /\ Fit(s, st) /\ st.status = "exit_working" /\ st.exitOrder = h
                      /\ st.filled = mem[s].filled /\ mem[s].exitFilled <= st.exitFilled
    OBVIOUS
  <2>1. st = DrainExit(mem[s], h, q)
    OBVIOUS
  <2>2. q \in Nat /\ q <= os[h].filled
    BY <1>1, <1>2
  <2> HIDE DEF st, q
  <2>3. /\ st \in StateRecord /\ Sane(st, os)
        /\ st.status = mem[s].status /\ st.filled = mem[s].filled
        /\ st.exitOrder = h /\ mem[s].exitFilled <= st.exitFilled
    BY <1>1, <1>2, <1>3, <2>1, <2>2, DrainExitSane DEF Fit
  <2>4. ~(Len(os) > h)
    BY <1>0, <1>1, <1>2, <1>5, OrdersShape
  <2> QED BY <1>2, <2>3, <2>4 DEF Fit, Room
<1>6. CASE Finish(s, st) /\ UNCHANGED <<broker, spent>>
  <2>1. Fit(s, st)
    BY <1>3, <1>4
  <2>2. held' \in [Sids -> Nat] /\ resolve' \subseteq Sids
    BY <1>0, <1>1 DEF TypeOK
  <2> HIDE DEF st
  <2> QED BY <1>0, <1>6, <2>1, <2>2, FinishKeeps DEF broker
<1>7. CASE h # 1 /\ OpenQty(st) > 0 /\ BeginClear(s, st)
  <2> DEFINE r == WithOutside(s, st)
  <2>1. /\ mem' = [mem EXCEPT ![s] = r] /\ pc' = "clear" /\ cur' = s
        /\ UNCHANGED <<book, orders, asked, aged, todo, live, flags, spent>>
    BY <1>7 DEF BeginClear, broker
  <2>2. /\ Fit(s, st) /\ st.status = "exit_working"
        /\ st.filled = mem[s].filled /\ mem[s].exitFilled <= st.exitFilled
        /\ OpenQty(st) > 0
    BY <1>4, <1>7
  <2>3. /\ book[s].exitFilled <= mem[s].exitFilled
        /\ mem[s].filled <= Entered(book[s], os, Old(s), lane[s])
    BY <1>1, <1>2, <1>7 DEF BookOf, EntryLane
  <2>4. /\ book[s].exitFilled \in Nat /\ mem[s].exitFilled \in Nat /\ st.exitFilled \in Nat
    BY <1>1, <2>2, StateFields DEF TypeOK, Fit
  <2> HIDE DEF st, r
  <2>5. /\ Fit(s, r) /\ r.status = "exit_working" /\ r.filled = st.filled
        /\ r.exitFilled = st.exitFilled
    BY <2>2, WithOutsideFit DEF r
  <2>6. OpenQty(r) > 0 /\ book[s].exitFilled <= r.exitFilled
        /\ r.filled <= Entered(book[s], os, Old(s), lane[s])
    BY <2>2, <2>3, <2>4, <2>5 DEF OpenQty
  <2>7. /\ held' \in [Sids -> Nat] /\ resolve' \subseteq Sids /\ asked' \subseteq Sids \X Nat
        /\ spent' \in Bounds /\ \A b \in DOMAIN spent' : spent'[b] <= scene.max[b]
    BY <1>0, <1>1, <2>1 DEF TypeOK
  <2> QED BY <1>0, <2>1, <2>5, <2>6, <2>7, MoveKeeps
<1> QED BY <1>0, <1>6, <1>7

LEMMA TickBeginKeeps ==
  ASSUME IInv, NEW kills \in KillSets, TickBegin(kills)
  PROVE  IInv'
<1>0. /\ TypeOK /\ Course
      /\ \A x \in Sids : BrokerOf(x) /\ DocOf(x) /\ AgedOf(x) /\ LiveOf(x) /\ BookOf(x)
  BY DEF IInv
<1>1. /\ pc = "idle" /\ pc' = "tick" /\ mem' = book /\ flags' = kills
      /\ todo' = {s \in spec : book[s].status # "closed"}
      /\ live' = [s \in Sids |-> {o \in DOMAIN seen[s] : ~seen[s][o].done}]
      /\ UNCHANGED <<scene, doc, lapsed, spec, book, orders, asked, aged, seen, seenPos, held,
                     cur, resolve, orphaned, spent>>
  BY DEF TickBegin, Idle, entryVars, broker, views
<1>2. mem' = mem
  <2>1. \A x \in Sids : mem[x] = book[x]
    BY <1>0, <1>1 DEF BookOf, Busy
  <2> QED BY <1>0, <1>1, <2>1 DEF TypeOK
<1>3. \A x \in Sids : /\ DOMAIN seen[x] = DOMAIN orders[x]
                      /\ \A o \in DOMAIN orders[x] : o \in Nat
                      /\ orders[x] # <<>> => Last(x) \in DOMAIN orders[x]
  BY <1>0, Shape, OrdersShape DEF Last
<1>4. \A x \in Sids : Adoptable(x)' => Adoptable(x)
  <2> SUFFICES ASSUME NEW x \in Sids, Adoptable(x)' PROVE Adoptable(x)
    OBVIOUS
  <2>1. orders[x] # <<>> /\ ~seen[x][Last(x)].done
    BY <1>1, <1>3 DEF Adoptable, Last
  <2> QED BY <1>1, <2>1 DEF Adoptable
<1>5. lane' = lane /\ \A x \in Sids : Old(x)' = Old(x) /\ (GivenUp(x)' <=> GivenUp(x))
  BY <1>1 DEF lane, Old, GivenUp
<1>6. TypeOK'
  <2>1. live' \in [Sids -> SUBSET Nat] /\ todo' \subseteq Sids /\ flags' \in KillSets \cup {{}}
    BY <1>0, <1>1, <1>3 DEF TypeOK
  <2> QED BY <1>0, <1>1, <1>2, <2>1 DEF TypeOK, OpenQty
<1>7. Course'
  BY <1>0, <1>1 DEF Course
<1>8. ASSUME NEW x \in Sids PROVE (BrokerOf(x) /\ DocOf(x) /\ AgedOf(x) /\ LiveOf(x) /\ BookOf(x))'
  <2>1. BrokerOf(x)' /\ DocOf(x)' /\ AgedOf(x)'
    BY <1>0, <1>1 DEF BrokerOf, DocOf, AgedOf
  <2>2. LiveOf(x)'
    <3>1. live'[x] = {o \in DOMAIN orders[x] : ~seen[x][o].done}
      BY <1>1, <1>3
    <3>2. \A o \in live'[x] : <<x, o>> \notin aged
      BY <1>0, <1>1, <1>3, <3>1 DEF AgedOf
    <3>3. \A o \in live'[x] : \A q \in DOMAIN orders[x] : o < q => q \in live'[x]
      BY <1>0, <3>1 DEF BrokerOf
    <3> QED BY <1>1, <3>1, <3>2, <3>3 DEF LiveOf
  <2>3. BookOf(x)'
    <3>1. ~Busy(x)' /\ ~Busy(x)
      BY <1>1 DEF Busy
    <3> QED BY <1>0, <1>1, <1>2, <1>4, <1>5, <3>1 DEF BookOf
  <2> QED BY <2>1, <2>2, <2>3
<1> QED BY <1>6, <1>7, <1>8 DEF IInv

LEMMA FinishStepKeeps ==
  ASSUME IInv, NEW s \in Sids,
         \/ SkipStructure(s)
         \/ CancelUnconfirmed(s)
         \/ ClearRefused(s)
         \/ SavePlaced(s)
  PROVE  IInv'
<1>1. /\ pc \in {"tick", "cancel", "clear", "placed"} /\ (pc # "tick" => cur = s)
      /\ pc = "tick" => s \in todo
      /\ Finish(s, mem[s])
      /\ UNCHANGED <<scene, doc, lapsed, spec, orders, asked, aged, seen, seenPos, held,
                     resolve, orphaned, spent>>
  BY DEF SkipStructure, CancelUnconfirmed, ClearRefused, SavePlaced, entryVars, broker, views
<1>2. s \in todo /\ Fit(s, mem[s])
  BY <1>1, BothFit DEF IInv, Course
<1>3. held' \in [Sids -> Nat] /\ resolve' \subseteq Sids
  BY <1>1 DEF IInv, TypeOK
<1> QED BY <1>1, <1>2, <1>3, FinishKeeps

LEMMA SeeOrdersKeeps ==
  ASSUME IInv, NEW s \in Sids, SeeOrders(s)
  PROVE  IInv'
<1>0. /\ TypeOK /\ Course
      /\ \A x \in Sids : BrokerOf(x) /\ DocOf(x) /\ AgedOf(x) /\ LiveOf(x) /\ BookOf(x)
  BY DEF IInv
<1>1. /\ pc # "down" /\ seen' = [seen EXCEPT ![s] = orders[s]]
      /\ UNCHANGED <<scene, doc, lapsed, spec, book, orders, asked, aged, seenPos, held, mem, pc,
                     cur, todo, live, flags, resolve, orphaned, spent>>
  BY DEF SeeOrders, Pumping, entryVars, broker, ticking
<1>2. \A x \in Sids : seen'[x] = IF x = s THEN orders[x] ELSE seen[x]
  BY <1>0, <1>1 DEF TypeOK
<1>3. \A x \in Sids : orders[x] # <<>> => Last(x) \in DOMAIN orders[x]
  BY <1>0, Shape, OrdersShape DEF Last
<1>4. \A x \in Sids : \A o \in DOMAIN orders[x] :
         seen[x][o].done => seen'[x][o] = seen[x][o] /\ orders[x][o].done
  BY <1>0, <1>2 DEF BrokerOf
<1>5. \A x \in Sids : Adoptable(x)' => Adoptable(x)
  BY <1>1, <1>3, <1>4 DEF Adoptable, Last
<1>6. lane' = lane /\ \A x \in Sids : /\ Old(x)' = Old(x) /\ (GivenUp(x)' <=> GivenUp(x))
                                      /\ Busy(x)' <=> Busy(x)
  BY <1>1 DEF lane, Old, GivenUp, Busy
<1>7. TypeOK'
  <2>1. seen' \in [Sids -> Seq(OrderRecord)]
    BY <1>0, <1>1 DEF TypeOK
  <2> QED BY <1>0, <1>1, <2>1 DEF TypeOK, OpenQty
<1>8. Course'
  BY <1>0, <1>1 DEF Course, Last, OpenQty
<1>9. ASSUME NEW x \in Sids PROVE (BrokerOf(x) /\ DocOf(x) /\ AgedOf(x) /\ LiveOf(x) /\ BookOf(x))'
  <2>1. BrokerOf(x)'
    <3>1. orders[x] \in Seq(OrderRecord)
      BY <1>0 DEF TypeOK
    <3>2. CASE x = s
      <4>1. seen'[x] = orders[x]
        BY <1>2, <3>2
      <4>2. \A o \in DOMAIN orders[x] : orders[x][o].filled \in Nat
        BY <3>1, OrdersShape
      <4>3. \A o \in DOMAIN orders[x] : orders[x][o].filled <= orders[x][o].filled
        BY <4>2
      <4> QED BY <1>0, <1>1, <4>1, <4>3 DEF BrokerOf
    <3>3. CASE x # s
      BY <1>0, <1>1, <1>2, <3>3 DEF BrokerOf
    <3> QED BY <3>2, <3>3
  <2>2. DocOf(x)'
    BY <1>0, <1>1 DEF DocOf
  <2>3. AgedOf(x)'
    BY <1>0, <1>1, <1>4 DEF AgedOf
  <2>4. LiveOf(x)'
    BY <1>0, <1>1, <1>4 DEF LiveOf
  <2>5. BookOf(x)'
    BY <1>0, <1>1, <1>5, <1>6 DEF BookOf
  <2> QED BY <2>1, <2>2, <2>3, <2>4, <2>5
<1> QED BY <1>7, <1>8, <1>9 DEF IInv

\* What was sold, and with it a position, is a number.
LEMMA SoldInt ==
  ASSUME NEW s, orders[s] \in Seq(OrderRecord)
  PROVE  /\ Sold(s) \in Int /\ Net(s) \in Int /\ Bought(s) \in Nat
         /\ IsFiniteSet(DOMAIN orders[s])
         /\ IntOn([o \in DOMAIN orders[s] |-> orders[s][o].filled], DOMAIN orders[s])
<1> DEFINE f == [o \in DOMAIN orders[s] |-> orders[s][o].filled]
<1>1. /\ DOMAIN orders[s] = 1..Len(orders[s]) /\ Len(orders[s]) \in Nat
      /\ \A o \in DOMAIN orders[s] : orders[s][o].filled \in Nat
      /\ orders[s] # <<>> => 1 \in DOMAIN orders[s]
  BY OrdersShape
<1>2. IsFiniteSet(DOMAIN orders[s])
  BY <1>1, FS_Interval
<1>3. IntOn(f, DOMAIN orders[s])
  BY <1>1 DEF IntOn
<1>4. Exits(s) \subseteq DOMAIN orders[s] /\ IsFiniteSet(Exits(s))
  BY <1>2, FS_Subset DEF Exits
<1>5. IntOn(f, Exits(s))
  BY <1>3, <1>4 DEF IntOn
<1>6. Total(f, Exits(s)) \in Int
  <2> HIDE DEF f
  <2> QED BY <1>4, <1>5, TotalInt
<1>7. Bought(s) \in Nat
  BY <1>1 DEF Bought
<1> QED BY <1>2, <1>3, <1>6, <1>7 DEF Sold, Net

LEMMA PositionInt == ASSUME TypeOK, NEW c PROVE Position(c) \in Int
<1> DEFINE f == [s \in Sids |-> Net(s)]
           S == {s \in Sids : Contract[s] = c}
<1>1. \A s \in Sids : Net(s) \in Int
  BY SoldInt DEF TypeOK
<1>2. IsFiniteSet(S) /\ IntOn(f, S)
  BY <1>1, ScenarioAssumption, FS_Subset DEF IntOn
<1>3. Total(f, S) \in Int
  <2> HIDE DEF f, S
  <2> QED BY <1>2, TotalInt
<1>4. scene.outside \in Nat
  BY ScenarioAssumption DEF TypeOK
<1> QED BY <1>3, <1>4 DEF Position

LEMMA SeePositionKeeps ==
  ASSUME IInv, NEW c \in Contracts, SeePosition(c)
  PROVE  IInv'
<1>0. /\ TypeOK /\ Course
      /\ \A x \in Sids : BrokerOf(x) /\ DocOf(x) /\ AgedOf(x) /\ LiveOf(x) /\ BookOf(x)
  BY DEF IInv
<1>1. /\ seenPos' = [seenPos EXCEPT ![c] = Position(c)]
      /\ UNCHANGED <<scene, doc, lapsed, spec, book, orders, asked, aged, seen, held, mem, pc,
                     cur, todo, live, flags, resolve, orphaned, spent>>
  BY DEF SeePosition, entryVars, broker, ticking
<1>2. TypeOK'
  <2>1. seenPos' \in [Contracts -> Int]
    BY <1>0, <1>1, PositionInt DEF TypeOK
  <2> QED BY <1>0, <1>1, <2>1 DEF TypeOK, OpenQty
<1>3. Course'
  BY <1>0, <1>1 DEF Course, Last, OpenQty
<1>4. ASSUME NEW x \in Sids PROVE (BrokerOf(x) /\ DocOf(x) /\ AgedOf(x) /\ LiveOf(x) /\ BookOf(x))'
  <2>1. (BrokerOf(x) /\ DocOf(x) /\ AgedOf(x) /\ LiveOf(x))'
    BY <1>0, <1>1 DEF BrokerOf, DocOf, AgedOf, LiveOf
  <2>2. /\ Old(x)' = Old(x) /\ (GivenUp(x)' <=> GivenUp(x)) /\ (Busy(x)' <=> Busy(x))
        /\ (Adoptable(x)' <=> Adoptable(x)) /\ lane' = lane
    BY <1>1 DEF lane, Old, GivenUp, Busy, Adoptable, Last
  <2> QED BY <1>0, <1>1, <2>1, <2>2 DEF BookOf
<1> QED BY <1>2, <1>3, <1>4 DEF IInv

LEMMA CrashKeeps ==
  ASSUME IInv, Crash
  PROVE  IInv'
<1>0. /\ TypeOK /\ Course
      /\ \A x \in Sids : BrokerOf(x) /\ DocOf(x) /\ AgedOf(x) /\ LiveOf(x) /\ BookOf(x)
  BY DEF IInv
<1>1. /\ pc # "down" /\ pc' = "down" /\ mem' = book /\ cur' = NoSid /\ todo' = {}
      /\ live' = [s \in Sids |-> {}] /\ flags' = {} /\ held' = [s \in Sids |-> 0]
      /\ orphaned' = IF pc = "placed" THEN orphaned \cup {cur} ELSE orphaned
      /\ spent.crashes < scene.max.crashes /\ spent' = [spent EXCEPT !.crashes = @ + 1]
      /\ UNCHANGED <<scene, doc, lapsed, spec, book, orders, asked, aged, seen, seenPos, resolve>>
  BY DEF Crash, entryVars, broker
<1>2. \A x \in Sids : Adoptable(x)' => Adoptable(x)
  <2> SUFFICES ASSUME NEW x \in Sids, Adoptable(x)' PROVE Adoptable(x)
    OBVIOUS
  <2>1. orders[x] # <<>> /\ ~orders[x][Last(x)].done /\ orders[x] \in Seq(OrderRecord)
    BY <1>0, <1>1 DEF Adoptable, Last, TypeOK
  <2>2. Last(x) \in DOMAIN orders[x]
    BY <2>1, OrdersShape DEF Last
  <2>3. ~seen[x][Last(x)].done
    BY <1>0, <2>1, <2>2 DEF BrokerOf
  <2> QED BY <1>1, <2>1, <2>3 DEF Adoptable
<1>3. lane' = lane /\ \A x \in Sids : /\ Old(x)' = Old(x) /\ (GivenUp(x)' <=> GivenUp(x))
                                      /\ ~Busy(x)'
  BY <1>1 DEF lane, Old, GivenUp, Busy
<1>4. TypeOK'
  <2>1. spent' \in Bounds /\ \A c \in DOMAIN spent' : spent'[c] <= scene.max[c]
    BY <1>0, <1>1, SpentOne
  <2>2. orphaned' \subseteq Sids
    BY <1>0, <1>1 DEF TypeOK, Course
  <2>3. /\ scene' \in Scenarios /\ doc' \in [Sids -> Docs] /\ lapsed' \in [Sids -> BOOLEAN]
        /\ spec' \subseteq Sids /\ orders' \in [Sids -> Seq(OrderRecord)]
        /\ asked' \subseteq Sids \X Nat /\ seen' \in [Sids -> Seq(OrderRecord)]
        /\ seenPos' \in [Contracts -> Int] /\ aged' \subseteq Sids \X Nat
        /\ book' \in [Sids -> StateRecord] /\ mem' \in [Sids -> StateRecord]
        /\ resolve' \subseteq Sids
    BY <1>0, <1>1 DEF TypeOK
  <2>4. /\ held' \in [Sids -> Nat] /\ live' \in [Sids -> SUBSET Nat] /\ todo' \subseteq Sids
        /\ flags' \in KillSets \cup {{}} /\ cur' \in Sids \cup {NoSid}
    BY <1>1
  <2>5. \A x \in Sids : OpenQty(mem'[x]) >= 0 /\ OpenQty(book'[x]) >= 0
    BY <1>0, <1>1 DEF TypeOK
  <2> QED BY <1>1, <2>1, <2>2, <2>3, <2>4, <2>5 DEF TypeOK, OpenQty
<1>5. Course'
  BY <1>1 DEF Course
<1>6. ASSUME NEW x \in Sids PROVE (BrokerOf(x) /\ DocOf(x) /\ AgedOf(x) /\ LiveOf(x) /\ BookOf(x))'
  <2>1. BrokerOf(x)' /\ DocOf(x)'
    BY <1>0, <1>1 DEF BrokerOf, DocOf
  <2>2. AgedOf(x)' /\ LiveOf(x)'
    BY <1>0, <1>1 DEF AgedOf, LiveOf
  <2>3. BookOf(x)'
    BY <1>0, <1>1, <1>2, <1>3 DEF BookOf
  <2> QED BY <2>1, <2>2, <2>3
<1> QED BY <1>4, <1>5, <1>6 DEF IInv

LEMMA RestartKeeps ==
  ASSUME IInv, Restart
  PROVE  IInv'
<1>0. /\ TypeOK /\ Course
      /\ \A x \in Sids : BrokerOf(x) /\ DocOf(x) /\ AgedOf(x) /\ LiveOf(x) /\ BookOf(x)
  BY DEF IInv
<1>1. /\ pc = "down" /\ pc' = "idle" /\ seen' = orders
      /\ seenPos' = [c \in Contracts |-> Position(c)]
      /\ UNCHANGED <<scene, doc, lapsed, spec, book, orders, asked, aged, held, mem, cur, todo,
                     live, flags, resolve, orphaned, spent>>
  BY DEF Restart, entryVars, broker
<1>2. \A x \in Sids : /\ live[x] = {} /\ todo = {}
                      /\ orders[x] \in Seq(OrderRecord)
                      /\ \A o \in DOMAIN orders[x] : orders[x][o].filled \in Nat
  BY <1>0, <1>1, OrdersShape DEF Course, TypeOK
<1>3. \A x \in Sids : Adoptable(x)' => Adoptable(x)
  BY <1>1, <1>2 DEF Adoptable, Last
<1>4. lane' = lane /\ \A x \in Sids : /\ Old(x)' = Old(x) /\ (GivenUp(x)' <=> GivenUp(x))
                                      /\ ~Busy(x)' /\ ~Busy(x)
  BY <1>1 DEF lane, Old, GivenUp, Busy
<1>5. TypeOK'
  <2>1. seenPos' \in [Contracts -> Int] /\ seen' \in [Sids -> Seq(OrderRecord)]
    BY <1>0, <1>1, PositionInt DEF TypeOK
  <2> QED BY <1>0, <1>1, <2>1 DEF TypeOK, OpenQty
<1>6. Course'
  BY <1>0, <1>1, <1>2 DEF Course
<1>7. ASSUME NEW x \in Sids PROVE (BrokerOf(x) /\ DocOf(x) /\ AgedOf(x) /\ LiveOf(x) /\ BookOf(x))'
  <2>1. BrokerOf(x)'
    <3>1. \A o \in DOMAIN orders[x] : orders[x][o].filled <= orders[x][o].filled
      BY <1>2
    <3> QED BY <1>0, <1>1, <3>1 DEF BrokerOf
  <2>2. DocOf(x)' /\ AgedOf(x)' /\ LiveOf(x)'
    BY <1>0, <1>1, <1>2 DEF DocOf, AgedOf, LiveOf
  <2>3. BookOf(x)'
    BY <1>0, <1>1, <1>3, <1>4 DEF BookOf
  <2> QED BY <2>1, <2>2, <2>3
<1> QED BY <1>5, <1>6, <1>7 DEF IInv

LEMMA AppendShape ==
  ASSUME NEW os \in Seq(OrderRecord), NEW r \in OrderRecord, NEW ns, ns = Append(os, r)
  PROVE  /\ ns \in Seq(OrderRecord) /\ Len(ns) = Len(os) + 1 /\ ns[Len(ns)] = r
         /\ DOMAIN ns = DOMAIN os \cup {Len(os) + 1} /\ Len(os) + 1 \notin DOMAIN os
         /\ \A o \in DOMAIN os : ns[o] = os[o] /\ o < Len(os) + 1
         /\ ns # <<>>
<1>1. /\ ns \in Seq(OrderRecord) /\ Len(ns) = Len(os) + 1
      /\ \A o \in 1..Len(os) : ns[o] = os[o]
      /\ ns[Len(os) + 1] = r
  OBVIOUS
<1>2. DOMAIN ns = 1..(Len(os) + 1) /\ DOMAIN os = 1..Len(os) /\ Len(os) \in Nat
  BY <1>1
<1>3. 1..(Len(os) + 1) = 1..Len(os) \cup {Len(os) + 1}
  BY <1>2
<1>4. ns # <<>>
  BY <1>1, <1>2
<1> QED BY <1>1, <1>2, <1>3, <1>4

\* A state that is sane for a list of orders is so for a longer one.
LEMMA SaneAppend ==
  ASSUME NEW st \in StateRecord, NEW os \in Seq(OrderRecord), NEW r \in OrderRecord,
         NEW ns, ns = Append(os, r), os # <<>>, Sane(st, os), st.status # "closed"
  PROVE  Sane(st, ns)
<1>1. /\ \A o \in DOMAIN os : ns[o] = os[o] /\ o \in DOMAIN ns
      /\ ns # <<>> /\ 1 \in DOMAIN os
  BY AppendShape, OrdersShape
<1> QED BY <1>1 DEF Sane

LEMMA SameLen ==
  ASSUME NEW os \in Seq(OrderRecord), NEW ns \in Seq(OrderRecord), DOMAIN os = DOMAIN ns
  PROVE  Len(os) = Len(ns)
<1>1. ASSUME NEW a \in Nat, NEW b \in Nat, 1..a = 1..b PROVE a = b
  <2>1. ~(a < b)
    <3>1. a < b => b \in 1..b /\ b \notin 1..a
      OBVIOUS
    <3> QED BY <1>1, <3>1
  <2>2. ~(b < a)
    <3>1. b < a => a \in 1..a /\ a \notin 1..b
      OBVIOUS
    <3> QED BY <1>1, <3>1
  <2> QED BY <2>1, <2>2
<1> QED BY <1>1, OrdersShape

LEMMA PlaceCloseKeeps ==
  ASSUME IInv, NEW s \in Sids, PlaceClose(s)
  PROVE  IInv'
<1> DEFINE new == Len(orders[s]) + 1
           order == NewOrder(OpenQty(mem[s]))
           os == orders[s]
           ns == Append(os, order)
           st == [mem[s] EXCEPT !.exitOrder = new, !.exitSeen = 0]
<1>0. /\ TypeOK /\ Course
      /\ \A x \in Sids : BrokerOf(x) /\ DocOf(x) /\ AgedOf(x) /\ LiveOf(x) /\ BookOf(x)
  BY DEF IInv
<1>1. /\ pc = "clear" /\ cur = s /\ pc' = "placed"
      /\ Exits(s) \cap Working(s) = {}
      /\ orders' = [orders EXCEPT ![s] = ns]
      /\ seen' = [seen EXCEPT ![s] = Append(seen[s], order)]
      /\ held' = [held EXCEPT ![s] = new]
      /\ mem' = [mem EXCEPT ![s] = st]
      /\ UNCHANGED <<scene, doc, lapsed, spec, book, asked, aged, seenPos, cur, todo, live, flags,
                     resolve, orphaned, spent>>
  <2>1. mem' = [mem EXCEPT ![s].exitOrder = new, ![s].exitSeen = 0]
    BY DEF PlaceClose
  <2>2. mem' = [mem EXCEPT ![s] = st]
    BY <1>0, <2>1 DEF TypeOK
  <2> QED BY <2>2 DEF PlaceClose, entryVars
<1>2. /\ s \in todo /\ s \in spec /\ mem[s].status = "exit_working" /\ OpenQty(mem[s]) > 0
      /\ book[s].status # "closed" /\ Sane(mem[s], os) /\ Sane(book[s], os) /\ Busy(s)
  BY <1>0, <1>1 DEF Course, BookOf, Busy
<1>3. /\ mem[s] \in StateRecord /\ book[s] \in StateRecord /\ os \in Seq(OrderRecord)
      /\ seen[s] \in Seq(OrderRecord) /\ DOMAIN seen[s] = DOMAIN os
  BY Shape
<1>4. os # <<>> /\ os[1].done
  BY <1>2 DEF Sane
<1>5. /\ Len(os) \in Nat /\ Len(os) > 0 /\ DOMAIN os = 1..Len(os) /\ 1 \in DOMAIN os
      /\ Len(seen[s]) = Len(os)
      /\ \A o \in DOMAIN os : o \in Nat /\ o > 0
  <2>1. Len(seen[s]) = Len(os)
    BY <1>3, SameLen
  <2> QED BY <1>3, <1>4, <2>1, OrdersShape
<1>6. mem[s].filled \in Nat /\ mem[s].exitFilled \in Nat /\ mem[s].exitFilled <= mem[s].filled
      /\ OpenQty(mem[s]) = mem[s].filled - mem[s].exitFilled /\ OpenQty(mem[s]) \in Nat
  BY <1>2, <1>3, StateFields DEF Sane, OpenQty
<1>7. order \in OrderRecord /\ order.qty = OpenQty(mem[s]) /\ order.filled = 0 /\ order.done = FALSE
  BY <1>6 DEF NewOrder, OrderRecord
<1>8. /\ orders'[s] = ns /\ seen'[s] = Append(seen[s], order) /\ held'[s] = new /\ mem'[s] = st
      /\ \A x \in Sids \ {s} : /\ orders'[x] = orders[x] /\ seen'[x] = seen[x]
                               /\ held'[x] = held[x] /\ mem'[x] = mem[x]
  BY <1>0, <1>1 DEF TypeOK
<1> HIDE DEF order
<1>9. /\ ns \in Seq(OrderRecord) /\ Len(ns) = new /\ ns[new] = order
      /\ DOMAIN ns = DOMAIN os \cup {new} /\ new \notin DOMAIN os
      /\ \A o \in DOMAIN os : ns[o] = os[o] /\ o < new
      /\ ns # <<>>
  BY <1>3, <1>7, AppendShape
<1>10. /\ seen'[s] \in Seq(OrderRecord) /\ seen'[s][new] = order
       /\ DOMAIN seen'[s] = DOMAIN os \cup {new}
       /\ \A o \in DOMAIN os : seen'[s][o] = seen[s][o]
  BY <1>3, <1>5, <1>7, <1>8, AppendShape
<1>11. /\ st \in StateRecord /\ st.status = "exit_working" /\ st.filled = mem[s].filled
       /\ st.exitFilled = mem[s].exitFilled /\ st.exitOrder = new /\ st.exitSeen = 0
       /\ new \in Nat /\ new > 1
  <2>1. new \in Nat /\ new > 1
    BY <1>5
  <2> HIDE DEF new
  <2> DEFINE m == mem[s]
  <2>2. st = [m EXCEPT !.exitOrder = new, !.exitSeen = 0] /\ m \in StateRecord
    BY <1>3
  <2> HIDE DEF st, m
  <2>3. /\ st \in StateRecord /\ st.status = m.status /\ st.filled = m.filled
        /\ st.exitFilled = m.exitFilled /\ st.exitOrder = new /\ st.exitSeen = 0
    <3>1. /\ st.status = m.status /\ st.filled = m.filled
          /\ st.exitFilled = m.exitFilled /\ st.exitOrder = new /\ st.exitSeen = 0
      BY <2>2 DEF StateRecord
    <3>2. new \in Nat \ {1} /\ 0 \in Nat
      BY <2>1
    <3>3. st \in StateRecord
      BY <2>2, <3>2 DEF StateRecord
    <3> QED BY <3>1, <3>3
  <2> QED BY <1>2, <2>1, <2>3 DEF m
<1> HIDE DEF ns, st, new
<1>12. Sane(st, ns) /\ Sane(book[s], ns)
  <2>1. Sane(mem[s], ns) /\ Sane(book[s], ns)
    BY <1>2, <1>3, <1>4, <1>7, SaneAppend DEF ns
  <2>2. order.qty + mem[s].exitFilled = mem[s].filled
    BY <1>6, <1>7
  <2>3. st.exitFilled - st.exitSeen + ns[new].qty <= st.filled
    BY <1>6, <1>7, <1>9, <1>11
  <2>4. st.exitSeen <= ns[st.exitOrder].filled
    BY <1>7, <1>9, <1>11
  <2> QED BY <1>2, <1>9, <1>11, <2>1, <2>3, <2>4 DEF Sane
<1>13. /\ lane' = lane /\ Old(s)' = Old(s)
       /\ \A x \in Sids \ {s} : /\ Old(x)' = Old(x) /\ (Adoptable(x)' <=> Adoptable(x))
                                /\ ~Busy(x)' /\ ~Busy(x)
       /\ \A x \in Sids : GivenUp(x)' <=> GivenUp(x)
  <2>1. <<s, new>> \notin aged
    BY <1>0, <1>9, <1>11 DEF AgedOf
  <2>2. Old(s)' = {o \in DOMAIN ns : <<s, o>> \in aged}
    BY <1>1, <1>8 DEF Old
  <2>3. Old(s)' = Old(s)
    BY <1>9, <2>1, <2>2 DEF Old
  <2> QED BY <1>1, <1>8, <2>3 DEF lane, Old, Adoptable, Last, Busy, GivenUp
<1>14. TypeOK'
  <2>1. \A x \in Sids : OpenQty(mem'[x]) >= 0
    <3>1. OpenQty(st) >= 0
      BY <1>11, <1>12, SaneOpen
    <3> QED BY <1>0, <1>8, <3>1 DEF TypeOK
  <2>2. /\ orders' \in [Sids -> Seq(OrderRecord)] /\ seen' \in [Sids -> Seq(OrderRecord)]
        /\ held' \in [Sids -> Nat] /\ mem' \in [Sids -> StateRecord]
    BY <1>0, <1>1, <1>8, <1>9, <1>10, <1>11 DEF TypeOK
  <2>3. /\ scene' \in Scenarios /\ doc' \in [Sids -> Docs] /\ lapsed' \in [Sids -> BOOLEAN]
        /\ spec' \subseteq Sids /\ asked' \subseteq Sids \X Nat
        /\ seenPos' \in [Contracts -> Int] /\ aged' \subseteq Sids \X Nat
        /\ orphaned' \subseteq Sids /\ resolve' \subseteq Sids /\ spent' \in Bounds
        /\ \A b \in DOMAIN spent' : spent'[b] <= scene'.max[b]
        /\ book' \in [Sids -> StateRecord] /\ \A x \in Sids : OpenQty(book'[x]) >= 0
        /\ todo' \subseteq Sids /\ live' \in [Sids -> SUBSET Nat] /\ flags' \in KillSets \cup {{}}
        /\ cur' \in Sids \cup {NoSid}
    BY <1>0, <1>1 DEF TypeOK
  <2> QED BY <1>1, <2>1, <2>2, <2>3 DEF TypeOK, OpenQty
<1>15. Course'
  BY <1>0, <1>1, <1>2, <1>8, <1>9, <1>11 DEF Course, Last
<1>16. (BrokerOf(s) /\ DocOf(s) /\ AgedOf(s) /\ LiveOf(s) /\ BookOf(s))'
  <2>1. \A o \in DOMAIN os : os[o].done
    BY <1>1, <1>4, <1>5 DEF Exits, Working
  <2>2. BrokerOf(s)'
    <3>1. DOMAIN seen'[s] = DOMAIN orders'[s]
      BY <1>8, <1>9, <1>10
    <3>2. orders'[s][1].qty = Quantity[s]
      BY <1>0, <1>4, <1>5, <1>8, <1>9 DEF BrokerOf
    <3>3. /\ order.filled <= order.qty /\ order.filled # order.qty /\ order.filled <= order.filled
          /\ ~order.done
      BY <1>2, <1>6, <1>7
    <3>4. ASSUME NEW o \in DOMAIN os
          PROVE  /\ orders'[s][o].filled <= orders'[s][o].qty
                 /\ orders'[s][o].filled = orders'[s][o].qty => orders'[s][o].done
                 /\ seen'[s][o].filled <= orders'[s][o].filled
                 /\ seen'[s][o].done => seen'[s][o] = orders'[s][o]
                 /\ orders'[s][o].done
                 /\ \A q \in DOMAIN os : o < q /\ seen'[s][q].done => seen'[s][o].done
      BY <1>0, <1>8, <1>9, <1>10, <2>1 DEF BrokerOf
    <3>5. \A o \in DOMAIN os : ~(new < o)
      BY <1>5, <1>9, <1>11
    <3>6. ~(new < new)
      BY <1>11
    <3>7. orders'[s][new] = order /\ seen'[s][new] = order /\ DOMAIN orders'[s] = DOMAIN os \cup {new}
      BY <1>8, <1>9, <1>10
    <3> HIDE DEF os
    <3> QED BY <3>1, <3>2, <3>3, <3>4, <3>5, <3>6, <3>7 DEF BrokerOf
  <2>3. DocOf(s)'
    BY <1>0, <1>1, <1>2, <1>4, <1>8, <1>9 DEF DocOf
  <2>4. AgedOf(s)'
    <3>1. <<s, new>> \notin aged
      BY <1>0, <1>9, <1>11 DEF AgedOf
    <3>2. ASSUME NEW o \in Nat, <<s, o>> \in aged
          PROVE  o \in DOMAIN ns /\ ns[o].done /\ seen'[s][o].done
      <4>1. o \in DOMAIN os /\ os[o].done /\ seen[s][o].done
        BY <1>0, <1>1, <3>2 DEF AgedOf
      <4> HIDE DEF os
      <4> QED BY <1>9, <1>10, <4>1
    <3>3. held'[s] \in DOMAIN orders'[s] /\ <<s, held'[s]>> \notin aged' /\ pc' # "down"
      <4>1. held'[s] = new /\ orders'[s] = ns /\ aged' = aged /\ pc' = "placed"
        BY <1>1, <1>8
      <4>2. new \in DOMAIN ns
        BY <1>9
      <4> QED BY <3>1, <4>1, <4>2
    <3>4. \A o \in Nat : <<s, o>> \in aged' =>
             o \in DOMAIN orders'[s] /\ orders'[s][o].done /\ seen'[s][o].done
      BY <1>1, <1>8, <3>2
    <3> QED BY <3>3, <3>4 DEF AgedOf
  <2>5. LiveOf(s)'
    BY <1>1 DEF LiveOf
  <2>6. BookOf(s)'
    <3>1. /\ book[s].exitFilled <= mem[s].exitFilled
          /\ mem[s].filled <= Entered(book[s], os, Old(s), lane[s])
      BY <1>0, <1>2 DEF BookOf, EntryLane
    <3>2. Entered(book[s], ns, Old(s), lane[s]) = Entered(book[s], os, Old(s), lane[s])
      BY <1>4, <1>5, <1>9 DEF Entered
    <3>3. Room(st, ns, Old(s), lane[s])
      BY <1>9, <1>11 DEF Room
    <3>4. Room(book[s], ns, Old(s), lane[s])
      <4>1. Entered(book[s], os, Old(s), lane[s]) \in Nat
        <5>1. book[s].filled \in Nat /\ os[1].filled \in Nat
          BY <1>3, <1>5, StateFields, OrdersShape
        <5> QED BY <1>4, <5>1 DEF Entered
      <4>2. book[s].exitFilled \in Nat
        BY <1>3, StateFields
      <4>3. book[s].exitFilled + order.qty <= Entered(book[s], os, Old(s), lane[s])
        <5> DEFINE e == Entered(book[s], os, Old(s), lane[s])
                   b == book[s].exitFilled
                   m == mem[s].exitFilled
                   f == mem[s].filled
        <5>1. e \in Nat /\ b \in Nat /\ m \in Nat /\ f \in Nat /\ b <= m /\ f <= e
              /\ order.qty = f - m
          BY <1>6, <1>7, <3>1, <4>1, <4>2
        <5> HIDE DEF e, b, m, f
        <5>2. b + order.qty <= e
          BY <5>1
        <5> QED BY <5>2 DEF e, b
      <4> QED BY <1>9, <3>2, <4>3 DEF Room
    <3>5. Busy(s)'
      BY <1>1 DEF Busy
    <3> QED BY <1>1, <1>2, <1>8, <1>11, <1>12, <1>13, <3>1, <3>2, <3>3, <3>4, <3>5 DEF BookOf
  <2> QED BY <2>2, <2>3, <2>4, <2>5, <2>6
<1>17. ASSUME NEW x \in Sids \ {s}
       PROVE  (BrokerOf(x) /\ DocOf(x) /\ AgedOf(x) /\ LiveOf(x) /\ BookOf(x))'
  <2>1. (BrokerOf(x) /\ DocOf(x) /\ AgedOf(x) /\ LiveOf(x))'
    BY <1>0, <1>1, <1>8 DEF BrokerOf, DocOf, AgedOf, LiveOf
  <2>2. BookOf(x)'
    BY <1>0, <1>1, <1>8, <1>13 DEF BookOf
  <2> QED BY <2>1, <2>2
<1> QED BY <1>14, <1>15, <1>16, <1>17 DEF IInv
-----------------------------------------------------------------------------
(* The entry's steps keep it.                                              *)

LEMMA RecordKeeps ==
  ASSUME IInv, doc' \in [Sids -> Docs], lapsed' \in [Sids -> BOOLEAN],
         spec \subseteq spec', spec' \subseteq Sids,
         \A x \in Sids :
            /\ doc'[x] \in {"none", "pending", "rejected", "confirmed_not_submitted"}
                  => orders[x] = <<>>
            /\ doc'[x] \in {"acknowledged", "confirmed_submitted"} => orders[x] # <<>>
            /\ orders[x] = <<>> /\ GivenUp(x) => GivenUp(x)',
         UNCHANGED <<scene, book, orders, asked, aged, seen, seenPos, held, mem, pc, cur, todo,
                     live, flags, resolve, orphaned, spent>>
  PROVE  IInv'
<1>0. /\ TypeOK /\ Course
      /\ \A x \in Sids : BrokerOf(x) /\ DocOf(x) /\ AgedOf(x) /\ LiveOf(x) /\ BookOf(x)
  BY DEF IInv
<1>1. TypeOK'
  BY <1>0 DEF TypeOK, OpenQty
<1>2. Course'
  BY <1>0 DEF Course, Last, OpenQty
<1>3. ASSUME NEW x \in Sids PROVE (BrokerOf(x) /\ DocOf(x) /\ AgedOf(x) /\ LiveOf(x) /\ BookOf(x))'
  <2>1. (BrokerOf(x) /\ AgedOf(x) /\ LiveOf(x))'
    BY <1>0 DEF BrokerOf, AgedOf, LiveOf
  <2>2. DocOf(x)'
    BY <1>0 DEF DocOf
  <2>3. /\ Old(x)' = Old(x) /\ (Busy(x)' <=> Busy(x))
        /\ (Adoptable(x)' <=> Adoptable(x)) /\ lane' = lane
    BY DEF lane, Old, Busy, Adoptable, Last
  <2>4. BookOf(x)'
    BY <1>0, <2>3 DEF BookOf
  <2> QED BY <2>1, <2>2, <2>4
<1> QED BY <1>1, <1>2, <1>3 DEF IInv

LEMMA RecordStepKeeps ==
  ASSUME IInv, NEW s \in Sids,
         \/ RecordIntent(s)
         \/ Lapse(s)
         \/ Register(s)
         \/ Recover(s)
         \/ Reconcile(s)
  PROVE  IInv'
<1>0. TypeOK /\ \A x \in Sids : DocOf(x)
  BY DEF IInv
<1>1. UNCHANGED <<scene, book, orders, asked, aged, seen, seenPos, held, mem, pc, cur, todo,
                  live, flags, resolve, orphaned, spent>>
  BY DEF RecordIntent, Lapse, Register, Recover, Reconcile, broker, views, ticking
<1>2. CASE RecordIntent(s)
  <2>1. /\ doc[s] = "none" /\ doc' = [doc EXCEPT ![s] = "pending"] /\ UNCHANGED <<lapsed, spec>>
    BY <1>2 DEF RecordIntent
  <2>2. doc' \in [Sids -> Docs] /\ \A x \in Sids : doc'[x] = IF x = s THEN "pending" ELSE doc[x]
    BY <1>0, <2>1 DEF TypeOK, Docs
  <2>3. lapsed' \in [Sids -> BOOLEAN] /\ spec' \subseteq Sids /\ spec \subseteq spec'
    BY <1>0, <2>1 DEF TypeOK
  <2>4. \A x \in Sids : GivenUp(x) => GivenUp(x)'
    BY <2>1, <2>2 DEF GivenUp
  <2>5. \A x \in Sids :
            /\ doc'[x] \in {"none", "pending", "rejected", "confirmed_not_submitted"}
                  => orders[x] = <<>>
            /\ doc'[x] \in {"acknowledged", "confirmed_submitted"} => orders[x] # <<>>
    BY <1>0, <2>1, <2>2 DEF DocOf
  <2> QED BY <1>1, <2>2, <2>3, <2>4, <2>5, RecordKeeps
<1>3. CASE Lapse(s) \/ Register(s)
  <2>1. /\ doc' = doc
        /\ \/ lapsed' = [lapsed EXCEPT ![s] = TRUE] /\ spec' = spec
           \/ lapsed' = lapsed /\ spec' = spec \cup {s}
    BY <1>3 DEF Lapse, Register
  <2>2. /\ lapsed' \in [Sids -> BOOLEAN] /\ spec' \subseteq Sids /\ spec \subseteq spec'
        /\ doc' \in [Sids -> Docs] /\ \A x \in Sids : lapsed[x] => lapsed'[x]
    BY <1>0, <2>1 DEF TypeOK
  <2>3. \A x \in Sids : GivenUp(x) => GivenUp(x)'
    BY <2>1, <2>2 DEF GivenUp
  <2>4. \A x \in Sids :
            /\ doc'[x] \in {"none", "pending", "rejected", "confirmed_not_submitted"}
                  => orders[x] = <<>>
            /\ doc'[x] \in {"acknowledged", "confirmed_submitted"} => orders[x] # <<>>
    BY <1>0, <2>1 DEF DocOf
  <2> QED BY <1>1, <2>2, <2>3, <2>4, RecordKeeps
<1>4. CASE Recover(s) \/ Reconcile(s)
  <2> DEFINE d == IF doc[s] = "sending" THEN "uncertain"
                  ELSE IF orders[s] # <<>> THEN "confirmed_submitted"
                  ELSE "confirmed_not_submitted"
  <2>1. /\ doc[s] \in {"sending", "uncertain"} /\ doc' = [doc EXCEPT ![s] = d]
        /\ UNCHANGED <<lapsed, spec>>
    BY <1>4 DEF Recover, Reconcile
  <2>2. /\ d \in Docs
        /\ d \in {"none", "pending", "rejected", "confirmed_not_submitted"} => orders[s] = <<>>
        /\ d \in {"acknowledged", "confirmed_submitted"} => orders[s] # <<>>
    BY DEF Docs
  <2> HIDE DEF d
  <2>3. doc' \in [Sids -> Docs] /\ \A x \in Sids : doc'[x] = IF x = s THEN d ELSE doc[x]
    BY <1>0, <2>1, <2>2 DEF TypeOK
  <2>4. lapsed' \in [Sids -> BOOLEAN] /\ spec' \subseteq Sids /\ spec \subseteq spec'
    BY <1>0, <2>1 DEF TypeOK
  <2>5. \A x \in Sids : GivenUp(x) => GivenUp(x)'
    BY <2>1, <2>3 DEF GivenUp
  <2>6. \A x \in Sids :
            /\ doc'[x] \in {"none", "pending", "rejected", "confirmed_not_submitted"}
                  => orders[x] = <<>>
            /\ doc'[x] \in {"acknowledged", "confirmed_submitted"} => orders[x] # <<>>
    BY <1>0, <2>2, <2>3 DEF DocOf
  <2> QED BY <1>1, <2>3, <2>4, <2>5, <2>6, RecordKeeps
<1> QED BY <1>2, <1>3, <1>4

\* Sending, whatever becomes of it: only a planned structure is sent.
LEMMA SendKeeps ==
  ASSUME IInv, NEW s \in Sids, pc = "idle", doc[s] = "pending", s \in spec, ~lapsed[s],
         NEW d \in {"acknowledged", "rejected", "uncertain", "sending"},
         doc' = [doc EXCEPT ![s] = d],
         \/ EnterOrder(s) /\ d # "rejected"
         \/ UNCHANGED <<orders, seen>> /\ d # "acknowledged",
         \/ pc' = "idle" /\ held' = held
         \/ pc' = "down" /\ held' = [x \in Sids |-> 0],
         spent' \in Bounds, \A b \in DOMAIN spent' : spent'[b] <= scene.max[b],
         UNCHANGED <<scene, lapsed, spec, book, asked, aged, seenPos, mem, cur, todo, live, flags,
                     resolve, orphaned>>
  PROVE  IInv'
<1> DEFINE new == <<NewOrder(Quantity[s])>>
<1>0. /\ TypeOK /\ Course
      /\ \A x \in Sids : BrokerOf(x) /\ DocOf(x) /\ AgedOf(x) /\ LiveOf(x) /\ BookOf(x)
  BY DEF IInv
<1>1. /\ orders[s] = <<>> /\ book[s] = NewState /\ todo = {} /\ \A x \in Sids : live[x] = {}
  <2>1. orders[s] = <<>> /\ todo = {} /\ \A x \in Sids : live[x] = {}
    BY <1>0 DEF DocOf, Course
  <2>2. book[s].status # "closed"
    BY <1>0, <2>1 DEF BookOf, GivenUp
  <2>3. book[s] \in StateRecord /\ Sane(book[s], <<>>)
    BY <1>0, <2>1 DEF TypeOK, BookOf
  <2>4. book[s].status = "planned"
    BY <2>2, <2>3 DEF Sane
  <2> QED BY <2>1, <2>3, <2>4 DEF Sane
<1>2. /\ new \in Seq(OrderRecord) /\ Len(new) = 1 /\ DOMAIN new = {1} /\ new # <<>>
      /\ new[1].qty = Quantity[s] /\ new[1].filled = 0 /\ ~new[1].done
      /\ Quantity[s] \in Nat /\ Quantity[s] > 0
  <2>1. Quantity[s] \in Nat /\ Quantity[s] > 0
    BY ScenarioAssumption
  <2>2. NewOrder(Quantity[s]) \in OrderRecord
    BY <2>1 DEF NewOrder, OrderRecord
  <2> QED BY <2>1, <2>2 DEF NewOrder
<1> HIDE DEF new
<1>3. /\ orders' \in [Sids -> Seq(OrderRecord)] /\ seen' \in [Sids -> Seq(OrderRecord)]
      /\ orders'[s] = new \/ (orders'[s] = <<>> /\ d # "acknowledged")
      /\ orders'[s] # <<>> => d # "rejected"
      /\ seen'[s] = orders'[s]
      /\ \A x \in Sids \ {s} : orders'[x] = orders[x] /\ seen'[x] \in {seen[x], orders[x]}
  <2>1. CASE EnterOrder(s) /\ d # "rejected"
    <3>1. orders' = [orders EXCEPT ![s] = new] /\ seen' = orders'
      BY <2>1 DEF EnterOrder, new
    <3> QED BY <1>0, <1>2, <2>1, <3>1 DEF TypeOK
  <2>2. CASE UNCHANGED <<orders, seen>> /\ d # "acknowledged"
    <3>1. seen[s] = <<>>
      <4>1. DOMAIN seen[s] = DOMAIN orders[s] /\ seen[s] \in Seq(OrderRecord)
        BY <1>0 DEF BrokerOf, TypeOK
      <4>2. 1 \notin DOMAIN orders[s]
        BY <1>1
      <4> QED BY <4>1, <4>2, OrdersShape
    <3> QED BY <1>0, <1>1, <2>2, <3>1 DEF TypeOK
  <2> QED BY <2>1, <2>2
<1>4. \A x \in Sids : doc'[x] = IF x = s THEN d ELSE doc[x]
  BY <1>0 DEF TypeOK
<1>12. DOMAIN orders[s] = {}
  BY <1>1
<1>5. \A o \in Nat : <<s, o>> \notin aged
  BY <1>0, <1>12 DEF AgedOf
<1>6. held[s] = 0
  BY <1>0, <1>12 DEF AgedOf
<1>7. TypeOK'
  <2>1. doc' \in [Sids -> Docs]
    BY <1>0 DEF TypeOK, Docs
  <2>2. held' \in [Sids -> Nat] /\ pc' \in {"idle", "down"}
    BY <1>0 DEF TypeOK
  <2>3. /\ scene' \in Scenarios /\ lapsed' \in [Sids -> BOOLEAN]
        /\ spec' \subseteq Sids /\ asked' \subseteq Sids \X Nat
        /\ seenPos' \in [Contracts -> Int] /\ aged' \subseteq Sids \X Nat
        /\ orphaned' \subseteq Sids /\ resolve' \subseteq Sids
        /\ book' \in [Sids -> StateRecord] /\ mem' \in [Sids -> StateRecord]
        /\ \A x \in Sids : OpenQty(mem'[x]) >= 0 /\ OpenQty(book'[x]) >= 0
        /\ todo' \subseteq Sids /\ live' \in [Sids -> SUBSET Nat] /\ flags' \in KillSets \cup {{}}
        /\ cur' \in Sids \cup {NoSid} /\ \A b \in DOMAIN spent' : spent'[b] <= scene'.max[b]
    BY <1>0 DEF TypeOK
  <2> QED BY <1>3, <2>1, <2>2, <2>3 DEF TypeOK, OpenQty
<1>8. Course'
  BY <1>0, <1>1 DEF Course
<1>9. \A x \in Sids : ~Busy(x) /\ ~Busy(x)'
  BY DEF Busy
<1>10. (BrokerOf(s) /\ DocOf(s) /\ AgedOf(s) /\ LiveOf(s) /\ BookOf(s))'
  <2>1. BrokerOf(s)'
    <3>1. CASE orders'[s] = new
      <4>1. \A o \in {1} : \A q \in {1} : ~(o < q)
        OBVIOUS
      <4>2. new[1].filled <= new[1].qty /\ new[1].filled # new[1].qty /\ new[1].filled <= new[1].filled
        BY <1>2
      <4> QED BY <1>2, <1>3, <3>1, <4>1, <4>2 DEF BrokerOf
    <3>2. CASE orders'[s] = <<>>
      BY <1>3, <3>2 DEF BrokerOf
    <3> QED BY <1>3, <3>1, <3>2
  <2>2. DocOf(s)'
    BY <1>2, <1>3, <1>4 DEF DocOf
  <2>3. AgedOf(s)'
    BY <1>5, <1>6 DEF AgedOf
  <2>4. LiveOf(s)'
    BY <1>1 DEF LiveOf
  <2>5. BookOf(s)'
    <3>1. mem[s] = book[s]
      BY <1>0, <1>9 DEF BookOf
    <3>2. /\ book[s].status = "planned" /\ book[s].filled = 0 /\ book[s].exitFilled = 0
          /\ book[s].exitOrder = 0 /\ book[s].exitSeen = 0
      BY <1>1 DEF NewState
    <3>3. Sane(book[s], orders'[s])
      BY <1>1, <1>2, <1>3, <3>2 DEF Sane
    <3>4. ~(Len(orders'[s]) > 1)
      <4>1. CASE orders'[s] = new
        <5>1. Len(orders'[s]) = 1
          BY <1>2, <4>1
        <5> QED BY <5>1
      <4>2. CASE orders'[s] = <<>>
        BY <4>2
      <4> QED BY <1>3, <4>1, <4>2
    <3>5. Room(book[s], orders'[s], Old(s)', lane'[s])
      BY <3>4 DEF Room
    <3> QED BY <1>9, <3>1, <3>2, <3>3, <3>5 DEF BookOf
  <2> QED BY <2>1, <2>2, <2>3, <2>4, <2>5
<1>11. ASSUME NEW x \in Sids \ {s}
       PROVE  (BrokerOf(x) /\ DocOf(x) /\ AgedOf(x) /\ LiveOf(x) /\ BookOf(x))'
  <2>0. /\ orders'[x] = orders[x] /\ seen'[x] \in {seen[x], orders[x]} /\ doc'[x] = doc[x]
        /\ orders[x] \in Seq(OrderRecord)
    BY <1>0, <1>3, <1>4 DEF TypeOK
  <2>1. BrokerOf(x)'
    <3>1. \A o \in DOMAIN orders[x] : orders[x][o].filled \in Nat
      BY <2>0, OrdersShape
    <3>2. \A o \in DOMAIN orders[x] : orders[x][o].filled <= orders[x][o].filled
      BY <3>1
    <3>3. CASE seen'[x] = orders[x]
      BY <1>0, <2>0, <3>2, <3>3 DEF BrokerOf
    <3>4. CASE seen'[x] = seen[x]
      BY <1>0, <2>0, <3>4 DEF BrokerOf
    <3> QED BY <2>0, <3>3, <3>4
  <2>2. \A o \in DOMAIN orders[x] : seen[x][o].done => seen'[x][o].done /\ orders[x][o].done
    BY <1>0, <2>0 DEF BrokerOf
  <2>3. DocOf(x)'
    BY <1>0, <2>0 DEF DocOf
  <2>4. AgedOf(x)'
    BY <1>0, <2>0, <2>2 DEF AgedOf
  <2>5. LiveOf(x)'
    BY <1>1 DEF LiveOf
  <2>6. Adoptable(x)' => Adoptable(x)
    <3>1. orders[x] # <<>> => Last(x) \in DOMAIN orders[x]
      BY <2>0, OrdersShape DEF Last
    <3> QED BY <1>1, <2>0, <2>2, <3>1 DEF Adoptable, Last
  <2>7. Old(x)' = Old(x) /\ lane' = lane /\ (GivenUp(x)' <=> GivenUp(x))
    BY <2>0 DEF Old, lane, GivenUp
  <2>8. BookOf(x)'
    BY <1>0, <1>9, <2>0, <2>6, <2>7 DEF BookOf
  <2> QED BY <2>1, <2>3, <2>4, <2>5, <2>8
<1> QED BY <1>7, <1>8, <1>10, <1>11 DEF IInv

LEMMA SendStepKeeps ==
  ASSUME IInv, NEW s \in Sids, Send(s) \/ SendDies(s)
  PROVE  IInv'
<1>0. TypeOK
  BY DEF IInv
<1>1. CASE Send(s)
  <2>1. /\ pc = "idle" /\ doc[s] = "pending" /\ s \in spec /\ ~lapsed[s]
        /\ pc' = "idle" /\ held' = held
        /\ UNCHANGED <<scene, lapsed, spec, book, asked, aged, seenPos, mem, cur, todo, live, flags,
                       resolve, orphaned, spent>>
    BY <1>1 DEF Send, Idle, ticking
  <2>2. spent' \in Bounds /\ \A b \in DOMAIN spent' : spent'[b] <= scene.max[b]
    BY <1>0, <2>1 DEF TypeOK
  <2>3. PICK d \in {"acknowledged", "rejected", "uncertain"} :
           /\ doc' = [doc EXCEPT ![s] = d]
           /\ \/ EnterOrder(s) /\ d # "rejected"
              \/ UNCHANGED <<orders, seen>> /\ d # "acknowledged"
    BY <1>1 DEF Send
  <2> QED BY <2>1, <2>2, <2>3, SendKeeps
<1>2. CASE SendDies(s)
  <2>1. /\ pc = "idle" /\ doc[s] = "pending" /\ s \in spec /\ ~lapsed[s]
        /\ pc' = "down" /\ held' = [x \in Sids |-> 0]
        /\ doc' = [doc EXCEPT ![s] = "sending"]
        /\ EnterOrder(s) \/ UNCHANGED <<orders, seen>>
        /\ spent.crashes < scene.max.crashes /\ spent' = [spent EXCEPT !.crashes = @ + 1]
        /\ UNCHANGED <<scene, lapsed, spec, book, asked, aged, seenPos, mem, cur, todo, live, flags,
                       resolve, orphaned>>
    BY <1>2 DEF SendDies, Idle
  <2>2. spent' \in Bounds /\ \A b \in DOMAIN spent' : spent'[b] <= scene.max[b]
    BY <1>0, <2>1, SpentOne
  <2> QED BY <2>1, <2>2, SendKeeps
<1> QED BY <1>1, <1>2
-----------------------------------------------------------------------------
(* The broker's and the operator's steps keep it.                          *)

\* Orders os that have moved on to ns: filled further, or over.
Further(os, ns) ==
    /\ Len(ns) = Len(os) /\ DOMAIN ns = DOMAIN os
    /\ \A p \in DOMAIN os : /\ ns[p].qty = os[p].qty /\ os[p].filled <= ns[p].filled
                            /\ os[p].done => ns[p].done

LEMMA FurtherSane ==
  ASSUME NEW st \in StateRecord, NEW os \in Seq(OrderRecord), NEW ns \in Seq(OrderRecord),
         Further(os, ns), Sane(st, os)
  PROVE  Sane(st, ns)
<1>1. /\ DOMAIN ns = DOMAIN os /\ (ns = <<>> <=> os = <<>>) /\ (os # <<>> => 1 \in DOMAIN os)
      /\ \A p \in DOMAIN os : /\ os[p].filled \in Nat /\ ns[p].filled \in Nat
                              /\ ns[p].qty = os[p].qty /\ os[p].filled <= ns[p].filled
                              /\ os[p].done => ns[p].done
  BY OrdersShape DEF Further
<1>2. st.filled \in Nat /\ st.exitSeen \in Nat
  BY StateFields
<1>3. st.filled <= (IF ns = <<>> THEN 0 ELSE ns[1].filled)
  BY <1>1, <1>2 DEF Sane
<1>4. st.exitOrder # 0 => /\ st.exitSeen <= ns[st.exitOrder].filled
                          /\ ns[st.exitOrder].qty = os[st.exitOrder].qty
                          /\ st.exitOrder \in DOMAIN ns
  BY <1>1, <1>2 DEF Sane
<1> QED BY <1>1, <1>3, <1>4 DEF Sane

LEMMA FurtherEntered ==
  ASSUME NEW st \in StateRecord, NEW os \in Seq(OrderRecord), NEW ns \in Seq(OrderRecord),
         Further(os, ns), NEW old, NEW ln
  PROVE  /\ Entered(st, os, old, ln) \in Nat /\ Entered(st, ns, old, ln) \in Nat
         /\ Entered(st, os, old, ln) <= Entered(st, ns, old, ln)
         /\ Room(st, os, old, ln) => Room(st, ns, old, ln)
<1>1. /\ DOMAIN ns = DOMAIN os /\ (ns = <<>> <=> os = <<>>) /\ (os # <<>> => 1 \in DOMAIN os)
      /\ \A p \in DOMAIN os : /\ os[p].filled \in Nat /\ ns[p].filled \in Nat
                              /\ os[p].filled <= ns[p].filled
  BY OrdersShape DEF Further
<1>2. st.filled \in Nat /\ st.exitFilled \in Nat
  BY StateFields
<1>3. /\ Entered(st, os, old, ln) \in Nat /\ Entered(st, ns, old, ln) \in Nat
      /\ Entered(st, os, old, ln) <= Entered(st, ns, old, ln)
  BY <1>1, <1>2 DEF Entered
<1>4. ASSUME Room(st, os, old, ln) PROVE Room(st, ns, old, ln)
  <2> SUFFICES ASSUME st.status # "closed", Len(ns) > 1, Len(ns) > st.exitOrder
               PROVE  st.exitFilled + ns[Len(ns)].qty <= Entered(st, ns, old, ln)
    BY DEF Room
  <2>1. Len(ns) = Len(os) /\ Len(os) \in DOMAIN os /\ os[Len(os)].qty \in Nat
    <3>1. Len(ns) = Len(os) /\ os # <<>>
      BY OrdersShape DEF Further
    <3> QED BY <3>1, OrdersShape
  <2>2. ns[Len(ns)].qty = os[Len(os)].qty
    BY <2>1 DEF Further
  <2>3. st.exitFilled + os[Len(os)].qty <= Entered(st, os, old, ln)
    BY <1>4, <2>1 DEF Room
  <2> DEFINE e == Entered(st, os, old, ln)
             f == Entered(st, ns, old, ln)
             c == os[Len(os)].qty
             k == st.exitFilled
  <2>4. e \in Nat /\ f \in Nat /\ c \in Nat /\ k \in Nat /\ k + c <= e /\ e <= f
    BY <1>2, <1>3, <2>1, <2>3
  <2> HIDE DEF e, f, c, k
  <2>5. k + c <= f
    BY <2>4
  <2> QED BY <2>2, <2>5 DEF f, c, k
<1> QED BY <1>3, <1>4

LEMMA OrderMovesKeeps ==
  ASSUME IInv, NEW s \in Sids, NEW o \in DOMAIN orders[s], ~orders[s][o].done,
         NEW r \in OrderRecord, r.qty = orders[s][o].qty, orders[s][o].filled <= r.filled,
         r.filled <= r.qty, r.filled = r.qty => r.done,
         orders' = [orders EXCEPT ![s] = [orders[s] EXCEPT ![o] = r]],
         spent' \in Bounds, \A b \in DOMAIN spent' : spent'[b] <= scene.max[b],
         UNCHANGED <<scene, doc, lapsed, spec, book, asked, aged, seen, seenPos, held, mem, pc,
                     cur, todo, live, flags, resolve, orphaned>>
  PROVE  IInv'
<1> DEFINE os == orders[s]
           ns == [os EXCEPT ![o] = r]
<1>0. /\ TypeOK /\ Course
      /\ \A x \in Sids : BrokerOf(x) /\ DocOf(x) /\ AgedOf(x) /\ LiveOf(x) /\ BookOf(x)
  BY DEF IInv
<1>1. os \in Seq(OrderRecord) /\ DOMAIN os = 1..Len(os) /\ Len(os) \in Nat
      /\ \A p \in DOMAIN os : os[p] \in OrderRecord /\ os[p].filled \in Nat /\ p \in Nat
  BY <1>0, OrdersShape DEF TypeOK
<1>2. /\ ns \in Seq(OrderRecord) /\ Len(ns) = Len(os) /\ DOMAIN ns = DOMAIN os /\ ns[o] = r
      /\ \A p \in DOMAIN os \ {o} : ns[p] = os[p]
  <2>1. DOMAIN ns = DOMAIN os /\ ns[o] = r /\ \A p \in DOMAIN os \ {o} : ns[p] = os[p]
    OBVIOUS
  <2>2. ns \in [1..Len(os) -> OrderRecord]
    BY <1>1, <2>1
  <2>3. ns \in Seq(OrderRecord)
    BY <1>1, <2>2
  <2>4. Len(ns) = Len(os)
    <3> HIDE DEF ns
    <3> QED BY <1>1, <2>1, <2>3, SameLen
  <2> QED BY <2>1, <2>3, <2>4
<1>3. orders'[s] = ns /\ \A x \in Sids \ {s} : orders'[x] = orders[x]
  BY <1>0 DEF TypeOK
<1> HIDE DEF ns
<1>4. \A x \in Sids : orders'[x] \in Seq(OrderRecord)
  BY <1>0, <1>2, <1>3 DEF TypeOK
<1>5. \A x \in Sids : Further(orders[x], orders'[x])
  <2>1. Further(os, ns)
    <3>1. \A p \in DOMAIN os : os[p].filled <= os[p].filled
      BY <1>1
    <3> QED BY <1>2, <3>1 DEF Further
  <2>2. ASSUME NEW x \in Sids \ {s} PROVE Further(orders[x], orders[x])
    <3>1. \A p \in DOMAIN orders[x] : orders[x][p].filled \in Nat
      BY <1>0, OrdersShape DEF TypeOK
    <3>2. \A p \in DOMAIN orders[x] : orders[x][p].filled <= orders[x][p].filled
      BY <3>1
    <3> QED BY <3>2 DEF Further
  <2> QED BY <1>3, <2>1, <2>2
<1>6. \A x \in Sids : /\ DOMAIN orders'[x] = DOMAIN orders[x]
                      /\ Len(orders'[x]) = Len(orders[x])
                      /\ orders'[x] = <<>> <=> orders[x] = <<>>
                      /\ \A p \in DOMAIN orders[x] : orders[x][p].done => orders'[x][p].done
  <2>1. \A x \in Sids : /\ DOMAIN orders'[x] = DOMAIN orders[x]
                        /\ Len(orders'[x]) = Len(orders[x])
                        /\ \A p \in DOMAIN orders[x] : orders[x][p].done => orders'[x][p].done
    BY <1>5 DEF Further
  <2>2. \A x \in Sids : /\ orders'[x] # <<>> <=> Len(orders'[x]) > 0
                        /\ orders[x] # <<>> <=> Len(orders[x]) > 0
    BY <1>0, <1>4, OrdersShape DEF TypeOK
  <2> QED BY <2>1, <2>2
<1>7. TypeOK'
  <2>1. orders' \in [Sids -> Seq(OrderRecord)]
    BY <1>0, <1>4 DEF TypeOK
  <2> QED BY <1>0, <2>1 DEF TypeOK, OpenQty
<1>8. Course'
  BY <1>0, <1>6 DEF Course, Last, OpenQty, TypeOK
<1>9. ASSUME NEW x \in Sids PROVE (BrokerOf(x) /\ DocOf(x) /\ AgedOf(x) /\ LiveOf(x) /\ BookOf(x))'
  <2>1. BrokerOf(x)'
    <3>1. CASE x # s
      BY <1>0, <1>3, <3>1 DEF BrokerOf
    <3>2. CASE x = s
      <4>1. BrokerOf(s) /\ ~seen[s][o].done
        BY <1>0 DEF BrokerOf
      <4>2. \A q \in DOMAIN os : o < q => FALSE
        BY <4>1 DEF BrokerOf
      <4>3. /\ seen[s][o].filled <= r.filled
        <5>1. seen[s][o].filled \in Nat /\ seen[s][o].filled <= os[o].filled
          BY Shape
        <5>2. os[o].filled \in Nat /\ r.filled \in Nat
          BY <1>1 DEF OrderRecord
        <5> QED BY <5>1, <5>2
      <4>4. 1 \in DOMAIN os => ns[1].qty = Quantity[s]
        <5>1. 1 \in DOMAIN os => os[1].qty = Quantity[s]
          BY <4>1 DEF BrokerOf
        <5> QED BY <1>2, <5>1
      <4>5. ns # <<>> => 1 \in DOMAIN os
        BY <1>2, OrdersShape
      <4>6. ASSUME NEW p \in DOMAIN os
            PROVE  /\ ns[p].filled <= ns[p].qty
                   /\ ns[p].filled = ns[p].qty => ns[p].done
                   /\ seen[s][p].filled <= ns[p].filled
                   /\ seen[s][p].done => seen[s][p] = ns[p]
                   /\ \A q \in DOMAIN os :
                         p < q => ns[p].done /\ (seen[s][q].done => seen[s][p].done)
        <5>1. CASE p = o
          BY <1>2, <4>1, <4>2, <4>3, <5>1
        <5>2. CASE p # o
          BY <1>2, <4>1, <5>2 DEF BrokerOf
        <5> QED BY <5>1, <5>2
      <4>7. DOMAIN seen[s] = DOMAIN os /\ orders'[s] = ns /\ seen' = seen /\ DOMAIN ns = DOMAIN os
        BY <1>2, <1>3, <4>1 DEF BrokerOf
      <4> HIDE DEF os
      <4> QED BY <3>2, <4>4, <4>5, <4>6, <4>7 DEF BrokerOf
    <3> QED BY <3>1, <3>2
  <2>2. DocOf(x)'
    BY <1>0, <1>6 DEF DocOf
  <2>3. AgedOf(x)'
    BY <1>0, <1>6 DEF AgedOf
  <2>4. LiveOf(x)'
    BY <1>0, <1>6 DEF LiveOf
  <2>5. Adoptable(x)' => Adoptable(x)
    <3>1. orders[x] # <<>> => Last(x) \in DOMAIN orders[x]
      BY <1>0, OrdersShape DEF Last, TypeOK
    <3> QED BY <1>6, <3>1 DEF Adoptable, Last
  <2>6. Old(x)' = Old(x) /\ lane' = lane /\ (GivenUp(x)' <=> GivenUp(x)) /\ (Busy(x)' <=> Busy(x))
    BY <1>6 DEF Old, lane, GivenUp, Busy
  <2>7. book[x] \in StateRecord /\ mem[x] \in StateRecord /\ orders[x] \in Seq(OrderRecord)
        /\ orders'[x] \in Seq(OrderRecord) /\ BookOf(x) /\ Further(orders[x], orders'[x])
    BY <1>0, <1>4, <1>5 DEF TypeOK
  <2>8. Sane(book[x], orders'[x]) /\ Sane(mem[x], orders'[x])
    BY <2>7, FurtherSane DEF BookOf
  <2>9. Adoptable(x)' => /\ Room(book[x], orders'[x], Old(x), lane[x])
                         /\ Room(mem[x], orders'[x], Old(x), lane[x])
    BY <2>5, <2>7, FurtherEntered DEF BookOf
  <2>10. Busy(x) /\ mem[x].status \notin EntryLane =>
            mem[x].filled <= Entered(book[x], orders'[x], Old(x), lane[x])
    <3>1. /\ Entered(book[x], orders[x], Old(x), lane[x]) \in Nat
          /\ Entered(book[x], orders'[x], Old(x), lane[x]) \in Nat
          /\ Entered(book[x], orders[x], Old(x), lane[x]) <= Entered(book[x], orders'[x], Old(x), lane[x])
          /\ mem[x].filled \in Nat
      BY <2>7, FurtherEntered, StateFields
    <3> QED BY <2>7, <3>1 DEF BookOf
  <2>11. BookOf(x)'
    BY <1>6, <2>6, <2>7, <2>8, <2>9, <2>10 DEF BookOf
  <2> QED BY <2>1, <2>2, <2>3, <2>4, <2>11
<1> QED BY <1>7, <1>8, <1>9 DEF IInv

LEMMA DoneFields ==
  ASSUME NEW w \in OrderRecord, NEW r, r = [w EXCEPT !.done = TRUE]
  PROVE  /\ r \in OrderRecord /\ r.qty = w.qty /\ r.filled = w.filled
         /\ r.done = TRUE /\ (w.done => r = w)
<1>1. w.done \in BOOLEAN /\ w = [qty |-> w.qty, filled |-> w.filled, done |-> w.done]
  BY DEF OrderRecord
<1>2. r \in OrderRecord /\ r.qty = w.qty /\ r.filled = w.filled /\ r.done = TRUE
  BY DEF OrderRecord
<1>3. r = [qty |-> r.qty, filled |-> r.filled, done |-> r.done]
  BY <1>2 DEF OrderRecord
<1>4. w.done => w.done = TRUE
  BY <1>1
<1> QED BY <1>1, <1>2, <1>3, <1>4

LEMMA MarketStepKeeps ==
  ASSUME IInv, NEW s \in Sids, NEW o \in DOMAIN orders[s],
         Fill(s, o) \/ CancelLands(s, o) \/ Dies(s, o)
  PROVE  IInv'
<1> DEFINE w == orders[s][o]
<1>0. /\ TypeOK /\ BrokerOf(s) /\ orders[s] \in Seq(OrderRecord)
  BY Shape DEF IInv
<1>1. w \in OrderRecord /\ w.qty \in Nat /\ w.filled \in Nat
  BY <1>0, OrdersShape
<1>2. w.filled <= w.qty /\ (w.filled = w.qty => w.done)
  BY <1>0 DEF BrokerOf
<1>3. spent \in Bounds /\ \A b \in DOMAIN spent : spent[b] <= scene.max[b]
  BY <1>0 DEF TypeOK
<1>4. CASE Fill(s, o)
  <2> DEFINE n == w.filled + 1
             r == [w EXCEPT !.filled = n, !.done = (n = w.qty)]
  <2>1. /\ ~w.done
        /\ orders' = [orders EXCEPT ![s][o].filled = n, ![s][o].done = (n = w.qty)]
        /\ UNCHANGED <<scene, doc, lapsed, spec, book, asked, aged, seen, seenPos, held, mem, pc,
                       cur, todo, live, flags, resolve, orphaned, spent>>
    BY <1>4 DEF Fill, Working, entryVars, views, ticking
  <2>2. n \in Nat /\ w.filled <= n /\ n <= w.qty
    BY <1>1, <1>2, <2>1
  <2>3. /\ r \in OrderRecord /\ r.qty = w.qty /\ r.filled = n /\ (r.done <=> n = w.qty)
    <3> HIDE DEF n, w
    <3> QED BY <1>1, <2>2 DEF OrderRecord
  <2>4. orders' = [orders EXCEPT ![s] = [orders[s] EXCEPT ![o] = r]]
    BY <1>0, <2>1 DEF TypeOK
  <2>5. w.filled <= r.filled /\ r.filled <= r.qty /\ (r.filled = r.qty => r.done)
    BY <2>2, <2>3
  <2>6. spent' \in Bounds /\ \A b \in DOMAIN spent' : spent'[b] <= scene.max[b]
    BY <1>3, <2>1
  <2>7. r \in OrderRecord /\ r.qty = w.qty
    BY <2>3
  <2> HIDE DEF r, n
  <2> QED BY <2>1, <2>4, <2>5, <2>6, <2>7, OrderMovesKeeps
<1>5. CASE CancelLands(s, o) \/ Dies(s, o)
  <2> DEFINE r == [w EXCEPT !.done = TRUE]
  <2>1. /\ ~w.done
        /\ orders' = [orders EXCEPT ![s][o].done = TRUE]
        /\ UNCHANGED <<scene, doc, lapsed, spec, book, asked, aged, seen, seenPos, held, mem, pc,
                       cur, todo, live, flags, resolve, orphaned>>
        /\ \/ spent' = spent
           \/ /\ o # 1 /\ spent.deaths < scene.max.deaths
              /\ spent' = [spent EXCEPT !.deaths = @ + 1]
           \/ o = 1 /\ spent' = [spent EXCEPT !.deaths = @]
    BY <1>5 DEF CancelLands, Dies, Working, entryVars, views, ticking
  <2>2. [spent EXCEPT !.deaths = @] = spent
    BY <1>3 DEF Bounds
  <2>3. spent' \in Bounds /\ \A b \in DOMAIN spent' : spent'[b] <= scene.max[b]
    BY <1>0, <1>3, <2>1, <2>2, SpentOne
  <2>4. r \in OrderRecord /\ r.qty = w.qty /\ r.filled = w.filled /\ r.done = TRUE
    <3>1. r = [w EXCEPT !.done = TRUE]
      OBVIOUS
    <3> HIDE DEF w, r
    <3> QED BY <1>1, <3>1, DoneFields
  <2>5. orders' = [orders EXCEPT ![s] = [orders[s] EXCEPT ![o] = r]]
    BY <1>0, <2>1 DEF TypeOK
  <2>6. w.filled <= r.filled /\ r.filled <= r.qty /\ (r.filled = r.qty => r.done)
    <3> HIDE DEF w, r
    <3> QED BY <1>1, <1>2, <2>4
  <2>7. /\ ~w.done
        /\ UNCHANGED <<scene, doc, lapsed, spec, book, asked, aged, seen, seenPos, held, mem, pc,
                       cur, todo, live, flags, resolve, orphaned>>
    BY <2>1
  <2> HIDE DEF r
  <2> QED BY <2>3, <2>4, <2>5, <2>6, <2>7, OrderMovesKeeps
<1> QED BY <1>4, <1>5

LEMMA NewDayKeeps ==
  ASSUME IInv, NewDay
  PROVE  IInv'
<1>0. /\ TypeOK /\ Course
      /\ \A x \in Sids : BrokerOf(x) /\ DocOf(x) /\ AgedOf(x) /\ LiveOf(x) /\ BookOf(x)
  BY DEF IInv
<1>1. /\ pc = "down"
      /\ orders' = [s \in Sids |-> [o \in DOMAIN orders[s] |-> [orders[s][o] EXCEPT !.done = TRUE]]]
      /\ aged' = UNION {{s} \X DOMAIN orders[s] : s \in Sids}
      /\ UNCHANGED <<scene, doc, lapsed, spec, book, asked, seen, seenPos, held, mem, pc,
                     cur, todo, live, flags, resolve, orphaned, spent>>
  BY DEF NewDay, entryVars, views, ticking
<1>2. \A x \in Sids : orders'[x] = [o \in DOMAIN orders[x] |-> [orders[x][o] EXCEPT !.done = TRUE]]
  BY <1>1
<1>3. ASSUME NEW x \in Sids
      PROVE  /\ orders[x] \in Seq(OrderRecord) /\ orders'[x] \in Seq(OrderRecord)
             /\ DOMAIN orders'[x] = DOMAIN orders[x] /\ Len(orders'[x]) = Len(orders[x])
             /\ \A o \in DOMAIN orders[x] :
                   /\ orders'[x][o].qty = orders[x][o].qty
                   /\ orders'[x][o].filled = orders[x][o].filled
                   /\ orders'[x][o].done
                   /\ orders[x][o].done => orders'[x][o] = orders[x][o]
                   /\ orders[x][o].filled \in Nat /\ o \in Nat
             /\ orders'[x] = <<>> <=> orders[x] = <<>>
  <2> DEFINE os == orders[x]
             ns == orders'[x]
  <2>1. os \in Seq(OrderRecord) /\ DOMAIN os = 1..Len(os) /\ Len(os) \in Nat
        /\ \A o \in DOMAIN os : os[o] \in OrderRecord /\ os[o].filled \in Nat /\ o \in Nat
    BY <1>0, OrdersShape DEF TypeOK
  <2>2. /\ DOMAIN ns = DOMAIN os /\ ns = [o \in DOMAIN os |-> ns[o]]
        /\ \A o \in DOMAIN os : ns[o] = [os[o] EXCEPT !.done = TRUE]
    BY <1>2
  <2>3. ASSUME NEW o \in DOMAIN os
        PROVE  /\ ns[o] \in OrderRecord /\ ns[o].qty = os[o].qty /\ ns[o].filled = os[o].filled
               /\ ns[o].done = TRUE /\ (os[o].done => ns[o] = os[o])
    <3> DEFINE w == os[o]
               r == ns[o]
    <3>1. w \in OrderRecord /\ r = [w EXCEPT !.done = TRUE]
      BY <2>1, <2>2
    <3> HIDE DEF w, r
    <3>2. /\ r \in OrderRecord /\ r.qty = w.qty /\ r.filled = w.filled
          /\ r.done = TRUE /\ (w.done => r = w)
      BY <3>1, DoneFields
    <3> QED BY <3>2 DEF w, r
  <2>4. ns \in [1..Len(os) -> OrderRecord]
    <3> HIDE DEF ns, os
    <3> QED BY <2>1, <2>2, <2>3
  <2>5. ns \in Seq(OrderRecord)
    BY <2>1, <2>4
  <2> HIDE DEF ns, os
  <2>6. Len(ns) = Len(os)
    BY <2>1, <2>2, <2>5, SameLen
  <2>7. ns = <<>> <=> os = <<>>
    BY <2>1, <2>5, <2>6, OrdersShape
  <2>8. \A o \in DOMAIN os :
                   /\ ns[o].qty = os[o].qty
                   /\ ns[o].filled = os[o].filled
                   /\ ns[o].done
                   /\ os[o].done => ns[o] = os[o]
    BY <2>3
  <2> QED BY <2>1, <2>2, <2>5, <2>6, <2>7, <2>8 DEF os, ns
<1>4. \A x \in Sids : ~Adoptable(x)'
  <2> SUFFICES ASSUME NEW x \in Sids, Adoptable(x)' PROVE FALSE
    OBVIOUS
  <2>1. orders'[x] # <<>> /\ ~orders'[x][Len(orders'[x])].done
    BY <1>1 DEF Adoptable, Last
  <2>2. Len(orders'[x]) \in DOMAIN orders'[x]
    BY <1>3, <2>1, OrdersShape
  <2> QED BY <1>3, <2>1, <2>2
<1>5. TypeOK'
  <2>1. orders' \in [Sids -> Seq(OrderRecord)]
    BY <1>1, <1>3
  <2>2. aged' \subseteq Sids \X Nat
    BY <1>1, <1>3
  <2> QED BY <1>0, <1>1, <2>1, <2>2 DEF TypeOK, OpenQty
<1>6. Course'
  BY <1>0, <1>1 DEF Course
<1>7. ASSUME NEW x \in Sids PROVE (BrokerOf(x) /\ DocOf(x) /\ AgedOf(x) /\ LiveOf(x) /\ BookOf(x))'
  <2>1. BrokerOf(x)'
    <3>1. BrokerOf(x)
      BY <1>0
    <3>2. orders[x] # <<>> => 1 \in DOMAIN orders[x]
      BY <1>3, OrdersShape
    <3>3. ASSUME NEW o \in DOMAIN orders[x]
          PROVE  /\ orders'[x][o].filled <= orders'[x][o].qty
                 /\ orders'[x][o].done
                 /\ seen[x][o].filled <= orders'[x][o].filled
                 /\ seen[x][o].done => seen[x][o] = orders'[x][o]
                 /\ \A q \in DOMAIN orders[x] : o < q /\ seen[x][q].done => seen[x][o].done
      <4>1. /\ orders'[x][o].qty = orders[x][o].qty
            /\ orders'[x][o].filled = orders[x][o].filled
            /\ orders'[x][o].done
            /\ orders[x][o].done => orders'[x][o] = orders[x][o]
        BY <1>3
      <4>2. /\ orders[x][o].filled <= orders[x][o].qty
            /\ seen[x][o].filled <= orders[x][o].filled
            /\ seen[x][o].done => seen[x][o] = orders[x][o]
            /\ \A q \in DOMAIN orders[x] : o < q /\ seen[x][q].done => seen[x][o].done
        BY <3>1 DEF BrokerOf
      <4> QED BY <4>1, <4>2
    <3>4. /\ DOMAIN seen[x] = DOMAIN orders'[x] /\ DOMAIN orders'[x] = DOMAIN orders[x]
          /\ orders'[x] # <<>> => orders'[x][1].qty = Quantity[x]
      BY <1>3, <3>1, <3>2 DEF BrokerOf
    <3>5. seen' = seen
      BY <1>1
    <3> QED BY <3>3, <3>4, <3>5 DEF BrokerOf
  <2>2. DocOf(x)'
    BY <1>0, <1>1, <1>3 DEF DocOf
  <2>3. AgedOf(x)'
    <3>1. \A o \in Nat : <<x, o>> \in aged' => o \in DOMAIN orders[x]
      BY <1>1
    <3>2. held[x] = 0
      BY <1>0, <1>1 DEF AgedOf
    <3> QED BY <1>1, <1>3, <3>1, <3>2 DEF AgedOf
  <2>4. LiveOf(x)'
    BY <1>0, <1>1 DEF LiveOf, Course
  <2>5. Further(orders[x], orders'[x])
    <3>1. \A o \in DOMAIN orders[x] : orders[x][o].filled <= orders'[x][o].filled
      BY <1>3
    <3> QED BY <1>3, <3>1 DEF Further
  <2>6. book[x] \in StateRecord /\ mem[x] \in StateRecord /\ BookOf(x)
    BY <1>0 DEF TypeOK
  <2>7. Sane(book[x], orders'[x]) /\ Sane(mem[x], orders'[x])
    BY <1>3, <2>5, <2>6, FurtherSane DEF BookOf
  <2>8. ~Busy(x) /\ ~Busy(x)' /\ (GivenUp(x)' <=> GivenUp(x))
    BY <1>1 DEF Busy, GivenUp
  <2>9. BookOf(x)'
    BY <1>1, <1>3, <1>4, <2>6, <2>7, <2>8 DEF BookOf
  <2> QED BY <2>1, <2>2, <2>3, <2>4, <2>9
<1> QED BY <1>5, <1>6, <1>7 DEF IInv

LEMMA ConfirmFlatKeeps ==
  ASSUME IInv, NEW s \in Sids, ConfirmFlat(s) \/ UNCHANGED vars
  PROVE  IInv'
<1>0. /\ TypeOK /\ Course
      /\ \A x \in Sids : BrokerOf(x) /\ DocOf(x) /\ AgedOf(x) /\ LiveOf(x) /\ BookOf(x)
  BY DEF IInv
<1>1. /\ resolve' \subseteq Sids
      /\ UNCHANGED <<scene, doc, lapsed, spec, book, orders, asked, aged, seen, seenPos, held, mem,
                     pc, cur, todo, live, flags, orphaned, spent>>
  BY <1>0 DEF ConfirmFlat, vars, entryVars, broker, views, ticking, TypeOK
<1>2. TypeOK'
  BY <1>0, <1>1 DEF TypeOK, OpenQty
<1>3. Course'
  BY <1>0, <1>1 DEF Course, Last, OpenQty
<1>4. ASSUME NEW x \in Sids PROVE (BrokerOf(x) /\ DocOf(x) /\ AgedOf(x) /\ LiveOf(x) /\ BookOf(x))'
  <2>1. (BrokerOf(x) /\ DocOf(x) /\ AgedOf(x) /\ LiveOf(x))'
    BY <1>0, <1>1 DEF BrokerOf, DocOf, AgedOf, LiveOf
  <2>2. /\ Old(x)' = Old(x) /\ (GivenUp(x)' <=> GivenUp(x)) /\ (Busy(x)' <=> Busy(x))
        /\ (Adoptable(x)' <=> Adoptable(x)) /\ lane' = lane
    BY <1>1 DEF lane, Old, GivenUp, Busy, Adoptable, Last
  <2> QED BY <1>0, <1>1, <2>1, <2>2 DEF BookOf
<1> QED BY <1>2, <1>3, <1>4 DEF IInv
-----------------------------------------------------------------------------
(* The theorems.                                                           *)

LEMMA OpenFields ==
  ASSUME NEW n \in Nat, NEW r, r = OpenState(n)
  PROVE  /\ r \in StateRecord /\ r.status = "open" /\ r.filled = n
         /\ r.exitFilled = 0 /\ r.exitOrder = 0 /\ r.exitSeen = 0
<1>1. r = [status |-> "open", entryOrder |-> 1, filled |-> n, exitOrder |-> 0,
           exitSeen |-> 0, exitFilled |-> 0, outside |-> 0]
  BY DEF OpenState, NewState
<1>2. "open" \in Statuses
  BY DEF Statuses
<1> QED BY <1>1, <1>2 DEF StateRecord

LEMMA InitIInv == Init => IInv
<1> SUFFICES ASSUME Init PROVE IInv
  OBVIOUS
<1>1. scene \in Scenarios /\ scene.lane \in [Sids -> Lanes] /\ scene.max \in Bounds
      /\ scene.outside \in Nat
  BY ScenarioAssumption DEF Init
<1>2. \A s \in Sids : Quantity[s] \in Nat /\ Quantity[s] > 0
  BY ScenarioAssumption
<1>3. /\ spec = {s \in Sids : lane[s] = "held"} /\ mem = book /\ seen = orders /\ asked = {} /\ aged = {}
      /\ pc = "idle" /\ cur = NoSid /\ todo = {} /\ flags = {} /\ resolve = {} /\ orphaned = {}
      /\ doc = [s \in Sids |-> IF s \in spec THEN "acknowledged" ELSE "none"]
      /\ lapsed = [s \in Sids |-> FALSE] /\ held = [s \in Sids |-> 0]
      /\ live = [x \in Sids |-> {}] /\ spent = [reprices |-> 0, deaths |-> 0, crashes |-> 0]
      /\ book = [s \in Sids |-> IF s \in spec THEN OpenState(Quantity[s]) ELSE NewState]
      /\ orders = [s \in Sids |-> IF s \in spec THEN <<FilledOrder(Quantity[s])>> ELSE <<>>]
      /\ seenPos = [c \in Contracts |-> Position(c)]
  BY DEF Init
<1>4. NewState \in StateRecord /\ NewState.status = "planned" /\ NewState.filled = 0
      /\ NewState.exitFilled = 0 /\ NewState.exitOrder = 0 /\ NewState.exitSeen = 0
  BY DEF NewState, StateRecord, Statuses
<1>5. ASSUME NEW s \in Sids, s \in spec
      PROVE  /\ book[s] \in StateRecord /\ book[s].status = "open" /\ book[s].filled = Quantity[s]
             /\ book[s].exitFilled = 0 /\ book[s].exitOrder = 0 /\ book[s].exitSeen = 0
             /\ orders[s] \in Seq(OrderRecord)
             /\ Len(orders[s]) = 1 /\ DOMAIN orders[s] = {1} /\ orders[s] # <<>>
             /\ orders[s][1].qty = Quantity[s] /\ orders[s][1].filled = Quantity[s]
             /\ orders[s][1].done = TRUE
  <2> DEFINE b == book[s]
             n == Quantity[s]
             w == FilledOrder(n)
  <2>1. n \in Nat /\ b = OpenState(n) /\ orders[s] = <<w>>
    BY <1>2, <1>3, <1>5
  <2>2. w \in OrderRecord /\ w.qty = n /\ w.filled = n /\ w.done = TRUE
    <3> HIDE DEF n
    <3> QED BY <2>1 DEF FilledOrder, OrderRecord
  <2> HIDE DEF b, n
  <2>3. b \in StateRecord /\ b.status = "open" /\ b.filled = n
        /\ b.exitFilled = 0 /\ b.exitOrder = 0 /\ b.exitSeen = 0
    BY <2>1, OpenFields
  <2> HIDE DEF w
  <2>4. /\ <<w>> \in Seq(OrderRecord) /\ Len(<<w>>) = 1 /\ DOMAIN <<w>> = {1} /\ <<w>> # <<>>
        /\ <<w>>[1] = w
    BY <2>2
  <2> QED BY <2>1, <2>2, <2>3, <2>4 DEF b, n
<1>6. ASSUME NEW s \in Sids
      PROVE  /\ book[s] \in StateRecord /\ orders[s] \in Seq(OrderRecord)
             /\ s \notin spec => book[s] = NewState /\ orders[s] = <<>>
  <2>1. s \notin spec => book[s] = NewState /\ orders[s] = <<>>
    BY <1>3
  <2>2. <<>> \in Seq(OrderRecord)
    OBVIOUS
  <2>3. CASE s \notin spec
    BY <1>4, <2>1, <2>2, <2>3
  <2>4. CASE s \in spec
    BY <1>5, <2>4
  <2> QED BY <2>1, <2>3, <2>4
<1>7. \A s \in Sids : Sane(book[s], orders[s])
  <2> SUFFICES ASSUME NEW s \in Sids PROVE Sane(book[s], orders[s])
    OBVIOUS
  <2>1. CASE s \notin spec
    <3> DEFINE b == book[s]
               os == orders[s]
    <3>1. b = NewState /\ os = <<>>
      BY <1>6, <2>1
    <3> HIDE DEF b, os
    <3>2. Sane(b, os)
      BY <1>4, <3>1 DEF Sane
    <3> QED BY <3>2 DEF b, os
  <2>2. CASE s \in spec
    <3> DEFINE n == Quantity[s]
    <3>1. n \in Nat /\ n <= n /\ 0 <= n
      BY <1>2
    <3>2. book[s].filled <= orders[s][1].filled /\ book[s].exitFilled <= book[s].filled
      BY <1>5, <2>2, <3>1
    <3> QED BY <1>5, <2>2, <3>2 DEF Sane
  <2> QED BY <2>1, <2>2
<1>8. TypeOK
  <2>1. orders \in [Sids -> Seq(OrderRecord)] /\ book \in [Sids -> StateRecord]
    BY <1>3, <1>6
  <2>2. \A c : Position(c) \in Int
    <3> DEFINE f == [s \in Sids |-> Net(s)]
    <3>1. \A s \in Sids : Net(s) \in Int
      BY <1>6, SoldInt
    <3>2. ASSUME NEW c PROVE Position(c) \in Int
      <4> DEFINE S == {s \in Sids : Contract[s] = c}
      <4>1. IsFiniteSet(S) /\ IntOn(f, S)
        BY <3>1, ScenarioAssumption, FS_Subset DEF IntOn
      <4>2. Total(f, S) \in Int
        <5> HIDE DEF f, S
        <5> QED BY <4>1, TotalInt
      <4> QED BY <1>1, <4>2 DEF Position
    <3> QED BY <3>2
  <2>3. \A s \in Sids : OpenQty(book[s]) >= 0
    BY <1>6, <1>7, SaneOpen
  <2>4. spent \in Bounds /\ \A b \in DOMAIN spent : spent[b] <= scene.max[b]
    BY <1>1, <1>3 DEF Bounds
  <2>5. doc \in [Sids -> Docs] /\ spec \subseteq Sids /\ lapsed \in [Sids -> BOOLEAN]
        /\ held \in [Sids -> Nat] /\ live \in [Sids -> SUBSET Nat]
    BY <1>3 DEF Docs
  <2> QED BY <1>1, <1>3, <2>1, <2>2, <2>3, <2>4, <2>5 DEF TypeOK
<1>9. Course
  BY <1>3 DEF Course
<1>10. ASSUME NEW x \in Sids PROVE BrokerOf(x) /\ DocOf(x) /\ AgedOf(x) /\ LiveOf(x) /\ BookOf(x)
  <2>1. BrokerOf(x)
    <3>1. CASE orders[x] = <<>>
      BY <1>3, <3>1 DEF BrokerOf
    <3>2. CASE x \in spec
      <4>1. \A o \in {1} : \A q \in {1} : ~(o < q)
        OBVIOUS
      <4>2. Quantity[x] <= Quantity[x]
        BY <1>2
      <4>3. DOMAIN orders[x] = {1} /\ orders[x][1].filled <= orders[x][1].qty /\ orders[x][1].done
            /\ orders[x][1].filled <= orders[x][1].filled /\ orders[x][1].qty = Quantity[x]
        BY <1>5, <3>2, <4>2
      <4> QED BY <1>3, <4>1, <4>3 DEF BrokerOf
    <3> QED BY <1>6, <3>1, <3>2
  <2>2. DocOf(x)
    BY <1>3, <1>5, <1>6 DEF DocOf
  <2>3. AgedOf(x) /\ LiveOf(x)
    BY <1>3 DEF AgedOf, LiveOf
  <2>4. ~Adoptable(x)
    BY <1>3, <1>5, <1>6 DEF Adoptable, Last
  <2>5. book[x].status # "closed"
    BY <1>4, <1>5, <1>6
  <2>6. BookOf(x)
    BY <1>3, <1>7, <2>4, <2>5 DEF BookOf, Busy
  <2> QED BY <2>1, <2>2, <2>3, <2>6
<1> QED BY <1>8, <1>9, <1>10 DEF IInv

LEMMA NextIInv == IInv /\ [Next]_vars => IInv'
<1> SUFFICES ASSUME IInv, [Next]_vars PROVE IInv'
  OBVIOUS
<1>1. CASE OwnerNext
  <2>1. CASE \E kills \in KillSets : TickBegin(kills)
    BY <2>1, TickBeginKeeps
  <2>2. ASSUME NEW s \in Sids,
               \/ SkipStructure(s) \/ StructureTick(s)
               \/ CancelConfirmed(s) \/ CancelUnconfirmed(s)
               \/ ClearRefused(s) \/ PlaceClose(s) \/ SavePlaced(s)
               \/ SeeOrders(s)
        PROVE  IInv'
    BY <2>2, FinishStepKeeps, StructureTickKeeps, CancelConfirmedKeeps, PlaceCloseKeeps,
       SeeOrdersKeeps
  <2>3. CASE \E c \in Contracts : SeePosition(c)
    BY <2>3, SeePositionKeeps
  <2>4. CASE Crash \/ Restart
    BY <2>4, CrashKeeps, RestartKeeps
  <2> QED BY <1>1, <2>1, <2>2, <2>3, <2>4 DEF OwnerNext
<1>2. CASE EntryNext
  BY <1>2, RecordStepKeeps, SendStepKeeps DEF EntryNext
<1>3. CASE MarketNext
  <2>1. CASE \E s \in Sids : \E o \in DOMAIN orders[s] : Fill(s, o) \/ CancelLands(s, o) \/ Dies(s, o)
    BY <2>1, MarketStepKeeps
  <2>2. CASE NewDay
    BY <2>2, NewDayKeeps
  <2>3. CASE \E s \in Sids : ConfirmFlat(s)
    BY <2>3, ConfirmFlatKeeps
  <2> QED BY <1>3, <2>1, <2>2, <2>3 DEF MarketNext
<1>4. CASE UNCHANGED vars
  <2>1. CASE Sids = {}
    <3>1. TypeOK' /\ Course'
      <4>1. TypeOK /\ Course
        BY DEF IInv
      <4> QED BY <1>4, <4>1 DEF TypeOK, Course, Last, OpenQty, vars, entryVars, broker, views, ticking
    <3> QED BY <2>1, <3>1 DEF IInv
  <2>2. CASE Sids # {}
    BY <1>4, <2>2, ConfirmFlatKeeps
  <2> QED BY <2>1, <2>2
<1> QED BY <1>1, <1>2, <1>3, <1>4 DEF Next

\* The type invariant holds of every behaviour: in particular the book never
\* counts more exits than entries, whatever is cancelled, replaced, seen
\* late or lost in a crash.
THEOREM OwnerTyped == Spec => []TypeOK
<1>1. IInv => TypeOK
  BY DEF IInv
<1> QED BY InitIInv, NextIInv, <1>1, PTL DEF Spec

LEMMA FinishLeaves ==
  ASSUME IInv, NEW s \in Sids, NEW st, Finish(s, st), s \in todo,
         pc # "tick" => cur = s, NEW x \in Sids, book[x].status = "closed"
  PROVE  book'[x] = book[x]
<1>1. TypeOK /\ Course /\ BookOf(x)
  BY DEF IInv
<1>2. x # s
  BY <1>1 DEF Course
<1>3. ~Busy(x)
  BY <1>2 DEF Busy
<1> QED BY <1>1, <1>2, <1>3 DEF Finish, BookOf, TypeOK

LEMMA TickLeaves ==
  ASSUME IInv, NEW s \in Sids, StructureTick(s)
  PROVE  /\ orders' = orders
         /\ \A x \in Sids : book[x].status = "closed" => book'[x] = book[x]
<1>1. pc = "tick" /\ s \in todo
  BY DEF StructureTick
<1>2. PICK a \in {Advance(s)} :
             \/ ~a.go /\ Finish(s, a.st) /\ UNCHANGED <<broker, spent>>
             \/ /\ a.go
                /\ \/ ActOnEntry(s, a.st, a.t)
                   \/ Hold(s, a.st)
                   \/ BeginExit(s, a.st)
                   \/ Reprice(s, a.st, a.t)
                   \/ Replace(s, a.st, a.t)
  BY DEF StructureTick
<1>3. \/ Finish(s, a.st) /\ UNCHANGED broker
      \/ UNCHANGED <<book, orders>>
  BY <1>2 DEF ActOnEntry, Hold, BeginExit, Reprice, Replace, BeginCancel, BeginClear, broker
<1> QED BY <1>1, <1>3, FinishLeaves DEF broker

LEMMA ClosedStays ==
  ASSUME IInv, [Next]_vars, NEW x \in Sids, book[x].status = "closed"
  PROVE  book'[x] = book[x] /\ orders'[x] = orders[x]
<1>0. /\ TypeOK /\ Course /\ BookOf(x) /\ x \notin todo
      /\ \A o \in DOMAIN orders[x] : orders[x][o].done
  BY DEF IInv, Course, BookOf, Sane
<1>1. CASE OwnerNext
  <2>1. CASE \E kills \in KillSets : TickBegin(kills)
    BY <2>1 DEF TickBegin, broker
  <2>2. ASSUME NEW s \in Sids, StructureTick(s)
        PROVE  book'[x] = book[x] /\ orders'[x] = orders[x]
    BY <2>2, TickLeaves
  <2>3. ASSUME NEW s \in Sids,
               SkipStructure(s) \/ CancelUnconfirmed(s) \/ ClearRefused(s) \/ SavePlaced(s)
        PROVE  book'[x] = book[x] /\ orders'[x] = orders[x]
    <3>1. Finish(s, mem[s]) /\ s \in todo /\ (pc # "tick" => cur = s) /\ orders' = orders
      BY <1>0, <2>3 DEF SkipStructure, CancelUnconfirmed, ClearRefused, SavePlaced, broker, Course
    <3> QED BY <3>1, FinishLeaves
  <2>4. ASSUME NEW s \in Sids, CancelConfirmed(s)
        PROVE  book'[x] = book[x] /\ orders'[x] = orders[x]
    <3> DEFINE st == IF held[s] = 1 THEN mem[s]
                     ELSE DrainExit(mem[s], held[s], seen[s][held[s]].filled)
    <3>1. /\ s \in todo /\ pc = "cancel" /\ cur = s
          /\ \/ Finish(s, st) /\ UNCHANGED broker
             \/ BeginClear(s, st)
      BY <1>0, <2>4 DEF CancelConfirmed, Course
    <3> HIDE DEF st
    <3> QED BY <3>1, FinishLeaves DEF BeginClear, broker
  <2>5. ASSUME NEW s \in Sids, PlaceClose(s)
        PROVE  book'[x] = book[x] /\ orders'[x] = orders[x]
    <3>1. s \in todo /\ book' = book
          /\ orders' = [orders EXCEPT ![s] = Append(@, NewOrder(OpenQty(mem[s])))]
      BY <1>0, <2>5 DEF PlaceClose, Course
    <3>2. x # s
      BY <1>0, <3>1
    <3> QED BY <1>0, <3>1, <3>2 DEF TypeOK
  <2>6. CASE \/ \E s \in Sids : SeeOrders(s)
             \/ \E c \in Contracts : SeePosition(c)
             \/ Crash
             \/ Restart
    BY <2>6 DEF SeeOrders, SeePosition, Crash, Restart, broker
  <2> QED BY <1>1, <2>1, <2>2, <2>3, <2>4, <2>5, <2>6 DEF OwnerNext
<1>2. CASE EntryNext
  <2>1. PICK s \in Sids : \/ RecordIntent(s) \/ Lapse(s) \/ Register(s)
                          \/ Send(s) \/ SendDies(s) \/ Recover(s) \/ Reconcile(s)
    BY <1>2 DEF EntryNext
  <2>2. CASE RecordIntent(s) \/ Lapse(s) \/ Register(s) \/ Recover(s) \/ Reconcile(s)
    BY <2>2 DEF RecordIntent, Lapse, Register, Recover, Reconcile, broker
  <2>3. CASE Send(s) \/ SendDies(s)
    <3>1. /\ doc[s] = "pending" /\ ~lapsed[s] /\ book' = book
          /\ orders' = orders \/ orders' = [orders EXCEPT ![s] = <<NewOrder(Quantity[s])>>]
      BY <2>3 DEF Send, SendDies, EnterOrder
    <3>2. orders[s] = <<>>
      BY <3>1 DEF IInv, DocOf
    <3>3. x # s
      BY <1>0, <3>1, <3>2 DEF BookOf, GivenUp
    <3> QED BY <1>0, <3>1, <3>3 DEF TypeOK
  <2> QED BY <2>1, <2>2, <2>3
<1>3. CASE MarketNext
  <2>1. ASSUME NEW s \in Sids, NEW o \in DOMAIN orders[s], Fill(s, o) \/ CancelLands(s, o) \/ Dies(s, o)
        PROVE  book'[x] = book[x] /\ orders'[x] = orders[x]
    <3>1. /\ ~orders[s][o].done /\ book' = book
          /\ \/ \E n, b : orders' = [orders EXCEPT ![s][o].filled = n, ![s][o].done = b]
             \/ orders' = [orders EXCEPT ![s][o].done = TRUE]
      BY <2>1 DEF Fill, CancelLands, Dies, Working
    <3>2. x # s
      BY <1>0, <2>1, <3>1
    <3> QED BY <1>0, <3>1, <3>2 DEF TypeOK
  <2>2. CASE NewDay
    <3> DEFINE os == orders[x]
               ns == orders'[x]
    <3>1. book' = book /\ ns = [o \in DOMAIN os |-> [os[o] EXCEPT !.done = TRUE]]
      BY <2>2 DEF NewDay
    <3>2. os \in Seq(OrderRecord) /\ os = [o \in DOMAIN os |-> os[o]]
          /\ \A o \in DOMAIN os : os[o] \in OrderRecord
      <4>1. os \in Seq(OrderRecord)
        BY <1>0 DEF TypeOK
      <4> HIDE DEF os
      <4> QED BY <4>1, OrdersShape
    <3>3. ASSUME NEW o \in DOMAIN os PROVE [os[o] EXCEPT !.done = TRUE] = os[o]
      <4> DEFINE w == os[o]
                 r == [w EXCEPT !.done = TRUE]
      <4>1. w \in OrderRecord /\ w.done /\ r = [w EXCEPT !.done = TRUE]
        BY <1>0, <3>2
      <4>2. r = w
        <5> HIDE DEF w, r
        <5> QED BY <4>1, DoneFields
      <4> QED BY <4>2
    <3>4. ns = os
      <4> HIDE DEF ns, os
      <4> QED BY <3>1, <3>2, <3>3
    <3> QED BY <3>1, <3>4
  <2>3. CASE \E s \in Sids : ConfirmFlat(s)
    BY <2>3 DEF ConfirmFlat, broker
  <2> QED BY <1>3, <2>1, <2>2, <2>3 DEF MarketNext
<1>4. CASE UNCHANGED vars
  BY <1>4 DEF vars, broker
<1> QED BY <1>1, <1>2, <1>3, <1>4 DEF Next

\* A closed structure is never touched again, in the book or at the broker:
\* no tick, late send, fill or new session reopens it, and an entry that was
\* given up is never sent afterwards.
THEOREM ClosedForGood == Spec => ClosedIsFinal
<1>1. IInv /\ [Next]_vars =>
         [\A s \in Sids : book[s].status = "closed" =>
            book'[s] = book[s] /\ orders'[s] = orders[s]]_vars
  BY ClosedStays
<1> QED BY InitIInv, NextIInv, <1>1, PTL DEF Spec, ClosedIsFinal
-----------------------------------------------------------------------------
(* Within one session the book's counts are those of the broker.           *)

\* What the exits among the orders os have sold.
SoldOf(os) == Total([o \in DOMAIN os |-> os[o].filled], {o \in DOMAIN os : o > 1})

FillOf(os, o) == IF o = 0 THEN 0 ELSE os[o].filled

\* The exits a state counts once its current order is drained to the end.
Counted(st, os) == st.exitFilled - st.exitSeen + FillOf(os, st.exitOrder)

\* What the last exit sold, when the state does not know it.
Unknown(st, os) ==
    IF Len(os) > 1 /\ Len(os) # st.exitOrder THEN os[Len(os)].filled ELSE 0

\* A state of a structure with orders os: it has the whole entry once it left
\* the entry lane, counts no exit fill twice, and is closed only when as much
\* was sold as bought.
Fair(st, os) ==
    /\ st.status \notin EntryLane /\ os # <<>> => st.filled = os[1].filled
    /\ st.status \in {"open", "exit_working"} => st.filled > 0
    /\ st.status # "closed" => Counted(st, os) + Unknown(st, os) <= SoldOf(os)
    /\ st.status = "closed" =>
          /\ st.exitFilled <= SoldOf(os)
          /\ os # <<>> => os[1].filled <= SoldOf(os)

\* The same of a structure whose closes were all saved: it knows its last
\* order, and counts every exit fill.
Exact(st, os) ==
    /\ st.status \notin {"exit_working", "closed"} => Len(os) <= 1
    /\ st.status # "closed" => /\ st.exitOrder = (IF Len(os) > 1 THEN Len(os) ELSE 0)
                               /\ Counted(st, os) = SoldOf(os)

\* The last exit, filled to the end, sells no more than was bought.
Within(os) ==
    Len(os) > 1 => SoldOf(os) - os[Len(os)].filled + os[Len(os)].qty <= os[1].filled

Placing(s) == pc = "placed" /\ cur = s

SessionOf(s) ==
    /\ Fair(book[s], orders[s]) /\ Fair(mem[s], orders[s])
    /\ s \in resolve => /\ orders[s] # <<>> /\ orders[s][1].done
                        /\ orders[s][1].filled <= SoldOf(orders[s])
    /\ s \notin orphaned =>
          /\ Within(orders[s])
          /\ Exact(mem[s], orders[s])
          /\ ~Placing(s) => Exact(book[s], orders[s])
          /\ pc = "clear" /\ cur = s => /\ mem[s].exitFilled = SoldOf(orders[s])
                                        /\ Last(s) > 1 => orders[s][Last(s)].done

SInv == \A s \in Sids : SessionOf(s)
-----------------------------------------------------------------------------
(* Sums over the exits of a structure.                                     *)

LEMMA SoldTerms ==
  ASSUME NEW os \in Seq(OrderRecord), NEW f, f = [o \in DOMAIN os |-> os[o].filled],
         NEW S, S = {o \in DOMAIN os : o > 1}
  PROVE  /\ IsFiniteSet(S) /\ IntOn(f, S) /\ SoldOf(os) = Total(f, S)
         /\ SoldOf(os) \in Int
<1>1. DOMAIN os = 1..Len(os) /\ Len(os) \in Nat /\ \A o \in DOMAIN os : os[o].filled \in Nat
  BY OrdersShape
<1>2. IsFiniteSet(S)
  <2>1. IsFiniteSet(DOMAIN os)
    BY <1>1, FS_Interval
  <2>2. S \subseteq DOMAIN os
    OBVIOUS
  <2> QED BY <2>1, <2>2, FS_Subset
<1>3. IntOn(f, S)
  BY <1>1 DEF IntOn
<1>4. SoldOf(os) = Total(f, S)
  BY DEF SoldOf
<1> QED BY <1>2, <1>3, <1>4, TotalInt

LEMMA SoldNone ==
  ASSUME NEW os \in Seq(OrderRecord), Len(os) <= 1
  PROVE  SoldOf(os) = 0
<1>1. {o \in DOMAIN os : o > 1} = {}
  <2>1. DOMAIN os = 1..Len(os) /\ Len(os) \in Nat
    BY OrdersShape
  <2> QED BY <2>1
<1> QED BY <1>1, TotalNone DEF SoldOf

LEMMA SoldAppend ==
  ASSUME NEW os \in Seq(OrderRecord), os # <<>>, NEW r \in OrderRecord,
         NEW ns, ns = Append(os, r)
  PROVE  SoldOf(ns) = SoldOf(os) + r.filled
<1> DEFINE n == Len(os) + 1
           f == [o \in DOMAIN os |-> os[o].filled]
           g == [o \in DOMAIN ns |-> ns[o].filled]
           S == {o \in DOMAIN os : o > 1}
           T == {o \in DOMAIN ns : o > 1}
<1>1. /\ ns \in Seq(OrderRecord) /\ Len(ns) = Len(os) + 1 /\ ns[Len(ns)] = r
      /\ DOMAIN ns = DOMAIN os \cup {n} /\ n \notin DOMAIN os
      /\ \A o \in DOMAIN os : ns[o] = os[o]
  BY AppendShape
<1>2. n > 1 /\ n \in Nat
  BY OrdersShape
<1>3. n \in T /\ T \ {n} = S /\ g[n] = r.filled /\ \A o \in S : g[o] = f[o]
  BY <1>1, <1>2
<1>4. /\ IsFiniteSet(T) /\ IntOn(g, T) /\ SoldOf(ns) = Total(g, T)
  BY <1>1, SoldTerms
<1>5. /\ IsFiniteSet(S) /\ SoldOf(os) = Total(f, S) /\ SoldOf(os) \in Int
  BY SoldTerms
<1> HIDE DEF n, f, g, S, T
<1>6. Total(g, T) = g[n] + Total(g, S)
  BY <1>3, <1>4, TotalWith
<1>7. Total(g, S) = Total(f, S)
  BY <1>3, <1>5, TotalAgree
<1>8. r.filled \in Int
  BY DEF OrderRecord
<1> QED BY <1>3, <1>4, <1>5, <1>6, <1>7, <1>8

\* The orders ns are os with r in place of the o-th.
Changed(os, o, r, ns) ==
    /\ ns \in Seq(OrderRecord) /\ DOMAIN ns = DOMAIN os /\ Len(ns) = Len(os)
    /\ ns[o] = r /\ \A x \in DOMAIN os \ {o} : ns[x] = os[x]

LEMMA ChangedIs ==
  ASSUME NEW os \in Seq(OrderRecord), NEW o \in DOMAIN os, NEW r \in OrderRecord
  PROVE  Changed(os, o, r, [os EXCEPT ![o] = r])
<1> DEFINE ns == [os EXCEPT ![o] = r]
<1>1. DOMAIN ns = DOMAIN os /\ ns[o] = r /\ \A x \in DOMAIN os \ {o} : ns[x] = os[x]
  OBVIOUS
<1>2. ns \in Seq(OrderRecord)
  OBVIOUS
<1> HIDE DEF ns
<1>3. Len(ns) = Len(os)
  BY <1>1, <1>2, SameLen
<1> QED BY <1>1, <1>2, <1>3 DEF Changed, ns

LEMMA SoldChange ==
  ASSUME NEW os \in Seq(OrderRecord), NEW o \in DOMAIN os, NEW r \in OrderRecord,
         NEW ns, Changed(os, o, r, ns)
  PROVE  /\ SoldOf(os) \in Int
         /\ o > 1 => SoldOf(ns) = SoldOf(os) - os[o].filled + r.filled
         /\ o <= 1 => SoldOf(ns) = SoldOf(os)
<1> DEFINE f == [x \in DOMAIN os |-> os[x].filled]
           g == [x \in DOMAIN ns |-> ns[x].filled]
           S == {x \in DOMAIN os : x > 1}
<1>1. /\ DOMAIN ns = DOMAIN os /\ ns[o] = r /\ \A x \in DOMAIN os : x # o => ns[x] = os[x]
      /\ os[o].filled \in Int /\ r.filled \in Int
  BY OrdersShape DEF OrderRecord, Changed
<1>2. ns \in Seq(OrderRecord) /\ Len(ns) = Len(os)
  BY DEF Changed
<1>3. /\ IsFiniteSet(S) /\ IntOn(f, S) /\ SoldOf(os) = Total(f, S)
      /\ SoldOf(os) \in Int
  BY SoldTerms
<1>4. /\ IntOn(g, S) /\ SoldOf(ns) = Total(g, S)
  <2>1. S = {x \in DOMAIN ns : x > 1}
    BY <1>1
  <2> QED BY <1>2, <2>1, SoldTerms
<1>5. \A x \in S \ {o} : f[x] = g[x]
  BY <1>1
<1>6. /\ o \in S <=> o > 1
      /\ o \in S <=> ~(o <= 1)
  <2>1. o \in Nat
    BY OrdersShape
  <2> QED BY <2>1
<1>7. f[o] = os[o].filled /\ g[o] = r.filled
  BY <1>1
<1> HIDE DEF f, g, S
<1>8. CASE o \in S
  <2>1. /\ Total(f, S) = f[o] + Total(f, S \ {o})
        /\ Total(g, S) = g[o] + Total(g, S \ {o})
    BY <1>3, <1>4, <1>8, TotalWith
  <2>2. IsFiniteSet(S \ {o}) /\ IntOn(f, S \ {o})
    BY <1>3, FS_Subset DEF IntOn
  <2>3. Total(f, S \ {o}) = Total(g, S \ {o}) /\ Total(f, S \ {o}) \in Int
    BY <1>5, <2>2, TotalAgree, TotalInt
  <2> QED BY <1>1, <1>2, <1>3, <1>4, <1>6, <1>7, <1>8, <2>1, <2>3
<1>9. CASE o \notin S
  <2>1. \A x \in S : f[x] = g[x]
    BY <1>5, <1>9
  <2>2. Total(f, S) = Total(g, S)
    BY <1>3, <2>1, TotalAgree
  <2> QED BY <1>1, <1>2, <1>3, <1>4, <1>6, <1>9, <2>2
<1> QED BY <1>8, <1>9

\* The open exit, if there is one, is the last order.
LEMMA RestingIs ==
  ASSUME IInv, NEW s \in Sids
  PROVE  /\ Sold(s) = SoldOf(orders[s])
         /\ Resting(s) = IF Last(s) > 1 /\ ~orders[s][Last(s)].done
                         THEN orders[s][Last(s)].qty - orders[s][Last(s)].filled ELSE 0
<1> DEFINE os == orders[s]
           n == Last(s)
           f == [o \in DOMAIN os |-> os[o].qty - os[o].filled]
           S == Exits(s) \cap Working(s)
<1>1. Sold(s) = SoldOf(os)
  BY DEF Sold, SoldOf, Exits
<1>2. /\ DOMAIN os = 1..n /\ n \in Nat
      /\ \A o \in DOMAIN os : os[o].qty \in Nat /\ os[o].filled \in Nat /\ os[o].done \in BOOLEAN
  BY Shape, OrdersShape DEF Last
<1>3. \A o \in DOMAIN os : o < n => os[o].done
  BY <1>2 DEF IInv, BrokerOf
<1>4. Resting(s) = Total(f, S)
  BY DEF Resting
<1>5. CASE n > 1 /\ ~os[n].done
  <2>1. S = {n} /\ f[n] = os[n].qty - os[n].filled /\ f[n] \in Int
    BY <1>2, <1>3, <1>5 DEF Exits, Working
  <2> HIDE DEF S, f
  <2>2. Total(f, {n}) = f[n]
    BY <2>1, TotalOne
  <2> QED BY <1>1, <1>4, <1>5, <2>1, <2>2
<1>6. CASE ~(n > 1 /\ ~os[n].done)
  <2>1. S = {}
    BY <1>2, <1>3, <1>6 DEF Exits, Working
  <2> QED BY <1>1, <1>4, <1>6, <2>1, TotalNone
<1> QED BY <1>5, <1>6
-----------------------------------------------------------------------------
(* What a state counts.                                                    *)

LEMMA CountedFacts ==
  ASSUME NEW st \in StateRecord, NEW os \in Seq(OrderRecord), Sane(st, os)
  PROVE  /\ Counted(st, os) \in Int /\ Unknown(st, os) \in Nat /\ SoldOf(os) \in Int
         /\ st.exitFilled <= Counted(st, os)
<1>1. /\ st.exitFilled \in Nat /\ st.exitSeen \in Nat /\ st.exitOrder \in Nat
      /\ SoldOf(os) \in Int
  BY StateFields, SoldTerms
<1>2. FillOf(os, st.exitOrder) \in Nat /\ st.exitSeen <= FillOf(os, st.exitOrder)
  BY <1>1, OrdersShape DEF FillOf, Sane
<1>3. Unknown(st, os) \in Nat
  BY OrdersShape DEF Unknown
<1> DEFINE k == FillOf(os, st.exitOrder)
           x == st.exitFilled
           y == st.exitSeen
<1>4. Counted(st, os) = x - y + k
  BY DEF Counted
<1> HIDE DEF k, x, y
<1>5. x - y + k \in Int /\ x <= x - y + k
  BY <1>1, <1>2 DEF k, x, y
<1> QED BY <1>1, <1>3, <1>4, <1>5 DEF x

\* Fair and Exact speak of a state's counts only.
LEMMA SameCounts ==
  ASSUME NEW st, NEW r, NEW os, r.exitFilled = st.exitFilled, r.exitSeen = st.exitSeen,
         r.exitOrder = st.exitOrder
  PROVE  Counted(r, os) = Counted(st, os) /\ Unknown(r, os) = Unknown(st, os)
BY DEF Counted, Unknown

LEMMA DrainCounts ==
  ASSUME NEW st \in StateRecord, NEW os \in Seq(OrderRecord), Sane(st, os),
         NEW o \in DOMAIN os, o # 1, o = st.exitOrder \/ o = Len(os),
         NEW q \in Nat, q <= os[o].filled, NEW d, d = DrainExit(st, o, q)
  PROVE  /\ Counted(d, os) + Unknown(d, os) <= Counted(st, os) + Unknown(st, os)
         /\ o = st.exitOrder => Counted(d, os) = Counted(st, os)
         /\ q = os[o].filled => Counted(d, os) = d.exitFilled
<1> DEFINE before == IF st.exitOrder = o THEN st.exitSeen ELSE 0
           now == IF q < before THEN before ELSE q
           x == st.exitFilled
           y == st.exitSeen
           k == FillOf(os, st.exitOrder)
           v == Unknown(st, os)
           w == Unknown(d, os)
           p == os[o].filled
<1>1. d = [st EXCEPT !.exitOrder = o, !.exitSeen = now, !.exitFilled = @ + now - before]
  BY DEF DrainExit
<1>2. /\ x \in Nat /\ y \in Nat /\ st.exitOrder \in Nat
      /\ o \in Nat /\ o > 1 /\ p \in Nat /\ Len(os) \in Nat /\ o <= Len(os)
  BY OrdersShape, StateFields
<1>3. k \in Nat /\ y <= k /\ v \in Nat
  BY <1>2, OrdersShape DEF FillOf, Sane, Unknown
<1>4. before \in Nat /\ now \in Nat
  BY <1>2
<1>5. st.exitOrder = o => before = y /\ k = p
  BY <1>2 DEF FillOf
<1>6. /\ st.exitOrder # o => before = 0
      /\ q = p => (st.exitOrder = o => now = p) /\ (st.exitOrder # o => now = p)
  BY <1>2, <1>3, <1>5
<1> HIDE DEF before, now
<1>7. d.exitOrder = o /\ d.exitSeen = now /\ d.exitFilled = x + now - before
  BY <1>1 DEF StateRecord
<1>8. Counted(d, os) = ((x + now - before) - now) + p /\ Counted(st, os) = x - y + k
  <2>1. FillOf(os, o) = p
    BY <1>2 DEF FillOf
  <2>2. Counted(d, os) = d.exitFilled - d.exitSeen + FillOf(os, d.exitOrder)
    BY DEF Counted
  <2>3. Counted(st, os) = x - y + k
    BY DEF Counted
  <2> HIDE DEF x, y, k, p
  <2>4. Counted(d, os) = ((x + now - before) - now) + p
    BY <1>7, <2>1, <2>2, Zenon
  <2> QED BY <2>3, <2>4
<1>9. /\ st.exitOrder = o => w = v
      /\ st.exitOrder # o => w = 0 /\ v = p
  BY <1>2, <1>7 DEF Unknown
<1>a. x \in Nat /\ y \in Nat /\ k \in Nat /\ v \in Nat /\ p \in Nat /\ y <= k
  BY <1>2, <1>3
<1> HIDE DEF x, y, k, v, w, p
<1>10. /\ (((x + now - before) - now) + p) + w <= (x - y + k) + v
       /\ o = st.exitOrder => ((x + now - before) - now) + p = x - y + k
       /\ q = p => ((x + now - before) - now) + p = x + now - before
  <2>1. CASE o = st.exitOrder
    <3>1. before = y /\ k = p /\ w = v /\ (q = p => now = p)
      BY <1>5, <1>6, <1>9, <2>1
    <3> QED BY <1>4, <1>a, <3>1
  <2>2. CASE o # st.exitOrder
    <3>1. before = 0 /\ w = 0 /\ v = p /\ (q = p => now = p)
      BY <1>6, <1>9, <2>2
    <3> QED BY <1>4, <1>a, <2>2, <3>1
  <2> QED BY <2>1, <2>2
<1> QED BY <1>7, <1>8, <1>10 DEF w, v, p
-----------------------------------------------------------------------------
(* A structure's tick.                                                     *)

\* The status changes and nothing else.
LEMMA StatusFair ==
  ASSUME NEW st \in StateRecord, NEW os \in Seq(OrderRecord), Sane(st, os), Fair(st, os),
         st.status # "closed", NEW x \in Statuses, NEW r, r = [st EXCEPT !.status = x],
         x \notin EntryLane /\ os # <<>> => st.filled = os[1].filled,
         x \in {"open", "exit_working"} => st.filled > 0,
         x = "closed" /\ os # <<>> => os[1].filled <= SoldOf(os),
         x \in {"planned", "enter_working", "open"}
            => st.status \in {"planned", "enter_working", "open"}
  PROVE  Fair(r, os) /\ (Exact(st, os) => Exact(r, os))
<1>1. /\ r \in StateRecord /\ r.status = x /\ r.filled = st.filled
      /\ r.exitFilled = st.exitFilled /\ r.exitSeen = st.exitSeen
      /\ r.exitOrder = st.exitOrder
  BY StatusFields
<1>2. Counted(r, os) = Counted(st, os) /\ Unknown(r, os) = Unknown(st, os)
  BY <1>1, SameCounts
<1>3. /\ Counted(st, os) \in Int /\ Unknown(st, os) \in Nat /\ SoldOf(os) \in Int
      /\ st.exitFilled <= Counted(st, os) /\ st.exitFilled \in Nat
      /\ Counted(st, os) + Unknown(st, os) <= SoldOf(os)
  BY CountedFacts, StateFields DEF Fair
<1>4. st.exitFilled <= SoldOf(os)
  <2> DEFINE c == Counted(st, os)
             u == Unknown(st, os)
             n == SoldOf(os)
             e == st.exitFilled
  <2>1. /\ c \in Int /\ u \in Nat /\ n \in Int /\ e <= c /\ c + u <= n /\ e \in Nat
    BY <1>3
  <2> HIDE DEF c, u, n, e
  <2>2. e <= n
    BY <2>1
  <2> QED BY <2>2 DEF e, n
<1>5. Fair(r, os)
  BY <1>1, <1>2, <1>3, <1>4 DEF Fair
<1>6. Exact(st, os) => Exact(r, os)
  BY <1>1, <1>2 DEF Exact, Statuses
<1> QED BY <1>5, <1>6

LEMMA TransitionsFair ==
  ASSUME IInv, NEW s \in Sids, orders[s] # <<>>,
         NEW st \in StateRecord, Sane(st, orders[s]), Fair(st, orders[s]),
         st.status \in {"enter_working", "open", "exit_working"},
         NEW t, st.status = "enter_working" =>
            t = 1 /\ (seen[s][1].done => st.filled = orders[s][1].filled),
         NEW r, r = Transitions(s, st, t)
  PROVE  /\ Fair(r, orders[s]) /\ (Exact(st, orders[s]) => Exact(r, orders[s]))
         /\ r.exitFilled = st.exitFilled /\ r.exitSeen = st.exitSeen
         /\ r.exitOrder = st.exitOrder
<1> DEFINE done == t # 0 /\ seen[s][t].done
           os == orders[s]
<1>0. /\ os \in Seq(OrderRecord) /\ os[1].qty = Quantity[s] /\ os[1].qty \in Nat
      /\ os[1].filled \in Nat /\ os[1].filled <= os[1].qty /\ Quantity[s] \in Nat /\ Quantity[s] > 0
      /\ st.filled \in Nat /\ st.filled <= os[1].filled /\ st.exitFilled \in Nat
      /\ SoldOf(os) \in Int /\ Counted(st, os) \in Int /\ Unknown(st, os) \in Nat
      /\ st.exitFilled <= Counted(st, os) /\ Counted(st, os) + Unknown(st, os) <= SoldOf(os)
  <2>1. os \in Seq(OrderRecord) /\ Bounded(os) /\ BrokerOf(s)
    BY Shape DEF IInv
  <2>2. 1 \in DOMAIN os /\ os[1].qty \in Nat /\ os[1].filled \in Nat
    BY <2>1, OrdersShape
  <2>3. Quantity[s] \in Nat /\ Quantity[s] > 0
    BY ScenarioAssumption
  <2>4. st.filled \in Nat /\ st.exitFilled \in Nat /\ st.filled <= os[1].filled
    BY StateFields DEF Sane
  <2>5. /\ SoldOf(os) \in Int /\ Counted(st, os) \in Int /\ Unknown(st, os) \in Nat
        /\ st.exitFilled <= Counted(st, os) /\ Counted(st, os) + Unknown(st, os) <= SoldOf(os)
    BY <2>1, CountedFacts DEF Fair
  <2> QED BY <2>1, <2>2, <2>3, <2>4, <2>5 DEF BrokerOf, Bounded
<1>a. st.exitFilled <= SoldOf(os) /\ 0 <= SoldOf(os)
  <2> DEFINE c == Counted(st, os)
             u == Unknown(st, os)
             n == SoldOf(os)
             e == st.exitFilled
  <2>1. /\ c \in Int /\ u \in Nat /\ n \in Int /\ e <= c /\ c + u <= n /\ e \in Nat
    BY <1>0
  <2> HIDE DEF c, u, n, e
  <2>2. e <= n /\ 0 <= n
    BY <2>1
  <2> QED BY <2>2 DEF e, n
<1>1. CASE st.status = "enter_working" /\ (st.filled >= Quantity[s] \/ (done /\ st.filled > 0))
  <2>1. st.filled > 0 /\ st.filled = os[1].filled
    BY <1>0, <1>1
  <2>2. r = [st EXCEPT !.status = "open"]
    BY <1>1, <2>1 DEF Transitions
  <2>3. r.exitFilled = st.exitFilled /\ r.exitSeen = st.exitSeen /\ r.exitOrder = st.exitOrder
    BY <2>2, StatusFields DEF Statuses
  <2> QED BY <1>0, <1>1, <2>1, <2>2, <2>3, StatusFair DEF Statuses
<1>2. CASE /\ st.status = "enter_working" /\ st.filled = 0 /\ done
           /\ ~(st.filled >= Quantity[s] \/ (done /\ st.filled > 0))
  <2>1. os[1].filled = 0 /\ st.filled = os[1].filled /\ os[1].filled <= SoldOf(os)
    BY <1>0, <1>2, <1>a
  <2>2. r = [st EXCEPT !.status = "closed"]
    BY <1>2 DEF Transitions, Closed
  <2>3. r.exitFilled = st.exitFilled /\ r.exitSeen = st.exitSeen /\ r.exitOrder = st.exitOrder
    BY <2>2, StatusFields DEF Statuses
  <2> QED BY <1>0, <1>2, <2>1, <2>2, <2>3, StatusFair DEF Statuses
<1>3. CASE st.status = "exit_working" /\ OpenQty(st) <= 0 /\ (done \/ t = 0)
  <2>1. st.filled = os[1].filled
    BY <1>3 DEF Fair, EntryLane
  <2>2. os[1].filled <= SoldOf(os)
    <3>1. st.filled - st.exitFilled <= 0
      BY <1>3 DEF OpenQty
    <3> QED BY <1>0, <1>a, <2>1, <3>1
  <2>3. r = [st EXCEPT !.status = "closed"]
    BY <1>3 DEF Transitions, Closed
  <2>4. r.exitFilled = st.exitFilled /\ r.exitSeen = st.exitSeen /\ r.exitOrder = st.exitOrder
    BY <2>3, StatusFields DEF Statuses
  <2> QED BY <1>0, <1>3, <2>1, <2>2, <2>3, <2>4, StatusFair DEF Statuses
<1>4. CASE /\ ~(st.status = "enter_working" /\ (st.filled >= Quantity[s] \/ (done /\ st.filled > 0)))
           /\ ~(st.status = "enter_working" /\ st.filled = 0 /\ done)
           /\ ~(st.status = "exit_working" /\ OpenQty(st) <= 0 /\ (done \/ t = 0))
  <2>1. r = st
    BY <1>4 DEF Transitions
  <2> QED BY <2>1
<1> QED BY <1>1, <1>2, <1>3, <1>4

LEMMA ResolveEntryFair ==
  ASSUME IInv, aged = {}, NEW s \in Sids, orders[s] # <<>>,
         NEW st \in StateRecord, Sane(st, orders[s]), Fair(st, orders[s]),
         st.status = "enter_working", seen[s][1].done,
         NEW r, r = ResolveEntry(s, st)
  PROVE  Fair(r, orders[s]) /\ (Exact(st, orders[s]) => Exact(r, orders[s]))
<1> DEFINE os == orders[s]
           qty == Evidence(s, 1)
           drained == DrainEntry(st, 1, qty)
<1>1. /\ os \in Seq(OrderRecord) /\ os[1].filled \in Nat /\ seen[s][1] = os[1]
      /\ st.filled \in Nat /\ st.filled <= os[1].filled /\ st.entryOrder = 1
      /\ st.exitOrder = 0 /\ st.exitFilled = 0 /\ st.exitSeen = 0 /\ os[1].done
  <2>1. os \in Seq(OrderRecord)
        /\ \A o \in DOMAIN os : seen[s][o].done => seen[s][o] = os[o]
    BY Shape
  <2>2. 1 \in DOMAIN os /\ os[1].filled \in Nat
    BY <2>1, OrdersShape
  <2> QED BY <2>1, <2>2, StateFields DEF Sane
<1>2. qty \in {None, os[1].filled} /\ (qty = None => os[1].filled = 0)
  <2>1. Executed(s, 1) = os[1].filled
    BY <1>1 DEF Executed
  <2> QED BY <1>1, <2>1 DEF Evidence, None
<1>3. r = IF EntryUnproven(s, st, qty) THEN st
          ELSE IF qty > 0 \/ (IsEquity(s) /\ st.filled > 0)
          THEN [(IF qty > 0 THEN drained ELSE st) EXCEPT !.status = "open"]
          ELSE Closed(st)
  BY <1>1 DEF ResolveEntry
<1>4. SoldOf(os) \in Int /\ 0 <= SoldOf(os)
  <2> DEFINE c == Counted(st, os)
             u == Unknown(st, os)
             n == SoldOf(os)
  <2>1. c \in Int /\ u \in Nat /\ n \in Int /\ 0 <= c /\ c + u <= n
    BY <1>1, CountedFacts DEF Fair
  <2> HIDE DEF c, u, n
  <2>2. 0 <= n
    BY <2>1
  <2> QED BY <2>1, <2>2 DEF n
<1> HIDE DEF qty
<1>5. CASE EntryUnproven(s, st, qty)
  BY <1>3, <1>5
<1>6. CASE /\ ~EntryUnproven(s, st, qty)
           /\ qty > 0 \/ (IsEquity(s) /\ st.filled > 0)
  <2>1. qty = os[1].filled /\ qty > 0
    BY <1>1, <1>2, <1>6 DEF EntryUnproven
  <2>2. r = [drained EXCEPT !.status = "open"] /\ qty \in Nat
    BY <1>1, <1>3, <1>6, <2>1
  <2>3. /\ drained \in StateRecord /\ drained.status = st.status /\ drained.entryOrder = 1
        /\ drained.filled = (IF qty < st.filled THEN st.filled ELSE qty)
        /\ drained.exitFilled = st.exitFilled /\ drained.exitSeen = st.exitSeen
        /\ drained.exitOrder = st.exitOrder
    BY <2>2, DrainEntryFields
  <2> HIDE DEF drained
  <2>4. drained.filled = os[1].filled /\ drained.filled > 0
    BY <1>1, <2>1, <2>3
  <2>5. Sane(drained, os)
    BY <1>1, <2>3, <2>4 DEF Sane
  <2>6. Counted(drained, os) = Counted(st, os) /\ Unknown(drained, os) = Unknown(st, os)
    BY <2>3, SameCounts
  <2>7. Fair(drained, os) /\ (Exact(st, os) => Exact(drained, os))
    BY <2>3, <2>6 DEF Fair, Exact, EntryLane
  <2>8. Fair(r, os) /\ (Exact(drained, os) => Exact(r, os))
    BY <1>1, <2>2, <2>3, <2>4, <2>5, <2>7, StatusFair DEF Statuses
  <2> QED BY <2>7, <2>8
<1>7. CASE /\ ~EntryUnproven(s, st, qty)
           /\ ~(qty > 0 \/ (IsEquity(s) /\ st.filled > 0))
  <2>1. r = [st EXCEPT !.status = "closed"]
    BY <1>3, <1>7 DEF Closed
  <2>2. os[1].filled = 0 /\ st.filled = 0
    BY <1>1, <1>2, <1>7 DEF EntryUnproven
  <2> QED BY <1>1, <1>4, <2>1, <2>2, StatusFair DEF Statuses
<1> QED BY <1>5, <1>6, <1>7

LEMMA ResolveExitFair ==
  ASSUME IInv, aged = {}, NEW s \in Sids, orders[s] # <<>>,
         NEW st \in StateRecord, Sane(st, orders[s]), Fair(st, orders[s]),
         st.status = "exit_working", st.exitOrder # 0,
         \A o \in DOMAIN orders[s] \ {1} : seen[s][o].done,
         s \in resolve => orders[s][1].filled <= SoldOf(orders[s]),
         NEW a, a = ResolveExit(s, st)
  PROVE  /\ Fair(a.st, orders[s]) /\ (Exact(st, orders[s]) => Exact(a.st, orders[s]))
         /\ a.go => Counted(a.st, orders[s]) = a.st.exitFilled
<1> DEFINE os == orders[s]
           k == st.exitOrder
           qty == Evidence(s, k)
           d == ExitProved(s, st, qty)
           open == OpenQty(d)
           pos == PositionSeen(s) - Beside(s, d)
<1>1. /\ os \in Seq(OrderRecord) /\ Bounded(os)
      /\ k \in DOMAIN os /\ k # 1 /\ seen[s][k] = os[k] /\ os[k].filled \in Nat
      /\ st.exitFilled \in Nat /\ st.exitSeen \in Nat /\ st.exitSeen <= os[k].filled
      /\ st.filled = os[1].filled /\ st.filled > 0 /\ os[1].filled \in Nat
      /\ Counted(st, os) \in Int /\ Unknown(st, os) \in Nat /\ SoldOf(os) \in Int
      /\ Counted(st, os) + Unknown(st, os) <= SoldOf(os)
  <2>1. /\ os \in Seq(OrderRecord) /\ Bounded(os) /\ k \in DOMAIN os /\ k # 1
        /\ st.exitFilled \in Nat /\ st.exitSeen \in Nat /\ st.exitSeen <= os[k].filled
    BY Shape, StateFields DEF Sane
  <2>2. seen[s][k] = os[k]
    BY <2>1, Shape
  <2>3. os[k].filled \in Nat /\ os[1].filled \in Nat
    BY <2>1, OrdersShape
  <2>4. st.filled = os[1].filled /\ st.filled > 0
    BY DEF Fair, EntryLane
  <2>5. /\ Counted(st, os) \in Int /\ Unknown(st, os) \in Nat /\ SoldOf(os) \in Int
        /\ Counted(st, os) + Unknown(st, os) <= SoldOf(os)
    BY <2>1, CountedFacts DEF Fair
  <2> QED BY <2>1, <2>2, <2>3, <2>4, <2>5
<1>2. qty \in {None, os[k].filled} /\ (qty = None => os[k].filled = 0)
  <2>1. Executed(s, k) = os[k].filled
    BY <1>1 DEF Executed
  <2> QED BY <1>1, <2>1 DEF Evidence, None
<1> HIDE DEF qty
<1>3. /\ d \in StateRecord /\ Sane(d, os) /\ d.status = "exit_working" /\ d.filled = st.filled
      /\ d.exitOrder = k /\ d.exitFilled \in Nat
      /\ Counted(d, os) = Counted(st, os) /\ Unknown(d, os) = Unknown(st, os)
      /\ Counted(d, os) = d.exitFilled
  <2>1. CASE qty > 0
    <3>1. qty \in Nat /\ qty = os[k].filled /\ qty <= os[k].filled
      BY <1>1, <1>2, <2>1 DEF None
    <3>2. d = DrainExit(st, k, qty)
      BY <2>1 DEF ExitProved
    <3>3. /\ d \in StateRecord /\ Sane(d, os) /\ d.status = "exit_working" /\ d.filled = st.filled
          /\ d.exitOrder = k
      <4> HIDE DEF d, k
      <4> QED BY <1>1, <3>1, <3>2, DrainExitSane DEF k
    <3>4. Counted(d, os) = Counted(st, os) /\ Counted(d, os) = d.exitFilled
      <4> HIDE DEF d
      <4> QED BY <1>1, <3>1, <3>2, DrainCounts
    <3> HIDE DEF d
    <3> QED BY <3>3, <3>4, StateFields DEF Unknown
  <2>2. CASE ~(qty > 0)
    <3>1. d = st /\ os[k].filled = 0
      BY <1>1, <1>2, <2>2 DEF ExitProved
    <3>2. st.exitSeen = 0
      BY <1>1, <3>1
    <3>3. FillOf(os, k) = 0
      BY <3>1 DEF FillOf
    <3>4. Counted(st, os) = st.exitFilled
      BY <1>1, <3>2, <3>3 DEF Counted
    <3> HIDE DEF d
    <3> QED BY <1>1, <3>1, <3>4
  <2> QED BY <2>1, <2>2
<1>4. a = Compared(s, d, open, pos)
  BY DEF ResolveExit, CompareExit, qty
<1>5. open = d.filled - d.exitFilled
  BY DEF OpenQty
<1> HIDE DEF d, open, pos
<1>6. Fair(d, os) /\ (Exact(st, os) => Exact(d, os))
  BY <1>1, <1>3 DEF Fair, Exact, EntryLane
<1>7. d.exitFilled <= SoldOf(os)
  <2> DEFINE c == Counted(st, os)
             u == Unknown(st, os)
             n == SoldOf(os)
  <2>1. d.exitFilled = c /\ c \in Int /\ u \in Nat /\ n \in Int /\ c + u <= n
    BY <1>1, <1>3
  <2> HIDE DEF c, u, n
  <2>2. c <= n
    BY <2>1
  <2> QED BY <2>1, <2>2 DEF n
<1>8. CASE pos = open
  <2> DEFINE r == IF open <= 0 THEN Closed(d) ELSE d
  <2>1. a = Reached(r, 0)
    BY <1>4, <1>8 DEF Compared
  <2>2. a.st = r /\ a.go = (r.status # "closed")
    <3> HIDE DEF r
    <3> QED BY <2>1 DEF Reached
  <2>3. CASE open <= 0
    <3>1. r = [d EXCEPT !.status = "closed"]
      BY <2>3 DEF Closed
    <3>2. os[1].filled <= SoldOf(os)
      BY <1>1, <1>3, <1>5, <1>7, <2>3
    <3> HIDE DEF r
    <3>3. Fair(r, os) /\ (Exact(d, os) => Exact(r, os))
      <4>1. /\ os \in Seq(OrderRecord) /\ d \in StateRecord /\ Sane(d, os) /\ Fair(d, os)
            /\ d.status # "closed" /\ d.filled = os[1].filled
        BY <1>1, <1>3, <1>6
      <4> HIDE DEF os
      <4> QED BY <3>1, <3>2, <4>1, StatusFair DEF Statuses
    <3>4. r.status = "closed"
      BY <1>3, <3>1, StatusFields DEF Statuses
    <3> QED BY <1>6, <2>2, <3>3, <3>4
  <2>4. CASE ~(open <= 0)
    BY <1>3, <1>6, <2>2, <2>4
  <2> QED BY <2>3, <2>4
<1>9. CASE pos # open /\ pos = 0 /\ open > 0 /\ s \in resolve
  <2> DEFINE e == [d EXCEPT !.exitFilled = @ + open]
             r == [e EXCEPT !.status = "closed"]
  <2>1. a.st = r /\ a.go = (a.st.status # "closed")
    BY <1>4, <1>9 DEF Compared, Reached, Closed
  <2>2. e \in StateRecord /\ e.filled = d.filled /\ e.exitFilled = d.filled
    <3>1. d.exitFilled + open = d.filled /\ d.filled \in Nat
      BY <1>1, <1>3, <1>5, StateFields
    <3> QED BY <1>3, <3>1 DEF StateRecord
  <2> HIDE DEF e
  <2>3. r.status = "closed" /\ r.filled = e.filled /\ r.exitFilled = e.exitFilled
    BY <2>2, StatusFields DEF Statuses
  <2> HIDE DEF r
  <2>4. Fair(r, os)
    BY <1>1, <1>3, <1>9, <2>2, <2>3 DEF Fair
  <2> QED BY <2>1, <2>3, <2>4 DEF Exact
<1>10. CASE pos # open /\ ~(pos = 0 /\ open > 0 /\ s \in resolve)
  <2>1. /\ a.st = d /\ a.go = FALSE
    BY <1>4, <1>10 DEF Compared, Reached
  <2> QED BY <1>6, <2>1
<1> QED BY <1>8, <1>9, <1>10

\* What the tick of a structure may count on and must keep.
Session(s, st) ==
    /\ Fair(st, orders[s])
    /\ s \in resolve => orders[s] # <<>> /\ orders[s][1].filled <= SoldOf(orders[s])

\* No exit is open, and the state has counted them all.
Settled(s, st) ==
    /\ Counted(st, orders[s]) = st.exitFilled
    /\ \A o \in DOMAIN orders[s] \ {1} : orders[s][o].done

LEMMA AdvanceOnFair ==
  ASSUME IInv, pc = "tick", aged = {}, NEW s \in todo, NEW st \in StateRecord,
         Sane(st, orders[s]), Session(s, st),
         st.status \in {"enter_working", "open", "exit_working"},
         Adoptable(s) => Room(st, orders[s], Old(s), lane[s]),
         NEW t, t = TradeBy(s, st),
         NEW a, a = AdvanceOn(s, st, t)
  PROVE  /\ Fair(a.st, orders[s]) /\ (Exact(st, orders[s]) => Exact(a.st, orders[s]))
         /\ a.go /\ a.st.status = "exit_working" /\ (t = 0 \/ seen[s][t].done)
               => Settled(s, a.st)
<1> DEFINE os == orders[s]
           q == seen[s][t].filled
<1>1. s \in Sids /\ os # <<>> /\ Fair(st, os)
  BY DEF IInv, TypeOK, Sane, Session
<1>2. /\ os \in Seq(OrderRecord) /\ Bounded(os) /\ 1 \in DOMAIN os
      /\ \A o \in DOMAIN os : /\ seen[s][o].filled \in Nat
                              /\ seen[s][o].filled <= os[o].filled
                              /\ seen[s][o].done => seen[s][o] = os[o]
      /\ \A o \in DOMAIN os : os[o].filled \in Nat
      /\ Len(os) \in Nat /\ \A o \in DOMAIN os : o \in Nat /\ o > 0 /\ o <= Len(os)
  BY <1>1, Shape, OrdersShape
<1>3. /\ t = 0 \/ t \in DOMAIN orders[s]
      /\ st.status = "enter_working" => /\ t \in {0, 1}
                                        /\ t = 0 => seen[s][1].done
      /\ st.status # "enter_working" =>
            /\ t # 1
            /\ t # 0 => t = st.exitOrder \/ t = Last(s)
            /\ t # 0 /\ t # st.exitOrder => Adoptable(s)
            /\ t # Last(s) => ~Adoptable(s) \/ Last(s) = 1
            /\ t = 0 \/ seen[s][t].done => \A o \in DOMAIN orders[s] \ {1} : seen[s][o].done
  BY TradeFacts
<1>4. /\ st.filled \in Nat /\ st.exitFilled \in Nat /\ st.exitSeen \in Nat /\ st.exitOrder \in Nat
      /\ st.filled <= os[1].filled
  BY <1>1, StateFields DEF Sane
<1>s. st.status # "enter_working" /\ (t = 0 \/ seen[s][t].done)
         => \A o \in DOMAIN os \ {1} : os[o].done
  BY <1>2, <1>3
<1>5. CASE t # 0 /\ st.status = "enter_working"
  <2> DEFINE d == DrainEntry(st, 1, q)
             r == Transitions(s, d, t)
  <2>1. t = 1 /\ a = Reached(r, t)
    BY <1>3, <1>5 DEF AdvanceOn, Drain
  <2>2. a.st = r
    <3> HIDE DEF r
    <3> QED BY <2>1 DEF Reached
  <2>3. q \in Nat /\ q <= os[1].filled
    BY <1>2, <2>1
  <2>4. /\ d \in StateRecord /\ d.status = st.status /\ d.entryOrder = 1
        /\ d.filled = (IF q < st.filled THEN st.filled ELSE q)
        /\ d.exitFilled = st.exitFilled /\ d.exitSeen = st.exitSeen
        /\ d.exitOrder = st.exitOrder
    <3>1. d = DrainEntry(st, 1, q)
      OBVIOUS
    <3> HIDE DEF d, q
    <3> QED BY <2>3, <3>1, DrainEntryFields
  <2>6. d.filled <= os[1].filled /\ (seen[s][1].done => d.filled = os[1].filled)
    BY <1>2, <1>4, <2>1, <2>3, <2>4
  <2> HIDE DEF d
  <2>7. Sane(d, os)
    <3>1. /\ st.exitOrder = 0 /\ st.exitSeen = 0 /\ st.exitFilled = 0
          /\ d.filled \in Nat /\ d.status = "enter_working"
      BY <1>4, <1>5, <2>3, <2>4 DEF Sane
    <3> HIDE DEF q
    <3> QED BY <1>1, <2>4, <2>6, <3>1 DEF Sane
  <2>8. Counted(d, os) = Counted(st, os) /\ Unknown(d, os) = Unknown(st, os)
    BY <2>4, SameCounts
  <2>9. Fair(d, os) /\ (Exact(st, os) => Exact(d, os))
    BY <1>1, <1>5, <2>4, <2>8 DEF Fair, Exact, EntryLane
  <2> HIDE DEF r
  <2>10. Fair(r, os) /\ (Exact(d, os) => Exact(r, os))
    BY <1>1, <1>5, <2>1, <2>4, <2>6, <2>7, <2>9, TransitionsFair DEF r
  <2>11. r.status # "exit_working"
    BY <1>5, <2>4, StatusFields DEF r, Transitions, Closed, Statuses
  <2> QED BY <2>2, <2>9, <2>10, <2>11
<1>6. CASE t # 0 /\ st.status # "enter_working"
  <2> DEFINE d == DrainExit(st, t, q)
             r == Transitions(s, d, t)
  <2>1. t # 1 /\ t \in DOMAIN os /\ a = Reached(r, t)
    BY <1>3, <1>6 DEF AdvanceOn, Drain
  <2>2. a.st = r
    <3> HIDE DEF r
    <3> QED BY <2>1 DEF Reached
  <2>3. q \in Nat /\ q <= os[t].filled /\ (seen[s][t].done => q = os[t].filled)
    BY <1>2, <2>1
  <2>4. t # st.exitOrder => st.exitFilled + os[t].qty <= st.filled
    <3> SUFFICES ASSUME t # st.exitOrder PROVE st.exitFilled + os[t].qty <= st.filled
      OBVIOUS
    <3>1. t = Len(os) /\ Adoptable(s) /\ Len(os) \in Nat /\ t > 0
      BY <1>2, <1>3, <1>6, <2>1 DEF Last
    <3>2. Len(os) > 1
      <4> DEFINE n == Len(os)
      <4>1. n \in Nat /\ n > 0 /\ n # 1
        BY <2>1, <3>1
      <4> HIDE DEF n
      <4>2. n > 1
        BY <4>1
      <4> QED BY <4>2 DEF n
    <3>3. st.exitOrder = 0 \/ st.exitOrder \in DOMAIN os
      BY DEF Sane
    <3>4. Len(os) > st.exitOrder
      BY <1>2, <1>4, <3>1, <3>3
    <3>5. Entered(st, os, Old(s), lane[s]) = st.filled
      BY <1>6 DEF Entered, EntryLane
    <3> QED BY <3>1, <3>2, <3>4, <3>5 DEF Room
  <2>5. /\ d \in StateRecord /\ Sane(d, os)
        /\ d.status = st.status /\ d.filled = st.filled
        /\ d.exitOrder = t /\ st.exitFilled <= d.exitFilled
    BY <1>2, <1>6, <2>1, <2>3, <2>4, DrainExitSane
  <2>6. /\ Counted(d, os) + Unknown(d, os) <= Counted(st, os) + Unknown(st, os)
        /\ t = st.exitOrder => Counted(d, os) = Counted(st, os)
        /\ q = os[t].filled => Counted(d, os) = d.exitFilled
    <3>1. t = st.exitOrder \/ t = Len(os)
      BY <1>3, <1>6 DEF Last
    <3>2. d = DrainExit(st, t, q)
      OBVIOUS
    <3> HIDE DEF d, q
    <3> QED BY <1>2, <2>1, <2>3, <3>1, <3>2, DrainCounts
  <2> HIDE DEF d
  <2>7. Fair(d, os)
    <3>1. Counted(d, os) + Unknown(d, os) <= SoldOf(os)
      <4> DEFINE c == Counted(d, os) + Unknown(d, os)
                 b == Counted(st, os) + Unknown(st, os)
                 n == SoldOf(os)
      <4>1. c \in Int /\ b \in Int /\ n \in Int /\ c <= b /\ b <= n
        BY <1>1, <1>2, <1>6, <2>5, <2>6, CountedFacts DEF Fair
      <4> HIDE DEF c, b, n
      <4>2. c <= n
        BY <4>1
      <4> QED BY <4>2 DEF c, n
    <3> QED BY <1>1, <1>6, <2>5, <3>1 DEF Fair, EntryLane
  <2>8. Exact(st, os) => Exact(d, os)
    <3> SUFFICES ASSUME Exact(st, os) PROVE Exact(d, os)
      OBVIOUS
    <3>1. st.exitOrder = (IF Len(os) > 1 THEN Len(os) ELSE 0) /\ Counted(st, os) = SoldOf(os)
      BY <1>6 DEF Exact
    <3>2. Len(os) > 1
      BY <1>2, <2>1
    <3>3. t = st.exitOrder
      BY <1>3, <1>6, <3>1, <3>2 DEF Last
    <3> QED BY <1>6, <2>5, <2>6, <3>1, <3>2, <3>3 DEF Exact
  <2> HIDE DEF r
  <2>9. /\ Fair(r, os) /\ (Exact(d, os) => Exact(r, os))
        /\ r.exitFilled = d.exitFilled /\ r.exitSeen = d.exitSeen /\ r.exitOrder = d.exitOrder
    BY <1>1, <1>6, <2>5, <2>7, TransitionsFair DEF r
  <2>10. seen[s][t].done => Counted(r, os) = r.exitFilled
    BY <2>3, <2>6, <2>9, SameCounts
  <2> QED BY <1>6, <1>s, <2>2, <2>8, <2>9, <2>10 DEF Settled
<1>7. CASE t = 0 /\ st.status = "enter_working"
  <2> DEFINE r == ResolveEntry(s, st)
  <2>1. a = [Reached(r, 0) EXCEPT !.go = r.status = "open"]
    BY <1>7 DEF AdvanceOn
  <2>2. a.st = r /\ a.go = (r.status = "open")
    BY <2>1 DEF Reached
  <2>3. Fair(r, os) /\ (Exact(st, os) => Exact(r, os))
    BY <1>1, <1>3, <1>7, ResolveEntryFair
  <2> QED BY <2>2, <2>3
<1>8. CASE t = 0 /\ st.status = "exit_working" /\ st.exitOrder # 0
  <2>1. a = ResolveExit(s, st)
    BY <1>8 DEF AdvanceOn
  <2>2. s \in resolve => os[1].filled <= SoldOf(os)
    BY DEF Session
  <2>3. /\ Fair(a.st, os) /\ (Exact(st, os) => Exact(a.st, os))
        /\ a.go => Counted(a.st, os) = a.st.exitFilled
    BY <1>1, <1>3, <1>8, <2>1, <2>2, ResolveExitFair
  <2> QED BY <1>8, <1>s, <2>3 DEF Settled
<1>9. CASE /\ t = 0 /\ st.status # "enter_working"
           /\ ~(st.status = "exit_working" /\ st.exitOrder # 0)
  <2> DEFINE r == Transitions(s, st, 0)
  <2>1. a = Reached(r, 0)
    BY <1>9 DEF AdvanceOn
  <2>2. a.st = r
    <3> HIDE DEF r
    <3> QED BY <2>1 DEF Reached
  <2> HIDE DEF r
  <2>3. /\ Fair(r, os) /\ (Exact(st, os) => Exact(r, os))
        /\ r.exitFilled = st.exitFilled /\ r.exitSeen = st.exitSeen
        /\ r.exitOrder = st.exitOrder
    BY <1>1, <1>9, TransitionsFair DEF r
  <2>4. r.status = "exit_working" => st.status = "exit_working"
    BY <1>9, StatusFields DEF r, Transitions, Closed, Statuses
  <2>5. st.status = "exit_working" => Counted(st, os) = st.exitFilled
    <3> SUFFICES ASSUME st.status = "exit_working" PROVE Counted(st, os) = st.exitFilled
      OBVIOUS
    <3>1. st.exitOrder = 0 /\ st.exitSeen = 0
      BY <1>9 DEF Sane
    <3>2. FillOf(os, st.exitOrder) = 0
      BY <3>1 DEF FillOf
    <3> QED BY <1>4, <3>1, <3>2 DEF Counted
  <2>6. Counted(r, os) = Counted(st, os)
    BY <2>3, SameCounts
  <2> QED BY <1>9, <1>s, <2>2, <2>3, <2>4, <2>5, <2>6 DEF Settled
<1> QED BY <1>5, <1>6, <1>7, <1>8, <1>9

\* A structure's tick before it decides.
LEMMA AdvanceFair ==
  ASSUME IInv, SInv, pc = "tick", aged = {}, NEW s \in todo, NEW a, a = Advance(s)
  PROVE  /\ Fair(a.st, orders[s]) /\ (s \notin orphaned => Exact(a.st, orders[s]))
         /\ a.go /\ a.st.status = "exit_working" /\ (a.t = 0 \/ seen[s][a.t].done)
               => Settled(s, a.st)
<1> DEFINE os == orders[s]
           m == mem[s]
           st == IF m.status = "planned" THEN ResolvePlanned(s, m) ELSE m
<1>1. /\ s \in Sids /\ m \in StateRecord /\ os \in Seq(OrderRecord) /\ m.status \in Statuses
      /\ SessionOf(s)
  BY Shape, StateFields DEF IInv, TypeOK, SInv
<1>2. /\ Sane(m, os) /\ Fair(m, os) /\ book[s] = m /\ m.status # "closed"
      /\ Adoptable(s) => Room(m, os, Old(s), lane[s])
      /\ DocOf(s) /\ LiveOf(s) /\ (s \notin orphaned => Exact(m, os))
      /\ s \in resolve => os # <<>> /\ os[1].filled <= SoldOf(os)
  BY <1>1 DEF IInv, BookOf, Busy, Course, SessionOf
<1>3. /\ st \in StateRecord /\ Sane(st, os)
      /\ Adoptable(s) => Room(st, os, Old(s), lane[s])
      /\ Fair(st, os) /\ (Exact(m, os) => Exact(st, os))
  <2>1. CASE m.status = "planned"
    <3>1. st = ResolvePlanned(s, m)
      BY <2>1
    <3> HIDE DEF st
    <3>2. Sound(s, m, st)
      BY <2>1, <3>1, ResolvePlannedSound
    <3>3. \/ st = EnterWorking(m)
          \/ st = [m EXCEPT !.status = "closed"] /\ os = <<>>
          \/ st = m
      <4>1. CASE 1 \in live[s] \/ doc[s] \in {"confirmed_submitted", "acknowledged"}
        <5>1. os # <<>>
          BY <1>1, <1>2, <4>1, OrdersShape DEF DocOf, LiveOf
        <5>2. doc[s] \notin {"confirmed_not_submitted", "rejected", "pending"}
          BY <1>2, <5>1 DEF DocOf
        <5> QED BY <3>1, <4>1, <5>2 DEF ResolvePlanned
      <4>2. CASE /\ ~(1 \in live[s] \/ doc[s] \in {"confirmed_submitted", "acknowledged"})
                 /\ \/ doc[s] \in {"confirmed_not_submitted", "rejected"}
                    \/ doc[s] = "pending" /\ lapsed[s]
        <5>1. os = <<>>
          BY <1>2, <4>2 DEF DocOf
        <5>2. st = Closed(m)
          BY <3>1, <4>2 DEF ResolvePlanned
        <5> QED BY <5>1, <5>2 DEF Closed
      <4>3. CASE /\ ~(1 \in live[s] \/ doc[s] \in {"confirmed_submitted", "acknowledged"})
                 /\ ~(doc[s] \in {"confirmed_not_submitted", "rejected"})
                 /\ ~(doc[s] = "pending" /\ lapsed[s])
        BY <3>1, <4>3 DEF ResolvePlanned
      <4> QED BY <4>1, <4>2, <4>3
    <3>4. CASE st = EnterWorking(m)
      <4>1. /\ st.status = "enter_working" /\ st.exitFilled = m.exitFilled
            /\ st.exitSeen = m.exitSeen /\ st.exitOrder = m.exitOrder
        BY <1>1, <3>4 DEF EnterWorking, StateRecord
      <4>2. Counted(st, os) = Counted(m, os) /\ Unknown(st, os) = Unknown(m, os)
        BY <4>1, SameCounts
      <4>3. Fair(st, os) /\ (Exact(m, os) => Exact(st, os))
        BY <1>2, <2>1, <4>1, <4>2 DEF Fair, Exact, EntryLane
      <4> QED BY <3>2, <4>3 DEF Sound
    <3>5. CASE st = [m EXCEPT !.status = "closed"] /\ os = <<>>
      <4>1. Fair(st, os) /\ (Exact(m, os) => Exact(st, os))
        <5>1. "closed" \in Statuses /\ "closed" \notin {"planned", "enter_working", "open", "exit_working"}
          BY DEF Statuses
        <5> HIDE DEF m, os
        <5> QED BY <1>1, <1>2, <3>5, <5>1, StatusFair
      <4> QED BY <3>2, <4>1 DEF Sound
    <3>6. CASE st = m
      BY <1>1, <1>2, <3>6
    <3> QED BY <3>3, <3>4, <3>5, <3>6
  <2>2. CASE m.status # "planned"
    BY <1>1, <1>2, <2>2
  <2> QED BY <2>1, <2>2
<1>4. a = AdvanceFrom(s, st)
  BY DEF Advance
<1> HIDE DEF st
<1>5. CASE st.status \in {"planned", "closed"}
  <2>1. a = [Reached(st, 0) EXCEPT !.go = FALSE]
    BY <1>4, <1>5 DEF AdvanceFrom
  <2>2. a.st = st /\ a.go = FALSE
    BY <2>1 DEF Reached
  <2> QED BY <1>2, <1>3, <2>2
<1>6. CASE st.status \notin {"planned", "closed"}
  <2> DEFINE t == TradeBy(s, st)
  <2>1. a = AdvanceOn(s, st, t)
    BY <1>4, <1>6 DEF AdvanceFrom
  <2>2. st.status \in {"enter_working", "open", "exit_working"}
    BY <1>3, <1>6, StateFields DEF Statuses
  <2>3. Session(s, st)
    BY <1>2, <1>3 DEF Session
  <2>4. a.t = t
    BY <1>3, <2>1, <2>2, AdvanceOnSound
  <2>5. /\ Fair(a.st, os) /\ (Exact(st, os) => Exact(a.st, os))
        /\ a.go /\ a.st.status = "exit_working" /\ (t = 0 \/ seen[s][t].done)
              => Settled(s, a.st)
    BY <1>3, <2>1, <2>2, <2>3, AdvanceOnFair
  <2> HIDE DEF t
  <2> QED BY <1>2, <1>3, <2>4, <2>5
<1> QED BY <1>5, <1>6
-----------------------------------------------------------------------------
(* The steps.                                                              *)

\* A step that leaves the broker alone and gives s the state st.
LEMMA TickSession ==
  ASSUME IInv, SInv, NEW s \in Sids, orders' = orders, orphaned' = orphaned,
         resolve' \subseteq resolve,
         NEW st, Fair(st, orders[s]), s \notin orphaned => Exact(st, orders[s]),
         mem' = [mem EXCEPT ![s] = st],
         \/ book' = mem' /\ pc' \in {"tick", "idle"}
         \/ /\ book' = book /\ pc' \in {"cancel", "clear"} /\ cur' = s /\ pc \in {"tick", "cancel"}
            /\ pc' = "clear" /\ s \notin orphaned =>
                  /\ st.exitFilled = SoldOf(orders[s])
                  /\ Last(s) > 1 => orders[s][Last(s)].done
  PROVE  SInv'
<1> SUFFICES ASSUME NEW x \in Sids PROVE SessionOf(x)'
  BY DEF SInv
<1>1. /\ SessionOf(x) /\ DOMAIN mem = Sids /\ Last(x)' = Last(x) /\ orders'[x] = orders[x]
      /\ Placing(x)' = (pc' = "placed" /\ cur' = x)
  BY DEF SInv, IInv, TypeOK, Last, Placing
<1>2. mem'[x] = IF x = s THEN st ELSE mem[x]
  BY <1>1
<1>3. /\ Fair(mem'[x], orders[x])
      /\ x \notin orphaned => Exact(mem'[x], orders[x]) /\ Within(orders[x])
      /\ x \in resolve' => /\ orders[x] # <<>> /\ orders[x][1].done
                           /\ orders[x][1].filled <= SoldOf(orders[x])
  BY <1>1, <1>2 DEF SessionOf
<1>4. CASE book' = mem' /\ pc' \in {"tick", "idle"}
  BY <1>1, <1>3, <1>4 DEF SessionOf
<1>5. CASE /\ book' = book /\ pc' \in {"cancel", "clear"} /\ cur' = s /\ pc \in {"tick", "cancel"}
           /\ pc' = "clear" /\ s \notin orphaned =>
                 /\ st.exitFilled = SoldOf(orders[s])
                 /\ Last(s) > 1 => orders[s][Last(s)].done
  <2>1. ~Placing(x) /\ ~Placing(x)'
    BY <1>1, <1>5 DEF Placing
  <2>2. Fair(book[x], orders[x]) /\ (x \notin orphaned => Exact(book[x], orders[x]))
    BY <1>1, <2>1 DEF SessionOf
  <2>3. pc' = "clear" /\ cur' = x /\ x \notin orphaned =>
           /\ mem'[x].exitFilled = SoldOf(orders[x])
           /\ Last(x) > 1 => orders[x][Last(x)].done
    BY <1>2, <1>5
  <2> QED BY <1>1, <1>3, <1>5, <2>1, <2>2, <2>3 DEF SessionOf
<1> QED BY <1>4, <1>5

\* A step that changes neither the orders nor the book.
LEMMA StillSession ==
  ASSUME SInv, orders' = orders, book' = book, resolve' = resolve, orphaned \subseteq orphaned',
         \/ mem' = mem /\ pc' = pc /\ cur' = cur
         \/ /\ mem' \in {mem, book} /\ pc' \notin {"placed", "clear"}
            /\ \A s \in Sids \ orphaned' : ~Placing(s)
  PROVE  SInv'
<1> SUFFICES ASSUME NEW x \in Sids PROVE SessionOf(x)'
  BY DEF SInv
<1>1. SessionOf(x) /\ Last(x)' = Last(x) /\ Placing(x)' = (pc' = "placed" /\ cur' = x)
  BY DEF SInv, Last, Placing
<1>2. CASE mem' = mem /\ pc' = pc /\ cur' = cur
  BY <1>1, <1>2 DEF SessionOf, Placing
<1>3. CASE /\ mem' \in {mem, book} /\ pc' \notin {"placed", "clear"}
           /\ \A s \in Sids \ orphaned' : ~Placing(s)
  BY <1>1, <1>3 DEF SessionOf
<1> QED BY <1>2, <1>3

LEMMA StructureTickSession ==
  ASSUME IInv, SInv, aged = {}, NEW s \in Sids, StructureTick(s)
  PROVE  SInv'
<1>0. /\ pc = "tick" /\ s \in todo /\ orphaned' = orphaned
  BY DEF StructureTick
<1>1. PICK a \in {Advance(s)} :
          /\ resolve' = IF a.confirmed THEN resolve \ {s} ELSE resolve
          /\ \/ ~a.go /\ Finish(s, a.st) /\ UNCHANGED <<broker, spent>>
             \/ /\ a.go
                /\ \/ ActOnEntry(s, a.st, a.t)
                   \/ Hold(s, a.st)
                   \/ BeginExit(s, a.st)
                   \/ Reprice(s, a.st, a.t)
                   \/ Replace(s, a.st, a.t)
  BY DEF StructureTick
<1>2. /\ Fair(a.st, orders[s]) /\ (s \notin orphaned => Exact(a.st, orders[s]))
      /\ a.go /\ a.st.status = "exit_working" /\ (a.t = 0 \/ seen[s][a.t].done)
            => Settled(s, a.st)
  BY <1>0, <1>1, AdvanceFair
<1>3. /\ a.st \in StateRecord /\ Sane(a.st, orders[s]) /\ orders[s] \in Seq(OrderRecord)
      /\ Fit(s, a.st)
  <2>1. Sound(s, mem[s], a.st)
    BY <1>0, <1>1, AdvanceSound
  <2> QED BY <2>1, Shape, SoundFits DEF Sound
<1>4. resolve' \subseteq resolve
  BY <1>1
<1>5. /\ Last(s) = Len(orders[s]) /\ Last(s) \in Nat
      /\ Last(s) > 1 => Last(s) \in DOMAIN orders[s] \ {1}
  BY <1>3, OrdersShape DEF Last
<1>6. CASE Finish(s, a.st) /\ orders' = orders
  <2>1. mem' = [mem EXCEPT ![s] = a.st] /\ book' = mem' /\ pc' \in {"tick", "idle"}
    BY <1>6 DEF Finish
  <2> QED BY <1>0, <1>2, <1>4, <1>6, <2>1, TickSession
<1>7. CASE BeginCancel(s, a.st, a.t)
  <2>1. /\ mem' = [mem EXCEPT ![s] = a.st] /\ book' = book /\ pc' = "cancel" /\ cur' = s
        /\ orders' = orders
    BY <1>7 DEF BeginCancel
  <2> QED BY <1>0, <1>2, <1>4, <2>1, TickSession
<1>8. ASSUME NEW st, Fit(s, st), st.status = "exit_working", Fair(st, orders[s]),
             s \notin orphaned => /\ Exact(st, orders[s]) /\ st.exitFilled = SoldOf(orders[s])
                                  /\ Last(s) > 1 => orders[s][Last(s)].done,
             BeginClear(s, st)
      PROVE  SInv'
  <2> DEFINE r == WithOutside(s, st)
  <2>1. /\ mem' = [mem EXCEPT ![s] = r] /\ book' = book /\ pc' = "clear" /\ cur' = s
        /\ orders' = orders
    BY <1>8 DEF BeginClear, broker
  <2>2. /\ r.status = st.status /\ r.filled = st.filled /\ r.exitFilled = st.exitFilled
        /\ r.exitSeen = st.exitSeen /\ r.exitOrder = st.exitOrder
    <3>1. st \in StateRecord
      BY <1>8 DEF Fit
    <3> QED BY <3>1 DEF WithOutside, StateRecord
  <2> HIDE DEF r
  <2>3. Counted(r, orders[s]) = Counted(st, orders[s])
        /\ Unknown(r, orders[s]) = Unknown(st, orders[s])
    BY <2>2, SameCounts
  <2>4. Fair(r, orders[s]) /\ (s \notin orphaned => Exact(r, orders[s]))
    BY <1>8, <2>2, <2>3 DEF Fair, Exact
  <2> QED BY <1>0, <1>4, <1>8, <2>1, <2>2, <2>4, TickSession
<1>9. CASE a.go /\ ActOnEntry(s, a.st, a.t)
  BY <1>6, <1>7, <1>9 DEF ActOnEntry, broker
<1>10. CASE a.go /\ Hold(s, a.st)
  BY <1>6, <1>10 DEF Hold, broker
<1>11. CASE a.go /\ BeginExit(s, a.st)
  <2> DEFINE st == [a.st EXCEPT !.status = "exit_working"]
  <2>1. a.st.status = "open" /\ BeginClear(s, st)
    BY <1>11 DEF BeginExit
  <2>2. /\ st \in StateRecord /\ st.status = "exit_working" /\ st.filled = a.st.filled
        /\ st.exitFilled = a.st.exitFilled /\ st.exitSeen = a.st.exitSeen
        /\ st.exitOrder = a.st.exitOrder /\ st.entryOrder = a.st.entryOrder
    BY <1>3, StatusFields DEF Statuses
  <2>3. a.st.filled > 0 /\ (orders[s] # <<>> => a.st.filled = orders[s][1].filled)
    BY <1>2, <2>1 DEF Fair, EntryLane
  <2>4. Fair(st, orders[s]) /\ (Exact(a.st, orders[s]) => Exact(st, orders[s]))
    <3>1. "exit_working" \in Statuses
      BY DEF Statuses
    <3>2. a.st.status # "closed"
      BY <2>1
    <3> QED BY <1>2, <1>3, <2>3, <3>1, <3>2, StatusFair
  <2> HIDE DEF st
  <2>5. Fit(s, st)
    <3>1. Sane(st, orders[s])
      BY <1>3, <2>1, <2>2 DEF Sane
    <3>2. Adoptable(s) => Room(st, orders[s], Old(s), lane[s])
      BY <1>3, <2>1, <2>2 DEF Fit, Room, Entered, EntryLane
    <3> QED BY <2>2, <3>1, <3>2 DEF Fit
  <2>6. s \notin orphaned => st.exitFilled = SoldOf(orders[s]) /\ ~(Last(s) > 1)
    <3> SUFFICES ASSUME s \notin orphaned
                 PROVE  st.exitFilled = SoldOf(orders[s]) /\ ~(Last(s) > 1)
      OBVIOUS
    <3>1. /\ Len(orders[s]) <= 1 /\ Counted(a.st, orders[s]) = SoldOf(orders[s])
          /\ a.st.exitOrder = 0
      BY <1>2, <1>3, <1>5, <2>1 DEF Exact
    <3>2. a.st.exitSeen = 0 /\ a.st.exitFilled \in Nat
      BY <1>3, <3>1, StateFields DEF Sane
    <3>3. Counted(a.st, orders[s]) = a.st.exitFilled
      BY <3>1, <3>2 DEF Counted, FillOf
    <3> QED BY <1>5, <2>2, <3>1, <3>3
  <2> QED BY <1>2, <1>8, <2>1, <2>2, <2>4, <2>5, <2>6
<1>12. CASE a.go /\ Reprice(s, a.st, a.t)
  BY <1>7, <1>12 DEF Reprice
<1>13. CASE a.go /\ Replace(s, a.st, a.t)
  <2>1. a.st.status = "exit_working" /\ (a.t = 0 \/ seen[s][a.t].done) /\ BeginClear(s, a.st)
    BY <1>13 DEF Replace
  <2>2. Settled(s, a.st)
    BY <1>2, <1>13, <2>1
  <2>3. Last(s) > 1 => orders[s][Last(s)].done
    BY <1>5, <2>2 DEF Settled
  <2>4. s \notin orphaned => a.st.exitFilled = SoldOf(orders[s])
    BY <1>2, <2>1, <2>2 DEF Settled, Exact
  <2> QED BY <1>2, <1>3, <1>8, <2>1, <2>3, <2>4
<1> QED BY <1>1, <1>6, <1>9, <1>10, <1>11, <1>12, <1>13 DEF broker

LEMMA CancelConfirmedSession ==
  ASSUME IInv, SInv, aged = {}, NEW s \in Sids, CancelConfirmed(s)
  PROVE  SInv'
<1> DEFINE h == held[s]
           q == seen[s][h].filled
           st == IF h = 1 THEN mem[s] ELSE DrainExit(mem[s], h, q)
           os == orders[s]
<1>0. /\ pc = "cancel" /\ cur = s /\ seen[s][h].done
      /\ resolve' = resolve /\ orphaned' = orphaned
      /\ \/ Finish(s, st) /\ UNCHANGED <<broker, spent>>
         \/ h # 1 /\ OpenQty(st) > 0 /\ HoldingsOK(s, st) /\ BeginClear(s, st)
  BY DEF CancelConfirmed
<1>1. /\ mem[s] \in StateRecord /\ os \in Seq(OrderRecord) /\ Bounded(os) /\ SessionOf(s)
      /\ Sane(mem[s], os) /\ h # 0 /\ h \in DOMAIN os
      /\ h # 1 => /\ mem[s].status = "exit_working" /\ mem[s].exitOrder = h /\ h = Last(s)
      /\ seen[s][h] = os[h]
  <2>1. /\ Course /\ AgedOf(s) /\ BookOf(s) /\ SessionOf(s)
    BY DEF IInv, SInv
  <2>2. h # 0 /\ h \in DOMAIN os
        /\ (h # 1 => mem[s].status = "exit_working" /\ mem[s].exitOrder = h /\ h = Last(s))
    BY <1>0, <2>1 DEF Course, AgedOf
  <2> QED BY <1>0, <2>1, <2>2, Shape DEF BookOf
<1>2. q = os[h].filled /\ q \in Nat
  BY <1>1, OrdersShape
<1>3. Fair(mem[s], os) /\ (s \notin orphaned => Exact(mem[s], os))
  BY <1>1 DEF SessionOf
<1>4. CASE h = 1
  <2>1. Finish(s, mem[s]) /\ orders' = orders
    BY <1>0, <1>4 DEF broker
  <2>2. mem' = [mem EXCEPT ![s] = mem[s]] /\ book' = mem' /\ pc' \in {"tick", "idle"}
    BY <2>1 DEF Finish
  <2> QED BY <1>0, <1>3, <2>1, <2>2, TickSession
<1>5. CASE h # 1
  <2>1. st = DrainExit(mem[s], h, q)
    BY <1>5
  <2>2. /\ st \in StateRecord /\ Sane(st, os) /\ st.status = mem[s].status
        /\ st.filled = mem[s].filled /\ st.exitOrder = h
    <3> HIDE DEF st, h, q
    <3> QED BY <1>1, <1>2, <1>5, <2>1, DrainExitSane DEF q, h
  <2>3. /\ Counted(st, os) = Counted(mem[s], os) /\ Counted(st, os) = st.exitFilled
        /\ Unknown(st, os) = Unknown(mem[s], os)
    <3>1. q <= os[h].filled
      BY <1>2
    <3> HIDE DEF st, h, q
    <3>2. Counted(st, os) = Counted(mem[s], os) /\ Counted(st, os) = st.exitFilled
      BY <1>1, <1>2, <1>5, <2>1, <3>1, DrainCounts DEF q, h
    <3> QED BY <1>1, <1>5, <2>2, <3>2 DEF Unknown
  <2> HIDE DEF st
  <2>4. Fair(st, os) /\ (s \notin orphaned => Exact(st, os))
    BY <1>1, <1>3, <1>5, <2>2, <2>3 DEF Fair, Exact
  <2>5. CASE Finish(s, st) /\ UNCHANGED <<broker, spent>>
    <3>1. mem' = [mem EXCEPT ![s] = st] /\ book' = mem' /\ pc' \in {"tick", "idle"}
          /\ orders' = orders
      BY <2>5 DEF Finish, broker
    <3> QED BY <1>0, <2>4, <3>1, TickSession
  <2>6. CASE BeginClear(s, st)
    <3> DEFINE r == WithOutside(s, st)
    <3>1. /\ mem' = [mem EXCEPT ![s] = r] /\ book' = book /\ pc' = "clear" /\ cur' = s
          /\ orders' = orders
      BY <2>6 DEF BeginClear, broker
    <3>2. /\ r.status = st.status /\ r.filled = st.filled /\ r.exitFilled = st.exitFilled
          /\ r.exitSeen = st.exitSeen /\ r.exitOrder = st.exitOrder
      BY <2>2 DEF WithOutside, StateRecord
    <3> HIDE DEF r
    <3>3. Counted(r, os) = Counted(st, os) /\ Unknown(r, os) = Unknown(st, os)
      BY <3>2, SameCounts
    <3>4. Fair(r, os) /\ (s \notin orphaned => Exact(r, os))
      BY <2>4, <3>2, <3>3 DEF Fair, Exact
    <3>5. s \notin orphaned => r.exitFilled = SoldOf(os)
      BY <1>1, <1>5, <2>2, <2>3, <2>4, <3>2 DEF Exact
    <3>6. os[Last(s)].done
      BY <1>0, <1>1, <1>5
    <3> QED BY <1>0, <3>1, <3>4, <3>5, <3>6, TickSession
  <2> QED BY <1>0, <2>5, <2>6
<1> QED BY <1>4, <1>5

LEMMA FinishSession ==
  ASSUME IInv, SInv, NEW s \in Sids,
         \/ SkipStructure(s)
         \/ CancelUnconfirmed(s)
         \/ ClearRefused(s)
         \/ SavePlaced(s)
  PROVE  SInv'
<1>1. Finish(s, mem[s]) /\ orders' = orders /\ resolve' = resolve /\ orphaned' = orphaned
  BY DEF SkipStructure, CancelUnconfirmed, ClearRefused, SavePlaced, broker
<1>2. mem' = [mem EXCEPT ![s] = mem[s]] /\ book' = mem' /\ pc' \in {"tick", "idle"}
  BY <1>1 DEF Finish
<1>3. Fair(mem[s], orders[s]) /\ (s \notin orphaned => Exact(mem[s], orders[s]))
  BY DEF SInv, SessionOf
<1> QED BY <1>1, <1>2, <1>3, TickSession

\* A new close fits into what the structure has left.
LEMMA PlaceCloseSession ==
  ASSUME IInv, SInv, NEW s \in Sids, PlaceClose(s)
  PROVE  SInv'
<1> DEFINE n == Len(orders[s]) + 1
           order == NewOrder(OpenQty(mem[s]))
           os == orders[s]
           ns == Append(os, order)
           m == mem[s]
           st == [m EXCEPT !.exitOrder = n, !.exitSeen = 0]
<1>0. /\ TypeOK /\ Course /\ SessionOf(s) /\ BookOf(s)
  BY DEF IInv, SInv
<1>1. /\ pc = "clear" /\ cur = s /\ pc' = "placed" /\ cur' = cur
      /\ orders' = [orders EXCEPT ![s] = ns] /\ mem' = [mem EXCEPT ![s] = st]
      /\ UNCHANGED <<book, resolve, orphaned>>
  <2>1. mem' = [mem EXCEPT ![s].exitOrder = n, ![s].exitSeen = 0]
    BY DEF PlaceClose
  <2>2. mem' = [mem EXCEPT ![s] = st]
    BY <1>0, <2>1 DEF TypeOK
  <2> QED BY <2>2 DEF PlaceClose
<1>2. /\ m.status = "exit_working" /\ OpenQty(m) > 0 /\ book[s].status # "closed"
      /\ Sane(m, os) /\ Sane(book[s], os)
      /\ m \in StateRecord /\ book[s] \in StateRecord /\ os \in Seq(OrderRecord)
  BY <1>0, <1>1, Shape DEF Course, BookOf
<1>3. /\ os # <<>> /\ m.filled = os[1].filled /\ m.filled > 0
      /\ m.filled \in Nat /\ m.exitFilled \in Nat /\ os[1].filled \in Nat
  <2>1. os # <<>>
    BY <1>2 DEF Sane
  <2> QED BY <1>0, <1>2, <2>1, StateFields, OrdersShape DEF SessionOf, Fair, EntryLane
<1>4. /\ order \in OrderRecord /\ order.filled = 0 /\ order.qty = m.filled - m.exitFilled
  BY <1>2, <1>3 DEF NewOrder, OrderRecord, OpenQty
<1> HIDE DEF order
<1>5. /\ ns \in Seq(OrderRecord) /\ Len(ns) = n /\ ns[n] = order /\ ns # <<>>
      /\ \A o \in DOMAIN os : ns[o] = os[o] /\ o < n
      /\ n \in Nat /\ n > 1 /\ 1 \in DOMAIN os
  BY <1>2, <1>3, <1>4, AppendShape, OrdersShape
<1>6. SoldOf(ns) = SoldOf(os) /\ SoldOf(os) \in Int
  <2>1. SoldOf(ns) = SoldOf(os) + order.filled
    BY <1>2, <1>3, <1>4, SoldAppend
  <2>2. SoldOf(os) \in Int
    BY <1>2, SoldTerms
  <2> QED BY <1>4, <2>1, <2>2
<1>7. /\ st.status = "exit_working" /\ st.filled = m.filled /\ st.exitFilled = m.exitFilled
      /\ st.exitOrder = n /\ st.exitSeen = 0
  BY <1>2 DEF StateRecord
<1> HIDE DEF n, ns, st
<1>8. Counted(st, ns) = m.exitFilled /\ Unknown(st, ns) = 0
  <2>1. FillOf(ns, st.exitOrder) = 0
    BY <1>4, <1>5, <1>7 DEF FillOf
  <2> QED BY <1>3, <1>5, <1>7, <2>1 DEF Counted, Unknown
<1>9. Counted(book[s], ns) = Counted(book[s], os) /\ Unknown(book[s], ns) = 0
  <2>1. FillOf(ns, book[s].exitOrder) = FillOf(os, book[s].exitOrder)
    BY <1>2, <1>5 DEF FillOf, Sane
  <2> QED BY <1>4, <1>5, <2>1 DEF Counted, Unknown
<1>10. m.exitFilled <= SoldOf(os)
  <2> DEFINE c == Counted(m, os)
             u == Unknown(m, os)
             k == SoldOf(os)
  <2>1. m.exitFilled <= c /\ c \in Int /\ u \in Nat /\ k \in Int /\ c + u <= k /\ m.exitFilled \in Nat
    BY <1>0, <1>2, <1>3, CountedFacts DEF SessionOf, Fair
  <2> HIDE DEF c, u, k
  <2>2. m.exitFilled <= k
    BY <2>1
  <2> QED BY <2>2 DEF k
<1>11. Fair(st, ns)
  BY <1>3, <1>5, <1>6, <1>7, <1>8, <1>10 DEF Fair
<1>12. Fair(book[s], ns)
  <2> DEFINE c == Counted(book[s], os)
             u == Unknown(book[s], os)
             k == SoldOf(os)
  <2>1. c \in Int /\ u \in Nat /\ k \in Int /\ c + u <= k
    BY <1>0, <1>2, CountedFacts DEF SessionOf, Fair
  <2> HIDE DEF c, u, k
  <2>2. c + 0 <= k
    BY <2>1
  <2>3. Counted(book[s], ns) + Unknown(book[s], ns) <= SoldOf(ns)
    BY <1>6, <1>9, <2>2 DEF c, k
  <2>4. book[s].status \notin EntryLane => book[s].filled = ns[1].filled
    BY <1>0, <1>3, <1>5 DEF SessionOf, Fair
  <2>5. book[s].status \in {"open", "exit_working"} => book[s].filled > 0
    BY <1>0 DEF SessionOf, Fair
  <2> QED BY <1>2, <2>3, <2>4, <2>5 DEF Fair
<1>13. s \notin orphaned => Exact(st, ns) /\ Within(ns)
  <2> SUFFICES ASSUME s \notin orphaned PROVE Exact(st, ns) /\ Within(ns)
    OBVIOUS
  <2>1. m.exitFilled = SoldOf(os)
    BY <1>0, <1>1 DEF SessionOf
  <2>2. SoldOf(ns) - order.filled + order.qty <= ns[1].filled
    BY <1>3, <1>4, <1>5, <1>6, <2>1
  <2> QED BY <1>5, <1>6, <1>7, <1>8, <2>1, <2>2 DEF Exact, Within
<1>14. orders'[s] = ns /\ mem'[s] = st
       /\ \A x \in Sids \ {s} : orders'[x] = orders[x] /\ mem'[x] = mem[x]
  BY <1>0, <1>1 DEF TypeOK
<1> SUFFICES ASSUME NEW x \in Sids PROVE SessionOf(x)'
  BY DEF SInv
<1>15. CASE x = s
  <2>1. Placing(s)' /\ ~(pc' = "clear")
    BY <1>1 DEF Placing
  <2>2. s \in resolve' => ns # <<>> /\ ns[1].done /\ ns[1].filled <= SoldOf(ns)
    BY <1>0, <1>1, <1>5, <1>6 DEF SessionOf
  <2> QED BY <1>1, <1>11, <1>12, <1>13, <1>14, <1>15, <2>1, <2>2 DEF SessionOf
<1>16. CASE x # s
  <2>1. SessionOf(x) /\ ~Placing(x) /\ ~Placing(x)' /\ ~(pc' = "clear")
    BY <1>1, <1>16 DEF SInv, Placing
  <2> QED BY <1>1, <1>14, <1>16, <2>1 DEF SessionOf
<1> QED BY <1>15, <1>16

\* An open order moves on: the states count along.
LEMMA MoveFair ==
  ASSUME NEW st \in StateRecord, NEW os \in Seq(OrderRecord), Sane(st, os), Fair(st, os),
         NEW o \in DOMAIN os, o = Len(os), ~os[o].done,
         NEW r \in OrderRecord, os[o].filled <= r.filled,
         NEW ns, Changed(os, o, r, ns)
  PROVE  /\ Fair(st, ns) /\ (Exact(st, os) => Exact(st, ns))
         /\ st.status # "closed" /\ (st.status \in {"open", "exit_working"} => o # 1)
<1>1. /\ ns \in Seq(OrderRecord) /\ DOMAIN ns = DOMAIN os /\ Len(ns) = Len(os)
      /\ ns[o] = r /\ \A x \in DOMAIN os : x # o => ns[x] = os[x]
      /\ o > 1 => SoldOf(ns) = SoldOf(os) - os[o].filled + r.filled
      /\ o <= 1 => SoldOf(ns) = SoldOf(os)
  <2>1. /\ o > 1 => SoldOf(ns) = SoldOf(os) - os[o].filled + r.filled
        /\ o <= 1 => SoldOf(ns) = SoldOf(os)
    BY SoldChange
  <2>2. /\ ns \in Seq(OrderRecord) /\ DOMAIN ns = DOMAIN os /\ Len(ns) = Len(os)
        /\ ns[o] = r /\ \A x \in DOMAIN os : x # o => ns[x] = os[x]
    BY DEF Changed
  <2> QED BY <2>1, <2>2
<1>2. /\ st.status # "closed" /\ (st.status \in {"open", "exit_working"} => o # 1)
      /\ st.status \in Statuses
  BY StateFields DEF Sane
<1>3. /\ o \in Nat /\ o > 0 /\ os # <<>> /\ 1 \in DOMAIN os
      /\ os[o].filled \in Nat /\ r.filled \in Nat /\ st.exitOrder \in Nat /\ st.exitOrder # 1
      /\ st.exitFilled \in Nat /\ st.exitSeen \in Nat
      /\ st.exitOrder # 0 => st.exitOrder \in DOMAIN os
      /\ Len(os) \in Nat /\ \A x \in DOMAIN os : x \in Nat /\ x <= Len(os)
  BY OrdersShape, StateFields DEF Sane, OrderRecord
<1>4. /\ Counted(st, os) \in Int /\ Unknown(st, os) \in Nat /\ SoldOf(os) \in Int
      /\ Counted(st, os) + Unknown(st, os) <= SoldOf(os)
  BY <1>2, CountedFacts DEF Fair
<1> DEFINE f == os[o].filled
           g == r.filled
           c == Counted(st, os)
           u == Unknown(st, os)
           k == SoldOf(os)
           c1 == Counted(st, ns)
           u1 == Unknown(st, ns)
           k1 == SoldOf(ns)
<1>5. CASE o = 1
  <2>1. st.exitOrder = 0
    BY <1>3, <1>5
  <2>2. c1 = c /\ u1 = 0 /\ u = 0 /\ k1 = k
    BY <1>1, <1>3, <1>5, <2>1 DEF Counted, Unknown, FillOf
  <2>3. c1 + u1 <= k1 /\ (c = k => c1 = k1)
    BY <1>4, <2>2
  <2> HIDE DEF c, u, k, c1, u1, k1
  <2>4. Fair(st, ns)
    BY <1>2, <1>5, <2>3 DEF Fair, Statuses, EntryLane, c1, u1, k1
  <2>5. Exact(st, os) => Exact(st, ns)
    BY <1>1, <1>2, <2>3 DEF Exact, c, k, c1, k1
  <2> QED BY <1>2, <2>4, <2>5
<1>6. CASE o > 1
  <2>1. k1 = k - f + g
    BY <1>1, <1>6
  <2>4. c1 + u1 <= k1 /\ (Exact(st, os) => (c = k => c1 = k1))
    <3>2. CASE st.exitOrder = o
      <4>1. FillOf(os, st.exitOrder) = f /\ FillOf(ns, st.exitOrder) = g
        BY <1>1, <1>3, <3>2 DEF FillOf
      <4>2. c1 = c - f + g
        <5>1. c = st.exitFilled - st.exitSeen + f /\ c1 = st.exitFilled - st.exitSeen + g
          BY <4>1 DEF Counted
        <5> HIDE DEF c, c1
        <5> QED BY <1>3, <5>1
      <4>3. u1 = 0 /\ u = 0
        BY <1>1, <3>2 DEF Unknown
      <4> HIDE DEF c, u, k, c1, u1, k1, f, g
      <4>4. c1 + u1 <= k1 /\ (c = k => c1 = k1)
        <5>1. c \in Int /\ k \in Int /\ f \in Nat /\ g \in Nat /\ c + u <= k
          BY <1>3, <1>4 DEF c, u, k, f, g
        <5> QED BY <2>1, <4>2, <4>3, <5>1
      <4> QED BY <4>4
    <3>3. CASE st.exitOrder # o
      <4>1. c1 = c
        BY <1>1, <1>3, <3>3 DEF Counted, FillOf
      <4>2. u1 = g /\ u = f
        BY <1>1, <1>3, <1>6, <3>3 DEF Unknown
      <4> HIDE DEF c, u, k, c1, u1, k1, f, g
      <4>3. c1 + u1 <= k1
        <5>1. c \in Int /\ k \in Int /\ f \in Nat /\ g \in Nat /\ c + u <= k
          BY <1>3, <1>4 DEF c, u, k, f, g
        <5> QED BY <2>1, <4>1, <4>2, <5>1
      <4>4. ~Exact(st, os)
        BY <1>2, <1>3, <1>6, <3>3 DEF Exact
      <4> QED BY <4>3, <4>4
    <3> QED BY <3>2, <3>3
  <2> HIDE DEF c, u, k, c1, u1, k1
  <2>5. ns[1] = os[1]
    BY <1>1, <1>3, <1>6
  <2>6. Fair(st, ns)
    BY <1>2, <1>3, <2>4, <2>5 DEF Fair, c1, u1, k1
  <2>7. Exact(st, os) => Exact(st, ns)
    BY <1>1, <1>2, <2>4 DEF Exact, c, k, c1, k1
  <2> QED BY <1>2, <2>6, <2>7
<1> QED BY <1>3, <1>5, <1>6

LEMMA OrderMovesSession ==
  ASSUME IInv, SInv, NEW s \in Sids, NEW o \in DOMAIN orders[s], ~orders[s][o].done,
         NEW r \in OrderRecord, r.qty = orders[s][o].qty, orders[s][o].filled <= r.filled,
         orders' = [orders EXCEPT ![s] = [orders[s] EXCEPT ![o] = r]],
         UNCHANGED <<book, mem, pc, cur, resolve, orphaned>>
  PROVE  SInv'
<1> DEFINE os == orders[s]
           ns == [os EXCEPT ![o] = r]
<1>1. /\ os \in Seq(OrderRecord) /\ mem[s] \in StateRecord /\ book[s] \in StateRecord
      /\ Sane(mem[s], os) /\ Sane(book[s], os) /\ SessionOf(s) /\ BrokerOf(s) /\ Course
      /\ orders'[s] = ns /\ \A x \in Sids \ {s} : orders'[x] = orders[x]
  BY Shape DEF IInv, TypeOK, SInv, BookOf
<1>2. /\ Len(os) \in Nat /\ Len(os) \in DOMAIN os /\ os # <<>> /\ 1 \in DOMAIN os
      /\ o \in Nat /\ o > 0 /\ o <= Len(os) /\ os[o].filled \in Nat /\ r.filled \in Nat
      /\ os[o].qty \in Nat
  BY <1>1, OrdersShape DEF OrderRecord
<1>3. o = Len(os)
  <2>1. ~(o < Len(os))
    BY <1>1, <1>2 DEF BrokerOf
  <2> QED BY <1>2, <2>1
<1>4. /\ ns \in Seq(OrderRecord) /\ DOMAIN ns = DOMAIN os /\ Len(ns) = Len(os)
      /\ ns[o] = r /\ \A x \in DOMAIN os : x # o => ns[x] = os[x]
      /\ SoldOf(os) \in Int
      /\ o > 1 => SoldOf(ns) = SoldOf(os) - os[o].filled + r.filled
      /\ o <= 1 => SoldOf(ns) = SoldOf(os)
  <2>1. os \in Seq(OrderRecord) /\ o \in DOMAIN os
    BY <1>1
  <2>2. Changed(os, o, r, ns)
    BY <2>1, ChangedIs
  <2> HIDE DEF ns, os
  <2>3. SoldOf(os) \in Int /\ (o > 1 => SoldOf(ns) = SoldOf(os) - os[o].filled + r.filled)
        /\ (o <= 1 => SoldOf(ns) = SoldOf(os))
    BY <2>1, <2>2, SoldChange
  <2> QED BY <2>1, <2>2, <2>3 DEF Changed
<1>c. Changed(os, o, r, ns)
  BY <1>1, ChangedIs
<1> HIDE DEF ns
<1>5. /\ Fair(mem[s], ns) /\ (Exact(mem[s], os) => Exact(mem[s], ns))
      /\ Fair(book[s], ns) /\ (Exact(book[s], os) => Exact(book[s], ns))
      /\ mem[s].status \in {"open", "exit_working"} => o # 1
  BY <1>1, <1>3, <1>c, MoveFair DEF SessionOf
<1>6. s \in resolve => ns # <<>> /\ ns[1].done /\ ns[1].filled <= SoldOf(ns)
  <2> SUFFICES ASSUME s \in resolve PROVE ns # <<>> /\ ns[1].done /\ ns[1].filled <= SoldOf(ns)
    OBVIOUS
  <2>1. os[1].done /\ os[1].filled <= SoldOf(os)
    BY <1>1 DEF SessionOf
  <2>2. o # 1
    BY <2>1
  <2>3. ns[1] = os[1] /\ os[1].filled \in Nat /\ SoldOf(ns) = SoldOf(os) - os[o].filled + r.filled
    BY <1>1, <1>2, <1>4, <2>2, OrdersShape
  <2>4. ns # <<>>
    BY <1>2, <1>4, OrdersShape
  <2>5. SoldOf(os) <= SoldOf(ns)
    BY <1>2, <1>4, <2>3
  <2> QED BY <1>2, <1>4, <2>1, <2>3, <2>4, <2>5
<1>7. Within(os) => Within(ns)
  <2> SUFFICES ASSUME Within(os), Len(ns) > 1
               PROVE  SoldOf(ns) - ns[Len(ns)].filled + ns[Len(ns)].qty <= ns[1].filled
    BY DEF Within
  <2>1. o > 1 /\ ns[Len(ns)] = r /\ ns[1] = os[1]
    BY <1>2, <1>3, <1>4
  <2>2. SoldOf(os) - os[o].filled + os[o].qty <= os[1].filled
    BY <1>3, <1>4 DEF Within
  <2>3. SoldOf(ns) - r.filled = SoldOf(os) - os[o].filled
    BY <1>2, <1>4, <2>1
  <2> QED BY <2>1, <2>2, <2>3
<1>8. pc = "clear" /\ cur = s => s \in orphaned
  <2> SUFFICES ASSUME pc = "clear", cur = s, s \notin orphaned PROVE FALSE
    OBVIOUS
  <2>1. o # 1
    BY <1>1, <1>5 DEF Course
  <2>2. os[Len(os)].done
    <3>1. Last(s) > 1
      <4>1. Last(s) = o
        BY <1>3 DEF Last
      <4> HIDE DEF os
      <4> QED BY <1>2, <2>1, <4>1
    <3>2. Last(s) > 1 => os[Last(s)].done
      BY <1>1 DEF SessionOf
    <3> QED BY <3>1, <3>2 DEF Last
  <2> QED BY <1>3, <2>2
<1> SUFFICES ASSUME NEW x \in Sids PROVE SessionOf(x)'
  BY DEF SInv
<1>9. CASE x = s
  <2>1. Placing(s)' <=> Placing(s)
    BY DEF Placing
  <2> QED BY <1>1, <1>5, <1>6, <1>7, <1>8, <1>9, <2>1 DEF SessionOf
<1>10. CASE x # s
  <2>1. SessionOf(x) /\ (Placing(x)' <=> Placing(x)) /\ Last(x)' = Last(x) /\ orders'[x] = orders[x]
    BY <1>1, <1>10 DEF SInv, Placing, Last
  <2> QED BY <2>1 DEF SessionOf
<1> QED BY <1>9, <1>10

LEMMA MarketStepSession ==
  ASSUME IInv, SInv, NEW s \in Sids, NEW o \in DOMAIN orders[s],
         Fill(s, o) \/ CancelLands(s, o) \/ Dies(s, o)
  PROVE  SInv'
<1> DEFINE w == orders[s][o]
<1>0. /\ TypeOK /\ orders[s] \in Seq(OrderRecord)
  BY Shape DEF IInv
<1>1. w \in OrderRecord /\ w.qty \in Nat /\ w.filled \in Nat
  BY <1>0, OrdersShape
<1>2. CASE Fill(s, o)
  <2> DEFINE n == w.filled + 1
             r == [w EXCEPT !.filled = n, !.done = (n = w.qty)]
  <2>1. /\ ~w.done
        /\ orders' = [orders EXCEPT ![s][o].filled = n, ![s][o].done = (n = w.qty)]
        /\ UNCHANGED <<book, mem, pc, cur, resolve, orphaned>>
    BY <1>2 DEF Fill, Working, views, ticking
  <2>2. n \in Nat /\ w.filled <= n
    BY <1>1
  <2>3. r \in OrderRecord /\ r.qty = w.qty /\ r.filled = n
    <3> HIDE DEF n, w
    <3> QED BY <1>1, <2>2 DEF OrderRecord
  <2>4. orders' = [orders EXCEPT ![s] = [orders[s] EXCEPT ![o] = r]]
    BY <1>0, <2>1 DEF TypeOK
  <2>5. w.filled <= r.filled
    BY <2>2, <2>3
  <2>6. /\ ~w.done /\ UNCHANGED <<book, mem, pc, cur, resolve, orphaned>>
        /\ r \in OrderRecord /\ r.qty = w.qty
    BY <2>1, <2>3
  <2> HIDE DEF r, n
  <2> QED BY <2>4, <2>5, <2>6, OrderMovesSession
<1>3. CASE CancelLands(s, o) \/ Dies(s, o)
  <2> DEFINE r == [w EXCEPT !.done = TRUE]
  <2>1. /\ ~w.done
        /\ orders' = [orders EXCEPT ![s][o].done = TRUE]
        /\ UNCHANGED <<book, mem, pc, cur, resolve, orphaned>>
    BY <1>3 DEF CancelLands, Dies, Working, views, ticking
  <2>2. r \in OrderRecord /\ r.qty = w.qty /\ r.filled = w.filled
    <3>1. r = [w EXCEPT !.done = TRUE]
      OBVIOUS
    <3> HIDE DEF w, r
    <3> QED BY <1>1, <3>1, DoneFields
  <2>3. orders' = [orders EXCEPT ![s] = [orders[s] EXCEPT ![o] = r]]
    BY <1>0, <2>1 DEF TypeOK
  <2>4. w.filled <= r.filled
    <3> HIDE DEF w, r
    <3> QED BY <1>1, <2>2
  <2>5. ~w.done /\ UNCHANGED <<book, mem, pc, cur, resolve, orphaned>>
    BY <2>1
  <2> HIDE DEF r
  <2> QED BY <2>2, <2>3, <2>4, <2>5, OrderMovesSession
<1> QED BY <1>2, <1>3

LEMMA SendSession ==
  ASSUME IInv, SInv, NEW s \in Sids, Send(s) \/ SendDies(s)
  PROVE  SInv'
<1> DEFINE w == NewOrder(Quantity[s])
           ns == <<w>>
<1>0. /\ TypeOK /\ SessionOf(s) /\ DocOf(s) /\ BookOf(s) /\ book[s] \in StateRecord
  BY DEF IInv, SInv, TypeOK
<1>1. /\ pc = "idle" /\ doc[s] = "pending" /\ ~lapsed[s] /\ pc' \in {"idle", "down"}
      /\ orders' = orders \/ orders' = [orders EXCEPT ![s] = ns]
      /\ UNCHANGED <<book, mem, resolve, orphaned>>
  BY DEF Send, SendDies, Idle, EnterOrder, ticking
<1>2. \A x \in Sids : ~Placing(x)
  BY <1>1 DEF Placing
<1>3. CASE orders' = orders
  BY <1>1, <1>2, <1>3, StillSession
<1>4. CASE orders' = [orders EXCEPT ![s] = ns]
  <2>1. orders[s] = <<>>
    BY <1>0, <1>1 DEF DocOf
  <2>2. book[s].status # "closed" /\ Sane(book[s], orders[s]) /\ mem[s] = book[s] /\ s \notin resolve
    BY <1>0, <1>1, <2>1 DEF BookOf, GivenUp, Busy, SessionOf
  <2>3. book[s].status = "planned"
    BY <1>0, <2>1, <2>2 DEF Sane
  <2>4. /\ book[s].status = "planned" /\ book[s].exitOrder = 0
        /\ book[s].exitFilled = 0 /\ book[s].exitSeen = 0
    <3>1. book[s] = NewState
      BY <2>2, <2>3 DEF Sane
    <3> QED BY <3>1 DEF NewState
  <2>5. ns \in Seq(OrderRecord) /\ Len(ns) = 1 /\ Len(ns) <= 1 /\ ns # <<>>
    <3>1. w \in OrderRecord
      BY ScenarioAssumption DEF NewOrder, OrderRecord
    <3> HIDE DEF w
    <3> QED BY <3>1
  <2> HIDE DEF ns
  <2>6. SoldOf(ns) = 0
    BY <2>5, SoldNone
  <2>7. Counted(book[s], ns) = 0 /\ Unknown(book[s], ns) = 0
    BY <2>4, <2>5 DEF Counted, Unknown, FillOf
  <2>8. Fair(book[s], ns) /\ Exact(book[s], ns) /\ Within(ns)
    BY <2>4, <2>5, <2>6, <2>7 DEF Fair, Exact, Within, EntryLane
  <2> SUFFICES ASSUME NEW x \in Sids PROVE SessionOf(x)'
    BY DEF SInv
  <2>9. CASE x = s
    <3>1. orders'[s] = ns /\ mem'[s] = book[s] /\ book'[s] = book[s] /\ s \notin resolve' /\ pc' # "clear"
      BY <1>0, <1>1, <1>4, <2>2 DEF TypeOK
    <3> QED BY <2>8, <2>9, <3>1 DEF SessionOf
  <2>10. CASE x # s
    <3>1. orders'[x] = orders[x] /\ SessionOf(x) /\ pc' # "clear"
      BY <1>0, <1>1, <1>4, <2>10 DEF TypeOK, SInv
    <3> QED BY <1>1, <1>2, <3>1 DEF SessionOf
  <2> QED BY <2>9, <2>10
<1> QED BY <1>1, <1>3, <1>4

LEMMA ConfirmFlatSession ==
  ASSUME IInv, SInv, NEW s \in Sids, ConfirmFlat(s)
  PROVE  SInv'
<1>0. /\ TypeOK /\ BookOf(s) /\ orders[s] \in Seq(OrderRecord)
  BY DEF IInv, TypeOK
<1>1. /\ book[s].status = "exit_working" /\ Net(s) = 0 /\ resolve' = resolve \cup {s}
      /\ UNCHANGED <<book, mem, orders, pc, cur, orphaned>>
  BY DEF ConfirmFlat, broker, ticking
<1>2. orders[s] # <<>> /\ orders[s][1].done
  BY <1>0, <1>1 DEF BookOf, Sane
<1>3. orders[s][1].filled <= SoldOf(orders[s])
  <2>1. orders[s][1].filled \in Nat /\ SoldOf(orders[s]) \in Int
    BY <1>0, <1>2, OrdersShape, SoldTerms
  <2>2. orders[s][1].filled - SoldOf(orders[s]) = 0
    BY <1>1, <1>2, RestingIs DEF Net, Bought
  <2> QED BY <2>1, <2>2
<1> SUFFICES ASSUME NEW x \in Sids PROVE SessionOf(x)'
  BY DEF SInv
<1>4. SessionOf(x) /\ (Placing(x)' <=> Placing(x)) /\ Last(x)' = Last(x)
  BY <1>1 DEF SInv, Placing, Last
<1> QED BY <1>1, <1>2, <1>3, <1>4 DEF SessionOf

LEMMA QuietSession ==
  ASSUME SInv,
         \/ \E kills \in KillSets : TickBegin(kills)
         \/ \E s \in Sids : \/ SeeOrders(s) \/ RecordIntent(s) \/ Lapse(s) \/ Register(s)
                            \/ Recover(s) \/ Reconcile(s)
         \/ \E c \in Contracts : SeePosition(c)
         \/ Crash
         \/ Restart
         \/ UNCHANGED vars
  PROVE  SInv'
<1>1. CASE \E kills \in KillSets : TickBegin(kills)
  BY <1>1, StillSession DEF TickBegin, Idle, Placing, broker
<1>2. CASE \/ \E s \in Sids : \/ SeeOrders(s) \/ RecordIntent(s) \/ Lapse(s) \/ Register(s)
                              \/ Recover(s) \/ Reconcile(s)
           \/ \E c \in Contracts : SeePosition(c)
           \/ UNCHANGED vars
  BY <1>2, StillSession DEF SeeOrders, RecordIntent, Lapse, Register, Recover, Reconcile,
     SeePosition, broker, ticking, vars
<1>3. CASE Crash
  BY <1>3, StillSession DEF Crash, Placing, broker
<1>4. CASE Restart
  BY <1>4, StillSession DEF Restart, Placing, broker
<1> QED BY <1>1, <1>2, <1>3, <1>4

\* The session's evidence is complete as long as no night has passed.
LEMMA NoNight ==
  ASSUME IInv, [Next]_vars, aged' = {}
  PROVE  aged = {} /\ ~NewDay
<1>1. CASE NewDay
  <2>1. /\ aged' = UNION {{s} \X DOMAIN orders[s] : s \in Sids} /\ aged' # aged
        /\ aged \subseteq Sids \X Nat /\ \A s \in Sids : AgedOf(s)
    BY <1>1 DEF NewDay, IInv, TypeOK
  <2>2. PICK p \in aged : TRUE
    BY <2>1
  <2>3. PICK s \in Sids, o \in Nat : p = <<s, o>>
    BY <2>1, <2>2
  <2>4. o \in DOMAIN orders[s]
    BY <2>1, <2>2, <2>3 DEF AgedOf
  <2>5. <<s, o>> \in {s} \X DOMAIN orders[s]
    BY <2>4
  <2>6. aged' # {}
    BY <2>1, <2>5
  <2> QED BY <2>6
<1>2. CASE ~NewDay
  <2>1. aged' = aged
    <3>1. CASE OwnerNext
      <4>1. ASSUME NEW s \in Sids, StructureTick(s) PROVE aged' = aged
        <5>1. \E a \in {Advance(s)} :
                 \/ UNCHANGED broker
                 \/ ActOnEntry(s, a.st, a.t)
                 \/ Hold(s, a.st)
                 \/ BeginExit(s, a.st)
                 \/ Reprice(s, a.st, a.t)
                 \/ Replace(s, a.st, a.t)
          BY <4>1 DEF StructureTick
        <5> QED BY <5>1 DEF ActOnEntry, Hold, BeginExit, Reprice, Replace, BeginCancel, BeginClear,
               broker
      <4>2. ASSUME NEW s \in Sids, CancelConfirmed(s) PROVE aged' = aged
        <5>1. UNCHANGED broker \/ \E st : BeginClear(s, st)
          BY <4>2 DEF CancelConfirmed
        <5> QED BY <5>1 DEF BeginClear, broker
      <4>3. ASSUME NEW s \in Sids,
                   \/ SkipStructure(s) \/ CancelUnconfirmed(s) \/ ClearRefused(s)
                   \/ PlaceClose(s) \/ SavePlaced(s) \/ SeeOrders(s)
            PROVE  aged' = aged
        BY <4>3 DEF SkipStructure, CancelUnconfirmed, ClearRefused, PlaceClose, SavePlaced,
           SeeOrders, broker
      <4>4. CASE \/ \E kills \in KillSets : TickBegin(kills)
                 \/ \E c \in Contracts : SeePosition(c)
                 \/ Crash
                 \/ Restart
        BY <4>4 DEF TickBegin, SeePosition, Crash, Restart, broker
      <4> QED BY <3>1, <4>1, <4>2, <4>3, <4>4 DEF OwnerNext
    <3>2. CASE EntryNext
      BY <3>2 DEF EntryNext, RecordIntent, Lapse, Register, Send, SendDies, Recover, Reconcile, broker
    <3>3. CASE MarketNext
      BY <1>2, <3>3 DEF MarketNext, Fill, CancelLands, Dies, ConfirmFlat, broker
    <3>4. CASE UNCHANGED vars
      BY <3>4 DEF vars, broker
    <3> QED BY <3>1, <3>2, <3>3, <3>4 DEF Next
  <2> QED BY <1>2, <2>1
<1> QED BY <1>1, <1>2

LEMMA InitSInv == Init => SInv
<1> SUFFICES ASSUME Init, NEW s \in Sids PROVE SessionOf(s)
  BY DEF SInv
<1>1. /\ mem = book /\ pc = "idle" /\ resolve = {} /\ orphaned = {} /\ Quantity[s] \in Nat
      /\ Quantity[s] > 0
      /\ book[s] = IF s \in spec THEN OpenState(Quantity[s]) ELSE NewState
      /\ orders[s] = IF s \in spec THEN <<FilledOrder(Quantity[s])>> ELSE <<>>
  BY ScenarioAssumption DEF Init
<1>2. orders[s] \in Seq(OrderRecord)
  BY InitIInv DEF IInv, TypeOK
<1> DEFINE st == book[s]
           os == orders[s]
<1>3. /\ st.exitOrder = 0 /\ st.exitSeen = 0 /\ st.exitFilled = 0 /\ Len(os) \in Nat /\ Len(os) <= 1
      /\ st.status \in {"planned", "open"} /\ (st.status = "open" => st.filled > 0)
      /\ st.status = "open" => st.filled = os[1].filled
  <2>1. CASE s \in spec
    <3> DEFINE n == Quantity[s]
               w == FilledOrder(n)
    <3>1. n \in Nat /\ n > 0 /\ st = OpenState(n) /\ os = <<w>> /\ w.filled = n
      BY <1>1, <2>1 DEF FilledOrder
    <3> HIDE DEF n, st, w, os
    <3>2. /\ st.status = "open" /\ st.filled = n
          /\ st.exitFilled = 0 /\ st.exitOrder = 0 /\ st.exitSeen = 0
      BY <3>1, OpenFields
    <3>3. Len(os) = 1 /\ os[1] = w
      BY <3>1
    <3> QED BY <3>1, <3>2, <3>3
  <2>2. CASE s \notin spec
    <3>1. st = NewState /\ os = <<>>
      BY <1>1, <2>2
    <3> HIDE DEF st, os
    <3> QED BY <3>1 DEF NewState
  <2> QED BY <2>1, <2>2
<1>4. SoldOf(os) = 0
  BY <1>2, <1>3, SoldNone
<1>5. Counted(st, os) = 0 /\ Unknown(st, os) = 0
  BY <1>3 DEF Counted, Unknown, FillOf
<1>6. Fair(st, os) /\ Exact(st, os) /\ Within(os)
  <2> HIDE DEF st, os
  <2> QED BY <1>3, <1>4, <1>5 DEF Fair, Exact, Within, EntryLane
<1> QED BY <1>1, <1>6 DEF SessionOf

LEMMA NextSInv ==
  ASSUME IInv, aged = {} => SInv, [Next]_vars
  PROVE  aged' = {} => SInv'
<1> SUFFICES ASSUME aged' = {} PROVE SInv'
  OBVIOUS
<1>0. aged = {} /\ SInv /\ ~NewDay
  BY NoNight
<1>1. CASE OwnerNext
  <2>1. ASSUME NEW s \in Sids,
               \/ SkipStructure(s) \/ StructureTick(s)
               \/ CancelConfirmed(s) \/ CancelUnconfirmed(s)
               \/ ClearRefused(s) \/ PlaceClose(s) \/ SavePlaced(s)
        PROVE  SInv'
    BY <1>0, <2>1, FinishSession, StructureTickSession, CancelConfirmedSession, PlaceCloseSession
  <2> QED BY <1>0, <1>1, <2>1, QuietSession DEF OwnerNext
<1>2. CASE EntryNext
  BY <1>0, <1>2, QuietSession, SendSession DEF EntryNext
<1>3. CASE MarketNext
  BY <1>0, <1>3, MarketStepSession, ConfirmFlatSession DEF MarketNext
<1>4. CASE UNCHANGED vars
  BY <1>0, <1>4, QuietSession
<1> QED BY <1>1, <1>2, <1>3, <1>4 DEF Next

LEMMA SessionHolds == Spec => [](IInv /\ (aged = {} => SInv))
<1>1. Init => IInv /\ (aged = {} => SInv)
  BY InitIInv, InitSInv
<1>2. IInv /\ (aged = {} => SInv) /\ [Next]_vars => (IInv /\ (aged = {} => SInv))'
  BY NextIInv, NextSInv
<1> QED BY <1>1, <1>2, PTL DEF Spec

\* Until a new session begins, what a structure sold and its open exit may
\* still sell is within what it bought, for every structure whose closes
\* were all saved: no cancel, late view, fill in the downtime or restart
\* leads to a double close.
THEOREM NoDoubleClose == Spec => [](aged = {} => SavedNeverOverClosed)
<1>1. ASSUME IInv, SInv PROVE SavedNeverOverClosed
  <2> SUFFICES ASSUME NEW s \in Sids, s \notin orphaned PROVE Sold(s) + Resting(s) <= Bought(s)
    BY DEF SavedNeverOverClosed
  <2> DEFINE os == orders[s]
             n == Last(s)
             k == SoldOf(os)
  <2>1. /\ os \in Seq(OrderRecord) /\ Bounded(os) /\ Within(os)
    BY <1>1, Shape DEF SInv, SessionOf
  <2>2. /\ n \in Nat /\ (n > 0 => n \in DOMAIN os /\ 1 \in DOMAIN os) /\ (os # <<>> <=> n > 0)
        /\ k \in Int /\ n = Len(os)
        /\ \A o \in DOMAIN os : os[o].qty \in Nat /\ os[o].filled \in Nat /\ os[o].filled <= os[o].qty
    BY <2>1, OrdersShape, SoldTerms DEF Last, Bounded
  <2>3. Sold(s) = k /\ Resting(s) = IF n > 1 /\ ~os[n].done THEN os[n].qty - os[n].filled ELSE 0
    BY <1>1, RestingIs
  <2>4. Bought(s) = IF n > 0 THEN os[1].filled ELSE 0
    BY <2>2 DEF Bought
  <2>5. n > 1 => k - os[n].filled + os[n].qty <= os[1].filled
    BY <2>1, <2>2 DEF Within
  <2>6. n <= 1 => k = 0
    BY <2>1, <2>2, SoldNone
  <2> HIDE DEF n, k, os
  <2>7. CASE n > 1
    <3> DEFINE f == os[n].filled
               q == os[n].qty
               b == os[1].filled
    <3>1. f \in Nat /\ q \in Nat /\ b \in Nat /\ f <= q /\ k - f + q <= b /\ k \in Int
      BY <2>2, <2>5, <2>7
    <3>2. Bought(s) = b /\ Sold(s) = k /\ (Resting(s) = q - f \/ Resting(s) = 0)
      BY <2>2, <2>3, <2>4, <2>7
    <3> HIDE DEF f, q, b
    <3> QED BY <3>1, <3>2
  <2>8. CASE n <= 1
    BY <2>2, <2>3, <2>4, <2>6, <2>8
  <2> QED BY <2>2, <2>7, <2>8
<1>2. IInv /\ (aged = {} => SInv) => (aged = {} => SavedNeverOverClosed)
  BY <1>1
<1> QED BY SessionHolds, <1>2, PTL

\* Until a new session begins, every order belongs to a registered structure,
\* and a structure is closed only when none of its orders is open and
\* nothing it bought is left.
THEOREM NeverUnowned == Spec => [](aged = {} => OwnedUntilFlat)
<1>1. ASSUME IInv, SInv PROVE OwnedUntilFlat
  <2> SUFFICES ASSUME NEW s \in Sids, orders[s] # <<>>
               PROVE  /\ s \in spec
                      /\ book[s].status = "closed" => Working(s) = {} /\ Net(s) <= 0
    BY DEF OwnedUntilFlat
  <2>1. /\ orders[s] \in Seq(OrderRecord) /\ DocOf(s) /\ BookOf(s) /\ SessionOf(s)
    BY <1>1, Shape DEF IInv, SInv
  <2>2. s \in spec
    BY <2>1 DEF DocOf
  <2>3. ASSUME book[s].status = "closed" PROVE Working(s) = {} /\ Net(s) <= 0
    <3>1. Working(s) = {}
      BY <2>1, <2>3 DEF BookOf, Sane, Working
    <3> DEFINE b == orders[s][1].filled
               k == SoldOf(orders[s])
    <3>2. b <= k
      BY <2>1, <2>3 DEF SessionOf, Fair
    <3>3. b \in Nat /\ k \in Int
      BY <2>1, OrdersShape, SoldTerms
    <3>4. Net(s) = b - k
      BY <1>1, RestingIs DEF Net, Bought
    <3> HIDE DEF b, k
    <3>5. Net(s) <= 0
      BY <3>2, <3>3, <3>4
    <3> QED BY <3>1, <3>5
  <2> QED BY <2>2, <2>3
<1>2. IInv /\ (aged = {} => SInv) => (aged = {} => OwnedUntilFlat)
  BY <1>1
<1> QED BY SessionHolds, <1>2, PTL

\* Until a new session begins, a structure leaves the entry lane only with
\* its whole entry in the book, and no exit fill is counted twice.
THEOREM CountsAreTrue == Spec => [](aged = {} => BookIsTrue)
<1>1. ASSUME IInv, SInv PROVE BookIsTrue
  <2> SUFFICES ASSUME NEW s \in Sids
               PROVE  /\ book[s].status \notin EntryLane /\ orders[s] # <<>> =>
                            orders[s][1].done /\ book[s].filled = orders[s][1].filled
                      /\ book[s].exitFilled <= Sold(s)
    BY DEF BookIsTrue
  <2> DEFINE os == orders[s]
             st == book[s]
  <2>1. /\ os \in Seq(OrderRecord) /\ st \in StateRecord /\ Sane(st, os) /\ Fair(st, os)
        /\ Sold(s) = SoldOf(os)
    BY <1>1, Shape, RestingIs DEF IInv, BookOf, SInv, SessionOf
  <2> HIDE DEF os, st
  <2>2. st.status \notin EntryLane /\ os # <<>> => os[1].done /\ st.filled = os[1].filled
    <3>1. st.status \in Statuses /\ (os # <<>> => 1 \in DOMAIN os)
      BY <2>1, OrdersShape, StateFields
    <3> QED BY <2>1, <3>1 DEF Sane, Fair, EntryLane, Statuses
  <2>3. st.exitFilled <= Sold(s)
    <3>1. CASE st.status = "closed"
      BY <2>1, <3>1 DEF Fair
    <3>2. CASE st.status # "closed"
      <4> DEFINE c == Counted(st, os)
                 u == Unknown(st, os)
                 k == SoldOf(os)
                 x == st.exitFilled
      <4>1. c \in Int /\ u \in Nat /\ k \in Int /\ x \in Nat /\ x <= c /\ c + u <= k
        BY <2>1, <3>2, CountedFacts, StateFields DEF Fair
      <4> HIDE DEF c, u, k, x
      <4>2. x <= k
        BY <4>1
      <4> QED BY <2>1, <4>2 DEF x, k
    <3> QED BY <3>1, <3>2
  <2> QED BY <2>2, <2>3 DEF os, st
<1>2. IInv /\ (aged = {} => SInv) => (aged = {} => BookIsTrue)
  BY <1>1
<1> QED BY SessionHolds, <1>2, PTL
-----------------------------------------------------------------------------
(* A flat option is closed by its next tick.                               *)

LEMMA TotalZero ==
  ASSUME NEW f, NEW S, IsFiniteSet(S), \A x \in S : f[x] = 0
  PROVE  Total(f, S) = 0
<1> DEFINE D == {t \in SUBSET S : Total(f, t) # 0}
<1>1. SUFFICES ASSUME D # {} PROVE FALSE
  BY DEF D
<1>2. PICK t \in D : \A u \in D : ~(u \subseteq t /\ u # t)
  <2> HIDE DEF D
  <2>1. D \subseteq SUBSET S
    BY DEF D
  <2> QED BY <1>1, <2>1, LeastSet
<1>3. CASE t = {}
  BY <1>2, <1>3, TotalNone
<1>4. CASE t # {}
  <2>1. t \in SUBSET S /\ IsFiniteSet(t) /\ Pick(t) \in t
    BY <1>2, <1>4, FS_Subset, PickIn
  <2>2. t \ {Pick(t)} \notin D
    BY <1>2, <2>1
  <2>3. Total(f, t \ {Pick(t)}) = 0 /\ f[Pick(t)] = 0
    BY <2>1, <2>2
  <2>4. Total(f, t) = f[Pick(t)] + Total(f, t \ {Pick(t)})
    BY <1>4, <2>1, TotalPick
  <2> QED BY <1>2, <2>3, <2>4
<1> QED BY <1>3, <1>4

\* The option's contract is the structure's own: no other structure trades it
\* and the account holds none of it.
OptionsAlone ==
    /\ scene.outside = 0
    /\ \A s \in Sids : lane[s] = "option" =>
          \A x \in Sids \ {s} : Contract[x] = Contract[s] => orders[x] = <<>>

LEMMA PositionAlone ==
  ASSUME IInv, OptionsAlone, NEW s \in Sids, lane[s] = "option"
  PROVE  Position(Contract[s]) = Net(s)
<1> DEFINE f == [x \in Sids |-> Net(x)]
           S == {x \in Sids : Contract[x] = Contract[s]}
<1>1. \A x \in Sids : orders[x] \in Seq(OrderRecord) /\ Net(x) \in Int
  BY SoldInt DEF IInv, TypeOK
<1>2. IsFiniteSet(S) /\ IntOn(f, S) /\ s \in S /\ IsFiniteSet(S \ {s}) /\ f[s] = Net(s)
  <2>1. IsFiniteSet(S)
    BY ScenarioAssumption, FS_Subset
  <2>2. S \ {s} \subseteq S
    OBVIOUS
  <2>3. IsFiniteSet(S \ {s})
    BY <2>1, <2>2, FS_Subset
  <2> QED BY <1>1, <2>1, <2>3 DEF IntOn
<1>3. \A x \in S \ {s} : f[x] = 0
  <2> SUFFICES ASSUME NEW x \in S \ {s} PROVE Net(x) = 0
    OBVIOUS
  <2>1. x \in Sids /\ orders[x] = <<>>
    BY DEF OptionsAlone
  <2>2. Len(orders[x]) = 0
    BY <2>1
  <2>3. SoldOf(orders[x]) = 0
    BY <1>1, <2>1, <2>2, SoldNone
  <2>4. Sold(x) = 0 /\ Bought(x) = 0
    BY <2>1, <2>3, RestingIs DEF Bought
  <2> QED BY <2>4 DEF Net
<1>4. Position(Contract[s]) = scene.outside + Total(f, S)
  BY DEF Position
<1> HIDE DEF f, S
<1>5. Total(f, S) = f[s] + Total(f, S \ {s})
  BY <1>2, TotalWith
<1>6. Total(f, S \ {s}) = 0
  BY <1>2, <1>3, TotalZero
<1>7. scene.outside = 0
  BY DEF OptionsAlone
<1> QED BY <1>1, <1>2, <1>4, <1>5, <1>6, <1>7

\* The comparison with no position left closes, or asks the operator.
LEMMA ComparedFlat ==
  ASSUME NEW s, NEW d \in StateRecord, d.exitFilled <= d.filled
  PROVE  Compared(s, d, OpenQty(d), 0).st.status = "closed" \/ Compared(s, d, OpenQty(d), 0).ask
<1> DEFINE open == OpenQty(d)
<1>1. open \in Int /\ open >= 0
  BY StateFields DEF OpenQty
<1> HIDE DEF open
<1>2. \A e \in StateRecord : Closed(e).status = "closed"
  BY DEF Closed, StateRecord
<1>3. CASE open = 0
  <2>1. Compared(s, d, open, 0) = Reached(Closed(d), 0)
    BY <1>3 DEF Compared
  <2>2. Compared(s, d, open, 0).st = Closed(d)
    BY <2>1 DEF Reached
  <2> QED BY <1>2, <2>2 DEF open
<1>4. CASE open # 0
  <2>1. open > 0
    BY <1>1, <1>4
  <2>2. Compared(s, d, open, 0).ask
    BY <1>4, <2>1 DEF Compared, Reached
  <2> QED BY <2>2 DEF open
<1> QED BY <1>3, <1>4

LEMMA FlatAdvance ==
  ASSUME IInv, SInv, aged = {}, OptionsAlone, NEW s \in Sids, s \notin orphaned, Idle,
         lane[s] = "option", seen[s] = orders[s], PositionSeen(s) = Position(Contract[s]),
         book[s].status \in {"open", "exit_working"}, Net(s) = 0, Working(s) = {}
  PROVE  Advance(s).st.status = "closed" \/ Advance(s).ask
<1> DEFINE os == orders[s]
           st == mem[s]
           t == TradeBy(s, st)
           k == st.exitOrder
<1>1. /\ os \in Seq(OrderRecord) /\ Bounded(os) /\ st \in StateRecord /\ st = book[s] /\ Sane(st, os)
      /\ Fair(st, os) /\ Exact(st, os) /\ live[s] = {} /\ os # <<>> /\ PositionSeen(s) = 0
  <2>1. os \in Seq(OrderRecord) /\ Bounded(os) /\ st \in StateRecord
    BY Shape
  <2>2. BookOf(s) /\ Course /\ SessionOf(s)
    BY DEF IInv, SInv
  <2>3. st = book[s] /\ Sane(st, os) /\ live[s] = {} /\ Fair(st, os) /\ Exact(st, os)
    BY <2>2 DEF BookOf, Course, SessionOf, Idle, Busy
  <2>4. os # <<>>
    BY <2>3 DEF Sane
  <2> QED BY <2>1, <2>3, <2>4, PositionAlone
<1>2. /\ os[1].filled = SoldOf(os) /\ st.filled = os[1].filled /\ st.filled > 0
      /\ os[1].filled \in Nat
  <2>1. os[1].filled \in Nat /\ SoldOf(os) \in Int
    BY <1>1, OrdersShape, SoldTerms
  <2>2. os[1].filled - SoldOf(os) = 0
    BY <1>1, RestingIs DEF Net, Bought
  <2>3. st.filled = os[1].filled /\ st.filled > 0
    BY <1>1 DEF Fair, EntryLane
  <2> QED BY <2>1, <2>2, <2>3
<1>3. /\ Len(os) \in Nat /\ Len(os) > 1
      /\ st.status = "exit_working" /\ k = Len(os) /\ k \in Nat /\ k # 0 /\ k # 1 /\ k \in DOMAIN os
      /\ Counted(st, os) = SoldOf(os) /\ os[k].done /\ os[k].filled \in Nat
  <2>1. Len(os) \in Nat /\ Len(os) \in DOMAIN os /\ \A o \in DOMAIN os : os[o].filled \in Nat
    BY <1>1, OrdersShape
  <2>2. Len(os) > 1
    <3>1. ~(Len(os) <= 1)
      BY <1>1, <1>2, SoldNone
    <3> QED BY <2>1, <3>1
  <2>3. st.status = "exit_working"
    <3>1. ~(Len(os) <= 1)
      BY <2>1, <2>2
    <3> QED BY <1>1, <3>1 DEF Exact
  <2>4. k = Len(os) /\ Counted(st, os) = SoldOf(os)
    BY <1>1, <2>2, <2>3 DEF Exact
  <2> HIDE DEF os, k
  <2>5. k # 0 /\ k # 1 /\ k \in DOMAIN os /\ k \in Nat
    BY <2>1, <2>2, <2>4
  <2>6. os[k].done
    BY <2>5 DEF Working, os
  <2> QED BY <2>1, <2>2, <2>3, <2>4, <2>5, <2>6
<1>4. t \in {0, k}
  BY <1>1, <1>3 DEF TradeBy, EntryLane
<1>5. Advance(s) = AdvanceOn(s, st, t)
  BY <1>3 DEF Advance, AdvanceFrom
<1> HIDE DEF t
<1>6. CASE t = k
  <2> DEFINE d == DrainExit(st, k, os[k].filled)
             r == Transitions(s, d, k)
  <2>0. os[k].filled <= os[k].filled
    BY <1>3
  <2>1. Advance(s) = Reached(r, k)
    BY <1>3, <1>5, <1>6 DEF AdvanceOn, Drain
  <2>2. /\ d \in StateRecord /\ d.status = st.status /\ d.filled = st.filled /\ d.exitOrder = k
    BY <1>1, <1>3, <2>0, DrainExitSane
  <2>3. Counted(d, os) = Counted(st, os) /\ Counted(d, os) = d.exitFilled
    <3>1. d = DrainExit(st, k, os[k].filled)
      OBVIOUS
    <3> HIDE DEF d
    <3> QED BY <1>1, <1>3, <2>0, <3>1, DrainCounts
  <2> HIDE DEF d
  <2>4. OpenQty(d) <= 0
    <3>1. d.exitFilled = d.filled /\ d.filled \in Nat
      BY <1>2, <1>3, <2>2, <2>3
    <3> QED BY <3>1 DEF OpenQty
  <2>5. r = Closed(d)
    BY <1>3, <2>2, <2>4 DEF Transitions
  <2>6. Closed(d).status = "closed"
    BY <2>2 DEF Closed, StateRecord
  <2>7. Advance(s).st = r
    <3> HIDE DEF r
    <3> QED BY <2>1 DEF Reached
  <2> QED BY <2>5, <2>6, <2>7
<1>7. CASE t = 0
  <2> DEFINE q == Evidence(s, k)
             d == ExitProved(s, st, q)
  <2>1. Advance(s) = CompareExit(s, d)
    BY <1>3, <1>5, <1>7 DEF AdvanceOn, ResolveExit
  <2>2. q = os[k].filled
    BY <1>1, <1>3 DEF Evidence, Executed
  <2> HIDE DEF q
  <2>3. d \in StateRecord /\ d.exitFilled <= d.filled
    <3>1. CASE q > 0
      <4>0. os[k].filled <= os[k].filled
        BY <1>3
      <4>1. d = DrainExit(st, k, q)
        BY <3>1 DEF ExitProved
      <4> HIDE DEF d
      <4>2. d \in StateRecord /\ Sane(d, os)
        BY <1>1, <1>3, <2>2, <4>0, <4>1, DrainExitSane
      <4> QED BY <4>2 DEF Sane
    <3>2. CASE ~(q > 0)
      <4>1. d = st
        BY <3>2 DEF ExitProved
      <4> HIDE DEF d
      <4> QED BY <1>1, <4>1 DEF Sane
    <3> QED BY <3>1, <3>2
  <2> HIDE DEF d
  <2>4. PositionSeen(s) - Beside(s, d) = 0
    BY <1>1 DEF Beside
  <2>5. Advance(s) = Compared(s, d, OpenQty(d), 0)
    BY <2>1, <2>4 DEF CompareExit
  <2> QED BY <2>3, <2>5, ComparedFlat
<1> QED BY <1>4, <1>6, <1>7

\* Until a new session begins, an option position that is flat at the broker,
\* and seen so, is closed by its next tick or that tick asks the operator:
\* nothing stays open with no position behind it.
THEOREM FlatCloses == Spec => [](aged = {} /\ OptionsAlone => FlatIsClosed)
<1>1. ASSUME IInv, SInv, aged = {}, OptionsAlone PROVE FlatIsClosed
  <2> SUFFICES ASSUME NEW s \in spec \ orphaned,
                      Idle, lane[s] = "option", seen[s] = orders[s],
                      PositionSeen(s) = Position(Contract[s]),
                      book[s].status \in {"open", "exit_working"}, Net(s) = 0, Working(s) = {}
               PROVE  \E a \in {Advance(s)} : a.st.status = "closed" \/ a.ask
    BY DEF FlatIsClosed
  <2>1. s \in Sids
    BY <1>1 DEF IInv, TypeOK
  <2>2. Advance(s).st.status = "closed" \/ Advance(s).ask
    BY <1>1, <2>1, FlatAdvance
  <2> QED BY <2>2
<1>2. IInv /\ (aged = {} => SInv) => (aged = {} /\ OptionsAlone => FlatIsClosed)
  BY <1>1
<1> QED BY SessionHolds, <1>2, PTL
=============================================================================
