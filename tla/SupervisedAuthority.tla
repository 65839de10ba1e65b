------------------------ MODULE SupervisedAuthority ------------------------
(***************************************************************************)
(* The authority half of trex/supervised.py: who may mint a permit to send *)
(* one broker order.                                                       *)
(*                                                                         *)
(* Two regimes share the state directory.  A v1 mandate is one file with a *)
(* budget of orders; a per-trade mandate ("supervised-mandate/2") is one   *)
(* file per intent that a single owner approval buys.  Either may mint the *)
(* one permit an intent ever has, and send() uses that permit once.        *)
(*                                                                         *)
(* Every mutator of the code holds the directory's flock from its first    *)
(* read to its last write, so a call is one atomic step here.  What is     *)
(* visible from outside is a call that died between two of its durable     *)
(* writes: such an action has one more disjunct, the prefix of its writes. *)
(* The one mutator that takes no lock is halt_effects.                     *)
(*                                                                         *)
(* A caller captures `now` BEFORE it waits for the lock (and a desk entry  *)
(* before its screening reads), so a call may act on a `now` up to         *)
(* MaxStale older than the clock.  Account, environment and strategy are   *)
(* one value here, the scope: the code compares them side by side.         *)
(*                                                                         *)
(* A definition X_Y is X with the bug Y; it is used by no specification,   *)
(* only to see that the properties notice the bug.                         *)
(***************************************************************************)
EXTENDS Naturals, FiniteSets

CONSTANTS
    Intents,          \* intent ids (one order each)
    Effects,          \* hashes of effect bytes
    EquityEffects,    \* those of a supervised-equity-effect/1
    Scopes,           \* (account, strategy) pairs
    GrantScopes,      \* those operators grant v1 mandates for
    ScopeOf,          \* the scope an intent is emitted under
    Deadline,         \* the send_deadline an intent carries
    Approvals,        \* idempotency keys of approve_entry commands
    ApprovedIntent,   \* the intent an approval's proposal names
    ApprovedEffect,   \* the effect an approval's proposal names
    Profiles,         \* digests the profile file can have
    None,             \* no file
    MaxOrders,        \* max_orders of every v1 grant
    MandateTTL, ApprovalTTL, PermitTTL,
    MaxStale,         \* bound: how old the `now` of a call may be
    MaxClock,         \* bound on the clock
    MaxEpoch          \* bound on desk restarts

ASSUME AuthorityAssumption ==
    /\ EquityEffects \subseteq Effects
    /\ GrantScopes \subseteq Scopes
    /\ ScopeOf \in [Intents -> Scopes]
    /\ Deadline \in [Intents -> Nat]
    /\ ApprovedIntent \in [Approvals -> Intents]
    /\ ApprovedEffect \in [Approvals -> Effects]
    /\ Approvals \cap Nat = {}
    /\ MaxOrders \in Nat \ {0}
    /\ {MandateTTL, ApprovalTTL, PermitTTL} \subseteq Nat \ {0}
    /\ {MaxStale, MaxClock, MaxEpoch} \subseteq Nat

VARIABLES
    clock,      \* real time, in ticks
    epoch,      \* owner epoch of the live desk
    profile,    \* digest of the live profile file
    halted,     \* HALT exists
    revoked,    \* mandate.revoked.json exists
    mandate,    \* mandate.json, or None
    entry,      \* mandates/<intent>.json: granted, not yet used
    spent,      \* mandates/<intent>.consumed.json
    permit      \* permits/<intent, effect>.{issued,consumed}.json

authVars == <<clock, epoch, profile, halted, revoked, mandate, entry, spent,
              permit>>
worldVars == <<clock, epoch, profile, halted>>

-----------------------------------------------------------------------------
(* Documents. *)

\* mandate_id is derived from the grant's `now`, so that instant is the id.
\* The document refuses to load with orders_used above max_orders.
Mandate == [id: Nat, scope: Scopes, epoch: Nat, used: 0..MaxOrders, expires: Nat]

EntryMandate == [approval: Approvals, effect: Effects, epoch: Nat,
                 profile: Profiles, expires: Nat]

\* `by` is the mandate_id: a v1 mandate's id, or the approval's.
Permit == [state: {"issued", "consumed"}, by: Nat \cup Approvals, epoch: Nat,
           scope: Scopes, expires: Nat]

\* "No file" is told from every document.
ASSUME AuthorityNone == None \notin Mandate \cup EntryMandate \cup Permit

AuthTypeOK ==
    /\ clock \in Nat /\ epoch \in Nat /\ profile \in Profiles
    /\ halted \in BOOLEAN /\ revoked \in BOOLEAN
    /\ mandate \in Mandate \cup {None}
    /\ entry \in [Intents -> EntryMandate \cup {None}]
    /\ spent \in [Intents -> EntryMandate \cup {None}]
    /\ permit \in [Intents \X Effects -> Permit \cup {None}]

AuthInit ==
    /\ clock = 0 /\ epoch = 1 /\ profile \in Profiles
    /\ halted = FALSE /\ revoked = FALSE
    /\ mandate = None
    /\ entry = [i \in Intents |-> None]
    /\ spent = [i \in Intents |-> None]
    /\ permit = [p \in Intents \X Effects |-> None]

-----------------------------------------------------------------------------
(* Helpers. *)

\* The values a caller's `now` can have when its call holds the lock.
Recent == {t \in 0..clock : clock <= t + MaxStale}

Earlier(s, t) == IF s <= t THEN s ELSE t

HasPermit(i) == \E e \in Effects : permit[<<i, e>>] # None

BudgetLeft_OffByOne == mandate.used <= MaxOrders
BudgetLeft == mandate.used < MaxOrders

ActiveMandate_IgnoresTombstone(now, ownerEpoch, scope) ==
    /\ ~halted
    /\ mandate # None
    /\ now < mandate.expires
    /\ mandate.epoch = ownerEpoch
    /\ mandate.scope = scope

ActiveMandate(now, ownerEpoch, scope) ==
    /\ ~halted /\ ~revoked
    /\ mandate # None
    /\ now < mandate.expires
    /\ mandate.epoch = ownerEpoch
    /\ mandate.scope = scope

\* A stored approval that can never mint: the three reasons of _dead_reason.
Dead(m, now) == \/ now >= m.expires
                \/ m.epoch # epoch
                \/ m.profile # profile

ApprovalCovers_AnyEffect(m, e, now) == ~Dead(m, now)

\* mandate_blockers is empty.
ApprovalCovers(m, e, now) == ~Dead(m, now) /\ m.effect = e

-----------------------------------------------------------------------------
(* The world: time, desk restarts, profile edits, HALT. *)

Restart ==
    /\ epoch < MaxEpoch
    /\ epoch' = epoch + 1
    /\ UNCHANGED <<clock, profile, halted, revoked, mandate, entry, spent, permit>>

EditProfile ==
    /\ profile' \in Profiles \ {profile}
    /\ UNCHANGED <<clock, epoch, halted, revoked, mandate, entry, spent, permit>>

HaltEffects ==
    /\ ~halted
    /\ halted' = TRUE
    /\ UNCHANGED <<clock, epoch, profile, revoked, mandate, entry, spent, permit>>

-----------------------------------------------------------------------------
(* The v1 mandate. *)

\* Last disjunct: died after the expired mandate was renamed away.
GrantMandate(scope, now) ==
    /\ ~halted /\ ~revoked
    /\ mandate # None => now >= mandate.expires
    /\ \/ mandate' = [id |-> now, scope |-> scope, epoch |-> epoch, used |-> 0,
                      expires |-> now + MandateTTL]
       \/ mandate # None /\ mandate' = None
    /\ UNCHANGED <<worldVars, revoked, entry, spent, permit>>

\* Last disjunct: died between the tombstone and the unlink.
RevokeMandate ==
    /\ mandate # None
    /\ revoked' = TRUE
    /\ \/ mandate' = None
       \/ UNCHANGED mandate
    /\ UNCHANGED <<worldVars, entry, spent, permit>>

\* One order of the budget is spent, THEN the permit is minted; the last
\* disjunct died between the two.
IssuePermit(i, e, now) ==
    /\ now < Deadline[i]
    /\ entry[i] = None /\ spent[i] = None
    /\ e \notin EquityEffects
    /\ ActiveMandate(now, epoch, ScopeOf[i])
    /\ BudgetLeft
    /\ ~HasPermit(i)
    /\ mandate' = [mandate EXCEPT !.used = @ + 1]
    /\ \/ permit' = [permit EXCEPT ![<<i, e>>] =
                        [state |-> "issued", by |-> mandate.id, epoch |-> epoch,
                         scope |-> ScopeOf[i],
                         expires |-> Earlier(now + PermitTTL, Deadline[i])]]
       \/ UNCHANGED permit
    /\ UNCHANGED <<worldVars, revoked, entry, spent>>

-----------------------------------------------------------------------------
(* Per-trade mandates. *)

\* A replay of the stored approval returns the stored file; another approval
\* must find it dead, and retires it first.  Last disjunct: died in between.
GrantEntryMandate(a, now) ==
    LET i == ApprovedIntent[a] IN
    /\ ~halted
    /\ now < Deadline[i]
    /\ spent[i] = None
    /\ ~HasPermit(i)
    /\ entry[i] # None => entry[i].approval # a /\ Dead(entry[i], now)
    /\ \/ entry' = [entry EXCEPT ![i] =
                      [approval |-> a, effect |-> ApprovedEffect[a],
                       epoch |-> epoch, profile |-> profile,
                       expires |-> Earlier(now + ApprovalTTL, Deadline[i])]]
       \/ entry[i] # None /\ entry' = [entry EXCEPT ![i] = None]
    /\ UNCHANGED <<worldVars, revoked, mandate, spent, permit>>

\* The owner's reject flow.
RetireEntryMandate(i) ==
    /\ entry[i] # None
    /\ entry' = [entry EXCEPT ![i] = None]
    /\ UNCHANGED <<worldVars, revoked, mandate, spent, permit>>

\* Desk start: every approval of another epoch is retired, one file after the
\* other, so a crash leaves any part of them behind.
InvalidateEntryMandates ==
    \E S \in SUBSET {i \in Intents : entry[i] # None /\ entry[i].epoch # epoch} :
        /\ S # {}
        /\ entry' = [i \in Intents |-> IF i \in S THEN None ELSE entry[i]]
        /\ UNCHANGED <<worldVars, revoked, mandate, spent, permit>>

\* The rename to .consumed IS the consumption; the permit is minted after it.
\* Last disjunct: died between the two.
IssueEntryPermit(i, e, now) ==
    /\ now < Deadline[i]
    /\ ~halted
    /\ entry[i] # None /\ spent[i] = None
    /\ ApprovalCovers(entry[i], e, now)
    /\ ~HasPermit(i)
    /\ spent' = [spent EXCEPT ![i] = entry[i]]
    /\ entry' = [entry EXCEPT ![i] = None]
    /\ \/ permit' = [permit EXCEPT ![<<i, e>>] =
                        [state |-> "issued", by |-> entry[i].approval,
                         epoch |-> epoch, scope |-> ScopeOf[i],
                         expires |-> Earlier(now + PermitTTL, entry[i].expires)]]
       \/ UNCHANGED permit
    /\ UNCHANGED <<worldVars, revoked, mandate>>

-----------------------------------------------------------------------------
(* What send() asks of the authority. *)

\* A permit is per-trade when its mandate_id says so or the intent has a
\* consumed per-trade mandate; either way the two must agree.
PerTrade(i, p) == p.by \in Approvals \/ spent[i] # None

SendAuthorized(i, e, now) ==
    LET p == permit[<<i, e>>] IN
    /\ p # None
    /\ p.state = "issued"
    /\ now < p.expires
    /\ ~halted
    /\ PerTrade(i, p) =>
          /\ spent[i] # None
          /\ spent[i].approval = p.by
          /\ spent[i].effect = e
          /\ spent[i].epoch = p.epoch
    /\ ~PerTrade(i, p) => ActiveMandate(now, p.epoch, p.scope)

\* The rename issued -> consumed that precedes the broker call.
ConsumePermit(i, e) ==
    /\ permit' = [permit EXCEPT ![<<i, e>>].state = "consumed"]
    /\ UNCHANGED <<worldVars, revoked, mandate, entry, spent>>

-----------------------------------------------------------------------------
(* The authority on its own: send() is reduced to the use of a permit. *)

AuthMutate ==
    \/ \E scope \in GrantScopes, now \in Recent : GrantMandate(scope, now)
    \/ RevokeMandate
    \/ \E i \in Intents, e \in Effects, now \in Recent : IssuePermit(i, e, now)
    \/ \E a \in Approvals, now \in Recent : GrantEntryMandate(a, now)
    \/ \E i \in Intents : RetireEntryMandate(i)
    \/ InvalidateEntryMandates
    \/ \E i \in Intents, e \in Effects, now \in Recent : IssueEntryPermit(i, e, now)

AuthWorld == EditProfile \/ HaltEffects

UsePermit == \E i \in Intents, e \in Effects, now \in Recent :
                SendAuthorized(i, e, now) /\ ConsumePermit(i, e)

Advance ==
    /\ clock < MaxClock
    /\ clock' = clock + 1
    /\ UNCHANGED <<epoch, profile, halted, revoked, mandate, entry, spent, permit>>

AuthNext == AuthMutate \/ AuthWorld \/ Restart \/ UsePermit \/ Advance

AuthSpec == AuthInit /\ [][AuthNext]_authVars

-----------------------------------------------------------------------------
(* Properties. *)

PermitsOf(id) == {p \in Intents \X Effects : permit[p] # None /\ permit[p].by = id}

\* issue_permit spends the budget before it mints ("a crash between the writes
\* wastes an order, never mints one"): the permits minted under the current
\* mandate are covered by its spent orders, and no mandate, current or past,
\* ever mints more permits than its grant allowed.
BudgetHeld ==
    /\ \A id \in 0..clock : Cardinality(PermitsOf(id)) <= MaxOrders
    /\ mandate # None => Cardinality(PermitsOf(mandate.id)) <= mandate.used

\* One approval, one order (grant_entry_mandate, _issue_entry_permit): an
\* intent never has two permits, an approval waiting to be used excludes a
\* permit, and a permit is backed either by the consumed approval of exactly
\* this intent and effect, or by a v1 mandate and no consumed approval.
SingleAuthority(i) ==
    /\ \A d, e \in Effects : permit[<<i, d>>] # None /\ permit[<<i, e>>] # None => d = e
    /\ entry[i] # None => spent[i] = None /\ ~HasPermit(i)
    /\ \A e \in Effects : permit[<<i, e>>] # None =>
          IF permit[<<i, e>>].by \in Approvals
          THEN /\ spent[i] # None
               /\ spent[i].approval = permit[<<i, e>>].by
               /\ ApprovedIntent[permit[<<i, e>>].by] = i
               /\ ApprovedEffect[permit[<<i, e>>].by] = e
          ELSE spent[i] = None

OneAuthorityPerIntent == \A i \in Intents : SingleAuthority(i)
=============================================================================
