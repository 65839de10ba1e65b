--------------------- MODULE SupervisedAuthority_proof ---------------------
(***************************************************************************)
(* Theorems about SupervisedAuthority for all values of its constants.     *)
(***************************************************************************)
EXTENDS SupervisedAuthority, FiniteSetTheorems, TLAPS

USE AuthorityAssumption

LEMMA RecentNat == ASSUME clock \in Nat PROVE Recent \subseteq Nat
  BY DEF Recent

LEMMA EarlierNat == ASSUME NEW s \in Nat, NEW t \in Nat PROVE Earlier(s, t) \in Nat
  BY DEF Earlier

LEMMA InitType == AuthInit => AuthTypeOK
<1> SUFFICES ASSUME AuthInit PROVE AuthTypeOK
  OBVIOUS
<1>1. clock \in Nat /\ epoch \in Nat /\ profile \in Profiles
  BY DEF AuthInit
<1>2. halted \in BOOLEAN /\ revoked \in BOOLEAN
  BY DEF AuthInit
<1>3. mandate \in Mandate \cup {None}
  BY DEF AuthInit
<1>4. entry \in [Intents -> EntryMandate \cup {None}]
  BY DEF AuthInit
<1>5. spent \in [Intents -> EntryMandate \cup {None}]
  BY DEF AuthInit
<1>6. permit \in [Intents \X Effects -> Permit \cup {None}]
  BY DEF AuthInit
<1> QED BY <1>1, <1>2, <1>3, <1>4, <1>5, <1>6 DEF AuthTypeOK

LEMMA MutateType == ASSUME AuthTypeOK, AuthMutate PROVE AuthTypeOK'
<1> USE DEF AuthTypeOK, worldVars
<1>1. ASSUME NEW scope \in GrantScopes, NEW now \in Recent, GrantMandate(scope, now)
      PROVE  AuthTypeOK'
  <2>1. now \in Nat /\ now + MandateTTL \in Nat /\ scope \in Scopes
    BY RecentNat
  <2> QED BY <1>1, <2>1 DEF GrantMandate, Mandate
<1>2. ASSUME RevokeMandate PROVE AuthTypeOK'
  BY <1>2 DEF RevokeMandate
<1>3. ASSUME NEW i \in Intents, NEW e \in Effects, NEW now \in Recent,
             IssuePermit(i, e, now)
      PROVE  AuthTypeOK'
  <2>1. mandate \in Mandate /\ mandate' \in Mandate
    BY <1>3 DEF IssuePermit, ActiveMandate, BudgetLeft, Mandate
  <2>2. [state |-> "issued", by |-> mandate.id, epoch |-> epoch, scope |-> ScopeOf[i],
         expires |-> Earlier(now + PermitTTL, Deadline[i])] \in Permit
    <3>1. now + PermitTTL \in Nat
      BY RecentNat
    <3> QED BY <2>1, <3>1, EarlierNat DEF Permit, Mandate
  <2> QED BY <1>3, <2>1, <2>2 DEF IssuePermit
<1>4. ASSUME NEW a \in Approvals, NEW now \in Recent, GrantEntryMandate(a, now)
      PROVE  AuthTypeOK'
  <2>1. now + ApprovalTTL \in Nat /\ ApprovedIntent[a] \in Intents
        /\ ApprovedEffect[a] \in Effects
    BY RecentNat
  <2>2. [approval |-> a, effect |-> ApprovedEffect[a], epoch |-> epoch,
         profile |-> profile,
         expires |-> Earlier(now + ApprovalTTL, Deadline[ApprovedIntent[a]])] \in EntryMandate
    BY <2>1, EarlierNat DEF EntryMandate
  <2> QED BY <1>4, <2>1, <2>2 DEF GrantEntryMandate
<1>5. ASSUME NEW i \in Intents, RetireEntryMandate(i) PROVE AuthTypeOK'
  BY <1>5 DEF RetireEntryMandate
<1>6. ASSUME InvalidateEntryMandates PROVE AuthTypeOK'
  BY <1>6 DEF InvalidateEntryMandates
<1>7. ASSUME NEW i \in Intents, NEW e \in Effects, NEW now \in Recent,
             IssueEntryPermit(i, e, now)
      PROVE  AuthTypeOK'
  <2>1. entry[i] \in EntryMandate
    BY <1>7 DEF IssueEntryPermit
  <2>2. [state |-> "issued", by |-> entry[i].approval, epoch |-> epoch,
         scope |-> ScopeOf[i],
         expires |-> Earlier(now + PermitTTL, entry[i].expires)] \in Permit
    <3>1. now + PermitTTL \in Nat
      BY RecentNat
    <3> QED BY <2>1, <3>1, EarlierNat DEF Permit, EntryMandate
  <2> QED BY <1>7, <2>1, <2>2 DEF IssueEntryPermit
<1> QED BY <1>1, <1>2, <1>3, <1>4, <1>5, <1>6, <1>7 DEF AuthMutate

\* A mutator mints the first permit of an intent or none.
LEMMA MutateKeepsPermits ==
    ASSUME AuthTypeOK, AuthMutate
    PROVE  /\ clock' = clock
           /\ \A i \in Intents, e \in Effects :
                permit[<<i, e>>] # None => permit'[<<i, e>>] = permit[<<i, e>>]
<1> USE DEF AuthTypeOK, worldVars
<1>1. ASSUME NEW i \in Intents, NEW e \in Effects, NEW now \in Recent,
             IssuePermit(i, e, now) \/ IssueEntryPermit(i, e, now)
      PROVE  \A j \in Intents, d \in Effects :
                permit[<<j, d>>] # None => permit'[<<j, d>>] = permit[<<j, d>>]
  <2>1. permit[<<i, e>>] = None
    BY <1>1 DEF IssuePermit, IssueEntryPermit, HasPermit
  <2>2. ASSUME NEW j \in Intents, NEW d \in Effects, permit[<<j, d>>] # None
        PROVE  permit'[<<j, d>>] = permit[<<j, d>>]
    <3>1. <<i, e>> # <<j, d>>
      BY <2>1, <2>2
    <3> QED BY <1>1, <2>2, <3>1 DEF IssuePermit, IssueEntryPermit
  <2> QED BY <2>2
<1>2. clock' = clock
  BY DEF AuthMutate, GrantMandate, RevokeMandate, IssuePermit, GrantEntryMandate,
         RetireEntryMandate, InvalidateEntryMandates, IssueEntryPermit
<1>3. ASSUME ~ \E i \in Intents, e \in Effects, now \in Recent :
                 IssuePermit(i, e, now) \/ IssueEntryPermit(i, e, now)
      PROVE  permit' = permit
  BY <1>3 DEF AuthMutate, GrantMandate, RevokeMandate, GrantEntryMandate,
         RetireEntryMandate, InvalidateEntryMandates
<1> QED BY <1>1, <1>2, <1>3

\* Outside the mutators, only the use of a permit writes a file.
LEMMA RestType ==
    ASSUME AuthTypeOK, Restart \/ AuthWorld \/ Advance PROVE AuthTypeOK'
<1> USE DEF AuthTypeOK
<1>1. CASE Restart
  BY <1>1 DEF Restart
<1>2. CASE EditProfile
  BY <1>2 DEF EditProfile
<1>3. CASE HaltEffects
  BY <1>3 DEF HaltEffects
<1>4. CASE Advance
  BY <1>4 DEF Advance
<1> QED BY <1>1, <1>2, <1>3, <1>4 DEF AuthWorld

LEMMA ConsumeType ==
    ASSUME AuthTypeOK, NEW i \in Intents, NEW e \in Effects,
           permit[<<i, e>>] # None, ConsumePermit(i, e)
    PROVE  AuthTypeOK'
<1>1. permit[<<i, e>>] \in Permit
  BY DEF AuthTypeOK
<1>2. [permit[<<i, e>>] EXCEPT !.state = "consumed"] \in Permit
  BY <1>1 DEF Permit
<1> QED BY <1>2 DEF ConsumePermit, AuthTypeOK, worldVars

\* Type correctness of the authority on its own.
THEOREM AuthTypeCorrect == AuthSpec => []AuthTypeOK
<1>1. AuthInit => AuthTypeOK
  BY InitType
<1>2. AuthTypeOK /\ [AuthNext]_authVars => AuthTypeOK'
  <2> SUFFICES ASSUME AuthTypeOK, [AuthNext]_authVars PROVE AuthTypeOK'
    OBVIOUS
  <2>1. CASE AuthMutate
    BY <2>1, MutateType
  <2>2. CASE AuthWorld \/ Restart \/ Advance
    BY <2>2, RestType
  <2>3. CASE UsePermit
    BY <2>3, ConsumeType DEF UsePermit, SendAuthorized
  <2>4. CASE UNCHANGED authVars
    BY <2>4 DEF AuthTypeOK, authVars
  <2> QED BY <2>1, <2>2, <2>3, <2>4 DEF AuthNext
<1> QED BY <1>1, <1>2, PTL DEF AuthSpec

-----------------------------------------------------------------------------
(* One authority per intent. *)

\* An unused approval lies in the file of the intent its proposal names, for
\* the effect its proposal names: _issue_entry_permit relies on it.
EntriesMatch ==
    \A i \in Intents : entry[i] # None =>
        /\ ApprovedIntent[entry[i].approval] = i
        /\ ApprovedEffect[entry[i].approval] = entry[i].effect

AuthInv == AuthTypeOK /\ EntriesMatch /\ OneAuthorityPerIntent

LEMMA InitInv == AuthInit => AuthInv
<1> SUFFICES ASSUME AuthInit PROVE AuthInv
  OBVIOUS
<1>1. AuthTypeOK
  BY InitType
<1>2. \A i \in Intents : entry[i] = None /\ \A e \in Effects : permit[<<i, e>>] = None
  BY DEF AuthInit
<1>3. EntriesMatch
  BY <1>2 DEF EntriesMatch
<1>4. OneAuthorityPerIntent
  BY <1>2 DEF OneAuthorityPerIntent, SingleAuthority
<1> QED BY <1>1, <1>3, <1>4 DEF AuthInv

\* An intent whose approval is unchanged or gone, and whose permits appear with
\* no new authority, keeps its single authority.
LEMMA KeepsSingle ==
    ASSUME NEW i \in Intents, SingleAuthority(i),
           entry'[i] # None => entry[i] # None,
           spent'[i] = spent[i],
           \A e \in Effects :
             /\ permit'[<<i, e>>] # None => permit[<<i, e>>] # None
             /\ permit[<<i, e>>] # None => permit'[<<i, e>>].by = permit[<<i, e>>].by
    PROVE  SingleAuthority(i)'
<1>1. \A d, e \in Effects :
        permit'[<<i, d>>] # None /\ permit'[<<i, e>>] # None => d = e
  BY DEF SingleAuthority
<1>2. entry'[i] # None => spent'[i] = None /\ \A e \in Effects : permit'[<<i, e>>] = None
  BY DEF SingleAuthority, HasPermit
<1>3. ASSUME NEW e \in Effects, permit'[<<i, e>>] # None
      PROVE  IF permit'[<<i, e>>].by \in Approvals
             THEN /\ spent'[i] # None
                  /\ spent'[i].approval = permit'[<<i, e>>].by
                  /\ ApprovedIntent[permit'[<<i, e>>].by] = i
                  /\ ApprovedEffect[permit'[<<i, e>>].by] = e
             ELSE spent'[i] = None
  <2>1. permit[<<i, e>>] # None /\ permit'[<<i, e>>].by = permit[<<i, e>>].by
    BY <1>3
  <2> QED BY <2>1 DEF SingleAuthority
<1> QED BY <1>1, <1>2, <1>3 DEF SingleAuthority, HasPermit

LEMMA MutateInv == ASSUME AuthInv, AuthMutate PROVE AuthInv'
<1>0. AuthTypeOK'
  BY MutateType DEF AuthInv
<1> USE DEF AuthInv
<1>a. \A i \in Intents : SingleAuthority(i)
  BY DEF OneAuthorityPerIntent
<1>1. ASSUME UNCHANGED <<spent, permit>>, EntriesMatch',
             \A i \in Intents : entry'[i] # None => entry[i] # None
      PROVE  OneAuthorityPerIntent'
  BY <1>1, <1>a, KeepsSingle DEF OneAuthorityPerIntent
<1>2. ASSUME UNCHANGED <<entry, spent, permit>>
      PROVE  EntriesMatch' /\ OneAuthorityPerIntent'
  <2>1. EntriesMatch'
    BY <1>2 DEF EntriesMatch
  <2> QED BY <1>1, <1>2, <2>1
<1>3. ASSUME NEW i \in Intents, NEW e \in Effects, NEW now \in Recent,
             IssuePermit(i, e, now)
      PROVE  EntriesMatch' /\ OneAuthorityPerIntent'
  <2>1. EntriesMatch' /\ UNCHANGED <<entry, spent>>
    BY <1>3 DEF IssuePermit, EntriesMatch
  <2>2. mandate.id \in Nat /\ mandate.id \notin Approvals
    BY <1>3 DEF IssuePermit, ActiveMandate, AuthTypeOK, Mandate
  <2>3. entry[i] = None /\ spent[i] = None /\ \A d \in Effects : permit[<<i, d>>] = None
    BY <1>3 DEF IssuePermit, HasPermit
  <2>4. \A j \in Intents, d \in Effects :
          \/ permit'[<<j, d>>] = permit[<<j, d>>]
          \/ j = i /\ d = e /\ permit'[<<j, d>>].by = mandate.id
    <3>1. CASE UNCHANGED permit
      BY <3>1
    <3>2. CASE ~UNCHANGED permit
      <4> DEFINE P == [state |-> "issued", by |-> mandate.id, epoch |-> epoch,
                       scope |-> ScopeOf[i],
                       expires |-> Earlier(now + PermitTTL, Deadline[i])]
      <4>1. permit' = [permit EXCEPT ![<<i, e>>] = P]
        BY <1>3, <3>2 DEF IssuePermit
      <4>2. P.by = mandate.id
        OBVIOUS
      <4> HIDE DEF P
      <4> QED BY <4>1, <4>2 DEF AuthTypeOK
    <3> QED BY <3>1, <3>2
  <2>5. ASSUME NEW j \in Intents, j # i PROVE SingleAuthority(j)'
    BY <1>a, <2>1, <2>4, <2>5, KeepsSingle
  <2>6. SingleAuthority(i)'
    BY <2>1, <2>2, <2>3, <2>4 DEF SingleAuthority
  <2> QED BY <2>1, <2>5, <2>6 DEF OneAuthorityPerIntent
<1>4. ASSUME NEW a \in Approvals, NEW now \in Recent, GrantEntryMandate(a, now)
      PROVE  EntriesMatch' /\ OneAuthorityPerIntent'
  <2> DEFINE i == ApprovedIntent[a]
  <2>1. EntriesMatch'
    BY <1>4 DEF GrantEntryMandate, EntriesMatch, AuthTypeOK
  <2>2. /\ UNCHANGED <<spent, permit>> /\ spent[i] = None
        /\ \A d \in Effects : permit[<<i, d>>] = None
        /\ \A j \in Intents : j # i => entry'[j] = entry[j]
    BY <1>4 DEF GrantEntryMandate, HasPermit, AuthTypeOK
  <2>3. ASSUME NEW j \in Intents, j # i PROVE SingleAuthority(j)'
    BY <1>a, <2>2, <2>3, KeepsSingle
  <2>4. SingleAuthority(i)'
    BY <2>2 DEF SingleAuthority, HasPermit
  <2> QED BY <2>1, <2>3, <2>4 DEF OneAuthorityPerIntent
<1>5. ASSUME \/ \E i \in Intents : RetireEntryMandate(i)
             \/ InvalidateEntryMandates
      PROVE  EntriesMatch' /\ OneAuthorityPerIntent'
  <2>1. /\ UNCHANGED <<spent, permit>>
        /\ \A i \in Intents : entry'[i] = entry[i] \/ entry'[i] = None
    BY <1>5 DEF RetireEntryMandate, InvalidateEntryMandates, AuthTypeOK
  <2>2. EntriesMatch'
    BY <2>1 DEF EntriesMatch
  <2> QED BY <1>1, <2>1, <2>2
<1>6. ASSUME NEW i \in Intents, NEW e \in Effects, NEW now \in Recent,
             IssueEntryPermit(i, e, now)
      PROVE  EntriesMatch' /\ OneAuthorityPerIntent'
  <2>1. EntriesMatch'
    BY <1>6 DEF IssueEntryPermit, EntriesMatch, AuthTypeOK
  <2>2. /\ entry[i].approval \in Approvals
        /\ ApprovedIntent[entry[i].approval] = i
        /\ ApprovedEffect[entry[i].approval] = e
    BY <1>6 DEF IssueEntryPermit, ApprovalCovers, EntriesMatch, AuthTypeOK, EntryMandate
  <2>3. \A j \in Intents, d \in Effects :
          \/ permit'[<<j, d>>] = permit[<<j, d>>]
          \/ j = i /\ d = e /\ permit'[<<j, d>>].by = entry[i].approval
    <3>1. CASE UNCHANGED permit
      BY <3>1
    <3>2. CASE ~UNCHANGED permit
      <4> DEFINE P == [state |-> "issued", by |-> entry[i].approval,
                       epoch |-> epoch, scope |-> ScopeOf[i],
                       expires |-> Earlier(now + PermitTTL, entry[i].expires)]
      <4>1. permit' = [permit EXCEPT ![<<i, e>>] = P]
        BY <1>6, <3>2 DEF IssueEntryPermit
      <4>2. P.by = entry[i].approval
        OBVIOUS
      <4> HIDE DEF P
      <4> QED BY <4>1, <4>2 DEF AuthTypeOK
    <3> QED BY <3>1, <3>2
  <2>4. \A d \in Effects : permit[<<i, d>>] = None
    BY <1>6 DEF IssueEntryPermit, HasPermit
  <2>5. /\ spent'[i] = entry[i] /\ entry[i] # None /\ entry'[i] = None
        /\ \A j \in Intents : j # i => spent'[j] = spent[j] /\ entry'[j] = entry[j]
    BY <1>6 DEF IssueEntryPermit, AuthTypeOK
  <2>6. ASSUME NEW j \in Intents, j # i PROVE SingleAuthority(j)'
    BY <1>a, <2>3, <2>5, <2>6, KeepsSingle
  <2>7. SingleAuthority(i)'
    <3>1. spent'[i] # None /\ spent'[i].approval = entry[i].approval
      BY <2>5
    <3>2. \A d \in Effects : permit'[<<i, d>>] # None
            => d = e /\ permit'[<<i, d>>].by = entry[i].approval
      BY <2>3, <2>4
    <3> QED BY <2>2, <2>5, <3>1, <3>2 DEF SingleAuthority
  <2> QED BY <2>1, <2>6, <2>7 DEF OneAuthorityPerIntent
<1>7. ASSUME \/ \E scope \in GrantScopes, now \in Recent : GrantMandate(scope, now)
             \/ RevokeMandate
      PROVE  UNCHANGED <<entry, spent, permit>>
  BY <1>7 DEF GrantMandate, RevokeMandate
<1> QED BY <1>0, <1>2, <1>3, <1>4, <1>5, <1>6, <1>7 DEF AuthMutate

LEMMA RestInv ==
    ASSUME AuthInv, Restart \/ AuthWorld \/ Advance PROVE AuthInv'
<1>1. AuthTypeOK'
  BY RestType DEF AuthInv
<1>2. UNCHANGED <<entry, spent, permit>>
  BY DEF Restart, AuthWorld, EditProfile, HaltEffects, Advance
<1>3. EntriesMatch'
  BY <1>2 DEF AuthInv, EntriesMatch
<1>4. OneAuthorityPerIntent'
  BY <1>2, KeepsSingle DEF AuthInv, OneAuthorityPerIntent
<1> QED BY <1>1, <1>3, <1>4 DEF AuthInv

LEMMA ConsumeInv ==
    ASSUME AuthInv, NEW i \in Intents, NEW e \in Effects,
           permit[<<i, e>>] # None, ConsumePermit(i, e)
    PROVE  AuthInv'
<1>1. AuthTypeOK'
  BY ConsumeType DEF AuthInv
<1>2. permit[<<i, e>>] \in Permit
  BY DEF AuthInv, AuthTypeOK
<1>3. UNCHANGED <<entry, spent>>
  BY DEF ConsumePermit
<1>4. \A j \in Intents, d \in Effects :
        /\ permit'[<<j, d>>] # None => permit[<<j, d>>] # None
        /\ permit[<<j, d>>] # None => permit'[<<j, d>>].by = permit[<<j, d>>].by
  BY <1>2 DEF ConsumePermit, AuthInv, AuthTypeOK, Permit
<1>5. EntriesMatch'
  BY <1>3 DEF AuthInv, EntriesMatch
<1>6. OneAuthorityPerIntent'
  BY <1>3, <1>4, KeepsSingle DEF AuthInv, OneAuthorityPerIntent
<1> QED BY <1>1, <1>5, <1>6 DEF AuthInv

\* One approval buys one order, and no intent is authorised twice: the
\* property of run `authority` for every set of intents, effects and
\* approvals, every TTL and staleness.
THEOREM OneAuthority == AuthSpec => []OneAuthorityPerIntent
<1>1. AuthInit => AuthInv
  BY InitInv
<1>2. AuthInv /\ [AuthNext]_authVars => AuthInv'
  <2> SUFFICES ASSUME AuthInv, [AuthNext]_authVars PROVE AuthInv'
    OBVIOUS
  <2>1. CASE AuthMutate
    BY <2>1, MutateInv
  <2>2. CASE AuthWorld \/ Restart \/ Advance
    BY <2>2, RestInv
  <2>3. CASE UsePermit
    BY <2>3, ConsumeInv DEF UsePermit, SendAuthorized
  <2>4. CASE UNCHANGED authVars
    <3>1. AuthTypeOK' /\ EntriesMatch' /\ UNCHANGED <<entry, spent, permit>>
      BY <2>4 DEF AuthInv, AuthTypeOK, EntriesMatch, authVars
    <3>2. OneAuthorityPerIntent'
      BY <3>1, KeepsSingle DEF AuthInv, OneAuthorityPerIntent
    <3> QED BY <3>1, <3>2 DEF AuthInv
  <2> QED BY <2>1, <2>2, <2>3, <2>4 DEF AuthNext
<1> QED BY <1>1, <1>2, PTL DEF AuthSpec, AuthInv

-----------------------------------------------------------------------------
(* The budget of a v1 mandate.                                             *)

\* Mandates are told apart by the instant of their grant.  A grant finds no
\* mandate, or one that has expired by its own `now`; when that `now` is less
\* stale than a mandate lives, the new mandate is later than all before it.
Budget ==
    /\ \A id \in Nat : IsFiniteSet(PermitsOf(id)) /\ Cardinality(PermitsOf(id)) <= MaxOrders
    /\ mandate # None =>
          /\ Cardinality(PermitsOf(mandate.id)) <= mandate.used
          /\ mandate.expires = mandate.id + MandateTTL
    /\ \A id \in Nat : PermitsOf(id) # {} =>
          IF mandate # None THEN id <= mandate.id ELSE revoked \/ id + MandateTTL <= clock

LEMMA InitBudget == AuthInit => Budget
<1> SUFFICES ASSUME AuthInit PROVE Budget
  OBVIOUS
<1>1. \A id \in Nat : PermitsOf(id) = {}
  BY DEF AuthInit, PermitsOf
<1>2. IsFiniteSet({}) /\ Cardinality({}) = 0
  BY FS_EmptySet
<1>3. mandate = None /\ 0 <= MaxOrders
  BY DEF AuthInit
<1> QED BY <1>1, <1>2, <1>3 DEF Budget

\* Steps that leave the mandate alone and mint under none.
LEMMA SameBudget ==
    ASSUME Budget, clock \in Nat, clock' \in Nat, clock <= clock', UNCHANGED <<mandate, revoked>>,
           \A id \in Nat : PermitsOf(id)' = PermitsOf(id), mandate # None => mandate.id \in Nat
    PROVE  Budget'
<1>1. ASSUME NEW id \in Nat PROVE IsFiniteSet(PermitsOf(id))' /\ Cardinality(PermitsOf(id))' <= MaxOrders
  BY DEF Budget
<1>2. ASSUME mandate # None
      PROVE  /\ Cardinality(PermitsOf(mandate.id))' <= mandate.used
             /\ mandate.expires = mandate.id + MandateTTL
  BY <1>2 DEF Budget
<1>3. ASSUME NEW id \in Nat, PermitsOf(id) # {}
      PROVE  IF mandate # None THEN id <= mandate.id ELSE revoked \/ id + MandateTTL <= clock'
  BY <1>3 DEF Budget
<1> QED BY <1>1, <1>2, <1>3 DEF Budget

\* A permit appears under `by`, or none does.
LEMMA MintedPermits ==
    ASSUME AuthTypeOK, NEW i \in Intents, NEW e \in Effects, NEW P \in Permit,
           permit[<<i, e>>] = None, permit' = [permit EXCEPT ![<<i, e>>] = P], NEW id \in Nat
    PROVE  PermitsOf(id)' = IF P.by = id THEN PermitsOf(id) \cup {<<i, e>>} ELSE PermitsOf(id)
<1>1. permit'[<<i, e>>] = P /\ P # None
  BY AuthorityNone DEF AuthTypeOK
<1>2. \A p \in (Intents \X Effects) \ {<<i, e>>} : permit'[p] = permit[p]
  BY DEF AuthTypeOK
<1>3. PermitsOf(id)' = {p \in Intents \X Effects : permit'[p] # None /\ permit'[p].by = id}
  BY DEF PermitsOf
<1> QED BY <1>1, <1>2, <1>3 DEF PermitsOf

LEMMA NextBudget ==
    ASSUME MaxStale < MandateTTL, AuthTypeOK, Budget, [AuthNext]_authVars
    PROVE  Budget'
<1> USE DEF worldVars
<1>0. /\ clock \in Nat /\ MaxStale \in Nat /\ MandateTTL \in Nat \ {0} /\ MaxOrders \in Nat
      /\ mandate # None => mandate \in Mandate /\ mandate.id \in Nat /\ mandate.used \in 0..MaxOrders
  BY DEF AuthTypeOK, Mandate
<1>1. ASSUME UNCHANGED permit, NEW id \in Nat PROVE PermitsOf(id)' = PermitsOf(id)
  BY <1>1 DEF PermitsOf
<1>2. CASE \/ UNCHANGED authVars \/ Restart \/ AuthWorld \/ Advance
           \/ (\E a \in Approvals, now \in Recent : GrantEntryMandate(a, now))
           \/ (\E i \in Intents : RetireEntryMandate(i)) \/ InvalidateEntryMandates
  <2>1. UNCHANGED <<permit, mandate, revoked>> /\ clock' \in {clock, clock + 1}
    BY <1>2 DEF authVars, Restart, AuthWorld, EditProfile, HaltEffects, Advance, GrantEntryMandate,
       RetireEntryMandate, InvalidateEntryMandates
  <2> QED BY <1>0, <1>1, <2>1, SameBudget
<1>3. CASE UsePermit
  <2>1. PICK i \in Intents, e \in Effects : permit[<<i, e>>] # None /\ ConsumePermit(i, e)
    BY <1>3 DEF UsePermit, SendAuthorized
  <2>2. permit[<<i, e>>] \in Permit
    BY <2>1 DEF AuthTypeOK
  <2> DEFINE P == [permit[<<i, e>>] EXCEPT !.state = "consumed"]
  <2>3. P \in Permit /\ P.by = permit[<<i, e>>].by /\ permit' = [permit EXCEPT ![<<i, e>>] = P]
    BY <2>1, <2>2 DEF ConsumePermit, Permit
  <2>4. P # None
    BY <2>3, AuthorityNone
  <2> HIDE DEF P
  <2>5. ASSUME NEW id \in Nat PROVE PermitsOf(id)' = PermitsOf(id)
    <3>1. PermitsOf(id)' = {p \in Intents \X Effects : permit'[p] # None /\ permit'[p].by = id}
      BY DEF PermitsOf
    <3>2. \A p \in Intents \X Effects : /\ permit'[p] # None <=> permit[p] # None
                                        /\ permit[p] # None => permit'[p].by = permit[p].by
      BY <2>1, <2>3, <2>4 DEF AuthTypeOK
    <3> QED BY <3>1, <3>2 DEF PermitsOf
  <2>6. UNCHANGED <<clock, mandate, revoked>>
    BY <2>1 DEF ConsumePermit
  <2> QED BY <1>0, <2>5, <2>6, SameBudget
<1>4. ASSUME NEW i \in Intents, NEW e \in Effects, NEW now \in Recent, IssueEntryPermit(i, e, now)
      PROVE  Budget'
  <2>1. UNCHANGED <<clock, mandate, revoked>>
    BY <1>4 DEF IssueEntryPermit
  <2> DEFINE P == [state |-> "issued", by |-> entry[i].approval, epoch |-> epoch,
                   scope |-> ScopeOf[i],
                   expires |-> Earlier(now + PermitTTL, entry[i].expires)]
  <2>2. permit' = permit \/ permit' = [permit EXCEPT ![<<i, e>>] = P]
    BY <1>4 DEF IssueEntryPermit
  <2>3. P \in Permit /\ P.by \in Approvals
    <3>1. entry[i] \in EntryMandate /\ now + PermitTTL \in Nat
      BY <1>0, <1>4, RecentNat DEF IssueEntryPermit, AuthTypeOK
    <3>2. entry[i].approval \in Approvals /\ entry[i].expires \in Nat
      BY <3>1 DEF EntryMandate
    <3>3. Earlier(now + PermitTTL, entry[i].expires) \in Nat
      BY <3>1, <3>2, EarlierNat
    <3> QED BY <3>2, <3>3 DEF Permit, AuthTypeOK
  <2>4. permit[<<i, e>>] = None
    BY <1>4 DEF IssueEntryPermit, HasPermit
  <2> HIDE DEF P
  <2>5. ASSUME NEW id \in Nat PROVE PermitsOf(id)' = PermitsOf(id)
    BY <1>1, <2>2, <2>3, <2>4, MintedPermits
  <2> QED BY <1>0, <2>1, <2>5, SameBudget
\* The budget is spent before the permit is minted.
<1>5. ASSUME NEW i \in Intents, NEW e \in Effects, NEW now \in Recent, IssuePermit(i, e, now)
      PROVE  Budget'
  <2>1. /\ mandate # None /\ mandate.used < MaxOrders /\ UNCHANGED <<clock, revoked>>
        /\ mandate' = [mandate EXCEPT !.used = @ + 1] /\ permit[<<i, e>>] = None
    BY <1>5 DEF IssuePermit, ActiveMandate, BudgetLeft, HasPermit
  <2>2. /\ mandate'.id = mandate.id /\ mandate'.used = mandate.used + 1
        /\ mandate'.expires = mandate.expires /\ mandate' \in Mandate
    BY <1>0, <2>1 DEF Mandate
  <2>3. mandate' # None
    BY <2>2, AuthorityNone
  <2> DEFINE P == [state |-> "issued", by |-> mandate.id, epoch |-> epoch, scope |-> ScopeOf[i],
                   expires |-> Earlier(now + PermitTTL, Deadline[i])]
  <2>4. permit' = permit \/ permit' = [permit EXCEPT ![<<i, e>>] = P]
    BY <1>5 DEF IssuePermit
  <2>5. P \in Permit /\ P.by = mandate.id
    <3>1. now + PermitTTL \in Nat /\ Deadline[i] \in Nat
      BY <1>0, RecentNat
    <3>2. Earlier(now + PermitTTL, Deadline[i]) \in Nat
      BY <3>1, EarlierNat
    <3> QED BY <1>0, <2>1, <3>2 DEF Permit, AuthTypeOK
  <2> HIDE DEF P
  <2>6. ASSUME NEW id \in Nat
        PROVE  PermitsOf(id)' \in {PermitsOf(id), PermitsOf(id) \cup {<<i, e>>}}
               /\ (id # mandate.id => PermitsOf(id)' = PermitsOf(id))
    BY <1>1, <2>1, <2>4, <2>5, MintedPermits
  <2>7. ASSUME NEW id \in Nat
        PROVE  /\ IsFiniteSet(PermitsOf(id)') /\ Cardinality(PermitsOf(id)') <= MaxOrders
               /\ id = mandate.id => Cardinality(PermitsOf(id)') <= mandate'.used
    <3>1. /\ IsFiniteSet(PermitsOf(id)) /\ Cardinality(PermitsOf(id)) <= MaxOrders
          /\ id = mandate.id => Cardinality(PermitsOf(id)) <= mandate.used
      BY <2>1 DEF Budget
    <3>2. Cardinality(PermitsOf(id)) \in Nat
      BY <3>1, FS_CardinalityType
    <3>3. /\ IsFiniteSet(PermitsOf(id) \cup {<<i, e>>})
          /\ Cardinality(PermitsOf(id) \cup {<<i, e>>})
                \in {Cardinality(PermitsOf(id)), Cardinality(PermitsOf(id)) + 1}
      BY <3>1, FS_AddElement
    <3>4. CASE id = mandate.id
      <4>1. Cardinality(PermitsOf(id)') <= Cardinality(PermitsOf(id)) + 1 /\ IsFiniteSet(PermitsOf(id)')
        <5>1. CASE PermitsOf(id)' = PermitsOf(id)
          BY <3>1, <3>2, <5>1
        <5>2. CASE PermitsOf(id)' = PermitsOf(id) \cup {<<i, e>>}
          BY <3>2, <3>3, <5>2
        <5> QED BY <2>6, <5>1, <5>2
      <4>2. Cardinality(PermitsOf(id)') \in Nat
        BY <4>1, FS_CardinalityType
      <4> QED BY <1>0, <2>1, <2>2, <3>1, <3>2, <3>4, <4>1, <4>2
    <3>5. CASE id # mandate.id
      BY <2>6, <3>1, <3>5
    <3> QED BY <3>4, <3>5
  <2>8. ASSUME NEW id \in Nat, PermitsOf(id)' # {} PROVE id <= mandate.id
    BY <1>0, <2>1, <2>6, <2>8 DEF Budget
  <2>9. mandate'.expires = mandate'.id + MandateTTL
    BY <2>1, <2>2 DEF Budget
  <2> QED BY <1>0, <2>1, <2>2, <2>3, <2>7, <2>8, <2>9 DEF Budget
<1>6. CASE RevokeMandate
  <2>1. UNCHANGED <<clock, permit>> /\ mandate # None /\ revoked' = TRUE /\ mandate' \in {mandate, None}
    BY <1>6 DEF RevokeMandate
  <2>2. \A id \in Nat : PermitsOf(id)' = PermitsOf(id)
    BY <1>1, <2>1
  <2>3. ASSUME mandate' = mandate PROVE Cardinality(PermitsOf(mandate.id)') <= mandate.used
    <3>1. PermitsOf(mandate.id)' = PermitsOf(mandate.id)
      BY <2>1, <2>3 DEF PermitsOf
    <3> QED BY <2>1, <3>1 DEF Budget
  <2> QED BY <1>0, <2>1, <2>2, <2>3 DEF Budget
<1>7. ASSUME NEW scope \in GrantScopes, NEW now \in Recent, GrantMandate(scope, now)
      PROVE  Budget'
  <2>1. /\ UNCHANGED <<clock, revoked, permit>> /\ ~revoked
        /\ mandate # None => now >= mandate.expires
        /\ now \in Nat /\ now <= clock /\ clock <= now + MaxStale
    BY <1>0, <1>7 DEF GrantMandate, Recent
  <2>2. \A id \in Nat : PermitsOf(id)' = PermitsOf(id)
    BY <1>1, <2>1
  <2>3. ASSUME NEW id \in Nat, PermitsOf(id) # {} PROVE id < now
    <3>1. CASE mandate # None
      BY <1>0, <2>1, <2>3, <3>1 DEF Budget
    <3>2. CASE mandate = None
      BY <1>0, <2>1, <2>3, <3>2 DEF Budget
    <3> QED BY <3>1, <3>2
  <2> DEFINE m == [id |-> now, scope |-> scope, epoch |-> epoch, used |-> 0,
                   expires |-> now + MandateTTL]
  <2>4. mandate' = m \/ (mandate # None /\ mandate' = None)
    BY <1>7 DEF GrantMandate
  <2>5. m.id = now /\ m.used = 0 /\ m.expires = now + MandateTTL
    OBVIOUS
  <2>6. m # None
    <3>1. m \in Mandate
      BY <1>0, <2>1 DEF Mandate, AuthTypeOK
    <3> QED BY <3>1, AuthorityNone
  <2> HIDE DEF m
  <2>7. CASE mandate' = m
    <3>1. PermitsOf(now) = {}
      BY <2>1, <2>3
    <3>2. Cardinality(PermitsOf(now)') = 0
      BY <2>1, <2>2, <3>1, FS_EmptySet
    <3> QED BY <2>1, <2>2, <2>3, <2>5, <2>6, <2>7, <3>2 DEF Budget
  <2>8. CASE mandate # None /\ mandate' = None
    <3>1. ASSUME NEW id \in Nat, PermitsOf(id) # {} PROVE id + MandateTTL <= clock
      BY <1>0, <2>1, <2>8, <3>1 DEF Budget
    <3> QED BY <2>1, <2>2, <2>8, <3>1 DEF Budget
  <2> QED BY <2>4, <2>7, <2>8
<1> QED BY <1>2, <1>3, <1>4, <1>5, <1>6, <1>7 DEF AuthNext, AuthMutate

\* No v1 mandate, current or past, mints more permits than it was granted
\* orders, as long as a call is less stale than a mandate lives.
THEOREM BudgetKept == ASSUME MaxStale < MandateTTL PROVE AuthSpec => []BudgetHeld
<1>1. AuthTypeOK /\ Budget /\ [AuthNext]_authVars => Budget'
  BY NextBudget
<1>2. AuthTypeOK /\ Budget => BudgetHeld
  BY DEF AuthTypeOK, Budget, BudgetHeld, Mandate
<1> QED BY InitBudget, AuthTypeCorrect, <1>1, <1>2, PTL DEF AuthSpec
=============================================================================
