----------------------------- MODULE SyncProofs -----------------------------
(***************************************************************************)
(* Two parts of the API that keep one table in step with another by        *)
(* several statements and no transaction.  For any reported accounts and   *)
(* any number of syncs and edits: what a sync of linked accounts brings,   *)
(* how often, and on whose permission.  For any family, any number of      *)
(* requests and any profile edits: the dependents of the profile are only  *)
(* ever off for one of three causes.                                       *)
(***************************************************************************)
EXTENDS AccountSync, Family, FiniteSetTheorems, TLAPS

(* Linked accounts *)

\* An edit past ownedAccount holds the id of a row.
Targets == \A e \in Editor : editor[e].pc # "idle" => editor[e].id \in Id

\* The calls past the consent.
Past == {"find", "write", "audit", "done"}

\* What sync s owes for the i-th reported account once it is past it.
Brought(s, i) ==
    /\ Linked(Fetched[i]) # {}
    /\ s \notin patched => \E a \in Linked(Fetched[i]) : account[a].balance = "fetched"

\* One sync: it has a consent, knows its place in the loop, holds a row of the
\* account it is at, and has brought those before it.
SyncInv(s) ==
    /\ sync[s].pc \in Past => consent
    /\ sync[s].pc \in {"audit", "done"} => sync[s].next = Len(Fetched) + 1
    /\ At(s, "write") /\ sync[s].found # Nothing => account[sync[s].found].ref = Todo(s)
    /\ sync[s].pc \in Past /\ s \notin removed => \A i \in 1..(sync[s].next - 1) : Brought(s, i)

\* The syncs that found no row for a reference and are about to create one.
Pending(ref) == {s \in Sync : At(s, "write") /\ sync[s].found = Nothing /\ Todo(s) = ref}

\* A row of a reference, or the promise of one, for at most every sync there is.
Slots == \A ref \in Ref :
    Cardinality(Linked(ref)) + Cardinality(Pending(ref)) <= Cardinality(Sync)

IInv == TypeOK /\ Targets /\ (\A s \in Sync : SyncInv(s)) /\ ConsentFirst /\ Slots

\* A step that sync s need not mind: the linked rows stay, and so do their fetched
\* balances, unless removed and patched say otherwise.
Kept(s) == \A a \in Id : account[a].ref \in Ref =>
    /\ account'[a].ref = account[a].ref
    /\ s \notin removed' /\ account[a].live => account'[a].live
    /\ s \notin patched' /\ account[a].balance = "fetched" => account'[a].balance = "fetched"
------------------------------------------------------------------------------
\* The reported accounts have references, and a loop over them has places.
LEMMA FetchedFacts ==
    /\ Len(Fetched) \in Nat \ {0}
    /\ \A i \in 1..Len(Fetched) : Fetched[i] \in Ref
BY AccountSyncAssumption

\* The rows of a reference and the syncs about to add one are finitely many.
LEMMA Finite ==
    ASSUME NEW ref \in Ref
    PROVE  /\ IsFiniteSet(Linked(ref)) /\ IsFiniteSet(Pending(ref))
           /\ Cardinality(Linked(ref)) \in Nat /\ Cardinality(Pending(ref)) \in Nat
           /\ Cardinality(Sync) \in Nat
<1>1. Linked(ref) \in SUBSET Id /\ Pending(ref) \in SUBSET Sync
    BY DEF Linked, Pending
<1>2. IsFiniteSet(Linked(ref)) /\ IsFiniteSet(Pending(ref))
    BY <1>1, AccountSyncAssumption, FS_Subset
<1>. QED
    BY <1>2, AccountSyncAssumption, FS_CardinalityType

\* A step after which a reference has no more rows and no more pending syncs.
LEMMA NoMore ==
    ASSUME NEW ref \in Ref, IInv,
           Linked(ref)' \subseteq Linked(ref), Pending(ref)' \subseteq Pending(ref)
    PROVE  Cardinality(Linked(ref)') + Cardinality(Pending(ref)') <= Cardinality(Sync)
<1>1. /\ Cardinality(Linked(ref)') \in Nat /\ Cardinality(Linked(ref)') <= Cardinality(Linked(ref))
      /\ Cardinality(Pending(ref)') \in Nat /\ Cardinality(Pending(ref)') <= Cardinality(Pending(ref))
    BY Finite, FS_Subset, FS_CardinalityType
<1>. QED
    BY <1>1, Finite DEF IInv, Slots

\* A step that changes only the row of one sync.
LEMMA OneSync ==
    ASSUME TypeOK, NEW s \in Sync, NEW row \in SyncRow, Goto(s, row)
    PROVE  /\ sync' \in [Sync -> SyncRow]
           /\ sync'[s] = row
           /\ \A q \in Sync : q # s => sync'[q] = sync[q]
BY DEF TypeOK, Goto

\* A sync that is not at work keeps what it has over a step it need not mind.
LEMMA OtherSync ==
    ASSUME TypeOK, NEW s \in Sync, SyncInv(s), Kept(s),
           sync'[s] = sync[s], consent => consent',
           s \in removed => s \in removed', s \in patched => s \in patched'
    PROVE  SyncInv(s)'
<1>1. sync[s] \in SyncRow
    BY DEF TypeOK
<1>2. At(s, "write") /\ sync[s].found # Nothing => account'[sync[s].found].ref = Todo(s)
    <2>. SUFFICES ASSUME At(s, "write"), sync[s].found # Nothing
                  PROVE  account'[sync[s].found].ref = Todo(s)
        OBVIOUS
    <2>1. sync[s].next \in 1..Len(Fetched) /\ sync[s].found \in Id
        BY <1>1, FetchedFacts DEF TypeOK, At, SyncRow
    <2>2. account[sync[s].found].ref = Todo(s) /\ Todo(s) \in Ref
        BY <2>1, FetchedFacts DEF SyncInv, Todo
    <2>. QED
        BY <2>1, <2>2 DEF Kept
<1>3. sync[s].pc \in Past /\ s \notin removed' => \A i \in 1..(sync[s].next - 1) : Brought(s, i)'
    <2>. SUFFICES ASSUME sync[s].pc \in Past, s \notin removed',
                         NEW i \in 1..(sync[s].next - 1)
                  PROVE  Brought(s, i)'
        OBVIOUS
    <2>1. i \in 1..Len(Fetched)
        BY <1>1, FetchedFacts DEF SyncRow
    <2>2. Fetched[i] \in Ref /\ Brought(s, i)
        BY <2>1, FetchedFacts DEF SyncInv
    <2>3. \A a \in Linked(Fetched[i]) : a \in Linked(Fetched[i])'
        BY <2>2 DEF Linked, Kept
    <2>4. \A a \in Linked(Fetched[i]) :
              s \notin patched' /\ account[a].balance = "fetched" => account'[a].balance = "fetched"
        BY <2>2 DEF Linked, Kept
    <2>. QED
        BY <2>2, <2>3, <2>4 DEF Brought
<1>. QED
    BY <1>2, <1>3 DEF SyncInv, At, Todo

\* Nobody has consented and nothing is linked before the first call.
LEMMA InitInv == Init => IInv
<1>. SUFFICES ASSUME Init PROVE IInv
    OBVIOUS
<1>1. IdleSync \in SyncRow /\ IdleSync.pc = "idle"
    BY FetchedFacts DEF IdleSync, SyncRow, SyncPC
<1>2. IdleEdit \in EditRow /\ IdleEdit.pc = "idle"
    BY DEF IdleEdit, EditRow
<1>3. Unused \in AccountRow /\ ~Unused.live /\ Unused.ref = NoRef /\ Unused.balance = "none"
    BY DEF Unused, AccountRow
<1>4. /\ \A a \in Id : account[a] = Unused
      /\ \A s \in Sync : sync[s].pc = "idle"
      /\ \A e \in Editor : editor[e].pc = "idle"
    BY <1>1, <1>2 DEF Init
<1>5. TypeOK
    BY <1>1, <1>2, <1>3, <1>4 DEF Init, TypeOK
<1>6. Targets /\ (\A s \in Sync : SyncInv(s)) /\ ConsentFirst
    BY <1>3, <1>4, AccountSyncAssumption DEF Targets, SyncInv, ConsentFirst, Past, At
<1>7. Slots
    <2>. SUFFICES ASSUME NEW ref \in Ref
                  PROVE  Cardinality(Linked(ref)) + Cardinality(Pending(ref)) <= Cardinality(Sync)
        BY DEF Slots
    <2>1. Linked(ref) = {} /\ Pending(ref) = {}
        BY <1>3, <1>4 DEF Linked, Pending, At
    <2>. QED
        BY <2>1, FS_EmptySet, Finite
<1>. QED
    BY <1>5, <1>6, <1>7 DEF IInv

\* A sync that gets on, or stops, without touching an account.
LEMMA QuietSync ==
    ASSUME IInv, NEW s \in Sync, NEW row \in SyncRow, Goto(s, row),
           account' = account, editor' = editor, consent => consent', consent' \in BOOLEAN,
           removed' \in SUBSET Sync, patched' \in SUBSET Sync,
           \A q \in Sync : q # s => (q \in removed => q \in removed') /\ (q \in patched => q \in patched'),
           row.pc \in {"find", "write"} => row.next <= Len(Fetched),
           SyncInv(s)',
           \A ref \in Ref : row.pc = "write" /\ row.found = Nothing /\ Fetched[row.next] = ref
               => Linked(ref) = {} \/ s \in Pending(ref)
    PROVE  IInv'
<1>1. /\ sync' \in [Sync -> SyncRow] /\ sync'[s] = row
      /\ \A q \in Sync : q # s => sync'[q] = sync[q]
    BY OneSync DEF IInv
<1>2. TypeOK'
    BY <1>1 DEF IInv, TypeOK
<1>3. \A q \in Sync : SyncInv(q)'
    <2>1. ASSUME NEW q \in Sync, q # s PROVE SyncInv(q)'
        BY <1>1, <2>1, OtherSync DEF IInv, Kept
    <2>. QED
        BY <2>1
<1>4. Targets' /\ ConsentFirst'
    BY DEF IInv, Targets, ConsentFirst
<1>5. Slots'
    <2>. SUFFICES ASSUME NEW ref \in Ref
                  PROVE  Cardinality(Linked(ref)') + Cardinality(Pending(ref)') <= Cardinality(Sync)
        BY DEF Slots
    <2>1. Linked(ref)' = Linked(ref)
        BY DEF Linked
    <2>2. CASE Linked(ref) = {}
        <3>1. Pending(ref)' \in SUBSET Sync
            BY DEF Pending
        <3>2. Cardinality(Pending(ref)') <= Cardinality(Sync) /\ Cardinality(Pending(ref)') \in Nat
            BY <3>1, AccountSyncAssumption, FS_Subset, FS_CardinalityType
        <3>. QED
            BY <2>1, <2>2, <3>2, FS_EmptySet
    <2>3. CASE Linked(ref) # {}
        <3>1. Pending(ref)' \subseteq Pending(ref)
            BY <1>1, <2>3 DEF Pending, At, Todo
        <3>. QED
            BY <2>1, <3>1, NoMore
    <2>. QED
        BY <2>2, <2>3
<1>. QED
    BY <1>2, <1>3, <1>4, <1>5 DEF IInv

\* Beginning, granting and ending a call leave the sync with nothing to account for.
LEMMA OutsideStep ==
    ASSUME IInv, NEW s \in Sync, Begin(s) \/ Grant(s) \/ End(s)
    PROVE  IInv'
<1>1. PICK row \in SyncRow : Goto(s, row) /\ row.pc \in {"idle", "grant", "consent"}
    <2>1. \A pc \in {"grant", "consent"} :
              [IdleSync EXCEPT !.pc = pc] \in SyncRow /\ [IdleSync EXCEPT !.pc = pc].pc = pc
        BY FetchedFacts DEF IdleSync, SyncRow, SyncPC
    <2>2. IdleSync \in SyncRow /\ IdleSync.pc = "idle"
        BY FetchedFacts DEF IdleSync, SyncRow, SyncPC
    <2>. QED
        BY <2>1, <2>2 DEF Begin, Grant, End
<1>2. sync'[s] = row
    BY <1>1, OneSync DEF IInv
<1>3. SyncInv(s)'
    BY <1>1, <1>2 DEF SyncInv, Past, At
<1>4. /\ account' = account /\ editor' = editor /\ (consent => consent')
      /\ consent' \in BOOLEAN
      /\ removed' \in SUBSET Sync /\ patched' \in SUBSET Sync
      /\ \A q \in Sync : q # s => (q \in removed => q \in removed') /\ (q \in patched => q \in patched')
    BY AccountSyncAssumption DEF Begin, Grant, End, IInv, TypeOK
<1>. QED
    BY <1>1, <1>3, <1>4, QuietSync

\* The consent is found, and nothing has to have been brought yet.
LEMMA FindConsentStep ==
    ASSUME IInv, NEW s \in Sync, FindConsent(s)
    PROVE  IInv'
<1>1. PICK row \in SyncRow : /\ Goto(s, row) /\ row.next = 1
                             /\ row.pc = "idle" \/ (row.pc = "find" /\ consent)
    <2>1. /\ [IdleSync EXCEPT !.pc = "find"] \in SyncRow
          /\ [IdleSync EXCEPT !.pc = "find"].pc = "find" /\ [IdleSync EXCEPT !.pc = "find"].next = 1
        BY FetchedFacts DEF IdleSync, SyncRow, SyncPC
    <2>2. IdleSync \in SyncRow /\ IdleSync.pc = "idle" /\ IdleSync.next = 1
        BY FetchedFacts DEF IdleSync, SyncRow, SyncPC
    <2>. QED
        BY <2>1, <2>2 DEF FindConsent
<1>2. sync'[s] = row
    BY <1>1, OneSync DEF IInv
<1>3. UNCHANGED <<account, editor, consent, removed, patched>>
    BY DEF FindConsent
<1>4. SyncInv(s)'
    BY <1>1, <1>2, <1>3 DEF SyncInv, Past, At
<1>. QED
    BY <1>1, <1>3, <1>4, FetchedFacts, QuietSync DEF IInv, TypeOK

\* The lookup: a row of the reference, or none because there is none.
LEMMA FindStep ==
    ASSUME IInv, NEW s \in Sync, Find(s)
    PROVE  IInv'
<1>0. sync[s] \in SyncRow /\ sync[s].pc = "find" /\ sync[s].next <= Len(Fetched)
    BY DEF IInv, TypeOK, Find, At
<1>1. PICK f : /\ f \in (IF Linked(Todo(s)) = {} THEN {Nothing} ELSE Linked(Todo(s)))
               /\ Goto(s, [pc |-> "write", next |-> sync[s].next, found |-> f])
    BY DEF Find
<1>2. f \in Id \cup {Nothing}
    BY <1>1 DEF Linked
<1>3. PICK row \in SyncRow : row = [pc |-> "write", next |-> sync[s].next, found |-> f]
    BY <1>0, <1>2 DEF SyncRow, SyncPC
<1>4. sync'[s] = row /\ Goto(s, row)
    BY <1>1, <1>3, OneSync DEF IInv
<1>5. UNCHANGED <<account, editor, consent, removed, patched>>
    BY DEF Find
<1>6. f # Nothing => account[f].ref = Todo(s)
    BY <1>1 DEF Linked
<1>7. f = Nothing => Linked(Todo(s)) = {}
    BY <1>1, AccountSyncAssumption DEF Linked
<1>8. SyncInv(s)'
    <2>1. SyncInv(s)
        BY DEF IInv
    <2>2. \A i : Brought(s, i)' = Brought(s, i)
        BY <1>5 DEF Brought, Linked
    <2>. QED
        BY <1>0, <1>3, <1>4, <1>5, <1>6, <2>1, <2>2 DEF SyncInv, Past, At, Todo
<1>. QED
    BY <1>0, <1>3, <1>4, <1>5, <1>7, <1>8, QuietSync DEF IInv, TypeOK, Todo

\* The audit entry of a sync that is through.
LEMMA AuditStep ==
    ASSUME IInv, NEW s \in Sync, Audit(s)
    PROVE  IInv'
<1>0. sync[s] \in SyncRow /\ sync[s].pc = "audit"
    BY DEF IInv, TypeOK, Audit, At
<1>1. PICK row \in SyncRow : row = [sync[s] EXCEPT !.pc = "done"]
    BY <1>0 DEF SyncRow, SyncPC
<1>2. /\ row.pc = "done" /\ row.next = sync[s].next
      /\ Goto(s, row) /\ sync'[s] = row
    BY <1>0, <1>1, OneSync DEF IInv, Audit, SyncRow
<1>3. UNCHANGED <<account, editor, consent, removed, patched>>
    BY DEF Audit
<1>4. SyncInv(s)'
    <2>1. SyncInv(s)
        BY DEF IInv
    <2>2. \A i : Brought(s, i)' = Brought(s, i)
        BY <1>3 DEF Brought, Linked
    <2>. QED
        BY <1>0, <1>2, <1>3, <2>1, <2>2 DEF SyncInv, Past, At, Todo
<1>. QED
    BY <1>2, <1>3, <1>4, QuietSync DEF IInv, TypeOK

\* Where the loop goes from here: one place on, and to the audit behind the last.
LEMMA AdvanceFacts ==
    ASSUME TypeOK, NEW s \in Sync, At(s, "write")
    PROVE  /\ Advance(s) \in SyncRow
           /\ Advance(s).next = sync[s].next + 1
           /\ Advance(s).pc \in {"find", "audit"}
           /\ Advance(s).pc = "find" => Advance(s).next <= Len(Fetched)
           /\ Advance(s).pc = "audit" => Advance(s).next = Len(Fetched) + 1
<1>1. sync[s] \in SyncRow /\ sync[s].pc = "write" /\ sync[s].next <= Len(Fetched)
    BY DEF TypeOK, At
<1>2. sync[s].next \in 1..Len(Fetched)
    BY <1>1, FetchedFacts DEF SyncRow
<1>3. sync[s].next + 1 \in 1..(Len(Fetched) + 1)
    BY <1>2, FetchedFacts
<1>4. sync[s].next # Len(Fetched) => sync[s].next + 1 <= Len(Fetched)
    BY <1>2, FetchedFacts
<1>5. Advance(s) \in SyncRow
    BY <1>3 DEF Advance, SyncRow, SyncPC
<1>. QED
    BY <1>2, <1>4, <1>5 DEF Advance

\* Having written the account it was at, a sync has brought one more.
LEMMA Progress ==
    ASSUME IInv, NEW s \in Sync, At(s, "write"), Goto(s, Advance(s)), Kept(s),
           UNCHANGED <<consent, removed, patched>>,
           NEW a \in Id, account'[a].live, account'[a].ref = Todo(s), account'[a].balance = "fetched"
    PROVE  SyncInv(s)'
<1>1. /\ sync'[s] = Advance(s) /\ Advance(s).next = sync[s].next + 1
      /\ Advance(s).pc \in {"find", "audit"}
      /\ Advance(s).pc = "audit" => Advance(s).next = Len(Fetched) + 1
    BY AdvanceFacts, OneSync DEF IInv
<1>2. sync[s] \in SyncRow /\ sync[s].next <= Len(Fetched) /\ SyncInv(s)
    BY DEF IInv, TypeOK, At
<1>3. consent
    BY <1>2 DEF SyncInv, Past, At
<1>4. ASSUME s \notin removed', NEW i \in 1..(sync[s].next + 1 - 1)
      PROVE  Brought(s, i)'
    <2>1. i \in 1..Len(Fetched) /\ Fetched[i] \in Ref
        BY <1>2, FetchedFacts DEF SyncRow
    <2>2. CASE i = sync[s].next
        <3>1. a \in Linked(Fetched[i])' /\ account'[a].balance = "fetched"
            BY <2>2 DEF Linked, Todo
        <3>. QED
            BY <3>1 DEF Brought
    <2>3. CASE i # sync[s].next
        <3>1. i \in 1..(sync[s].next - 1)
            BY <1>2, <2>3 DEF SyncRow
        <3>2. Brought(s, i)
            BY <1>2, <1>4, <3>1 DEF SyncInv, Past, At
        <3>3. \A b \in Linked(Fetched[i]) :
                  /\ b \in Linked(Fetched[i])'
                  /\ s \notin patched' /\ account[b].balance = "fetched" => account'[b].balance = "fetched"
            BY <1>4, <2>1 DEF Linked, Kept
        <3>. QED
            BY <3>2, <3>3 DEF Brought
    <2>. QED
        BY <2>2, <2>3
<1>5. /\ consent' /\ sync'[s].pc \in {"find", "audit"}
      /\ sync'[s].pc = "audit" => sync'[s].next = Len(Fetched) + 1
      /\ sync'[s].next = sync[s].next + 1
    BY <1>1, <1>3
<1>6. s \notin removed' => \A i \in 1..(sync'[s].next - 1) : Brought(s, i)'
    <2>. SUFFICES ASSUME s \notin removed', NEW i \in 1..(sync'[s].next - 1)
                  PROVE  Brought(s, i)'
        OBVIOUS
    <2>1. sync[s].next \in Nat
        BY <1>2 DEF SyncRow
    <2>2. i \in 1..(sync[s].next + 1 - 1)
        BY <1>5, <2>1
    <2>. QED
        BY <1>4, <2>2
<1>7. /\ sync'[s].pc # "write" /\ sync'[s].pc # "done"
      /\ sync'[s].pc \in {"audit", "done"} => sync'[s].next = Len(Fetched) + 1
    BY <1>5
<1>. QED
    BY <1>5, <1>6, <1>7 DEF SyncInv, At

\* The update of the row that was found, or the end of the sync if it is gone.
LEMMA UpdateFoundStep ==
    ASSUME IInv, NEW s \in Sync, UpdateFound(s)
    PROVE  IInv'
<1>. DEFINE a == sync[s].found
<1>0. /\ sync[s] \in SyncRow /\ a \in Id /\ At(s, "write") /\ sync[s].next \in 1..Len(Fetched)
      /\ UNCHANGED <<editor, consent, removed, patched>>
    BY FetchedFacts DEF IInv, TypeOK, UpdateFound, At, SyncRow
<1>1. account[a].ref = Todo(s) /\ Todo(s) \in Ref
    BY <1>0, FetchedFacts DEF IInv, SyncInv, UpdateFound, Todo
<1>2. CASE account[a].live
    <2>1. account' = [account EXCEPT ![a].balance = "fetched"] /\ Goto(s, Advance(s))
        BY <1>2 DEF UpdateFound
    <2>2. /\ account' \in [Id -> AccountRow]
          /\ \A b \in Id : account'[b].live = account[b].live /\ account'[b].ref = account[b].ref
          /\ \A b \in Id : b # a => account'[b] = account[b]
          /\ account'[a].balance = "fetched"
        BY <1>0, <2>1 DEF IInv, TypeOK, AccountRow
    <2>3. /\ sync' \in [Sync -> SyncRow] /\ sync'[s] = Advance(s)
          /\ \A q \in Sync : q # s => sync'[q] = sync[q]
          /\ Advance(s).pc \in {"find", "audit"}
          /\ Advance(s).pc = "find" => Advance(s).next <= Len(Fetched)
        BY <1>0, <2>1, AdvanceFacts, OneSync DEF IInv
    <2>4. \A q \in Sync : Kept(q)
        BY <2>2 DEF Kept
    <2>5. TypeOK'
        BY <1>0, <1>1, <2>2, <2>3 DEF IInv, TypeOK
    <2>6. SyncInv(s)'
        BY <1>0, <1>1, <1>2, <2>1, <2>2, <2>4, Progress
    <2>7. \A q \in Sync : q # s => SyncInv(q)'
        BY <1>0, <2>3, <2>4, OtherSync DEF IInv
    <2>8. Targets' /\ ConsentFirst'
        BY <1>0, <2>2 DEF IInv, Targets, ConsentFirst
    <2>9. Slots'
        <3>. SUFFICES ASSUME NEW ref \in Ref
                      PROVE  Cardinality(Linked(ref)') + Cardinality(Pending(ref)') <= Cardinality(Sync)
            BY DEF Slots
        <3>1. Linked(ref)' \subseteq Linked(ref)
            BY <2>2 DEF Linked
        <3>2. Pending(ref)' \subseteq Pending(ref)
            BY <2>3 DEF Pending, At, Todo
        <3>. QED
            BY <3>1, <3>2, NoMore
    <2>. QED
        BY <2>5, <2>6, <2>7, <2>8, <2>9 DEF IInv
<1>3. CASE ~account[a].live
    <2>1. account' = account /\ Goto(s, IdleSync)
        BY <1>3 DEF UpdateFound
    <2>2. IdleSync \in SyncRow /\ IdleSync.pc = "idle"
        BY FetchedFacts DEF IdleSync, SyncRow, SyncPC
    <2>3. sync'[s] = IdleSync
        BY <2>1, <2>2, OneSync DEF IInv
    <2>4. SyncInv(s)'
        BY <2>2, <2>3 DEF SyncInv, Past, At
    <2>. QED
        BY <1>0, <2>1, <2>2, <2>4, QuietSync DEF IInv, TypeOK
<1>. QED
    BY <1>2, <1>3

\* The create of a row for the reference the sync is at.
LEMMA CreateMissingStep ==
    ASSUME IInv, NEW s \in Sync, CreateMissing(s)
    PROVE  IInv'
<1>0. /\ sync[s] \in SyncRow /\ At(s, "write") /\ sync[s].found = Nothing
      /\ sync[s].next \in 1..Len(Fetched)
      /\ UNCHANGED <<editor, consent, removed, patched>> /\ Goto(s, Advance(s))
    BY FetchedFacts DEF IInv, TypeOK, CreateMissing, At, SyncRow
<1>1. Todo(s) \in Ref /\ consent
    BY <1>0, FetchedFacts DEF Todo, IInv, SyncInv, Past, At
<1>2. PICK a \in Fresh : account' = [account EXCEPT ![a] =
                            [live |-> TRUE, ref |-> Todo(s), balance |-> "fetched"]]
    BY DEF CreateMissing
<1>3. a \in Id /\ ~account[a].live /\ account[a].ref \notin Ref
    BY AccountSyncAssumption DEF Fresh, Unused
<1>4. /\ account' \in [Id -> AccountRow]
      /\ \A b \in Id : b # a => account'[b] = account[b]
      /\ account'[a] = [live |-> TRUE, ref |-> Todo(s), balance |-> "fetched"]
    BY <1>1, <1>2, <1>3 DEF IInv, TypeOK, AccountRow
<1>5. /\ sync' \in [Sync -> SyncRow] /\ sync'[s] = Advance(s)
      /\ \A q \in Sync : q # s => sync'[q] = sync[q]
      /\ Advance(s).pc \in {"find", "audit"}
      /\ Advance(s).pc = "find" => Advance(s).next <= Len(Fetched)
    BY <1>0, AdvanceFacts, OneSync DEF IInv
<1>6. \A q \in Sync : Kept(q)
    BY <1>3, <1>4 DEF Kept
<1>7. TypeOK'
    BY <1>0, <1>1, <1>4, <1>5 DEF IInv, TypeOK
<1>8. SyncInv(s)'
    BY <1>0, <1>3, <1>4, <1>6, Progress
<1>9. \A q \in Sync : q # s => SyncInv(q)'
    BY <1>0, <1>5, <1>6, OtherSync DEF IInv
<1>10. Targets' /\ ConsentFirst'
    BY <1>0, <1>1, <1>4 DEF IInv, Targets, ConsentFirst
<1>11. Slots'
    <2>. SUFFICES ASSUME NEW ref \in Ref
                  PROVE  Cardinality(Linked(ref)') + Cardinality(Pending(ref)') <= Cardinality(Sync)
        BY DEF Slots
    <2>1. Pending(ref)' \subseteq Pending(ref) \ {s}
        BY <1>5 DEF Pending, At, Todo
    <2>2. CASE ref = Todo(s)
        <3>1. Linked(ref)' = Linked(ref) \cup {a} /\ a \notin Linked(ref)
            BY <1>3, <1>4, <2>2 DEF Linked
        <3>2. s \in Pending(ref)
            BY <1>0, <2>2 DEF Pending
        <3>3. Cardinality(Linked(ref)') = Cardinality(Linked(ref)) + 1
            BY <3>1, Finite, FS_AddElement
        <3>4. /\ IsFiniteSet(Pending(ref) \ {s})
              /\ Cardinality(Pending(ref) \ {s}) = Cardinality(Pending(ref)) - 1
            BY <3>2, Finite, FS_RemoveElement
        <3>5. /\ Cardinality(Pending(ref)') \in Nat
              /\ Cardinality(Pending(ref)') <= Cardinality(Pending(ref) \ {s})
            BY <2>1, <3>4, FS_Subset, FS_CardinalityType
        <3>. QED
            BY <3>3, <3>4, <3>5, Finite DEF IInv, Slots
    <2>3. CASE ref # Todo(s)
        <3>1. Linked(ref)' \subseteq Linked(ref)
            BY <1>4, <2>3 DEF Linked
        <3>. QED
            BY <2>1, <3>1, NoMore
    <2>. QED
        BY <2>2, <2>3
<1>. QED
    BY <1>7, <1>8, <1>9, <1>10, <1>11 DEF IInv

\* The accounts of a user: the rows that change are not linked ones, or the
\* histories say that one was removed or typed over.
LEMMA EditStep ==
    ASSUME IInv, account' \in [Id -> AccountRow], editor' \in [Editor -> EditRow], Targets',
           removed' \in SUBSET Sync, patched' \in SUBSET Sync,
           removed \subseteq removed', patched \subseteq patched',
           consent' = consent, sync' = sync,
           \A s \in Sync : Kept(s),
           \A a \in Id : account'[a].balance = "fetched" => account'[a].ref \in Ref,
           \A a \in Id : account'[a].ref \in Ref =>
               account[a].ref = account'[a].ref /\ (account'[a].live => account[a].live)
    PROVE  IInv'
<1>1. TypeOK'
    BY DEF IInv, TypeOK
<1>2. \A s \in Sync : SyncInv(s)'
    BY OtherSync DEF IInv
<1>3. ConsentFirst'
    BY DEF IInv, ConsentFirst
<1>4. Slots'
    <2>. SUFFICES ASSUME NEW ref \in Ref
                  PROVE  Cardinality(Linked(ref)') + Cardinality(Pending(ref)') <= Cardinality(Sync)
        BY DEF Slots
    <2>1. Linked(ref)' \subseteq Linked(ref) /\ Pending(ref)' \subseteq Pending(ref)
        BY DEF Linked, Pending, At, Todo
    <2>. QED
        BY <2>1, NoMore
<1>. QED
    BY <1>1, <1>2, <1>3, <1>4 DEF IInv

\* An account typed in has no reference.
LEMMA CreateTypedStep == ASSUME IInv, CreateTyped PROVE IInv'
<1>1. PICK a \in Fresh : account' = [account EXCEPT ![a] =
                            [live |-> TRUE, ref |-> NoRef, balance |-> "typed"]]
    BY DEF CreateTyped
<1>2. a \in Id /\ account[a].ref = NoRef
    BY DEF Fresh, Unused
<1>3. /\ account' \in [Id -> AccountRow]
      /\ \A b \in Id : b # a => account'[b] = account[b]
      /\ account'[a].ref = NoRef /\ account'[a].balance = "typed"
    BY <1>1, <1>2 DEF IInv, TypeOK, AccountRow
<1>4. UNCHANGED <<consent, sync, editor, removed, patched>>
    BY DEF CreateTyped
<1>5. \A s \in Sync : Kept(s)
    BY <1>2, <1>3, AccountSyncAssumption DEF Kept
<1>6. \A b \in Id : /\ account'[b].balance = "fetched" => account'[b].ref \in Ref
                    /\ account'[b].ref \in Ref => b # a
    BY <1>3, AccountSyncAssumption DEF IInv, TypeOK
<1>. QED
    BY <1>3, <1>4, <1>5, <1>6, EditStep DEF IInv, TypeOK, Targets

\* ownedAccount names a row.
LEMMA OwnedStep == ASSUME IInv, NEW e \in Editor, NEW a \in Id, Owned(e, a) PROVE IInv'
<1>1. PICK pc \in {"update", "remove"} : editor' = [editor EXCEPT ![e] = [pc |-> pc, id |-> a]]
    BY DEF Owned
<1>2. [pc |-> pc, id |-> a] \in EditRow
    BY DEF EditRow
<1>3. editor' \in [Editor -> EditRow] /\ Targets'
    BY <1>1, <1>2 DEF IInv, TypeOK, Targets
<1>4. UNCHANGED <<account, consent, sync, removed, patched>>
    BY DEF Owned
<1>5. \A s \in Sync : Kept(s)
    BY <1>4 DEF Kept
<1>. QED
    BY <1>3, <1>4, <1>5, EditStep DEF IInv, TypeOK

\* A balance typed over is one that patched tells of; a removed row leaves removed behind.
LEMMA WriteStep == ASSUME IInv, NEW e \in Editor, Update(e) \/ Remove(e) PROVE IInv'
<1>. DEFINE a == editor[e].id
<1>1. a \in Id /\ account[a] \in AccountRow
    BY DEF IInv, TypeOK, Targets, Update, Remove
<1>2. IdleEdit \in EditRow /\ IdleEdit.pc = "idle" /\ editor' = [editor EXCEPT ![e] = IdleEdit]
    BY DEF IdleEdit, EditRow, Update, Remove
<1>3. editor' \in [Editor -> EditRow] /\ Targets'
    BY <1>2 DEF IInv, TypeOK, Targets
<1>4. /\ consent' = consent /\ sync' = sync
      /\ removed' \in {removed, Sync} /\ patched' \in {patched, Sync}
    BY DEF Update, Remove
<1>5. /\ account' \in [Id -> AccountRow]
      /\ \A b \in Id : account'[b].ref = account[b].ref /\ (account'[b].live => account[b].live)
      /\ \A b \in Id : b # a => account'[b] = account[b]
      /\ \A b \in Id : account'[b].balance = "fetched" => account[b].balance = "fetched"
    <2>1. CASE Update(e)
        BY <1>1, <2>1 DEF Update, IInv, TypeOK, AccountRow
    <2>2. CASE Remove(e)
        BY <1>1, <2>2 DEF Remove, IInv, TypeOK, AccountRow
    <2>. QED
        BY <2>1, <2>2
<1>6. \A s \in Sync : Kept(s)
    <2>1. CASE Update(e)
        <3>1. account'[a].live = account[a].live
            BY <1>1, <2>1 DEF Update, IInv, TypeOK, AccountRow
        <3>2. account[a].live => patched' = Sync
            BY <2>1 DEF Update
        <3>3. ~account[a].live => account' = account
            BY <2>1 DEF Update
        <3>. QED
            BY <1>5, <3>1, <3>2, <3>3 DEF Kept
    <2>2. CASE Remove(e)
        <3>1. account'[a].balance = account[a].balance
            BY <1>1, <2>2 DEF Remove, IInv, TypeOK, AccountRow
        <3>2. account[a].live /\ account[a].ref \in Ref => removed' = Sync
            BY <2>2, AccountSyncAssumption DEF Remove
        <3>. QED
            BY <1>5, <3>1, <3>2 DEF Kept
    <2>. QED
        BY <2>1, <2>2
<1>. QED
    BY <1>3, <1>4, <1>5, <1>6, EditStep DEF IInv, TypeOK

\* The invariant holds however syncs, edits and deaths of instances are interleaved.
THEOREM Invariance == Spec => []IInv
<1>1. IInv /\ [Next]_vars => IInv'
    <2>. SUFFICES ASSUME IInv, [Next]_vars PROVE IInv'
        OBVIOUS
    <2>1. ASSUME NEW s \in Sync, Aa(s) PROVE IInv'
        BY <2>1, OutsideStep, FindConsentStep, FindStep, AuditStep, UpdateFoundStep,
           CreateMissingStep DEF Aa
    <2>2. ASSUME NEW e \in Editor, Edit(e) PROVE IInv'
        BY <2>2, OwnedStep, WriteStep DEF Edit
    <2>3. CASE UNCHANGED vars
        <3>1. UNCHANGED <<account, consent, sync, editor, removed, patched>>
            BY <2>3 DEF vars
        <3>. QED
            BY <3>1, EditStep DEF IInv, TypeOK, Targets, Kept
    <2>. QED
        BY <2>1, <2>2, <2>3, CreateTypedStep DEF Next
<1>. QED
    BY <1>1, InitInv, PTL DEF Spec

\* An answered sync has a row for every account the aggregator reported, with the
\* fetched balance unless the user removed one or typed over one meanwhile (the loop
\* of sync, aa.module.ts).
THEOREM SyncIsComplete == Spec => []CompletedSyncIsComplete
<1>1. IInv => CompletedSyncIsComplete
    <2>. SUFFICES ASSUME IInv, NEW s \in Sync, At(s, "done"), s \notin removed,
                         NEW i \in 1..Len(Fetched)
                  PROVE  Brought(s, i)
        BY DEF CompletedSyncIsComplete, Brought
    <2>1. sync[s].next - 1 = Len(Fetched)
        BY FetchedFacts DEF IInv, SyncInv, At
    <2>. QED
        BY <2>1 DEF IInv, SyncInv, At, Past
<1>. QED
    BY <1>1, Invariance, PTL

\* A reference never has more rows than there are concurrent syncs (findFirst
\* followed by create, without a unique key).
THEOREM DuplicatesAreBounded == Spec => []DuplicatesBounded
<1>1. IInv => DuplicatesBounded
    BY Finite DEF IInv, Slots, DuplicatesBounded
<1>. QED
    BY <1>1, Invariance, PTL

\* No account arrives from an aggregator before the user consented.
THEOREM ConsentComesFirst == Spec => []ConsentFirst
<1>1. IInv => ConsentFirst
    BY DEF IInv
<1>. QED
    BY <1>1, Invariance, PTL

\* Types, for any aggregator.
THEOREM TypeCorrect == Spec => []TypeOK
<1>1. IInv => TypeOK
    BY DEF IInv
<1>. QED
    BY <1>1, Invariance, PTL
------------------------------------------------------------------------------
(* The family and the dependents of the profile *)

\* A request about to write, whose graph nobody changed since, holds the count.
FreshCount ==
    \A r \in Request : Stage(r, "write") /\ request[r].at = version
        => request[r].seen = Dependents

\* A count is never from the future.
CountedBefore == \A r \in Request : request[r].at <= version

FamilyInv == FamilyTypeOK /\ CountedBefore /\ FreshCount /\ DriftHasCause
------------------------------------------------------------------------------
\* The dependents of a family are a number.
LEMMA DependentsIsNat == Dependents \in Nat
<1>1. IsFiniteSet({m \in Member : member[m] = "dependent"})
    BY FamilyAssumption, FS_Subset
<1>. QED
    BY <1>1, FS_CardinalityType DEF Dependents

\* Before the first request the family is empty and the profile, if any, says 0.
LEMMA FamilyInitInv == FamilyInit => FamilyInv
<1>. SUFFICES ASSUME FamilyInit PROVE FamilyInv
    OBVIOUS
<1>1. FamilyTypeOK
    BY FamilyAssumption DEF FamilyInit, FamilyTypeOK, Row, ProfileRow, RequestRow, Idle, Cause
<1>2. {m \in Member : member[m] = "dependent"} = {}
    BY DEF FamilyInit
<1>3. Dependents = 0
    BY <1>2, FS_EmptySet DEF Dependents
<1>4. \A r \in Request : request[r].pc = "idle"
    BY DEF FamilyInit, Idle
<1>. QED
    BY <1>1, <1>3, <1>4 DEF FamilyInit, FamilyInv, CountedBefore, FreshCount, DriftHasCause, InStep, Stage, Idle

\* As long as nobody touches the graph, its count stays.
LEMMA SameGraph == member' = member => Dependents' = Dependents
BY DEF Dependents

\* A step that changes only the row of one request.
LEMMA OneRequest ==
    ASSUME FamilyTypeOK, NEW r \in Request, NEW row \in RequestRow,
           request' = [request EXCEPT ![r] = row]
    PROVE  /\ request' \in [Request -> RequestRow]
           /\ request'[r] = row
           /\ \A q \in Request : q # r => request'[q] = request[q]
BY DEF FamilyTypeOK

\* A change of the graph makes every count taken before it stale.
LEMMA ChangeStep ==
    ASSUME FamilyInv, NEW r \in Request, NEW m \in Member, NEW row \in Row, Change(r, m, row)
    PROVE  FamilyInv'
<1>. USE DEF FamilyInv
<1>1. PICK new \in RequestRow : new = [pc |-> "count", seen |-> 0, at |-> 0]
    BY DEF RequestRow
<1>2. /\ request' = [request EXCEPT ![r] = new]
      /\ version < MaxChanges /\ version' = version + 1
      /\ member' = [member EXCEPT ![m] = row]
      /\ UNCHANGED <<profile, cause>>
    BY <1>1 DEF Change, Counting
<1>3. /\ request' \in [Request -> RequestRow]
      /\ request'[r] = new
      /\ \A q \in Request : q # r => request'[q] = request[q]
    BY <1>2, OneRequest
<1>4. FamilyTypeOK'
    BY <1>2, <1>3, FamilyAssumption DEF FamilyTypeOK
<1>5. version \in Nat /\ \A q \in Request : request[q].at \in Nat
    BY FamilyAssumption DEF FamilyTypeOK, RequestRow
<1>6. new.at = 0 /\ CountedBefore'
    BY <1>1, <1>2, <1>3, <1>5 DEF CountedBefore
<1>7. FreshCount'
    <2>1. ASSUME NEW q \in Request, q # r PROVE request[q].at # version'
        BY <1>2, <1>5, <2>1 DEF CountedBefore
    <2>. QED
        BY <1>1, <1>3, <2>1 DEF FreshCount, Stage
<1>8. DriftHasCause'
    BY <1>1, <1>3 DEF DriftHasCause, Quiet, Stage
<1>. QED
    BY <1>4, <1>7, <1>8, <1>6

\* Counting, or finding nothing to delete, leaves graph and profile alone.
LEMMA CountStep ==
    ASSUME FamilyInv, NEW r \in Request, Count(r) \/ RemoveNothing(r)
    PROVE  FamilyInv'
<1>. USE DEF FamilyInv
<1>1. version \in Nat
    BY FamilyAssumption DEF FamilyTypeOK
<1>2. PICK new \in RequestRow :
          /\ request' = [request EXCEPT ![r] = new]
          /\ new.pc # "idle"
          /\ new.pc = "write" => new.seen = Dependents
          /\ new.at <= version
    <2>1. CASE Count(r)
        <3>1. PICK new \in RequestRow :
                  new = [pc |-> "write", seen |-> Dependents, at |-> version]
            BY <1>1, DependentsIsNat DEF RequestRow
        <3>2. new.pc = "write" /\ new.seen = Dependents /\ new.at <= version
            BY <1>1, <3>1
        <3>3. request' = [request EXCEPT ![r] = new]
            BY <2>1, <3>1 DEF Count
        <3>. QED
            BY <3>2, <3>3
    <2>2. CASE RemoveNothing(r)
        <3>1. PICK new \in RequestRow : new = Counting
            BY DEF RequestRow, Counting
        <3>2. new.pc = "count" /\ new.at <= version
            BY <1>1, <3>1 DEF Counting
        <3>3. request' = [request EXCEPT ![r] = new]
            BY <2>2, <3>1 DEF RemoveNothing
        <3>. QED
            BY <3>2, <3>3
    <2>. QED
        BY <2>1, <2>2
<1>3. UNCHANGED <<member, profile, version, cause>>
    BY DEF Count, RemoveNothing
<1>4. /\ request' \in [Request -> RequestRow]
      /\ request'[r] = new
      /\ \A q \in Request : q # r => request'[q] = request[q]
    BY <1>2, OneRequest
<1>5. FamilyTypeOK'
    BY <1>3, <1>4 DEF FamilyTypeOK
<1>6. FreshCount'
    BY <1>2, <1>3, <1>4, SameGraph DEF FreshCount, Stage
<1>7. DriftHasCause'
    BY <1>2, <1>4 DEF DriftHasCause, Quiet, Stage
<1>8. CountedBefore'
    BY <1>2, <1>3, <1>4 DEF CountedBefore
<1>. QED
    BY <1>5, <1>6, <1>7, <1>8

\* A write with a count that still holds puts the profile in step; any other
\* write, and a crash, leave a cause behind.
LEMMA EndStep ==
    ASSUME FamilyInv, NEW r \in Request, Write(r) \/ Crash(r)
    PROVE  FamilyInv'
<1>. USE DEF FamilyInv
<1>1. Idle \in RequestRow /\ Idle.pc = "idle"
    BY DEF Idle, RequestRow
<1>2. request' = [request EXCEPT ![r] = Idle] /\ UNCHANGED <<member, version>>
    BY DEF Write, Crash
<1>3. /\ request' \in [Request -> RequestRow]
      /\ request'[r] = Idle
      /\ \A q \in Request : q # r => request'[q] = request[q]
    BY <1>1, <1>2, OneRequest
<1>4. request[r].seen \in Nat
    BY DEF FamilyTypeOK, RequestRow
<1>5. profile' \in ProfileRow /\ cause' \in SUBSET Cause
    <2>1. {request[r].seen} \in ProfileRow /\ {} \in ProfileRow
        BY <1>4 DEF ProfileRow
    <2>2. "crash" \in Cause /\ "overlap" \in Cause
        BY DEF Cause
    <2>3. profile \in ProfileRow /\ cause \in SUBSET Cause
        BY DEF FamilyTypeOK
    <2>. QED
        BY <2>1, <2>2, <2>3 DEF Write, Crash
<1>6. FamilyTypeOK'
    BY <1>2, <1>3, <1>5 DEF FamilyTypeOK
<1>7. FreshCount'
    BY <1>1, <1>2, <1>3, SameGraph DEF FreshCount, Stage
<1>8. cause' = {} => Write(r) /\ request[r].at = version
    BY DEF Write, Crash
<1>9. cause' = {} => InStep'
    BY <1>2, <1>8, SameGraph DEF FreshCount, Write, InStep, Stage
<1>10. CountedBefore'
    BY <1>2, <1>3, FamilyAssumption DEF CountedBefore, FamilyTypeOK, Idle
<1>. QED
    BY <1>6, <1>7, <1>9, <1>10 DEF DriftHasCause

\* A profile edit leaves a cause behind, or nothing changed.
LEMMA ProfileStep ==
    ASSUME FamilyInv, NEW given \in {{}} \cup {{n} : n \in Typed}, upsertProfile(given)
    PROVE  FamilyInv'
<1>. USE DEF FamilyInv
<1>1. UNCHANGED <<member, request, version>>
    BY DEF upsertProfile
<1>2. profile' \in ProfileRow /\ cause' \in SUBSET Cause
    <2>1. given \in ProfileRow /\ {0} \in ProfileRow /\ profile \in ProfileRow
        BY FamilyAssumption DEF ProfileRow, FamilyTypeOK
    <2>2. profile' \in {given, {0}, profile}
        BY DEF upsertProfile
    <2>3. cause' \in SUBSET Cause
        BY DEF upsertProfile, FamilyTypeOK, Cause
    <2>. QED
        BY <2>1, <2>2, <2>3
<1>3. FamilyTypeOK'
    BY <1>1, <1>2 DEF FamilyTypeOK
<1>4. cause' = {} => cause = {} /\ profile' = profile
    BY DEF upsertProfile
<1>5. CountedBefore' /\ FreshCount'
    BY <1>1, SameGraph DEF CountedBefore, FreshCount, Stage
<1>6. DriftHasCause'
    <2>1. Quiet' = Quiet /\ Dependents' = Dependents
        BY <1>1, SameGraph DEF Quiet, Stage
    <2>. QED
        BY <1>4, <2>1 DEF DriftHasCause, InStep
<1>. QED
    BY <1>3, <1>5, <1>6

\* The invariant holds whatever requests, crashes and profile edits are interleaved.
THEOREM FamilyInvariance == FamilySpec => []FamilyInv
<1>1. FamilyInv /\ [FamilyNext]_familyVars => FamilyInv'
    <2>. SUFFICES ASSUME FamilyInv, [FamilyNext]_familyVars PROVE FamilyInv'
        OBVIOUS
    <2>1. ASSUME NEW r \in Request, Handle(r) PROVE FamilyInv'
        <3>1. ASSUME NEW m \in Member, Create(r, m) \/ RemoveMember(r, m) PROVE FamilyInv'
            BY <3>1, ChangeStep DEF Create, RemoveMember, Row
        <3>. QED
            BY <2>1, <3>1, CountStep, EndStep DEF Handle
    <2>2. CASE UNCHANGED familyVars
        BY <2>2, SameGraph
        DEF familyVars, FamilyInv, FamilyTypeOK, CountedBefore, FreshCount, DriftHasCause, Quiet, InStep, Stage
    <2>. QED
        BY <2>1, <2>2, ProfileStep DEF FamilyNext
<1>. QED
    BY <1>1, FamilyInitInv, PTL DEF FamilySpec

\* Profile.dependents is right whenever nothing is under way, unless two requests
\* overlapped, one died, or the profile was edited.
THEOREM DriftNeedsCause == FamilySpec => []DriftHasCause
<1>1. FamilyInv => DriftHasCause
    BY DEF FamilyInv
<1>. QED
    BY <1>1, FamilyInvariance, PTL

\* Types, for any family; in particular a user has at most one profile row.
THEOREM FamilyTypeCorrect == FamilySpec => []FamilyTypeOK
<1>1. FamilyInv => FamilyTypeOK
    BY DEF FamilyInv
<1>. QED
    BY <1>1, FamilyInvariance, PTL
==============================================================================
