---------------------------- MODULE AccountSync ----------------------------
(***************************************************************************)
(* apps/api/src/aa/aa.module.ts and the accounts service, for one user:    *)
(* consent, and a sync that looks up and then writes one account for every *)
(* account the aggregator reports, while other syncs run and the user      *)
(* edits and removes accounts.                                             *)
(***************************************************************************)
EXTENDS Naturals, FiniteSets, Sequences

CONSTANTS Id,       \* ids the database hands out, each once
          Ref,      \* aaAccountRef values
          NoRef,    \* of an account the user typed in
          Fetched,  \* sandboxAccounts(): the references, in order
          Sync,     \* concurrent calls of AaService
          Editor,   \* concurrent calls of AccountsService
          Sandbox   \* aa.sandbox

Nothing == "nothing"  \* what findFirst returns when there is no row

ASSUME AccountSyncAssumption ==
    /\ IsFiniteSet(Id) /\ IsFiniteSet(Sync)
    /\ Nothing \notin Id
    /\ NoRef \notin Ref
    /\ Fetched \in Seq(Ref) /\ Fetched # <<>>
    /\ \A i, j \in 1..Len(Fetched) : Fetched[i] = Fetched[j] => i = j
    /\ Sandbox \in BOOLEAN

VARIABLES account, \* Account rows of the user
          consent, \* a Consent row for account_aggregation with granted = TRUE
          sync,    \* AaService calls between two statements
          editor,  \* AccountsService calls between ownedAccount and the write
          removed, \* HISTORY: syncs under which a linked account was removed
          patched  \* HISTORY: syncs under which a balance was typed over

vars == <<account, consent, sync, editor, removed, patched>>
------------------------------------------------------------------------------
Unused  == [live |-> FALSE, ref |-> NoRef, balance |-> "none"]

AccountRow == [live : BOOLEAN, ref : Ref \cup {NoRef},
               balance : {"none", "typed", "fetched"}]
SyncPC  == {"idle", "grant", "consent", "find", "write", "audit", "done"}
SyncRow == [pc : SyncPC, next : 1..(Len(Fetched) + 1), found : Id \cup {Nothing}]
EditRow == [pc : {"idle", "update", "remove"}, id : Id \cup {Nothing}]

IdleSync == [pc |-> "idle", next |-> 1, found |-> Nothing]
IdleEdit == [pc |-> "idle", id |-> Nothing]

Linked(ref) == {a \in Id : account[a].live /\ account[a].ref = ref}
Fresh       == {a \in Id : account[a] = Unused}
At(s, pc)   == sync[s].pc = pc
Todo(s)     == Fetched[sync[s].next]

TypeOK ==
    /\ account \in [Id -> AccountRow]
    /\ consent \in BOOLEAN
    /\ sync \in [Sync -> SyncRow]
    /\ editor \in [Editor -> EditRow]
    /\ removed \in SUBSET Sync /\ patched \in SUBSET Sync
    /\ \A a \in Id : account[a].balance = "fetched" => account[a].ref \in Ref
    /\ \A s \in Sync : sync[s].pc \in {"find", "write"} => sync[s].next <= Len(Fetched)

Init ==
    /\ account = [a \in Id |-> Unused]
    /\ consent = FALSE
    /\ sync = [s \in Sync |-> IdleSync]
    /\ editor = [e \in Editor |-> IdleEdit]
    /\ removed = {} /\ patched = {}
------------------------------------------------------------------------------
(* AaService *)

Goto(s, row) == sync' = [sync EXCEPT ![s] = row]

\* initiateConsent or sync gets past assertEnabled (module Access); a call that
\* it rejects changes nothing.
Begin(s) ==
    /\ At(s, "idle")
    /\ \E pc \in {"grant", "consent"} : Goto(s, [IdleSync EXCEPT !.pc = pc])
    /\ removed' = removed \ {s} /\ patched' = patched \ {s}
    /\ UNCHANGED <<account, consent, editor>>

\* initiateConsent: granted at once in sandbox mode, and never in live mode.
Grant(s) ==
    /\ At(s, "grant")
    /\ consent' = (consent \/ Sandbox)
    /\ Goto(s, IdleSync)
    /\ UNCHANGED <<editor, account, removed, patched>>

\* FAULT: a sync does not look for a consent.
FindConsentSkipped(s) ==
    /\ At(s, "consent")
    /\ Goto(s, IF Sandbox THEN [IdleSync EXCEPT !.pc = "find"] ELSE IdleSync)
    /\ UNCHANGED <<editor, account, consent, removed, patched>>

\* The consent of sync; without one 400, and in live mode the fetch throws.
FindConsent(s) ==
    /\ At(s, "consent")
    /\ Goto(s, IF consent /\ Sandbox THEN [IdleSync EXCEPT !.pc = "find"] ELSE IdleSync)
    /\ UNCHANGED <<editor, account, consent, removed, patched>>

\* FAULT: the lookup asks for a provider under another name.
FindOtherProvider(s) ==
    /\ At(s, "find")
    /\ Goto(s, [pc |-> "write", next |-> sync[s].next, found |-> Nothing])
    /\ UNCHANGED <<editor, account, consent, removed, patched>>

\* findFirst by reference: any of the rows that have it.
Find(s) ==
    /\ At(s, "find")
    /\ \E f \in IF Linked(Todo(s)) = {} THEN {Nothing} ELSE Linked(Todo(s)) :
           Goto(s, [pc |-> "write", next |-> sync[s].next, found |-> f])
    /\ UNCHANGED <<editor, account, consent, removed, patched>>

\* FAULT: the loop stops one account early.
AdvanceEarly(s) ==
    [pc |-> IF sync[s].next + 1 >= Len(Fetched) THEN "audit" ELSE "find",
     next |-> sync[s].next + 1, found |-> Nothing]

\* The next iteration of the loop, or the audit entry behind it.
Advance(s) ==
    [pc |-> IF sync[s].next = Len(Fetched) THEN "audit" ELSE "find",
     next |-> sync[s].next + 1, found |-> Nothing]

\* update of the row that was found; a row removed meanwhile fails the sync.
UpdateFound(s) ==
    LET a == sync[s].found IN
    /\ At(s, "write") /\ a # Nothing
    /\ IF account[a].live
       THEN account' = [account EXCEPT ![a].balance = "fetched"] /\ Goto(s, Advance(s))
       ELSE account' = account /\ Goto(s, IdleSync)
    /\ UNCHANGED <<editor, consent, removed, patched>>

\* create of a row for a reference that had none when it was looked up.
CreateMissing(s) ==
    /\ At(s, "write") /\ sync[s].found = Nothing
    /\ \E a \in Fresh : account' = [account EXCEPT ![a] =
           [live |-> TRUE, ref |-> Todo(s), balance |-> "fetched"]]
    /\ Goto(s, Advance(s))
    /\ UNCHANGED <<editor, consent, removed, patched>>

\* The audit entry, and the answer.
Audit(s) ==
    /\ At(s, "audit")
    /\ Goto(s, [sync[s] EXCEPT !.pc = "done"])
    /\ UNCHANGED <<editor, account, consent, removed, patched>>

\* The caller has the answer, or the instance died somewhere in the call.
End(s) ==
    /\ ~At(s, "idle")
    /\ Goto(s, IdleSync)
    /\ UNCHANGED <<editor, account, consent, removed, patched>>
------------------------------------------------------------------------------
(* AccountsService *)

\* create: an account the user types in.
CreateTyped ==
    /\ \E a \in Fresh : account' = [account EXCEPT ![a] =
           [live |-> TRUE, ref |-> NoRef, balance |-> "typed"]]
    /\ UNCHANGED <<consent, sync, editor, removed, patched>>

\* ownedAccount of update and remove.
Owned(e, a) ==
    /\ editor[e].pc = "idle" /\ account[a].live
    /\ \E pc \in {"update", "remove"} :
           editor' = [editor EXCEPT ![e] = [pc |-> pc, id |-> a]]
    /\ UNCHANGED <<account, consent, sync, removed, patched>>

\* update: a balance the user types; nothing when the row is gone (404).
Update(e) ==
    LET a == editor[e].id IN
    /\ editor[e].pc = "update"
    /\ account' = IF account[a].live THEN [account EXCEPT ![a].balance = "typed"]
                  ELSE account
    /\ patched' = IF account[a].live THEN Sync ELSE patched
    /\ editor' = [editor EXCEPT ![e] = IdleEdit]
    /\ UNCHANGED <<consent, sync, removed>>

\* remove: the row goes for good.
Remove(e) ==
    LET a == editor[e].id IN
    /\ editor[e].pc = "remove"
    /\ account' = [account EXCEPT ![a].live = FALSE]
    /\ removed' = IF account[a].live /\ account[a].ref # NoRef THEN Sync ELSE removed
    /\ editor' = [editor EXCEPT ![e] = IdleEdit]
    /\ UNCHANGED <<consent, sync, patched>>

Aa(s) ==
    \/ Begin(s) \/ Grant(s) \/ FindConsent(s) \/ Find(s) \/ UpdateFound(s)
    \/ CreateMissing(s) \/ Audit(s) \/ End(s)

Edit(e) == (\E a \in Id : Owned(e, a)) \/ Update(e) \/ Remove(e)

Next ==
    \/ \E s \in Sync : Aa(s)
    \/ \E e \in Editor : Edit(e)
    \/ CreateTyped

Spec == Init /\ [][Next]_vars
------------------------------------------------------------------------------
(* Properties *)

\* However many syncs race, a reference has at most as many rows as there are
\* concurrent syncs: one, when syncs run one at a time.
DuplicatesBounded == \A ref \in Ref : Cardinality(Linked(ref)) <= Cardinality(Sync)

\* A sync that answers has brought every reported account: a row for each, with
\* the fetched balance unless the user typed or removed something meanwhile.
CompletedSyncIsComplete ==
    \A s \in Sync : At(s, "done") /\ s \notin removed =>
        \A i \in 1..Len(Fetched) :
            /\ Linked(Fetched[i]) # {}
            /\ s \notin patched =>
                  \E a \in Linked(Fetched[i]) : account[a].balance = "fetched"

\* No account arrives from an aggregator before the user consented.
ConsentFirst == \A a \in Id : account[a].ref \in Ref => consent
=============================================================================
