------------------------------- MODULE Family -------------------------------
(***************************************************************************)
(* apps/api/src/family/family.module.ts for one user: every change of the  *)
(* family graph is followed by syncDependents, a COUNT and an UPDATE of    *)
(* Profile.dependents, with no transaction around the three statements.    *)
(***************************************************************************)
EXTENDS Naturals, FiniteSets

CONSTANTS Member,      \* ids of FamilyMember rows
          Request,     \* concurrent POST /family and DELETE /family/:id
          Typed,       \* dependents a user types into PUT /profile
          MaxChanges   \* bound on changes of the family graph

ASSUME FamilyAssumption ==
    /\ IsFiniteSet(Member)
    /\ Typed \subseteq Nat
    /\ MaxChanges \in Nat

VARIABLES member,   \* FamilyMember rows: absent, dependent or other
          profile,  \* Profile.dependents: {n}, or {} without a profile row
          request,  \* requests between two statements
          version,  \* HISTORY: changes of the family graph so far
          cause     \* HISTORY: why Profile.dependents may be off since the last sync

familyVars == <<member, profile, request, version, cause>>
------------------------------------------------------------------------------
Row        == {"unused", "dependent", "other", "removed"}
RequestRow == [pc : {"idle", "count", "write"}, seen : Nat, at : Nat]
ProfileRow == {p \in SUBSET Nat : \A a, b \in p : a = b}
Counting   == [pc |-> "count", seen |-> 0, at |-> 0]
Idle       == [pc |-> "idle", seen |-> 0, at |-> 0]
Cause      == {"overlap", "crash", "profile"}

Dependents == Cardinality({m \in Member : member[m] = "dependent"})
Present(m) == member[m] \in {"dependent", "other"}
Stage(r, pc)  == request[r].pc = pc

FamilyTypeOK ==
    /\ member \in [Member -> Row]
    /\ profile \in ProfileRow
    /\ request \in [Request -> RequestRow]
    /\ version \in 0..MaxChanges
    /\ cause \in SUBSET Cause

FamilyInit ==
    /\ member = [m \in Member |-> "unused"]
    /\ profile \in {{}, {0}}
    /\ request = [r \in Request |-> Idle]
    /\ version = 0
    /\ cause = {}
------------------------------------------------------------------------------
\* The statement that changes the graph; a count has to follow.
Change(r, m, row) ==
    /\ Stage(r, "idle")
    /\ version < MaxChanges
    /\ member' = [member EXCEPT ![m] = row]
    /\ version' = version + 1
    /\ request' = [request EXCEPT ![r] = Counting]
    /\ UNCHANGED <<profile, cause>>

\* create: a fresh row; a member is a dependent unless the request says not.
Create(r, m) ==
    /\ member[m] = "unused"
    /\ \E row \in {"dependent", "other"} : Change(r, m, row)

\* remove: deleteMany of a row of this user.
RemoveMember(r, m) == Present(m) /\ Change(r, m, "removed")

\* remove of an id that is gone: deleteMany matches nothing, and still syncs.
RemoveNothing(r) ==
    /\ Stage(r, "idle")
    /\ request' = [request EXCEPT ![r] = Counting]
    /\ UNCHANGED <<member, profile, version, cause>>

\* FAULT: everybody in the family is counted.
CountAll(r) ==
    /\ Stage(r, "count")
    /\ request' = [request EXCEPT ![r] =
           [pc |-> "write", seen |-> Cardinality({m \in Member : Present(m)}),
            at |-> version]]
    /\ UNCHANGED <<member, profile, version, cause>>

\* syncDependents, first statement.
Count(r) ==
    /\ Stage(r, "count")
    /\ request' = [request EXCEPT ![r] =
           [pc |-> "write", seen |-> Dependents, at |-> version]]
    /\ UNCHANGED <<member, profile, version, cause>>

\* syncDependents, second statement: updateMany, no row without a profile.
Write(r) ==
    /\ Stage(r, "write")
    /\ profile' = IF profile = {} THEN {} ELSE {request[r].seen}
    /\ cause' = IF request[r].at = version THEN {} ELSE cause \cup {"overlap"}
    /\ request' = [request EXCEPT ![r] = Idle]
    /\ UNCHANGED <<member, version>>

\* The instance dies before the sync is through.
Crash(r) ==
    /\ ~Stage(r, "idle")
    /\ request' = [request EXCEPT ![r] = Idle]
    /\ cause' = cause \cup {"crash"}
    /\ UNCHANGED <<member, profile, version>>

\* PUT /profile (profile.service.ts): creates the row with 0 dependents, or with
\* what the user typed, and overwrites the column when dependents are given.
upsertProfile(given) ==
    /\ profile' = IF given # {} THEN given
                  ELSE IF profile = {} THEN {0} ELSE profile
    /\ cause' = IF profile' = profile THEN cause ELSE cause \cup {"profile"}
    /\ UNCHANGED <<member, request, version>>

Handle(r) ==
    \/ \E m \in Member : Create(r, m) \/ RemoveMember(r, m)
    \/ RemoveNothing(r) \/ Count(r) \/ Write(r) \/ Crash(r)

FamilyNext ==
    \/ \E r \in Request : Handle(r)
    \/ \E given \in {{}} \cup {{n} : n \in Typed} : upsertProfile(given)

FamilySpec == FamilyInit /\ [][FamilyNext]_familyVars
------------------------------------------------------------------------------
Quiet == \A r \in Request : Stage(r, "idle")
InStep == profile \subseteq {Dependents}

\* When nothing is under way, Profile.dependents is the number of dependents,
\* unless since the last sync two requests overlapped, a handler died between
\* change and sync, or the profile itself was written.
DriftHasCause == Quiet /\ cause = {} => InStep
=============================================================================
