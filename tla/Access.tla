------------------------------- MODULE Access -------------------------------
(***************************************************************************)
(* BillingService.entitlements and the gates built on it, for one user:    *)
(* tier, overrides and plans are read by three statements, while admins    *)
(* and webhooks change all three.  A gate (ai.controller.ts, aa.module.ts) *)
(* then decides on what it read.                                           *)
(***************************************************************************)
EXTENDS Entitlements

CONSTANTS Request,   \* concurrent calls of entitlements for the user
          Gated,     \* the feature a gate asks for
          MaxEdits   \* bound on admin and billing edits

ASSUME AccessAssumption ==
    /\ Gated \in Feature
    /\ MaxEdits \in Nat

VARIABLES tier,      \* tierFor of the user, as billing and admins leave it
          overrides, \* the user's FeatureOverride rows
          plans,     \* Plan.features by tier, as stored
          flag,      \* FeatureFlag aa.enabled
          request,   \* calls between two reads, and what they read
          edits,     \* edits so far
          began,     \* HISTORY: the tables when each call read the first time
          touched    \* HISTORY: what was edited since, per call

tables == <<tier, overrides, plans, flag>>
vars   == <<tables, request, edits, began, touched>>
------------------------------------------------------------------------------
Snapshot == [tier : Tier, overrides : Overrides, plans : [Tier -> SUBSET Feature],
             flag : BOOLEAN]
Now == [tier |-> tier, overrides |-> overrides, plans |-> plans, flag |-> flag]

PC == {"idle", "tier", "overrides", "plans", "answered", "denied", "allowed"}
RequestRow == [pc : PC, gate : BOOLEAN, tier : Tier, overrides : Overrides,
               features : SUBSET Key]
Row(pc, gate, t, o, features) ==
    [pc |-> pc, gate |-> gate, tier |-> t, overrides |-> o, features |-> features]
Fresh(pc, gate) == Row(pc, gate, "free", [f \in Key |-> "unset"], {})
Idle == Fresh("idle", FALSE)

\* What an edit can touch: one table, one override row, one plan.
Touchable == ({"table"} \X {"tier", "flag"}) \cup ({"override"} \X Key)
                \cup ({"plan"} \X Tier)

TypeOK ==
    /\ Now \in Snapshot
    /\ request \in [Request -> RequestRow]
    /\ edits \in 0..MaxEdits
    /\ began \in [Request -> Snapshot]
    /\ touched \in [Request -> SUBSET Touchable]

Init ==
    /\ tier \in Tier
    /\ overrides = [f \in Key |-> "unset"]
    /\ plans = TierFeatures
    /\ flag \in BOOLEAN
    /\ request = [r \in Request |-> Idle]
    /\ edits = 0
    /\ began = [r \in Request |-> Now]
    /\ touched = [r \in Request |-> {}]
------------------------------------------------------------------------------
(* entitlements, and assertEnabled around it *)

At(r, pc) == request[r].pc = pc

Keep(r, row) == request' = [request EXCEPT ![r] = row]

\* GET /billing/entitlements and assertAiAccess begin with the tier.
Begin(r, gate) ==
    /\ At(r, "idle")
    /\ Keep(r, Fresh("tier", gate))
    /\ began' = [began EXCEPT ![r] = Now]
    /\ touched' = [touched EXCEPT ![r] = {}]
    /\ UNCHANGED <<tables, edits>>

\* assertEnabled begins with the flag; a disabled one ends the call.
BeginFlag(r) ==
    /\ At(r, "idle")
    /\ Keep(r, Fresh(IF flag THEN "tier" ELSE "denied", TRUE))
    /\ began' = [began EXCEPT ![r] = Now]
    /\ touched' = [touched EXCEPT ![r] = {}]
    /\ UNCHANGED <<tables, edits>>

ReadTier(r) ==
    /\ At(r, "tier")
    /\ Keep(r, Row("overrides", request[r].gate, tier, request[r].overrides, {}))
    /\ UNCHANGED <<tables, edits, began, touched>>

ReadOverrides(r) ==
    /\ At(r, "overrides")
    /\ Keep(r, Row("plans", request[r].gate, request[r].tier, overrides, {}))
    /\ UNCHANGED <<tables, edits, began, touched>>

\* FAULT: the gate asks the defaults of the tier and forgets the resolved list.
AnswerByTier(r, features) ==
    IF ~request[r].gate THEN "answered"
    ELSE IF can(resolveEntitlements(request[r].tier, [f \in Key |-> "unset"]), Gated)
         THEN "allowed" ELSE "denied"

Answer(r, features) ==
    IF ~request[r].gate THEN "answered"
    ELSE IF can(features, Gated) THEN "allowed" ELSE "denied"

\* FAULT: the plans table is not looked at.
ReadPlansDefault(r) ==
    LET features == resolveEntitlements(request[r].tier, request[r].overrides)
    IN  /\ At(r, "plans")
        /\ Keep(r, Row(Answer(r, features), request[r].gate, request[r].tier,
                       request[r].overrides, features))
        /\ UNCHANGED <<tables, edits, began, touched>>

\* The plans are read and everything is resolved; a gate decides at once.
ReadPlans(r) ==
    LET features == resolveEntitlementsFromPlans(
                        request[r].tier, PlanFeatures(plans), request[r].overrides)
    IN  /\ At(r, "plans")
        /\ Keep(r, Row(Answer(r, features), request[r].gate, request[r].tier,
                       request[r].overrides, features))
        /\ UNCHANGED <<tables, edits, began, touched>>

Done(r) ==
    /\ request[r].pc \in {"answered", "allowed", "denied"}
    /\ Keep(r, Idle)
    /\ UNCHANGED <<tables, edits, began, touched>>
------------------------------------------------------------------------------
(* The edits that race with it *)

\* A statement of another request that touches x commits.
Edit(x) ==
    /\ edits < MaxEdits
    /\ edits' = edits + 1
    /\ touched' = [r \in Request |-> touched[r] \cup {x}]
    /\ UNCHANGED <<request, began>>

\* Subscribe, cancel, webhook and comp change what tierFor returns.
SetTier(t) ==
    /\ tier' = t
    /\ Edit(<<"table", "tier">>)
    /\ UNCHANGED <<overrides, plans, flag>>

\* setFeatureOverride: an upsert; the feature is not checked.
setFeatureOverride(f, v) ==
    /\ overrides' = [overrides EXCEPT ![f] = v]
    /\ Edit(<<"override", f>>)
    /\ UNCHANGED <<tier, plans, flag>>

\* clearFeatureOverride: the feature reverts to what the tier gives.
clearFeatureOverride(f) ==
    /\ overrides' = [overrides EXCEPT ![f] = "unset"]
    /\ Edit(<<"override", f>>)
    /\ UNCHANGED <<tier, plans, flag>>

\* FAULT: updatePlan stores what the panel sent.
updatePlanRaw(t, value) ==
    /\ plans' = [plans EXCEPT ![t] = value]
    /\ Edit(<<"plan", t>>)
    /\ UNCHANGED <<tier, overrides, flag>>

\* updatePlan: only known keys are stored.
updatePlan(t, value) ==
    /\ plans' = [plans EXCEPT ![t] = parseFeatureKeys(value)]
    /\ Edit(<<"plan", t>>)
    /\ UNCHANGED <<tier, overrides, flag>>

\* upsertFlag on aa.enabled.
upsertFlag ==
    /\ flag' = ~flag
    /\ Edit(<<"table", "flag">>)
    /\ UNCHANGED <<tier, overrides, plans>>

Read(r) ==
    \/ \E gate \in BOOLEAN : Begin(r, gate)
    \/ BeginFlag(r) \/ ReadTier(r) \/ ReadOverrides(r) \/ ReadPlans(r) \/ Done(r)

Admin ==
    \/ \E t \in Tier : SetTier(t) \/ \E value \in SUBSET Key : updatePlan(t, value)
    \/ \E f \in Key : \/ \E v \in {"on", "off"} : setFeatureOverride(f, v)
                      \/ clearFeatureOverride(f)
    \/ upsertFlag

Next == (\E r \in Request : Read(r)) \/ Admin

Spec == Init /\ [][Next]_vars
------------------------------------------------------------------------------
(* Properties *)

Resolved(s) ==
    resolveEntitlementsFromPlans(s.tier, PlanFeatures(s.plans), s.overrides)
Answered(r) == request[r].pc \in {"answered", "allowed"}

\* An answer nobody edited under is exactly what the tables say, in one piece.
QuietAnswerIsExact ==
    \A r \in Request :
        Answered(r) /\ touched[r] \subseteq {<<"table", "flag">>} =>
            request[r].features = Resolved(began[r])

\* An override row that stands throughout the call decides, whatever happens to
\* tier and plans meanwhile: revoked stays revoked, granted stays granted.
StandingOverrideDecides ==
    \A r \in Request, f \in Key :
        Answered(r) /\ <<"override", f>> \notin touched[r] /\ began[r].overrides[f] # "unset" =>
            (f \in request[r].features <=> began[r].overrides[f] = "on")

\* An override that stands throughout decides a gate too: a revoked feature never
\* lets a call in, a granted one only fails on the global flag.
GateFollowsOverride ==
    \A r \in Request :
        <<"override", Gated>> \notin touched[r] =>
            /\ At(r, "allowed") => began[r].overrides[Gated] # "off"
            /\ At(r, "denied") /\ began[r].flag => began[r].overrides[Gated] # "on"
=============================================================================
