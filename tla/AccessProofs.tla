---------------------------- MODULE AccessProofs ----------------------------
(***************************************************************************)
(* For any features, requests, plans and edits: what a user-specific       *)
(* override decides is decided, higher tiers inherit from lower ones, and  *)
(* an answer nothing interfered with is that of the rows it was asked of.  *)
(***************************************************************************)
EXTENDS Access, TLAPS

Final(r) == Answered(r) \/ (At(r, "denied") /\ began[r].flag)

\* What a call under way knows of an override row nobody touched since it began.
RowInv(r, f) ==
    <<"override", f>> \notin touched[r] /\ ~At(r, "idle") =>
        /\ overrides[f] = began[r].overrides[f]
        /\ At(r, "plans") => request[r].overrides[f] = began[r].overrides[f]
        /\ Final(r) /\ began[r].overrides[f] # "unset" =>
              (f \in request[r].features <=> began[r].overrides[f] = "on")

\* What the verdict of a gate says about the list it resolved.
VerdictInv(r) ==
    /\ At(r, "allowed") => Gated \in request[r].features
    /\ At(r, "denied") /\ began[r].flag => Gated \notin request[r].features

IInv == TypeOK /\ \A r \in Request : VerdictInv(r) /\ \A f \in Key : RowInv(r, f)
------------------------------------------------------------------------------
\* The resolver of the server and the built-in one agree as long as the plans
\* table holds the defaults (entitlements.test.ts:23).
THEOREM DefaultsAgree ==
    ASSUME NEW t \in Tier, NEW o \in Overrides
    PROVE  resolveEntitlementsFromPlans(t, PlanFeatures(TierFeatures), o)
               = resolveEntitlements(t, o)
<1>1. \A u \in Tier : PlanFeatures(TierFeatures)[u] = TierFeatures[u]
    BY EntitlementsAssumption DEF PlanFeatures, parseFeatureKeys
<1>2. UpTo(t) \subseteq Tier
    BY DEF UpTo
<1>. QED
    BY <1>1, <1>2 DEF resolveEntitlementsFromPlans, resolveEntitlements

\* Higher tiers inherit: with the same plans and overrides, an upgrade never
\* takes a feature away.
THEOREM UpgradeKeepsFeatures ==
    ASSUME NEW low \in Tier, NEW high \in Tier, Rank[low] <= Rank[high],
           NEW p \in [Tier -> SUBSET Feature], NEW o \in Overrides
    PROVE  resolveEntitlementsFromPlans(low, p, o)
               \subseteq resolveEntitlementsFromPlans(high, p, o)
<1>1. \A t \in Tier : Rank[t] \in Nat
    BY DEF Rank, Tier
<1>2. UpTo(low) \subseteq UpTo(high)
    BY <1>1 DEF UpTo
<1>. QED
    BY <1>2 DEF resolveEntitlementsFromPlans

\* Overrides have the last word in a resolution.
LEMMA OverrideHasLastWord ==
    ASSUME NEW t \in Tier, NEW p \in [Tier -> SUBSET Feature],
           NEW o \in Overrides, NEW f \in Key, o[f] # "unset"
    PROVE  f \in resolveEntitlementsFromPlans(t, p, o) <=> o[f] = "on"
<1>1. o[f] = "on" \/ o[f] = "off"
    BY DEF Overrides, Override
<1>. QED
    BY <1>1 DEF resolveEntitlementsFromPlans

\* What the resolver is given and returns is made of keys.
LEMMA ResolvedKeys ==
    ASSUME NEW t \in Tier, NEW p \in [Tier -> SUBSET Feature], NEW o \in Overrides
    PROVE  /\ PlanFeatures(p) \in [Tier -> SUBSET Feature]
           /\ resolveEntitlementsFromPlans(t, PlanFeatures(p), o) \in SUBSET Key
<1>1. PlanFeatures(p) \in [Tier -> SUBSET Feature]
    BY EntitlementsAssumption DEF PlanFeatures, parseFeatureKeys
<1>2. UpTo(t) \subseteq Tier
    BY DEF UpTo
<1>. QED
    BY <1>1, <1>2 DEF resolveEntitlementsFromPlans, Key
------------------------------------------------------------------------------
\* Before the first call nothing is known and nothing is decided.
LEMMA InitInv == Init => IInv
<1>. SUFFICES ASSUME Init PROVE IInv
    OBVIOUS
<1>1. Now \in Snapshot
    BY EntitlementsAssumption DEF Init, Now, Snapshot, Overrides, Override
<1>2. Idle \in RequestRow
    BY DEF Idle, Fresh, Row, RequestRow, PC, Tier, Overrides, Override
<1>3. TypeOK
    BY <1>1, <1>2, AccessAssumption DEF Init, TypeOK
<1>4. \A r \in Request : request[r].pc = "idle"
    BY DEF Init, Idle, Fresh, Row
<1>. QED
    BY <1>3, <1>4 DEF IInv, VerdictInv, RowInv, At, Final, Answered

\* Every read of a call keeps the invariant: no table changes, and only the
\* row of that call does.
LEMMA ReadKeepsInv ==
    ASSUME IInv, NEW r \in Request, Read(r)
    PROVE  IInv'
<1>. USE DEF IInv
<1>1. TypeOK /\ request[r] \in RequestRow /\ Now \in Snapshot
    BY DEF TypeOK
<1>2. /\ tier \in Tier /\ overrides \in Overrides
      /\ plans \in [Tier -> SUBSET Feature] /\ flag \in BOOLEAN
    BY <1>1 DEF Now, Snapshot
<1>3. ASSUME NEW row, NEW b \in Snapshot, NEW t \in SUBSET Touchable,
             row \in RequestRow,
             request' = [request EXCEPT ![r] = row],
             began' = [began EXCEPT ![r] = b],
             touched' = [touched EXCEPT ![r] = t],
             UNCHANGED <<tables, edits>>,
             VerdictInv(r)', \A f \in Key : RowInv(r, f)'
      PROVE  IInv'
    <2>1. TypeOK'
        BY <1>1, <1>3 DEF TypeOK, tables, Now
    <2>2. ASSUME NEW q \in Request, q # r
          PROVE  VerdictInv(q)' /\ \A f \in Key : RowInv(q, f)'
        <3>1. request'[q] = request[q] /\ began'[q] = began[q] /\ touched'[q] = touched[q]
            BY <1>1, <1>3, <2>2 DEF TypeOK
        <3>2. VerdictInv(q) /\ \A f \in Key : RowInv(q, f)
            OBVIOUS
        <3>. QED
            BY <3>1, <3>2, <1>3 DEF VerdictInv, RowInv, At, Final, Answered, tables
    <2>. QED
        BY <1>3, <2>1, <2>2
<1>4. began[r] \in Snapshot /\ touched[r] \in SUBSET Touchable
    BY <1>1 DEF TypeOK
<1>5. VerdictInv(r) /\ \A f \in Key : RowInv(r, f)
    OBVIOUS
<1>6. /\ began = [began EXCEPT ![r] = began[r]]
      /\ touched = [touched EXCEPT ![r] = touched[r]]
    BY <1>1 DEF TypeOK
<1>7. \A row : request' = [request EXCEPT ![r] = row] => request'[r] = row
    BY <1>1 DEF TypeOK
<1>8. \A b : /\ began' = [began EXCEPT ![r] = b] => began'[r] = b
             /\ touched' = [touched EXCEPT ![r] = b] => touched'[r] = b
    BY <1>1 DEF TypeOK
<1>9. CASE \/ \E gate \in BOOLEAN : Begin(r, gate)
           \/ BeginFlag(r)
    <2>1. PICK pc \in {"tier", "denied"}, gate \in BOOLEAN :
              /\ request' = [request EXCEPT ![r] = Fresh(pc, gate)]
              /\ began' = [began EXCEPT ![r] = Now]
              /\ touched' = [touched EXCEPT ![r] = {}]
              /\ UNCHANGED <<tables, edits>>
              /\ pc = "denied" => ~flag
        BY <1>9 DEF Begin, BeginFlag, Keep
    <2>2. Fresh(pc, gate) \in RequestRow
        BY DEF Fresh, Row, RequestRow, PC, Tier, Overrides, Override
    <2>3. request'[r].pc = pc /\ began'[r] = Now /\ touched'[r] = {}
        BY <2>1, <1>7, <1>8 DEF Fresh, Row
    <2>4. overrides' = overrides /\ Now.overrides = overrides /\ Now.flag = flag
        BY <2>1 DEF tables, Now
    <2>5. VerdictInv(r)' /\ \A f \in Key : RowInv(r, f)'
        BY <2>1, <2>3, <2>4 DEF VerdictInv, RowInv, At, Final, Answered
    <2>6. PICK row \in RequestRow : row = Fresh(pc, gate)
        BY <2>2
    <2>7. request' = [request EXCEPT ![r] = row]
        BY <2>1, <2>6
    <2>8. {} \in SUBSET Touchable
        OBVIOUS
    <2>. QED
        BY <1>1, <1>3, <2>1, <2>5, <2>7, <2>8
<1>10. CASE ReadTier(r)
    <2>1. PICK row : row = Row("overrides", request[r].gate, tier, request[r].overrides, {})
        OBVIOUS
    <2>2. row \in RequestRow /\ row.pc = "overrides"
        BY <1>1, <1>2, <2>1 DEF Row, RequestRow, PC
    <2>3. /\ request' = [request EXCEPT ![r] = row] /\ UNCHANGED <<tables, edits, began, touched>>
          /\ request[r].pc = "tier"
        BY <1>10, <2>1 DEF ReadTier, Keep, At
    <2>4. request'[r] = row /\ overrides' = overrides
        BY <2>3, <1>7 DEF tables
    <2>5. VerdictInv(r)' /\ \A f \in Key : RowInv(r, f)'
        BY <1>5, <2>2, <2>3, <2>4 DEF VerdictInv, RowInv, At, Final, Answered
    <2>. QED
        BY <1>3, <1>4, <1>6, <2>2, <2>3, <2>5
<1>11. CASE ReadOverrides(r)
    <2>1. PICK row : row = Row("plans", request[r].gate, request[r].tier, overrides, {})
        OBVIOUS
    <2>2. row \in RequestRow /\ row.pc = "plans" /\ row.overrides = overrides
        BY <1>1, <1>2, <2>1 DEF Row, RequestRow, PC
    <2>3. /\ request' = [request EXCEPT ![r] = row] /\ UNCHANGED <<tables, edits, began, touched>>
          /\ request[r].pc = "overrides"
        BY <1>11, <2>1 DEF ReadOverrides, Keep, At
    <2>4. request'[r] = row /\ overrides' = overrides
        BY <2>3, <1>7 DEF tables
    <2>5. VerdictInv(r)' /\ \A f \in Key : RowInv(r, f)'
        BY <1>5, <2>2, <2>3, <2>4 DEF VerdictInv, RowInv, At, Final, Answered
    <2>. QED
        BY <1>3, <1>4, <1>6, <2>2, <2>3, <2>5
<1>12. CASE ReadPlans(r)
    <2>1. PICK features : features = resolveEntitlementsFromPlans(
                  request[r].tier, PlanFeatures(plans), request[r].overrides)
        OBVIOUS
    <2>2. request[r].tier \in Tier /\ request[r].overrides \in Overrides
        BY <1>1 DEF RequestRow
    <2>3. /\ PlanFeatures(plans) \in [Tier -> SUBSET Feature]
          /\ features \in SUBSET Key
        BY <1>2, <2>1, <2>2, ResolvedKeys
    <2>4. PICK pc \in {"answered", "allowed", "denied"} :
              /\ pc = Answer(r, features)
              /\ pc = "allowed" => Gated \in features
              /\ pc = "denied" => Gated \notin features
        BY DEF Answer, can
    <2>5. PICK row : row = Row(pc, request[r].gate, request[r].tier, request[r].overrides, features)
        OBVIOUS
    <2>6. row \in RequestRow /\ row.pc = pc /\ row.features = features
        BY <1>1, <2>3, <2>4, <2>5 DEF Row, RequestRow, PC
    <2>7. /\ request' = [request EXCEPT ![r] = row] /\ UNCHANGED <<tables, edits, began, touched>>
          /\ request[r].pc = "plans"
        BY <1>12, <2>1, <2>4, <2>5 DEF ReadPlans, Keep, At
    <2>8. request'[r] = row /\ overrides' = overrides
        BY <2>7, <1>7 DEF tables
    <2>9. ASSUME NEW f \in Key, request[r].overrides[f] # "unset"
          PROVE  f \in features <=> request[r].overrides[f] = "on"
        BY <2>1, <2>2, <2>3, <2>9, OverrideHasLastWord
    <2>10. VerdictInv(r)' /\ \A f \in Key : RowInv(r, f)'
        BY <1>5, <2>4, <2>6, <2>7, <2>8, <2>9 DEF VerdictInv, RowInv, At, Final, Answered
    <2>. QED
        BY <1>3, <1>4, <1>6, <2>6, <2>7, <2>10
<1>13. CASE Done(r)
    <2>1. Idle \in RequestRow /\ Idle.pc = "idle"
        BY DEF Idle, Fresh, Row, RequestRow, PC, Tier, Overrides, Override
    <2>2. request' = [request EXCEPT ![r] = Idle] /\ UNCHANGED <<tables, edits, began, touched>>
        BY <1>13 DEF Done, Keep
    <2>3. request'[r] = Idle
        BY <2>2, <1>7
    <2>4. VerdictInv(r)' /\ \A f \in Key : RowInv(r, f)'
        BY <2>1, <2>2, <2>3 DEF VerdictInv, RowInv, At, Final, Answered
    <2>. QED
        BY <1>3, <1>4, <1>6, <2>1, <2>2, <2>4
<1>. QED
    BY <1>9, <1>10, <1>11, <1>12, <1>13 DEF Read

\* Every edit keeps the invariant: what it changes it marks as touched.
LEMMA AdminKeepsInv ==
    ASSUME IInv, Admin
    PROVE  IInv'
<1>. USE DEF IInv
<1>1. TypeOK /\ Now \in Snapshot
    BY DEF TypeOK
<1>2. /\ tier \in Tier /\ overrides \in Overrides
      /\ plans \in [Tier -> SUBSET Feature] /\ flag \in BOOLEAN
    BY <1>1 DEF Now, Snapshot
<1>3. ASSUME NEW x \in Touchable, Edit(x), Now' \in Snapshot,
             \A f \in Key : overrides'[f] # overrides[f] => x = <<"override", f>>
      PROVE  IInv'
    <2>1. TypeOK'
        BY <1>1, <1>3, AccessAssumption DEF TypeOK, Edit
    <2>2. ASSUME NEW q \in Request
          PROVE  VerdictInv(q)' /\ \A f \in Key : RowInv(q, f)'
        <3>1. request' = request /\ began' = began /\ touched'[q] = touched[q] \cup {x}
            BY <1>3, <2>2 DEF Edit
        <3>2. VerdictInv(q) /\ \A f \in Key : RowInv(q, f)
            OBVIOUS
        <3>. QED
            BY <3>1, <3>2, <1>3 DEF VerdictInv, RowInv, At, Final, Answered
    <2>. QED
        BY <2>1, <2>2
<1>4. ASSUME NEW t \in Tier, SetTier(t)
      PROVE  IInv'
    BY <1>2, <1>3, <1>4 DEF SetTier, Now, Snapshot, Touchable
<1>5. ASSUME NEW t \in Tier, NEW value \in SUBSET Key, updatePlan(t, value)
      PROVE  IInv'
    <2>1. plans' \in [Tier -> SUBSET Feature]
        BY <1>2, <1>5 DEF updatePlan, parseFeatureKeys
    <2>. QED
        BY <1>2, <1>3, <1>5, <2>1 DEF updatePlan, Now, Snapshot, Touchable
<1>6. ASSUME NEW f \in Key, NEW v \in {"on", "off", "unset"},
             overrides' = [overrides EXCEPT ![f] = v], Edit(<<"override", f>>),
             UNCHANGED <<tier, plans, flag>>
      PROVE  IInv'
    <2>1. overrides' \in Overrides
        BY <1>2, <1>6 DEF Overrides, Override
    <2>2. \A g \in Key : overrides'[g] # overrides[g] => g = f
        BY <1>2, <1>6 DEF Overrides
    <2>. QED
        BY <1>2, <1>3, <1>6, <2>1, <2>2 DEF Now, Snapshot, Touchable
<1>7. CASE upsertFlag
    BY <1>2, <1>3, <1>7 DEF upsertFlag, Now, Snapshot, Touchable
<1>. QED
    BY <1>4, <1>5, <1>6, <1>7 DEF Admin, setFeatureOverride, clearFeatureOverride

\* The invariant holds whatever calls and edits are interleaved.
THEOREM Invariance == Spec => []IInv
<1>1. IInv /\ [Next]_vars => IInv'
    <2>. SUFFICES ASSUME IInv, [Next]_vars PROVE IInv'
        OBVIOUS
    <2>1. CASE Next
        BY <2>1, ReadKeepsInv, AdminKeepsInv DEF Next
    <2>2. CASE UNCHANGED vars
        BY <2>2 DEF vars, tables, IInv, TypeOK, Now, VerdictInv, RowInv, At, Final, Answered
    <2>. QED
        BY <2>1, <2>2
<1>. QED
    BY <1>1, InitInv, PTL DEF Spec

\* Types, for any constants: in particular a plan never stores a key that is no
\* feature.
THEOREM TypeCorrect == Spec => []TypeOK
<1>1. IInv => TypeOK
    BY DEF IInv
<1>. QED
    BY <1>1, Invariance, PTL

\* An override row that stands throughout a call of entitlements decides it,
\* whatever is done meanwhile to the tier and the plans.
THEOREM OverridesDecide == Spec => []StandingOverrideDecides
<1>1. IInv => StandingOverrideDecides
    BY DEF IInv, RowInv, StandingOverrideDecides, Final, Answered, At
<1>. QED
    BY <1>1, Invariance, PTL

\* The gates of the coach and of the account aggregator follow a standing override.
THEOREM GatesFollowOverrides == Spec => []GateFollowsOverride
<1>1. IInv => GateFollowsOverride
    <2>. SUFFICES ASSUME IInv, NEW r \in Request, <<"override", Gated>> \notin touched[r]
                  PROVE  /\ At(r, "allowed") => began[r].overrides[Gated] # "off"
                         /\ At(r, "denied") /\ began[r].flag
                              => began[r].overrides[Gated] # "on"
        BY DEF GateFollowsOverride
    <2>1. Gated \in Key
        BY AccessAssumption DEF Key
    <2>2. VerdictInv(r) /\ RowInv(r, Gated)
        BY <2>1 DEF IInv
    <2>. QED
        BY <2>2 DEF VerdictInv, RowInv, At, Final, Answered
<1>. QED
    BY <1>1, Invariance, PTL
------------------------------------------------------------------------------
(* Quiet answers *)

\* Nothing but the global flag was edited since the call began.
Untouched(r) == touched[r] \subseteq {<<"table", "flag">>}

\* The tables of an untouched call are those it began with; so is what it has read,
\* and its answer is drawn from them.
QuietInv(r) ==
    Untouched(r) =>
        /\ request[r].pc \in {"tier", "overrides", "plans"} =>
              /\ tier = began[r].tier /\ overrides = began[r].overrides
              /\ plans = began[r].plans
        /\ request[r].pc \in {"overrides", "plans"} => request[r].tier = began[r].tier
        /\ request[r].pc = "plans" => request[r].overrides = began[r].overrides
        /\ Answered(r) => request[r].features = Resolved(began[r])

\* A call's own steps read what it began with.
LEMMA QuietRead ==
    ASSUME TypeOK, \A q \in Request : QuietInv(q), NEW r \in Request, Read(r)
    PROVE  \A q \in Request : QuietInv(q)'
<1>1. DOMAIN request = Request /\ DOMAIN began = Request /\ DOMAIN touched = Request
    BY DEF TypeOK
<1>2. /\ UNCHANGED tables
      /\ \A q \in Request \ {r} : /\ request'[q] = request[q] /\ began'[q] = began[q]
                                  /\ touched'[q] = touched[q]
    BY <1>1 DEF Read, Begin, BeginFlag, ReadTier, ReadOverrides, ReadPlans, Done, Keep
<1>3. ASSUME NEW q \in Request \ {r} PROVE QuietInv(q)'
    BY <1>2 DEF QuietInv, Untouched, Answered, tables
<1>4. ASSUME (\E gate \in BOOLEAN : Begin(r, gate)) \/ BeginFlag(r) PROVE QuietInv(r)'
    <2>1. request'[r].pc \in {"tier", "denied"} /\ began'[r] = Now
        BY <1>1, <1>4 DEF Begin, BeginFlag, Keep, Fresh, Row
    <2>. QED
        BY <1>2, <2>1 DEF QuietInv, Answered, Now, tables
<1>5. ASSUME ReadTier(r) PROVE QuietInv(r)'
    <2>1. /\ request[r].pc = "tier" /\ request'[r].pc = "overrides"
          /\ request'[r].tier = tier /\ UNCHANGED <<began, touched>>
        BY <1>1, <1>5 DEF ReadTier, Keep, Row, At
    <2>. QED
        BY <1>2, <2>1 DEF QuietInv, Untouched, Answered, tables
<1>6. ASSUME ReadOverrides(r) PROVE QuietInv(r)'
    <2>1. /\ request[r].pc = "overrides" /\ request'[r].pc = "plans"
          /\ request'[r].tier = request[r].tier /\ request'[r].overrides = overrides
          /\ UNCHANGED <<began, touched>>
        BY <1>1, <1>6 DEF ReadOverrides, Keep, Row, At
    <2>. QED
        BY <1>2, <2>1 DEF QuietInv, Untouched, Answered, tables
<1>7. ASSUME ReadPlans(r) PROVE QuietInv(r)'
    <2>1. /\ request[r].pc = "plans" /\ request'[r].pc \in {"answered", "allowed", "denied"}
          /\ request'[r].features = resolveEntitlementsFromPlans(
                 request[r].tier, PlanFeatures(plans), request[r].overrides)
          /\ UNCHANGED <<began, touched>>
        BY <1>1, <1>7 DEF ReadPlans, Keep, Row, At, Answer
    <2>. QED
        BY <2>1 DEF QuietInv, Untouched, Answered, Resolved
<1>8. ASSUME Done(r) PROVE QuietInv(r)'
    <2>1. request'[r].pc = "idle"
        BY <1>1, <1>8 DEF Done, Keep, Idle, Fresh, Row
    <2>. QED
        BY <2>1 DEF QuietInv, Answered
<1>. QED
    BY <1>3, <1>4, <1>5, <1>6, <1>7, <1>8 DEF Read

\* An edit of tier, overrides or plans touches every call.
LEMMA QuietEdit ==
    ASSUME TypeOK, \A q \in Request : QuietInv(q), Admin, NEW r \in Request
    PROVE  QuietInv(r)'
<1>. DEFINE Harmless(x) == x = <<"table", "flag">> => UNCHANGED <<tier, overrides, plans>>
<1>1. \E x : Edit(x) /\ Harmless(x)
    <2>1. ASSUME NEW t \in Tier, SetTier(t) PROVE Edit(<<"table", "tier">>)
        BY <2>1 DEF SetTier
    <2>2. ASSUME NEW t \in Tier, NEW value, updatePlan(t, value) PROVE Edit(<<"plan", t>>)
        BY <2>2 DEF updatePlan
    <2>3. ASSUME NEW f \in Key,
                 clearFeatureOverride(f) \/ \E v \in {"on", "off"} : setFeatureOverride(f, v)
          PROVE  Edit(<<"override", f>>)
        BY <2>3 DEF setFeatureOverride, clearFeatureOverride
    <2>4. ASSUME upsertFlag
          PROVE  Edit(<<"table", "flag">>) /\ UNCHANGED <<tier, overrides, plans>>
        BY <2>4 DEF upsertFlag
    <2>5. /\ Harmless(<<"table", "tier">>)
          /\ \A y : Harmless(<<"plan", y>>) /\ Harmless(<<"override", y>>)
        OBVIOUS
    <2>6. UNCHANGED <<tier, overrides, plans>> => Harmless(<<"table", "flag">>)
        OBVIOUS
    <2>. HIDE DEF Harmless
    <2>. QED
        BY <2>1, <2>2, <2>3, <2>4, <2>5, <2>6 DEF Admin
<1>2. PICK x : Edit(x) /\ Harmless(x)
    BY <1>1
<1>3. request' = request /\ began' = began /\ touched'[r] = touched[r] \cup {x}
    BY <1>2 DEF Edit
<1>4. Untouched(r)' => Untouched(r) /\ UNCHANGED <<tier, overrides, plans>>
    BY <1>2, <1>3 DEF Untouched
<1>. QED
    BY <1>3, <1>4 DEF QuietInv, Answered

\* An answer nobody edited under is what the tables of the moment say, whatever
\* other calls and edits come between its three statements.
THEOREM QuietAnswersAreExact == Spec => []QuietAnswerIsExact
<1>. DEFINE Inv == \A r \in Request : QuietInv(r)
<1>1. Init => Inv
    BY DEF Init, QuietInv, Answered, Idle, Fresh, Row
<1>2. TypeOK /\ Inv /\ [Next]_vars => Inv'
    <2>. SUFFICES ASSUME TypeOK, Inv, [Next]_vars PROVE Inv'
        OBVIOUS
    <2>1. CASE UNCHANGED vars
        BY <2>1 DEF vars, tables, QuietInv, Untouched, Answered
    <2>. QED
        BY <2>1, QuietRead, QuietEdit DEF Next
<1>3. Inv => QuietAnswerIsExact
    BY DEF QuietAnswerIsExact, QuietInv, Untouched
<1>. QED
    BY <1>1, <1>2, <1>3, TypeCorrect, PTL DEF Spec
=============================================================================
