---------------------------- MODULE Entitlements ----------------------------
(***************************************************************************)
(* packages/core/src/entitlements/entitlements.ts: which features a tier   *)
(* and the overrides of one user give.  Feature lists and Set objects are  *)
(* sets; a feature key that no release knows is a member of Unknown.       *)
(***************************************************************************)
EXTENDS Naturals

CONSTANTS Feature,      \* the known feature keys
          Unknown,      \* strings that are no feature key
          TierFeatures  \* TIER_FEATURES: what each tier adds, by code default

Tier == {"free", "premium", "family_cfo"}
Key  == Feature \cup Unknown

ASSUME EntitlementsAssumption ==
    /\ Feature \cap Unknown = {}
    /\ TierFeatures \in [Tier -> SUBSET Feature]
    /\ \A t \in Tier : TierFeatures[t] # {}

\* TIER_ORDER, and the tiers the cascading loop visits before it breaks.
Rank == [t \in Tier |-> IF t = "free" THEN 1 ELSE IF t = "premium" THEN 2 ELSE 3]
UpTo(tier) == {t \in Tier : Rank[t] <= Rank[tier]}

\* A user's FeatureOverride rows; "unset" is no row.
Override  == {"unset", "on", "off"}
Overrides == [Key -> Override]

\* parseFeatureKeys: junk in a JSON value is dropped.
parseFeatureKeys(value) == value \cap Feature

\* The plans table as the resolver gets it: a tier with no features set falls
\* back to the code default.
PlanFeatures(stored) ==
    [t \in Tier |-> LET parsed == parseFeatureKeys(stored[t])
                    IN  IF parsed # {} THEN parsed ELSE TierFeatures[t]]

\* FAULT: the overrides are applied first, and the plan's features on top.
resolvePlanLast(tier, planFeatures, overrides) ==
    {f \in Key : overrides[f] = "on"}
        \cup (UNION {planFeatures[t] : t \in UpTo(tier)})

resolveEntitlementsFromPlans(tier, planFeatures, overrides) ==
    ((UNION {planFeatures[t] : t \in UpTo(tier)})
        \cup {f \in Key : overrides[f] = "on"}) \ {f \in Key : overrides[f] = "off"}

\* The resolver on the code defaults alone, as the web app and the gates build it.
resolveEntitlements(tier, overrides) ==
    ((UNION {TierFeatures[t] : t \in UpTo(tier)})
        \cup {f \in Key : overrides[f] = "on"}) \ {f \in Key : overrides[f] = "off"}

can(features, f) == f \in features
=============================================================================
