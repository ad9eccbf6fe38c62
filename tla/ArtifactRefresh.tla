--------------------------- MODULE ArtifactRefresh ---------------------------
(***************************************************************************)
(* The refresh of a deployed artifact: environments run an old digest,     *)
(* risk evidence is collected, a decision is taken, a replacement is built *)
(* and rolled out environment by environment, perhaps rolled back, and the *)
(* verifier (deployed-artifact-refresh/scripts/verify.py) judges two       *)
(* inventories and what lies between them.                                 *)
(***************************************************************************)
EXTENDS Integers, FiniteSets, Documents

CONSTANTS
    Environments,
    MaxInventoryAge,  \* inventory_max_age_seconds
    MaxRiskAge,       \* evidence_max_age_seconds
    Deadline,         \* deadlines_hours of the severity
    MaxRefreshTime    \* bound: the clock stops here

ASSUME RefreshAssumption ==
    {MaxInventoryAge, MaxRiskAge, Deadline, MaxRefreshTime} \subseteq Nat

VARIABLES
    instant,
    running,       \* environment -> "old", "new" or "none"
    affectedSince, \* when the old digest became known to be affected, or Never
    firstInventory, postInventory,   \* [at, scope, seen], or NoInventory
    risk,          \* the risk evidence: [at, affected], or NoRisk
    decided,       \* when the decision was taken, or Never
    candidate,     \* the replacement: "none", "sound" or what is wrong with it
    admitted,      \* environments that admitted the replacement
    refresh        \* the verdict, or NoRefresh

refreshVars == <<instant, running, affectedSince, firstInventory, postInventory, risk,
                 decided, candidate, admitted, refresh>>

Never == -1
NoInventory == [at |-> Never]
NoRisk == [at |-> Never]
NoRefresh == [state |-> "none"]

(* One environment may start later than the others, with the old digest.   *)
RefreshInit ==
    /\ instant = 0
    /\ \E late \in {{}} \cup {{e} : e \in Environments} :
         running = [e \in Environments |-> IF e \in late THEN "none" ELSE "old"]
    /\ affectedSince = Never /\ firstInventory = NoInventory /\ postInventory = NoInventory
    /\ risk = NoRisk /\ decided = Never /\ candidate = "none" /\ admitted = {}
    /\ refresh = NoRefresh

LearnAffected ==
    /\ affectedSince = Never /\ affectedSince' = instant
    /\ UNCHANGED <<instant, running, firstInventory, postInventory, risk, decided,
                   candidate, admitted, refresh>>

(* The two inventories that the case will hold: complete, or one that      *)
(* misses an environment.                                                  *)
Collect(missed) ==
    LET active == {e \in Environments : running[e] # "none"}
        taken == [at |-> instant, scope |-> active,
                  seen |-> [e \in active \ missed |-> running[e]],
                  ran |-> IF firstInventory = NoInventory THEN <<>>
                          ELSE running]    \* history: what really ran
    IN /\ IF firstInventory = NoInventory
          THEN firstInventory' = taken /\ UNCHANGED postInventory
          ELSE /\ postInventory = NoInventory
               /\ postInventory' = taken /\ UNCHANGED firstInventory
       /\ UNCHANGED <<instant, running, affectedSince, risk, decided, candidate,
                      admitted, refresh>>

CollectRisk ==
    /\ risk = NoRisk
    /\ risk' = [at |-> instant, affected |-> affectedSince # Never]
    /\ UNCHANGED <<instant, running, affectedSince, firstInventory, postInventory,
                   decided, candidate, admitted, refresh>>

DecideRefresh ==
    /\ risk # NoRisk /\ decided = Never /\ decided' = instant
    /\ UNCHANGED <<instant, running, affectedSince, firstInventory, postInventory, risk,
                   candidate, admitted, refresh>>

Rebuild(kind) ==
    /\ decided # Never /\ candidate = "none" /\ candidate' = kind
    /\ UNCHANGED <<instant, running, affectedSince, firstInventory, postInventory, risk,
                   decided, admitted, refresh>>

Rollout(e, digest) ==
    /\ running[e] # digest /\ digest = "new" => candidate # "none"
    /\ running' = [running EXCEPT ![e] = digest]
    /\ admitted' = IF digest = "new" THEN admitted \cup {e} ELSE admitted
    /\ UNCHANGED <<instant, affectedSince, firstInventory, postInventory, risk, decided,
                   candidate, refresh>>

RefreshTick ==
    /\ instant < MaxRefreshTime /\ instant' = instant + 1
    /\ UNCHANGED <<running, affectedSince, firstInventory, postInventory, risk, decided,
                   candidate, admitted, refresh>>

-----------------------------------------------------------------------------
(* load_json, parse_time, exact_id, find_sensitive: an ERROR otherwise     *)
RefreshForms == Forms({"object", "times", "identities", "sensitive"})
RefreshReadable(x) ==
    /\ x.object /\ x.times = "with a timezone"
    /\ x.identities = "exact" /\ ~x.sensitive

(* validate_policy: a weakened policy is a finding                         *)
RefreshPolicies == OneOff(
    [evidenceAge |-> MaxRiskAge, inventoryAge |-> MaxInventoryAge, deadline |-> Deadline,
     sources |-> "all", owners |-> "all three", closure |-> "complete", output |-> "minimal"],
    [evidenceAge |-> MaxRiskAge + 1, inventoryAge |-> MaxInventoryAge + 1,
     deadline |-> Deadline + 1, sources |-> "some", owners |-> "two",
     closure |-> "weakened", output |-> "with sensitive fields"])

RefreshPolicySafe(p) ==
    /\ p.evidenceAge = MaxRiskAge /\ p.inventoryAge = MaxInventoryAge
    /\ p.deadline = Deadline /\ p.sources = "all" /\ p.owners = "all three"
    /\ p.closure = "complete" /\ p.output = "minimal"

(* validate_inventory: there is no lower bound of the age                  *)
InventoryValid ==
    /\ firstInventory # NoInventory
    /\ instant - firstInventory.at <= MaxInventoryAge
    /\ firstInventory.scope # {}
    /\ DOMAIN firstInventory.seen = firstInventory.scope
    /\ \A e \in DOMAIN firstInventory.seen : firstInventory.seen[e] = "old"

RiskValid(healthy) == risk # NoRisk /\ healthy /\ instant - risk.at <= MaxRiskAge

(* validate_decision: its status is what the risk evidence says            *)
DecisionValid(status) ==
    /\ decided # Never
    /\ status = (IF risk.affected THEN "REBUILD_REQUIRED" ELSE "NO_REBUILD")
Overdue == risk.affected /\ instant > decided + Deadline

(* plausible mistake: a target that the second inventory misses is ignored *)
ReplacedWhereSeen ==
    /\ candidate = "sound"
    /\ admitted = firstInventory.scope
    /\ postInventory # NoInventory /\ instant - postInventory.at <= MaxInventoryAge
    /\ \A e \in DOMAIN postInventory.seen : postInventory.seen[e] = "new"

(* validate_replacement: everything else is a finding or an ERROR          *)
Replaced ==
    /\ candidate = "sound"      \* hosted, provenance, SBOM, signature, immutable
    /\ admitted = firstInventory.scope
    /\ postInventory # NoInventory /\ instant - postInventory.at <= MaxInventoryAge
    /\ DOMAIN postInventory.seen = firstInventory.scope
    /\ \A e \in DOMAIN postInventory.seen : postInventory.seen[e] = "new"

RefreshState ==
    IF ~risk.affected THEN (IF candidate = "none" THEN "NOT_AFFECTED" ELSE "finding")
    ELSE IF candidate = "none" THEN (IF Overdue THEN "OVERDUE" ELSE "IN_PROGRESS")
    ELSE IF Replaced THEN "REMEDIATED" ELSE "finding"

(* evaluate: the requested state must be the verified one                  *)
EvaluateRefresh ==
    /\ \E x \in RefreshForms : RefreshReadable(x)
    /\ InventoryValid
    /\ \E p \in RefreshPolicies : RefreshPolicySafe(p)
    /\ \E healthy \in BOOLEAN, status \in {"REBUILD_REQUIRED", "NO_REBUILD"} :
         RiskValid(healthy) /\ DecisionValid(status)
    /\ \E requested \in {"NOT_AFFECTED", "IN_PROGRESS", "OVERDUE", "REMEDIATED"} :
         /\ requested = RefreshState
         /\ refresh' = [state |-> requested, at |-> instant]
    /\ UNCHANGED <<instant, running, affectedSince, firstInventory, postInventory,
                   risk, decided, candidate, admitted>>

RefreshNext ==
    /\ refresh = NoRefresh
    /\ \/ LearnAffected \/ CollectRisk \/ DecideRefresh \/ RefreshTick \/ EvaluateRefresh
       \/ \E missed \in {{}} \cup {{e} : e \in Environments} : Collect(missed)
       \/ \E kind \in {"sound", "not hosted or mutable"} : Rebuild(kind)
       \/ \E e \in Environments, digest \in {"old", "new"} : Rollout(e, digest)

RefreshSpec == RefreshInit /\ [][RefreshNext]_refreshVars
-----------------------------------------------------------------------------
(* RemediatedEverywhere: REMEDIATED means that at one moment at most the   *)
(* inventory age ago every environment of the first inventory, one that    *)
(* was rolled back meanwhile or missed by a collector included, ran a      *)
(* soundly built replacement; and NOT_AFFECTED that nobody knew the        *)
(* contrary at a moment at most the evidence age ago.                      *)
RemediatedEverywhere ==
    /\ refresh.state = "REMEDIATED" =>
         /\ candidate = "sound"
         /\ postInventory.at + MaxInventoryAge >= refresh.at
         /\ \A e \in firstInventory.scope : postInventory.ran[e] = "new"
    /\ refresh.state = "NOT_AFFECTED" =>
         affectedSince = Never \/ affectedSince + MaxRiskAge >= refresh.at
=============================================================================
