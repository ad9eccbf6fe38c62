--------------------------- MODULE RuntimeEvidence ---------------------------
(***************************************************************************)
(* The evidence of what is installed beside a coding agent and of what its *)
(* hooks decided, and the verdict on it (verify-runtime-state.py).  People *)
(* install and update extensions at any time; a collector takes one        *)
(* inventory of each provider; the hooks append audit events and somebody  *)
(* rotates the file.                                                       *)
(***************************************************************************)
EXTENDS Integers, FiniteSets, Documents

CONSTANTS
    Adapters,          \* the providers with an inventory each
    MaxInstalledAge,   \* inventory.maximum_age_seconds
    MaxEventAge,       \* audit.maximum_event_age_seconds
    MaxRuntimeTime,    \* bound: the clock stops here
    MaxInstalls,       \* bound: changes of what is installed
    MaxEvents          \* bound: events in the audit file

ASSUME RuntimeAssumption ==
    /\ {MaxInstalledAge, MaxEventAge} \subseteq Nat \ {0}
    /\ {MaxRuntimeTime, MaxInstalls, MaxEvents} \subseteq Nat

(* What is installed, compared with the reviewed extensions and records    *)
Installations == {"as-reviewed", "changed", "old-product"}
RequiredDecisions == {"allow", "deny", "error"}

VARIABLES
    runtimeNow,
    installs,        \* what of MaxInstalls is used up
    installedNow,    \* adapter -> what is installed
    inventories,     \* adapter -> its last inventory, or NoListing
    auditEvents,     \* the events in the audit file: [decision, at]
    lastReviewed,    \* history: when it last was as reviewed
    runtimeVerdict

runtimeVars == <<runtimeNow, installs, installedNow, lastReviewed, inventories,
                 auditEvents, runtimeVerdict>>

NoListing == [at |-> -1]
NoRuntimeVerdict == [verdict |-> "none"]

RuntimeInit ==
    /\ runtimeNow = 0 /\ installs = 0
    /\ installedNow = [a \in Adapters |-> "as-reviewed"]
    /\ lastReviewed = [a \in Adapters |-> 0]
    /\ inventories = [a \in Adapters |-> NoListing]
    /\ auditEvents = {} /\ runtimeVerdict = NoRuntimeVerdict

InstallExtension(a, what) ==
    /\ installedNow[a] # what /\ installs < MaxInstalls /\ installs' = installs + 1
    /\ installedNow' = [installedNow EXCEPT ![a] = what]
    /\ lastReviewed' = [lastReviewed EXCEPT ![a] = IF what = "as-reviewed" THEN runtimeNow ELSE @]
    /\ UNCHANGED <<runtimeNow, inventories, auditEvents, runtimeVerdict>>

(* The inventory of one adapter may be handed in as that of another.       *)
TakeInventory(a, from) ==
    /\ inventories' = [inventories EXCEPT
         ![a] = [at |-> runtimeNow, provider |-> from, lists |-> installedNow[from]]]
    /\ inventories' # inventories
    /\ UNCHANGED <<runtimeNow, installs, installedNow, lastReviewed, auditEvents, runtimeVerdict>>

HookEvent(decision) ==
    /\ Cardinality(auditEvents) < MaxEvents
    /\ auditEvents' = auditEvents \cup {[decision |-> decision, at |-> runtimeNow]}
    /\ auditEvents' # auditEvents
    /\ UNCHANGED <<runtimeNow, installs, installedNow, lastReviewed, inventories, runtimeVerdict>>

Rotate ==
    /\ auditEvents' = {e \in auditEvents : e.at = runtimeNow} /\ auditEvents' # auditEvents
    /\ UNCHANGED <<runtimeNow, installs, installedNow, lastReviewed, inventories, runtimeVerdict>>

RuntimeTick ==
    /\ runtimeNow < MaxRuntimeTime /\ runtimeNow' = runtimeNow + 1
    /\ lastReviewed' = [a \in Adapters |-> IF installedNow[a] = "as-reviewed" THEN runtimeNow + 1
                                           ELSE lastReviewed[a]]
    /\ UNCHANGED <<installs, installedNow, inventories, auditEvents, runtimeVerdict>>

-----------------------------------------------------------------------------
(* What the verifier is given beside inventories and events: its policies, *)
(* how the inventories were taken, and how the audit file is kept          *)
Settings == OneOff(
    [inventory |-> "available", audit |-> "available", extensions |-> "deny by default",
     unknownExtensions |-> FALSE, exactRecords |-> TRUE,
     inventoryAge |-> MaxInstalledAge, eventAge |-> MaxEventAge,
     source |-> "managed-endpoint-assessment", plugins |-> "disabled", fields |-> "allowed",
     records |-> "schema, references and reasons only", managed |-> TRUE, owner |-> "root",
     modes |-> "as required", retention |-> "bounded",
     export |-> "organization-security-log"],
    [inventory |-> "missing", audit |-> "missing", extensions |-> "allow by default",
     unknownExtensions |-> TRUE, exactRecords |-> FALSE, inventoryAge |-> 0, eventAge |-> 0,
     source |-> "client", plugins |-> "enabled", fields |-> "others",
     records |-> "other fields", managed |-> FALSE, owner |-> "user",
     modes |-> "wider", retention |-> "above the maximum", export |-> "none"])

(* require_policy, and the limits that the two checks read                 *)
RuntimePolicyAccepted(g) ==
    /\ g.inventory = "available" /\ g.audit = "available"
    /\ g.extensions = "deny by default"
    /\ g.inventoryAge >= 1 /\ g.eventAge >= 1

(* expected_extensions: what the reviewed policy expects                   *)
ExpectedExtensions == "as-reviewed"

(* version_at_least                                                        *)
VersionAtLeast(listing) == listing.lists # "old-product"

CollectedAsRequired(g) ==
    /\ g.source = "managed-endpoint-assessment" /\ g.plugins = "disabled"
    /\ g.fields = "allowed" /\ ~g.unknownExtensions /\ g.exactRecords

(* plausible mistake: the age of the inventory is not looked at            *)
ListedAsReviewed(a, g) ==
    /\ inventories[a].provider = a
    /\ VersionAtLeast(inventories[a])
    /\ CollectedAsRequired(g)
    /\ inventories[a].lists = ExpectedExtensions

(* inventory_matches                                                       *)
InventoryMatches(a, g) ==
    /\ inventories[a].provider = a
    /\ VersionAtLeast(inventories[a])
    /\ CollectedAsRequired(g)
    /\ runtimeNow - inventories[a].at \in 0..g.inventoryAge
    /\ inventories[a].lists = ExpectedExtensions

(* load_json_lines: there is a line, and every line is an object           *)
AuditForms == Forms({"object"})
AuditLinesReadable(x) == x.object /\ auditEvents # {}

(* audit_matches: every event is recent and has the fields of the schema   *)
(* only, every kind of decision was exercised, and the file is kept as     *)
(* required                                                                *)
AuditMatches(g) ==
    /\ g.records = "schema, references and reasons only"
    /\ \A e \in auditEvents : runtimeNow - e.at \in 0..g.eventAge
    /\ {e.decision : e \in auditEvents} = RequiredDecisions
    /\ g.managed /\ g.owner = "root" /\ g.modes = "as required"
    /\ g.retention = "bounded" /\ g.export = "organization-security-log"

(* main: without both inventories, an audit file or a usable policy it is  *)
(* an ERROR                                                                *)
Judgement(g, x) ==
    IF \/ \E a \in Adapters : inventories[a] = NoListing
       \/ ~AuditLinesReadable(x) \/ ~RuntimePolicyAccepted(g)
    THEN "ERROR"
    ELSE IF (\A a \in Adapters : InventoryMatches(a, g)) /\ AuditMatches(g)
         THEN "PASS" ELSE "FAIL"

JudgeRuntime ==
    /\ \E v \in {Judgement(g, x) : g \in Settings, x \in AuditForms} :
         runtimeVerdict' = [verdict |-> v, at |-> runtimeNow]
    /\ UNCHANGED <<runtimeNow, installs, installedNow, lastReviewed, inventories, auditEvents>>

RuntimeNext ==
    /\ runtimeVerdict = NoRuntimeVerdict
    /\ \/ \E a \in Adapters, what \in Installations : InstallExtension(a, what)
       \/ \E a, from \in Adapters : TakeInventory(a, from)
       \/ \E decision \in RequiredDecisions : HookEvent(decision)
       \/ Rotate \/ JudgeRuntime \/ RuntimeTick

RuntimeSpec == RuntimeInit /\ [][RuntimeNext]_runtimeVars
-----------------------------------------------------------------------------
(* DriftIsNoticed: evidence does not pass once an adapter has run anything *)
(* but the reviewed extensions for longer than the inventory age, however  *)
(* inventories are delayed or exchanged; and it does not pass unless each  *)
(* kind of decision was made within the event age and is still on file.    *)
DriftIsNoticed ==
    runtimeVerdict.verdict = "PASS" =>
        /\ \A a \in Adapters : lastReviewed[a] + MaxInstalledAge >= runtimeVerdict.at
        /\ \A d \in RequiredDecisions : \E e \in auditEvents :
              e.decision = d /\ e.at + MaxEventAge >= runtimeVerdict.at
=============================================================================
