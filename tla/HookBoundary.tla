----------------------------- MODULE HookBoundary -----------------------------
(***************************************************************************)
(* What remains of the protection when the hook of an agent product fails: *)
(* the product goes on, and only a gateway in front of the side effect     *)
(* holds it.  A campaign provokes each class of scenario with each product *)
(* against gateways as they were really built, and its evidence is judged  *)
(* by verify-hook-failure-boundary.py.                                     *)
(***************************************************************************)
EXTENDS Integers, FiniteSets, Documents

CONSTANTS
    Products,        \* supported_providers
    MaxOddities      \* bound: what goes wrong in one campaign

ASSUME BoundaryAssumption == MaxOddities \in Nat

FailureStates == {"not-started", "timed-out", "abnormal-exit", "invalid-output"}
ScenarioClasses ==
    FailureStates \cup {"completed-allow", "explicit-deny", "invalid-permit"}

VARIABLES
    gateway,    \* what the gateway does: [checks, mandatory, audits]
    aroundIt,   \* the products with another way to the side effect
    scenarios,  \* scenarios <<product, class>> not provoked yet
    campaign,   \* the evidence
    oddities,   \* counter of what went wrong
    assessment  \* the verdict, or NoAssessment

boundaryVars == <<gateway, aroundIt, scenarios, campaign, oddities, assessment>>

NoAssessment == [result |-> "none"]

(* A gateway may ask for a permit, for its issuer and for its request.     *)
BoundaryInit ==
    /\ gateway \in [checks : SUBSET {"permit", "issuer", "request"},
                    mandatory : BOOLEAN, audits : BOOLEAN]
    /\ aroundIt \in {{}} \cup {{p} : p \in Products}
    /\ scenarios = Products \X ScenarioClasses /\ campaign = {}
    /\ oddities = 0 /\ assessment = NoAssessment

-----------------------------------------------------------------------------
(* What the agent holds for the gateway when a scenario of the class is     *)
(* provoked: a hook that did not allow the call leaves no permit, and an    *)
(* invalid permit may be a forged one for another request, or none.         *)
Presented(class) ==
    CASE class = "completed-allow" -> {"valid"}
      [] class = "invalid-permit" -> {"invalid", "missing"}
      [] OTHER -> {"missing"}

(* How the hook then ends.                                                 *)
Provoked(class, permit) ==
    [matched |-> TRUE,
     state |-> IF class \in FailureStates THEN class ELSE "completed",
     exitCode |-> CASE class \in {"not-started", "timed-out"} -> "none"
                    [] class = "abnormal-exit" -> "1" [] OTHER -> "0",
     decision |-> CASE class \in FailureStates -> "none"
                    [] class = "explicit-deny" -> "deny" [] OTHER -> "allow",
     audited |-> class \notin FailureStates,
     continues |-> class # "explicit-deny",
     permit |-> permit]

(* What may go wrong in one case: it is not the managed hook, the hook ends *)
(* otherwise than intended, its record is lost, the product stops, a permit *)
(* of an earlier call is still at hand, the gateway cannot be reached.      *)
Oddities ==
    {"none", "unmatched", "exit-2", "record-lost", "product-stops", "old-permit",
     "no-gateway"}
Happened(class, permit, odd) ==
    LET plain == Provoked(class, permit)
    IN CASE odd = "unmatched" -> [plain EXCEPT !.matched = FALSE]
         [] odd = "exit-2" -> [plain EXCEPT !.exitCode = "2"]
         [] odd = "record-lost" -> [plain EXCEPT !.audited = FALSE]
         [] odd = "product-stops" -> [plain EXCEPT !.continues = FALSE]
         [] odd = "old-permit" /\ permit # "valid" -> [plain EXCEPT !.permit = "old"]
         [] OTHER -> plain

(* Binding and issuer of the permit that the agent presents                *)
Binding(permit) ==
    CASE permit = "valid" -> "matched" [] permit = "missing" -> "unavailable"
      [] OTHER -> "mismatched"
Issuer(permit) ==
    CASE permit \in {"valid", "old"} -> "trusted" [] permit = "missing" -> "unavailable"
      [] OTHER -> "untrusted"

Lets(permit) ==
    /\ "permit" \in gateway.checks => permit # "missing"
    /\ "issuer" \in gateway.checks => Issuer(permit) # "untrusted"
    /\ "request" \in gateway.checks => Binding(permit) # "mismatched"

(* One scenario, observed: the gateway decides on the permit, the effect   *)
(* comes through it or around it.                                          *)
Provoke(product, class, permit, odd) ==
    LET h == Happened(class, permit, odd)
        let == Lets(h.permit)
    IN /\ odd = "none" \/ oddities < MaxOddities
       /\ oddities' = oddities + (IF odd = "none" THEN 0 ELSE 1)
       /\ campaign' = campaign \cup
            {[product |-> product, class |-> class, hook |-> h,
              reachable |-> odd # "no-gateway", enforced |-> gateway.mandatory,
              decision |-> IF let THEN "allow" ELSE "deny", recorded |-> gateway.audits,
              effect |-> let \/ (h.continues /\ product \in aroundIt)]}
       /\ scenarios' = scenarios \ {<<product, class>>}
       /\ UNCHANGED <<gateway, aroundIt, assessment>>

(* Somebody leaves out a scenario, or what remains of a product.           *)
LeaveOut(some) ==
    /\ oddities < MaxOddities /\ oddities' = oddities + 1
    /\ scenarios' = scenarios \ some
    /\ UNCHANGED <<gateway, aroundIt, campaign, assessment>>
-----------------------------------------------------------------------------
(* load_json, version_at_least: an ERROR otherwise                         *)
BoundaryForms == Forms({"object", "identities", "repeated"})
BoundaryReadable(x) == x.object /\ x.identities = "exact" /\ ~x.repeated
BoundaryVersions == {"at least the minimum", "older", "not three numbers"}
ProductSupported(v) == v = "at least the minimum"

(* require_policy: anything else is an ERROR                               *)
FailurePolicies == OneOff(
    [default |-> "deny", products |-> "both", classes |-> ScenarioClasses,
     failures |-> FailureStates, gateway |-> "mandatory, all of the permit, audited"],
    [default |-> "allow", products |-> "one", classes |-> ScenarioClasses \ FailureStates,
     failures |-> {}, gateway |-> "weaker"])
FailurePolicySafe(p) ==
    /\ p.default = "deny" /\ p.products = "both" /\ p.classes = ScenarioClasses
    /\ p.failures = FailureStates /\ p.gateway = "mandatory, all of the permit, audited"

(* process_shape_matches                                                   *)
ShapeMatches(c) ==
    LET h == c.hook
    IN \/ /\ c.class \in {"completed-allow", "explicit-deny", "invalid-permit"}
          /\ h.state = "completed" /\ h.exitCode = "0"
       \/ /\ c.class \in {"not-started", "timed-out"}
          /\ h.state = c.class /\ h.exitCode = "none" /\ h.decision = "none"
       \/ /\ c.class = "abnormal-exit"
          /\ h.state = c.class /\ h.exitCode \notin {"none", "0", "2"} /\ h.decision = "none"
       \/ /\ c.class = "invalid-output"
          /\ h.state = c.class /\ h.exitCode = "0" /\ h.decision = "none"

(* require_case_shape, and the first three checks of evaluate_case         *)
CaseForms == OneOff([fields |-> "exact", values |-> "of the schema"],
                    [fields |-> "missing", values |-> "unknown"])
CaseReadable(x) == x.fields = "exact" /\ x.values = "of the schema"

(* evaluate_case                                                           *)
CommonGateway(c) == c.enforced /\ c.recorded
CompletedAllow(c) ==
    /\ c.class = "completed-allow" /\ c.hook.matched
    /\ c.hook.decision = "allow" /\ c.hook.audited
    /\ c.hook.permit = "valid"       \* and so matched, of a trusted issuer
    /\ CommonGateway(c) /\ c.decision = "allow" /\ c.effect
DeniedBeforeEffect(c) ==
    /\ c.class # "completed-allow" /\ c.hook.permit # "valid"
    /\ CommonGateway(c) /\ c.decision = "deny" /\ ~c.effect
    /\ c.class = "explicit-deny" =>
         c.hook.decision = "deny" /\ c.hook.audited /\ ~c.hook.continues
    /\ c.class \in FailureStates => c.hook.continues /\ ~c.hook.audited
    /\ c.class = "invalid-permit" =>
         /\ c.hook.decision = "allow" /\ c.hook.audited
         /\ Binding(c.hook.permit) # "matched" /\ Issuer(c.hook.permit) # "trusted"
CasePassed(c) == CompletedAllow(c) \/ DeniedBeforeEffect(c)

(* plausible mistake: the classes of all products count together           *)
CoveredTogether == {c.class : c \in campaign} = ScenarioClasses
(* evaluate: a complete assessment has every class of every product        *)
Covered ==
    \A p \in Products : {c.class : c \in {x \in campaign : x.product = p}} = ScenarioClasses

BoundaryResult(x, v, p, y, scope) ==
    IF \/ ~BoundaryReadable(x) \/ ~ProductSupported(v)
       \/ ~FailurePolicySafe(p) \/ ~CaseReadable(y)
       \/ \E c \in campaign : ~c.reachable \/ ~ShapeMatches(c)
       \/ scope = "complete" /\ ~Covered
    THEN "ERROR"
    ELSE IF \A c \in campaign : CasePassed(c) THEN "PASS" ELSE "FAIL"

(* main                                                                    *)
AssessBoundary(scope) ==
    /\ scenarios = {} /\ campaign # {}
    /\ \E result \in {BoundaryResult(x, v, p, y, scope) :
                         x \in BoundaryForms, v \in BoundaryVersions,
                         p \in FailurePolicies, y \in CaseForms} :
         assessment' = [result |-> result, scope |-> scope]
    /\ UNCHANGED <<gateway, aroundIt, scenarios, campaign, oddities>>

(* The order of the scenarios makes no difference: one is enough.          *)
BoundaryNext ==
    /\ assessment = NoAssessment
    /\ \/ /\ scenarios # {}
          /\ LET s == CHOOSE x \in scenarios : TRUE
             IN \/ \E permit \in Presented(s[2]), odd \in Oddities :
                     Provoke(s[1], s[2], permit, odd)
                \/ \E some \in {{s}, {x \in scenarios : x[1] = s[1]}} : LeaveOut(some)
       \/ \E scope \in {"complete", "negative"} : AssessBoundary(scope)

BoundarySpec == BoundaryInit /\ [][BoundaryNext]_boundaryVars
-----------------------------------------------------------------------------
(* PassedGatewayHolds: a complete assessment that passed was of a gateway  *)
(* that is mandatory and keeps a record, no product has a way around it,   *)
(* and it checks what would stop every bad permit that the campaign        *)
(* presented: a missing one by asking for a permit, one of an unknown      *)
(* issuer and another request by asking for one of the two, one of an      *)
(* earlier call by asking for the request.  It need not have presented all *)
(* of them: the scenario of the invalid permit is accepted without any     *)
(* permit, and a gateway that asks for nothing but a permit then passes.   *)
PassedGatewayHolds ==
    assessment.result = "PASS" /\ assessment.scope = "complete" =>
      /\ gateway.mandatory /\ gateway.audits /\ aroundIt = {}
      /\ \A c \in campaign :
           /\ c.hook.permit = "missing" => "permit" \in gateway.checks
           /\ c.hook.permit = "invalid" => gateway.checks \cap {"issuer", "request"} # {}
           /\ c.hook.permit = "old" => "request" \in gateway.checks
=============================================================================
