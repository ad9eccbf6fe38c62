--------------------------- MODULE ResourceBudget ---------------------------
(***************************************************************************)
(* The resource budget of agent sessions: sessions use what they are       *)
(* given, a meter observes them, a breaker decides and is applied, alerts  *)
(* are delivered, and the verifier judges the evidence                     *)
(* (agent-resource-budget-monitoring/scripts/verify.py).  The breaker may  *)
(* decide anything and be applied late or not at all.                      *)
(***************************************************************************)
EXTENDS Integers, FiniteSets, Documents

CONSTANTS
    Sessions,
    Budget,          \* the maximum of each measured resource
    WarningPercent,  \* budget.warning_percent
    MaxEvidenceAge,  \* maximum_snapshot_age_seconds
    MaxAlertLatency, \* alert_policy.maximum_delivery_latency_seconds
    MaxMeterTime     \* bound: the clock stops here

ASSUME BudgetAssumption ==
    /\ {Budget, MaxEvidenceAge, MaxAlertLatency, MaxMeterTime} \subseteq Nat
    /\ WarningPercent \in 1..99

Decisions == {"continue", "restrict", "block"}

VARIABLES
    meterNow,
    used,      \* session -> how much of the scarcest resource it has used
    breaker,   \* session -> the mode that the breaker enforces
    observed,  \* session -> [usage, at], or NotObserved
    decidedFor,\* session -> [decision, at], or NotDecided
    applied,   \* session -> when its decision was applied, or NotApplied
    alerted,   \* session -> [emitted, delivered], or NoAlert
    budgetVerdict

budgetVars == <<meterNow, used, breaker, observed, decidedFor, applied, alerted, budgetVerdict>>

NotObserved == [usage |-> 0, anomaly |-> FALSE, at |-> -1]
NotDecided == [decision |-> "continue", at |-> -1]
NotApplied == -1
NoAlert == [emitted |-> -1, delivered |-> -1]

BudgetInit ==
    /\ meterNow = 0
    /\ used = [s \in Sessions |-> 0]
    /\ breaker = [s \in Sessions |-> "continue"]
    /\ observed = [s \in Sessions |-> NotObserved]
    /\ decidedFor = [s \in Sessions |-> NotDecided]
    /\ applied = [s \in Sessions |-> NotApplied]
    /\ alerted = [s \in Sessions |-> NoAlert]
    /\ budgetVerdict = "none"

(* A call of the model; the breaker lets a blocked session make none.      *)
UseResource(s) ==
    /\ breaker[s] # "block" /\ used[s] <= Budget
    /\ used' = [used EXCEPT ![s] = @ + 1]
    /\ UNCHANGED <<meterNow, breaker, observed, decidedFor, applied, alerted, budgetVerdict>>

Observe(s, anomaly) ==
    /\ observed[s] = NotObserved
    /\ observed' = [observed EXCEPT ![s] = [usage |-> used[s], anomaly |-> anomaly, at |-> meterNow]]
    /\ UNCHANGED <<meterNow, used, breaker, decidedFor, applied, alerted, budgetVerdict>>

DecideSession(s, decision) ==
    /\ decidedFor[s] = NotDecided
    /\ decidedFor' = [decidedFor EXCEPT ![s] = [decision |-> decision, at |-> meterNow]]
    /\ UNCHANGED <<meterNow, used, breaker, observed, applied, alerted, budgetVerdict>>

(* The breaker is set to what was decided, or to something else.           *)
ApplyBreaker(s, mode) ==
    /\ applied[s] = NotApplied
    /\ breaker' = [breaker EXCEPT ![s] = mode]
    /\ applied' = [applied EXCEPT ![s] = meterNow]
    /\ UNCHANGED <<meterNow, used, observed, decidedFor, alerted, budgetVerdict>>

EmitAlert(s) ==
    /\ alerted[s] = NoAlert
    /\ alerted' = [alerted EXCEPT ![s].emitted = meterNow]
    /\ UNCHANGED <<meterNow, used, breaker, observed, decidedFor, applied, budgetVerdict>>

DeliverAlert(s) ==
    /\ alerted[s].emitted >= 0 /\ alerted[s].delivered < 0
    /\ alerted' = [alerted EXCEPT ![s].delivered = meterNow]
    /\ UNCHANGED <<meterNow, used, breaker, observed, decidedFor, applied, budgetVerdict>>

MeterTick ==
    /\ meterNow < MaxMeterTime /\ meterNow' = meterNow + 1
    /\ UNCHANGED <<used, breaker, observed, decidedFor, applied, alerted, budgetVerdict>>

-----------------------------------------------------------------------------
(* The policy, and what the evidence says of its own collection            *)
Collections == OneOff(
    [telemetry |-> "as pinned", providers |-> "both", limits |-> "positive",
     warning |-> WarningPercent, anomalies |-> "all three", status |-> "complete",
     evaluator |-> "completed", source |-> "required", revision |-> "the policy's",
     available |-> TRUE, gap |-> FALSE, rejected |-> 0, covers |-> Sessions],
    [telemetry |-> "changed", providers |-> "one", limits |-> "zero", warning |-> 100,
     anomalies |-> "two", status |-> "partial", evaluator |-> "failed", source |-> "client",
     revision |-> "another", available |-> FALSE, gap |-> TRUE, rejected |-> 1,
     covers |-> {}])

(* load_json, parse_time, resolve, forbidden_field, keyed                  *)
MeterForms == Forms({"object", "times", "repeated", "files", "sensitive"})
MeterReadable(x) ==
    /\ x.object /\ x.times = "with a timezone" /\ ~x.repeated
    /\ x.files = "inside" /\ ~x.sensitive

(* validate_policy                                                         *)
BudgetPolicyAccepted(g) ==
    /\ g.telemetry = "as pinned" /\ g.providers = "both"
    /\ g.limits = "positive" /\ g.warning \in 1..99 /\ g.anomalies = "all three"

(* main: a collection with a gap, or not of all required sessions, is an   *)
(* ERROR                                                                   *)
CollectionComplete(g) ==
    /\ g.status = "complete" /\ g.evaluator = "completed"
    /\ g.source = "required" /\ g.revision = "the policy's"
    /\ g.available /\ ~g.gap /\ g.rejected = 0 /\ g.covers = Sessions

(* expected_outcome                                                        *)
ExpectedOutcome(o) ==
    IF o.usage > Budget \/ o.anomaly THEN "block"
    ELSE IF o.usage * 100 >= Budget * WarningPercent THEN "restrict" ELSE "continue"

(* plausible mistake: the times of a decision are not compared             *)
DecisionNamed(s) == decidedFor[s].decision = ExpectedOutcome(observed[s])

DecisionMatches(s) ==
    /\ decidedFor[s].decision = ExpectedOutcome(observed[s])
    /\ observed[s].at <= decidedFor[s].at

EnforcementMatches(s) ==
    /\ applied[s] # NotApplied /\ breaker[s] = ExpectedOutcome(observed[s])
    /\ decidedFor[s].at <= applied[s]

AlertMatches(s) ==
    IF ExpectedOutcome(observed[s]) = "continue" THEN alerted[s] = NoAlert
    ELSE /\ alerted[s].delivered >= 0
         /\ alerted[s].delivered - alerted[s].emitted \in 0..MaxAlertLatency

(* main: what cannot be read, is incomplete or too old is an ERROR         *)
BudgetVerdict(g, x, captured) ==
    IF \/ ~MeterReadable(x) \/ ~BudgetPolicyAccepted(g) \/ ~CollectionComplete(g)
       \/ meterNow - captured \notin 0..MaxEvidenceAge
       \/ \E s \in Sessions : observed[s] = NotObserved
    THEN "ERROR"
    ELSE IF \A s \in Sessions :
              DecisionMatches(s) /\ EnforcementMatches(s) /\ AlertMatches(s)
         THEN "PASS" ELSE "FAIL"

JudgeBudget ==
    /\ budgetVerdict' \in {BudgetVerdict(g, x, captured) :
                             g \in Collections, x \in MeterForms, captured \in 0..meterNow}
    /\ UNCHANGED <<meterNow, used, breaker, observed, decidedFor, applied, alerted>>

BudgetNext ==
    /\ budgetVerdict = "none"
    /\ \/ \E s \in Sessions :
            \/ UseResource(s) \/ EmitAlert(s) \/ DeliverAlert(s)
            \/ \E anomaly \in BOOLEAN : Observe(s, anomaly)
            \/ \E d \in Decisions : DecideSession(s, d) \/ ApplyBreaker(s, d)
       \/ JudgeBudget \/ MeterTick

BudgetSpec == BudgetInit /\ [][BudgetNext]_budgetVars
-----------------------------------------------------------------------------
(* OverspenderIsStopped: when the evidence passes, a session that was over *)
(* its budget or anomalous when it was observed makes no more calls, the   *)
(* breaker was moved after the observation and not before it, and somebody *)
(* was told within the latency of the alert; a session that was well       *)
(* inside its budget was left alone.                                       *)
OverspenderIsStopped ==
    budgetVerdict = "PASS" =>
        \A s \in Sessions :
            /\ observed[s].usage > Budget \/ observed[s].anomaly =>
                 /\ breaker[s] = "block" /\ applied[s] >= observed[s].at
                 /\ alerted[s].delivered \in alerted[s].emitted..alerted[s].emitted + MaxAlertLatency
            /\ observed[s].usage * 100 < Budget * WarningPercent /\ ~observed[s].anomaly =>
                 breaker[s] = "continue" /\ alerted[s] = NoAlert
=============================================================================
