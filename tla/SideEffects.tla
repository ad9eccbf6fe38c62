----------------------------- MODULE SideEffects -----------------------------
(***************************************************************************)
(* Reconciliation of an external side effect whose outcome is uncertain:   *)
(* the executor dispatches one approved request to a backend over a network *)
(* that delays and loses messages, gives up after a timeout, looks the      *)
(* outcome up, decides, and may dispatch again.  The verifier judges the   *)
(* evidence of all this (verify-side-effect-reconciliation.py).  The       *)
(* executor may do what the policy forbids: the verifier must notice.      *)
(***************************************************************************)
EXTENDS Integers, Sequences, FiniteSets, Documents

CONSTANT MaxDispatches  \* bound: dispatches of the request
ASSUME DispatchAssumption == MaxDispatches \in Nat

NoAnswer == "none"
NoCount == -1   \* the mutation count of an unknown outcome is null
Keys == {"key", "other key"}
Digests == {"digest", "other digest"}

VARIABLES
    idempotent,  \* whether the backend enforces idempotency keys
    sent,        \* the dispatches, in order
    travelling,  \* dispatches that have not reached the backend
    booked,      \* the backend: key -> request digest, or NoAnswer
    conflict,    \* the backend has seen a key with two digests
    mutations,   \* the backend: how often it has changed anything
    consumed,    \* approvals that were consumed before their dispatch
    restored,    \* the original approval was made usable again
    lookup,      \* what the last lookup found, or NoAnswer
    decision,    \* the reconciliation's decision, or NoAnswer
    judged       \* the verifier's verdict, or NoAnswer

executor == <<sent, consumed, restored, lookup, decision>>
backend == <<travelling, booked, conflict, mutations>>
effectVars == <<idempotent, executor, backend, judged>>

EffectInit ==
    /\ idempotent \in BOOLEAN
    /\ sent = <<>> /\ travelling = {}
    /\ booked = [k \in Keys |-> NoAnswer] /\ conflict = FALSE /\ mutations = 0
    /\ consumed = {} /\ restored = FALSE
    /\ lookup = NoAnswer /\ decision = NoAnswer /\ judged = NoAnswer

Waiting == Len(sent) > 0 /\ sent[Len(sent)].outcome = NoAnswer

(* The first dispatch, or one after a decision or, automatically, after a  *)
(* timeout; the approval may or may not have been consumed first.          *)
Dispatch(approval, key, digest) ==
    /\ judged = NoAnswer /\ ~Waiting /\ Len(sent) < MaxDispatches
    /\ sent = <<>> => approval = "original"
    /\ decision # "complete-no-retry"
    /\ sent' = Append(sent, [approval |-> approval, key |-> key, digest |-> digest,
                             outcome |-> NoAnswer, automatic |->
                                 sent # <<>> /\ decision = NoAnswer])
    /\ travelling' = travelling \cup {Len(sent) + 1}
    /\ consumed' \in {consumed, consumed \cup {approval}}
    /\ restored' = (restored \/ \E i \in DOMAIN sent : sent[i].approval = approval)
    /\ lookup' = NoAnswer
    /\ UNCHANGED <<idempotent, booked, conflict, mutations, decision, judged>>

(* A dispatch arrives, however late; with idempotency a known key changes  *)
(* nothing.                                                                *)
Arrive(i) ==
    /\ i \in travelling
    /\ travelling' = travelling \ {i}
    /\ LET known == idempotent /\ booked[sent[i].key] # NoAnswer
       IN /\ mutations' = IF known THEN mutations ELSE mutations + 1
          /\ booked' = IF known THEN booked
                       ELSE [booked EXCEPT ![sent[i].key] = sent[i].digest]
          /\ conflict' = (conflict \/ (known /\ booked[sent[i].key] # sent[i].digest))
    /\ UNCHANGED <<idempotent, executor, judged>>

Answered(outcome) ==
    /\ judged = NoAnswer /\ Waiting
    /\ sent' = [sent EXCEPT ![Len(sent)].outcome = outcome]
    /\ UNCHANGED <<idempotent, backend, consumed, restored, lookup, decision, judged>>

Respond == Len(sent) \notin travelling /\ Answered("applied-response")
Timeout == Answered("timeout")

(* The backend is asked for the request's key; it may not be able to tell. *)
LookUp ==
    /\ judged = NoAnswer /\ sent # <<>> /\ ~Waiting
    /\ lookup' \in {"unknown",
                    IF conflict THEN "conflict"
                    ELSE IF booked["key"] = NoAnswer THEN "not-applied" ELSE "applied"}
    /\ decision' \in {"complete-no-retry", "require-new-approval",
                      "retry-with-replacement-approval", "block-unknown"}
    /\ UNCHANGED <<idempotent, sent, consumed, restored, backend, judged>>

-----------------------------------------------------------------------------
(* The evidence, taken after a lookup, and its judgement.                  *)

(* The case document; require_case refuses other shapes and values         *)
Case ==
    [dispatches |-> sent,
     replaced |-> Len(sent) > 1 /\ sent[Len(sent)].approval = "replacement",
     recorded |-> IF lookup = "applied" THEN booked["key"] ELSE NoAnswer,
     count |-> IF lookup = "unknown" THEN NoCount ELSE mutations]

(* expected_scenario_state: the five scenarios of the policy               *)
Scenario(c, first, second, status, n, decided) ==
    /\ Len(c.dispatches) = (IF second = NoAnswer THEN 1 ELSE 2)
    /\ c.dispatches[1].approval = "original" /\ c.dispatches[1].outcome = first
    /\ c.replaced = (second # NoAnswer)
    /\ second # NoAnswer =>
         /\ "replacement" \in consumed
         /\ c.dispatches[2].approval = "replacement" /\ c.dispatches[2].outcome = second
    /\ lookup = status /\ c.count = n /\ decision = decided

ExpectedScenarioState(c) ==
    \/ Scenario(c, "applied-response", NoAnswer, "applied", 1, "complete-no-retry")
    \/ Scenario(c, "timeout", NoAnswer, "applied", 1, "complete-no-retry")
    \/ Scenario(c, "timeout", NoAnswer, "not-applied", 0, "require-new-approval")
    \/ Scenario(c, "timeout", "applied-response", "applied", 1,
                "retry-with-replacement-approval")
    \/ Scenario(c, "timeout", NoAnswer, "unknown", NoCount, "block-unknown")

(* plausible mistake: the keys of the dispatches are not compared          *)
SameDigest(c) == \A i \in DOMAIN c.dispatches : c.dispatches[i].digest = "digest"

SameRequest(c) ==
    \A i \in DOMAIN c.dispatches :
        c.dispatches[i].digest = "digest" /\ c.dispatches[i].key = "key"

(* common_safe of evaluate_case                                            *)
CommonSafe(c) ==
    /\ "original" \in consumed /\ ~restored
    /\ \A i \in DOMAIN c.dispatches : ~c.dispatches[i].automatic
    /\ idempotent
    /\ lookup # "conflict"
    /\ c.recorded = (IF lookup = "applied" THEN "digest" ELSE NoAnswer)
    /\ c.count \in {NoCount, 0, 1}
    /\ SameRequest(c)

EvaluateCase(c) == IF CommonSafe(c) /\ ExpectedScenarioState(c) THEN "PASS" ELSE "FAIL"

(* require_policy: nothing but these rules is accepted                     *)
EffectPolicies == OneOff(
    [default |-> "block-unknown", maximumMutations |-> 1, consumedFirst |-> TRUE,
     restore |-> FALSE, automaticRetry |-> FALSE, idempotency |-> TRUE,
     stableKey |-> TRUE, stableDigest |-> TRUE, distinctReplacement |-> TRUE,
     scenarios |-> "all five", states |-> "all"],
    [default |-> "retry", maximumMutations |-> 2, consumedFirst |-> FALSE,
     restore |-> TRUE, automaticRetry |-> TRUE, idempotency |-> FALSE,
     stableKey |-> FALSE, stableDigest |-> FALSE, distinctReplacement |-> FALSE,
     scenarios |-> "four", states |-> "some"])
EffectPolicyAccepted(p) ==
    /\ p.default = "block-unknown" /\ p.maximumMutations = 1 /\ p.consumedFirst
    /\ ~p.restore /\ ~p.automaticRetry /\ p.idempotency
    /\ p.stableKey /\ p.stableDigest /\ p.distinctReplacement
    /\ p.scenarios = "all five" /\ p.states = "all"

(* require_case: the executor and the backend only say what the policy has *)
(* words for                                                               *)
EffectCaseWellFormed(c) ==
    /\ c.dispatches # <<>>
    /\ \A i \in DOMAIN c.dispatches :
          c.dispatches[i].outcome \in {"applied-response", "not-applied-response", "timeout"}
    /\ lookup \in {"applied", "not-applied", "unknown", "conflict"}
    /\ decision \in {"complete-no-retry", "require-new-approval",
                     "retry-with-replacement-approval", "block-unknown"}

(* One case is evaluated; an unavailable backend or reconciliation is an   *)
(* ERROR and judges nothing.                                               *)
Judge ==
    /\ judged = NoAnswer /\ lookup # NoAnswer
    /\ \E p \in EffectPolicies : EffectPolicyAccepted(p)
    /\ EffectCaseWellFormed(Case)
    /\ judged' = EvaluateCase(Case)
    /\ UNCHANGED <<idempotent, executor, backend>>

EffectNext ==
    \/ \E a \in {"original", "replacement"}, k \in Keys, d \in Digests : Dispatch(a, k, d)
    \/ \E i \in 1..MaxDispatches : Arrive(i)
    \/ Respond \/ Timeout \/ LookUp \/ Judge

EffectSpec == EffectInit /\ [][EffectNext]_effectVars
-----------------------------------------------------------------------------
(* PassIsAtMostOnce: once the verifier has passed the evidence, the        *)
(* request has changed the backend at most once and never will more often, *)
(* even when a dispatch that had timed out arrives late; when the evidence *)
(* says it was completed it has changed it; and no approval has carried    *)
(* more than one dispatch.                                                 *)
PassIsAtMostOnce ==
    judged = "PASS" =>
        /\ mutations <= 1
        /\ decision \in {"complete-no-retry", "retry-with-replacement-approval"} =>
              mutations = 1
        /\ \A i, j \in DOMAIN sent : sent[i].approval = sent[j].approval => i = j
=============================================================================
