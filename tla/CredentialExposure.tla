------------------------- MODULE CredentialExposure -------------------------
(***************************************************************************)
(* The response to an exposed credential, and the verdict on whether the   *)
(* incident is ready to close                                              *)
(* (credential-exposure-containment/scripts/verify.py).  The responders    *)
(* work through provider adapters that may fail; whoever holds the exposed *)
(* credential derives sessions from it while it is valid.  The response    *)
(* may be done in any order and any part of it may be missing.  The log of *)
(* its nine states is a statement of the responders: no check compares its *)
(* times with those of the operations, and each outcome may be             *)
(* NOT_REQUIRED.                                                           *)
(***************************************************************************)
EXTENDS Integers, Sequences, FiniteSets, Documents

CONSTANTS
    MaxAuthorization, \* REFERENCE_MAX_AUTHORIZATION_HOURS
    MaxResponseTime,  \* bound: the clock stops here
    MaxSlips          \* bound: departures from the response as it should be

(* REFERENCE_STATES                                                        *)
ReferenceStates ==
    <<"SUSPECTED", "CONTAINMENT_AUTHORIZED", "OLD_AUTHORITY_DISABLED",
      "DEPENDENT_AUTHORITY_INVALIDATED", "REPLACEMENT_BOUND", "CONSUMERS_MIGRATED",
      "OLD_AUTHORITY_DENIED", "IMPACT_REVIEWED", "CLOSED">>

(* REFERENCE_CLASS_ACTIONS, containment and replacement together.  The      *)
(* actions of a class that touch neither the old authority nor what depends *)
(* on it (a replacement is issued and bound, trust is repaired or           *)
(* distributed, artifacts are reviewed) are checked alike and stand as one. *)
Classes == {"reusable-bearer", "ssh-key", "signing-key", "short-lived-session"}
RequiredActions(class) ==
    CASE class = "reusable-bearer" ->
            {"disable-old-authority", "invalidate-dependent-authority", "other-actions"}
      [] class = "ssh-key" ->
            {"remove-old-key", "invalidate-dependent-authority", "other-actions"}
      [] class = "signing-key" -> {"revoke-signer-trust", "other-actions"}
      [] class = "short-lived-session" -> {"block-replay-or-issuer-path", "other-actions"}

ASSUME CredentialAssumption == {MaxAuthorization, MaxResponseTime, MaxSlips} \subseteq Nat

(* What the providers do: these end the old authority, and one what        *)
(* depends on it.                                                          *)
Disabling ==
    {"disable-old-authority", "remove-old-key", "revoke-signer-trust",
     "block-replay-or-issuer-path"}
Invalidating == {"invalidate-dependent-authority"}

VARIABLES
    hour,
    credentialClass,
    old,          \* the exposed credential is valid
    derived,      \* a session derived from it is alive
    grant,        \* the response authorization
    operationReceipts, \* of the provider adapters: [action, ok, at]
    probe,        \* result of the last probe of the old authority
    closure,      \* the verifier's verdict
    slips         \* what of MaxSlips is used up

credentialVars == <<hour, credentialClass, old, derived, grant, operationReceipts,
                    probe, closure, slips>>

NoGrant == [at |-> -1, ttl |-> 0]

CredentialInit ==
    /\ hour = 0 /\ credentialClass \in Classes /\ old = TRUE /\ derived = FALSE
    /\ grant = NoGrant /\ operationReceipts = <<>>
    /\ probe = "skipped" /\ closure = "none" /\ slips = 0

Unless(ok) == IF ok THEN 0 ELSE 1
Departures(n) == slips + n <= MaxSlips /\ slips' = slips + n

Called == {operationReceipts[i].action : i \in DOMAIN operationReceipts}

Receipt(action, ok) == [action |-> action, ok |-> ok, at |-> hour]
Succeeded(action) ==
    \E i \in DOMAIN operationReceipts :
        operationReceipts[i].action = action /\ operationReceipts[i].ok

-----------------------------------------------------------------------------
Derive ==
    /\ old /\ derived' = TRUE
    /\ UNCHANGED <<hour, credentialClass, old, grant, operationReceipts, probe, closure, slips>>

AuthorizeResponse(ttl) ==
    /\ grant = NoGrant /\ grant' = [at |-> hour, ttl |-> ttl]
    /\ Departures(Unless(ttl <= MaxAuthorization))
    /\ UNCHANGED <<hour, credentialClass, old, derived, operationReceipts, probe, closure>>

(* An adapter call: it succeeds, or fails with nothing done; a failed call *)
(* leaves its receipt and may be repeated.                                 *)
Call(action) ==
    /\ ~Succeeded(action)
    /\ operationReceipts' = Append(operationReceipts, Receipt(action, TRUE))
    /\ old' = (old /\ action \notin Disabling)
    /\ derived' = (derived /\ action \notin Invalidating)
    /\ UNCHANGED <<hour, credentialClass, grant, probe, closure, slips>>

CallFails(action) ==
    /\ operationReceipts' = Append(operationReceipts, Receipt(action, FALSE))
    /\ Departures(1)
    /\ UNCHANGED <<hour, credentialClass, old, derived, grant, probe, closure>>

ProbeOld ==
    /\ probe' = IF old THEN "ACCEPTED" ELSE "DENIED"
    /\ UNCHANGED <<hour, credentialClass, old, derived, grant, operationReceipts, closure,
                   slips>>

-----------------------------------------------------------------------------
(* The verifier: what cannot be evaluated is an ERROR, a finding leaves    *)
(* the incident NOT_READY.                                                 *)

(* What the case is judged with and no step of the response changes        *)
Frames == OneOff(
    [inventoryLimit |-> MaxAuthorization, authorizationLimit |-> MaxAuthorization,
     roles |-> "two", surfaces |-> "all seven", states |-> ReferenceStates,
     classes |-> "reference actions and lifetimes", denial |-> "independent, fail closed",
     mutation |-> "NOT_CHECKED", dryRun |-> TRUE, emptyAudit |-> "no proof",
     adapter |-> "HEALTHY", graph |-> "complete", inventoryAge |-> 0,
     approval |-> "of a role, for all of it", transitions |-> ReferenceStates,
     outcomes |-> "completed or not required", evidence |-> "complete",
     firstAction |-> "preserve-evidence", cleanupAfter |-> "OLD_AUTHORITY_DENIED",
     closeAfter |-> "IMPACT_REVIEWED", consumers |-> "all disposed of",
     replacement |-> "within the old, if required",
     replacementProbe |-> "as the class requires",
     oldProbe |-> "of the credential", independent |-> TRUE, impacts |-> "reviewed"],
    [inventoryLimit |-> MaxAuthorization + 1, authorizationLimit |-> MaxAuthorization + 1,
     roles |-> "one", surfaces |-> "six", states |-> Tail(ReferenceStates),
     classes |-> "fewer actions", denial |-> "optional",
     mutation |-> "PASS", dryRun |-> FALSE, emptyAudit |-> "proof",
     adapter |-> "UNAVAILABLE", graph |-> "partial", inventoryAge |-> MaxAuthorization + 1,
     approval |-> "partial", transitions |-> Tail(ReferenceStates),
     outcomes |-> "incomplete", evidence |-> "partial",
     firstAction |-> "repository-cleanup", cleanupAfter |-> "SUSPECTED",
     closeAfter |-> "CONSUMERS_MIGRATED", consumers |-> "one missing",
     replacement |-> "wider, longer or needless",
     replacementProbe |-> "unavailable",
     oldProbe |-> "of another", independent |-> FALSE, impacts |-> "none"])

(* load_json, require_id, require_string_set, parse_timestamp,             *)
(* reject_sensitive_content                                                *)
IncidentForms == Forms({"object", "times", "identities", "repeated", "sensitive"})
IncidentReadable(x) ==
    /\ x.object /\ x.times = "with a timezone" /\ x.identities = "exact"
    /\ ~x.repeated /\ ~x.sensitive

(* validate_policy: nothing weaker than the reference                      *)
ResponsePolicySafe(f) ==
    /\ f.inventoryLimit <= MaxAuthorization /\ f.authorizationLimit <= MaxAuthorization
    /\ f.roles = "two" /\ f.surfaces = "all seven" /\ f.states = ReferenceStates
    /\ f.classes = "reference actions and lifetimes"
    /\ f.denial = "independent, fail closed" /\ f.mutation = "NOT_CHECKED" /\ f.dryRun
    /\ f.emptyAudit = "no proof"

(* validate_inventory: an ERROR                                            *)
CredentialInventorySound(f) ==
    /\ f.adapter = "HEALTHY" /\ f.graph = "complete"
    /\ f.inventoryAge \in 0..f.inventoryLimit

(* validate_response_plan                                                  *)
ResponsePlan(f) ==
    /\ f.firstAction = "preserve-evidence"
    /\ f.cleanupAfter \in {"OLD_AUTHORITY_DENIED", "IMPACT_REVIEWED"}
    /\ f.closeAfter = "IMPACT_REVIEWED"

(* validate_state_transitions: the names in the order of the policy; an    *)
(* outcome is COMPLETED or, for each of the states, NOT_REQUIRED.          *)
StateTransitions(f) ==
    f.transitions = f.states /\ f.outcomes = "completed or not required"

(* It covers the time that the log states for its last state.              *)
AuthorizationCovers(closed) ==
    grant # NoGrant /\ grant.ttl > 0 /\ closed <= grant.at + grant.ttl
AuthorizationBounded(f) ==
    grant.ttl <= MaxAuthorization /\ f.approval = "of a role, for all of it"

ReceiptsUnique ==
    \A i, j \in DOMAIN operationReceipts :
        operationReceipts[i].action = operationReceipts[j].action => i = j
ReceiptsInTime ==
    \A i \in DOMAIN operationReceipts :
        operationReceipts[i].at \in grant.at..grant.at + grant.ttl

(* plausible mistake: that there is a receipt is taken for success         *)
AnyReceipts == ReceiptsUnique /\ ReceiptsInTime

OperationReceipts ==
    /\ ReceiptsUnique /\ ReceiptsInTime
    /\ \A i \in DOMAIN operationReceipts : operationReceipts[i].ok

ActionsPresent == RequiredActions(credentialClass) \subseteq Called

(* Every consumer of the inventory has a disposition.                      *)
ConsumerDispositions(f) == f.consumers = "all disposed of"

(* validate_replacement: what cannot be judged, and what is too much       *)
ReplacementUsable(f) ==
    credentialClass # "short-lived-session" => f.replacementProbe = "as the class requires"
ReplacementBounded(f) ==
    f.replacementProbe = "as the class requires" /\ f.replacement = "within the old, if required"

(* The ERRORs of validate_case, and its findings                           *)
CaseEvaluable(f, closed) ==
    /\ AuthorizationCovers(closed) /\ StateTransitions(f)
    /\ f.evidence = "complete" /\ OperationReceipts /\ ConsumerDispositions(f)
    /\ ReplacementUsable(f) /\ f.oldProbe = "of the credential" /\ probe # "skipped"
    /\ f.impacts = "reviewed"
ClosureReady(f) ==
    /\ ResponsePolicySafe(f) /\ AuthorizationBounded(f) /\ ResponsePlan(f)
    /\ ActionsPresent /\ ReplacementBounded(f) /\ probe = "DENIED" /\ f.independent

ClosureVerdict(x, f, closed) ==
    IF ~IncidentReadable(x) \/ ~CredentialInventorySound(f) \/ ~CaseEvaluable(f, closed)
    THEN "ERROR"
    ELSE IF ClosureReady(f) THEN "READY" ELSE "NOT_READY"

AssessIncident ==
    /\ closure' \in {ClosureVerdict(x, f, closed) :
                        x \in IncidentForms, f \in Frames, closed \in 0..hour}
    /\ UNCHANGED <<hour, credentialClass, old, derived, grant, operationReceipts, probe,
                   slips>>

ResponseTick ==
    /\ hour < MaxResponseTime
    /\ hour' = hour + 1
    /\ UNCHANGED <<credentialClass, old, derived, grant, operationReceipts, probe, closure,
                   slips>>

CredentialNext ==
    /\ closure = "none"
    /\ \/ Derive \/ ProbeOld \/ AssessIncident \/ ResponseTick
       \/ \E ttl \in 0..MaxAuthorization + 1 : AuthorizeResponse(ttl)
       \/ \E action \in RequiredActions(credentialClass) : Call(action) \/ CallFails(action)

CredentialSpec == CredentialInit /\ [][CredentialNext]_credentialVars
-----------------------------------------------------------------------------
Precedes(A, B) ==
    \E i, j \in DOMAIN operationReceipts :
        /\ i < j
        /\ operationReceipts[i].action \in A /\ operationReceipts[i].ok
        /\ operationReceipts[j].action \in B /\ operationReceipts[j].ok

(* ReadyIsContained: evidence that is ready to close means that the exposed *)
(* credential is dead, by an operation that succeeded, and that this and    *)
(* every other operation was done under one authorization of bounded        *)
(* length.  Of a token or an SSH key it means also that a session which is  *)
(* still alive was derived between the two operations, the invalidation of  *)
(* the sessions having come first: the order of the receipts is not         *)
(* compared, although the response is to be done in order.  Of the other    *)
(* two classes it says nothing of sessions, whose invalidation they do not  *)
(* require.                                                                 *)
ReadyIsContained ==
    closure = "READY" =>
        /\ ~old /\ \E action \in Disabling : Succeeded(action)
        /\ derived /\ credentialClass \in {"reusable-bearer", "ssh-key"} =>
              Precedes(Invalidating, Disabling)
        /\ \A i \in DOMAIN operationReceipts :
              operationReceipts[i].at \in grant.at..grant.at + MaxAuthorization
=============================================================================
