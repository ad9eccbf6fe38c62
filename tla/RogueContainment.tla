-------------------------- MODULE RogueContainment --------------------------
(***************************************************************************)
(* Containment of a rogue agent session and recovery in a new one: what    *)
(* the independent control plane, the operators and the old agent do, and  *)
(* the verdict on the incident evidence                                    *)
(* (rogue-agent-containment-recovery/scripts/verify.py).  The people and    *)
(* the control plane may do their steps early, late, in another order or   *)
(* not at all: a recovery may be authorized, and the new session started,  *)
(* before anything is contained.                                           *)
(***************************************************************************)
EXTENDS Integers, Sequences, FiniteSets, Documents

CONSTANTS
    Authorities,     \* required_revocations
    Requests,        \* what the old session has asked for or left unsettled
    MaxTriggerAge,   \* trigger.maximum_age_seconds
    MaxCommandTtl,   \* containment.maximum_command_ttl_seconds
    MaxLatency,      \* containment.maximum_application_latency_seconds
    MaxAuthTtl,      \* recovery.maximum_authorization_ttl_seconds
    MaxIncidentTime, \* bound: the clock stops here
    MaxFaults        \* bound: departures from the runbook other than in order and time

ASSUME RogueAssumption ==
    {MaxTriggerAge, MaxCommandTtl, MaxLatency, MaxAuthTtl, MaxIncidentTime, MaxFaults}
        \subseteq Nat

Unset == -1
Operators == {"commander", "reviewer"}
RoleOf == [o \in Operators |-> IF o = "commander" THEN "incident-commander"
                               ELSE "security-reviewer"]
RequiredRoles == {"incident-commander", "security-reviewer"}

VARIABLES
    time,
    detectedAt,  \* when the trigger was observed
    command,     \* the signed containment command, times Unset before
    plane,       \* what the control plane has done to the old session
    authority,   \* old authority -> "live" or "revoked"
    request,     \* request of the old session -> its state
    authorization, \* the recovery authorization
    recovered,   \* the new session: when it started, and as whom
    verdict,     \* of the verifier, or "none"
    faults       \* what of MaxFaults is used up

rogueVars == <<time, detectedAt, command, plane, authority, request, authorization,
               recovered, verdict, faults>>

RogueInit ==
    /\ time = 0 /\ detectedAt = Unset
    /\ command = [by |-> "none", sequence |-> 0, issued |-> Unset, ttl |-> 0, exact |-> TRUE]
    /\ plane = [stopped |-> FALSE, at |-> Unset, preserved |-> "pending", fallback |-> FALSE]
    /\ authority = [a \in Authorities |-> "live"]
    /\ request = [r \in Requests |-> "outstanding"]
    /\ authorization = [signers |-> <<>>, sequence |-> 0, issued |-> Unset, ttl |-> 0]
    /\ recovered = [at |-> Unset, fresh |-> FALSE]
    /\ verdict = "none" /\ faults = 0

Faults(n) == faults + n <= MaxFaults /\ faults' = faults + n
Unless(ok) == IF ok THEN 0 ELSE 1

Detect ==
    /\ detectedAt = Unset /\ detectedAt' = time
    /\ UNCHANGED <<time, command, plane, authority, request, authorization, recovered,
                   verdict, faults>>

(* The operators number their signed orders as they issue them.            *)
NextSequence == 1 + Unless(command.issued = Unset) + Unless(authorization.issued = Unset)

IssueContainment(by, ttl, exact) ==
    /\ command.issued = Unset
    /\ command' = [by |-> by, sequence |-> NextSequence, issued |-> time, ttl |-> ttl,
                   exact |-> exact]
    /\ Faults(Unless(by = "commander") + Unless(ttl \in 1..MaxCommandTtl) + Unless(exact))
    /\ UNCHANGED <<time, detectedAt, plane, authority, request, authorization, recovered, verdict>>

(* The agent is stopped; authorities may stay live and requests may be     *)
(* retried by automation that nobody told.                                 *)
Contain ==
    /\ ~plane.stopped
    /\ plane' = [plane EXCEPT !.stopped = TRUE, !.at = time]
    /\ UNCHANGED <<time, detectedAt, command, authority, request, authorization,
                   recovered, verdict, faults>>

RevokeAuthority(a) ==
    /\ authority[a] = "live"
    /\ authority' = [authority EXCEPT ![a] = "revoked"]
    /\ UNCHANGED <<time, detectedAt, command, plane, request, authorization, recovered,
                   verdict, faults>>

Settle(r, outcome) ==
    /\ request[r] = "outstanding"
    /\ request' = [request EXCEPT ![r] = outcome]
    /\ Faults(Unless(outcome = "quarantined"))
    /\ UNCHANGED <<time, detectedAt, command, plane, authority, authorization, recovered,
                   verdict>>

(* Evidence is preserved, or cleaned up first; the fallback is exercised   *)
(* while it runs.                                                          *)
QuarantineDone ==
    /\ plane.preserved = "pending"
    /\ \E preserved \in {"before", "after"}, fallback \in BOOLEAN :
         /\ plane' = [plane EXCEPT !.preserved = preserved, !.fallback = fallback]
         /\ Faults(Unless(preserved = "before") + Unless(fallback))
    /\ UNCHANGED <<time, detectedAt, command, authority, request, authorization,
                   recovered, verdict>>

Authorize(signers, ttl) ==
    /\ authorization.issued = Unset
    /\ authorization' = [signers |-> signers, sequence |-> NextSequence, issued |-> time,
                         ttl |-> ttl]
    /\ Faults(Unless(Len(signers) = 2 /\ signers[1] # signers[2]) + Unless(ttl = MaxAuthTtl))
    /\ UNCHANGED <<time, detectedAt, command, plane, authority, request, recovered, verdict>>

Recover ==
    /\ recovered.at = Unset
    /\ \E fresh \in BOOLEAN :
         recovered' = [at |-> time, fresh |-> fresh] /\ Faults(Unless(fresh))
    /\ UNCHANGED <<time, detectedAt, command, plane, authority, request, authorization, verdict>>

-----------------------------------------------------------------------------
(* The checks RRC-001 to RRC-011.  What no step of the incident changes is  *)
(* in the contracts that the verifier is given; so is the plane's log of   *)
(* states, of which the names and numbers are judged, and no time.         *)
Contracts == OneOff(
    [bindings |-> "pinned digests", operators |-> "distinct keys, public only",
     plane |-> "out of band", administeredBy |-> "incident-response",
     agentCanDisable |-> FALSE, policyDigest |-> "of the policy",
     signals |-> "both required", identities |-> "of the incident",
     fallbackMode |-> "model-free", fallbackTime |-> "bounded", mutationUsed |-> FALSE,
     canary |-> "read-only, bounded", fullRestore |-> FALSE,
     states |-> "six, in sequence", events |-> "seven, in sequence",
     live |-> "NOT_CHECKED"],
    [bindings |-> "another digest", operators |-> "shared key",
     plane |-> "in the agent", administeredBy |-> "agent",
     agentCanDisable |-> TRUE, policyDigest |-> "of another",
     signals |-> "one", identities |-> "of another session",
     fallbackMode |-> "agent", fallbackTime |-> "unbounded", mutationUsed |-> TRUE,
     canary |-> "unbounded", fullRestore |-> TRUE,
     states |-> "another order", events |-> "a gap", live |-> "PASS"])

(* load_json, parse_time, resolve, forbidden_field, keyed: an ERROR        *)
EvidenceForms == Forms({"object", "times", "identities", "repeated", "files", "sensitive"})
EvidenceReadable(x) ==
    /\ x.object /\ x.times = "with a timezone" /\ x.identities = "exact"
    /\ ~x.repeated /\ x.files = "inside" /\ ~x.sensitive

(* verify_cross_control_bindings, load_operator_trust: a mismatch is ERROR *)
CrossControlBindings(k) == k.bindings = "pinned digests"
OperatorTrust(k) == k.operators = "distinct keys, public only"

ControlPlane(k) ==
    /\ k.plane = "out of band" /\ k.administeredBy = "incident-response"
    /\ ~k.agentCanDisable /\ k.policyDigest = "of the policy"

TriggerBound(k) ==
    /\ k.signals = "both required" /\ k.identities = "of the incident"
    /\ command.issued - detectedAt \in 0..MaxTriggerAge

OperatorSignatureValid(by) == by \in Operators /\ RoleOf[by] = "incident-commander"

ContainmentCommand ==
    /\ OperatorSignatureValid(command.by)
    /\ command.exact
    /\ command.ttl \in 1..MaxCommandTtl

ContainmentApplied ==
    /\ plane.stopped
    /\ plane.at - command.issued \in 0..MaxLatency
    /\ plane.at <= command.issued + command.ttl

Revocations == \A a \in Authorities : authority[a] = "revoked"

Quarantine ==
    /\ \A r \in Requests : request[r] = "quarantined"
    /\ plane.preserved = "before"

Fallback(k) ==
    /\ plane.fallback
    /\ k.fallbackMode = "model-free" /\ k.fallbackTime = "bounded" /\ ~k.mutationUsed

RecoveryReadiness == recovered.fresh /\ Revocations

RecoverySignaturesValid(signers) ==
    /\ \A i, j \in DOMAIN signers : signers[i] = signers[j] => i = j
    /\ {RoleOf[signers[i]] : i \in DOMAIN signers} = RequiredRoles
    /\ Len(signers) = Cardinality(RequiredRoles)

(* plausible mistake: the numbers of the two orders are not compared       *)
UnnumberedAuthorization ==
    RecoverySignaturesValid(authorization.signers) /\ authorization.ttl \in 1..MaxAuthTtl

RecoveryAuthorization ==
    /\ RecoverySignaturesValid(authorization.signers)
    /\ authorization.ttl \in 1..MaxAuthTtl
    /\ authorization.sequence > command.sequence

RecoveryApplied(k) ==
    /\ k.canary = "read-only, bounded" /\ ~k.fullRestore
    /\ recovered.at \in authorization.issued..authorization.issued + authorization.ttl

AuditTransitions(k) == k.states = "six, in sequence"

Sanitized(k) ==
    AuditTransitions(k) /\ k.events = "seven, in sequence" /\ k.live = "NOT_CHECKED"

IncidentDecisions(k) ==
    /\ ControlPlane(k) /\ TriggerBound(k)
    /\ ContainmentCommand /\ ContainmentApplied /\ Revocations
    /\ Quarantine /\ Fallback(k) /\ RecoveryReadiness
    /\ RecoveryAuthorization /\ RecoveryApplied(k) /\ Sanitized(k)

IncidentVerdict(x, k) ==
    IF ~EvidenceReadable(x) \/ ~CrossControlBindings(k) \/ ~OperatorTrust(k) THEN "ERROR"
    ELSE IF IncidentDecisions(k) THEN "ACCEPTED" ELSE "REJECTED"

VerifyIncident ==
    /\ detectedAt # Unset /\ recovered.at # Unset
    /\ verdict' \in {IncidentVerdict(x, k) : x \in EvidenceForms, k \in Contracts}
    /\ UNCHANGED <<time, detectedAt, command, plane, authority, request, authorization,
                   recovered, faults>>

IncidentTick ==
    /\ time < MaxIncidentTime
    /\ time' = time + 1
    /\ UNCHANGED <<detectedAt, command, plane, authority, request, authorization,
                   recovered, verdict, faults>>

(* The order of two different signatures makes no difference.              *)
Signers ==
    {<<>>, <<"commander", "reviewer">>} \cup [1..1 -> Operators]
        \cup {<<o, o>> : o \in Operators}

RogueNext ==
    /\ verdict = "none"
    /\ \/ Detect
       \/ \E by \in Operators, ttl \in 0..MaxCommandTtl + 1, exact \in BOOLEAN :
            IssueContainment(by, ttl, exact)
       \/ Contain \/ QuarantineDone \/ Recover \/ VerifyIncident \/ IncidentTick
       \/ \E a \in Authorities : RevokeAuthority(a)
       \/ \E r \in Requests, outcome \in {"quarantined", "retried"} : Settle(r, outcome)
       \/ \E signers \in Signers, ttl \in {0, MaxAuthTtl, MaxAuthTtl + 1} :
            Authorize(signers, ttl)

RogueSpec == RogueInit /\ [][RogueNext]_rogueVars
-----------------------------------------------------------------------------
(* AcceptedContainment: accepted evidence means that the old session was    *)
(* stopped by a bounded time after its detection, that it ran beside the   *)
(* new one for no longer than a command may take to be applied, that two   *)
(* people decided on the recovery, and that nothing of the old session can *)
(* still act.  It does not mean that they decided after the stop, or that  *)
(* the new session waited for it: the times of the stop and the recovery   *)
(* are never compared, only the numbers of the two orders.                 *)
AcceptedContainment ==
    verdict = "ACCEPTED" =>
        /\ plane.at - detectedAt \in 0..MaxTriggerAge + MaxLatency
        /\ plane.at <= recovered.at + MaxLatency
        /\ \E i, j \in DOMAIN authorization.signers :
              authorization.signers[i] # authorization.signers[j]
        /\ \A a \in Authorities : authority[a] = "revoked"
        /\ \A r \in Requests : request[r] # "retried"
=============================================================================
