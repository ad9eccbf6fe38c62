-------------------------- MODULE ApprovalCommands --------------------------
(***************************************************************************)
(* The two command lines of approvals: verify-approval.py, which judges    *)
(* one approval against a copy of the replay state and consumes nothing,   *)
(* and authorize-signed-approval.py, which consumes it in the ledger.      *)
(* Both are told the time.  A request is normalised from the event of an   *)
(* agent session under the actor that is managed then.  (The race of two   *)
(* consumptions is ApprovalLedger's subject.)                              *)
(***************************************************************************)
EXTENDS Integers, Sequences, FiniteSets, Documents

CONSTANTS
    People,            \* actors and approvers
    AgentSessions,
    MaxApprovalTtl,    \* maximum_ttl_seconds
    MaxApprovalTime,   \* bound: the clock stops here
    MaxSigned,         \* bound: approvals that are issued
    MaxGranted         \* bound: authorizations in a behaviour

ASSUME CommandsAssumption ==
    /\ MaxApprovalTtl \in Nat \ {0}
    /\ {MaxApprovalTime, MaxSigned, MaxGranted} \subseteq Nat

RequestFiles == [actor : People, session : AgentSessions]   \* of one operation

VARIABLES
    hour,
    asked,        \* the request file, or NoRequest
    signedDocs,   \* approvals: [id, names, reviewed, approver, approved, issued, expires]
    issuerKey,    \* the key of the issuer in the trust manifest
    usedRows,     \* the ledger: [approval, digest]
    replayCopy,   \* the replay state as it was exported: [rows, grants]
    grants,       \* what authorize-signed-approval.py allowed, in order
    passReport    \* what verify-approval.py passed, or NoReport

commandVars == <<hour, asked, signedDocs, issuerKey, usedRows, replayCopy, grants,
                 passReport>>

NoRequest == [actor |-> "nobody"]
NoReport == [pass |-> FALSE]

CommandsInit ==
    /\ hour = 0 /\ asked = NoRequest /\ signedDocs = {} /\ issuerKey = "active"
    /\ usedRows = {} /\ replayCopy = [rows |-> {}, grants |-> 0]
    /\ grants = <<>> /\ passReport = NoReport

(* normalized_high_impact_request, load_managed_actor: anything else is an *)
(* ERROR and leaves no request                                             *)
Events == OneOff(
    [actor |-> "available", tool |-> "create_pull_request", arguments |-> "required",
     body |-> "text", policy |-> "high-impact, bound approval", sizes |-> "in the limits"],
    [actor |-> "unavailable", tool |-> "another", arguments |-> "unknown",
     body |-> "not text", policy |-> "unavailable", sizes |-> "too long"])
ActorAvailable(e) == e.actor = "available"
EventNormalizes(e) ==
    /\ e.tool = "create_pull_request" /\ e.arguments = "required" /\ e.body = "text"
    /\ e.policy = "high-impact, bound approval" /\ e.sizes = "in the limits"
Propose(p, s) ==
    /\ \E e \in Events : ActorAvailable(e) /\ EventNormalizes(e)
    /\ asked' = [actor |-> p, session |-> s]
    /\ UNCHANGED <<hour, signedDocs, issuerKey, usedRows, replayCopy, grants, passReport>>

(* The issuer signs what the approver has seen, perhaps a denial or for a  *)
(* longer time (bound: one such document).                                 *)
Answers == OneOff([approved |-> TRUE, ttl |-> MaxApprovalTtl],
                  [approved |-> FALSE, ttl |-> MaxApprovalTtl + 1])
SignDoc(r, p, answer) ==
    /\ Cardinality(signedDocs) < MaxSigned
    /\ signedDocs' = signedDocs \cup
         {[id |-> Cardinality(signedDocs) + 1, names |-> r, reviewed |-> r, approver |-> p,
           approved |-> answer.approved, issued |-> hour, expires |-> hour + answer.ttl]}
    /\ UNCHANGED <<hour, asked, issuerKey, usedRows, replayCopy, grants, passReport>>
(* A signed document is edited to name another request (bound: once).      *)
EditDoc(d, r) ==
    /\ r # d.names /\ \A other \in signedDocs : other.names = other.reviewed
    /\ signedDocs' = (signedDocs \ {d}) \cup {[d EXCEPT !.names = r]}
    /\ UNCHANGED <<hour, asked, issuerKey, usedRows, replayCopy, grants, passReport>>
RevokeIssuer ==
    /\ issuerKey' = "revoked"
    /\ UNCHANGED <<hour, asked, signedDocs, usedRows, replayCopy, grants, passReport>>
ExportReplay ==
    /\ replayCopy' = [rows |-> usedRows, grants |-> Len(grants)]
    /\ UNCHANGED <<hour, asked, signedDocs, issuerKey, usedRows, grants, passReport>>
HourPasses ==
    /\ hour < MaxApprovalTime /\ hour' = hour + 1
    /\ UNCHANGED <<asked, signedDocs, issuerKey, usedRows, replayCopy, grants, passReport>>
-----------------------------------------------------------------------------
(* load_json to parse_timestamp: an ERROR otherwise                        *)
ApprovalForms == Forms({"object", "times", "identities"})
ApprovalReadable(x) == x.object /\ x.times = "with a timezone" /\ x.identities = "exact"

(* plausible mistake: the agent and its session are left out               *)
UserBindingFields == {"actor"}
BindingFields == {"actor", "session"}
CanonicalDigest(r) == [f \in BindingFields |-> r[f]]

(* action_class_index, classify_action: a malformed index is an ERROR      *)
ClassPolicies == OneOff(
    [classes |-> "all nine", matchers |-> "well formed", pairs |-> "once"],
    [classes |-> "eight", matchers |-> "empty", pairs |-> "twice"])
IndexSound(p) == p.classes = "all nine" /\ p.matchers = "well formed" /\ p.pairs = "once"
Classified(declared) == declared = "source-publication"

(* validate_policy_identity                                                *)
PolicyIdentities == OneOff([id |-> "the request's", revision |-> "the request's",
                            embedded |-> TRUE],
                           [id |-> "another", revision |-> "older", embedded |-> FALSE])
PolicyResolved(p) ==
    p.id = "the request's" /\ p.revision = "the request's" /\ p.embedded

(* evaluate_approval: binding_ok and time_ok                               *)
Independent(d, r) == d.approver # r.actor
DocBound(d, r) ==
    /\ \A f \in BindingFields : d.names[f] = r[f]
    /\ CanonicalDigest(d.names) = CanonicalDigest(r) /\ Independent(d, r)
DocInTime(d, now) ==
    /\ d.approved
    /\ 0 < d.expires - d.issued /\ d.expires - d.issued <= MaxApprovalTtl
    /\ d.issued <= now /\ now < d.expires
NotReplayed(d, r, rows) ==
    \A row \in rows : row.approval # d.id /\ row.digest # CanonicalDigest(r)
EvaluationPassed(d, r, rows, now) ==
    DocBound(d, r) /\ DocInTime(d, now) /\ NotReplayed(d, r, rows)

(* What both commands need before they judge                               *)
Evaluable ==
    /\ \E x \in ApprovalForms : ApprovalReadable(x)
    /\ \E p \in ClassPolicies : IndexSound(p)
    /\ \E c \in {"source-publication", "deployment"} : Classified(c)
    /\ \E p \in PolicyIdentities : PolicyResolved(p)

(* verify-approval.py: no signature, the replay state it is given          *)
VerifyApproval(d, stated) ==
    /\ asked # NoRequest /\ Evaluable
    /\ EvaluationPassed(d, asked, replayCopy.rows, stated)
    /\ passReport' = [pass |-> TRUE, doc |-> d]
    /\ UNCHANGED <<hour, asked, signedDocs, issuerKey, usedRows, replayCopy, grants>>

(* resolve_trust_key, verify_signature                                     *)
TrustFiles == OneOff(
    [manifest |-> "regular", algorithm |-> "rsa-sha256", issuer |-> "bound",
     window |-> "open", file |-> "inside, digest matches", verifier |-> "OpenSSL 3"],
    [manifest |-> "a link", algorithm |-> "another", issuer |-> "another",
     window |-> "closed", file |-> "exchanged", verifier |-> "older"])
KeyTrusted(t) ==
    /\ issuerKey = "active"
    /\ t.manifest = "regular" /\ t.algorithm = "rsa-sha256" /\ t.issuer = "bound"
    /\ t.window = "open" /\ t.file = "inside, digest matches" /\ t.verifier = "OpenSSL 3"
SignatureOk(d) == d.names = d.reviewed

(* authorize-signed-approval.py: the ledger decides on the replay          *)
AuthorizeSigned(d, stated) ==
    /\ asked # NoRequest /\ Evaluable
    /\ \E t \in TrustFiles : KeyTrusted(t)
    /\ SignatureOk(d) /\ EvaluationPassed(d, asked, {}, stated)
    /\ NotReplayed(d, asked, usedRows)
    /\ usedRows' = usedRows \cup
                     {[approval |-> d.id, digest |-> CanonicalDigest(asked)]}
    /\ grants' = Append(grants, [doc |-> d, request |-> asked, stated |-> stated,
                                 trusted |-> issuerKey])   \* history
    /\ UNCHANGED <<hour, asked, signedDocs, issuerKey, replayCopy, passReport>>

(* Bound: a behaviour ends with a report.                                  *)
CommandsNext ==
    /\ passReport = NoReport /\ Len(grants) < MaxGranted
    /\ \/ RevokeIssuer \/ ExportReplay \/ HourPasses
       \/ \E p \in People, s \in AgentSessions : Propose(p, s)
       \/ \E r \in RequestFiles, p \in People, answer \in Answers : SignDoc(r, p, answer)
       \/ \E d \in signedDocs, r \in RequestFiles : EditDoc(d, r)
       \/ \E d \in signedDocs, stated \in 0..MaxApprovalTime :
            VerifyApproval(d, stated) \/ AuthorizeSigned(d, stated)

CommandsSpec == CommandsInit /\ [][CommandsNext]_commandVars
-----------------------------------------------------------------------------
(* GrantedAsReviewed: what the command line authorizes is the request of   *)
(* exactly the actor and the session that another person reviewed, under a *)
(* key that was not revoked, at a stated time in the life of the approval, *)
(* and neither an approval nor a request is authorized twice, although     *)
(* documents are edited and requests and stated times change in between;   *)
(* and verify-approval.py passes nothing that had been authorized when its *)
(* copy of the replay state was made.                                      *)
GrantedAsReviewed ==
    /\ \A i, j \in DOMAIN grants :
        LET g == grants[i]
            h == grants[j]
        IN /\ g.request = g.doc.reviewed /\ g.doc.approver # g.request.actor
           /\ g.doc.approved /\ g.trusted = "active"
           /\ g.stated \in g.doc.issued..(g.doc.issued + MaxApprovalTtl)
           /\ i # j => g.doc.id # h.doc.id /\ g.request # h.request
    /\ passReport # NoReport =>
         /\ passReport.doc.approver # asked.actor /\ passReport.doc.names = asked
         /\ \A i \in 1..replayCopy.grants :
              grants[i].doc.id # passReport.doc.id /\ grants[i].request # asked
=============================================================================
