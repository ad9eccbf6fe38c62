---------------------------- MODULE FleetEvidence ----------------------------
(***************************************************************************)
(* Fleet coverage evidence: endpoints export numbered audit records over a *)
(* network that loses, delays and reorders them to a central ingestion; a  *)
(* collector captures signed snapshots, each naming the one before; the    *)
(* two verifiers judge a snapshot against a checkpoint                     *)
(* (verify-fleet-evidence.py) and for coverage (verify-fleet-telemetry.py);*)
(* the operator advances the checkpoint when both pass.  A snapshot's      *)
(* digest is its content.                                                  *)
(***************************************************************************)
EXTENDS Integers, Sequences, FiniteSets, Documents

CONSTANTS
    Providers,        \* required_providers
    MaxSnapshotAge,   \* maximum_snapshot_age_seconds, maximum_statement_age_seconds
    MaxLag,           \* maximum_ingestion_lag_seconds
    MaxFleetTime,     \* bound: the clock stops here
    MaxExports,       \* bound: records of one endpoint
    MaxSnapshots,     \* bound: snapshots the collector takes
    MaxAccepted       \* bound: the behaviour ends when as many are accepted

ASSUME FleetAssumption ==
    /\ MaxSnapshotAge \in Nat \ {0}
    /\ {MaxLag, MaxFleetTime, MaxExports, MaxSnapshots, MaxAccepted} \subseteq Nat

VARIABLES
    now,
    exports,     \* provider -> times at which its records were exported
    ingestion,   \* provider -> what central ingestion holds
    snapshots,   \* what the collector has signed, in order
    position,    \* the collector's last snapshot, as far as it remembers
    checkpoint,  \* the managed checkpoint: sequence and digest
    accepted     \* snapshots that passed, by index, with the time

endpoints == <<exports, ingestion>>
fleetVars == <<now, endpoints, snapshots, position, checkpoint, accepted>>

NoTime == -1
NoSnapshot == [capturedAt |-> -1]

FleetInit ==
    /\ now = 0
    /\ exports = [p \in Providers |-> <<>>]
    /\ ingestion = [p \in Providers |->
                      [got |-> {}, rejected |-> {}, quarantined |-> TRUE, at |-> NoTime]]
    /\ snapshots = <<>> /\ position = 0
    /\ checkpoint = [sequence |-> 0, digest |-> NoSnapshot]
    /\ accepted = <<>>

-----------------------------------------------------------------------------
(* Endpoints, network and central ingestion (external).                    *)

Export(p) ==
    /\ Len(exports[p]) < MaxExports
    /\ exports' = [exports EXCEPT ![p] = Append(@, now)]
    /\ UNCHANGED <<now, ingestion, snapshots, position, checkpoint, accepted>>

Seen(p) == ingestion[p].got \cup ingestion[p].rejected

(* A record that is never ingested is lost.                                *)
Ingest(p, n) ==
    /\ n \in DOMAIN exports[p] \ Seen(p)
    /\ ingestion' = [ingestion EXCEPT ![p].got = @ \cup {n}, ![p].at = now]
    /\ UNCHANGED <<now, exports, snapshots, position, checkpoint, accepted>>

Reject(p, n) ==
    /\ n \in DOMAIN exports[p] \ Seen(p)
    /\ \E kept \in BOOLEAN :
         ingestion' = [ingestion EXCEPT ![p].rejected = @ \cup {n},
                                        ![p].quarantined = @ /\ kept]
    /\ UNCHANGED <<now, exports, snapshots, position, checkpoint, accepted>>

Latest(S) == IF S = {} THEN 0 ELSE CHOOSE n \in S : \A m \in S : m <= n

(* One endpoint of a snapshot's document                                   *)
EndpointEvidence(p) ==
    [exportedAt |-> IF exports[p] = <<>> THEN NoTime ELSE exports[p][Len(exports[p])],
     ingestedAt |-> ingestion[p].at,
     gap |-> Seen(p) # 1..Latest(Seen(p)),
     rejected |-> Cardinality(ingestion[p].rejected),
     quarantined |-> ingestion[p].quarantined]

(* The collector signs what it sees; at most one snapshot at a time.       *)
Capture ==
    /\ Len(snapshots) < MaxSnapshots
    /\ \A i \in DOMAIN snapshots : snapshots[i].content.capturedAt < now
    /\ \E missing \in {{}} \cup {{p} : p \in Providers} :
         snapshots' = Append(snapshots,
           [content |-> [capturedAt |-> now,
                         endpoints |-> [p \in Providers \ missing |-> EndpointEvidence(p)]],
            sequence |-> IF position = 0 THEN 1 ELSE snapshots[position].sequence + 1,
            previous |-> IF position = 0 THEN NoSnapshot ELSE snapshots[position].content,
            continues |-> position,         \* history: what the collector continued,
            held |-> [p \in Providers |-> ingestion[p].got],     \* what was stored
            made |-> [p \in Providers |-> Len(exports[p])]])      \* and exported
    /\ position' = Len(snapshots')
    /\ UNCHANGED <<now, endpoints, checkpoint, accepted>>

(* The collector is restored from a backup and has forgotten snapshots.    *)
Restore ==
    /\ \E i \in 0..Len(snapshots) : i < position /\ position' = i
    /\ UNCHANGED <<now, endpoints, snapshots, checkpoint, accepted>>

-----------------------------------------------------------------------------
(* verify-fleet-evidence.py: a statement e, shown with a snapshot document *)

(* load_json, parse_time, require_string, require_sha256                   *)
FleetForms == Forms({"object", "times", "identities", "repeated"})
StatementReadable(x) ==
    /\ x.object /\ x.times = "with a timezone"
    /\ x.identities = "exact"

(* require_statement, require_checkpoint: every field of the schema and no *)
(* other, a sequence from 1, a checkpoint from 0                           *)
StatementWellFormed(e, x) ==
    /\ x.object
    /\ e.sequence >= 1 /\ checkpoint.sequence >= 0

(* issuer-auth; a key that is not active is an ERROR                       *)
IssuerAuth(key, forged) == key = "active" /\ ~forged

PayloadBinding(e, document) ==
    /\ document = e.content
    /\ now - e.content.capturedAt \in 0..MaxSnapshotAge

(* plausible mistake: the previous digest is not compared                  *)
SequenceOnly(e) == e.sequence = checkpoint.sequence + 1

SequenceChain(e) ==
    /\ e.sequence = checkpoint.sequence + 1
    /\ e.previous = checkpoint.digest

-----------------------------------------------------------------------------
(* verify-fleet-telemetry.py: the document alone                           *)

(* load_json, parse_time, require_string_set, require_positive_int         *)
TelemetryReadable(x) == x.object /\ x.times = "with a timezone"

(* load_endpoints: known providers, each once, with the fields of the      *)
(* schema                                                                  *)
EndpointsWellFormed(document, x) ==
    /\ x.object /\ ~x.repeated
    /\ DOMAIN document.endpoints \subseteq Providers
    /\ \A p \in DOMAIN document.endpoints : document.endpoints[p].rejected >= 0

(* plausible mistake: an export newer than the last ingestion is ignored   *)
LateEndpointResult(document, p) ==
    /\ p \in DOMAIN document.endpoints
    /\ LET e == document.endpoints[p] IN
       /\ ~e.gap
       /\ e.rejected = 0 \/ e.quarantined
       /\ e.ingestedAt # NoTime
       /\ e.ingestedAt - e.exportedAt <= MaxLag
       /\ now - e.ingestedAt \in 0..MaxSnapshotAge

EndpointResult(document, p) ==
    /\ p \in DOMAIN document.endpoints
    /\ LET e == document.endpoints[p] IN
       /\ ~e.gap
       /\ e.rejected = 0 \/ e.quarantined
       /\ e.ingestedAt # NoTime   \* parse_time: no time is malformed evidence
       /\ e.ingestedAt - e.exportedAt \in 0..MaxLag
       /\ now - e.ingestedAt \in 0..MaxSnapshotAge

(* ingestion_result: where the records are kept, and with which fields     *)
IngestionResult(c) ==
    /\ c.available /\ c.immutable /\ c.accessControlled
    /\ c.content = "metadata-only" /\ c.fields = "the allowed ones"

(* alert_result: all required rules, each tested a short while ago         *)
AlertResult(c) ==
    /\ c.rules = "the required ones" /\ c.enabled
    /\ c.test = "delivered" /\ c.receipts /\ c.tested = "recently" /\ c.delivery = "in time"

(* the part of endpoint_result that no step of the model changes           *)
EndpointManaged(c) == c.enrolled /\ c.managed /\ c.exporting

Telemetry(document) ==
    /\ now - document.capturedAt \in 0..MaxSnapshotAge
    /\ \A p \in Providers : EndpointResult(document, p)

(* What the two verifiers are given beside statement and document          *)
Circumstances == OneOff(
    [trust |-> "exact successor, previous digest", maximumAge |-> MaxSnapshotAge,
     coverage |-> "both providers, all alerts", content |-> "metadata-only",
     key |-> "active", forged |-> FALSE,
     enrolled |-> TRUE, managed |-> TRUE, exporting |-> TRUE,
     available |-> TRUE, immutable |-> TRUE, accessControlled |-> TRUE,
     fields |-> "the allowed ones", rules |-> "the required ones", enabled |-> TRUE,
     test |-> "delivered", receipts |-> TRUE, tested |-> "recently", delivery |-> "in time"],
    [trust |-> "any later sequence", maximumAge |-> 0,
     coverage |-> "one provider", content |-> "full content",
     key |-> "revoked", forged |-> TRUE,
     enrolled |-> FALSE, managed |-> FALSE, exporting |-> FALSE,
     available |-> FALSE, immutable |-> FALSE, accessControlled |-> FALSE,
     fields |-> "more", rules |-> "some", enabled |-> FALSE,
     test |-> "failed", receipts |-> FALSE, tested |-> "long ago", delivery |-> "late"])

(* require_policy of the evidence verifier, and of the telemetry verifier  *)
TrustPolicySafe(c) ==
    c.trust = "exact successor, previous digest" /\ c.maximumAge >= 1
CoveragePolicySafe(c) ==
    c.coverage = "both providers, all alerts" /\ c.content = "metadata-only"

(* A statement arrives, again, late or out of order, perhaps forged or     *)
(* with the document of another; when both verifiers exit 0, the operator  *)
(* advances the checkpoint.                                                *)
VerifyFleet(i, j) ==
    /\ LET e == snapshots[i]
           document == snapshots[j].content
       IN /\ PayloadBinding(e, document) /\ SequenceChain(e) /\ Telemetry(document)
          /\ \E x \in FleetForms :
               /\ StatementReadable(x) /\ StatementWellFormed(e, x)
               /\ TelemetryReadable(x) /\ EndpointsWellFormed(document, x)
          /\ \E c \in Circumstances :
               /\ TrustPolicySafe(c) /\ CoveragePolicySafe(c)
               /\ IssuerAuth(c.key, c.forged)
               /\ EndpointManaged(c) /\ IngestionResult(c) /\ AlertResult(c)
          /\ checkpoint' = [sequence |-> e.sequence, digest |-> document]
          /\ accepted' = Append(accepted, [statement |-> i, document |-> j, at |-> now])
    /\ UNCHANGED <<now, endpoints, snapshots, position>>

FleetTick ==
    /\ now < MaxFleetTime
    /\ now' = now + 1
    /\ UNCHANGED <<endpoints, snapshots, position, checkpoint, accepted>>

FleetNext ==
    /\ Len(accepted) < MaxAccepted
    /\ \/ \E p \in Providers : Export(p)
       \/ \E p \in Providers, n \in 1..MaxExports : Ingest(p, n) \/ Reject(p, n)
       \/ Capture \/ Restore \/ FleetTick
       \/ \E i, j \in DOMAIN snapshots : VerifyFleet(i, j)

FleetSpec == FleetInit /\ [][FleetNext]_fleetVars
-----------------------------------------------------------------------------
(* AcceptedIsOneHistory: the accepted snapshots are one unbroken history   *)
(* of the collector, each taken where the accepted one before it ended and *)
(* accepted once and in time, although statements are replayed, delayed    *)
(* and reordered and the collector forgets what it has signed.             *)
AcceptedIsOneHistory ==
    \A k \in DOMAIN accepted :
        LET a == accepted[k] IN
        /\ a.statement = a.document
        /\ snapshots[a.statement].continues =
             IF k = 1 THEN 0 ELSE accepted[k - 1].statement
        /\ snapshots[a.statement].content.capturedAt + MaxSnapshotAge >= a.at

(* AcceptedIsComplete: when a snapshot is accepted there is no silent hole *)
(* in the central record of a required endpoint: every record exported     *)
(* before one that the snapshot could count is stored or rejected; and at  *)
(* the time of the snapshot nothing had been exported later than the last  *)
(* ingestion.                                                              *)
AcceptedIsComplete ==
    \A k \in DOMAIN accepted, p \in Providers :
        LET s == snapshots[accepted[k].document] IN
        /\ \A n \in s.held[p] : 1..n \subseteq Seen(p)
        /\ \A n \in 1..s.made[p] : exports[p][n] <= s.content.endpoints[p].ingestedAt
=============================================================================
