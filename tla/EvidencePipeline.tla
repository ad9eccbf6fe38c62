-------------------------- MODULE EvidencePipeline --------------------------
(***************************************************************************)
(* The SLSA Build L2 evidence pipeline: five issuer roles run collectors   *)
(* (GitHub Actions, GitHub Releases twice, consumer, security review) that *)
(* write a receipt and a bundle; a reviewer pins bundles in the adapter    *)
(* policy; the adapter assembles the pinned bundles into a catalog; the    *)
(* assessor turns a catalog into a conclusion.                             *)
(*                                                                         *)
(* A file is the record of its content, and the SHA-256 of a file is that  *)
(* record: digests do not collide.  A run that ends with exit 2 before it  *)
(* has written anything changes no state and is not an action.             *)
(***************************************************************************)
EXTENDS Integers, FiniteSets

CONSTANTS
    Scopes,         \* the releases that collectors may be pointed at
    TargetScope,    \* the release the adapter policy and the input name
    MaxAge,         \* maximum_evidence_age_seconds
    MaxReviewAge,   \* maximum_review_age_seconds of the review collector
    MaxDelay,       \* maximum_publication_delay_seconds
    FreshRoles,     \* bound: roles collected during the behaviour
    MaxTime,        \* bound: the clock stops here
    MaxCollections, \* bound: collector runs of a behaviour
    MaxDefects      \* bound: records other than "pass" in a behaviour

ASSUME PipelineAssumption ==
    /\ TargetScope \in Scopes
    /\ {MaxAge, MaxReviewAge, MaxDelay, MaxTime} \subseteq Nat
    /\ {MaxCollections, MaxDefects} \subseteq Nat
    /\ FreshRoles \in 0..5

NoFile == [file |-> "none"]
NoJob  == [step |-> "idle"]
Unavailable == [result |-> "unavailable"]

(* required_evidence_issuers of the assessment policy, by role             *)
TypesOf ==
    [ build    |-> {"platform-policy", "build-record"},
      producer |-> {"producer-policy", "build-policy", "publication-manifest"},
      monitor  |-> {"storage-probe"},
      consumer |-> {"consumer-verification-result", "consumer-trust-policy",
                    "provenance-signature-verification"},
      review   |-> {"platform-capability-assessment",
                    "signer-ownership-assessment"} ]
Roles == DOMAIN TypesOf
EvidenceTypes == UNION {TypesOf[r] : r \in Roles}
IssuerOf(t) == CHOOSE r \in Roles : t \in TypesOf[r]

(* requirements of the assessment policy                                   *)
Requirements ==
    [ platformGenerates   |-> {"platform-policy", "build-record"},
      appropriatePlatform |-> {"producer-policy", "platform-capability-assessment"},
      consistentBuild     |-> {"build-policy", "build-record"},
      distributes         |-> {"publication-manifest", "storage-probe"},
      validates           |-> {"consumer-verification-result", "consumer-trust-policy"},
      authentic           |-> {"provenance-signature-verification",
                               "signer-ownership-assessment"},
      hosted              |-> {"platform-capability-assessment", "build-record"} ]
RequirementIds == DOMAIN Requirements

Results == {"pass", "finding", "error"}
Verdict(sound) == IF sound THEN "pass" ELSE "finding"

VARIABLES
    clock,
    facts,      \* what really held: [type, scope, at]
    job,        \* the collector that runs, or NoJob
    receipts,   \* role -> the receipt file
    bundles,    \* role -> the bundle file
    pins,       \* role -> the bundle whose digest the adapter policy pins
    catalog,    \* the adapter's output file
    report,     \* the assessment's report, or NoFile
    spent       \* bounds: what the behaviour has used up

files == <<receipts, bundles, pins>>
pipelineVars == <<clock, facts, job, files, catalog, report, spent>>

Collected(results) ==
    LET receipt == [scope |-> TargetScope, at |-> 0, results |-> results]
    IN [scope |-> TargetScope, at |-> 0, results |-> results, receipt |-> receipt]

(* All but FreshRoles roles have been collected without a finding and      *)
(* pinned before the behaviour starts.                                     *)
PipelineInit ==
    \E done \in {S \in SUBSET Roles : Cardinality(S) = Cardinality(Roles) - FreshRoles} :
        /\ clock = 0
        /\ facts = [type: UNION {TypesOf[r] : r \in done}, scope: {TargetScope}, at: {0}]
        /\ job = NoJob
        /\ bundles = [r \in Roles |-> IF r \in done
                                      THEN Collected([t \in TypesOf[r] |-> "pass"])
                                      ELSE NoFile]
        /\ receipts = [r \in Roles |-> IF r \in done THEN bundles[r].receipt ELSE NoFile]
        /\ pins = bundles
        /\ catalog = NoFile
        /\ report = NoFile
        /\ spent = [collections |-> 0, defects |-> 0]

-----------------------------------------------------------------------------
(* Collector policies.  drifted names a pinned local file whose bytes are  *)
(* no longer those of its pin.                                             *)

PinnedFiles == {"artifact", "platform policy", "provenance", "signature",
                "trust policy", "trusted key", "verifier", "review", "tool"}

CollectorPolicies ==
    [scope: Scopes, wellFormed: BOOLEAN, safeIdentities: BOOLEAN,
     drifted: PinnedFiles \cup {"none"}, distinctAssets: BOOLEAN,
     tagIsRelease: BOOLEAN, trustNamesScope: BOOLEAN]

(* text_field, parse_time, safe_https_uri, require_scope: the fields are    *)
(* those of the schema, and identities are HTTPS URIs without credentials  *)
WellFormed(p) == p.wellFormed /\ p.safeIdentities

(* resolve_local_file, sha256_file, require_digest: inside the root, and   *)
(* with the pinned bytes                                                   *)
AsPinned(p, used) == p.drifted \notin used

(* require_gh_binary                                                       *)
ToolPinned(p) == AsPinned(p, {"tool"})

(* require_policy of the GitHub Actions collector                          *)
ActionsPolicyAccepted(p) ==
    WellFormed(p) /\ ToolPinned(p) /\ AsPinned(p, {"artifact", "platform policy"})

(* require_asset, require_upstream: two assets of one release              *)
ReleaseFieldsSound(p) == WellFormed(p) /\ p.distinctAssets

(* require_policy and require_gh of the GitHub Releases collector          *)
ReleasesPolicyAccepted(p) ==
    ReleaseFieldsSound(p) /\ p.tagIsRelease /\ ToolPinned(p)

(* require_policy of the consumer collector: the trust policy must name    *)
(* the scope's revision and the artifact                                   *)
ConsumerPolicyAccepted(p) ==
    p.wellFormed /\ p.trustNamesScope /\ ToolPinned(p)
        /\ AsPinned(p, {"artifact", "provenance", "signature", "trust policy",
                        "trusted key", "verifier"})

(* require_policy of the security review collector                         *)
ReviewPolicyAccepted(p) ==
    WellFormed(p) /\ ToolPinned(p) /\ AsPinned(p, {"review", "signature", "trusted key"})

PolicyAccepted(r, p) ==
    CASE r = "build" -> ActionsPolicyAccepted(p)
      [] r \in {"producer", "monitor"} -> ReleasesPolicyAccepted(p)
      [] r = "consumer" -> ConsumerPolicyAccepted(p)
      [] r = "review" -> ReviewPolicyAccepted(p)

AcceptedScopes ==
    [r \in Roles |-> {p.scope : p \in {q \in CollectorPolicies : PolicyAccepted(r, q)}}]

-----------------------------------------------------------------------------
(* What the collectors look at, and how they judge it.                     *)

(* gh attestation verify: its exit status, how many verified attestations  *)
(* belong to the expected run, and in what the one deviates from policy    *)
Attestations ==
    [exit: {0, 1}, matching: 0..2,
     deviations: SUBSET {"subject", "build-type", "workflow", "source", "builder"}]

InspectVerification(o) ==
    IF o.exit # 0 \/ o.matching # 1
    THEN Unavailable
    ELSE [result |-> Verdict(o.deviations = {}), sound |-> o.deviations = {}]

(* the release and its two expected assets, with times relative to each    *)
(* other                                                                   *)
ReleaseSnapshots ==
    [exit: {0, 1}, deviations: SUBSET {"draft", "mutable", "location", "digest"},
     artifacts: 0..2, provenances: 0..2, replaced: BOOLEAN,
     artifactAt: 0..2, provenanceAt: 0..2, publishedAt: 0..2]

AssetFindings(o) == o.deviations # {} \/ o.replaced

InspectRelease(o) ==
    IF o.exit # 0
    THEN Unavailable
    ELSE [result |->
            Verdict(/\ o.artifacts = 1 /\ o.provenances = 1
                    /\ ~AssetFindings(o)
                    /\ o.provenanceAt - o.artifactAt \in 0..MaxDelay
                    /\ o.artifactAt <= o.publishedAt /\ o.provenanceAt <= o.publishedAt),
          sound |->
            /\ o.artifacts = 1 /\ o.provenances = 1 /\ o.deviations = {} /\ ~o.replaced
            /\ o.artifactAt <= o.provenanceAt
            /\ o.provenanceAt <= o.publishedAt
            /\ o.provenanceAt <= o.artifactAt + MaxDelay]

(* the consumer verifier's exit status                                     *)
InspectConsumer(exit) ==
    IF exit \notin {0, 1} THEN Unavailable
    ELSE [result |-> Verdict(exit = 0), sound |-> exit = 0]

(* the signed review record                                                *)
Reviews ==
    [signature: {0, 1, 2}, independent: BOOLEAN, reviewedAt: 0..MaxTime + 1,
     expiresAt: 1..MaxTime + 2, capability: BOOLEAN, signer: BOOLEAN]

ReviewFindings(o, now) ==
    \/ o.signature # 0
    \/ ~o.independent
    \/ o.reviewedAt > now
    \/ o.expiresAt <= now
    \/ now - o.reviewedAt > MaxReviewAge

InspectReview(o, now) ==
    IF o.signature = 2 \/ o.expiresAt <= o.reviewedAt
    THEN Unavailable
    ELSE [result |-> [t \in TypesOf.review |->
                        Verdict(/\ ~ReviewFindings(o, now)
                                /\ IF t = "signer-ownership-assessment"
                                   THEN o.signer ELSE o.capability)],
          at |-> o.reviewedAt,
          sound |-> {t \in TypesOf.review :
                        /\ o.signature = 0 /\ o.independent
                        /\ now \in o.reviewedAt..o.expiresAt - 1
                        /\ IF t = "signer-ownership-assessment"
                           THEN o.signer ELSE o.capability}]

-----------------------------------------------------------------------------
(* Collector runs.  Each role has its own output paths, and the operator   *)
(* runs one collector at a time.                                           *)

Start(r) ==
    /\ job = NoJob
    /\ spent.collections < MaxCollections
    /\ \E s \in AcceptedScopes[r] :
         job' = [step |-> "fetch", role |-> r, scope |-> s, at |-> clock]
    /\ spent' = [spent EXCEPT !.collections = @ + 1]
    /\ UNCHANGED <<clock, facts, files, catalog, report>>

Running(step) == job.step = step
Defects(results) == Cardinality({t \in DOMAIN results : results[t] # "pass"})

(* The judged evidence is held in memory; what really held is recorded.    *)
Hold(results, at, sound) ==
    /\ spent.defects + Defects(results) <= MaxDefects
    /\ job' = [step |-> "receipt", role |-> job.role, scope |-> job.scope,
               at |-> at, results |-> results]
    /\ facts' = facts \cup [type: sound, scope: {job.scope}, at: {at}]
    /\ spent' = [spent EXCEPT !.defects = @ + Defects(results)]
    /\ UNCHANGED <<clock, files, catalog, report>>

ActionsOutcomes == {InspectVerification(o) : o \in Attestations} \ {Unavailable}

(* collect of the GitHub Actions collector                                 *)
CollectActions ==
    /\ Running("fetch") /\ job.role = "build"
    /\ \E o \in ActionsOutcomes :
         Hold([t \in TypesOf.build |-> IF t = "build-record" THEN o.result ELSE "pass"],
              job.at,
              {"platform-policy"} \cup (IF o.sound THEN {"build-record"} ELSE {}))

ReleaseOutcomes == {InspectRelease(o) : o \in ReleaseSnapshots} \ {Unavailable}

(* collect of the GitHub Releases collector: the producer's two policy     *)
(* records are carried over from upstream                                  *)
CollectReleases ==
    /\ Running("fetch") /\ job.role \in {"producer", "monitor"}
    /\ \E o \in ReleaseOutcomes,
          upstream \in [{"producer-policy", "build-policy"} -> Results] :
         LET types == TypesOf[job.role]
             own == types \ DOMAIN upstream
         IN Hold([t \in types |-> IF t \in own THEN o.result ELSE upstream[t]],
                 job.at,
                 {t \in types : IF t \in own THEN o.sound ELSE upstream[t] = "pass"})

(* collect of the consumer collector: one verification, three records      *)
CollectConsumer ==
    /\ Running("fetch") /\ job.role = "consumer"
    /\ \E o \in {InspectConsumer(exit) : exit \in 0..2} \ {Unavailable} :
         Hold([t \in TypesOf.consumer |-> o.result], job.at,
              IF o.sound THEN TypesOf.consumer ELSE {})

ReviewOutcomes ==
    [now \in 0..MaxTime |-> {InspectReview(v, now) : v \in Reviews} \ {Unavailable}]

(* collect of the security review collector: the evidence is as old as the *)
(* review                                                                  *)
CollectReview ==
    /\ Running("fetch") /\ job.role = "review"
    /\ \E o \in ReviewOutcomes[job.at] : Hold(o.result, o.at, o.sound)

(* plausible mistake: a receipt that is already there is kept              *)
KeepReceipt ==
    /\ Running("receipt")
    /\ receipts' = [receipts EXCEPT ![job.role] =
                      IF @ = NoFile
                      THEN [scope |-> job.scope, at |-> job.at, results |-> job.results]
                      ELSE @]
    /\ job' = [job EXCEPT !.step = "bundle"]
    /\ UNCHANGED <<clock, facts, bundles, pins, catalog, report, spent>>

(* write_json_atomic: the receipt file is replaced whole                   *)
WriteReceipt ==
    /\ Running("receipt")
    /\ receipts' = [receipts EXCEPT ![job.role] =
                      [scope |-> job.scope, at |-> job.at, results |-> job.results]]
    /\ job' = [job EXCEPT !.step = "bundle"]
    /\ UNCHANGED <<clock, facts, bundles, pins, catalog, report, spent>>

(* The GitHub collectors read the receipt file again for its digest; the   *)
(* two others hash the bytes they wrote.                                   *)
ReadBackPin == receipts[job.role]
OwnBytesPin == [scope |-> job.scope, at |-> job.at, results |-> job.results]
ReceiptPin ==
    IF job.role \in {"build", "producer", "monitor"} THEN ReadBackPin ELSE OwnBytesPin

WriteBundle ==
    /\ Running("bundle")
    /\ bundles' = [bundles EXCEPT ![job.role] =
                     [scope |-> job.scope, at |-> job.at, results |-> job.results,
                      receipt |-> ReceiptPin]]
    /\ job' = NoJob
    /\ UNCHANGED <<clock, facts, receipts, pins, catalog, report, spent>>

(* The provider is unavailable, a write fails, or the process is killed:   *)
(* exit 2 or no exit at all, with what has been replaced so far.           *)
Interrupted ==
    /\ job # NoJob
    /\ job' = NoJob
    /\ UNCHANGED <<clock, facts, files, catalog, report, spent>>

-----------------------------------------------------------------------------
(* The reviewer archives the receipt, confirms that these are the bytes    *)
(* the bundle names, and pins the bundle.  (External: a procedure.)        *)
PinBundle(r) ==
    /\ bundles[r] # NoFile
    /\ receipts[r] = bundles[r].receipt
    /\ pins' = [pins EXCEPT ![r] = bundles[r]]
    /\ UNCHANGED <<clock, facts, job, receipts, bundles, catalog, report, spent>>

(* plausible mistake: the scope of a bundle is not compared                *)
AnyScopeBundle(r) ==
    /\ pins[r] # NoFile
    /\ bundles[r] = pins[r]

(* load_pinned_bundle and the checks of a bundle's identity and set of     *)
(* types: the file must be the pinned one, and of the policy's scope       *)
PinnedBundle(r) ==
    /\ pins[r] # NoFile
    /\ bundles[r] = pins[r]
    /\ bundles[r].scope = TargetScope
    /\ DOMAIN bundles[r].results = TypesOf[r]

(* a catalog entry names the adapter's scope, with which the bundle's was  *)
(* compared                                                                *)
Entry(r, t) ==
    [result |-> bundles[r].results[t], at |-> bundles[r].at,
     scope |-> TargetScope, role |-> r, reviewed |-> TRUE]

(* build_catalog: every role; no finding is turned into a pass             *)
Catalog ==
    [assessedAt |-> clock, scope |-> TargetScope,
     entries |-> [t \in EvidenceTypes |-> Entry(IssuerOf(t), t)]]

(* main: all bundles or nothing; the file is replaced whole                *)
AssembleCatalog ==
    /\ \A r \in Roles : PinnedBundle(r)
    /\ catalog' = Catalog
    /\ UNCHANGED <<clock, facts, job, files, report, spent>>

-----------------------------------------------------------------------------
(* The assessor.                                                           *)

(* index_evidence: an error stays an error; any other record counts as it  *)
(* says only when its issuer, scope, age and flags are right               *)
MetadataOK(doc, t) ==
    LET e == doc.entries[t] IN
    /\ e.role = IssuerOf(t)
    /\ e.scope = doc.scope
    /\ doc.assessedAt - e.at \in 0..MaxAge
    /\ e.reviewed

Effective(doc, t) ==
    IF doc.entries[t].result = "error" THEN "error"
    ELSE IF MetadataOK(doc, t) THEN doc.entries[t].result ELSE "finding"

(* covered: the requirements with a reviewed mapping in the coverage sheet *)
Status(doc, covered, q) ==
    LET given == Requirements[q] \cap DOMAIN doc.entries
        seen == {Effective(doc, t) : t \in given}
    IN CASE "error" \in seen -> "ERROR"
         [] "error" \notin seen /\ "finding" \in seen -> "FAIL"
         [] seen \subseteq {"pass"} ->
              IF q \in covered /\ given = Requirements[q] THEN "PASS" ELSE "NOT_CHECKED"

Conclusion(doc, covered) ==
    LET statuses == {Status(doc, covered, q) : q \in RequirementIds} IN
    CASE "ERROR" \in statuses -> "ERROR"
      [] "ERROR" \notin statuses /\ "FAIL" \in statuses -> "FAIL"
      [] statuses = {"PASS"} -> "PASS"
      [] OTHER -> "INCOMPLETE"

(* Inputs given as EVIDENCE=...: the assembled catalog, or one an          *)
(* organisation made from it, with one record missing or not as required.  *)
BuildRecord == catalog.entries["build-record"]
Inputs ==
    IF catalog = NoFile THEN {}
    ELSE {catalog}
      \cup {[catalog EXCEPT !.entries = [u \in EvidenceTypes \ {t} |-> @[u]]] :
              t \in {"storage-probe", "build-record"}}
      \cup {[catalog EXCEPT !.entries["build-record"] = e] :
              e \in {[BuildRecord EXCEPT !.reviewed = FALSE],
                     [BuildRecord EXCEPT !.role = "producer"],
                     [BuildRecord EXCEPT !.at = catalog.assessedAt + 1],
                     [BuildRecord EXCEPT !.result = "error", !.reviewed = FALSE]}}

(* load_coverage: which requirements are mapped                            *)
CoverageSheets == {RequirementIds, RequirementIds \ {"hosted"}}

(* main: the report; that its two files are written one after the other is *)
(* left out                                                                *)
Assess ==
    /\ report' \in {[conclusion |-> Conclusion(doc, covered), assessedAt |-> doc.assessedAt] :
                      doc \in Inputs, covered \in CoverageSheets}
    /\ UNCHANGED <<clock, facts, job, files, catalog, spent>>

Tick ==
    /\ clock < MaxTime
    /\ clock' = clock + 1
    /\ UNCHANGED <<facts, job, files, catalog, report, spent>>

(* Bound: a behaviour ends with its assessment.                            *)
PipelineNext ==
    /\ report = NoFile
    /\ \/ \E r \in Roles : Start(r) \/ PinBundle(r)
       \/ CollectActions \/ CollectReleases \/ CollectConsumer \/ CollectReview
       \/ WriteReceipt \/ WriteBundle \/ Interrupted
       \/ AssembleCatalog \/ Assess \/ Tick

PipelineSpec == PipelineInit /\ [][PipelineNext]_pipelineVars
-----------------------------------------------------------------------------
(* PassIsFounded: a PASS report rests, for each of the seven requirements, *)
(* on evidence of every required type that really held for the assessed    *)
(* release, was observed by the type's own issuer, and was not older than  *)
(* the limit when the catalog was assembled - whatever was collected       *)
(* again, replaced, pinned late or copied by hand in between.              *)
PassIsFounded ==
    report # NoFile /\ report.conclusion = "PASS" =>
        \A q \in RequirementIds : \A t \in Requirements[q] :
            \E f \in facts :
                /\ f.type = t /\ f.scope = TargetScope
                /\ f.at <= report.assessedAt
                /\ report.assessedAt <= f.at + MaxAge

(* ReceiptBacksBundle: the receipt whose digest a bundle carries is the    *)
(* one of the same observation, also after collector runs that were cut    *)
(* between the two files.                                                  *)
ReceiptBacksBundle ==
    \A r \in Roles : bundles[r] # NoFile =>
        bundles[r].receipt = [scope |-> bundles[r].scope, at |-> bundles[r].at,
                              results |-> bundles[r].results]
=============================================================================
