----------------------- MODULE EvidencePipeline_proofs -----------------------
(***************************************************************************)
(* The two promises of the evidence pipeline, for all limits, releases and *)
(* numbers of collector runs.  Beside what they say, the invariant follows *)
(* a judged record from the collector's memory to the catalog: wherever it *)
(* says "pass", what it says really held.                                  *)
(***************************************************************************)
EXTENDS EvidencePipeline, TLAPS

Known(F, t, scope, at) == [type |-> t, scope |-> scope, at |-> at] \in F

(* Results that are of the vocabulary, and whose passes are known in F     *)
Held(F, results, scope, at) ==
    \A t \in DOMAIN results :
        results[t] \in Results /\ (results[t] = "pass" => Known(F, t, scope, at))

ReceiptOf(x) == [scope |-> x.scope, at |-> x.at, results |-> x.results]

Fetching ==
    /\ job = [step |-> "fetch", role |-> job.role, scope |-> job.scope, at |-> job.at]
    /\ job.role \in Roles /\ job.at \in 0..MaxTime

Judged ==
    /\ job = [step |-> job.step, role |-> job.role, scope |-> job.scope, at |-> job.at,
              results |-> job.results]
    /\ job.step \in {"receipt", "bundle"} /\ job.role \in Roles /\ job.at \in Int
    /\ Held(facts, job.results, job.scope, job.at)
    /\ job.step = "bundle" => receipts[job.role] = ReceiptOf(job)

JobInv == job = NoJob \/ Fetching \/ Judged

BundleSound(b) ==
    b.at \in Int /\ Held(facts, b.results, b.scope, b.at) /\ b.receipt = ReceiptOf(b)

FilesInv ==
    /\ clock \in 0..MaxTime
    /\ receipts = [r \in Roles |-> receipts[r]]
    /\ bundles = [r \in Roles |-> bundles[r]]
    /\ \A r \in Roles : bundles[r] # NoFile => BundleSound(bundles[r])

EntrySound(t, e) ==
    /\ e = [result |-> e.result, at |-> e.at, scope |-> e.scope, role |-> e.role,
            reviewed |-> e.reviewed]
    /\ e.result \in Results /\ e.at \in Int /\ e.scope = TargetScope /\ e.role = IssuerOf(t)
    /\ e.result = "pass" => Known(facts, t, TargetScope, e.at)

CatalogInv ==
    catalog # NoFile =>
        /\ catalog = [assessedAt |-> catalog.assessedAt, scope |-> catalog.scope,
                      entries |-> catalog.entries]
        /\ catalog.assessedAt \in Int
        /\ catalog.entries = [t \in EvidenceTypes |-> catalog.entries[t]]
        /\ \A t \in EvidenceTypes : EntrySound(t, catalog.entries[t])

PipelineInv == JobInv /\ FilesInv /\ CatalogInv /\ PassIsFounded

-----------------------------------------------------------------------------
LEMMA TypesOfRoles ==
    /\ Roles = {"build", "producer", "monitor", "consumer", "review"}
    /\ \A t \in EvidenceTypes : IssuerOf(t) \in Roles /\ t \in TypesOf[IssuerOf(t)]
    /\ IssuerOf("build-record") = "build"
    /\ {"build-record", "storage-probe"} \subseteq EvidenceTypes
    /\ \A q \in RequirementIds : Requirements[q] \subseteq EvidenceTypes
  <1>1. Roles = {"build", "producer", "monitor", "consumer", "review"}
    BY DEF Roles, TypesOf
  <1>2. \A t \in EvidenceTypes : IssuerOf(t) \in Roles /\ t \in TypesOf[IssuerOf(t)]
    <2> SUFFICES ASSUME NEW t \in EvidenceTypes
                 PROVE  IssuerOf(t) \in Roles /\ t \in TypesOf[IssuerOf(t)]
      OBVIOUS
    <2>1. \E r \in Roles : t \in TypesOf[r]
      BY DEF EvidenceTypes
    <2> QED BY <2>1 DEF IssuerOf
  <1>3. \A r \in Roles : "build-record" \in TypesOf[r] => r = "build"
    BY <1>1 DEF TypesOf
  <1>4. {"build-record", "storage-probe"} \subseteq EvidenceTypes
    <2>1. "build-record" \in TypesOf["build"] /\ "storage-probe" \in TypesOf["monitor"]
      BY DEF TypesOf
    <2> QED BY <2>1, <1>1 DEF EvidenceTypes
  <1>5. IssuerOf("build-record") = "build"
    BY <1>2, <1>3, <1>4
  <1>6. \A q \in RequirementIds : Requirements[q] \subseteq EvidenceTypes
    <2>1. \A q \in RequirementIds : \A t \in Requirements[q] :
             \E r \in {"build", "producer", "monitor", "consumer", "review"} : t \in TypesOf[r]
      BY DEF RequirementIds, Requirements, TypesOf
    <2> QED BY <2>1, <1>1 DEF EvidenceTypes
  <1> QED BY <1>1, <1>2, <1>4, <1>5, <1>6

LEMMA InitInv == ASSUME PipelineInit PROVE PipelineInv
  <1> USE PipelineAssumption
  <1>1. PICK done \in SUBSET Roles :
           /\ facts = [type: UNION {TypesOf[r] : r \in done}, scope: {TargetScope}, at: {0}]
           /\ bundles = [r \in Roles |-> IF r \in done
                                         THEN Collected([t \in TypesOf[r] |-> "pass"])
                                         ELSE NoFile]
           /\ receipts = [r \in Roles |-> IF r \in done THEN bundles[r].receipt ELSE NoFile]
    BY DEF PipelineInit
  <1>2. ASSUME NEW r \in Roles, bundles[r] # NoFile PROVE BundleSound(bundles[r])
    <2>1. r \in done /\ bundles[r] = Collected([t \in TypesOf[r] |-> "pass"])
      BY <1>1, <1>2
    <2>2. /\ bundles[r].at = 0 /\ bundles[r].scope = TargetScope
          /\ bundles[r].results = [t \in TypesOf[r] |-> "pass"]
          /\ bundles[r].receipt = ReceiptOf(bundles[r])
      BY <2>1 DEF Collected, ReceiptOf
    <2>3. ASSUME NEW t \in TypesOf[r] PROVE Known(facts, t, TargetScope, 0)
      <3>1. t \in UNION {TypesOf[x] : x \in done}
        BY <2>1
      <3> QED BY <3>1, <1>1 DEF Known
    <2>4. Held(facts, bundles[r].results, bundles[r].scope, bundles[r].at)
      BY <2>2, <2>3 DEF Held, Results
    <2> QED BY <2>2, <2>4 DEF BundleSound
  <1>3. FilesInv
    BY <1>1, <1>2 DEF FilesInv, PipelineInit
  <1> QED BY <1>3 DEF PipelineInv, JobInv, CatalogInv, PassIsFounded, PipelineInit

-----------------------------------------------------------------------------
(* What is known stays known.                                              *)
LEMMA HeldGrows ==
    ASSUME NEW F, NEW G, F \subseteq G, NEW results, NEW scope, NEW at,
           Held(F, results, scope, at)
    PROVE  Held(G, results, scope, at)
  BY DEF Held, Known

LEMMA MoreFacts ==
    ASSUME FilesInv, CatalogInv, PassIsFounded, facts \subseteq facts', clock' \in 0..MaxTime,
           UNCHANGED <<receipts, bundles, catalog, report>>
    PROVE  FilesInv' /\ CatalogInv' /\ PassIsFounded'
<1>1. FilesInv'
  <2>1. ASSUME NEW r \in Roles, bundles[r] # NoFile PROVE BundleSound(bundles[r])'
    BY <2>1, HeldGrows DEF FilesInv, BundleSound
  <2> QED BY <2>1 DEF FilesInv
<1>2. CatalogInv'
  BY DEF CatalogInv, EntrySound, Known
<1>3. PassIsFounded'
  BY DEF PassIsFounded
<1> QED BY <1>1, <1>2, <1>3

(* A collector holds a judgement whose passes really held.                 *)
LEMMA HoldKeeps ==
    ASSUME PipelineInv, Fetching, NEW results, NEW at \in Int, NEW sound,
           Hold(results, at, sound),
           \A t \in DOMAIN results :
              results[t] \in Results /\ (results[t] = "pass" => t \in sound)
    PROVE  PipelineInv'
<1>1. /\ facts \subseteq facts' /\ clock' \in 0..MaxTime
      /\ UNCHANGED <<receipts, bundles, catalog, report>>
  BY DEF Hold, PipelineInv, FilesInv, files
<1>2. FilesInv' /\ CatalogInv' /\ PassIsFounded'
  BY <1>1, MoreFacts DEF PipelineInv
<1>3. job' = [step |-> "receipt", role |-> job.role, scope |-> job.scope, at |-> at,
              results |-> results]
  BY DEF Hold
<1>4. ASSUME NEW t \in sound PROVE Known(facts', t, job.scope, at)
  BY DEF Hold, Known
<1>5. Held(facts', results, job.scope, at)
  BY <1>4 DEF Held
<1>6. Judged'
  BY <1>3, <1>5 DEF Judged, Fetching
<1> QED BY <1>2, <1>6 DEF PipelineInv, JobInv

LEMMA FetchingNow == ASSUME PipelineInv, Running("fetch") PROVE Fetching
  BY DEF PipelineInv, JobInv, Running, NoJob, Judged

LEMMA CollectActionsKeeps == PipelineInv /\ CollectActions => PipelineInv'
<1> SUFFICES ASSUME PipelineInv, CollectActions PROVE PipelineInv'
  OBVIOUS
<1>1. PICK o \in ActionsOutcomes :
        Hold([t \in TypesOf.build |-> IF t = "build-record" THEN o.result ELSE "pass"],
             job.at,
             {"platform-policy"} \cup (IF o.sound THEN {"build-record"} ELSE {}))
  BY DEF CollectActions
<1>2. o.result \in Results /\ (o.result = "pass" => o.sound)
  <2>1. PICK v \in Attestations : o = InspectVerification(v) /\ o # Unavailable
    BY DEF ActionsOutcomes
  <2>2. o = [result |-> Verdict(v.deviations = {}), sound |-> v.deviations = {}]
    BY <2>1 DEF InspectVerification
  <2> QED BY <2>2 DEF Verdict, Results
<1>3. TypesOf.build = {"platform-policy", "build-record"}
  BY DEF TypesOf
<1>4. Fetching /\ job.at \in Int
  BY FetchingNow DEF CollectActions, Fetching
<1>5. "pass" \in Results
  BY DEF Results
<1> DEFINE results == [t \in TypesOf.build |-> IF t = "build-record" THEN o.result ELSE "pass"]
           sound == {"platform-policy"} \cup (IF o.sound THEN {"build-record"} ELSE {})
<1>6. \A t \in DOMAIN results :
         results[t] \in Results /\ (results[t] = "pass" => t \in sound)
  BY <1>2, <1>3, <1>5
<1>7. Hold(results, job.at, sound)
  BY <1>1
<1> HIDE DEF results, sound
<1> QED BY <1>4, <1>6, <1>7, HoldKeeps

LEMMA CollectReleasesKeeps == PipelineInv /\ CollectReleases => PipelineInv'
<1> SUFFICES ASSUME PipelineInv, CollectReleases PROVE PipelineInv'
  OBVIOUS
<1> DEFINE types == TypesOf[job.role]
<1>1. PICK o \in ReleaseOutcomes,
           upstream \in [{"producer-policy", "build-policy"} -> Results] :
        Hold([t \in types |-> IF t \in types \ DOMAIN upstream THEN o.result ELSE upstream[t]],
             job.at,
             {t \in types : IF t \in types \ DOMAIN upstream
                            THEN o.sound ELSE upstream[t] = "pass"})
  BY DEF CollectReleases
<1>2. o.result \in Results /\ (o.result = "pass" => o.sound)
  <2>1. PICK v \in ReleaseSnapshots : o = InspectRelease(v) /\ o # Unavailable
    BY DEF ReleaseOutcomes
  <2>2. v.artifactAt \in 0..2 /\ v.provenanceAt \in 0..2 /\ v.publishedAt \in 0..2
    BY DEF ReleaseSnapshots
  <2>3. MaxDelay \in Nat
    BY PipelineAssumption
  <2>4. v.exit = 0
    BY <2>1 DEF InspectRelease
  <2> QED BY <2>1, <2>2, <2>3, <2>4 DEF InspectRelease, Verdict, Results, AssetFindings
<1>3. Fetching /\ job.at \in Int
  BY FetchingNow DEF CollectReleases, Fetching
<1> DEFINE own == types \ DOMAIN upstream
           results == [t \in types |-> IF t \in own THEN o.result ELSE upstream[t]]
           sound == {t \in types : IF t \in own THEN o.sound ELSE upstream[t] = "pass"}
<1>4. \A t \in DOMAIN results :
         results[t] \in Results /\ (results[t] = "pass" => t \in sound)
  BY <1>2
<1>5. Hold(results, job.at, sound)
  BY <1>1
<1> HIDE DEF results, sound
<1> QED BY <1>3, <1>4, <1>5, HoldKeeps

LEMMA CollectConsumerKeeps == PipelineInv /\ CollectConsumer => PipelineInv'
<1> SUFFICES ASSUME PipelineInv, CollectConsumer PROVE PipelineInv'
  OBVIOUS
<1>1. PICK o \in {InspectConsumer(exit) : exit \in 0..2} \ {Unavailable} :
        Hold([t \in TypesOf.consumer |-> o.result], job.at,
             IF o.sound THEN TypesOf.consumer ELSE {})
  BY DEF CollectConsumer
<1>2. o.result \in Results /\ (o.result = "pass" => o.sound)
  <2>1. PICK exit \in 0..2 : o = InspectConsumer(exit) /\ o # Unavailable
    OBVIOUS
  <2>2. o = [result |-> Verdict(exit = 0), sound |-> exit = 0]
    BY <2>1 DEF InspectConsumer
  <2> QED BY <2>2 DEF Verdict, Results
<1>3. Fetching /\ job.at \in Int
  BY FetchingNow DEF CollectConsumer, Fetching
<1> DEFINE results == [t \in TypesOf.consumer |-> o.result]
           sound == IF o.sound THEN TypesOf.consumer ELSE {}
<1>4. \A t \in DOMAIN results :
         results[t] \in Results /\ (results[t] = "pass" => t \in sound)
  BY <1>2
<1>5. Hold(results, job.at, sound)
  BY <1>1
<1> HIDE DEF results, sound
<1> QED BY <1>3, <1>4, <1>5, HoldKeeps

LEMMA CollectReviewKeeps == PipelineInv /\ CollectReview => PipelineInv'
<1> SUFFICES ASSUME PipelineInv, CollectReview PROVE PipelineInv'
  OBVIOUS
<1>1. Fetching
  BY FetchingNow DEF CollectReview
<1>2. PICK o \in ReviewOutcomes[job.at] : Hold(o.result, o.at, o.sound)
  BY DEF CollectReview
<1>3. job.at \in 0..MaxTime
  BY <1>1 DEF Fetching
<1>4. PICK v \in Reviews : o = InspectReview(v, job.at) /\ o # Unavailable
  BY <1>2, <1>3 DEF ReviewOutcomes
<1>5. /\ v.reviewedAt \in 0..MaxTime + 1 /\ v.expiresAt \in 1..MaxTime + 2
      /\ v.signature \in {0, 1, 2} /\ v.independent \in BOOLEAN
      /\ v.capability \in BOOLEAN /\ v.signer \in BOOLEAN
  BY DEF Reviews
<1>6. /\ o.result = [t \in TypesOf.review |->
                       Verdict(/\ ~ReviewFindings(v, job.at)
                               /\ IF t = "signer-ownership-assessment"
                                  THEN v.signer ELSE v.capability)]
      /\ o.at = v.reviewedAt
      /\ o.sound = {t \in TypesOf.review :
                       /\ v.signature = 0 /\ v.independent
                       /\ job.at \in v.reviewedAt..v.expiresAt - 1
                       /\ IF t = "signer-ownership-assessment"
                          THEN v.signer ELSE v.capability}
  BY <1>4 DEF InspectReview
<1>7. MaxReviewAge \in Nat /\ MaxTime \in Nat
  BY PipelineAssumption
<1>8. ~ReviewFindings(v, job.at) =>
        v.signature = 0 /\ v.independent /\ job.at \in v.reviewedAt..v.expiresAt - 1
  BY <1>3, <1>5, <1>7 DEF ReviewFindings
<1>9. ASSUME NEW t \in DOMAIN o.result
      PROVE  o.result[t] \in Results /\ (o.result[t] = "pass" => t \in o.sound)
  BY <1>6, <1>8 DEF Verdict, Results
<1>10. o.at \in Int
  BY <1>5, <1>6, <1>7
<1> QED BY <1>1, <1>2, <1>9, <1>10, HoldKeeps

-----------------------------------------------------------------------------
(* A receipt is written before the bundle that names it, and nothing comes *)
(* between the two but the end of the collector.                           *)
LEMMA WriteReceiptKeeps == PipelineInv /\ WriteReceipt => PipelineInv'
<1> SUFFICES ASSUME PipelineInv, WriteReceipt PROVE PipelineInv'
  OBVIOUS
<1>1. Judged
  BY DEF WriteReceipt, Running, PipelineInv, JobInv, NoJob, Fetching
<1>2. /\ receipts' = [receipts EXCEPT ![job.role] = ReceiptOf(job)]
      /\ job' = [job EXCEPT !.step = "bundle"]
      /\ UNCHANGED <<clock, facts, bundles, catalog, report>>
  BY DEF WriteReceipt, ReceiptOf
<1>3. job' = [step |-> "bundle", role |-> job.role, scope |-> job.scope, at |-> job.at,
              results |-> job.results]
  BY <1>1, <1>2 DEF Judged
<1>4. receipts = [r \in Roles |-> receipts[r]]
  BY DEF PipelineInv, FilesInv
<1>5. receipts'[job.role] = ReceiptOf(job) /\ receipts' = [r \in Roles |-> receipts'[r]]
  BY <1>1, <1>2, <1>4 DEF Judged
<1>6. ReceiptOf(job)' = ReceiptOf(job)
  BY <1>3 DEF ReceiptOf
<1>7. Judged'
  BY <1>1, <1>2, <1>3, <1>5, <1>6 DEF Judged
<1>8. FilesInv'
  BY <1>2, <1>5 DEF PipelineInv, FilesInv, BundleSound
<1>9. CatalogInv' /\ PassIsFounded'
  BY <1>2 DEF PipelineInv, CatalogInv, EntrySound, PassIsFounded
<1> QED BY <1>7, <1>8, <1>9 DEF PipelineInv, JobInv

LEMMA WriteBundleKeeps == PipelineInv /\ WriteBundle => PipelineInv'
<1> SUFFICES ASSUME PipelineInv, WriteBundle PROVE PipelineInv'
  OBVIOUS
<1>1. Judged /\ job.step = "bundle"
  BY DEF WriteBundle, Running, PipelineInv, JobInv, NoJob, Fetching
<1>2. ReceiptPin = ReceiptOf(job)
  BY <1>1 DEF ReceiptPin, ReadBackPin, OwnBytesPin, ReceiptOf, Judged
<1> DEFINE b == [scope |-> job.scope, at |-> job.at, results |-> job.results,
                 receipt |-> ReceiptOf(job)]
<1>3. /\ bundles' = [bundles EXCEPT ![job.role] = b]
      /\ job' = NoJob /\ UNCHANGED <<clock, facts, receipts, catalog, report>>
  BY <1>2 DEF WriteBundle
<1>4. BundleSound(b)
  BY <1>1 DEF BundleSound, Judged, ReceiptOf
<1>5. FilesInv'
  <2>1. bundles = [r \in Roles |-> bundles[r]] /\ job.role \in Roles
    BY <1>1 DEF PipelineInv, FilesInv, Judged
  <2>2. bundles' = [r \in Roles |-> IF r = job.role THEN b ELSE bundles[r]]
    BY <1>3, <2>1
  <2>3. ASSUME NEW r \in Roles, bundles'[r] # NoFile PROVE BundleSound(bundles'[r])
    BY <1>4, <2>2, <2>3 DEF PipelineInv, FilesInv
  <2>4. ASSUME NEW x PROVE BundleSound(x) => BundleSound(x)'
    BY <1>3 DEF BundleSound, Held, Known, ReceiptOf
  <2>5. \A r \in Roles : bundles'[r] # NoFile => BundleSound(bundles[r])'
    BY <1>3, <2>3 DEF BundleSound
  <2> QED BY <1>3, <2>2, <2>5 DEF PipelineInv, FilesInv
<1>6. CatalogInv' /\ PassIsFounded'
  BY <1>3 DEF PipelineInv, CatalogInv, EntrySound, PassIsFounded
<1> QED BY <1>3, <1>5, <1>6 DEF PipelineInv, JobInv

LEMMA AssembleKeeps == PipelineInv /\ AssembleCatalog => PipelineInv'
<1> SUFFICES ASSUME PipelineInv, AssembleCatalog PROVE PipelineInv'
  OBVIOUS
<1>1. /\ catalog' = Catalog
      /\ UNCHANGED <<clock, facts, job, receipts, bundles, report>>
      /\ \A r \in Roles : PinnedBundle(r)
  BY DEF AssembleCatalog, files
<1>2. ASSUME NEW t \in EvidenceTypes PROVE EntrySound(t, Entry(IssuerOf(t), t))
  <2> DEFINE r == IssuerOf(t)
  <2>1. r \in Roles /\ t \in TypesOf[r]
    BY TypesOfRoles
  <2> HIDE DEF r
  <2>2. bundles[r] # NoFile /\ bundles[r].scope = TargetScope /\ t \in DOMAIN bundles[r].results
    BY <1>1, <2>1 DEF PinnedBundle
  <2>3. BundleSound(bundles[r])
    BY <2>1, <2>2 DEF PipelineInv, FilesInv
  <2>4. EntrySound(t, Entry(r, t)) <=>
          /\ bundles[r].results[t] \in Results /\ bundles[r].at \in Int /\ r = IssuerOf(t)
          /\ bundles[r].results[t] = "pass" => Known(facts, t, TargetScope, bundles[r].at)
    BY DEF EntrySound, Entry
  <2> QED BY <2>2, <2>3, <2>4 DEF BundleSound, Held, r
<1>3. CatalogInv'
  <2>1. clock \in Int
    BY PipelineAssumption DEF PipelineInv, FilesInv
  <2>2. /\ catalog' = [assessedAt |-> clock, scope |-> TargetScope,
                       entries |-> [t \in EvidenceTypes |-> Entry(IssuerOf(t), t)]]
    BY <1>1 DEF Catalog
  <2>3. ASSUME NEW t \in EvidenceTypes PROVE EntrySound(t, catalog'.entries[t])
    BY <1>2, <2>2
  <2>4. \A t \in EvidenceTypes : EntrySound(t, catalog.entries[t])'
    BY <1>1, <2>3 DEF EntrySound
  <2> QED BY <2>1, <2>2, <2>4 DEF CatalogInv
<1>4. FilesInv' /\ JobInv' /\ PassIsFounded'
  BY <1>1 DEF PipelineInv, FilesInv, BundleSound, JobInv, Fetching, Judged, ReceiptOf,
              PassIsFounded
<1> QED BY <1>3, <1>4 DEF PipelineInv

-----------------------------------------------------------------------------
(* What the assessor lets count as a pass, in any document it may be given, *)
(* is a pass of the catalog.                                               *)
PassCounts(doc, t) == t \in DOMAIN doc.entries /\ Effective(doc, t) = "pass"

LEMMA EffectiveInResults ==
    ASSUME CatalogInv, catalog # NoFile, NEW doc \in Inputs
    PROVE  /\ doc.assessedAt = catalog.assessedAt
           /\ DOMAIN doc.entries \subseteq EvidenceTypes
           /\ \A t \in DOMAIN doc.entries :
                /\ Effective(doc, t) \in Results
                /\ Effective(doc, t) = "pass" =>
                     /\ doc.entries[t] = catalog.entries[t] /\ doc.entries[t].result = "pass"
                     /\ catalog.assessedAt - catalog.entries[t].at \in 0..MaxAge
<1> DEFINE b == catalog.entries["build-record"]
<1>1. /\ catalog = [assessedAt |-> catalog.assessedAt, scope |-> catalog.scope,
                    entries |-> catalog.entries]
      /\ catalog.assessedAt \in Int
      /\ catalog.entries = [t \in EvidenceTypes |-> catalog.entries[t]]
      /\ \A t \in EvidenceTypes : EntrySound(t, catalog.entries[t])
  BY DEF CatalogInv
<1>2. "build-record" \in EvidenceTypes /\ IssuerOf("build-record") = "build"
  BY TypesOfRoles
<1>3. \/ doc = catalog
      \/ \E t \in EvidenceTypes : doc = [catalog EXCEPT !.entries = [u \in EvidenceTypes \ {t} |-> @[u]]]
      \/ \E e \in {[b EXCEPT !.reviewed = FALSE], [b EXCEPT !.role = "producer"],
                   [b EXCEPT !.at = catalog.assessedAt + 1],
                   [b EXCEPT !.result = "error", !.reviewed = FALSE]} :
           doc = [catalog EXCEPT !.entries["build-record"] = e]
  BY TypesOfRoles DEF Inputs, BuildRecord
<1>4. ASSUME NEW t \in DOMAIN doc.entries, t \in EvidenceTypes,
             doc.assessedAt = catalog.assessedAt, doc.entries[t] = catalog.entries[t]
      PROVE  /\ Effective(doc, t) \in Results
             /\ Effective(doc, t) = "pass" =>
                  /\ doc.entries[t] = catalog.entries[t] /\ doc.entries[t].result = "pass"
                  /\ catalog.assessedAt - catalog.entries[t].at \in 0..MaxAge
  BY <1>1, <1>4 DEF Effective, MetadataOK, EntrySound, Results
<1>5. CASE doc = catalog
  BY <1>1, <1>4, <1>5
<1>6. CASE \E t \in EvidenceTypes :
             doc = [catalog EXCEPT !.entries = [u \in EvidenceTypes \ {t} |-> @[u]]]
  <2>1. PICK t \in EvidenceTypes :
          doc = [catalog EXCEPT !.entries = [u \in EvidenceTypes \ {t} |-> @[u]]]
    BY <1>6
  <2>2. /\ doc.assessedAt = catalog.assessedAt
        /\ doc.entries = [u \in EvidenceTypes \ {t} |-> catalog.entries[u]]
    BY <1>1, <2>1
  <2> QED BY <1>4, <2>2
<1>7. CASE \E e \in {[b EXCEPT !.reviewed = FALSE], [b EXCEPT !.role = "producer"],
                     [b EXCEPT !.at = catalog.assessedAt + 1],
                     [b EXCEPT !.result = "error", !.reviewed = FALSE]} :
             doc = [catalog EXCEPT !.entries["build-record"] = e]
  <2>1. PICK e \in {[b EXCEPT !.reviewed = FALSE], [b EXCEPT !.role = "producer"],
                    [b EXCEPT !.at = catalog.assessedAt + 1],
                    [b EXCEPT !.result = "error", !.reviewed = FALSE]} :
           doc = [catalog EXCEPT !.entries["build-record"] = e]
    BY <1>7
  <2>2. /\ doc.assessedAt = catalog.assessedAt
        /\ doc.entries = [t \in EvidenceTypes |-> IF t = "build-record" THEN e
                                                  ELSE catalog.entries[t]]
    BY <1>1, <1>2, <2>1
  <2>3. /\ b = [result |-> b.result, at |-> b.at, scope |-> b.scope, role |-> b.role,
                reviewed |-> b.reviewed]
        /\ b.result \in Results /\ b.at \in Int
    BY <1>1, <1>2 DEF EntrySound
  <2>4. e.result \in Results
    BY <2>1, <2>3 DEF Results
  <2>5. e.result = "error" \/ ~e.reviewed \/ e.role = "producer" \/ e.at = catalog.assessedAt + 1
    BY <2>1, <2>3
  <2>6. doc.entries["build-record"] = e
    BY <1>2, <2>2
  <2>7. ~MetadataOK(doc, "build-record") \/ e.result = "error"
    BY <1>1, <1>2, <2>2, <2>5, <2>6 DEF MetadataOK
  <2>8. Effective(doc, "build-record") \in Results \ {"pass"}
    BY <2>4, <2>6, <2>7 DEF Effective, Results
  <2> QED BY <1>4, <2>2, <2>8
<1> QED BY <1>3, <1>5, <1>6, <1>7

LEMMA ConclusionNeedsAll ==
    ASSUME NEW doc, NEW covered, Conclusion(doc, covered) = "PASS",
           \A t \in DOMAIN doc.entries : Effective(doc, t) \in Results
    PROVE  \A q \in RequirementIds : \A t \in Requirements[q] : PassCounts(doc, t)
<1> SUFFICES ASSUME NEW q \in RequirementIds
             PROVE  \A t \in Requirements[q] : PassCounts(doc, t)
  OBVIOUS
<1> DEFINE statuses == {Status(doc, covered, x) : x \in RequirementIds}
           given == Requirements[q] \cap DOMAIN doc.entries
           seen == {Effective(doc, t) : t \in given}
<1>1. Status(doc, covered, q) = "PASS"
  <2>1. Conclusion(doc, covered) =
           CASE "ERROR" \in statuses -> "ERROR"
             [] "ERROR" \notin statuses /\ "FAIL" \in statuses -> "FAIL"
             [] statuses = {"PASS"} -> "PASS"
             [] OTHER -> "INCOMPLETE"
    BY DEF Conclusion
  <2>2. Status(doc, covered, q) \in statuses
    OBVIOUS
  <2> HIDE DEF statuses
  <2>3. statuses = {"PASS"}
    BY <2>1
  <2> QED BY <2>2, <2>3
<1>2. seen \subseteq Results
  OBVIOUS
<1>3. Status(doc, covered, q) =
        CASE "error" \in seen -> "ERROR"
          [] "error" \notin seen /\ "finding" \in seen -> "FAIL"
          [] seen \subseteq {"pass"} ->
               IF q \in covered /\ given = Requirements[q] THEN "PASS" ELSE "NOT_CHECKED"
  BY DEF Status
<1>4. seen \subseteq {"pass"} /\ given = Requirements[q]
  <2> HIDE DEF seen, given
  <2> QED BY <1>1, <1>2, <1>3 DEF Results
<1> QED BY <1>4 DEF PassCounts

LEMMA AssessKeeps == PipelineInv /\ Assess => PipelineInv'
<1> SUFFICES ASSUME PipelineInv, Assess PROVE PipelineInv'
  OBVIOUS
<1>1. /\ report' \in {[conclusion |-> Conclusion(doc, covered), assessedAt |-> doc.assessedAt] :
                         doc \in Inputs, covered \in CoverageSheets}
      /\ UNCHANGED <<clock, facts, job, receipts, bundles, catalog>>
  BY DEF Assess, files
<1>2. PICK doc \in Inputs, covered \in CoverageSheets :
        report' = [conclusion |-> Conclusion(doc, covered), assessedAt |-> doc.assessedAt]
  BY <1>1
<1>3. catalog # NoFile /\ CatalogInv
  BY DEF Inputs, PipelineInv
<1>4. PassIsFounded'
  <2> SUFFICES ASSUME Conclusion(doc, covered) = "PASS",
                      NEW q \in RequirementIds, NEW t \in Requirements[q]
               PROVE  \E f \in facts :
                         /\ f.type = t /\ f.scope = TargetScope
                         /\ f.at <= doc.assessedAt /\ doc.assessedAt <= f.at + MaxAge
    BY <1>1, <1>2 DEF PassIsFounded
  <2>1. PassCounts(doc, t)
    BY <1>3, EffectiveInResults, ConclusionNeedsAll
  <2>2. /\ t \in EvidenceTypes /\ doc.assessedAt = catalog.assessedAt
        /\ catalog.entries[t].result = "pass"
        /\ catalog.assessedAt - catalog.entries[t].at \in 0..MaxAge
    BY <1>3, <2>1, EffectiveInResults DEF PassCounts
  <2>3. /\ catalog.assessedAt \in Int /\ catalog.entries[t].at \in Int
        /\ Known(facts, t, TargetScope, catalog.entries[t].at)
    BY <1>3, <2>2 DEF CatalogInv, EntrySound
  <2>4. MaxAge \in Nat
    BY PipelineAssumption
  <2> DEFINE f == [type |-> t, scope |-> TargetScope, at |-> catalog.entries[t].at]
  <2>5. f \in facts /\ f.type = t /\ f.scope = TargetScope /\ f.at = catalog.entries[t].at
    BY <2>3 DEF Known
  <2>6. f.at <= doc.assessedAt /\ doc.assessedAt <= f.at + MaxAge
    BY <2>2, <2>3, <2>4, <2>5
  <2> HIDE DEF f
  <2> QED BY <2>5, <2>6
<1>5. FilesInv' /\ JobInv' /\ CatalogInv'
  BY <1>1 DEF PipelineInv, FilesInv, BundleSound, JobInv, Fetching, Judged, ReceiptOf,
              CatalogInv, EntrySound
<1> QED BY <1>4, <1>5 DEF PipelineInv

-----------------------------------------------------------------------------
(* The steps that judge and write nothing                                  *)
LEMMA OtherStepsKeep ==
    ASSUME PipelineInv,
           (\E r \in Roles : Start(r) \/ PinBundle(r)) \/ Interrupted \/ Tick
    PROVE  PipelineInv'
<1>1. /\ facts \subseteq facts' /\ UNCHANGED <<receipts, bundles, catalog, report>>
      /\ clock' \in 0..MaxTime
  <2>1. MaxTime \in Nat /\ clock \in 0..MaxTime
    BY PipelineAssumption DEF PipelineInv, FilesInv
  <2> QED BY <2>1 DEF Start, PinBundle, Interrupted, Tick, files
<1>2. FilesInv' /\ CatalogInv' /\ PassIsFounded'
  BY <1>1, MoreFacts DEF PipelineInv
<1>3. JobInv'
  <2>1. ASSUME NEW r \in Roles, Start(r) PROVE JobInv'
    <3>1. clock \in 0..MaxTime
      BY DEF PipelineInv, FilesInv
    <3>2. PICK s \in AcceptedScopes[r] :
            job' = [step |-> "fetch", role |-> r, scope |-> s, at |-> clock]
      BY <2>1 DEF Start
    <3> QED BY <3>1, <3>2 DEF JobInv, Fetching
  <2>2. ASSUME NEW r \in Roles, PinBundle(r) PROVE JobInv'
    BY <2>2 DEF PinBundle, PipelineInv, JobInv, Fetching, Judged, ReceiptOf
  <2>3. Interrupted => JobInv'
    BY DEF Interrupted, JobInv
  <2>4. Tick => JobInv'
    BY DEF Tick, files, PipelineInv, JobInv, Fetching, Judged, ReceiptOf
  <2> QED BY <2>1, <2>2, <2>3, <2>4
<1> QED BY <1>2, <1>3 DEF PipelineInv

LEMMA PipelineSafe == PipelineSpec => []PipelineInv
<1>1. PipelineInit => PipelineInv
  BY InitInv
<1>2. PipelineInv /\ [PipelineNext]_pipelineVars => PipelineInv'
  <2> SUFFICES ASSUME PipelineInv, [PipelineNext]_pipelineVars PROVE PipelineInv'
    OBVIOUS
  <2>1. CASE UNCHANGED pipelineVars
    BY <2>1 DEF pipelineVars, files, PipelineInv, FilesInv, BundleSound, JobInv, Fetching,
                Judged, ReceiptOf, CatalogInv, EntrySound, PassIsFounded
  <2>2. CASE PipelineNext
    BY <2>2, CollectActionsKeeps, CollectReleasesKeeps, CollectConsumerKeeps,
       CollectReviewKeeps, WriteReceiptKeeps, WriteBundleKeeps, AssembleKeeps, AssessKeeps,
       OtherStepsKeep DEF PipelineNext
  <2> QED BY <2>1, <2>2
<1> QED BY <1>1, <1>2, PTL DEF PipelineSpec

(* For every release, limit and number of collector runs: a PASS of the    *)
(* assessor (assess-slsa-build-l2.py) rests on evidence that really held   *)
(* for the assessed release and was young enough when the adapter          *)
(* assembled it, in whatever order the collectors ran, died and were       *)
(* pinned.                                                                 *)
THEOREM PipelinePassIsFounded == PipelineSpec => []PassIsFounded
<1>1. PipelineInv => PassIsFounded
  BY DEF PipelineInv
<1> QED BY <1>1, PipelineSafe, PTL

(* And the receipt that a collector pins in its bundle is that of the same *)
(* observation, although three of the five collectors read it back from    *)
(* the file.                                                               *)
THEOREM PipelineReceiptBacksBundle == PipelineSpec => []ReceiptBacksBundle
<1>1. PipelineInv => ReceiptBacksBundle
  BY DEF PipelineInv, FilesInv, BundleSound, ReceiptOf, ReceiptBacksBundle
<1> QED BY <1>1, PipelineSafe, PTL
=============================================================================
