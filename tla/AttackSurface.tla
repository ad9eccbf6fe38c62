---------------------------- MODULE AttackSurface ----------------------------
(***************************************************************************)
(* The reconciliation of what is visible from outside with what is         *)
(* approved (external-attack-surface-reconciliation/scripts/verify.py):    *)
(* names come and go, three sources look at them, each at a time of its    *)
(* own, assets are approved until a review expires, and the verifier       *)
(* compares the documents that were left.                                  *)
(***************************************************************************)
EXTENDS Integers, FiniteSets, Documents

CONSTANTS
    Hostnames,
    MaxObservationAge,    \* observation_max_age_seconds
    MaxAssetListAge,      \* inventory_max_age_seconds
    MaxReviewDays,        \* asset_review_max_days, at most 90 by the code
    MaxSurfaceTime,       \* bound: the clock stops here
    MaxChanges            \* bound: changes of a name in a behaviour

ASSUME SurfaceAssumption ==
    {MaxObservationAge, MaxAssetListAge, MaxReviewDays, MaxSurfaceTime, MaxChanges} \subseteq Nat

Sources == {"certificate-transparency", "public-dns", "https-metadata"}
(* What a name is: an address with port 443 or another service, or a CNAME *)
(* to the delegated target or a different one.                             *)
Exposures == {"absent", "port-443", "other-port", "delegated", "drifted"}
Uses == {"private", "public", "delegated"}   \* expected_public, relationship

VARIABLES
    day,
    exposure,      \* name -> what it is now
    changes,       \* counter of the changes
    certified,     \* names a certificate was ever issued for
    snapshots,     \* source -> [at, complete, names, truth], or NoSnapshot
    surface        \* the verdict, or NoSurface

surfaceVars == <<day, exposure, changes, certified, snapshots, surface>>

NoSnapshot == [at |-> -1]
NoAsset == [use |-> "none"]
NoSurface == [result |-> "none"]

SurfaceInit ==
    /\ day = 0 /\ exposure \in [Hostnames -> Exposures] /\ changes = 0
    /\ certified = {} /\ snapshots = [s \in Sources |-> NoSnapshot]
    /\ surface = NoSurface

Expose(n, what) ==
    /\ exposure[n] # what /\ exposure' = [exposure EXCEPT ![n] = what]
    /\ changes < MaxChanges /\ changes' = changes + 1
    /\ UNCHANGED <<day, certified, snapshots, surface>>
Certify(n) ==
    /\ certified' = certified \cup {n}
    /\ UNCHANGED <<day, exposure, changes, snapshots, surface>>

(* A source that failed has looked at nothing.                             *)
Observe(s, complete) ==
    /\ snapshots[s] = NoSnapshot
    /\ LET visible == IF s = "certificate-transparency" THEN certified
                      ELSE {n \in Hostnames : exposure[n] # "absent"}
       IN snapshots' = [snapshots EXCEPT ![s] =
             [at |-> day, complete |-> complete,
              names |-> IF complete THEN visible ELSE {},
              truth |-> IF s = "certificate-transparency" THEN <<>> ELSE exposure]]
    /\ UNCHANGED <<day, exposure, changes, certified, surface>>
NextDay ==
    /\ day < MaxSurfaceTime /\ day' = day + 1
    /\ UNCHANGED <<exposure, changes, certified, snapshots, surface>>

(* The inventories that somebody may have exported by now, with the assets *)
(* as they were approved, and the tickets of the state file.               *)
Assets(at) ==
    {NoAsset} \cup {[use |-> u, reviewed |-> at, until |-> at + d] :
                      u \in Uses, d \in {0, MaxReviewDays, MaxReviewDays + 1}}
AssetLists == UNION {[at : {t}, complete : BOOLEAN, assets : [Hostnames -> Assets(t)]] :
                     t \in 0..day}
Tickets == [Hostnames -> {"none", "open", "remediated"}]
-----------------------------------------------------------------------------
(* load_json to normalize_domain, find_forbidden_key: an ERROR otherwise   *)
SurfaceForms == Forms({"object", "times", "identities", "repeated", "sensitive"})
SurfaceReadable(x) ==
    /\ x.object /\ x.times = "with a timezone" /\ x.identities = "exact"
    /\ ~x.repeated /\ ~x.sensitive

(* validate_policy: anything weaker is a finding                           *)
SurfacePolicies == OneOff(
    [observationAge |-> MaxObservationAge, listAge |-> MaxAssetListAge,
     reviewDays |-> MaxReviewDays, sources |-> Sources, relationships |-> "both",
     active |-> "none", state |-> "reobserve, detect reappearance", output |-> "minimal"],
    [observationAge |-> MaxObservationAge + 1, listAge |-> MaxAssetListAge + 1,
     reviewDays |-> MaxReviewDays + 1, sources |-> Sources \ {"public-dns"},
     relationships |-> "one", active |-> "login attempts", state |-> "weakened",
     output |-> "with sensitive fields"])
SurfacePolicySafe(p) ==
    /\ p.observationAge <= MaxObservationAge /\ p.listAge <= MaxAssetListAge
    /\ p.reviewDays <= MaxReviewDays /\ p.sources = Sources /\ p.relationships = "both"
    /\ p.active = "none" /\ p.state = "reobserve, detect reappearance"
    /\ p.output = "minimal"

(* The roots: their owner and review are findings, the rest is an ERROR    *)
Roots == OneOff(
    [kind |-> "domain", overlapping |-> FALSE, owner |-> "named", review |-> "current",
     window |-> "within a year"],
    [kind |-> "address", overlapping |-> TRUE, owner |-> "missing", review |-> "expired",
     window |-> "longer"])
RootOwned(r) ==
    /\ r.kind = "domain" /\ ~r.overlapping /\ r.owner = "named"
    /\ r.review = "current" /\ r.window = "within a year"

Recent(at, now, age) == at \in 0..now /\ now <= at + age     \* ensure_age

(* validate_inventory.  A review that has expired is left to reconcile.    *)
AssetDocuments == OneOff(
    [root |-> "its own", owner |-> "named", service |-> "only 443", target |-> "external"],
    [root |-> "another", owner |-> "missing", service |-> "other", target |-> "internal"])
AssetSound(x, asset, now) ==
    /\ x.root = "its own" /\ x.owner = "named" /\ x.service = "only 443"
    /\ asset.use = "delegated" => x.target = "external"
    /\ asset # NoAsset =>
         asset.reviewed <= now /\ asset.until - asset.reviewed <= MaxReviewDays
ApprovedListSound(assetList, now) ==
    /\ assetList.complete /\ Recent(assetList.at, now, MaxAssetListAge)
    /\ \E x \in AssetDocuments :
         \A n \in Hostnames : AssetSound(x, assetList.assets[n], now)

(* validate_sources                                                        *)
SourcesSound(assembled, now) ==
    \A s \in Sources :
      /\ snapshots[s] # NoSnapshot /\ snapshots[s].complete
      /\ snapshots[s].at <= assembled
      /\ Recent(snapshots[s].at, now, MaxObservationAge)

(* validate_signal: the sources that name n, and what they say of it       *)
Signals(n) == {s \in Sources : n \in snapshots[s].names}
ServicesSeen(n) ==
    IF "https-metadata" \notin Signals(n) THEN {}
    ELSE IF snapshots["https-metadata"].truth[n] = "other-port" THEN {8443}
    ELSE {443}
TargetsSeen(n) ==
    {snapshots["public-dns"].truth[n]} \cap {"delegated", "drifted"}

(* validate_observations: HTTPS alone finds no name, that is an ERROR      *)
Candidates == {n \in Hostnames : Signals(n) # {}}
ObservationsSound(assembled, now) ==
    /\ Recent(assembled, now, MaxObservationAge)
    /\ SourcesSound(assembled, now)
    /\ \A n \in Candidates :
         Signals(n) \cap {"certificate-transparency", "public-dns"} # {}
(* plausible mistake: a name that only HTTPS still reaches is not exposed  *)
ResolvesNow(n) == "public-dns" \in Signals(n)
CurrentlyExposed(n) == Signals(n) \cap {"public-dns", "https-metadata"} # {}

(* validate_state                                                          *)
StateFiles == OneOff(
    [scope |-> "the inventory's", updated |-> "before", times |-> "in order"],
    [scope |-> "another", updated |-> "in the future", times |-> "closed before seen"])
StateSound(f) ==
    f.scope = "the inventory's" /\ f.updated = "before" /\ f.times = "in order"

(* reconcile                                                               *)
SurfaceFindings(assets, tickets, now) ==
    UNION {LET asset == assets[n] IN
        IF asset = NoAsset
        THEN {<<n, IF tickets[n] = "none" THEN "NEW_UNATTRIBUTED"
                   ELSE IF tickets[n] = "remediated" THEN "REAPPEARED"
                   ELSE "UNATTRIBUTED">>}
        ELSE {<<n, why>> : why \in
                {w \in {"inventory-review-expired", "unexpected-public-exposure",
                        "unexpected-public-service", "delegation-target-drift"} :
                   \/ w = "inventory-review-expired" /\ asset.until <= now
                   \/ /\ w = "unexpected-public-exposure"
                      /\ CurrentlyExposed(n) /\ asset.use = "private"
                   \/ /\ w = "unexpected-public-service"
                      /\ asset.use # "private" /\ ~(ServicesSeen(n) \subseteq {443})
                   \/ /\ w = "delegation-target-drift"
                      /\ asset.use = "delegated" /\ TargetsSeen(n) \ {"delegated"} # {}}}
        : n \in Candidates}

(* main: the time is the policy's as_of, which nobody compares with the    *)
(* clock; it cannot lie before the documents.                              *)
VerifySurface(asOf) ==
    /\ \E x \in SurfaceForms : SurfaceReadable(x)
    /\ \E p \in SurfacePolicies : SurfacePolicySafe(p)
    /\ \E r \in Roots : RootOwned(r)
    /\ {assembled \in 0..asOf : ObservationsSound(assembled, asOf)} # {}
    /\ \E f \in StateFiles : StateSound(f)
    /\ surface' \in
         {[result |-> IF SurfaceFindings(list.assets, tickets, asOf) = {}
                      THEN "PASS" ELSE "REJECTED",
           at |-> asOf, assets |-> list.assets] :
             list \in {l \in AssetLists : ApprovedListSound(l, asOf)}, tickets \in Tickets}
    /\ UNCHANGED <<day, exposure, changes, certified, snapshots>>

SurfaceNext ==
    /\ surface = NoSurface
    /\ \/ NextDay
       \/ \E n \in Hostnames :
            Certify(n) \/ \E what \in Exposures : Expose(n, what)
       \/ \E complete \in BOOLEAN, s \in Sources : Observe(s, complete)
       \/ \E asOf \in 0..day : VerifySurface(asOf)

SurfaceSpec == SurfaceInit /\ [][SurfaceNext]_surfaceVars
-----------------------------------------------------------------------------
(* PassedSurfaceIsOwned: a PASS means of every name that a source, at its  *)
(* own time and not too long before as_of, could really find: it is in the *)
(* approved list with a review that has not expired, it is not one that    *)
(* should be private, however it was reached, it offers no other service,  *)
(* and a delegated one does not lead to a different target.                *)
PassedSurfaceIsOwned ==
    surface.result = "PASS" =>
      \A n \in Hostnames :
        LET asset == surface.assets[n]
            Was(s) == snapshots[s].truth[n]
            found == {s \in Sources \ {"certificate-transparency"} : Was(s) # "absent"}
        IN /\ \A s \in Sources : snapshots[s].at + MaxObservationAge >= surface.at
           /\ found # {} \/ n \in snapshots["certificate-transparency"].names
                => asset # NoAsset /\ asset.until > surface.at
           /\ found # {} => asset.use # "private" /\ Was("https-metadata") # "other-port"
           /\ asset.use = "delegated" => Was("public-dns") # "drifted"
=============================================================================
