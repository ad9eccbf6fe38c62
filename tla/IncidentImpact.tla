--------------------------- MODULE IncidentImpact ---------------------------
(***************************************************************************)
(* The search for what a compromised package has reached                   *)
(* (supply-chain-incident-readiness/scripts/respond.py).  Products are     *)
(* built, their SBOMs reach the local inventory, the build records and the *)
(* Dependency-Track portfolio at different times, some incomplete; the     *)
(* responder compares what the three say and answers CLEAN or DETECTED.    *)
(* A product is named by the serial number of its SBOM.                    *)
(***************************************************************************)
EXTENDS Integers, FiniteSets, Documents

CONSTANTS
    Products,
    MaxPortfolioAge,  \* max_inventory_age_hours
    MaxIncidentHours  \* bound: the clock stops here

ASSUME ImpactAssumption == {MaxPortfolioAge, MaxIncidentHours} \subseteq Nat

VARIABLES
    impactHour,
    built,      \* product -> "no", "clean" or "affected": what it contains
    inventory,  \* product -> "absent" or how complete its SBOM says it is
    buildRecords, \* product -> "absent", "sound" or "defective"
    portfolio,  \* what Dependency-Track knows: [products, updated]
    response,   \* the last answer of the portfolio, or NoResponse
    impact      \* the responder's answer, or NoImpact

impactVars == <<impactHour, built, inventory, buildRecords, portfolio, response, impact>>

NoResponse == [status |-> "none"]
NoImpact == [answer |-> "none"]

ImpactInit ==
    /\ impactHour = 0
    /\ built = [p \in Products |-> "no"]
    /\ inventory = [p \in Products |-> "absent"]
    /\ buildRecords = inventory
    /\ portfolio = [products |-> {}, updated |-> 0]
    /\ response = NoResponse /\ impact = NoImpact

BuildProduct(p, content) ==
    /\ built[p] = "no" /\ built' = [built EXCEPT ![p] = content]
    /\ UNCHANGED <<impactHour, inventory, buildRecords, portfolio, response, impact>>

CollectSbom(p, aggregate) ==
    /\ built[p] # "no" /\ inventory[p] # aggregate
    /\ inventory' = [inventory EXCEPT ![p] = aggregate]
    /\ UNCHANGED <<impactHour, built, buildRecords, portfolio, response, impact>>

RecordBuild(p, quality) ==
    /\ built[p] # "no" /\ buildRecords[p] # quality
    /\ buildRecords' = [buildRecords EXCEPT ![p] = quality]
    /\ UNCHANGED <<impactHour, built, inventory, portfolio, response, impact>>

(* The portfolio takes in what has been uploaded, some of it.              *)
UpdatePortfolio(uploaded) ==
    /\ portfolio' = [products |-> portfolio.products \cup uploaded, updated |-> impactHour]
    /\ UNCHANGED <<impactHour, built, inventory, buildRecords, response, impact>>

Affected(S) == {p \in S : built[p] = "affected"}

(* A query over several pages; some pages may be missing.                  *)
QueryPortfolio(lost, healthy, exact) ==
    /\ response' = [status |-> "SUCCESS", healthy |-> healthy, exact |-> exact,
                    complete |-> (lost = {}),
                    projects |-> Affected(portfolio.products) \ lost,
                    updated |-> portfolio.updated, evaluated |-> impactHour,
                    known |-> portfolio.products]   \* history
    /\ UNCHANGED <<impactHour, built, inventory, buildRecords, portfolio, impact>>

ImpactTick ==
    /\ impactHour < MaxIncidentHours /\ impactHour' = impactHour + 1
    /\ UNCHANGED <<built, inventory, buildRecords, portfolio, response, impact>>

-----------------------------------------------------------------------------
Searched == {p \in Products : inventory[p] # "absent"}

(* The runbook and the portfolio policy that the responder is given        *)
Plans == OneOff(
    [dryRunDefault |-> TRUE, actions |-> "evidence first", commands |-> FALSE,
     approvals |-> TRUE, owners |-> TRUE, release |-> "pinned", digest |-> "pinned",
     endpoint |-> "https", key |-> "from the environment", permissions |-> "read",
     mode |-> "exact", pagination |-> "all pages", unavailable |-> "ERROR",
     maxAge |-> MaxPortfolioAge, evidence |-> "metadata"],
    [dryRunDefault |-> FALSE, actions |-> "another order", commands |-> TRUE,
     approvals |-> FALSE, owners |-> FALSE, release |-> "latest", digest |-> "none",
     endpoint |-> "http", key |-> "inline", permissions |-> "write",
     mode |-> "prefix", pagination |-> "first page", unavailable |-> "CLEAN",
     maxAge |-> MaxPortfolioAge + 1, evidence |-> "raw"])

(* validate_runbook                                                        *)
RunbookSafe(g) ==
    /\ g.dryRunDefault /\ g.actions = "evidence first"
    /\ ~g.commands /\ g.approvals /\ g.owners

(* validate_sbom: an SBOM that does not say it is complete is a finding    *)
SbomSound(p) == inventory[p] = "complete"

(* validate_records: every SBOM has one record, and the record is exact    *)
RecordsSound ==
    /\ \A p \in Products : buildRecords[p] # "defective"
    /\ \A p \in Searched : buildRecords[p] # "absent"

(* validate_dependency_track_policy                                        *)
PortfolioPolicySafe(g) ==
    /\ g.release = "pinned" /\ g.digest = "pinned" /\ g.endpoint = "https"
    /\ g.key = "from the environment" /\ g.permissions = "read"
    /\ g.mode = "exact" /\ g.pagination = "all pages" /\ g.unavailable = "ERROR"
    /\ g.maxAge <= MaxPortfolioAge /\ g.evidence = "metadata"

(* plausible mistake: a query that lost pages is used                      *)
ResponseFresh(r, maxAge) ==
    /\ r.status = "SUCCESS" /\ r.exact /\ r.healthy
    /\ r.evaluated - r.updated \in 0..maxAge

(* validate_dependency_track_response: what is not usable is an ERROR      *)
ResponseUsable(r, maxAge) ==
    /\ r.status = "SUCCESS" /\ r.exact /\ r.healthy /\ r.complete
    /\ r.evaluated - r.updated \in 0..maxAge

(* what the inventory says the package is in: the complete SBOMs name it   *)
Impacted == Affected(Searched)

(* run, with the portfolio: both must name the same products               *)
PortfolioAgrees(r) == r.projects = Impacted

(* run: only a dry run, an inventory that is not empty and no finding give *)
(* an answer                                                               *)
Answer(r, withPortfolio, maxAge) ==
    /\ Searched # {}
    /\ \A p \in Searched : SbomSound(p)
    /\ RecordsSound
    /\ withPortfolio => ResponseUsable(r, maxAge) /\ PortfolioAgrees(r)
    /\ impact' = [answer |-> IF Impacted = {} THEN "CLEAN" ELSE "DETECTED",
                  named |-> Impacted, searched |-> Searched, at |-> impactHour,
                  known |-> IF withPortfolio THEN r.known ELSE {}]
    /\ UNCHANGED <<impactHour, built, inventory, buildRecords, portfolio, response>>

RunResponder ==
    \E withPortfolio \in BOOLEAN :
      LET accepted == {g \in Plans : /\ RunbookSafe(g)
                                     /\ withPortfolio => PortfolioPolicySafe(g)}
      IN \E maxAge \in {g.maxAge : g \in accepted} : Answer(response, withPortfolio, maxAge)

ImpactNext ==
    /\ impact = NoImpact
    /\ \/ \E p \in Products, content \in {"clean", "affected"} : BuildProduct(p, content)
       \/ \E p \in Products, aggregate \in {"complete", "incomplete"} :
            CollectSbom(p, aggregate)
       \/ \E p \in Products, quality \in {"sound", "defective"} : RecordBuild(p, quality)
       \/ \E S \in SUBSET {p \in Products : built[p] # "no"} : UpdatePortfolio(S)
       \/ \E lost \in SUBSET Affected(portfolio.products) : QueryPortfolio(lost, TRUE, TRUE)
       \/ \E healthy \in BOOLEAN : QueryPortfolio({}, healthy, ~healthy)
       \/ RunResponder \/ ImpactTick

ImpactSpec == ImpactInit /\ [][ImpactNext]_impactVars
-----------------------------------------------------------------------------
(* NothingAffectedIsClean: an answer names every affected product that the *)
(* inventory held when it was given or that the portfolio knew when it was *)
(* asked, whichever of the two had not heard of it, and every product it   *)
(* names has a build record to act on.                                     *)
NothingAffectedIsClean ==
    impact # NoImpact =>
        /\ Affected(impact.searched \cup impact.known) \subseteq impact.named
        /\ \A p \in impact.named : buildRecords[p] = "sound"
=============================================================================
