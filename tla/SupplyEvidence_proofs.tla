----------------------- MODULE SupplyEvidence_proofs ------------------------
(***************************************************************************)
(* What the verdicts of the supply chain controls mean, for any values of  *)
(* their constants: the release cooldown, incident impact, the exception   *)
(* register, artifact refresh, the attack surface and credential exposure. *)
(* Each invariant says of the evidence that it was true when it was taken; *)
(* a verdict compares pieces that were taken at different times.           *)
(***************************************************************************)
EXTENDS ReleaseCooldown, CredentialExposure, IncidentImpact, ExceptionRegister,
        ArtifactRefresh, AttackSurface, TLAPS

(* Release cooldown.                                                       *)

(* The times that the cooldown keeps: what a registry snapshot says of a   *)
(* version is when it was published, or nothing yet.                       *)
CooldownTimes ==
    /\ tick \in Nat
    /\ released \in [Versions -> Nat \cup {None}]
    /\ metadata \in [Versions -> Nat \cup {None}]
    /\ \A v \in Versions : metadata[v] # None => metadata[v] = released[v]
    /\ \A e \in exceptions : e.created \in Int /\ e.expires \in Int

CooldownInv == CooldownTimes /\ InstalledIsAged

(* Whole hours that have passed are at least that many ticks.              *)
LEMMA WholeHours ==
    ASSUME NEW n \in Int, NEW h \in Nat, n \div TicksPerHour >= h
    PROVE  n >= h * TicksPerHour
BY DEF TicksPerHour

(* A configured limit in the unit of the client is the limit in ticks.     *)
LEMMA ClientGate ==
    ASSUME NEW s \in Settings, NEW v \in Versions, tick \in Nat, released[v] \in Nat,
           NativeConfigSafe(s), ClientTakes(s, v)
    PROVE  released[v] + MinimumHours * TicksPerHour <= tick
<1>0. MinimumHours \in Nat
  BY CooldownAssumption
<1>1. PICK ecosystem \in {"npm", "pnpm"}, n \in MinimumHours..MaxCooldownTime :
        s \in OneOff(Setting(ecosystem, n),
                [Setting("pip", MinimumHours - 1) EXCEPT !.excludes = TRUE,
                    !.ignoresMissing = TRUE, !.strict = FALSE, !.trustsLockfile = TRUE])
  BY DEF Settings
<1>2. s.n \in Int
  <2> DEFINE w == Setting(ecosystem, n)
             o == [Setting("pip", MinimumHours - 1) EXCEPT !.excludes = TRUE,
                     !.ignoresMissing = TRUE, !.strict = FALSE, !.trustsLockfile = TRUE]
  <2>1. /\ "n" \in DOMAIN w /\ w.n \in Int /\ o.n \in Int
    BY <1>0 DEF Setting
  <2>2. s = w \/ \E f \in DOMAIN w : s = [w EXCEPT ![f] = o[f]]
    BY <1>1 DEF OneOff
  <2> HIDE DEF w, o
  <2> QED
    BY <2>1, <2>2
<1>3. tick - released[v] >= (IF s.ecosystem = "pnpm" THEN s.n ELSE s.n * TicksPerHour)
  BY DEF NativeConfigSafe, ClientTakes
<1>4. (IF s.ecosystem = "pnpm" THEN s.n \div TicksPerHour ELSE s.n) >= MinimumHours
  BY DEF NativeConfigSafe, ConfiguredHours
<1>5. CASE s.ecosystem = "pnpm"
  <2>1. s.n >= MinimumHours * TicksPerHour
    BY <1>0, <1>2, <1>4, <1>5, WholeHours
  <2> QED
    BY <2>1, <1>0, <1>2, <1>3, <1>5 DEF TicksPerHour
<1>6. CASE s.ecosystem # "pnpm"
  BY <1>0, <1>2, <1>3, <1>4, <1>6 DEF TicksPerHour
<1> QED
  BY <1>5, <1>6

(* The verifier lets through what is old enough or has its exception.      *)
LEMMA AcceptedEntry ==
    ASSUME CooldownTimes, NEW p \in LockPolicies, NEW v \in Locked,
           ~Unverifiable, ~Rejected(p)
    PROVE  \/ released[v] + MinimumHours * TicksPerHour <= tick
           \/ \E e \in exceptions :
                 /\ e.version = v /\ ~e.same
                 /\ e.created <= tick /\ tick < e.expires
                 /\ e.expires - e.created <= MaxExceptionHours * TicksPerHour
<1>0. MinimumHours \in Nat /\ MaxExceptionHours \in Nat
  BY CooldownAssumption
<1>1. v \in Versions /\ metadata[v] \in Nat /\ metadata[v] = released[v] /\ tick \in Nat
  BY DEF CooldownTimes, Unverifiable, Locked
<1>2. v \in Young => \E e \in exceptions : Active(e, v)
  BY DEF Rejected, DependencyFindings
<1>3. CASE v \in Young
  <2>1. PICK e \in exceptions : Active(e, v)
    BY <1>2, <1>3
  <2>2. ~ExceptionFindings(e) /\ e.created \in Int /\ e.expires \in Int
    BY <2>1 DEF Rejected, CooldownTimes
  <2> QED
    BY <2>1, <2>2, <1>0, <1>1 DEF ExceptionFindings, Active, TicksPerHour
<1>4. CASE v \notin Young
  <2>1. (tick - metadata[v]) \div TicksPerHour >= MinimumHours
    BY <1>0, <1>1, <1>4 DEF Young, AgeHours, TicksPerHour
  <2>2. tick - metadata[v] >= MinimumHours * TicksPerHour
    BY <2>1, <1>0, <1>1, WholeHours
  <2> QED
    BY <2>2, <1>0, <1>1 DEF TicksPerHour
<1> QED
  BY <1>3, <1>4

(* CooldownInstalledIsAged: what verify.py, check_npm_release_age.py or a  *)
(* package manager's own gate lets be installed had been public for the    *)
(* minimum time, by its real publication, or was covered by a bounded      *)
(* exception of two people, for any versions, ages and exceptions,         *)
(* whatever registry metadata and lockfile are used.                       *)
THEOREM CooldownInstalledIsAged == CooldownSpec => []InstalledIsAged
<1>1. CooldownInit => CooldownInv
  BY DEF CooldownInit, CooldownInv, CooldownTimes, InstalledIsAged, None
<1>2. CooldownInv /\ [CooldownNext]_cooldownVars => CooldownInv'
  <2> SUFFICES ASSUME CooldownInv, [CooldownNext]_cooldownVars PROVE CooldownInv'
    OBVIOUS
  <2> USE DEF CooldownInv
  <2>1. CASE UNCHANGED cooldownVars
    BY <2>1 DEF cooldownVars, CooldownTimes, InstalledIsAged
  <2>2. CASE CooldownNext
    <3>0. installed = {} /\ CooldownTimes
      BY <2>2 DEF CooldownNext
    <3>1. ASSUME NEW v \in Versions, Publish(v) PROVE CooldownInv'
      BY <3>0, <3>1 DEF Publish, CooldownTimes, InstalledIsAged, None
    <3>2. CASE FetchMetadata
      BY <3>0, <3>2 DEF FetchMetadata, CooldownTimes, InstalledIsAged
    <3>3. ASSUME NEW v \in Versions, NEW created \in {tick - 1, tick, tick + 1},
                 NEW hours \in 0..MaxExceptionHours + 1, NEW same \in BOOLEAN,
                 FileException(v, created, hours, same)
          PROVE  CooldownInv'
      <4>1. created \in Int /\ created + hours * TicksPerHour \in Int
        BY <3>0, CooldownAssumption DEF CooldownTimes, TicksPerHour
      <4> QED
        BY <4>1, <3>0, <3>3 DEF FileException, CooldownTimes, InstalledIsAged
    <3>4. ASSUME NEW e \in exceptions, RemoveException(e) PROVE CooldownInv'
      BY <3>0, <3>4 DEF RemoveException, CooldownTimes, InstalledIsAged
    <3>5. ASSUME NEW v \in Versions, NEW entry, Relock(v, entry) PROVE CooldownInv'
      BY <3>0, <3>5 DEF Relock, CooldownTimes, InstalledIsAged
    <3>6. ASSUME NEW p \in LockPolicies, VerifyLock(p) PROVE CooldownInv'
      <4>1. CooldownTimes'
        BY <3>0, <3>6 DEF VerifyLock, CooldownTimes
      <4>2. ~Unverifiable /\ ~Rejected(p) /\ installed' = {Install(v) : v \in Locked}
             /\ released' = released
        BY <3>6 DEF VerifyLock
      <4>3. ASSUME NEW v \in Locked, NEW i, i = Install(v)
            PROVE \/ released[i.version] + MinimumHours * TicksPerHour <= i.at
                  \/ \E e \in i.under :
                       /\ ~e.same /\ e.created <= i.at /\ i.at < e.expires
                       /\ e.expires - e.created <= MaxExceptionHours * TicksPerHour
        <5>1. i.version = v /\ i.at = tick /\ i.under = {e \in exceptions : e.version = v}
          BY <4>3 DEF Install
        <5> QED
          BY <5>1, <3>0, <4>2, AcceptedEntry
      <4> QED
        BY <4>1, <4>2, <4>3 DEF InstalledIsAged
    <3>7. ASSUME NEW v \in Versions, NEW s \in Settings, NativeInstall(v, s)
          PROVE  CooldownInv'
      <4>1. CooldownTimes'
        BY <3>0, <3>7 DEF NativeInstall, CooldownTimes
      <4>2. released[v] \in Nat /\ tick \in Nat /\ released' = released
        BY <3>0, <3>7 DEF NativeInstall, CooldownTimes
      <4>3. released[v] + MinimumHours * TicksPerHour <= tick
        BY <4>2, <3>7, ClientGate DEF NativeInstall
      <4> QED
        BY <4>1, <4>2, <4>3, <3>7 DEF NativeInstall, InstalledIsAged, Install
    <3>8. ASSUME NEW v \in Versions, NEW c \in NpmConfigs, CheckNpmAge(v, c)
          PROVE  CooldownInv'
      BY <3>0, <3>8 DEF CheckNpmAge, CooldownTimes, InstalledIsAged
    <3>9. CASE CooldownTick
      BY <3>0, <3>9 DEF CooldownTick, CooldownTimes, InstalledIsAged
    <3> QED
      BY <2>2, <3>1, <3>2, <3>3, <3>4, <3>5, <3>6, <3>7, <3>8, <3>9
      DEF CooldownNext, CooldownStep
  <2> QED
    BY <2>1, <2>2
<1>3. CooldownInv => InstalledIsAged
  BY DEF CooldownInv
<1> QED
  BY <1>1, <1>2, <1>3, PTL DEF CooldownSpec
-----------------------------------------------------------------------------
(* Incident impact.                                                        *)

(* What a product contains is settled when it is built, and only what was  *)
(* built is anywhere: a complete answer of the portfolio stays the list of *)
(* the affected products that it knew.                                     *)
KnownIsBuilt ==
    /\ built \in [Products -> {"no", "clean", "affected"}]
    /\ inventory \in [Products -> {"absent", "complete", "incomplete"}]
    /\ buildRecords \in [Products -> {"absent", "sound", "defective"}]
    /\ \A p \in Searched : built[p] # "no"
    /\ portfolio = [products |-> portfolio.products, updated |-> portfolio.updated]
    /\ portfolio.products \subseteq {p \in Products : built[p] # "no"}
    /\ response.status = "SUCCESS" =>
         /\ response.known \subseteq {p \in Products : built[p] # "no"}
         /\ response.complete => response.projects = Affected(response.known)

ImpactInv == KnownIsBuilt /\ NothingAffectedIsClean

(* An answer of the responder names every affected product of what it      *)
(* searched and of what the portfolio knew, each with a build record.      *)
LEMMA AgreedAnswer ==
    ASSUME KnownIsBuilt, NEW withPortfolio \in BOOLEAN, NEW maxAge,
           Answer(response, withPortfolio, maxAge)
    PROVE  ImpactInv'
<1>1. impact'.named = Impacted /\ impact'.searched = Searched
      /\ impact'.known = (IF withPortfolio THEN response.known ELSE {})
      /\ UNCHANGED <<impactHour, built, inventory, buildRecords, portfolio, response>>
  BY DEF Answer
<1>2. KnownIsBuilt'
  BY <1>1 DEF KnownIsBuilt, Searched, Affected
<1>3. withPortfolio => Affected(response.known) = Impacted
  BY DEF Answer, ResponseUsable, PortfolioAgrees, KnownIsBuilt
<1>4. Affected(impact'.searched \cup impact'.known) \subseteq impact'.named
  BY <1>1, <1>3 DEF Affected, Impacted
<1>5. \A p \in impact'.named : buildRecords[p] = "sound"
  BY <1>1 DEF Answer, RecordsSound, Impacted, Affected, Searched, KnownIsBuilt
<1> QED
  BY <1>1, <1>2, <1>4, <1>5 DEF ImpactInv, NothingAffectedIsClean, Affected

(* ImpactNothingAffectedIsClean: an answer of respond.py names every       *)
(* affected product that the inventory held when it was given or that the  *)
(* portfolio knew when it was asked, each with a sound build record, for   *)
(* any products and ages, although builds, records and both sources change *)
(* between question and answer.                                            *)
THEOREM ImpactNothingAffectedIsClean == ImpactSpec => []NothingAffectedIsClean
<1>1. ImpactInit => ImpactInv
  BY DEF ImpactInit, ImpactInv, KnownIsBuilt, NothingAffectedIsClean, NoImpact,
         NoResponse, Searched
<1>2. ImpactInv /\ [ImpactNext]_impactVars => ImpactInv'
  <2> SUFFICES ASSUME ImpactInv, [ImpactNext]_impactVars PROVE ImpactInv'
    OBVIOUS
  <2> USE DEF ImpactInv
  <2>1. CASE UNCHANGED impactVars
    BY <2>1 DEF impactVars, KnownIsBuilt, NothingAffectedIsClean, Searched, Affected
  <2>2. CASE ImpactNext
    <3>0. impact = NoImpact /\ KnownIsBuilt
      BY <2>2 DEF ImpactNext
    <3>1. ASSUME NEW p \in Products, NEW content \in {"clean", "affected"},
                 BuildProduct(p, content)
          PROVE  ImpactInv'
      <4>1. \A q \in Products : built[q] # "no" => built'[q] = built[q]
        BY <3>0, <3>1 DEF BuildProduct, KnownIsBuilt
      <4>2. built' \in [Products -> {"no", "clean", "affected"}]
        BY <3>0, <3>1 DEF BuildProduct, KnownIsBuilt
      <4>3. response.status = "SUCCESS" /\ response.complete =>
              Affected(response.known)' = Affected(response.known)
        BY <4>1, <3>0, <3>1 DEF BuildProduct, KnownIsBuilt, Affected
      <4> QED
        BY <4>1, <4>2, <4>3, <3>0, <3>1
        DEF BuildProduct, KnownIsBuilt, NothingAffectedIsClean, Searched
    <3>2. ASSUME NEW p \in Products, NEW aggregate \in {"complete", "incomplete"},
                 CollectSbom(p, aggregate)
          PROVE  ImpactInv'
      BY <3>0, <3>2 DEF CollectSbom, KnownIsBuilt, NothingAffectedIsClean, Searched,
                        Affected
    <3>3. ASSUME NEW p \in Products, NEW quality \in {"sound", "defective"},
                 RecordBuild(p, quality)
          PROVE  ImpactInv'
      BY <3>0, <3>3 DEF RecordBuild, KnownIsBuilt, NothingAffectedIsClean, Searched,
                        Affected
    <3>4. ASSUME NEW S \in SUBSET {p \in Products : built[p] # "no"}, UpdatePortfolio(S)
          PROVE  ImpactInv'
      BY <3>0, <3>4 DEF UpdatePortfolio, KnownIsBuilt, NothingAffectedIsClean, Searched,
                        Affected
    <3>5. ASSUME NEW lost, NEW healthy, NEW exact, QueryPortfolio(lost, healthy, exact)
          PROVE  ImpactInv'
      <4>1. /\ response'.known = portfolio.products
            /\ response'.complete = (lost = {})
            /\ response'.projects = Affected(portfolio.products) \ lost
            /\ UNCHANGED <<impactHour, built, inventory, buildRecords, portfolio, impact>>
        BY <3>5 DEF QueryPortfolio
      <4> QED
        BY <4>1, <3>0 DEF KnownIsBuilt, NothingAffectedIsClean, Searched, Affected
    <3>6. CASE RunResponder
      BY <3>0, <3>6, AgreedAnswer DEF RunResponder
    <3>7. CASE ImpactTick
      BY <3>0, <3>7 DEF ImpactTick, KnownIsBuilt, NothingAffectedIsClean, Searched,
                        Affected
    <3> QED
      BY <2>2, <3>1, <3>2, <3>3, <3>4, <3>5, <3>6, <3>7 DEF ImpactNext
  <2> QED
    BY <2>1, <2>2
<1>3. ImpactInv => NothingAffectedIsClean
  BY DEF ImpactInv
<1> QED
  BY <1>1, <1>2, <1>3, PTL DEF ImpactSpec
-----------------------------------------------------------------------------
(* Exception register.                                                     *)

(* The exceptions in the directory say when they begin and end.            *)
RegisterInv ==
    /\ today \in Nat
    /\ directory \in [ExceptionFiles -> ExceptionContents \cup {NoExceptionFile}]
    /\ PassedExceptionsAreBounded

(* A register that passes lists exactly the files of the directory, so     *)
(* that its declared entries are the exceptions that were evaluated.       *)
LEMMA PassedDirectory ==
    ASSUME RegisterInv, registerVerdict = NoVerdict, EvaluateRegister
    PROVE  PassedExceptionsAreBounded'
<1> SUFFICES ASSUME registerVerdict'.verdict = "PASS" PROVE PassedExceptionsAreBounded'
  BY DEF PassedExceptionsAreBounded
<1>0. PICK p \in RegisterPolicies, x \in RegisterForms :
         registerVerdict' =
             [verdict |-> RegisterAnswer(p, x), at |-> today,
              files |-> {directory[f] : f \in Exceptions}, declared |-> register.at]
  BY DEF EvaluateRegister
<1>1. /\ RegisterMatches(register) /\ DistinctIds
      /\ \A f \in Exceptions : ExceptionState(directory[f]) = "IN FORCE"
      /\ UNCHANGED <<today, directory, register, edits>>
  <2>1. RegisterAnswer(p, x) = "PASS"
    BY <1>0
  <2> QED
    BY <2>1 DEF RegisterAnswer, EvaluateRegister
<1>2. /\ registerVerdict'.at = today /\ registerVerdict'.declared = register.at
      /\ registerVerdict'.files = {directory[f] : f \in Exceptions}
  BY <1>0
<1>3. registerVerdict'.files = {register.entries[f] : f \in ExceptionFiles} \ {NoExceptionFile}
  BY <1>1, <1>2 DEF RegisterMatches, Exceptions
<1>4. ASSUME NEW f \in Exceptions, ExceptionState(directory[f]) = "IN FORCE"
      PROVE  /\ directory[f].people = "three" /\ directory[f].exact
             /\ directory[f].expires > today
             /\ directory[f].expires <= today + MaxExceptionLife
  <2>1. ~ExceptionIssues(directory[f]) /\ ~(directory[f].expires <= today)
    BY <1>4 DEF ExceptionState
  <2>2. directory[f].expires \in Int /\ directory[f].created \in Int
    <3>1. directory[f] \in ExceptionContents
      BY DEF Exceptions, RegisterInv
    <3>2. ASSUME NEW e \in ExceptionContents PROVE e.expires \in Int /\ e.created \in Int
      <4>0. MaxExceptionLife \in Nat /\ MaxRegisterTime \in Nat
        BY RegisterAssumption
      <4>1. \/ e.created \in 0..MaxRegisterTime
               /\ e.expires \in 0..MaxRegisterTime + MaxExceptionLife
            \/ e.created \in {0} /\ e.expires \in {MaxExceptionLife}
        BY <3>2 DEF ExceptionContents
      <4> QED
        BY <4>0, <4>1
    <3> QED
      BY <3>1, <3>2
  <2> QED
    BY <2>1, <2>2, RegisterAssumption DEF ExceptionIssues, RegisterInv
<1>5. \A e, f \in registerVerdict'.files : e.id = f.id => e = f
  <2> SUFFICES ASSUME NEW f \in Exceptions, NEW g \in Exceptions,
                      directory[f].id = directory[g].id
               PROVE  directory[f] = directory[g]
    BY <1>2
  <2> QED
    BY <1>1 DEF DistinctIds
<1>6. today - register.at \in 0..MaxRegisterAge
  BY <1>1 DEF RegisterMatches
<1>7. ASSUME NEW e \in registerVerdict'.files
      PROVE  /\ e.people = "three" /\ e.exact /\ e.expires > today
             /\ e.expires <= today + MaxExceptionLife
  BY <1>1, <1>2, <1>4, <1>7
<1>8. register' = register
  BY <1>1
<1> QED
  BY <1>2, <1>3, <1>5, <1>6, <1>7, <1>8 DEF PassedExceptionsAreBounded

(* RegisterPassedAreBounded: a register passes only over a directory whose *)
(* exceptions are all in force, three-person and bounded from that moment, *)
(* for any files, identifiers and lifetimes, however the directory was     *)
(* changed after the register was declared.                                *)
THEOREM RegisterPassedAreBounded == RegisterSpec => []PassedExceptionsAreBounded
<1>1. RegisterInit => RegisterInv
  BY DEF RegisterInit, RegisterInv, PassedExceptionsAreBounded, NoVerdict
<1>2. RegisterInv /\ [RegisterNext]_registerVars => RegisterInv'
  <2> SUFFICES ASSUME RegisterInv, [RegisterNext]_registerVars PROVE RegisterInv'
    OBVIOUS
  <2>1. CASE UNCHANGED registerVars
    BY <2>1 DEF registerVars, RegisterInv, PassedExceptionsAreBounded
  <2>2. CASE RegisterNext
    <3>0. registerVerdict = NoVerdict /\ registerVerdict.verdict # "PASS"
      BY <2>2 DEF RegisterNext, NoVerdict
    <3>1. ASSUME NEW f \in ExceptionFiles, NEW e \in ExceptionContents, WriteException(f, e)
          PROVE  RegisterInv'
      BY <3>0, <3>1 DEF WriteException, RegisterInv, PassedExceptionsAreBounded
    <3>2. ASSUME NEW f \in ExceptionFiles, RemoveExceptionFile(f) PROVE RegisterInv'
      BY <3>0, <3>2 DEF RemoveExceptionFile, RegisterInv, PassedExceptionsAreBounded
    <3>3. ASSUME NEW complete, NEW forgotten, DeclareRegister(complete, forgotten)
          PROVE  RegisterInv'
      BY <3>0, <3>3 DEF DeclareRegister, RegisterInv, PassedExceptionsAreBounded
    <3>4. CASE EvaluateRegister
      <4>1. PassedExceptionsAreBounded'
        BY <3>0, <3>4, PassedDirectory
      <4>2. UNCHANGED <<today, directory>>
        BY <3>4 DEF EvaluateRegister
      <4> QED
        BY <4>1, <4>2 DEF RegisterInv
    <3>5. CASE RegisterTick
      BY <3>0, <3>5 DEF RegisterTick, RegisterInv, PassedExceptionsAreBounded
    <3> QED
      BY <2>2, <3>1, <3>2, <3>3, <3>4, <3>5 DEF RegisterNext
  <2> QED
    BY <2>1, <2>2
<1>3. RegisterInv => PassedExceptionsAreBounded
  BY DEF RegisterInv
<1> QED
  BY <1>1, <1>2, <1>3, PTL DEF RegisterSpec
-----------------------------------------------------------------------------
(* Artifact refresh.                                                       *)

(* What was collected and decided lies in the past; the second inventory   *)
(* says of the environments that it has seen what they really ran, and     *)
(* risk evidence that found nothing is older than the discovery.           *)
RefreshInv ==
    /\ instant \in Nat
    /\ affectedSince \in Nat \cup {Never} /\ affectedSince <= instant
    /\ firstInventory # NoInventory => firstInventory.at \in Nat
    /\ postInventory # NoInventory =>
         /\ firstInventory # NoInventory
         /\ postInventory.at \in Nat
         /\ \A e \in DOMAIN postInventory.seen : postInventory.ran[e] = postInventory.seen[e]
    /\ risk # NoRisk =>
         /\ risk.at \in Nat /\ risk.at <= instant
         /\ ~risk.affected => affectedSince = Never \/ affectedSince >= risk.at
    /\ RemediatedEverywhere

(* A verdict of REMEDIATED or NOT_AFFECTED follows from what was collected *)
(* and decided before it.                                                  *)
LEMMA EvaluatedRefresh ==
    ASSUME RefreshInv, EvaluateRefresh
    PROVE  RemediatedEverywhere'
<1>0. /\ MaxInventoryAge \in Nat /\ MaxRiskAge \in Nat
  BY RefreshAssumption
<1>1. /\ refresh'.state = RefreshState /\ refresh'.at = instant
      /\ UNCHANGED <<affectedSince, firstInventory, postInventory, candidate>>
  BY DEF EvaluateRefresh
<1>2. risk # NoRisk /\ instant - risk.at <= MaxRiskAge
  BY DEF EvaluateRefresh, RiskValid
<1>3. CASE refresh'.state = "REMEDIATED"
  <2>1. Replaced
    BY <1>1, <1>3 DEF RefreshState
  <2>2. /\ candidate = "sound" /\ postInventory # NoInventory
        /\ instant - postInventory.at <= MaxInventoryAge
        /\ \A e \in firstInventory.scope : postInventory.seen[e] = "new"
        /\ DOMAIN postInventory.seen = firstInventory.scope
    BY <2>1 DEF Replaced
  <2>3. \A e \in firstInventory.scope : postInventory.ran[e] = "new"
    BY <2>2 DEF RefreshInv
  <2>4. postInventory.at + MaxInventoryAge >= instant
    BY <2>2, <1>0 DEF RefreshInv
  <2> QED
    BY <2>2, <2>3, <2>4, <1>1, <1>3 DEF RemediatedEverywhere
<1>4. CASE refresh'.state = "NOT_AFFECTED"
  <2>1. ~risk.affected
    BY <1>1, <1>4 DEF RefreshState
  <2> QED
    BY <2>1, <1>0, <1>1, <1>2, <1>4 DEF RemediatedEverywhere, RefreshInv
<1> QED
  BY <1>3, <1>4 DEF RemediatedEverywhere

(* RefreshRemediatedEverywhere: evaluate says REMEDIATED only when every   *)
(* environment of the first inventory ran a sound replacement at the time  *)
(* of the second, and NOT_AFFECTED only while that could still be thought, *)
(* for any environments, ages and deadline.                                *)
THEOREM RefreshRemediatedEverywhere == RefreshSpec => []RemediatedEverywhere
<1>1. RefreshInit => RefreshInv
  BY DEF RefreshInit, RefreshInv, RemediatedEverywhere, NoRefresh, Never
<1>2. RefreshInv /\ [RefreshNext]_refreshVars => RefreshInv'
  <2> SUFFICES ASSUME RefreshInv, [RefreshNext]_refreshVars PROVE RefreshInv'
    OBVIOUS
  <2>1. CASE UNCHANGED refreshVars
    BY <2>1 DEF refreshVars, RefreshInv, RemediatedEverywhere
  <2>2. CASE RefreshNext
    <3>0. refresh.state \notin {"REMEDIATED", "NOT_AFFECTED"}
      BY <2>2 DEF RefreshNext, NoRefresh
    <3>1. CASE LearnAffected
      BY <3>0, <3>1 DEF LearnAffected, RefreshInv, RemediatedEverywhere, Never
    <3>2. CASE CollectRisk
      <4>1. /\ risk' # NoRisk /\ risk'.at = instant
            /\ risk'.affected = (affectedSince # Never)
        BY <3>2 DEF CollectRisk, RefreshInv, NoRisk, Never
      <4>2. ~risk'.affected => affectedSince = Never
        BY <4>1, Zenon
      <4> QED
        BY <4>1, <4>2, <3>0, <3>2 DEF CollectRisk, RefreshInv, RemediatedEverywhere
    <3>3. CASE DecideRefresh
      BY <3>0, <3>3 DEF DecideRefresh, RefreshInv, RemediatedEverywhere
    <3>4. CASE RefreshTick
      BY <3>0, <3>4 DEF RefreshTick, RefreshInv, RemediatedEverywhere, Never
    <3>5. CASE EvaluateRefresh
      BY <3>5, EvaluatedRefresh DEF EvaluateRefresh, RefreshInv
    <3>6. ASSUME NEW missed, Collect(missed) PROVE RefreshInv'
      <4> DEFINE active == {e \in Environments : running[e] # "none"}
                 taken == [at |-> instant, scope |-> active,
                           seen |-> [e \in active \ missed |-> running[e]],
                           ran |-> IF firstInventory = NoInventory THEN <<>> ELSE running]
      <4>1. /\ taken # NoInventory /\ taken.at = instant
            /\ firstInventory # NoInventory =>
                 \A e \in DOMAIN taken.seen : taken.ran[e] = taken.seen[e]
        BY DEF RefreshInv, NoInventory, Never
      <4>2. IF firstInventory = NoInventory
            THEN firstInventory' = taken /\ UNCHANGED postInventory
            ELSE postInventory' = taken /\ UNCHANGED firstInventory
        BY <3>6 DEF Collect
      <4>3. UNCHANGED <<instant, running, affectedSince, risk, decided, candidate,
                        admitted, refresh>>
        BY <3>6 DEF Collect
      <4>4. RemediatedEverywhere'
        BY <4>3, <3>0 DEF RemediatedEverywhere
      <4> HIDE DEF taken
      <4>5. CASE firstInventory = NoInventory
        BY <4>1, <4>2, <4>3, <4>4, <4>5 DEF RefreshInv
      <4>6. CASE firstInventory # NoInventory
        BY <4>1, <4>2, <4>3, <4>4, <4>6 DEF RefreshInv
      <4> QED
        BY <4>5, <4>6
    <3>7. ASSUME NEW kind, Rebuild(kind) PROVE RefreshInv'
      BY <3>0, <3>7 DEF Rebuild, RefreshInv, RemediatedEverywhere
    <3>8. ASSUME NEW e, NEW digest, Rollout(e, digest) PROVE RefreshInv'
      BY <3>0, <3>8 DEF Rollout, RefreshInv, RemediatedEverywhere
    <3> QED
      BY <2>2, <3>1, <3>2, <3>3, <3>4, <3>5, <3>6, <3>7, <3>8 DEF RefreshNext
  <2> QED
    BY <2>1, <2>2
<1>3. RefreshInv => RemediatedEverywhere
  BY DEF RefreshInv
<1> QED
  BY <1>1, <1>2, <1>3, PTL DEF RefreshSpec
-----------------------------------------------------------------------------
(* Attack surface.                                                         *)

(* A complete snapshot names what the source could see when it looked.     *)
SnapshotSound(s) ==
    LET x == snapshots[s] IN
    x # NoSnapshot /\ x.complete =>
        /\ x.at \in Nat
        /\ s # "certificate-transparency" =>
             x.names = {n \in Hostnames : x.truth[n] # "absent"}
        /\ s = "certificate-transparency" => x.names \subseteq Hostnames

SurfaceInv ==
    /\ day \in Nat
    /\ snapshots = [s \in Sources |-> snapshots[s]]
    /\ certified \subseteq Hostnames
    /\ \A s \in Sources : SnapshotSound(s)
    /\ PassedSurfaceIsOwned

(* Without a finding every candidate is approved for what was seen of it.  *)
LEMMA NoFindings ==
    ASSUME NEW assets, NEW tickets, NEW now \in Nat, NEW n \in Candidates,
           SurfaceFindings(assets, tickets, now) = {}
    PROVE  /\ assets[n] # NoAsset
           /\ ~(assets[n].until <= now)
           /\ ~(CurrentlyExposed(n) /\ assets[n].use = "private")
           /\ assets[n].use # "private" => ServicesSeen(n) \subseteq {443}
           /\ assets[n].use = "delegated" => TargetsSeen(n) \ {"delegated"} = {}
<1> DEFINE whys(m) ==
      {w \in {"inventory-review-expired", "unexpected-public-exposure",
              "unexpected-public-service", "delegation-target-drift"} :
         \/ w = "inventory-review-expired" /\ assets[m].until <= now
         \/ /\ w = "unexpected-public-exposure"
            /\ CurrentlyExposed(m) /\ assets[m].use = "private"
         \/ /\ w = "unexpected-public-service"
            /\ assets[m].use # "private" /\ ~(ServicesSeen(m) \subseteq {443})
         \/ /\ w = "delegation-target-drift"
            /\ assets[m].use = "delegated" /\ TargetsSeen(m) \ {"delegated"} # {}}
    found(m) ==
      IF assets[m] = NoAsset
      THEN {<<m, IF tickets[m] = "none" THEN "NEW_UNATTRIBUTED"
                 ELSE IF tickets[m] = "remediated" THEN "REAPPEARED"
                 ELSE "UNATTRIBUTED">>}
      ELSE {<<m, why>> : why \in whys(m)}
<1>1. UNION {found(m) : m \in Candidates} = {}
  BY DEF SurfaceFindings
<1>2. found(n) = {}
  <2> HIDE DEF found
  <2> QED
    BY <1>1
<1>3. assets[n] # NoAsset
  BY <1>2
<1>4. whys(n) = {}
  <2> HIDE DEF whys
  <2> QED
    BY <1>2, <1>3
<1> QED
  BY <1>3, <1>4

(* Another service than HTTPS is seen where HTTPS is.                      *)
LEMMA OtherService ==
    ASSUME NEW n, "https-metadata" \in Signals(n),
           snapshots["https-metadata"].truth[n] = "other-port"
    PROVE  ~(ServicesSeen(n) \subseteq {443})
BY DEF ServicesSeen

(* A PASS over sound snapshots is about every name that they were of.      *)
LEMMA PassedSurface ==
    ASSUME SurfaceInv, NEW asOf \in 0..day, VerifySurface(asOf)
    PROVE  PassedSurfaceIsOwned'
<1>0. asOf \in Nat /\ MaxObservationAge \in Nat /\ MaxReviewDays \in Nat
  BY SurfaceAssumption DEF SurfaceInv
<1>1. PICK list \in AssetLists, tickets \in Tickets :
        surface' = [result |-> IF SurfaceFindings(list.assets, tickets, asOf) = {}
                               THEN "PASS" ELSE "REJECTED",
                    at |-> asOf, assets |-> list.assets]
  BY DEF VerifySurface
<1>2. snapshots' = snapshots
  BY DEF VerifySurface
<1>3. /\ surface'.at = asOf /\ surface'.assets = list.assets
      /\ surface'.result = "PASS" => SurfaceFindings(list.assets, tickets, asOf) = {}
  BY <1>1
<1>4. PICK assembled \in 0..asOf : ObservationsSound(assembled, asOf)
  BY DEF VerifySurface
<1>5. \A s \in Sources :
        /\ snapshots[s] # NoSnapshot /\ snapshots[s].complete
        /\ snapshots[s].at + MaxObservationAge >= asOf
  BY <1>4 DEF ObservationsSound, SourcesSound, Recent
<1>6. ASSUME NEW n \in Hostnames, list.assets[n] # NoAsset
      PROVE  list.assets[n].until \in Int
  <2>1. PICK t \in 0..day :
          list \in [at : {t}, complete : BOOLEAN, assets : [Hostnames -> Assets(t)]]
    BY DEF AssetLists
  <2>2. list.assets[n] \in Assets(t)
    BY <2>1
  <2>3. PICK u \in Uses, d \in {0, MaxReviewDays, MaxReviewDays + 1} :
          list.assets[n] = [use |-> u, reviewed |-> t, until |-> t + d]
    BY <2>2, <1>6 DEF Assets
  <2> QED
    BY <2>3, <1>0 DEF SurfaceInv
<1>7. ASSUME NEW n \in Hostnames, NEW s \in Sources \ {"certificate-transparency"}
      PROVE  n \in snapshots[s].names <=> snapshots[s].truth[n] # "absent"
  <2>1. SnapshotSound(s) /\ s # "certificate-transparency"
    BY <1>7 DEF SurfaceInv
  <2> QED
    BY <2>1, <1>5, <1>7 DEF SnapshotSound
<1> SUFFICES ASSUME surface'.result = "PASS", NEW n \in Hostnames
             PROVE  LET asset == list.assets[n]
                        Was(s) == snapshots[s].truth[n]
                        found == {s \in Sources \ {"certificate-transparency"} :
                                    Was(s) # "absent"}
                    IN /\ \A s \in Sources : snapshots[s].at + MaxObservationAge >= asOf
                       /\ found # {} \/ n \in snapshots["certificate-transparency"].names
                            => asset # NoAsset /\ asset.until > asOf
                       /\ found # {} => asset.use # "private"
                                        /\ Was("https-metadata") # "other-port"
                       /\ asset.use = "delegated" => Was("public-dns") # "drifted"
  BY <1>2, <1>3 DEF PassedSurfaceIsOwned
<1> DEFINE asset == list.assets[n]
           Was(s) == snapshots[s].truth[n]
           found == {s \in Sources \ {"certificate-transparency"} : Was(s) # "absent"}
<1>8. \A s \in Sources \ {"certificate-transparency"} : Was(s) # "absent" => s \in Signals(n)
  BY <1>7 DEF Signals
<1>9. found # {} \/ n \in snapshots["certificate-transparency"].names => n \in Candidates
  BY <1>8 DEF Candidates, Signals, Sources
<1>10. n \in Candidates =>
           /\ asset # NoAsset
           /\ ~(asset.until <= asOf)
           /\ ~(CurrentlyExposed(n) /\ asset.use = "private")
           /\ asset.use # "private" => ServicesSeen(n) \subseteq {443}
           /\ asset.use = "delegated" => TargetsSeen(n) \ {"delegated"} = {}
  BY <1>0, <1>3, NoFindings
<1>11. n \in Candidates => asset.until > asOf
  BY <1>0, <1>6, <1>10
<1>12. found # {} => CurrentlyExposed(n)
  BY <1>8 DEF CurrentlyExposed, Sources
<1>13. Was("https-metadata") = "other-port" =>
         ~(ServicesSeen(n) \subseteq {443}) /\ found # {}
  <2> SUFFICES ASSUME Was("https-metadata") = "other-port"
               PROVE  ~(ServicesSeen(n) \subseteq {443}) /\ found # {}
    OBVIOUS
  <2>1. "https-metadata" \in Sources \ {"certificate-transparency"}
    BY DEF Sources
  <2>2. "https-metadata" \in Signals(n) /\ "https-metadata" \in found
    BY <2>1, <1>8
  <2> QED
    BY <2>2, OtherService
<1>14. Was("public-dns") = "drifted" => "drifted" \in TargetsSeen(n) /\ found # {}
  BY <1>8 DEF TargetsSeen, Sources
<1> HIDE DEF asset, Was, found
<1>15. found # {} => asset.use # "private" /\ Was("https-metadata") # "other-port"
  BY <1>9, <1>10, <1>12, <1>13
<1>16. asset.use = "delegated" => Was("public-dns") # "drifted"
  BY <1>9, <1>10, <1>14
<1> QED
  BY <1>5, <1>9, <1>10, <1>11, <1>15, <1>16 DEF asset, Was, found

(* SurfacePassedIsOwned: a PASS of reconcile covers every name that a      *)
(* source really could find, for any names, ages and review periods,       *)
(* although the sources look at different times.                           *)
THEOREM SurfacePassedIsOwned == SurfaceSpec => []PassedSurfaceIsOwned
<1>1. SurfaceInit => SurfaceInv
  BY DEF SurfaceInit, SurfaceInv, PassedSurfaceIsOwned, SnapshotSound, NoSurface
<1>2. SurfaceInv /\ [SurfaceNext]_surfaceVars => SurfaceInv'
  <2> SUFFICES ASSUME SurfaceInv, [SurfaceNext]_surfaceVars PROVE SurfaceInv'
    OBVIOUS
  <2>1. CASE UNCHANGED surfaceVars
    BY <2>1 DEF surfaceVars, SurfaceInv, PassedSurfaceIsOwned, SnapshotSound
  <2>2. CASE SurfaceNext
    <3>0. surface.result # "PASS"
      BY <2>2 DEF SurfaceNext, NoSurface
    <3>1. CASE NextDay
      <4>1. \A s \in Sources : SnapshotSound(s)'
        BY <3>1 DEF NextDay, SurfaceInv, SnapshotSound
      <4> QED
        BY <4>1, <3>0, <3>1 DEF NextDay, SurfaceInv, PassedSurfaceIsOwned
    <3>2. ASSUME NEW n \in Hostnames, Certify(n) PROVE SurfaceInv'
      <4>1. \A s \in Sources : SnapshotSound(s)'
        BY <3>2 DEF Certify, SurfaceInv, SnapshotSound
      <4> QED
        BY <4>1, <3>0, <3>2 DEF Certify, SurfaceInv, PassedSurfaceIsOwned
    <3>3. ASSUME NEW n \in Hostnames, NEW what, Expose(n, what) PROVE SurfaceInv'
      <4>1. \A s \in Sources : SnapshotSound(s)'
        BY <3>3 DEF Expose, SurfaceInv, SnapshotSound
      <4> QED
        BY <4>1, <3>0, <3>3 DEF Expose, SurfaceInv, PassedSurfaceIsOwned
    <3>4. ASSUME NEW complete \in BOOLEAN, NEW s \in Sources, Observe(s, complete)
          PROVE  SurfaceInv'
      <4> DEFINE visible == IF s = "certificate-transparency" THEN certified
                            ELSE {n \in Hostnames : exposure[n] # "absent"}
                 new == [at |-> day, complete |-> complete,
                         names |-> IF complete THEN visible ELSE {},
                         truth |-> IF s = "certificate-transparency" THEN <<>>
                                   ELSE exposure]
      <4>1. snapshots' = [snapshots EXCEPT ![s] = new]
            /\ UNCHANGED <<day, exposure, changes, certified, surface>>
        BY <3>4 DEF Observe
      <4>2. /\ new.at \in Nat
            /\ new.complete /\ s # "certificate-transparency" =>
                 new.names = {n \in Hostnames : new.truth[n] # "absent"}
            /\ new.complete /\ s = "certificate-transparency" => new.names \subseteq Hostnames
        BY DEF SurfaceInv
      <4> HIDE DEF new
      <4>3. ASSUME NEW x \in Sources PROVE SnapshotSound(x)'
        <5>1. snapshots'[x] = IF x = s THEN new ELSE snapshots[x]
          BY <4>1 DEF SurfaceInv
        <5> QED
          BY <5>1, <4>2 DEF SurfaceInv, SnapshotSound
      <4>4. snapshots' = [x \in Sources |-> snapshots'[x]]
        BY <4>1 DEF SurfaceInv
      <4> QED
        BY <3>0, <4>1, <4>3, <4>4 DEF SurfaceInv, PassedSurfaceIsOwned
    <3>5. ASSUME NEW asOf \in 0..day, VerifySurface(asOf) PROVE SurfaceInv'
      <4>1. PassedSurfaceIsOwned'
        BY <3>5, PassedSurface
      <4> QED
        BY <4>1, <3>5 DEF VerifySurface, SurfaceInv, SnapshotSound
    <3> QED
      BY <2>2, <3>1, <3>2, <3>3, <3>4, <3>5 DEF SurfaceNext
  <2> QED
    BY <2>1, <2>2
<1>3. SurfaceInv => PassedSurfaceIsOwned
  BY DEF SurfaceInv
<1> QED
  BY <1>1, <1>2, <1>3, PTL DEF SurfaceSpec
-----------------------------------------------------------------------------
(* Credential exposure.                                                    *)

CredentialTypes ==
    /\ hour \in Nat /\ old \in BOOLEAN /\ derived \in BOOLEAN
    /\ grant \in [at : Int, ttl : Int]
    /\ \E S : operationReceipts \in Seq(S)

DisabledAt(log, j) == log[j].action \in Disabling /\ log[j].ok
InvalidatedAt(log, i) == log[i].action \in Invalidating /\ log[i].ok

(* The probe told the truth, the old authority did not die by itself, and  *)
(* what was derived after an invalidation is dead or was derived before    *)
(* the old authority died.                                                 *)
AuthorityByReceipts ==
    /\ probe = "DENIED" => ~old
    /\ ~old => \E j \in 1..Len(operationReceipts) : DisabledAt(operationReceipts, j)
    /\ \A i \in 1..Len(operationReceipts) :
          derived /\ ~old /\ InvalidatedAt(operationReceipts, i) =>
              \E j \in 1..Len(operationReceipts) : i < j /\ DisabledAt(operationReceipts, j)

CredentialInv == CredentialTypes /\ AuthorityByReceipts /\ ReadyIsContained

(* A receipt comes at the end of those that there are.                     *)
LEMMA ReceiptAtEnd ==
    ASSUME CredentialTypes, NEW action, NEW ok,
           operationReceipts' = Append(operationReceipts, Receipt(action, ok))
    PROVE  /\ \E S : operationReceipts' \in Seq(S)
           /\ Len(operationReceipts) \in Nat
           /\ Len(operationReceipts') = Len(operationReceipts) + 1
           /\ \A i \in 1..Len(operationReceipts) : operationReceipts'[i] = operationReceipts[i]
           /\ operationReceipts'[Len(operationReceipts')].action = action
           /\ operationReceipts'[Len(operationReceipts')].ok = ok
<1> DEFINE e == Receipt(action, ok)
<1>1. PICK S : operationReceipts \in Seq(S)
  BY DEF CredentialTypes
<1>2. operationReceipts \in Seq(S \cup {e}) /\ e \in S \cup {e}
  BY <1>1
<1>3. e.action = action /\ e.ok = ok
  BY DEF Receipt
<1> HIDE DEF e
<1>4. operationReceipts' = Append(operationReceipts, e)
  BY DEF e
<1>5. /\ operationReceipts' \in Seq(S \cup {e})
      /\ Len(operationReceipts) \in Nat
      /\ Len(operationReceipts') = Len(operationReceipts) + 1
      /\ \A i \in 1..Len(operationReceipts) : operationReceipts'[i] = operationReceipts[i]
      /\ operationReceipts'[Len(operationReceipts')] = e
  BY <1>2, <1>4
<1> QED
  BY <1>3, <1>5

(* What the receipts say of the authority stays true with one receipt more. *)
LEMMA AuthorityKept ==
    ASSUME CredentialTypes, AuthorityByReceipts, NEW action, NEW ok \in BOOLEAN,
           operationReceipts' = Append(operationReceipts, Receipt(action, ok)),
           old' = (old /\ ~(ok /\ action \in Disabling)),
           derived' = (derived /\ ~(ok /\ action \in Invalidating)),
           UNCHANGED <<hour, grant, probe>>
    PROVE  CredentialTypes' /\ AuthorityByReceipts'
<1> DEFINE n == Len(operationReceipts)  m == Len(operationReceipts')
<1>1. /\ \E S : operationReceipts' \in Seq(S)
      /\ n \in Nat /\ m = n + 1
      /\ \A i \in 1..n : operationReceipts'[i] = operationReceipts[i]
      /\ operationReceipts'[m].action = action /\ operationReceipts'[m].ok = ok
  BY ReceiptAtEnd
<1>2. CredentialTypes'
  BY <1>1 DEF CredentialTypes
<1>3. /\ DisabledAt(operationReceipts', m) <=> (ok /\ action \in Disabling)
      /\ InvalidatedAt(operationReceipts', m) <=> (ok /\ action \in Invalidating)
  BY <1>1 DEF DisabledAt, InvalidatedAt
<1>4. m \in 1..m /\ \A i \in 1..m : i = m \/ (i \in 1..n /\ i < m)
  BY <1>1
<1>5. \A i \in 1..n : i \in 1..m
  BY <1>1
<1>6. (probe = "DENIED" => ~old)'
  BY DEF AuthorityByReceipts
<1>7. (~old)' => \E j \in 1..m : DisabledAt(operationReceipts', j)
  <2> SUFFICES ASSUME (~old)' PROVE \E j \in 1..m : DisabledAt(operationReceipts', j)
    OBVIOUS
  <2>1. CASE ~old
    <3>1. PICK j \in 1..n : DisabledAt(operationReceipts, j)
      BY <2>1 DEF AuthorityByReceipts
    <3> QED
      BY <3>1, <1>1, <1>5 DEF DisabledAt
  <2>2. CASE ok /\ action \in Disabling
    BY <2>2, <1>3, <1>4
  <2> QED
    BY <2>1, <2>2 DEF CredentialTypes
<1>8. ASSUME NEW i \in 1..m, derived', (~old)', InvalidatedAt(operationReceipts', i)
      PROVE  \E j \in 1..m : i < j /\ DisabledAt(operationReceipts', j)
  <2>1. i \in 1..n /\ i < m /\ InvalidatedAt(operationReceipts, i)
    <3>1. i \in 1..n /\ i < m
      BY <1>3, <1>4, <1>8 DEF CredentialTypes, InvalidatedAt
    <3> QED
      BY <3>1, <1>1, <1>8 DEF InvalidatedAt
  <2>2. CASE ~old
    <3>1. PICK j \in 1..n : i < j /\ DisabledAt(operationReceipts, j)
      BY <1>8, <2>1, <2>2 DEF AuthorityByReceipts
    <3> QED
      BY <3>1, <1>1, <1>5 DEF DisabledAt
  <2>3. CASE ok /\ action \in Disabling
    BY <2>1, <2>3, <1>3, <1>4
  <2> QED
    BY <1>8, <2>2, <2>3 DEF CredentialTypes
<1>9. AuthorityByReceipts'
  BY <1>6, <1>7, <1>8 DEF AuthorityByReceipts
<1> QED
  BY <1>2, <1>9

(* READY needs every required action to have succeeded, within the          *)
(* authorization, and a probe that was denied.                              *)
LEMMA ReadyVerdict ==
    ASSUME CredentialInv, AssessIncident
    PROVE  ReadyIsContained'
<1> SUFFICES ASSUME closure' = "READY" PROVE ReadyIsContained'
  BY DEF ReadyIsContained
<1>0. MaxAuthorization \in Nat
  BY CredentialAssumption
<1>1. PICK x \in IncidentForms, f \in Frames, closed \in 0..hour :
         ClosureVerdict(x, f, closed) = "READY"
  BY DEF AssessIncident
<1>2. CaseEvaluable(f, closed) /\ ClosureReady(f)
  BY <1>1 DEF ClosureVerdict
<1>3. /\ ReceiptsInTime /\ \A i \in DOMAIN operationReceipts : operationReceipts[i].ok
      /\ grant.ttl <= MaxAuthorization
      /\ ActionsPresent /\ probe = "DENIED"
  BY <1>2 DEF CaseEvaluable, ClosureReady, OperationReceipts, AuthorizationBounded
<1>4. UNCHANGED <<hour, credentialClass, old, derived, grant, operationReceipts>>
  BY DEF AssessIncident
<1>5. DOMAIN operationReceipts = 1..Len(operationReceipts)
  BY DEF CredentialInv, CredentialTypes
<1>6. ~old
  BY <1>3 DEF CredentialInv, AuthorityByReceipts
<1>7. PICK j \in DOMAIN operationReceipts : DisabledAt(operationReceipts, j)
  BY <1>5, <1>6 DEF CredentialInv, AuthorityByReceipts
<1>8. \E action \in Disabling : Succeeded(action)
  BY <1>7 DEF DisabledAt, Succeeded
<1>9. ASSUME derived, credentialClass \in {"reusable-bearer", "ssh-key"}
      PROVE  Precedes(Invalidating, Disabling)
  <2>1. "invalidate-dependent-authority" \in RequiredActions(credentialClass)
    BY <1>9 DEF RequiredActions
  <2>2. PICK i \in DOMAIN operationReceipts :
           operationReceipts[i].action = "invalidate-dependent-authority"
    BY <2>1, <1>3 DEF ActionsPresent, Called
  <2>3. InvalidatedAt(operationReceipts, i)
    BY <2>2, <1>3 DEF InvalidatedAt, Invalidating
  <2>4. \E k \in DOMAIN operationReceipts : i < k /\ DisabledAt(operationReceipts, k)
    BY <1>5, <1>6, <1>9, <2>2, <2>3 DEF CredentialInv, AuthorityByReceipts
  <2> QED
    BY <2>2, <2>3, <2>4 DEF Precedes, DisabledAt, InvalidatedAt
<1>10. ASSUME NEW i \in DOMAIN operationReceipts
       PROVE  operationReceipts[i].at \in grant.at..grant.at + MaxAuthorization
  <2>1. grant.at \in Int /\ grant.ttl \in Int
    BY DEF CredentialInv, CredentialTypes
  <2>2. operationReceipts[i].at \in grant.at..grant.at + grant.ttl
    BY <1>3, <1>10 DEF ReceiptsInTime
  <2> QED
    BY <2>1, <2>2, <1>0, <1>3
<1>11. /\ ~old /\ \E action \in Disabling : Succeeded(action)
       /\ derived /\ credentialClass \in {"reusable-bearer", "ssh-key"} =>
             Precedes(Invalidating, Disabling)
       /\ \A i \in DOMAIN operationReceipts :
             operationReceipts[i].at \in grant.at..grant.at + MaxAuthorization
  BY <1>6, <1>8, <1>9, <1>10
<1> QED
  BY <1>4, <1>11 DEF ReadyIsContained, Succeeded, Precedes

(* CredentialReadyIsContained: READY is said only of dead credentials that  *)
(* were killed within one authorization, and, of a token or an SSH key,     *)
(* with no session alive that was derived before both operations or after   *)
(* them, for any limits and number of departures from the steps.            *)
THEOREM CredentialReadyIsContained == CredentialSpec => []ReadyIsContained
<1>1. CredentialInit => CredentialInv
  <2> SUFFICES ASSUME CredentialInit PROVE CredentialInv
    OBVIOUS
  <2>1. operationReceipts \in Seq({}) /\ Len(operationReceipts) = 0
    BY DEF CredentialInit
  <2>2. CredentialTypes
    <3>1. grant \in [at : Int, ttl : Int]
      BY DEF CredentialInit, NoGrant
    <3>2. \E S : operationReceipts \in Seq(S)
      BY <2>1
    <3> QED
      BY <3>1, <3>2 DEF CredentialInit, CredentialTypes
  <2>3. AuthorityByReceipts
    BY <2>1 DEF CredentialInit, AuthorityByReceipts
  <2> QED
    BY <2>2, <2>3 DEF CredentialInit, CredentialInv, ReadyIsContained
<1>2. CredentialInv /\ [CredentialNext]_credentialVars => CredentialInv'
  <2> SUFFICES ASSUME CredentialInv, [CredentialNext]_credentialVars PROVE CredentialInv'
    OBVIOUS
  <2>1. CASE UNCHANGED credentialVars
    BY <2>1 DEF credentialVars, CredentialInv, CredentialTypes, AuthorityByReceipts,
                DisabledAt, InvalidatedAt, ReadyIsContained, Succeeded, Precedes
  <2>2. CASE CredentialNext
    <3>0. closure # "READY" /\ CredentialTypes /\ AuthorityByReceipts
      BY <2>2 DEF CredentialNext, CredentialInv
    <3>1. CASE Derive
      BY <3>0, <3>1 DEF Derive, CredentialInv, CredentialTypes, AuthorityByReceipts,
                        DisabledAt, InvalidatedAt, ReadyIsContained
    <3>2. CASE ProbeOld
      BY <3>0, <3>2 DEF ProbeOld, CredentialInv, CredentialTypes, AuthorityByReceipts,
                        DisabledAt, InvalidatedAt, ReadyIsContained
    <3>3. CASE AssessIncident
      <4>1. ReadyIsContained'
        BY <3>3, ReadyVerdict
      <4> QED
        BY <4>1, <3>0, <3>3 DEF AssessIncident, CredentialInv, CredentialTypes,
             AuthorityByReceipts, DisabledAt, InvalidatedAt
    <3>4. CASE ResponseTick
      BY <3>0, <3>4 DEF ResponseTick, CredentialInv, CredentialTypes, AuthorityByReceipts,
                        DisabledAt, InvalidatedAt, ReadyIsContained
    <3>5. ASSUME NEW ttl \in 0..MaxAuthorization + 1, AuthorizeResponse(ttl)
          PROVE  CredentialInv'
      <4>1. ttl \in Int
        BY CredentialAssumption
      <4>2. /\ grant' = [at |-> hour, ttl |-> ttl]
            /\ UNCHANGED <<hour, old, derived, operationReceipts, probe, closure>>
        BY <3>5 DEF AuthorizeResponse
      <4>3. grant' \in [at : Int, ttl : Int]
        BY <3>0, <4>1, <4>2 DEF CredentialTypes
      <4> QED
        BY <3>0, <4>2, <4>3 DEF CredentialInv, CredentialTypes, AuthorityByReceipts,
             DisabledAt, InvalidatedAt, ReadyIsContained
    <3>6. ASSUME NEW action, Call(action) PROVE CredentialInv'
      <4>1. CredentialTypes' /\ AuthorityByReceipts'
        BY <3>0, <3>6, AuthorityKept DEF Call
      <4> QED
        BY <3>0, <3>6, <4>1 DEF Call, CredentialInv, ReadyIsContained
    <3>7. ASSUME NEW action, CallFails(action) PROVE CredentialInv'
      <4>1. old \in BOOLEAN /\ derived \in BOOLEAN
        BY <3>0 DEF CredentialTypes
      <4>2. CredentialTypes' /\ AuthorityByReceipts'
        BY <3>0, <3>7, <4>1, AuthorityKept DEF CallFails
      <4> QED
        BY <3>0, <3>7, <4>2 DEF CallFails, CredentialInv, ReadyIsContained
    <3> QED
      BY <2>2, <3>1, <3>2, <3>3, <3>4, <3>5, <3>6, <3>7 DEF CredentialNext
  <2> QED
    BY <2>1, <2>2
<1>3. CredentialInv => ReadyIsContained
  BY DEF CredentialInv
<1> QED
  BY <1>1, <1>2, <1>3, PTL DEF CredentialSpec
=============================================================================
