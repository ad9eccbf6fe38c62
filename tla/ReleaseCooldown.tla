--------------------------- MODULE ReleaseCooldown ---------------------------
(***************************************************************************)
(* The cooldown of new releases: versions appear in a registry, a developer *)
(* asks the npm age check and writes them to the lockfile, emergency        *)
(* exceptions are filed and expire, and the verifier accepts a lockfile     *)
(* (release-cooldown/scripts/verify.py, check_npm_release_age.py).  What    *)
(* it accepts is installed, directly or through a package manager with an   *)
(* age gate of its own.  An hour is two ticks of the clock.                 *)
(***************************************************************************)
EXTENDS Integers, FiniteSets, Documents

CONSTANTS
    Versions,
    MinimumHours,       \* minimum_release_age_hours, the reference minimum
    MaxExceptionHours,  \* REFERENCE_MAX_EXCEPTION_HOURS
    MaxCooldownTime,    \* bound: the clock stops here
    MaxExceptions       \* bound: exceptions filed

ASSUME CooldownAssumption ==
    {MinimumHours, MaxExceptionHours, MaxCooldownTime, MaxExceptions} \subseteq Nat

TicksPerHour == 2
None == -1

VARIABLES
    tick,
    released,    \* version -> when the registry published it, or None
    metadata,    \* the snapshot of it that the verifier is given
    lock,        \* version -> "absent" or how its lockfile entry is
    exceptions,  \* the exceptions in the policy file
    filed,       \* how many have been filed
    installed    \* the latest installation: [version, at, under]

cooldownVars == <<tick, released, metadata, lock, exceptions, filed, installed>>

(* "mismatched": another registry, integrity or artifact                   *)
EntryStates == {"sound", "mismatched"}

CooldownInit ==
    /\ tick = 0
    /\ released = [v \in Versions |-> None] /\ metadata = released
    /\ lock = [v \in Versions |-> "absent"]
    /\ exceptions = {} /\ filed = 0
    /\ installed = {}

Publish(v) ==
    /\ released[v] = None
    /\ released' = [released EXCEPT ![v] = tick]
    /\ UNCHANGED <<tick, metadata, lock, exceptions, filed, installed>>

FetchMetadata ==
    /\ metadata' = released
    /\ UNCHANGED <<tick, released, lock, exceptions, filed, installed>>

FileException(v, created, hours, same) ==
    /\ filed < MaxExceptions
    /\ exceptions' = exceptions \cup
         {[version |-> v, created |-> created, same |-> same,
           expires |-> created + hours * TicksPerHour]}
    /\ filed' = filed + 1
    /\ UNCHANGED <<tick, released, metadata, lock, installed>>

RemoveException(e) ==
    /\ exceptions' = exceptions \ {e}
    /\ UNCHANGED <<tick, released, metadata, lock, filed, installed>>

Relock(v, entry) ==
    /\ released[v] # None
    /\ lock' = [lock EXCEPT ![v] = entry]
    /\ UNCHANGED <<tick, released, metadata, exceptions, filed, installed>>

-----------------------------------------------------------------------------
(* load_json, parse_timestamp, validate_registry_url, validate_proxy_endpoint, *)
(* validate_exact_identifier: an ERROR otherwise                           *)
LockForms == Forms({"object", "times", "identities"})
LockInputsReadable(x) ==
    /\ x.object /\ x.times = "with a timezone"
    /\ x.identities = "exact"

(* load_policy: the limits that the caller set are compared with the        *)
(* reference limits; of the two the stricter is used                       *)
LockPolicies == OneOff(
    [minimum |-> MinimumHours, maximum |-> MaxExceptionHours, integrity |-> TRUE],
    [minimum |-> MinimumHours - 1, maximum |-> MaxExceptionHours + 1, integrity |-> FALSE])
PolicyFindings(p) ==
    p.minimum < MinimumHours \/ p.maximum > MaxExceptionHours \/ ~p.integrity

ExceptionMalformed(e) ==
    \/ e.expires <= e.created
    \/ \E f \in exceptions : f # e /\ f.version = e.version

ExceptionFindings(e) ==
    \/ e.expires - e.created > MaxExceptionHours * TicksPerHour
    \/ e.same          \* owner and approver must differ
    \/ tick < e.created

(* plausible mistake: a started hour counts                                *)
StartedHours(v) == (tick - metadata[v] + TicksPerHour - 1) \div TicksPerHour

AgeHours(v) == (tick - metadata[v]) \div TicksPerHour

Active(e, v) == e.version = v /\ e.created <= tick /\ tick < e.expires

Locked == {v \in Versions : lock[v] # "absent"}
Young == {v \in Locked : AgeHours(v) < MinimumHours}

DependencyFindings(v) ==
    \/ lock[v] # "sound"
    \/ v \in Young /\ ~\E e \in exceptions : Active(e, v)

Unused(e) == ~\E v \in Young : Active(e, v)

(* verify                                                                  *)
Unverifiable ==
    \/ Locked = {}
    \/ \E e \in exceptions : ExceptionMalformed(e)
    \/ \E v \in Locked : metadata[v] = None

Rejected(p) ==
    \/ PolicyFindings(p)
    \/ \E e \in exceptions : ExceptionFindings(e) \/ Unused(e)
    \/ \E v \in Locked : DependencyFindings(v)

Install(v) == [version |-> v, at |-> tick,
               under |-> {e \in exceptions : e.version = v}]

-----------------------------------------------------------------------------
(* The clients' own age gates.  npm counts in days and pnpm in minutes, the *)
(* others take hours, days or weeks; half hours stand for minutes here.     *)
(* The last four fields say how a client may take a version all the same.   *)
Setting(ecosystem, n) ==
    [ecosystem |-> ecosystem, n |-> n, excludes |-> FALSE,
     ignoresMissing |-> FALSE, strict |-> TRUE, trustsLockfile |-> FALSE]
Settings == UNION {OneOff(Setting(ecosystem, n),
    [Setting("pip", MinimumHours - 1) EXCEPT !.excludes = TRUE, !.ignoresMissing = TRUE,
                                  !.strict = FALSE, !.trustsLockfile = TRUE])
    : ecosystem \in {"npm", "pnpm"}, n \in MinimumHours..MaxCooldownTime}

(* parse_duration_hours and its like: whole hours                          *)
ConfiguredHours(s) == IF s.ecosystem = "pnpm" THEN s.n \div TicksPerHour ELSE s.n

(* validate_native_client_config                                           *)
NativeConfigSafe(s) ==
    /\ ConfiguredHours(s) >= MinimumHours
    /\ ~s.excludes
    /\ s.ecosystem = "pnpm" => ~s.ignoresMissing /\ s.strict /\ ~s.trustsLockfile

(* The client with that file takes a version when its gate is over, or has *)
(* a way around it.                                                        *)
ClientTakes(s, v) ==
    \/ tick - released[v] >= (IF s.ecosystem = "pnpm" THEN s.n ELSE s.n * TicksPerHour)
    \/ s.excludes
    \/ s.ecosystem = "pnpm" /\ (s.ignoresMissing \/ ~s.strict \/ s.trustsLockfile)

(* validate_native_cooldown_policy: what must hold beside the clients      *)
NativePolicies == OneOff(
    [baseline |-> MinimumHours, decision |-> "pre-resolution verifier",
     metadataMissing |-> "ERROR", scope |-> "repository", globalMutation |-> FALSE,
     bypass |-> "prohibited", onVerifier |-> {"go", "composer"}],
    [baseline |-> MinimumHours - 1, decision |-> "client", metadataMissing |-> "OK",
     scope |-> "user", globalMutation |-> TRUE, bypass |-> "permitted",
     onVerifier |-> {"go"}])
NativePolicySafe(n, p) ==
    /\ n.baseline = p.minimum /\ n.baseline >= MinimumHours
    /\ n.decision = "pre-resolution verifier" /\ n.metadataMissing = "ERROR"
    /\ n.scope = "repository" /\ ~n.globalMutation
    /\ n.bypass = "prohibited" /\ n.onVerifier = {"go", "composer"}

(* validate_client_config: what a client's file says beside the endpoint   *)
ProxiedClients == {"npm", "pip", "go", "composer"}
ProxiedConfigSafe(c) == c.index = "exact endpoint" /\ ~c.fallback

(* validate_proxy_policy                                                   *)
ProxyPolicies == OneOff(
    [mode |-> "managed", distribution |-> "mdm", egress |-> "denied",
     fallback |-> "denied", outage |-> "ERROR", credentials |-> "keychain",
     publish |-> "separate", enforcement |-> "pre-resolution verifier",
     minimum |-> MinimumHours, claim |-> "not relied upon",
     capabilities |-> {"blocking", "tracking", "notification"},
     client |-> [index |-> "exact endpoint", fallback |-> FALSE],
     clients |-> ProxiedClients, registriesRouted |-> TRUE, canary |-> "harmless"],
    [mode |-> "optional", distribution |-> "user", egress |-> "allowed",
     fallback |-> "direct", outage |-> "OK", credentials |-> "file",
     publish |-> "shared", enforcement |-> "proxy", minimum |-> MinimumHours - 1,
     claim |-> "relied upon", capabilities |-> {"blocking"},
     client |-> [index |-> "exact endpoint", fallback |-> TRUE],
     clients |-> ProxiedClients \ {"go"}, registriesRouted |-> FALSE,
     canary |-> "malware"])
ProxyPolicySafe(x, p) ==
    /\ x.mode = "managed" /\ x.distribution = "mdm"
    /\ x.egress = "denied" /\ x.fallback = "denied" /\ x.outage = "ERROR"
    /\ x.credentials = "keychain" /\ x.publish = "separate"
    /\ x.enforcement = "pre-resolution verifier" /\ x.claim = "not relied upon"
    /\ x.minimum = p.minimum
    /\ x.capabilities = {"blocking", "tracking", "notification"}
    /\ x.clients = ProxiedClients /\ ProxiedConfigSafe(x.client)
    /\ x.registriesRouted /\ x.canary = "harmless"

(* verify: with a verdict other than ACCEPTED nothing is installed          *)
VerifyLock(p) ==
    /\ \E x \in LockForms : LockInputsReadable(x)
    /\ ~Unverifiable /\ ~Rejected(p)
    /\ \E n \in NativePolicies : NativePolicySafe(n, p)
    /\ \E s \in Settings : NativeConfigSafe(s)
    /\ \E x \in ProxyPolicies : ProxyPolicySafe(x, p)
    /\ installed' = {Install(v) : v \in Locked}
    /\ UNCHANGED <<tick, released, metadata, lock, exceptions, filed>>

(* The client resolves on its own, with a file that passes                 *)
NativeInstall(v, s) ==
    /\ released[v] # None
    /\ NativeConfigSafe(s) /\ ClientTakes(s, v)
    /\ installed' = {[Install(v) EXCEPT !.under = {}]}
    /\ UNCHANGED <<tick, released, metadata, lock, exceptions, filed>>

(* check_npm_release_age.py: configured in days, judged in seconds; what it *)
(* accepts is written to the lockfile                                      *)
NpmConfigs == OneOff(
    [registry |-> "official", hours |-> MinimumHours, excludes |-> FALSE,
     before |-> FALSE, saveExact |-> TRUE, packageLock |-> TRUE, credentials |-> FALSE],
    [registry |-> "other", hours |-> MinimumHours - 1, excludes |-> TRUE,
     before |-> TRUE, saveExact |-> FALSE, packageLock |-> FALSE, credentials |-> TRUE])
NpmConfigSafe(c) ==
    /\ c.registry = "official" /\ c.hours >= MinimumHours
    /\ ~c.excludes /\ ~c.before /\ c.saveExact /\ c.packageLock /\ ~c.credentials

CheckNpmAge(v, c) ==
    /\ released[v] # None
    /\ NpmConfigSafe(c)
    /\ tick - released[v] >= c.hours * TicksPerHour
    /\ lock' = [lock EXCEPT ![v] = "sound"]
    /\ UNCHANGED <<tick, released, metadata, exceptions, filed, installed>>

CooldownTick ==
    /\ tick < MaxCooldownTime
    /\ tick' = tick + 1
    /\ UNCHANGED <<released, metadata, lock, exceptions, filed, installed>>

CooldownStep ==
    \/ \E v \in Versions : Publish(v)
    \/ FetchMetadata \/ CooldownTick
    \/ \E v \in Versions, created \in {tick - 1, tick, tick + 1},
          hours \in 0..MaxExceptionHours + 1, same \in BOOLEAN :
            FileException(v, created, hours, same)
    \/ \E e \in exceptions : RemoveException(e)
    \/ \E v \in Versions, entry \in EntryStates \cup {"absent"} : Relock(v, entry)
    \/ \E p \in LockPolicies : VerifyLock(p)
    \/ \E v \in Versions, s \in Settings : NativeInstall(v, s)
    \/ \E v \in Versions, c \in NpmConfigs : CheckNpmAge(v, c)

(* Bound: a behaviour ends with its installation.                          *)
CooldownNext == installed = {} /\ CooldownStep

CooldownSpec == CooldownInit /\ [][CooldownNext]_cooldownVars
-----------------------------------------------------------------------------
(* InstalledIsAged: what was installed had been public for the minimum     *)
(* time to the minute, whoever gated it and in whatever unit, or else      *)
(* an exception for exactly that version covered the moment, was no longer *)
(* than the reference maximum and was approved by a second person.         *)
InstalledIsAged ==
    \A i \in installed :
        \/ released[i.version] + MinimumHours * TicksPerHour <= i.at
        \/ \E e \in i.under :
              /\ ~e.same
              /\ e.created <= i.at /\ i.at < e.expires
              /\ e.expires - e.created <= MaxExceptionHours * TicksPerHour
=============================================================================
