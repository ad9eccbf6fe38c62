--------------------------- MODULE NetworkBoundary ---------------------------
(***************************************************************************)
(* Egress through the managed gateway: a request is resolved, connected    *)
(* and, later, judged by its evidence (verify-network-boundary.py), while  *)
(* the answers of DNS change.  The gateway may do anything: the verifier   *)
(* must notice.  One destination is allowed.                               *)
(***************************************************************************)
EXTENDS Integers, FiniteSets, Documents

CONSTANTS
    MaxDnsAge,      \* dns.maximum_age_seconds
    MaxEgressTime   \* bound: the clock stops here

ASSUME EgressAssumption == MaxDnsAge \in Nat \ {0} /\ MaxEgressTime \in Nat

Addresses == {"public", "other-public", "internal"}  \* private or metadata service
Hosts == {"allowed", "other"}

VARIABLES
    second,
    dns,        \* host -> the addresses that DNS gives for it now
    resolution, \* the resolver evidence, or NoResolution
    connection, \* where the gateway connected, or NoConnection
    passed      \* the verdict, or NoEgress

egressVars == <<second, dns, resolution, connection, passed>>

NoResolution == [at |-> -1]
NoConnection == [to |-> "none"]
NoEgress == [verdict |-> "none"]

(* What a request is beside its host, and the ways out of the boundary     *)
EgressRequest ==
    [profile |-> "destination-specific", scheme |-> "https", port |-> 443,
     path |-> "below-prefix", credentials |-> FALSE, query |-> FALSE,
     literal |-> FALSE, proxy |-> FALSE, socks |-> FALSE, localBind |-> FALSE,
     socket |-> FALSE]
EgressRequests == OneOff(EgressRequest,
    [profile |-> "broad", scheme |-> "http", port |-> 8443, path |-> "with-dot-segments",
     credentials |-> TRUE, query |-> TRUE, literal |-> TRUE, proxy |-> TRUE,
     socks |-> TRUE, localBind |-> TRUE, socket |-> TRUE])

EgressInit ==
    /\ second = 0
    /\ dns \in [Hosts -> {{"public"}}]
    /\ resolution = NoResolution /\ connection = NoConnection /\ passed = NoEgress

(* Bound: the host that is not allowed has one address at a time.          *)
Answerable(h) ==
    IF h = "allowed" THEN SUBSET Addresses \ {{}} ELSE {{"public"}, {"internal"}}

DnsChanges(h, answer) ==
    /\ connection = NoConnection    \* later answers reach nobody
    /\ dns' = [dns EXCEPT ![h] = answer]
    /\ UNCHANGED <<second, resolution, connection, passed>>

(* A resolver that is not complete has seen one of the addresses only.     *)
ResolveHost(h, complete) ==
    /\ connection = NoConnection
    /\ \E some \in dns[h] :
         resolution' = [host |-> h, complete |-> complete, at |-> second,
                        addresses |-> IF complete THEN dns[h] ELSE {some},
                        truth |-> dns[h]]   \* history
    /\ UNCHANGED <<second, dns, connection, passed>>

(* The transport is bound to an address of the resolution, or the client   *)
(* resolves again.                                                         *)
Connect(h, request, bound) ==
    /\ resolution # NoResolution /\ connection = NoConnection
    /\ \E a \in IF bound THEN resolution.addresses ELSE dns[h] :
         connection' = [to |-> a, host |-> h, request |-> request, bound |-> bound]
    /\ UNCHANGED <<second, dns, resolution, passed>>

EgressTick ==
    /\ second < MaxEgressTime /\ second' = second + 1
    /\ UNCHANGED <<dns, resolution, connection, passed>>

-----------------------------------------------------------------------------
(* require_policy: a policy that opens the boundary is an ERROR            *)
BoundaryPolicies == OneOff(
    [network |-> "deny", point |-> "managed-egress-gateway", managed |-> TRUE,
     schemes |-> {"https"}, wildcards |-> FALSE, literals |-> FALSE, escapes |-> {},
     destinations |-> {"allowed"}, ports |-> {443}, maximumAge |-> MaxDnsAge,
     dns |-> {"complete", "all global", "connected in resolution", "bound"}],
    [network |-> "allow", point |-> "client", managed |-> FALSE,
     schemes |-> {"http", "https"}, wildcards |-> TRUE, literals |-> TRUE,
     escapes |-> {"proxy"}, destinations |-> {}, ports |-> {80, 443}, maximumAge |-> 0,
     dns |-> {"complete", "all global"}])

BoundaryPolicyAccepted(p) ==
    /\ p.network = "deny" /\ p.point = "managed-egress-gateway" /\ p.managed
    /\ p.schemes = {"https"} /\ ~p.wildcards /\ ~p.literals /\ p.escapes = {}
    /\ p.destinations # {} /\ p.ports = {443}
    /\ {"complete", "all global", "connected in resolution", "bound"} \subseteq p.dns
    /\ p.maximumAge >= 1

(* parsed_url, route_is_allowed                                            *)
RouteIsAllowed(c, p) ==
    LET r == c.request IN
    /\ c.host \in p.destinations /\ r.port \in p.ports /\ r.path = "below-prefix"
    /\ r.profile = "destination-specific" /\ r.scheme = "https"
    /\ ~r.credentials /\ ~r.query /\ ~r.literal
    /\ ~r.proxy /\ ~r.socks /\ ~r.localBind /\ ~r.socket

PublicUnicast(a) == a \in {"public", "other-public"}

(* plausible mistake: the addresses are checked and not the binding        *)
AddressIsPublic(c, p) ==
    /\ resolution.host = c.host
    /\ second - resolution.at \in 0..p.maximumAge
    /\ \A a \in resolution.addresses : PublicUnicast(a)

(* address_is_allowed; an incomplete resolution is an ERROR                *)
AddressIsAllowed(c, p) ==
    /\ resolution.host = c.host
    /\ second - resolution.at \in 0..p.maximumAge
    /\ \A a \in resolution.addresses : PublicUnicast(a)
    /\ PublicUnicast(c.to) /\ c.to \in resolution.addresses
    /\ c.bound

EvaluateEgress ==
    \E p \in BoundaryPolicies, gateway \in BOOLEAN :
        /\ connection # NoConnection
        /\ BoundaryPolicyAccepted(p) /\ gateway /\ resolution.complete
        /\ passed' = [verdict |-> IF RouteIsAllowed(connection, p)
                                     /\ AddressIsAllowed(connection, p)
                                  THEN "PASS" ELSE "FAIL",
                      at |-> second]
        /\ UNCHANGED <<second, dns, resolution, connection>>

EgressNext ==
    /\ passed = NoEgress
    /\ \/ \E h \in Hosts : \E answer \in Answerable(h) : DnsChanges(h, answer)
       \/ \E h \in Hosts, complete \in BOOLEAN : ResolveHost(h, complete)
       \/ \E h \in Hosts, r \in EgressRequests, bound \in BOOLEAN : Connect(h, r, bound)
       \/ EvaluateEgress \/ EgressTick

EgressSpec == EgressInit /\ [][EgressNext]_egressVars
-----------------------------------------------------------------------------
(* PassedEgressIsBound: evidence that passes means that the gateway        *)
(* connected, by a request without a way around it, to an address that DNS *)
(* gave for the allowed host at most the maximum age ago, at a moment at   *)
(* which none of the host's addresses was private or a metadata service,   *)
(* whatever DNS answered before and between.                               *)
PassedEgressIsBound ==
    passed.verdict = "PASS" =>
        /\ connection.host = "allowed" /\ connection.request = EgressRequest
        /\ connection.to \in resolution.truth
        /\ "internal" \notin resolution.truth
        /\ resolution.at + MaxDnsAge >= passed.at
=============================================================================
