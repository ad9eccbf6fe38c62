--------------------------- MODULE AgentDelegation ---------------------------
(***************************************************************************)
(* Delegation from one agent to another: the sender signs delegations, the *)
(* recipient executes and answers with signed responses over channels that *)
(* repeat and reorder, and the verifier                                    *)
(* (multi-agent-trust-delegation/scripts/verify.py) judges one pair with   *)
(* the replay state of that moment; when it is accepted, the consumer      *)
(* advances the replay state (external).  A digest is the content.         *)
(***************************************************************************)
EXTENDS Integers, Sequences, FiniteSets, Documents

CONSTANTS
    MaxDelegationAge,  \* delegation_schema.maximum_age_seconds
    MaxDelegationTtl,  \* delegation_schema.maximum_ttl_seconds
    MaxDelegationTime, \* bound: the clock stops here
    MaxDelegations,    \* bound: delegations the sender signs
    MaxResponses,      \* bound: responses the recipient signs
    MaxLapses          \* bound: documents signed that are not as they should be

ASSUME DelegationAssumption ==
    {MaxDelegationAge, MaxDelegationTtl, MaxDelegationTime, MaxDelegations, MaxResponses,
     MaxLapses} \subseteq Nat

Capabilities == {"read", "write"}
Ceiling == {"read"}      \* of the edge, and of both agents
BudgetCeiling == 1

VARIABLES
    moment,
    delegations,  \* what the sender has signed, in order
    responses,    \* what the recipient has signed, in order
    consumedUpTo, \* replay state: last consumed sequence of [sender, recipient]
    consumedNonces,
    acceptedPairs \* accepted [delegation, response], by index, with the time

delegationVars == <<moment, delegations, responses, consumedUpTo, consumedNonces, acceptedPairs>>

DelegationInit ==
    /\ moment = 0 /\ delegations = <<>> /\ responses = <<>>
    /\ consumedUpTo = [sender |-> 0, recipient |-> 0] /\ consumedNonces = {}
    /\ acceptedPairs = <<>>

(* What may be wrong with one document                                     *)
Sound == [capabilities |-> {"read"}, budget |-> BudgetCeiling, ttl |-> MaxDelegationTtl,
          onward |-> FALSE]
Unsound == {[Sound EXCEPT !.capabilities = Capabilities], [Sound EXCEPT !.budget = @ + 1],
            [Sound EXCEPT !.ttl = @ + 1], [Sound EXCEPT !.onward = TRUE]}
SoundUse(d) == [spent |-> d.budget, authority |-> d.capabilities]
UnsoundUse(d) == {[SoundUse(d) EXCEPT !.spent = @ + 1],
                  [SoundUse(d) EXCEPT !.authority = Capabilities]}

Lapses == Cardinality({i \in DOMAIN delegations : ~delegations[i].sound})
            + Cardinality({j \in DOMAIN responses : ~responses[j].sound})

(* The sender signs, honestly numbered or not, and perhaps too much.       *)
SignDelegation(sequence, grant) ==
    /\ Len(delegations) < MaxDelegations
    /\ grant = Sound \/ Lapses < MaxLapses
    /\ delegations' = Append(delegations,
         [sequence |-> sequence, nonce |-> Len(delegations) + 1, sound |-> grant = Sound,
          capabilities |-> grant.capabilities, budget |-> grant.budget, issued |-> moment,
          expires |-> moment + grant.ttl, onward |-> grant.onward])
    /\ UNCHANGED <<moment, responses, consumedUpTo, consumedNonces, acceptedPairs>>

(* The recipient executes with some authority and answers, perhaps again.  *)
SignResponse(i, sequence, use) ==
    /\ Len(responses) < MaxResponses
    /\ use = SoundUse(delegations[i]) \/ Lapses < MaxLapses
    /\ responses' = Append(responses,
         [sequence |-> sequence, nonce |-> Len(responses) + 1, answers |-> delegations[i],
          of |-> i, sound |-> use = SoundUse(delegations[i]), issued |-> moment,
          spent |-> use.spent, authority |-> use.authority])
    /\ UNCHANGED <<moment, delegations, consumedUpTo, consumedNonces, acceptedPairs>>

DelegationTick ==
    /\ moment < MaxDelegationTime /\ moment' = moment + 1
    /\ UNCHANGED <<delegations, responses, consumedUpTo, consumedNonces, acceptedPairs>>

-----------------------------------------------------------------------------
(* What a pair is shown with: bindings and trust, the edge and scope that  *)
(* the delegation names, and what the recipient's runtime reports          *)
Showings == OneOff(
    [bindings |-> "as pinned", agents |-> 2, keys |-> "active, Ed25519, as pinned",
     parent |-> "authorized", delegationSigned |-> TRUE, responseSigned |-> TRUE,
     request |-> "the parent's", from |-> "planner", to |-> "worker", tenant |-> "one",
     purpose |-> "permitted", senderDelegates |-> TRUE,
     repository |-> "the edge's", executedIn |-> "the edge's", paths |-> "below the prefix",
     classification |-> 1, hop |-> 1, recipientDelegates |-> FALSE, attempts |-> 0,
     isolation |-> "dedicated-context", ambient |-> FALSE, stopped |-> FALSE,
     decision |-> "allow", collection |-> "complete"],
    [bindings |-> "changed", agents |-> 3, keys |-> "revoked", parent |-> "pending",
     delegationSigned |-> FALSE, responseSigned |-> FALSE, request |-> "another",
     from |-> "worker", to |-> "planner", tenant |-> "another", purpose |-> "other",
     senderDelegates |-> FALSE, repository |-> "another", executedIn |-> "another",
     paths |-> "elsewhere", classification |-> 2, hop |-> 2, recipientDelegates |-> TRUE,
     attempts |-> 1, isolation |-> "shared", ambient |-> TRUE, stopped |-> TRUE,
     decision |-> "block", collection |-> "gaps"])

(* load_json, parse_time, resolve, forbidden_field, keyed: an ERROR        *)
PairForms == Forms({"object", "times", "identities", "repeated", "files", "sensitive"})
PairReadable(x) ==
    /\ x.object /\ x.times = "with a timezone" /\ x.identities = "exact"
    /\ ~x.repeated /\ x.files = "inside" /\ ~x.sensitive

(* verify_cross_control_bindings, load_trust: a pinned file that differs   *)
(* is an ERROR                                                             *)
BindingsPinned(g) == g.bindings = "as pinned"
TrustLoaded(g) ==
    /\ g.agents = 2 /\ g.keys = "active, Ed25519, as pinned" /\ g.parent = "authorized"

(* agent_for_envelope, verify_signature, for both envelopes                *)
Authentic(g) == g.delegationSigned /\ g.responseSigned

(* edge_ok: one sender, one recipient, one tenant, an authorized purpose   *)
EdgeOk(g) ==
    /\ g.request = "the parent's" /\ g.from = "planner" /\ g.to = "worker"
    /\ g.tenant = "one" /\ g.purpose = "permitted" /\ g.senderDelegates

CapabilityOk(d, r) == d.capabilities \subseteq Ceiling /\ r.authority = d.capabilities

(* scope_ok, classification_within: inside the edge, and as executed       *)
ScopeOk(g) ==
    /\ g.repository = "the edge's" /\ g.executedIn = g.repository
    /\ g.paths = "below the prefix" /\ g.classification <= 1

(* budget_within, twice                                                    *)
BudgetOk(d, r) == d.budget <= BudgetCeiling /\ r.spent <= d.budget

(* plausible mistake: the nonces of both directions, and not the sequences *)
FreshnessByNonce(d, r) ==
    /\ moment - d.issued \in 0..MaxDelegationAge
    /\ d.expires - d.issued \in 1..MaxDelegationTtl
    /\ r.issued \in d.issued..d.expires /\ r.issued <= moment
    /\ <<"sender", d.nonce>> \notin consumedNonces
    /\ <<"recipient", r.nonce>> \notin consumedNonces

FreshnessOk(d, r) ==
    /\ moment - d.issued \in 0..MaxDelegationAge
    /\ d.expires - d.issued \in 1..MaxDelegationTtl
    /\ r.issued \in d.issued..d.expires /\ r.issued <= moment
    /\ d.sequence > consumedUpTo.sender /\ <<"sender", d.nonce>> \notin consumedNonces
    /\ r.sequence > consumedUpTo.recipient
    /\ <<"recipient", r.nonce>> \notin consumedNonces

OnwardOk(d, g) == ~d.onward /\ g.hop = 1 /\ ~g.recipientDelegates /\ g.attempts = 0

(* runtime_ok: isolated, and stopped exactly when the rest says block      *)
RuntimeOk(g, allow) ==
    /\ g.isolation = "dedicated-context" /\ ~g.ambient
    /\ g.stopped = ~allow /\ g.decision = (IF allow THEN "allow" ELSE "block")

ResponseOk(d, r) == r.answers = d

HealthOk(g) == g.collection = "complete"

(* main: a delegation and a response are shown, first, again or late       *)
ShowPair(i, j) ==
    LET d == delegations[i]
        r == responses[j]
    IN /\ \E x \in PairForms : PairReadable(x)
       /\ \E g \in Showings :
            LET allow == /\ Authentic(g) /\ EdgeOk(g) /\ CapabilityOk(d, r) /\ ScopeOk(g)
                         /\ BudgetOk(d, r) /\ FreshnessOk(d, r) /\ OnwardOk(d, g)
            IN BindingsPinned(g) /\ TrustLoaded(g) /\ allow /\ RuntimeOk(g, allow)
                 /\ ResponseOk(d, r) /\ HealthOk(g)
       /\ acceptedPairs' = Append(acceptedPairs, [delegation |-> i, response |-> j, at |-> moment])
       /\ consumedUpTo' = [sender |-> d.sequence, recipient |-> r.sequence]
       /\ consumedNonces' = consumedNonces \cup {<<"sender", d.nonce>>, <<"recipient", r.nonce>>}
       /\ UNCHANGED <<moment, delegations, responses>>

DelegationNext ==
    \/ \E sequence \in 1..MaxDelegations, grant \in {Sound} \cup Unsound :
         SignDelegation(sequence, grant)
    \/ \E i \in DOMAIN delegations, sequence \in 1..MaxResponses :
         \E use \in {SoundUse(delegations[i])} \cup UnsoundUse(delegations[i]) :
            SignResponse(i, sequence, use)
    \/ \E i \in DOMAIN delegations, j \in DOMAIN responses : ShowPair(i, j)
    \/ DelegationTick

DelegationSpec == DelegationInit /\ [][DelegationNext]_delegationVars
-----------------------------------------------------------------------------
(* AcceptedOnceAndBelow: no delegation and no response is accepted twice,  *)
(* and none after a later one, whatever is repeated or reordered; an       *)
(* accepted response is to its own delegation, was given while that was    *)
(* valid, and neither authority nor spending of the recipient exceeded     *)
(* what the sender itself might have given.                                *)
AcceptedOnceAndBelow ==
    \A m, n \in DOMAIN acceptedPairs :
        LET earlier == acceptedPairs[m]
            later == acceptedPairs[n]
            r == responses[later.response]
        IN /\ m < n =>
                /\ earlier.delegation # later.delegation /\ earlier.response # later.response
                /\ delegations[earlier.delegation].sequence < delegations[later.delegation].sequence
                /\ responses[earlier.response].sequence < r.sequence
           /\ delegations[r.of] = delegations[later.delegation]
           /\ r.issued <= delegations[r.of].expires
           /\ r.authority \subseteq Ceiling /\ r.spent <= BudgetCeiling
=============================================================================
