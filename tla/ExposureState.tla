--------------------------- MODULE ExposureState ---------------------------
(***************************************************************************)
(* The findings document of PSB-SOURCE-003 and what reconcile_state makes  *)
(* of it (scripts/monitor-public-exposure.py).  A fingerprint is a public  *)
(* object at one version: a new revision of a gist or an edited issue is a *)
(* new occurrence.  The dispositions "accepted-public" and                 *)
(* "false-positive" are treated alike and are one here: "reviewed".        *)
(***************************************************************************)
EXTENDS Integers

CONSTANTS
  Searched,     \* what the code, issue and pull request searches may return
  Gists,        \* the public gists
  MaxVersion,   \* bound on the versions of an object
  NoCursor,     \* the cursor of the seeded document: null
  NoFinding     \* a fingerprint without a finding

Objects == Searched \union Gists
Fingerprints == [object : Objects, version : 1 .. MaxVersion]

\* Only a reviewed finding has a review, and its expiry: validate_review.
Findings ==
  [first_seen : Nat, disposition : {"open", "remediated"}, expires : {0}]
    \union
  [first_seen : Nat, disposition : {"reviewed"}, expires : Nat]

ASSUME StateAssumption ==
  /\ Searched \intersect Gists = {}
  /\ MaxVersion \in Nat
  /\ NoCursor \notin Nat
  /\ NoFinding \notin Findings

States ==
  [cursor : Nat \union {NoCursor},
   findings : [Fingerprints -> Findings \union {NoFinding}]]

EmptyState ==
  [cursor |-> NoCursor, findings |-> [f \in Fingerprints |-> NoFinding]]

Known(state) == {f \in Fingerprints : state.findings[f] # NoFinding}

NewFinding(now) ==
  [first_seen |-> now, disposition |-> "open", expires |-> 0]

\* Wrong variant: the reopened finding keeps its review.
ReopenWithReview(finding) == [finding EXCEPT !.disposition = "open"]

Reopen(finding) == [finding EXCEPT !.disposition = "open", !.expires = 0]

MustReopen(finding, now) ==
  \/ finding.disposition = "remediated"
  \/ finding.disposition = "reviewed" /\ finding.expires <= now

NewEvents(state, observed) == observed \ Known(state)

\* Wrong variant: what was not observed again is dropped.
KeepObservedOnly(state, observed, now) ==
  [cursor |-> now,
   findings |->
     [f \in Fingerprints |->
        IF f \notin observed THEN NoFinding
        ELSE IF f \notin Known(state) THEN NewFinding(now)
        ELSE state.findings[f]]]

Reconcile(state, observed, now) ==
  [cursor |-> now,
   findings |->
     [f \in Fingerprints |->
        IF f \notin observed THEN state.findings[f]
        ELSE IF f \notin Known(state) THEN NewFinding(now)
        ELSE IF MustReopen(state.findings[f], now) THEN Reopen(state.findings[f])
        ELSE state.findings[f]]]
=============================================================================
