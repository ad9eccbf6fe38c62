---------------------------- MODULE MCPreToolGate ----------------------------
(* Small instances of the hook: which approvals the issuer may file.        *)
EXTENDS PreToolGate, TLC

CONSTANTS a1, a2, r1, r2, k1

Approval(a, r) ==
  [approval |-> a, request |-> r, key |-> k1, signed |-> TRUE,
   independent |-> TRUE, issued |-> 0, expires |-> 1]

OneApproval == {Approval(a1, r1)}

\* Two approvals of one request.
TwoForOne == {Approval(a1, r1), Approval(a2, r1)}

\* An approval next to envelopes that must not be accepted: unsigned,
\* approved by the actor, expired or issued later, with a lifetime above the
\* limit.
Doubtful ==
  {Approval(a1, r1),
   [Approval(a1, r1) EXCEPT !.signed = FALSE],
   [Approval(a2, r1) EXCEPT !.independent = FALSE],
   [Approval(a2, r1) EXCEPT !.issued = 1, !.expires = 2],
   [Approval(a2, r1) EXCEPT !.expires = 2]}

Interchangeable == Permutations(Procs)
=============================================================================
