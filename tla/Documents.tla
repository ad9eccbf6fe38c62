----------------------------- MODULE Documents -----------------------------
(* Documents that a verifier may be shown: one as its checks want it, and   *)
(* those that differ from it in a single field.                             *)

OneOff(wanted, other) ==
    {wanted} \cup {[wanted EXCEPT ![f] = other[f]] : f \in DOMAIN wanted}

(* The form of a document, before its content is judged: whether it is an   *)
(* object of the schema, its times have a timezone, the identities of its   *)
(* records are exact and not repeated, the files it names lie inside their  *)
(* root, and it holds no credential or content.  A verifier looks at some   *)
(* of these.                                                                *)
ReadableForm ==
    [object |-> TRUE, times |-> "with a timezone", identities |-> "exact",
     repeated |-> FALSE, files |-> "inside", sensitive |-> FALSE]
OtherForm ==
    [object |-> FALSE, times |-> "without a timezone", identities |-> "not exact",
     repeated |-> TRUE, files |-> "outside", sensitive |-> TRUE]
Forms(aspects) == OneOff([a \in aspects |-> ReadableForm[a]], OtherForm)
=============================================================================
