----------------------------- MODULE PreToolGate -----------------------------
(***************************************************************************)
(* The managed PreToolUse hook of PSB-AI-004 (scripts/pretool-gate.py with *)
(* signed_approval.py and approval_core.py).  Each process decides one     *)
(* tool call: it evaluates the reviewed capabilities, and for a            *)
(* high-impact call reads the approval envelope filed under the request's  *)
(* digest, checks it, consumes it in the shared ledger, appends the        *)
(* decision to the shared audit file and only then answers the provider.   *)
(* Around the processes the issuer files envelopes, keys are revoked, time *)
(* passes, and a process (a hook timeout) or the host may die anywhere.    *)
(***************************************************************************)
EXTENDS ApprovalLedger, RuntimeAudit

CONSTANTS
  Envelopes,    \* the signed approvals that the issuer may file
  NoEnvelope,   \* a request without a file in the inbox
  Keys,         \* the identifiers of the signing keys
  MaxTTL,       \* maximum_ttl_seconds of the high-impact policy
  MaxTime       \* bound on the clock

\* Calls that evaluate() decides on its own; every other call is a request.
Routine == {"reviewed", "prohibited"}
Events == Requests \union Routine

EnvelopeRecords ==
  [approval : Approvals, request : Requests, key : Keys, signed : BOOLEAN,
   independent : BOOLEAN, issued : Nat, expires : Nat]

ASSUME GateAssumption ==
  /\ Requests \intersect Routine = {}
  /\ Envelopes \subseteq EnvelopeRecords
  /\ NoEnvelope \notin Envelopes
  /\ Decisions = {"allow", "deny", "error"}
  /\ MaxTTL \in Nat /\ MaxTime \in Nat

VARIABLES
  pc,         \* where each process is in main()
  event,      \* the tool call each process decides
  started,    \* now_text, read once when the process starts
  envelope,   \* the envelope the process loaded
  inbox,      \* the approval directory: one file per request digest
  trusted,    \* the active keys of the trust manifest
  clock

gateVars == <<pc, event, started, envelope, inbox, trusted, clock>>
vars == <<ledgerVars, auditVars, gateVars>>

Running ==
  {"evaluate", "lookup", "resolve", "verify", "consume", "record", "recordError"}
Final == {"answered", "blocked", "dead"}
PcStates == {"ready"} \union Running \union Final

GateInit ==
  /\ LedgerInit
  /\ AuditInit
  /\ pc = [p \in Procs |-> "ready"]
  /\ event \in [Procs -> Events]
  /\ started = [p \in Procs |-> 0]
  /\ envelope = [p \in Procs |-> NoEnvelope]
  /\ inbox = [r \in Requests |-> NoEnvelope]
  /\ trusted = Keys
  /\ clock = 0

---------------------------------------------------------------------------
Goto(p, from, to) ==
  /\ pc[p] = from
  /\ pc' = [pc EXCEPT ![p] = to]

Unchanged(others) == UNCHANGED <<event, inbox, trusted, clock, others>>

\* record_event is called with the decision; its steps are those of
\* RuntimeAudit.
Record(p, from, d) ==
  /\ Goto(p, from, IF d = "error" THEN "recordError" ELSE "record")
  /\ AppendEvent(p, d)
  /\ Unchanged(<<started, envelope>>)

\* Wrong variant: the captured time is rounded up.
StartRoundedUp(p) ==
  /\ Goto(p, "ready", "evaluate")
  /\ started' = [started EXCEPT ![p] = clock + 1]
  /\ Unchanged(<<envelope, ledgerVars, auditVars>>)

Start(p) ==
  /\ Goto(p, "ready", "evaluate")
  /\ started' = [started EXCEPT ![p] = clock]
  /\ Unchanged(<<envelope, ledgerVars, auditVars>>)

\* The audit policy cannot be loaded: exit 2 without any record.
AuditPolicyUnavailable(p) ==
  /\ Goto(p, "evaluate", "blocked")
  /\ Unchanged(<<started, envelope, ledgerVars, auditVars>>)

DecideRoutine(p) ==
  /\ event[p] \in Routine
  /\ Record(p, "evaluate", IF event[p] = "reviewed" THEN "allow" ELSE "deny")
  /\ UNCHANGED ledgerVars

RequireApproval(p) ==
  /\ event[p] \in Requests
  /\ Goto(p, "evaluate", "lookup")
  /\ Unchanged(<<started, envelope, ledgerVars, auditVars>>)

ApprovalMissing(p) ==
  /\ pc[p] = "lookup"
  /\ inbox[event[p]] = NoEnvelope
  /\ Record(p, "lookup", "deny")
  /\ UNCHANGED ledgerVars

LoadEnvelope(p) ==
  /\ Goto(p, "lookup", "resolve")
  /\ inbox[event[p]] # NoEnvelope
  /\ envelope' = [envelope EXCEPT ![p] = inbox[event[p]]]
  /\ Unchanged(<<started, ledgerVars, auditVars>>)

\* resolve_trust_key reads the manifest; the signature is checked later with
\* the key it returned.
ResolveKey(p) ==
  /\ Goto(p, "resolve", "verify")
  /\ envelope[p].key \in trusted
  /\ Unchanged(<<started, envelope, ledgerVars, auditVars>>)

KeyNotTrusted(p) ==
  /\ pc[p] = "resolve"
  /\ envelope[p].key \notin trusted
  /\ Record(p, "resolve", "error")
  /\ UNCHANGED ledgerVars

\* evaluate_approval: the binding to the request, an approver other than the
\* actor, the lifetime, and the time this process captured when it started.
BindingOk(e, request) == e.request = request /\ e.independent
TimeOk(e, now) ==
  /\ e.issued < e.expires
  /\ e.expires - e.issued <= MaxTTL
  /\ e.issued <= now
  /\ now < e.expires
Acceptable(e, request, now) ==
  e.signed /\ BindingOk(e, request) /\ TimeOk(e, now)

\* Wrong variant: the file is read again after it was checked.
VerifyThenReread(p) ==
  /\ Goto(p, "verify", "consume")
  /\ Acceptable(envelope[p], event[p], started[p])
  /\ envelope' = [envelope EXCEPT ![p] = inbox[event[p]]]
  /\ Consume(p, [approval |-> inbox[event[p]].approval, request |-> event[p]])
  /\ Unchanged(<<started, auditVars>>)

VerifyAndConsume(p) ==
  /\ Goto(p, "verify", "consume")
  /\ Acceptable(envelope[p], event[p], started[p])
  /\ Consume(p, [approval |-> envelope[p].approval, request |-> event[p]])
  /\ Unchanged(<<started, envelope, auditVars>>)

RejectApproval(p) ==
  /\ pc[p] = "verify"
  /\ ~Acceptable(envelope[p], event[p], started[p])
  /\ Record(p, "verify", "deny")
  /\ UNCHANGED ledgerVars

\* Any other evaluation error on the way: malformed input, engine, actor,
\* inbox, OpenSSL or policy unavailable.
EvaluationError(p) ==
  /\ \E from \in {"evaluate", "lookup", "resolve", "verify"} :
       Record(p, from, "error")
  /\ UNCHANGED ledgerVars

InLedger(p) ==
  /\ pc[p] = "consume"
  /\ ConsumeStep(p)
  /\ UNCHANGED <<auditVars, gateVars>>

InLedgerFailure(p) ==
  /\ pc[p] = "consume"
  /\ LedgerFailure(p)
  /\ UNCHANGED <<auditVars, gateVars>>

\* Wrong variant: a ledger error fails open.
FailOpen(outcome) == IF outcome = "false" THEN "deny" ELSE "allow"

DecisionOf(outcome) ==
  CASE outcome = "true" -> "allow"
    [] outcome = "false" -> "deny"
    [] OTHER -> "error"

\* consume_once came back: allowed, replayed, or an EvaluationError.
Consumption(p) ==
  /\ txn[p] \in Outcomes
  /\ Record(p, "consume", DecisionOf(txn[p]))
  /\ UNCHANGED ledgerVars

InAudit(p) ==
  /\ pc[p] \in {"record", "recordError"}
  /\ AppendStep(p)
  /\ UNCHANGED <<ledgerVars, gateVars>>

InAuditFailure(p) ==
  /\ pc[p] \in {"record", "recordError"}
  /\ RefuseFile(p) \/ AppendFailure(p)
  /\ UNCHANGED <<ledgerVars, gateVars>>

\* The provider's JSON is printed and the process exits 0.  When the print or
\* the flush fails, the process ends with another status, as in Kill.
Respond(p) ==
  /\ Goto(p, "record", "answered")
  /\ append[p] = "done"
  /\ Unchanged(<<started, envelope, ledgerVars, auditVars>>)

\* Wrong variant: an approval whose decision was not recorded is given back.
RefundApproval(p) ==
  /\ append[p] = "failed"
  /\ Record(p, "record", "error")
  /\ rows' = rows \ {want[p]}
  /\ UNCHANGED <<lock, txn, want>>

\* AuditError: the handler records the error, then blocks the call.
DecisionNotRecorded(p) ==
  /\ append[p] = "failed"
  /\ Record(p, "record", "error")
  /\ UNCHANGED ledgerVars

\* Exit 2, whether or not the error could be recorded.
Block(p) ==
  /\ Goto(p, "recordError", "blocked")
  /\ append[p] \in {"done", "failed"}
  /\ Unchanged(<<started, envelope, ledgerVars, auditVars>>)

---------------------------------------------------------------------------
\* The hook timeout of the provider, or any other kill.
Kill(p) ==
  /\ pc[p] \in Running
  /\ pc' = [pc EXCEPT ![p] = "dead"]
  /\ Abandon({p})
  /\ KillWriter(p)
  /\ Unchanged(<<started, envelope>>)

HostCrash ==
  /\ pc' = [p \in Procs |-> IF pc[p] \in Running THEN "dead" ELSE pc[p]]
  /\ Abandon({p \in Procs : pc[p] \in Running})
  /\ LoseUnsynced
  /\ Unchanged(<<started, envelope>>)

FileEnvelope(r, e) ==
  /\ inbox' = [inbox EXCEPT ![r] = e]
  /\ UNCHANGED <<pc, event, started, envelope, trusted, clock>>
  /\ UNCHANGED <<ledgerVars, auditVars>>

RevokeKey(k) ==
  /\ k \in trusted
  /\ trusted' = trusted \ {k}
  /\ UNCHANGED <<pc, event, started, envelope, inbox, clock>>
  /\ UNCHANGED <<ledgerVars, auditVars>>

Tick ==
  /\ clock < MaxTime
  /\ clock' = clock + 1
  /\ UNCHANGED <<pc, event, started, envelope, inbox, trusted>>
  /\ UNCHANGED <<ledgerVars, auditVars>>

---------------------------------------------------------------------------
\* One step of the code of main() when nothing breaks under it.
HookStep(p) ==
  \/ DecideRoutine(p)
  \/ RequireApproval(p)
  \/ ApprovalMissing(p)
  \/ LoadEnvelope(p)
  \/ ResolveKey(p)
  \/ KeyNotTrusted(p)
  \/ VerifyAndConsume(p)
  \/ RejectApproval(p)
  \/ InLedger(p)
  \/ Consumption(p)
  \/ InAudit(p)
  \/ Respond(p)
  \/ DecisionNotRecorded(p)
  \/ Block(p)

Fault(p) ==
  \/ AuditPolicyUnavailable(p)
  \/ EvaluationError(p)
  \/ InLedgerFailure(p)
  \/ InAuditFailure(p)
  \/ Kill(p)

Environment ==
  \/ \E r \in Requests, e \in Envelopes : FileEnvelope(r, e)
  \/ \E k \in Keys : RevokeKey(k)
  \/ Tick
  \/ HostCrash

GateNext ==
  \/ \E p \in Procs : Start(p) \/ HookStep(p) \/ Fault(p)
  \/ Environment

GateSpec == GateInit /\ [][GateNext]_vars

\* The operating system keeps running a hook process that has started.
FairGateSpec == GateSpec /\ \A p \in Procs : WF_vars(HookStep(p))

---------------------------------------------------------------------------
GateTypeOK ==
  /\ LedgerTypeOK
  /\ AuditTypeOK
  /\ pc \in [Procs -> PcStates]
  /\ event \in [Procs -> Events]
  /\ started \in [Procs -> 0 .. MaxTime]
  /\ envelope \in [Procs -> Envelopes \union {NoEnvelope}]
  /\ inbox \in [Requests -> Envelopes \union {NoEnvelope}]
  /\ trusted \subseteq Keys
  /\ clock \in 0 .. MaxTime

\* The provider received "allow" for a high-impact call.
Released(p) ==
  /\ pc[p] = "answered"
  /\ decision[p] = "allow"
  /\ event[p] \in Requests

\* One approval lets at most one high-impact call go, and one exact request
\* is let go at most once, whatever processes race, die or are restarted.
SingleUse ==
  \A p, q \in Procs :
    Released(p) /\ Released(q) /\ p # q =>
      /\ event[p] # event[q]
      /\ envelope[p].approval # envelope[q].approval

\* A high-impact call is let go only on an approval that is signed, given by
\* somebody else than the actor for this very request, short-lived and live
\* when the hook started, and it is that approval that the ledger consumed,
\* although the issuer may replace the file while the hook runs.
ReleasedIsApproved ==
  \A p \in Procs :
    Released(p) =>
      LET e == envelope[p] IN
      /\ e \in Envelopes
      /\ e.signed /\ e.independent /\ e.request = event[p]
      /\ e.issued <= started[p] /\ started[p] < e.expires
      /\ e.expires <= e.issued + MaxTTL
      /\ [approval |-> e.approval, request |-> event[p]] \in rows

\* The order of the two stores: an "allow" of a high-impact call appears in
\* the audit file, in part or whole, only after an approval of its request is
\* consumed; by RowsUnique there is only one.
AllowRecordIsConsumed ==
  \A i \in 1 .. Len(log) :
    LET p == log[i].by IN
    log[i].decision = "allow" /\ event[p] \in Requests =>
      \E u \in rows : u.request = event[p]

\* An answer that reached the provider, allow or deny, has its complete
\* record in the part of the audit file that a crash of the host keeps.
AnswerIsDurable ==
  \A p \in Procs :
    pc[p] = "answered" => \E i \in 1 .. durable : RecordEndsAt(p, decision[p], i)

\* A request that is consumed before a process begins to consume it stays
\* out of that process's reach: also when the process that consumed it died
\* or was blocked before it answered (the approval is burned).
BurnedStaysBurned ==
  \A p \in Procs :
    []( /\ pc[p] \in {"ready", "evaluate", "lookup", "resolve", "verify"}
        /\ \E u \in rows : u.request = event[p]
        => []~Released(p))

\* Every hook process that starts ends with an answer, with a blocked call or
\* killed: waiting for the ledger, waiting for the audit file and failing
\* while it handles a failure all come to an end.
HooksEnd ==
  \A p \in Procs : pc[p] \in Running ~> pc[p] \in Final

\* What the documentation says of the audit file, JSON Lines with one record
\* before every answer: the record of an answer is a line of its own.  A record
\* that a failed or killed hook left half-written runs into the next one.
AnswerIsReadable ==
  \A p \in Procs : pc[p] = "answered" => Readable(p, decision[p])

\* What the documentation asks of a retry: when a tool call was not applied,
\* a distinct replacement approval for the same exact request is what lets
\* the retry go, so that only an approval that was itself used is a replay.
\* The code's ledger also refuses a new approval of a consumed request.
ReplacementUsable ==
  \A p \in Procs :
    txn[p] = "false" => \E u \in rows : u.approval = want[p].approval

---------------------------------------------------------------------------
\* The use a process may still act on.
Grant(p) ==
  IF pc[p] \in {"consume", "record", "answered"} /\ txn[p] = "true"
  THEN want[p]
  ELSE NoUse

Abstract == INSTANCE SingleUseApproval WITH
  spent <- rows,
  grant <- [p \in Procs |-> Grant(p)],
  released <- {p \in Procs : Released(p)}

\* The hooks, the ledger and the audit file together implement the abstract
\* single-use approval: COMMIT is the one step that spends.
ImplementsSingleUse == Abstract!Spec
=============================================================================
