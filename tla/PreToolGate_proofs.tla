------------------------- MODULE PreToolGate_proofs -------------------------
(***************************************************************************)
(* Proofs about the hook, for any number of processes, requests, approvals *)
(* and envelopes.  Every step of the hook is a step of the ledger and of   *)
(* the audit file, or leaves them alone, so that their invariants carry    *)
(* over; what the hook adds is the link between where a process is, what   *)
(* it recorded and what it consumed.                                       *)
(***************************************************************************)
EXTENDS PreToolGate, ApprovalLedger_proofs, RuntimeAudit_proofs

BeforeConsume == {"ready", "evaluate", "lookup", "resolve", "verify"}

\* The use a process asks the ledger for.
UseOf(p) == [approval |-> envelope[p].approval, request |-> event[p]]

\* What a process has checked once it has called consume_once.
Checked(p) ==
  /\ event[p] \in Requests
  /\ envelope[p] \in Envelopes
  /\ Acceptable(envelope[p], event[p], started[p])
  /\ want[p] = UseOf(p)

GateTypes ==
  /\ pc \in [Procs -> PcStates]
  /\ event \in [Procs -> Events]
  /\ started \in [Procs -> 0 .. MaxTime]
  /\ envelope \in [Procs -> Envelopes \union {NoEnvelope}]
  /\ inbox \in [Requests -> Envelopes \union {NoEnvelope}]
  /\ trusted \subseteq Keys
  /\ clock \in 0 .. MaxTime

\* Nothing is consumed or recorded before its turn.
Ordered ==
  \A p \in Procs :
    /\ pc[p] \in BeforeConsume => txn[p] = "idle"
    /\ pc[p] \in {"lookup", "resolve", "verify"} => event[p] \in Requests
    /\ pc[p] \in {"resolve", "verify"} => envelope[p] \in Envelopes
    /\ pc[p] = "consume" => Checked(p)
    /\ pc[p] = "recordError" => decision[p] = "error"
    /\ pc[p] = "answered" => append[p] = "done"

\* An allow of a high-impact call, recorded or answered, rests on a True of
\* consume_once for the use that the process checked.
AllowRests ==
  \A p \in Procs :
    pc[p] \in {"record", "answered"} /\ decision[p] = "allow" /\ event[p] \in Requests
      => txn[p] = "true" /\ Checked(p)

\* A process that holds a True for a call it decides is about to allow it.
TrueMeansAllow ==
  \A p \in Procs :
    pc[p] \in {"record", "answered"} /\ txn[p] = "true"
      => decision[p] = "allow" /\ event[p] \in Requests

GateInv ==
  /\ LedgerInv
  /\ AuditInv
  /\ GateTypes
  /\ Ordered
  /\ AllowRests
  /\ TrueMeansAllow
  /\ AllowRecordIsConsumed

---------------------------------------------------------------------------
\* In the initial states nothing is consumed, recorded or decided.
LEMMA GateInitInv == GateInit => GateInv
<1> SUFFICES ASSUME GateInit PROVE GateInv
  OBVIOUS
<1>1. LedgerInv /\ AuditInv
  BY LedgerInitInv, AuditInitInv DEF GateInit
<1>2. GateTypes
  BY GateAssumption DEF GateInit, GateTypes, PcStates
<1>3. Ordered /\ AllowRests /\ TrueMeansAllow /\ AllowRecordIsConsumed
  BY DEF GateInit, LedgerInit, AuditInit, Ordered, AllowRests, TrueMeansAllow,
         AllowRecordIsConsumed
<1> QED
  BY <1>1, <1>2, <1>3 DEF GateInv

\* Every step of the system is a step of the ledger or leaves it alone.
LEMMA StepOfLedger ==
  ASSUME GateInv, [GateNext]_vars
  PROVE  [LedgerNext]_ledgerVars
<1>1. ASSUME NEW p \in Procs, VerifyAndConsume(p)
      PROVE  LedgerNext
  <2>1. UseOf(p) \in Uses
    BY <1>1, GateAssumption
    DEF GateInv, Ordered, VerifyAndConsume, Goto, UseOf, Uses, EnvelopeRecords
  <2> QED
    BY <1>1, <2>1 DEF VerifyAndConsume, UseOf, LedgerNext
<1>2. ASSUME NEW p \in Procs, InLedger(p) \/ InLedgerFailure(p) \/ Kill(p)
      PROVE  LedgerNext
  BY <1>2 DEF InLedger, InLedgerFailure, Kill, LedgerNext
<1>3. ASSUME HostCrash
      PROVE  LedgerNext
  <2>1. {p \in Procs : pc[p] \in Running} \in SUBSET Procs
    OBVIOUS
  <2> QED
    BY <1>3, <2>1 DEF HostCrash, LedgerNext
<1>4. ASSUME NEW p \in Procs, Start(p) \/ HookStep(p) \/ Fault(p)
      PROVE  LedgerNext \/ UNCHANGED ledgerVars
  BY <1>1, <1>2, <1>4
  DEF HookStep, Fault, Start, AuditPolicyUnavailable, DecideRoutine,
      RequireApproval, ApprovalMissing, LoadEnvelope, ResolveKey,
      KeyNotTrusted, RejectApproval, EvaluationError, Consumption, InAudit,
      InAuditFailure, Respond, DecisionNotRecorded, Block, Unchanged
<1>5. ASSUME Environment
      PROVE  LedgerNext \/ UNCHANGED ledgerVars
  BY <1>3, <1>5 DEF Environment, FileEnvelope, RevokeKey, Tick
<1>6. CASE UNCHANGED vars
  BY <1>6 DEF vars
<1> QED
  BY <1>4, <1>5, <1>6 DEF GateNext

\* Every step of the system is a step of the audit file or leaves it alone.
LEMMA StepOfAudit ==
  ASSUME GateInv, [GateNext]_vars
  PROVE  [AuditNext]_auditVars
<1>1. ASSUME NEW p \in Procs, NEW from, NEW d \in Decisions, Record(p, from, d)
      PROVE  AuditNext
  BY <1>1 DEF Record, AuditNext
<1>2. ASSUME NEW p \in Procs,
             \/ DecideRoutine(p) \/ ApprovalMissing(p) \/ KeyNotTrusted(p)
             \/ RejectApproval(p) \/ EvaluationError(p) \/ Consumption(p)
             \/ DecisionNotRecorded(p)
      PROVE  AuditNext
  BY <1>1, <1>2, GateAssumption
  DEF DecideRoutine, ApprovalMissing, KeyNotTrusted, RejectApproval,
      EvaluationError, Consumption, DecisionNotRecorded, DecisionOf
<1>3. ASSUME NEW p \in Procs, InAudit(p) \/ InAuditFailure(p) \/ Kill(p)
      PROVE  AuditNext
  BY <1>3 DEF InAudit, InAuditFailure, Kill, AuditNext
<1>4. ASSUME NEW p \in Procs, Start(p) \/ HookStep(p) \/ Fault(p)
      PROVE  AuditNext \/ UNCHANGED auditVars
  BY <1>2, <1>3, <1>4
  DEF HookStep, Fault, Start, AuditPolicyUnavailable, RequireApproval,
      LoadEnvelope, ResolveKey, VerifyAndConsume, InLedger, InLedgerFailure,
      Respond, Block, Unchanged
<1>5. ASSUME Environment
      PROVE  AuditNext \/ UNCHANGED auditVars
  BY <1>5 DEF Environment, FileEnvelope, RevokeKey, Tick, HostCrash, AuditNext
<1>6. CASE UNCHANGED vars
  BY <1>6 DEF vars
<1> QED
  BY <1>4, <1>5, <1>6 DEF GateNext

\* The ledger never forgets a consumed approval.
LEMMA RowsGrow ==
  ASSUME [LedgerNext]_ledgerVars
  PROVE  rows \subseteq rows'
  BY DEF LedgerNext, ledgerVars, ConsumeStep, Consume, BeginImmediate,
         BusyTimeout, InsertRow, RefuseReplay, Commit, LedgerFailure, Abandon

\* Each step keeps the types and the links between program counter, ledger
\* outcome and recorded decision.
LEMMA LinksKept ==
  ASSUME GateInv, [GateNext]_vars
  PROVE  GateTypes' /\ Ordered' /\ AllowRests' /\ TrueMeansAllow'
<1> DEFINE Links == GateTypes /\ Ordered /\ AllowRests /\ TrueMeansAllow
<1> USE GateAssumption
        DEF GateInv, GateTypes, Ordered, AllowRests, TrueMeansAllow, Checked,
            UseOf, BeforeConsume, PcStates, Running, Final, LedgerInv,
            LedgerTypeOK, AuditInv, AuditTypeOK, TxnStates, Outcomes,
            InTransaction, ledgerVars, auditVars, gateVars
<1>1. ASSUME NEW p \in Procs, Start(p)
      PROVE  Links'
  BY <1>1 DEF Start, Goto, Unchanged
<1>2. ASSUME NEW p \in Procs, AuditPolicyUnavailable(p)
      PROVE  Links'
  BY <1>2 DEF AuditPolicyUnavailable, Goto, Unchanged
<1>3. ASSUME NEW p \in Procs, DecideRoutine(p)
      PROVE  Links'
  BY <1>3 DEF DecideRoutine, Record, Goto, Unchanged, AppendEvent
<1>4. ASSUME NEW p \in Procs, RequireApproval(p)
      PROVE  Links'
  BY <1>4 DEF RequireApproval, Goto, Unchanged
<1>5. ASSUME NEW p \in Procs, ApprovalMissing(p)
      PROVE  Links'
  BY <1>5 DEF ApprovalMissing, Record, Goto, Unchanged, AppendEvent
<1>6. ASSUME NEW p \in Procs, LoadEnvelope(p)
      PROVE  Links'
  BY <1>6 DEF LoadEnvelope, Goto, Unchanged
<1>7. ASSUME NEW p \in Procs, ResolveKey(p)
      PROVE  Links'
  BY <1>7 DEF ResolveKey, Goto, Unchanged
<1>8. ASSUME NEW p \in Procs, KeyNotTrusted(p)
      PROVE  Links'
  BY <1>8 DEF KeyNotTrusted, Record, Goto, Unchanged, AppendEvent
<1>9. ASSUME NEW p \in Procs, VerifyAndConsume(p)
      PROVE  Links'
  BY <1>9 DEF VerifyAndConsume, Goto, Unchanged, Consume
<1>10. ASSUME NEW p \in Procs, RejectApproval(p)
      PROVE  Links'
  BY <1>10 DEF RejectApproval, Record, Goto, Unchanged, AppendEvent
<1>11. ASSUME NEW p \in Procs, EvaluationError(p)
      PROVE  Links'
  BY <1>11 DEF EvaluationError, Record, Goto, Unchanged, AppendEvent
<1>12. ASSUME NEW p \in Procs, InLedger(p)
      PROVE  Links'
  BY <1>12 DEF InLedger, ConsumeStep, BeginImmediate, BusyTimeout, InsertRow, RefuseReplay, Commit, Move
<1>13. ASSUME NEW p \in Procs, InLedgerFailure(p)
      PROVE  Links'
  BY <1>13 DEF InLedgerFailure, LedgerFailure
<1>14. ASSUME NEW p \in Procs, Consumption(p)
      PROVE  Links'
  BY <1>14 DEF Consumption, Record, Goto, Unchanged, AppendEvent, DecisionOf
<1>15. ASSUME NEW p \in Procs, InAudit(p)
      PROVE  Links'
  BY <1>15 DEF InAudit, AppendStep, TakeFlock, SizeLimit, SizeFits, WriteAll, ShortWrite, WriteRest, Fsync, Proceed
<1>16. ASSUME NEW p \in Procs, InAuditFailure(p)
      PROVE  Links'
  BY <1>16 DEF InAuditFailure, RefuseFile, AppendFailure, Proceed
<1>17. ASSUME NEW p \in Procs, Respond(p)
      PROVE  Links'
  BY <1>17 DEF Respond, Goto, Unchanged
<1>18. ASSUME NEW p \in Procs, DecisionNotRecorded(p)
      PROVE  Links'
  BY <1>18 DEF DecisionNotRecorded, Record, Goto, Unchanged, AppendEvent
<1>19. ASSUME NEW p \in Procs, Block(p)
      PROVE  Links'
  BY <1>19 DEF Block, Goto, Unchanged
<1>20. ASSUME NEW p \in Procs, Kill(p)
      PROVE  Links'
  BY <1>20 DEF Kill, Abandon, KillWriter, Unchanged
<1>21. ASSUME HostCrash
      PROVE  Links'
  <2>1. /\ pc' = [p \in Procs |-> IF pc[p] \in Running THEN "dead" ELSE pc[p]]
        /\ txn' = [p \in Procs |-> IF pc[p] \in Running THEN "idle" ELSE txn[p]]
        /\ append' = [p \in Procs |->
             IF append[p] \in {"locking"} \union Holding THEN "dead" ELSE append[p]]
        /\ UNCHANGED <<want, decision, event, started, envelope, inbox, trusted, clock>>
    BY <1>21 DEF HostCrash, Abandon, LoseUnsynced, Unchanged
  <2>2. GateTypes'
    BY <2>1
  <2>3. \A p \in Procs :
          /\ pc'[p] \notin Running
          /\ pc'[p] = "ready" => pc[p] = "ready" /\ txn'[p] = txn[p]
          /\ pc'[p] = "answered" => /\ pc[p] = "answered" /\ txn'[p] = txn[p]
                                    /\ append'[p] = append[p]
    BY <2>1 DEF Holding
  <2>4. Ordered' /\ AllowRests' /\ TrueMeansAllow'
    BY <2>1, <2>3
  <2> QED
    BY <2>2, <2>4
<1>22. ASSUME NEW r \in Requests, NEW e \in Envelopes, FileEnvelope(r, e)
      PROVE  Links'
  <2>1. inbox' = [inbox EXCEPT ![r] = e] /\ UNCHANGED <<pc, event, started,
          envelope, trusted, clock, txn, want, append, decision>>
    BY <1>22 DEF FileEnvelope
  <2>2. GateTypes'
    BY <2>1
  <2> QED
    BY <2>1, <2>2
<1>23. ASSUME NEW k \in Keys, RevokeKey(k)
      PROVE  Links'
  BY <1>23 DEF RevokeKey
<1>24. ASSUME Tick
      PROVE  Links'
  BY <1>24 DEF Tick
<1>25. CASE UNCHANGED vars
  BY <1>25 DEF vars
<1> QED
  BY <1>1, <1>2, <1>3, <1>4, <1>5, <1>6, <1>7, <1>8, <1>9, <1>10, <1>11, <1>12, <1>13, <1>14, <1>15, <1>16, <1>17, <1>18, <1>19, <1>20, <1>21, <1>22, <1>23, <1>24, <1>25
  DEF GateNext, HookStep, Fault, Environment

\* A process decides the call it was started for.
LEMMA EventKept ==
  ASSUME [GateNext]_vars
  PROVE  event' = event
BY DEF GateNext, vars, gateVars, Start, HookStep, Fault, Environment,
       AuditPolicyUnavailable, DecideRoutine, RequireApproval,
       ApprovalMissing, LoadEnvelope, ResolveKey, KeyNotTrusted,
       VerifyAndConsume, RejectApproval, EvaluationError, InLedger,
       InLedgerFailure, Consumption, InAudit, InAuditFailure, Respond,
       DecisionNotRecorded, Block, Kill, HostCrash, FileEnvelope,
       RevokeKey, Tick, Record, Unchanged

\* No step puts a chunk of an unconsumed allow into the audit file.
LEMMA AllowRecordKept ==
  ASSUME GateInv, [GateNext]_vars
  PROVE  AllowRecordIsConsumed'
<1>1. rows \subseteq rows' /\ event' = event
  <2>1. rows \subseteq rows'
    BY StepOfLedger, RowsGrow
  <2>2. event' = event
    BY EventKept
  <2> QED
    BY <2>1, <2>2
<1>2. log \in Seq(Chunks) /\ durable \in 0 .. Len(log)
  BY DEF GateInv, AuditInv, AuditTypeOK
<1>3. ASSUME UNCHANGED log
      PROVE  AllowRecordIsConsumed'
  BY <1>1, <1>3 DEF GateInv, AllowRecordIsConsumed
<1>4. ASSUME LoseUnsynced
      PROVE  AllowRecordIsConsumed'
  <2>1. PICK kept \in durable .. Len(log) : log' = SubSeq(log, 1, kept)
    BY <1>4 DEF LoseUnsynced
  <2>2. kept \in 0 .. Len(log)
    BY <1>2, <2>1
  <2>3. Len(log') = kept /\ \A i \in 1 .. kept : log'[i] = log[i]
    BY <1>2, <2>1, <2>2, PrefixFacts
  <2> QED
    BY <1>1, <1>2, <2>2, <2>3 DEF GateInv, AllowRecordIsConsumed
<1>5. ASSUME NEW p \in Procs, InAudit(p)
      PROVE  AllowRecordIsConsumed'
  <2>1. ASSUME decision[p] = "allow", event[p] \in Requests
        PROVE  \E u \in rows : u.request = event[p]
    <3>1. pc[p] = "record"
      BY <1>5, <2>1 DEF InAudit, GateInv, Ordered
    <3>2. txn[p] = "true" /\ want[p] = UseOf(p)
      BY <2>1, <3>1 DEF GateInv, AllowRests, Checked
    <3>3. want[p] \in rows
      BY <3>2 DEF GateInv, LedgerInv, WinnersHaveRows
    <3> QED
      BY <3>2, <3>3 DEF UseOf
  <2>2. CASE UNCHANGED log
    BY <1>3, <2>2
  <2>3. ASSUME NEW part \in {"head", "tail"}, append[p] \in Holding,
               log' = Append(log, Chunk(p, part))
        PROVE  AllowRecordIsConsumed'
    <3>1. Chunk(p, part) \in Chunks
      BY <2>3 DEF Chunk, Chunks, GateInv, AuditInv, DecisionGiven
    <3>2. /\ Len(log') = Len(log) + 1
          /\ \A i \in 1 .. Len(log) : log'[i] = log[i]
          /\ log'[Len(log) + 1] = Chunk(p, part)
      BY <1>2, <2>3, <3>1, AppendFacts
    <3> QED
      BY <1>1, <1>2, <2>1, <3>2 DEF GateInv, AllowRecordIsConsumed, Chunk
  <2>4. ASSUME append[p] \in Holding,
               log' = log \o <<Chunk(p, "head"), Chunk(p, "tail")>>
        PROVE  AllowRecordIsConsumed'
    <3>1. Chunk(p, "head") \in Chunks /\ Chunk(p, "tail") \in Chunks
      BY <2>4 DEF Chunk, Chunks, GateInv, AuditInv, DecisionGiven
    <3>2. /\ Len(log') = Len(log) + 2
          /\ \A i \in 1 .. Len(log) : log'[i] = log[i]
          /\ log'[Len(log) + 1] = Chunk(p, "head")
          /\ log'[Len(log) + 2] = Chunk(p, "tail")
      BY <1>2, <2>4, <3>1, AppendTwoFacts
    <3> QED
      BY <1>1, <1>2, <2>1, <3>2 DEF GateInv, AllowRecordIsConsumed, Chunk
  <2> QED
    BY <1>5, <2>2, <2>3, <2>4
    DEF InAudit, AppendStep, TakeFlock, SizeLimit, SizeFits, WriteAll,
        ShortWrite, WriteRest, Fsync, Proceed, Holding
<1> QED
  BY <1>3, <1>4, <1>5
  DEF GateNext, vars, auditVars, Start, HookStep, Fault, Environment,
      AuditPolicyUnavailable, DecideRoutine, RequireApproval, ApprovalMissing,
      LoadEnvelope, ResolveKey, KeyNotTrusted, VerifyAndConsume,
      RejectApproval, EvaluationError, InLedger, InLedgerFailure, Consumption,
      InAuditFailure, RefuseFile, AppendFailure, Respond, DecisionNotRecorded,
      Block, Kill, KillWriter, HostCrash, FileEnvelope, RevokeKey, Tick,
      Record, AppendEvent, Unchanged

LEMMA GateStepInv ==
  ASSUME GateInv, [GateNext]_vars
  PROVE  GateInv'
<1>1. LedgerInv'
  BY StepOfLedger, LedgerStepInv DEF GateInv
<1>2. AuditInv'
  BY StepOfAudit, AuditStepInv DEF GateInv
<1> QED
  BY <1>1, <1>2, LinksKept, AllowRecordKept DEF GateInv

---------------------------------------------------------------------------
\* Every reachable state of the hook satisfies the inductive invariant.
THEOREM GateInvariant == GateSpec => []GateInv
<1>1. GateInv /\ [GateNext]_vars => GateInv'
  BY GateStepInv
<1> QED
  BY <1>1, GateInitInv, PTL DEF GateSpec

\* The variables keep their types.
THEOREM GateTypeCorrect == GateSpec => []GateTypeOK
<1>1. GateInv => GateTypeOK
  BY DEF GateInv, GateTypeOK, GateTypes, LedgerInv, AuditInv
<1> QED
  BY <1>1, GateInvariant, PTL

\* One approval, and one exact request, lets at most one call go.
THEOREM GateSingleUse == GateSpec => []SingleUse
<1>1. ASSUME GateInv, NEW p \in Procs, NEW q \in Procs,
             Released(p), Released(q), p # q
      PROVE  event[p] # event[q] /\ envelope[p].approval # envelope[q].approval
  <2>1. /\ txn[p] = "true" /\ want[p] = UseOf(p)
        /\ txn[q] = "true" /\ want[q] = UseOf(q)
    BY <1>1 DEF GateInv, AllowRests, Checked, Released
  <2>2. ~Collide(want[p], want[q])
    BY <1>1, <2>1 DEF GateInv, LedgerInv, WinnersDistinct
  <2> QED
    BY <2>1, <2>2 DEF Collide, UseOf
<1>2. GateInv => SingleUse
  BY <1>1 DEF SingleUse
<1> QED
  BY <1>2, GateInvariant, PTL

\* What is let go is what was checked, and it is consumed.
THEOREM GateReleasedIsApproved == GateSpec => []ReleasedIsApproved
<1>1. ASSUME GateInv, NEW p \in Procs, Released(p)
      PROVE  /\ Checked(p) /\ UseOf(p) \in rows
             /\ started[p] \in Nat
             /\ envelope[p].issued \in Nat /\ envelope[p].expires \in Nat
  <2>1. txn[p] = "true" /\ Checked(p) /\ want[p] = UseOf(p)
    BY <1>1 DEF GateInv, AllowRests, Checked, Released
  <2>2. want[p] \in rows
    BY <1>1, <2>1 DEF GateInv, LedgerInv, WinnersHaveRows
  <2>3. started[p] \in Nat
    BY <1>1 DEF GateInv, GateTypes
  <2>4. envelope[p].issued \in Nat /\ envelope[p].expires \in Nat
    BY <2>1, GateAssumption DEF Checked, EnvelopeRecords
  <2> QED
    BY <2>1, <2>2, <2>3, <2>4
<1>2. GateInv => ReleasedIsApproved
  BY <1>1, GateAssumption
  DEF ReleasedIsApproved, Checked, Acceptable, BindingOk, TimeOk, UseOf
<1> QED
  BY <1>2, GateInvariant, PTL

\* The provider never has an answer whose record a host crash could lose.
THEOREM GateAnswerIsDurable == GateSpec => []AnswerIsDurable
<1>1. GateInv => AnswerIsDurable
  BY DEF GateInv, Ordered, AuditInv, DoneIsDurable, AnswerIsDurable
<1> QED
  BY <1>1, GateInvariant, PTL

\* The audit file shows no allow of a request for which no approval is consumed.
THEOREM GateAllowRecordIsConsumed == GateSpec => []AllowRecordIsConsumed
<1>1. GateInv => AllowRecordIsConsumed
  BY DEF GateInv
<1> QED
  BY <1>1, GateInvariant, PTL

\* The ledger's and the audit file's own invariants hold in the whole.
THEOREM GateStoresSafe ==
  GateSpec => [](RowsUnique /\ SizeBounded /\ RecordsNotInterleaved)
<1>1. GateInv => RowsUnique /\ SizeBounded /\ RecordsNotInterleaved
  BY DEF GateInv, LedgerInv, AuditInv
<1> QED
  BY <1>1, GateInvariant, PTL

---------------------------------------------------------------------------
\* Refinement.  The abstract grant of a process is the use it consumed, from
\* COMMIT on and for as long as it may still let the call go.
Granted == [p \in Procs |-> Grant(p)]
ReleasedSet == {p \in Procs : Released(p)}

\* A step that changes no grant, no row and no answer is a stutter.
LEMMA QuietSteps ==
  ASSUME GateInv, NEW p \in Procs,
         \/ Start(p) \/ AuditPolicyUnavailable(p) \/ DecideRoutine(p)
         \/ RequireApproval(p) \/ ApprovalMissing(p) \/ LoadEnvelope(p)
         \/ ResolveKey(p) \/ KeyNotTrusted(p) \/ VerifyAndConsume(p)
         \/ RejectApproval(p) \/ EvaluationError(p) \/ InLedgerFailure(p)
         \/ Consumption(p) \/ InAudit(p) \/ InAuditFailure(p) \/ Block(p)
  PROVE  UNCHANGED <<rows, Granted, ReleasedSet>>
<1> USE DEF GateInv, GateTypes, Ordered, LedgerInv, LedgerTypeOK, AuditInv,
            AuditTypeOK, PcStates, Running, Final, Outcomes, InTransaction,
            BeforeConsume, ledgerVars, auditVars, gateVars
<1>1. rows' = rows /\ event' = event
  BY DEF Start, AuditPolicyUnavailable, DecideRoutine, RequireApproval,
         ApprovalMissing, LoadEnvelope, ResolveKey, KeyNotTrusted,
         VerifyAndConsume, RejectApproval, EvaluationError, InLedgerFailure,
         Consumption, InAudit, InAuditFailure, Block, Record, Consume,
         LedgerFailure, Unchanged
<1>2. ASSUME NEW q \in Procs
      PROVE  Grant(q)' = Grant(q)
  <2>1. CASE InAudit(p) \/ InAuditFailure(p)
    BY <2>1 DEF InAudit, InAuditFailure, Grant
  <2>2. CASE VerifyAndConsume(p)
    BY <2>2 DEF VerifyAndConsume, Goto, Consume, Grant
  <2>3. CASE InLedgerFailure(p)
    BY <2>3 DEF InLedgerFailure, LedgerFailure, Grant
  <2>4. CASE \/ Start(p) \/ AuditPolicyUnavailable(p) \/ RequireApproval(p)
             \/ LoadEnvelope(p) \/ ResolveKey(p) \/ Block(p)
    BY <2>4
    DEF Start, AuditPolicyUnavailable, RequireApproval, LoadEnvelope,
        ResolveKey, Block, Goto, Unchanged, Grant
  <2>5. CASE \/ DecideRoutine(p) \/ ApprovalMissing(p) \/ KeyNotTrusted(p)
             \/ RejectApproval(p) \/ EvaluationError(p)
    <3>1. txn[p] = "idle" /\ pc[p] \in BeforeConsume /\ UNCHANGED <<txn, want>>
      BY <2>5
      DEF DecideRoutine, ApprovalMissing, KeyNotTrusted, RejectApproval,
          EvaluationError, Record, Goto
    <3>2. \E to : pc' = [pc EXCEPT ![p] = to]
      BY <2>5
      DEF DecideRoutine, ApprovalMissing, KeyNotTrusted, RejectApproval,
          EvaluationError, Record, Goto
    <3> QED
      BY <3>1, <3>2 DEF Grant
  <2>6. CASE Consumption(p)
    <3>1. txn[p] = "true" => pc' = [pc EXCEPT ![p] = "record"]
      BY <2>6 DEF Consumption, Record, Goto, DecisionOf
    <3>2. \E to : pc' = [pc EXCEPT ![p] = to]
      BY <2>6 DEF Consumption, Record, Goto
    <3>3. pc[p] = "consume" /\ UNCHANGED <<txn, want>>
      BY <2>6 DEF Consumption, Record, Goto
    <3> QED
      BY <3>1, <3>2, <3>3 DEF Grant
  <2> QED
    BY <2>1, <2>2, <2>3, <2>4, <2>5, <2>6
<1>3. ASSUME NEW q \in Procs
      PROVE  Released(q)' = Released(q)
  <2>1. CASE InAudit(p) \/ InAuditFailure(p)
    <3>1. UNCHANGED <<pc, event>>
      BY <2>1 DEF InAudit, InAuditFailure
    <3>2. decision' = decision
      BY <2>1
      DEF InAudit, InAuditFailure, AppendStep, RefuseFile, AppendFailure,
          TakeFlock, SizeLimit, SizeFits, WriteAll, ShortWrite, WriteRest,
          Fsync, Proceed
    <3> QED
      BY <3>1, <3>2 DEF Released
  <2>2. CASE VerifyAndConsume(p) \/ InLedgerFailure(p)
    BY <2>2 DEF VerifyAndConsume, Goto, Unchanged, InLedgerFailure, Released
  <2>3. CASE \/ Start(p) \/ AuditPolicyUnavailable(p) \/ RequireApproval(p)
             \/ LoadEnvelope(p) \/ ResolveKey(p) \/ Block(p)
    BY <2>3
    DEF Start, AuditPolicyUnavailable, RequireApproval, LoadEnvelope,
        ResolveKey, Block, Goto, Unchanged, Released
  <2>4. CASE \/ DecideRoutine(p) \/ ApprovalMissing(p) \/ KeyNotTrusted(p)
             \/ RejectApproval(p) \/ EvaluationError(p) \/ Consumption(p)
    <3>1. \E from \in {"evaluate", "lookup", "resolve", "verify", "consume"},
             d \in {"allow", "deny", "error"} : Record(p, from, d)
      BY <2>4
      DEF DecideRoutine, ApprovalMissing, KeyNotTrusted, RejectApproval,
          EvaluationError, Consumption, DecisionOf
    <3>2. PICK to \in {"record", "recordError"}, d \in {"allow", "deny", "error"} :
            /\ pc[p] # "answered" /\ pc' = [pc EXCEPT ![p] = to]
            /\ decision' = [decision EXCEPT ![p] = d]
      BY <3>1 DEF Record, Goto, AppendEvent
    <3> QED
      BY <1>1, <3>2 DEF Released
  <2> QED
    BY <2>1, <2>2, <2>3, <2>4
<1> HIDE DEF GateInv
<1> QED
  BY <1>1, <1>2, <1>3 DEF Granted, ReleasedSet

\* Every step of the hook is a step of the abstract single-use approval or
\* leaves it alone.
LEMMA AbstractStep ==
  ASSUME GateInv, [GateNext]_vars
  PROVE  [Abstract!Next]_<<rows, Granted, ReleasedSet>>
<1> USE DEF Abstract!Next, Granted, ReleasedSet
<1>1. ASSUME NEW p \in Procs, InLedger(p)
      PROVE  Abstract!Next \/ UNCHANGED <<rows, Granted, ReleasedSet>>
  <2>1. pc[p] = "consume" /\ UNCHANGED <<pc, decision, event, want>>
    BY <1>1 DEF InLedger, ConsumeStep, BeginImmediate, BusyTimeout, InsertRow,
                RefuseReplay, Commit, gateVars, auditVars
  <2>2. ReleasedSet' = ReleasedSet
    BY <2>1 DEF Released
  <2>3. CASE Commit(p)
    <3>1. /\ txn[p] = "commit" /\ txn' = [txn EXCEPT ![p] = "true"]
          /\ rows' = rows \union {want[p]}
      BY <2>3 DEF Commit, Move
    <3>2. want[p] \in Uses /\ ~Consumed(want[p])
      BY <3>1 DEF GateInv, LedgerInv, WantGiven, InsertStillFresh
    <3>3. Grant(p) = NoUse
      BY <3>1 DEF Grant
    <3>4. Granted' = [Granted EXCEPT ![p] = want[p]]
      BY <2>1, <3>1 DEF Grant, GateInv, LedgerInv, LedgerTypeOK
    <3>5. Abstract!Fresh(want[p])
      BY <3>2 DEF Abstract!Fresh, Consumed, Collide
    <3>6. Abstract!Spend(p, want[p])
      BY <2>2, <3>1, <3>3, <3>4, <3>5 DEF Abstract!Spend
    <3> QED
      BY <3>2, <3>6 DEF Abstract!Uses, Uses
  <2>4. CASE ~Commit(p)
    <3>1. rows' = rows
      BY <1>1, <2>4 DEF InLedger, ConsumeStep, BeginImmediate, BusyTimeout,
                        InsertRow, RefuseReplay
    <3>2. \E to : txn' = [txn EXCEPT ![p] = to] /\ to # "true" /\ txn[p] # "true"
      BY <1>1, <2>4 DEF InLedger, ConsumeStep, BeginImmediate, BusyTimeout,
                        InsertRow, RefuseReplay, Move
    <3>3. Granted' = Granted
      BY <2>1, <3>2 DEF Grant, GateInv, LedgerInv, LedgerTypeOK
    <3> QED
      BY <2>2, <3>1, <3>3
  <2> QED
    BY <2>3, <2>4
<1>2. ASSUME NEW p \in Procs, Respond(p)
      PROVE  Abstract!Next \/ UNCHANGED <<rows, Granted, ReleasedSet>>
  <2>1. /\ pc[p] = "record" /\ pc' = [pc EXCEPT ![p] = "answered"]
        /\ UNCHANGED <<rows, txn, want, decision, event>>
    BY <1>2 DEF Respond, Goto, Unchanged, ledgerVars, auditVars
  <2>2. Granted' = Granted
    BY <2>1 DEF Grant, GateInv, GateTypes
  <2>3. CASE decision[p] = "allow" /\ event[p] \in Requests
    <3>1. txn[p] = "true" /\ want[p] \in Uses
      BY <2>1, <2>3 DEF GateInv, AllowRests, LedgerInv, WantGiven
    <3>2. Grant(p) # NoUse
      BY <2>1, <3>1, NoUseAssumption DEF Grant
    <3>3. ReleasedSet' = ReleasedSet \union {p}
      BY <2>1, <2>3 DEF Released, GateInv, GateTypes
    <3> QED
      BY <2>1, <2>2, <3>2, <3>3 DEF Abstract!Release
  <2>4. CASE ~(decision[p] = "allow" /\ event[p] \in Requests)
    BY <2>1, <2>2, <2>4 DEF Released, GateInv, GateTypes
  <2> QED
    BY <2>3, <2>4
<1>3. ASSUME NEW lost \in SUBSET Procs, rows' = rows,
             \A p \in Procs : Released(p)' = Released(p),
             \A p \in lost : ~Released(p) /\ Grant(p)' = NoUse,
             \A p \in Procs \ lost : Grant(p)' = Grant(p)
      PROVE  Abstract!Next
  <2>1. Granted' = [p \in Procs |-> IF p \in lost THEN NoUse ELSE Granted[p]]
    BY <1>3
  <2>2. ReleasedSet' = ReleasedSet /\ lost \subseteq Procs \ ReleasedSet
    BY <1>3
  <2> HIDE DEF Granted, ReleasedSet
  <2>3. Abstract!Forfeit(lost)
    BY <1>3, <2>1, <2>2 DEF Abstract!Forfeit, Granted, ReleasedSet
  <2> QED
    BY <2>3
<1>4. ASSUME NEW p \in Procs, DecisionNotRecorded(p)
      PROVE  Abstract!Next
  <2>1. /\ pc[p] = "record" /\ pc' = [pc EXCEPT ![p] = "recordError"]
        /\ decision' = [decision EXCEPT ![p] = "error"]
        /\ UNCHANGED <<rows, txn, want, event>>
    BY <1>4 DEF DecisionNotRecorded, Record, Goto, AppendEvent, Unchanged,
                ledgerVars
  <2>2. \A q \in Procs : Released(q)' = Released(q)
    BY <2>1 DEF Released, GateInv, GateTypes, AuditInv, AuditTypeOK
  <2>3. ~Released(p) /\ Grant(p)' = NoUse
    BY <2>1 DEF Released, Grant, GateInv, GateTypes
  <2>4. \A q \in Procs \ {p} : Grant(q)' = Grant(q)
    BY <2>1 DEF Grant, GateInv, GateTypes
  <2>5. {p} \in SUBSET Procs /\ \A q \in {p} : ~Released(q) /\ Grant(q)' = NoUse
    BY <2>3
  <2>6. rows' = rows
    BY <2>1
  <2> HIDE DEF Abstract!Next, Granted, ReleasedSet
  <2> QED
    BY <1>3, <2>2, <2>4, <2>5, <2>6
<1>5. ASSUME NEW p \in Procs, Kill(p)
      PROVE  Abstract!Next
  <2>1. /\ pc[p] \in Running /\ pc' = [pc EXCEPT ![p] = "dead"]
        /\ txn' = [q \in Procs |-> IF q \in {p} THEN "idle" ELSE txn[q]]
        /\ UNCHANGED <<rows, want, decision, event>>
    BY <1>5 DEF Kill, Abandon, KillWriter, Unchanged
  <2>2. \A q \in Procs : Released(q)' = Released(q)
    BY <2>1 DEF Released, Running, GateInv, GateTypes
  <2>3. ~Released(p) /\ Grant(p)' = NoUse
    BY <2>1 DEF Released, Grant, Running, GateInv, GateTypes
  <2>4. \A q \in Procs \ {p} : Grant(q)' = Grant(q)
    BY <2>1 DEF Grant, GateInv, GateTypes
  <2>5. {p} \in SUBSET Procs /\ \A q \in {p} : ~Released(q) /\ Grant(q)' = NoUse
    BY <2>3
  <2>6. rows' = rows
    BY <2>1
  <2> HIDE DEF Abstract!Next, Granted, ReleasedSet
  <2> QED
    BY <1>3, <2>2, <2>4, <2>5, <2>6
<1>6. ASSUME HostCrash
      PROVE  Abstract!Next
  <2> DEFINE gone == {p \in Procs : pc[p] \in Running}
  <2>1. /\ pc' = [p \in Procs |-> IF pc[p] \in Running THEN "dead" ELSE pc[p]]
        /\ txn' = [p \in Procs |-> IF pc[p] \in Running THEN "idle" ELSE txn[p]]
        /\ UNCHANGED <<rows, want, decision, event>>
    BY <1>6 DEF HostCrash, Abandon, LoseUnsynced, Unchanged
  <2>2. \A q \in Procs : Released(q)' = Released(q)
    BY <2>1 DEF Released, Running
  <2>3. \A q \in gone : ~Released(q) /\ Grant(q)' = NoUse
    BY <2>1 DEF Released, Grant, Running
  <2>4. \A q \in Procs \ gone : Grant(q)' = Grant(q)
    BY <2>1 DEF Grant
  <2>5. gone \in SUBSET Procs
    OBVIOUS
  <2> HIDE DEF gone
  <2> QED
    BY <1>3, <2>1, <2>2, <2>3, <2>4, <2>5
<1>7. ASSUME UNCHANGED vars
      PROVE  UNCHANGED <<rows, Granted, ReleasedSet>>
  BY <1>7 DEF vars, ledgerVars, auditVars, gateVars, Grant, Released
<1>8. ASSUME \/ \E r \in Requests, e \in Envelopes : FileEnvelope(r, e)
             \/ \E k \in Keys : RevokeKey(k)
             \/ Tick
      PROVE  UNCHANGED <<rows, Granted, ReleasedSet>>
  BY <1>8 DEF FileEnvelope, RevokeKey, Tick, ledgerVars, auditVars, Grant, Released
<1> QED
  BY <1>1, <1>2, <1>4, <1>5, <1>6, <1>7, <1>8, QuietSteps
  DEF GateNext, HookStep, Fault, Environment

\* The hooks, ledger and audit file implement the abstract specification:
\* whatever they do, an approval is spent atomically and at most once.
THEOREM GateImplementsSingleUse == GateSpec => ImplementsSingleUse
<1>1. GateInit => Abstract!Init
  BY DEF GateInit, LedgerInit, Abstract!Init, Grant, Released
<1>2. GateInv /\ [GateNext]_vars => [Abstract!Next]_(Abstract!abstractVars)
  BY AbstractStep DEF Abstract!abstractVars, Granted, ReleasedSet
<1> QED
  BY <1>1, <1>2, GateInvariant, PTL
  DEF GateSpec, ImplementsSingleUse, Abstract!Spec

---------------------------------------------------------------------------
\* The request of the process is consumed, and not by the process itself.
Burned(p) ==
  /\ \E u \in rows : u.request = event[p]
  /\ txn[p] \notin {"commit", "true"}

\* A process whose request is consumed is refused by the INSERT.
LEMMA NotConsumedAgain ==
  ASSUME GateInv, NEW p \in Procs, Burned(p), NEW q \in Procs, InLedger(q)
  PROVE  txn'[p] \notin {"commit", "true"}
<1>1. txn \in [Procs -> TxnStates] /\ txn[p] \notin {"commit", "true"}
  BY DEF GateInv, LedgerInv, LedgerTypeOK, Burned
<1>2. CASE q # p
  BY <1>1, <1>2 DEF InLedger, ConsumeStep, BeginImmediate, BusyTimeout, InsertRow,
                    RefuseReplay, Commit, Move
<1>3. CASE q = p
  <2>1. want[p].request = event[p]
    <3>1. pc[p] = "consume"
      BY <1>3 DEF InLedger
    <3>2. want[p] = UseOf(p)
      BY <3>1 DEF GateInv, Ordered, Checked
    <3> QED
      BY <3>2 DEF UseOf
  <2>2. ~InsertRow(p)
    BY <2>1 DEF InsertRow, Burned, Consumed, Collide
  <2>3. BeginImmediate(p) \/ BusyTimeout(p) \/ RefuseReplay(p) \/ Commit(p)
    BY <1>3, <2>2 DEF InLedger, ConsumeStep
  <2> QED
    BY <1>1, <2>3 DEF BeginImmediate, BusyTimeout, RefuseReplay, Commit, Move
<1> QED
  BY <1>2, <1>3

\* No step of anybody makes a burned request usable.
LEMMA BurnedKept ==
  ASSUME GateInv, NEW p \in Procs, Burned(p), [GateNext]_vars
  PROVE  Burned(p)'
<1>1. rows \subseteq rows' /\ event' = event
  BY StepOfLedger, RowsGrow, EventKept
<1>2. ASSUME NEW q \in Procs, VerifyAndConsume(q)
      PROVE  txn'[p] \notin {"commit", "true"}
  BY <1>2 DEF VerifyAndConsume, Consume, Burned, GateInv, LedgerInv, LedgerTypeOK
<1>3. ASSUME NEW q \in Procs, InLedgerFailure(q)
      PROVE  txn'[p] \notin {"commit", "true"}
  BY <1>3 DEF InLedgerFailure, LedgerFailure, Burned, GateInv, LedgerInv, LedgerTypeOK
<1>4. ASSUME NEW gone, Abandon(gone)
      PROVE  txn'[p] \notin {"commit", "true"}
  BY <1>4 DEF Abandon, Burned
<1>5. \/ \E q \in Procs :
             VerifyAndConsume(q) \/ InLedger(q) \/ InLedgerFailure(q)
      \/ \E gone : Abandon(gone)
      \/ UNCHANGED txn
  BY DEF GateNext, vars, ledgerVars, Start, HookStep, Fault, Environment,
      AuditPolicyUnavailable, DecideRoutine, RequireApproval, ApprovalMissing,
      LoadEnvelope, ResolveKey, KeyNotTrusted, RejectApproval, EvaluationError,
      Consumption, InAudit, InAuditFailure, Respond, DecisionNotRecorded,
      Block, Kill, HostCrash, FileEnvelope, RevokeKey, Tick, Record, Unchanged
<1>6. txn'[p] \notin {"commit", "true"}
  <2>1. CASE UNCHANGED txn
    BY <2>1 DEF Burned
  <2> QED
    BY <1>2, <1>3, <1>4, <1>5, <2>1, NotConsumedAgain
<1> QED
  BY <1>1, <1>6 DEF Burned

\* BurnedStaysBurned: a request that is consumed before a process begins to
\* consume it is never let go by that process, also when whoever consumed it
\* was killed or blocked before it answered.
THEOREM GateBurnedStaysBurned == GateSpec => BurnedStaysBurned
<1>1. ASSUME NEW p \in Procs
      PROVE  GateSpec =>
               []( /\ pc[p] \in {"ready", "evaluate", "lookup", "resolve", "verify"}
                   /\ \E u \in rows : u.request = event[p]
                   => []~Released(p))
  <2> DEFINE Behind == /\ pc[p] \in {"ready", "evaluate", "lookup", "resolve", "verify"}
                       /\ \E u \in rows : u.request = event[p]
  <2>1. GateInv /\ Behind => Burned(p)
    BY DEF GateInv, Ordered, BeforeConsume, Burned
  <2>2. GateInv /\ Burned(p) /\ [GateNext]_vars => Burned(p)'
    BY BurnedKept
  <2>3. GateInv /\ Burned(p) => ~Released(p)
    BY DEF GateInv, AllowRests, Burned, Released
  <2>4. GateSpec => [](Behind => []~Released(p))
    <3> HIDE DEF Behind
    <3> QED
      BY <2>1, <2>2, <2>3, GateInvariant, PTL DEF GateSpec
  <2> QED
    BY <2>4
<1> QED
  BY <1>1 DEF BurnedStaysBurned
=============================================================================
