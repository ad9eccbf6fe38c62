--------------------------- MODULE ApprovalLedger ---------------------------
(***************************************************************************)
(* The local SQLite ledger of consumed approvals that every PSB-AI-004     *)
(* hook process shares (scripts/signed_approval.py, consume_once).  Each   *)
(* consumer is an operating-system process that calls consume_once for one *)
(* use: an approval identifier together with the digest of the request it  *)
(* was issued for.  A call is one SQLite write transaction; its statements *)
(* are separate steps here because other processes, and a kill, come       *)
(* between them.                                                           *)
(***************************************************************************)
EXTENDS HookProcesses

CONSTANTS
  Approvals, Requests,
  NoUse   \* a process that has not called consume_once

VARIABLES
  rows,   \* committed rows of the table approval_consumption
  lock,   \* the process inside BEGIN IMMEDIATE, or NoProc
  txn,    \* where each process is inside consume_once
  want    \* the use each process passed to consume_once

ledgerVars == <<rows, lock, txn, want>>

Uses == [approval : Approvals, request : Requests]

ASSUME NoUseAssumption == NoUse \notin Uses

\* "true" and "false" are the two results of consume_once, "error" the
\* EvaluationError it raises, "idle" a process that is not inside it.
Outcomes == {"true", "false", "error"}
InTransaction == {"insert", "commit"}
TxnStates == {"idle", "begin"} \union InTransaction \union Outcomes

\* The table's two uniqueness constraints: PRIMARY KEY and UNIQUE.
Collide(u, v) == u.approval = v.approval \/ u.request = v.request
\* Wrong variant: the table without UNIQUE on request_digest.
ConsumedByApprovalOnly(u) == \E row \in rows : row.approval = u.approval
Consumed(u) == \E row \in rows : Collide(row, u)

LedgerInit ==
  /\ rows = {}
  /\ lock = NoProc
  /\ txn = [p \in Procs |-> "idle"]
  /\ want = [p \in Procs |-> NoUse]

---------------------------------------------------------------------------
Move(p, from, to) ==
  /\ txn[p] = from
  /\ txn' = [txn EXCEPT ![p] = to]

\* ROLLBACK, COMMIT and closing the connection all give the lock back.
Unlock(p) == lock' = IF lock = p THEN NoProc ELSE lock

Consume(p, u) ==
  /\ txn[p] \in Outcomes \union {"idle"}
  /\ txn' = [txn EXCEPT ![p] = "begin"]
  /\ want' = [want EXCEPT ![p] = u]
  /\ UNCHANGED <<rows, lock>>

\* Wrong variant: BEGIN without a write lock before the uniqueness test.
BeginWithoutLock(p) ==
  /\ Move(p, "begin", "insert")
  /\ UNCHANGED <<rows, lock, want>>

BeginImmediate(p) ==
  /\ Move(p, "begin", "insert")
  /\ lock = NoProc
  /\ lock' = p
  /\ UNCHANGED <<rows, want>>

\* busy_timeout expires while another process keeps the write lock.
BusyTimeout(p) ==
  /\ Move(p, "begin", "error")
  /\ lock # NoProc
  /\ UNCHANGED <<rows, lock, want>>

InsertRow(p) ==
  /\ Move(p, "insert", "commit")
  /\ ~Consumed(want[p])
  /\ UNCHANGED <<rows, lock, want>>

\* sqlite3.IntegrityError: the row is rolled back and the call returns False.
RefuseReplay(p) ==
  /\ Move(p, "insert", "false")
  /\ Consumed(want[p])
  /\ Unlock(p)
  /\ UNCHANGED <<rows, want>>

\* Wrong variant: True is returned and the connection closed without COMMIT.
ForgetCommit(p) ==
  /\ Move(p, "commit", "true")
  /\ Unlock(p)
  /\ UNCHANGED <<rows, want>>

Commit(p) ==
  /\ Move(p, "commit", "true")
  /\ rows' = rows \union {want[p]}
  /\ Unlock(p)
  /\ UNCHANGED want

\* The ledger file or the connection is unavailable, or a statement raises
\* sqlite3.Error: the open transaction is rolled back.
LedgerFailure(p) ==
  /\ txn[p] \in {"begin"} \union InTransaction
  /\ txn' = [txn EXCEPT ![p] = "error"]
  /\ Unlock(p)
  /\ UNCHANGED <<rows, want>>

\* Processes are killed wherever they stand.  The kernel drops their locks
\* and the journal undoes what they had not committed.
Abandon(gone) ==
  /\ txn' = [p \in Procs |-> IF p \in gone THEN "idle" ELSE txn[p]]
  /\ lock' = IF lock \in gone THEN NoProc ELSE lock
  /\ UNCHANGED <<rows, want>>

---------------------------------------------------------------------------
\* One step of the code of consume_once when nothing breaks under it.
ConsumeStep(p) ==
  \/ BeginImmediate(p)
  \/ BusyTimeout(p)
  \/ InsertRow(p)
  \/ RefuseReplay(p)
  \/ Commit(p)

LedgerNext ==
  \/ \E p \in Procs :
       \/ \E u \in Uses : Consume(p, u)
       \/ ConsumeStep(p)
       \/ LedgerFailure(p)
  \/ \E gone \in SUBSET Procs : Abandon(gone)

LedgerSpec == LedgerInit /\ [][LedgerNext]_ledgerVars

---------------------------------------------------------------------------
LedgerTypeOK ==
  /\ rows \subseteq Uses
  /\ lock \in Procs \union {NoProc}
  /\ txn \in [Procs -> TxnStates]
  /\ want \in [Procs -> Uses \union {NoUse}]

\* No approval and no request is consumed twice: two committed rows never
\* share an approval identifier or a request digest, however the
\* transactions of competing hooks interleave and wherever they are killed.
RowsUnique ==
  \A u, v \in rows : Collide(u, v) => u = v

\* consume_once turns True only for a use that nothing had consumed before:
\* also when the process that consumed it was killed before it answered.
FirstUseOnly ==
  [][\A p \in Procs :
       txn'[p] = "true" /\ txn[p] # "true" => ~Consumed(want[p])]_ledgerVars
=============================================================================
