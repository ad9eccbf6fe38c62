------------------------ MODULE ApprovalLedger_proofs ------------------------
(***************************************************************************)
(* Proofs about the ledger of consumed approvals, for any number of        *)
(* processes, approvals and requests.  RowsUnique is not inductive: that   *)
(* COMMIT adds no colliding row needs that the test made by INSERT is      *)
(* still true, hence that the write lock excludes the other committers.    *)
(***************************************************************************)
EXTENDS ApprovalLedger, TLAPS

\* A process inside the transaction is the one that holds the write lock.
LockHeld == \A p \in Procs : txn[p] \in InTransaction => lock = p

\* A process that is inside consume_once or has left it has passed a use.
WantGiven == \A p \in Procs : txn[p] # "idle" => want[p] \in Uses

\* What INSERT tested still holds at COMMIT.
InsertStillFresh == \A p \in Procs : txn[p] = "commit" => ~Consumed(want[p])

WinnersHaveRows == \A p \in Procs : txn[p] = "true" => want[p] \in rows

WinnersDistinct ==
  \A p, q \in Procs :
    txn[p] = "true" /\ txn[q] = "true" /\ p # q => ~Collide(want[p], want[q])

LedgerInv ==
  /\ LedgerTypeOK
  /\ LockHeld
  /\ WantGiven
  /\ InsertStillFresh
  /\ RowsUnique
  /\ WinnersHaveRows
  /\ WinnersDistinct

---------------------------------------------------------------------------
\* The ledger starts empty and unlocked, with no process inside.
LEMMA LedgerInitInv == LedgerInit => LedgerInv
  BY NoProcAssumption
  DEF LedgerInit, LedgerInv, LedgerTypeOK, LockHeld, WantGiven,
      InsertStillFresh, RowsUnique, WinnersHaveRows, WinnersDistinct,
      InTransaction, TxnStates, Outcomes

\* Every statement of consume_once, every failure and every kill keeps the
\* ledger's invariant.
LEMMA LedgerStepInv ==
  ASSUME LedgerInv, [LedgerNext]_ledgerVars
  PROVE  LedgerInv'
<1> USE NoProcAssumption DEF InTransaction, TxnStates, Outcomes
<1>1. ASSUME NEW p \in Procs, NEW u \in Uses, Consume(p, u)
      PROVE  LedgerInv'
  BY <1>1
  DEF LedgerInv, LedgerTypeOK, LockHeld, WantGiven, InsertStillFresh,
      RowsUnique, WinnersHaveRows, WinnersDistinct, Consume, Consumed
<1>2. ASSUME NEW p \in Procs, BeginImmediate(p)
      PROVE  LedgerInv'
  BY <1>2
  DEF LedgerInv, LedgerTypeOK, LockHeld, WantGiven, InsertStillFresh,
      RowsUnique, WinnersHaveRows, WinnersDistinct, BeginImmediate, Move,
      Consumed
<1>3. ASSUME NEW p \in Procs, BusyTimeout(p)
      PROVE  LedgerInv'
  BY <1>3
  DEF LedgerInv, LedgerTypeOK, LockHeld, WantGiven, InsertStillFresh,
      RowsUnique, WinnersHaveRows, WinnersDistinct, BusyTimeout, Move,
      Consumed
<1>4. ASSUME NEW p \in Procs, InsertRow(p)
      PROVE  LedgerInv'
  BY <1>4
  DEF LedgerInv, LedgerTypeOK, LockHeld, WantGiven, InsertStillFresh,
      RowsUnique, WinnersHaveRows, WinnersDistinct, InsertRow, Move, Consumed
<1>5. ASSUME NEW p \in Procs, RefuseReplay(p)
      PROVE  LedgerInv'
  BY <1>5
  DEF LedgerInv, LedgerTypeOK, LockHeld, WantGiven, InsertStillFresh,
      RowsUnique, WinnersHaveRows, WinnersDistinct, RefuseReplay, Move,
      Unlock, Consumed
<1>6. ASSUME NEW p \in Procs, Commit(p)
      PROVE  LedgerInv'
  <2>1. txn[p] = "commit" /\ lock = p /\ want[p] \in Uses /\ ~Consumed(want[p])
    BY <1>6 DEF LedgerInv, LockHeld, WantGiven, InsertStillFresh, Commit, Move
  <2>2. rows' = rows \union {want[p]} /\ want' = want /\ lock' = NoProc
    BY <1>6, <2>1 DEF Commit, Unlock
  <2>3. txn' = [txn EXCEPT ![p] = "true"]
    BY <1>6 DEF Commit, Move
  <2>4. LedgerTypeOK' /\ LockHeld' /\ WantGiven'
    BY <2>1, <2>2, <2>3 DEF LedgerInv, LedgerTypeOK, LockHeld, WantGiven
  <2>5. InsertStillFresh'
    \* Nobody else is between INSERT and COMMIT.
    BY <2>1, <2>2, <2>3
    DEF LedgerInv, LedgerTypeOK, LockHeld, InsertStillFresh
  <2>6. RowsUnique' /\ WinnersHaveRows'
    BY <2>1, <2>2, <2>3
    DEF LedgerInv, LedgerTypeOK, RowsUnique, WinnersHaveRows, Consumed, Collide
  <2>7. WinnersDistinct'
    BY <2>1, <2>2, <2>3
    DEF LedgerInv, LedgerTypeOK, WinnersHaveRows, WinnersDistinct, Consumed,
        Collide
  <2> QED
    BY <2>4, <2>5, <2>6, <2>7 DEF LedgerInv
<1>7. ASSUME NEW p \in Procs, LedgerFailure(p)
      PROVE  LedgerInv'
  BY <1>7
  DEF LedgerInv, LedgerTypeOK, LockHeld, WantGiven, InsertStillFresh,
      RowsUnique, WinnersHaveRows, WinnersDistinct, LedgerFailure, Unlock,
      Consumed
<1>8. ASSUME NEW gone \in SUBSET Procs, Abandon(gone)
      PROVE  LedgerInv'
  BY <1>8
  DEF LedgerInv, LedgerTypeOK, LockHeld, WantGiven, InsertStillFresh,
      RowsUnique, WinnersHaveRows, WinnersDistinct, Abandon, Consumed
<1>9. CASE UNCHANGED ledgerVars
  BY <1>9
  DEF ledgerVars, LedgerInv, LedgerTypeOK, LockHeld, WantGiven,
      InsertStillFresh, RowsUnique, WinnersHaveRows, WinnersDistinct, Consumed
<1> QED
  BY <1>1, <1>2, <1>3, <1>4, <1>5, <1>6, <1>7, <1>8, <1>9
  DEF LedgerNext, ConsumeStep

---------------------------------------------------------------------------
\* Every reachable state of the ledger satisfies the inductive invariant.
THEOREM LedgerInvariant == LedgerSpec => []LedgerInv
<1>1. LedgerInit => LedgerInv
  BY LedgerInitInv
<1>2. LedgerInv /\ [LedgerNext]_ledgerVars => LedgerInv'
  BY LedgerStepInv
<1> QED
  BY <1>1, <1>2, PTL DEF LedgerSpec

\* No two committed rows share an approval identifier or a request digest.
THEOREM LedgerRowsUnique == LedgerSpec => []RowsUnique
<1>1. LedgerInv => RowsUnique
  BY DEF LedgerInv
<1> QED
  BY <1>1, LedgerInvariant, PTL

\* A call of consume_once that turns True consumes a use whose approval and
\* whose request nothing had consumed before, in any earlier transaction.
THEOREM LedgerFirstUseOnly == LedgerSpec => FirstUseOnly
<1>1. ASSUME LedgerInv, [LedgerNext]_ledgerVars, NEW p \in Procs,
             txn'[p] = "true", txn[p] # "true"
      PROVE  ~Consumed(want[p])
  <2> USE DEF InTransaction, TxnStates, Outcomes
  <2>1. txn[p] = "commit"
    BY <1>1
    DEF LedgerInv, LedgerTypeOK, LedgerNext, ConsumeStep, ledgerVars, Consume,
        BeginImmediate, BusyTimeout, InsertRow, RefuseReplay, Commit,
        LedgerFailure, Abandon, Move
  <2> QED
    BY <1>1, <2>1 DEF LedgerInv, InsertStillFresh
<1>2. LedgerInv /\ [LedgerNext]_ledgerVars
        => [\A p \in Procs :
              txn'[p] = "true" /\ txn[p] # "true" => ~Consumed(want[p])]_ledgerVars
  BY <1>1
<1> QED
  BY <1>2, LedgerInvariant, PTL DEF LedgerSpec, FirstUseOnly
=============================================================================
