------------------------ MODULE AgentMessages_proofs ------------------------
(***************************************************************************)
(* Evidence that is made of messages: the reconciliation of side effects   *)
(* whose answers are lost, fleet snapshots that are delayed and reordered, *)
(* and delegations that are repeated and forged.  For any numbers of       *)
(* dispatches, records, snapshots and delegations, and any order of their  *)
(* arrival.                                                                *)
(***************************************************************************)
EXTENDS SideEffects, FleetEvidence, AgentDelegation, WellFoundedInduction, TLAPS

(* Side effects: what a passed reconciliation says of the backend.         *)

DispatchRecords ==
    [approval: {"original", "replacement"}, key: Keys, digest: Digests,
     outcome: {NoAnswer, "applied-response", "timeout"}, automatic: BOOLEAN]

EffectTypeOK ==
    /\ idempotent \in BOOLEAN
    /\ sent \in Seq(DispatchRecords)
    /\ travelling \subseteq 1..Len(sent)
    /\ booked \in [Keys -> Digests \cup {NoAnswer}]
    /\ mutations \in Nat

(* With idempotency the backend changes once for each key it has booked.   *)
Booked(k) == booked[k] # NoAnswer
Counted ==
    idempotent =>
        /\ ~Booked("key") /\ ~Booked("other key") => mutations = 0
        /\ Booked("key") /\ ~Booked("other key") => mutations = 1
        /\ ~Booked("key") /\ Booked("other key") => mutations = 1
        /\ Booked("key") /\ Booked("other key") => mutations = 2

(* A booked key is the key of a dispatch.                                  *)
BookedWasSent ==
    \A k \in Keys : booked[k] # NoAnswer => \E i \in 1..Len(sent) : sent[i].key = k

Completed == decision \in {"complete-no-retry", "retry-with-replacement-approval"}

(* What the verdict rests on, and what no late arrival takes away          *)
VerdictRests ==
    judged = "PASS" =>
        /\ idempotent
        /\ \A i \in 1..Len(sent) : sent[i].key = "key"
        /\ \A i, j \in 1..Len(sent) : sent[i].approval = sent[j].approval => i = j
        /\ Completed => booked["key"] # NoAnswer

EffectInv == EffectTypeOK /\ Counted /\ BookedWasSent /\ VerdictRests
-----------------------------------------------------------------------------
(* The verdict of Judge is about the dispatches, the lookup and the counter *)
(* at that moment.                                                         *)
LEMMA PassedCase ==
    ASSUME EffectTypeOK, Counted, BookedWasSent, EvaluateCase(Case) = "PASS"
    PROVE  /\ idempotent
           /\ \A i \in 1..Len(sent) : sent[i].key = "key"
           /\ \A i, j \in 1..Len(sent) : sent[i].approval = sent[j].approval => i = j
           /\ Completed => booked["key"] # NoAnswer
<1>1. CommonSafe(Case) /\ ExpectedScenarioState(Case)
  BY DEF EvaluateCase
<1>2. Len(sent) \in Nat /\ DOMAIN sent = 1..Len(sent) /\ Case.dispatches = sent
  BY DEF EffectTypeOK, Case
<1>3. idempotent /\ \A i \in 1..Len(sent) : sent[i].key = "key"
  BY <1>1, <1>2 DEF CommonSafe, SameRequest
<1>4. \A i, j \in 1..Len(sent) : sent[i].approval = sent[j].approval => i = j
  <2>1. /\ Len(sent) \in {1, 2} /\ sent[1].approval = "original"
        /\ Len(sent) = 2 => sent[2].approval = "replacement"
    BY <1>1, <1>2 DEF ExpectedScenarioState, Scenario, NoAnswer
  <2>2. \A i \in 1..Len(sent) : i = 1 \/ (i = 2 /\ Len(sent) = 2)
    BY <2>1, <1>2
  <2> QED
    BY <2>1, <2>2
<1>5. Completed => booked["key"] # NoAnswer
  <2> SUFFICES ASSUME Completed PROVE booked["key"] # NoAnswer
    OBVIOUS
  <2>1. lookup = "applied" /\ Case.count = 1
    BY <1>1 DEF ExpectedScenarioState, Scenario, Completed
  <2>2. mutations = 1
    BY <2>1 DEF Case
  <2>3. booked["other key"] = NoAnswer
    BY <1>3 DEF BookedWasSent, Keys
  <2>4. booked["key"] = NoAnswer => mutations = 0
    BY <1>3, <2>3 DEF Counted, Booked
  <2> QED
    BY <2>2, <2>4
<1> QED
  BY <1>3, <1>4, <1>5

(* EffectInv is kept by every step of executor, network, backend and       *)
(* verifier.                                                               *)
LEMMA EffectInvInductive == EffectInv /\ [EffectNext]_effectVars => EffectInv'
<1> SUFFICES ASSUME EffectInv, [EffectNext]_effectVars PROVE EffectInv'
  OBVIOUS
<1> USE DEF EffectInv
<1>1. ASSUME NEW a \in {"original", "replacement"}, NEW k \in Keys, NEW d \in Digests,
             Dispatch(a, k, d)
      PROVE  EffectInv'
  <2> DEFINE r == [approval |-> a, key |-> k, digest |-> d, outcome |-> NoAnswer,
                   automatic |-> sent # <<>> /\ decision = NoAnswer]
  <2>1. /\ sent' = Append(sent, r) /\ r \in DispatchRecords
        /\ travelling' = travelling \cup {Len(sent) + 1}
        /\ UNCHANGED <<idempotent, booked, mutations, decision, judged>>
        /\ judged = NoAnswer
    BY <1>1 DEF Dispatch, DispatchRecords, Keys, Digests, NoAnswer
  <2>2. /\ sent' \in Seq(DispatchRecords) /\ Len(sent') = Len(sent) + 1
        /\ Len(sent) \in Nat /\ \A i \in 1..Len(sent) : sent'[i] = sent[i]
    BY <2>1 DEF EffectTypeOK
  <2> HIDE DEF r
  <2>3. EffectTypeOK'
    <3>1. travelling \cup {Len(sent) + 1} \subseteq 1..Len(sent) + 1
      <4>1. travelling \subseteq 1..Len(sent) /\ Len(sent) \in Nat
        BY <2>2 DEF EffectTypeOK
      <4>2. \A n \in Nat : Len(sent) = n => n + 1 \in 1..n + 1 /\ 1..n \subseteq 1..n + 1
        OBVIOUS
      <4> QED
        BY <4>1, <4>2, Zenon
    <3> QED
      BY <2>1, <2>2, <3>1 DEF EffectTypeOK
  <2>4. Counted' /\ VerdictRests'
    BY <2>1 DEF Counted, Booked, VerdictRests, NoAnswer
  <2>5. BookedWasSent'
    <3> SUFFICES ASSUME NEW x \in Keys, booked[x] # NoAnswer
                 PROVE  \E i \in 1..Len(sent') : sent'[i].key = x
      BY <2>1 DEF BookedWasSent
    <3>1. PICK i \in 1..Len(sent) : sent[i].key = x
      BY DEF BookedWasSent
    <3> QED
      BY <3>1, <2>2
  <2> QED
    BY <2>3, <2>4, <2>5
<1>2. ASSUME NEW i \in 1..MaxDispatches, Arrive(i)
      PROVE  EffectInv'
  <2>1. /\ i \in 1..Len(sent) /\ sent[i] \in DispatchRecords
        /\ UNCHANGED <<idempotent, sent, decision, judged>>
    BY <1>2 DEF Arrive, EffectTypeOK, executor
  <2>2. sent[i].key \in Keys /\ sent[i].digest \in Digests
    BY <2>1 DEF DispatchRecords
  <2> DEFINE known == idempotent /\ booked[sent[i].key] # NoAnswer
  <2>3. CASE known
    <3>1. UNCHANGED <<booked, mutations>> /\ travelling' = travelling \ {i}
      BY <1>2, <2>3 DEF Arrive
    <3> QED
      BY <2>1, <3>1 DEF EffectTypeOK, Counted, Booked, BookedWasSent, VerdictRests, Completed
  <2>4. CASE ~known
    <3>1. /\ mutations' = mutations + 1 /\ travelling' = travelling \ {i}
          /\ booked' = [booked EXCEPT ![sent[i].key] = sent[i].digest]
      BY <1>2, <2>4 DEF Arrive
    <3>2. EffectTypeOK'
      BY <2>1, <2>2, <3>1 DEF EffectTypeOK
    <3>3. booked'[sent[i].key] # NoAnswer
      BY <2>2, <3>1 DEF EffectTypeOK, Digests, NoAnswer
    <3>4. Counted'
      <4> SUFFICES ASSUME idempotent PROVE Counted'
        BY <2>1 DEF Counted, Booked
      <4>1. booked[sent[i].key] = NoAnswer
        BY <2>4
      <4>2. CASE sent[i].key = "key"
        <5>1. booked'["key"] # NoAnswer /\ booked'["other key"] = booked["other key"]
          BY <3>1, <3>3, <4>2 DEF EffectTypeOK, Keys
        <5> QED
          <6>1. booked["key"] = NoAnswer
            BY <4>1, <4>2
          <6>2. CASE booked["other key"] = NoAnswer
            <7>1. mutations = 0
              BY <6>1, <6>2 DEF Counted, Booked
            <7>2. mutations' = 1
              BY <3>1, <7>1
            <7> QED
              BY <5>1, <6>2, <7>2 DEF Counted, Booked
          <6>3. CASE booked["other key"] # NoAnswer
            <7>1. mutations = 1
              BY <6>1, <6>3 DEF Counted, Booked
            <7>2. mutations' = 2
              BY <3>1, <7>1
            <7> QED
              BY <5>1, <6>3, <7>2 DEF Counted, Booked
          <6> QED
            BY <6>2, <6>3
      <4>3. CASE sent[i].key = "other key"
        <5>1. booked'["other key"] # NoAnswer /\ booked'["key"] = booked["key"]
          BY <3>1, <3>3, <4>3 DEF EffectTypeOK, Keys
        <5> QED
          <6>1. booked["other key"] = NoAnswer
            BY <4>1, <4>3
          <6>2. CASE booked["key"] = NoAnswer
            <7>1. mutations = 0
              BY <6>1, <6>2 DEF Counted, Booked
            <7>2. mutations' = 1
              BY <3>1, <7>1
            <7> QED
              BY <5>1, <6>2, <7>2 DEF Counted, Booked
          <6>3. CASE booked["key"] # NoAnswer
            <7>1. mutations = 1
              BY <6>1, <6>3 DEF Counted, Booked
            <7>2. mutations' = 2
              BY <3>1, <7>1
            <7> QED
              BY <5>1, <6>3, <7>2 DEF Counted, Booked
          <6> QED
            BY <6>2, <6>3
      <4> QED
        BY <2>2, <4>2, <4>3 DEF Keys
    <3>5. BookedWasSent'
      BY <2>1, <2>2, <3>1 DEF BookedWasSent, EffectTypeOK
    <3>6. VerdictRests'
      BY <2>1, <2>2, <3>1, <3>3 DEF VerdictRests, Completed, EffectTypeOK, Keys
    <3> QED
      BY <3>2, <3>4, <3>5, <3>6
  <2> QED
    BY <2>3, <2>4
<1>3. ASSUME NEW outcome \in {"applied-response", "timeout"}, Answered(outcome)
      PROVE  EffectInv'
  <2>1. /\ sent' = [sent EXCEPT ![Len(sent)].outcome = outcome] /\ Len(sent) > 0
        /\ UNCHANGED <<idempotent, travelling, booked, mutations, decision, judged>>
        /\ judged = NoAnswer
    BY <1>3 DEF Answered, Waiting, backend
  <2>2. /\ sent' \in Seq(DispatchRecords) /\ Len(sent') = Len(sent)
        /\ \A i \in 1..Len(sent) : sent'[i].key = sent[i].key
    <3>1. Len(sent) \in 1..Len(sent) /\ sent[Len(sent)] \in DispatchRecords
      BY <2>1 DEF EffectTypeOK
    <3>2. [sent[Len(sent)] EXCEPT !.outcome = outcome] \in DispatchRecords
      BY <3>1 DEF DispatchRecords
    <3>3. sent' = [sent EXCEPT ![Len(sent)] = [sent[Len(sent)] EXCEPT !.outcome = outcome]]
      BY <2>1
    <3>4. [sent[Len(sent)] EXCEPT !.outcome = outcome].key = sent[Len(sent)].key
      BY <3>1 DEF DispatchRecords
    <3> QED
      BY <3>1, <3>2, <3>3, <3>4 DEF EffectTypeOK
  <2>3. EffectTypeOK' /\ BookedWasSent'
    BY <2>1, <2>2 DEF EffectTypeOK, BookedWasSent
  <2>4. Counted' /\ VerdictRests'
    BY <2>1 DEF Counted, Booked, VerdictRests, NoAnswer
  <2> QED
    BY <2>3, <2>4
<1>4. CASE LookUp
  BY <1>4 DEF LookUp, backend, EffectTypeOK, Counted, Booked, BookedWasSent, VerdictRests,
              NoAnswer
<1>5. CASE Judge
  <2>1. judged' = EvaluateCase(Case) /\ UNCHANGED <<idempotent, executor, backend>>
    BY <1>5 DEF Judge
  <2>2. EffectTypeOK' /\ Counted' /\ BookedWasSent'
    BY <2>1 DEF executor, backend, EffectTypeOK, Counted, Booked, BookedWasSent
  <2>3. VerdictRests'
    <3>1. UNCHANGED <<idempotent, sent, booked, decision>>
      BY <2>1 DEF executor, backend
    <3> QED
      BY <2>1, <3>1, PassedCase DEF VerdictRests, Completed
  <2> QED
    BY <2>2, <2>3
<1>6. CASE UNCHANGED effectVars
  BY <1>6 DEF effectVars, executor, backend, EffectTypeOK, Counted, Booked, BookedWasSent,
              VerdictRests, Completed
<1> QED
  BY <1>1, <1>2, <1>3, <1>4, <1>5, <1>6 DEF EffectNext, Respond, Timeout

(* EffectPassIsAtMostOnce: for any number of dispatches, a reconciliation  *)
(* that the verifier has passed is of a request that has changed the       *)
(* backend at most once, also when a dispatch that had timed out arrives   *)
(* after the verdict.                                                      *)
THEOREM EffectPassIsAtMostOnce == EffectSpec => []PassIsAtMostOnce
<1>1. EffectInit => EffectInv
  <2> SUFFICES ASSUME EffectInit PROVE EffectInv
    OBVIOUS
  <2>1. EffectTypeOK
    BY DEF EffectInit, EffectTypeOK
  <2>2. booked["key"] = NoAnswer /\ booked["other key"] = NoAnswer /\ mutations = 0
    BY DEF EffectInit, Keys
  <2>4. Counted
    BY <2>2 DEF Counted, Booked
  <2>5. BookedWasSent /\ VerdictRests
    BY DEF EffectInit, BookedWasSent, VerdictRests, NoAnswer
  <2> QED
    BY <2>1, <2>4, <2>5 DEF EffectInv
<1>2. EffectInv => PassIsAtMostOnce
  <2> SUFFICES ASSUME EffectInv, judged = "PASS"
               PROVE  /\ mutations <= 1 /\ (Completed => mutations = 1)
                      /\ \A i, j \in DOMAIN sent : sent[i].approval = sent[j].approval => i = j
    BY DEF PassIsAtMostOnce, Completed
  <2>1. idempotent /\ DOMAIN sent = 1..Len(sent)
    BY DEF EffectInv, VerdictRests, EffectTypeOK
  <2>2. booked["other key"] = NoAnswer
    BY DEF EffectInv, VerdictRests, BookedWasSent, Keys
  <2>3. IF Booked("key") THEN mutations = 1 ELSE mutations = 0
    BY <2>1, <2>2 DEF EffectInv, Counted, Booked
  <2>5. Completed => booked["key"] # NoAnswer
    BY DEF EffectInv, VerdictRests
  <2>6. mutations <= 1 /\ (Completed => mutations = 1)
    BY <2>3, <2>5 DEF Booked
  <2> QED
    BY <2>1, <2>6 DEF EffectInv, VerdictRests
<1> QED
  BY <1>1, <1>2, EffectInvInductive, PTL DEF EffectSpec
-----------------------------------------------------------------------------
(* Fleet evidence: the accepted snapshots are one history, and complete.   *)

(* The collector: every snapshot is younger than those before it and names *)
(* one of them, or none, as its predecessor.                               *)
CollectorInv ==
    /\ now \in Nat /\ position \in 0..Len(snapshots)
    /\ \E S : snapshots \in Seq(S)
    /\ \A i \in 1..Len(snapshots) :
         /\ snapshots[i].content.capturedAt \in Nat
         /\ snapshots[i].continues \in 0..i - 1
         /\ snapshots[i].previous =
              IF snapshots[i].continues = 0 THEN NoSnapshot
              ELSE snapshots[snapshots[i].continues].content
    /\ \A i, j \in 1..Len(snapshots) :
         i < j => snapshots[i].content.capturedAt < snapshots[j].content.capturedAt

(* The operator: the checkpoint is the document accepted last.             *)
CheckpointInv ==
    /\ \E S : accepted \in Seq(S)
    /\ \A k \in 1..Len(accepted) :
         accepted[k].statement \in 1..Len(snapshots) /\ accepted[k].document \in 1..Len(snapshots)
    /\ checkpoint.digest = IF Len(accepted) = 0 THEN NoSnapshot
                           ELSE snapshots[accepted[Len(accepted)].statement].content

FleetInv == CollectorInv /\ CheckpointInv /\ AcceptedIsOneHistory
-----------------------------------------------------------------------------
(* A content stands for one snapshot, and none is the empty digest.        *)
LEMMA ContentsDiffer ==
    ASSUME CollectorInv
    PROVE  /\ \A i, j \in 1..Len(snapshots) :
                 snapshots[i].content = snapshots[j].content => i = j
           /\ \A i \in 1..Len(snapshots) : snapshots[i].content # NoSnapshot
<1>1. \A i, j \in 1..Len(snapshots) : snapshots[i].content = snapshots[j].content => i = j
  <2> SUFFICES ASSUME NEW i \in 1..Len(snapshots), NEW j \in 1..Len(snapshots),
                      snapshots[i].content = snapshots[j].content, i # j
               PROVE  FALSE
    OBVIOUS
  <2>1. Len(snapshots) \in Nat
    BY DEF CollectorInv
  <2>2. i < j \/ j < i
    BY <2>1
  <2>3. /\ i < j => snapshots[i].content.capturedAt < snapshots[j].content.capturedAt
        /\ j < i => snapshots[j].content.capturedAt < snapshots[i].content.capturedAt
        /\ snapshots[i].content.capturedAt \in Nat /\ snapshots[j].content.capturedAt \in Nat
    BY DEF CollectorInv
  <2>4. snapshots[i].content.capturedAt = snapshots[j].content.capturedAt
    OBVIOUS
  <2> QED
    BY <2>2, <2>3, <2>4
<1>2. \A i \in 1..Len(snapshots) : snapshots[i].content # NoSnapshot
  <2>1. NoSnapshot.capturedAt = -1
    BY DEF NoSnapshot
  <2> QED
    BY <2>1 DEF CollectorInv
<1> QED
  BY <1>1, <1>2

(* Steps that leave what was signed and accepted alone                     *)
LEMMA NothingSigned ==
    ASSUME FleetInv, UNCHANGED <<snapshots, checkpoint, accepted>>,
           now' \in Nat, position' \in 0..Len(snapshots)
    PROVE  FleetInv'
  BY DEF FleetInv, CollectorInv, CheckpointInv, AcceptedIsOneHistory

(* A capture adds a snapshot with a later time, which no earlier one has.  *)
LEMMA CaptureKeeps == FleetInv /\ Capture => FleetInv'
<1> SUFFICES ASSUME FleetInv, Capture PROVE FleetInv'
  OBVIOUS
<1> DEFINE n == Len(snapshots)
<1>1. PICK missing \in {{}} \cup {{p} : p \in Providers} :
        snapshots' = Append(snapshots,
           [content |-> [capturedAt |-> now,
                         endpoints |-> [p \in Providers \ missing |-> EndpointEvidence(p)]],
            sequence |-> IF position = 0 THEN 1 ELSE snapshots[position].sequence + 1,
            previous |-> IF position = 0 THEN NoSnapshot ELSE snapshots[position].content,
            continues |-> position,
            held |-> [p \in Providers |-> ingestion[p].got],
            made |-> [p \in Providers |-> Len(exports[p])]])
  BY DEF Capture
<1> DEFINE r == [content |-> [capturedAt |-> now,
                         endpoints |-> [p \in Providers \ missing |-> EndpointEvidence(p)]],
            sequence |-> IF position = 0 THEN 1 ELSE snapshots[position].sequence + 1,
            previous |-> IF position = 0 THEN NoSnapshot ELSE snapshots[position].content,
            continues |-> position,
            held |-> [p \in Providers |-> ingestion[p].got],
            made |-> [p \in Providers |-> Len(exports[p])]]
<1>2. /\ snapshots' = Append(snapshots, r)
      /\ r.content.capturedAt = now /\ r.continues = position
      /\ r.previous = IF position = 0 THEN NoSnapshot ELSE snapshots[position].content
  BY <1>1
<1> HIDE DEF r
<1>3. n \in Nat /\ position \in 0..n /\ now \in Nat
  BY DEF FleetInv, CollectorInv
<1>4. PICK S : snapshots \in Seq(S)
  BY DEF FleetInv, CollectorInv
<1>5. /\ Len(snapshots') = n + 1 /\ snapshots'[n + 1] = r
      /\ \A i \in 1..n : snapshots'[i] = snapshots[i]
      /\ snapshots' \in Seq(S \cup {r})
  BY <1>2, <1>4
<1>6. position' = n + 1 /\ UNCHANGED <<now, checkpoint, accepted>>
  BY <1>5 DEF Capture
<1>7. \A i \in 1..n : snapshots[i].content.capturedAt < now
  BY <1>4 DEF Capture
<1>8. \A i \in 1..n + 1 : i \in 1..n \/ i = n + 1
  BY <1>3
<1>9. CollectorInv'
  <2>1. now' \in Nat /\ position' \in 0..Len(snapshots') /\ \E T : snapshots' \in Seq(T)
    BY <1>3, <1>5, <1>6
  <2>2. ASSUME NEW i \in 1..Len(snapshots')
        PROVE  /\ snapshots'[i].content.capturedAt \in Nat
               /\ snapshots'[i].continues \in 0..i - 1
               /\ snapshots'[i].previous =
                    IF snapshots'[i].continues = 0 THEN NoSnapshot
                    ELSE snapshots'[snapshots'[i].continues].content
    <3>1. CASE i \in 1..n
      <4>1. snapshots[i].continues \in 0..i - 1
        BY <3>1 DEF FleetInv, CollectorInv
      <4>2. snapshots[i].continues # 0 => snapshots[i].continues \in 1..n
        BY <1>3, <3>1, <4>1
      <4> QED
        BY <1>5, <3>1, <4>1, <4>2 DEF FleetInv, CollectorInv
    <3>2. CASE i = n + 1
      <4>1. position # 0 => position \in 1..n
        BY <1>3
      <4> QED
        BY <1>2, <1>3, <1>5, <3>2, <4>1
    <3> QED
      BY <1>5, <1>8, <3>1, <3>2
  <2>3. ASSUME NEW i \in 1..Len(snapshots'), NEW j \in 1..Len(snapshots'), i < j
        PROVE  snapshots'[i].content.capturedAt < snapshots'[j].content.capturedAt
    <3>1. i \in 1..n
      BY <1>3, <1>5, <2>3
    <3>2. CASE j \in 1..n
      BY <1>5, <2>3, <3>1, <3>2 DEF FleetInv, CollectorInv
    <3>3. CASE j = n + 1
      BY <1>2, <1>5, <1>7, <3>1, <3>3
    <3> QED
      BY <1>5, <1>8, <3>2, <3>3
  <2> QED
    BY <2>1, <2>2, <2>3 DEF CollectorInv
<1>10. /\ Len(accepted) \in Nat /\ DOMAIN accepted = 1..Len(accepted)
       /\ \A k \in 1..Len(accepted) : accepted[k].statement \in 1..n
                                      /\ accepted[k].document \in 1..n
  BY DEF FleetInv, CheckpointInv
<1>11. CheckpointInv'
  <2>1. \A k \in 1..Len(accepted) : accepted[k].statement \in 1..n + 1
                                     /\ accepted[k].document \in 1..n + 1
    BY <1>3, <1>10
  <2>2. Len(accepted) # 0 => Len(accepted) \in 1..Len(accepted)
    BY <1>10
  <2>3. checkpoint.digest = IF Len(accepted) = 0 THEN NoSnapshot
                            ELSE snapshots'[accepted[Len(accepted)].statement].content
    BY <1>5, <1>10, <2>2 DEF FleetInv, CheckpointInv
  <2> QED
    BY <1>5, <1>6, <2>1, <2>3 DEF FleetInv, CheckpointInv
<1>12. AcceptedIsOneHistory'
  <2> SUFFICES ASSUME NEW k \in 1..Len(accepted)
               PROVE  /\ accepted[k].statement = accepted[k].document
                      /\ snapshots'[accepted[k].statement].continues =
                           IF k = 1 THEN 0 ELSE accepted[k - 1].statement
                      /\ snapshots'[accepted[k].statement].content.capturedAt + MaxSnapshotAge
                           >= accepted[k].at
    BY <1>6, <1>10 DEF AcceptedIsOneHistory
  <2> QED
    BY <1>5, <1>10 DEF FleetInv, AcceptedIsOneHistory
<1> QED
  BY <1>9, <1>11, <1>12 DEF FleetInv

(* An acceptance is of the successor of the checkpoint, and moves it.      *)
LEMMA VerifyKeeps ==
    ASSUME FleetInv, NEW i \in DOMAIN snapshots, NEW j \in DOMAIN snapshots, VerifyFleet(i, j)
    PROVE  FleetInv'
<1> DEFINE a == [statement |-> i, document |-> j, at |-> now]
<1>1. /\ i \in 1..Len(snapshots) /\ j \in 1..Len(snapshots) /\ Len(snapshots) \in Nat
      /\ now \in Nat
  BY DEF FleetInv, CollectorInv
<1>2. /\ snapshots[j].content = snapshots[i].content
      /\ now - snapshots[i].content.capturedAt \in 0..MaxSnapshotAge
      /\ snapshots[i].previous = checkpoint.digest
      /\ checkpoint'.digest = snapshots[j].content
      /\ accepted' = Append(accepted, a)
      /\ UNCHANGED <<now, position, snapshots>>
  BY DEF VerifyFleet, PayloadBinding, SequenceChain
<1>3. i = j
  BY <1>1, <1>2, ContentsDiffer DEF FleetInv
<1> DEFINE m == Len(accepted)
<1>4. PICK S : accepted \in Seq(S)
  BY DEF FleetInv, CheckpointInv
<1>5. a.statement = i /\ a.document = j /\ a.at = now
  OBVIOUS
<1> HIDE DEF a
<1>6. /\ m \in Nat /\ DOMAIN accepted = 1..m /\ DOMAIN accepted' = 1..m + 1
      /\ Len(accepted') = m + 1 /\ accepted'[m + 1] = a
      /\ \A k \in 1..m : accepted'[k] = accepted[k]
      /\ accepted' \in Seq(S \cup {a})
  BY <1>2, <1>4
<1>7. CollectorInv'
  BY <1>2 DEF FleetInv, CollectorInv
<1>8. CheckpointInv'
  <2>1. \A k \in 1..m + 1 : k \in 1..m \/ k = m + 1
    BY <1>6
  <2>2. \A k \in 1..m + 1 : accepted'[k].statement \in 1..Len(snapshots)
                            /\ accepted'[k].document \in 1..Len(snapshots)
    BY <1>1, <1>5, <1>6, <2>1 DEF FleetInv, CheckpointInv
  <2>3. checkpoint'.digest = snapshots[accepted'[m + 1].statement].content
    BY <1>2, <1>5, <1>6
  <2> QED
    BY <1>2, <1>6, <2>2, <2>3 DEF CheckpointInv
<1>9. snapshots[i].continues = IF m = 0 THEN 0 ELSE accepted[m].statement
  <2>1. /\ snapshots[i].continues \in 0..i - 1
        /\ snapshots[i].previous = IF snapshots[i].continues = 0 THEN NoSnapshot
                                   ELSE snapshots[snapshots[i].continues].content
    BY <1>1 DEF FleetInv, CollectorInv
  <2>2. snapshots[i].continues # 0 => snapshots[i].continues \in 1..Len(snapshots)
    BY <1>1, <2>1
  <2>3. CASE m = 0
    <3>1. checkpoint.digest = NoSnapshot
      BY <1>6, <2>3 DEF FleetInv, CheckpointInv
    <3> QED
      BY <1>2, <2>1, <2>2, <2>3, <3>1, ContentsDiffer DEF FleetInv
  <2>4. CASE m # 0
    <3>1. /\ checkpoint.digest = snapshots[accepted[m].statement].content
          /\ accepted[m].statement \in 1..Len(snapshots)
      BY <1>6, <2>4 DEF FleetInv, CheckpointInv
    <3>2. snapshots[i].continues # 0
      BY <1>2, <2>1, <3>1, ContentsDiffer DEF FleetInv
    <3> QED
      BY <1>2, <2>1, <2>2, <2>4, <3>1, <3>2, ContentsDiffer DEF FleetInv
  <2> QED
    BY <2>3, <2>4
<1>10. AcceptedIsOneHistory'
  <2> SUFFICES ASSUME NEW k \in 1..m + 1
               PROVE  /\ accepted'[k].statement = accepted'[k].document
                      /\ snapshots[accepted'[k].statement].continues =
                           IF k = 1 THEN 0 ELSE accepted'[k - 1].statement
                      /\ snapshots[accepted'[k].statement].content.capturedAt + MaxSnapshotAge
                           >= accepted'[k].at
    BY <1>2, <1>6 DEF AcceptedIsOneHistory
  <2>1. CASE k \in 1..m
    <3>1. k # 1 => k - 1 \in 1..m
      BY <1>6, <2>1
    <3>2. \A l \in 1..m : accepted[l] = accepted'[l]
      BY <1>6
    <3> QED
      BY <1>6, <2>1, <3>1, <3>2 DEF FleetInv, AcceptedIsOneHistory
  <2>2. CASE k = m + 1
    <3>1. /\ k = 1 <=> m = 0
          /\ m # 0 => m \in 1..m /\ k - 1 = m
      BY <1>6, <2>2
    <3>2. snapshots[i].continues = IF k = 1 THEN 0 ELSE accepted'[k - 1].statement
      BY <1>6, <1>9, <3>1
    <3>3. snapshots[i].content.capturedAt + MaxSnapshotAge >= now
      <4>1. snapshots[i].content.capturedAt \in Nat /\ MaxSnapshotAge \in Nat
        BY <1>1, FleetAssumption DEF FleetInv, CollectorInv
      <4> QED
        BY <1>1, <1>2, <4>1
    <3> QED
      BY <1>3, <1>5, <1>6, <2>2, <3>2, <3>3
  <2> QED
    BY <1>6, <2>1, <2>2
<1> QED
  BY <1>7, <1>8, <1>10 DEF FleetInv

(* FleetInv is kept by every step of endpoints, collector and operator.    *)
LEMMA FleetInvInductive == FleetInv /\ [FleetNext]_fleetVars => FleetInv'
<1> SUFFICES ASSUME FleetInv, [FleetNext]_fleetVars PROVE FleetInv'
  OBVIOUS
<1>1. now \in Nat /\ Len(snapshots) \in Nat /\ position \in 0..Len(snapshots)
  BY DEF FleetInv, CollectorInv
<1>2. ASSUME NEW p \in Providers, Export(p) PROVE FleetInv'
  BY <1>1, <1>2, NothingSigned DEF Export
<1>3. ASSUME NEW p \in Providers, NEW n \in 1..MaxExports, Ingest(p, n) \/ Reject(p, n)
      PROVE  FleetInv'
  <2>1. UNCHANGED <<now, snapshots, position, checkpoint, accepted>>
    BY <1>3 DEF Ingest, Reject
  <2> QED
    BY <1>1, <2>1, NothingSigned
<1>4. CASE Restore
  <2>1. UNCHANGED <<now, snapshots, checkpoint, accepted>> /\ position' \in 0..Len(snapshots)
    BY <1>4 DEF Restore
  <2> QED
    BY <1>1, <2>1, NothingSigned
<1>5. CASE FleetTick
  <2>1. now' \in Nat /\ UNCHANGED <<snapshots, position, checkpoint, accepted>>
    BY <1>1, <1>5 DEF FleetTick
  <2> QED
    BY <1>1, <2>1, NothingSigned
<1>6. CASE UNCHANGED fleetVars
  BY <1>1, <1>6, NothingSigned DEF fleetVars
<1> QED
  BY <1>2, <1>3, <1>4, <1>5, <1>6, CaptureKeeps, VerifyKeeps DEF FleetNext

(* FleetAcceptedIsOneHistory: however statements are repeated, delayed and *)
(* reordered and whatever the collector forgets, what the operator accepts *)
(* is one chain of the collector's snapshots.                              *)
THEOREM FleetAcceptedIsOneHistory == FleetSpec => []AcceptedIsOneHistory
<1>1. FleetInit => FleetInv
  BY DEF FleetInit, FleetInv, CollectorInv, CheckpointInv, AcceptedIsOneHistory
<1>2. FleetInv => AcceptedIsOneHistory
  BY DEF FleetInv
<1> QED
  BY <1>1, <1>2, FleetInvInductive, PTL DEF FleetSpec
-----------------------------------------------------------------------------
(* A bounded set of positive numbers has a greatest, and Latest is it.     *)
LEMMA LatestIsGreatest ==
    ASSUME NEW n \in Nat, NEW S \in SUBSET (1..n), S # {}
    PROVE  Latest(S) \in S /\ \A m \in S : m <= Latest(S)
<1> DEFINE T == {n - m : m \in S}
<1>1. T \in SUBSET Nat /\ T # {}
  <2>1. \A m \in S : n - m \in Nat
    OBVIOUS
  <2> QED
    BY <2>1
<1>2. IsWellFoundedOn(OpToRel(<, Nat), Nat)
  BY NatLessThanWellFounded
<1>3. PICK least \in T : \A k \in T : ~(<<k, least>> \in OpToRel(<, Nat))
  <2> HIDE DEF T
  <2> QED
    BY <1>1, <1>2, WFMin
<1>4. \A k \in T : k \in Nat /\ least \in Nat /\ ~(k < least)
  <2>1. \A k \in T : <<k, least>> \in OpToRel(<, Nat) <=> k < least
    BY <1>1 DEF OpToRel
  <2> QED
    BY <1>1, <1>3, <2>1
<1>5. PICK g \in S : least = n - g
  OBVIOUS
<1>6. \A m \in S : m <= g
  <2> SUFFICES ASSUME NEW m \in S PROVE m <= g
    OBVIOUS
  <2>1. n - m \in T /\ ~(n - m < n - g)
    BY <1>4, <1>5
  <2> QED
    BY <2>1
<1> QED
  BY <1>6 DEF Latest

(* Endpoints: records are numbered in the order of their export, and only  *)
(* exported ones arrive.                                                   *)
EndpointsInv ==
    /\ now \in Nat
    /\ exports \in [Providers -> Seq(Nat)]
    /\ \A p \in Providers :
         /\ \A n \in 1..Len(exports[p]) : exports[p][n] <= now
         /\ \A m, n \in 1..Len(exports[p]) : m <= n => exports[p][m] <= exports[p][n]
         /\ ingestion[p].got \subseteq 1..Len(exports[p])
         /\ ingestion[p].rejected \subseteq 1..Len(exports[p])
         /\ ingestion[p].at \in Int
         /\ ingestion[p] = [got |-> ingestion[p].got, rejected |-> ingestion[p].rejected,
                            quarantined |-> ingestion[p].quarantined, at |-> ingestion[p].at]
    /\ DOMAIN ingestion = Providers

(* What a snapshot says of an endpoint it names remains true: no hole that *)
(* it does not show, nothing exported after its last export.               *)
SnapshotTrue(s, p) ==
    LET e == s.content.endpoints[p]
    IN /\ s.made[p] \in 0..Len(exports[p])
       /\ \A n \in 1..s.made[p] : exports[p][n] <= e.exportedAt
       /\ e.exportedAt \in Int /\ e.ingestedAt \in Int
       /\ ~e.gap => \A n \in s.held[p] : 1..n \subseteq Seen(p)

SnapshotsInv ==
    \A i \in 1..Len(snapshots), p \in Providers :
        p \in DOMAIN snapshots[i].content.endpoints => SnapshotTrue(snapshots[i], p)

(* A snapshot is true of the endpoints when it is taken.                   *)
LEMMA CapturedTrue ==
    ASSUME EndpointsInv, NEW p \in Providers,
           NEW s, p \in DOMAIN s.content.endpoints,
           s.content.endpoints[p] = EndpointEvidence(p),
           s.held[p] = ingestion[p].got, s.made[p] = Len(exports[p])
    PROVE  SnapshotTrue(s, p)
<1> DEFINE n == Len(exports[p])
           e == EndpointEvidence(p)
<1>1. exports[p] \in Seq(Nat) /\ n \in Nat /\ Seen(p) \in SUBSET (1..n)
  BY DEF EndpointsInv, Seen
<1>2. /\ e.exportedAt = IF exports[p] = <<>> THEN NoTime ELSE exports[p][n]
      /\ e.ingestedAt = ingestion[p].at /\ e.gap = (Seen(p) # 1..Latest(Seen(p)))
  BY DEF EndpointEvidence
<1>3. /\ e.exportedAt \in Int /\ e.ingestedAt \in Int
      /\ \A m \in 1..n : exports[p][m] <= e.exportedAt
  <2>1. CASE n = 0
    BY <1>1, <1>2, <2>1 DEF NoTime, EndpointsInv
  <2>2. CASE n # 0
    <3>1. n \in 1..n /\ exports[p] # <<>> /\ exports[p][n] \in Nat
      BY <1>1, <2>2
    <3>2. \A m \in 1..n : m <= n
      BY <1>1
    <3> QED
      BY <1>2, <3>1, <3>2 DEF EndpointsInv
  <2> QED
    BY <2>1, <2>2
<1>4. ASSUME ~e.gap, NEW m \in ingestion[p].got
      PROVE  1..m \subseteq Seen(p)
  <2>1. m \in Seen(p) /\ Seen(p) = 1..Latest(Seen(p))
    BY <1>2, <1>4 DEF Seen
  <2>2. Latest(Seen(p)) \in 1..n
    BY <1>1, <2>1, LatestIsGreatest
  <2>3. m \in 1..Latest(Seen(p)) /\ m \in Int /\ Latest(Seen(p)) \in Int
    BY <1>1, <2>1, <2>2
  <2> HIDE DEF e
  <2>4. \A k \in 1..m : k \in 1..Latest(Seen(p))
    BY <2>3
  <2> QED
    BY <2>1, <2>4
<1> QED
  BY <1>1, <1>3, <1>4 DEF SnapshotTrue

(* What the verifiers accepted names every provider, without a hole, and   *)
(* was ingested after its last export.                                     *)
AcceptedInv ==
    \A k \in 1..Len(accepted), p \in Providers :
        LET c == snapshots[accepted[k].document].content
        IN /\ accepted[k].document \in 1..Len(snapshots)
           /\ p \in DOMAIN c.endpoints
           /\ ~c.endpoints[p].gap
           /\ c.endpoints[p].exportedAt <= c.endpoints[p].ingestedAt

CompleteInv == EndpointsInv /\ SnapshotsInv /\ AcceptedInv

(* An accepted snapshot without a gap was true when it was taken, and what *)
(* had been seen and exported by then stays.                               *)
LEMMA CompleteByParts == FleetInv /\ CompleteInv => AcceptedIsComplete
<1> SUFFICES ASSUME FleetInv, CompleteInv, NEW k \in DOMAIN accepted, NEW p \in Providers
             PROVE  LET s == snapshots[accepted[k].document] IN
                    /\ \A n \in s.held[p] : 1..n \subseteq Seen(p)
                    /\ \A n \in 1..s.made[p] : exports[p][n] <= s.content.endpoints[p].ingestedAt
  BY DEF AcceptedIsComplete
<1> DEFINE s == snapshots[accepted[k].document]
           e == s.content.endpoints[p]
<1>1. k \in 1..Len(accepted)
  BY DEF FleetInv, CheckpointInv
<1>2. /\ SnapshotTrue(s, p) /\ ~e.gap /\ e.exportedAt <= e.ingestedAt
  BY <1>1 DEF CompleteInv, AcceptedInv, SnapshotsInv
<1>3. \A n \in 1..s.made[p] : exports[p][n] <= e.ingestedAt
  <2> SUFFICES ASSUME NEW n \in 1..s.made[p] PROVE exports[p][n] <= e.ingestedAt
    OBVIOUS
  <2>1. exports[p][n] <= e.exportedAt /\ e.exportedAt \in Int /\ e.ingestedAt \in Int
    BY <1>2 DEF SnapshotTrue
  <2>2. exports[p][n] \in Int
    BY <1>2 DEF SnapshotTrue, CompleteInv, EndpointsInv
  <2> HIDE DEF s
  <2> QED
    BY <1>2, <2>1, <2>2
<1> QED
  BY <1>2, <1>3 DEF SnapshotTrue

(* Steps of endpoints and network: what was seen and exported stays.       *)
LEMMA FleetMoves ==
    ASSUME CompleteInv, EndpointsInv', UNCHANGED <<snapshots, accepted>>,
           \A q \in Providers : Seen(q) \subseteq Seen(q)',
           \A q \in Providers : Len(exports[q]) <= Len(exports'[q]) /\ Len(exports'[q]) \in Nat
             /\ \A n \in 1..Len(exports[q]) : exports'[q][n] = exports[q][n]
    PROVE  CompleteInv'
<1>1. SnapshotsInv'
  <2> SUFFICES ASSUME NEW i \in 1..Len(snapshots), NEW p \in Providers,
                      p \in DOMAIN snapshots[i].content.endpoints
               PROVE  SnapshotTrue(snapshots[i], p)'
    BY DEF SnapshotsInv
  <2>1. SnapshotTrue(snapshots[i], p)
    BY DEF CompleteInv, SnapshotsInv
  <2> DEFINE s == snapshots[i]
  <2>2. Len(exports[p]) \in Nat
    BY DEF CompleteInv, EndpointsInv
  <2>3. s.made[p] \in 0..Len(exports'[p]) /\ 1..s.made[p] \subseteq 1..Len(exports[p])
    BY <2>1, <2>2 DEF SnapshotTrue
  <2> QED
    BY <2>1, <2>3 DEF SnapshotTrue
<1> QED
  BY <1>1 DEF CompleteInv, AcceptedInv

(* An export comes after those before it, and after what any snapshot      *)
(* counts.                                                                 *)
LEMMA ExportComplete ==
    ASSUME CompleteInv, NEW p \in Providers, Export(p)
    PROVE  CompleteInv'
<1> DEFINE n == Len(exports[p])
<1>1. /\ exports \in [Providers -> Seq(Nat)] /\ now \in Nat /\ n \in Nat
      /\ exports' = [exports EXCEPT ![p] = Append(@, now)]
      /\ UNCHANGED <<now, ingestion, snapshots, accepted>>
  BY DEF Export, CompleteInv, EndpointsInv
<1>2. /\ exports' \in [Providers -> Seq(Nat)]
      /\ exports'[p] = Append(exports[p], now) /\ Len(exports'[p]) = n + 1
      /\ exports'[p][n + 1] = now
      /\ \A m \in 1..n : exports'[p][m] = exports[p][m]
      /\ \A q \in Providers \ {p} : exports'[q] = exports[q]
  BY <1>1
<1>3. ASSUME NEW q \in Providers
      PROVE  /\ Len(exports[q]) <= Len(exports'[q]) /\ Len(exports'[q]) \in Nat
             /\ \A m \in 1..Len(exports[q]) : exports'[q][m] = exports[q][m]
             /\ 1..Len(exports[q]) \subseteq 1..Len(exports'[q])
  BY <1>1, <1>2
<1>4. \A m \in 1..n + 1 : m \in 1..n \/ m = n + 1
  BY <1>1
<1>5. /\ \A m \in 1..n : exports[p][m] <= now
      /\ \A l, m \in 1..n : l <= m => exports[p][l] <= exports[p][m]
  BY DEF CompleteInv, EndpointsInv
<1>6. /\ \A m \in 1..n + 1 : exports'[p][m] <= now
      /\ \A l, m \in 1..n + 1 : l <= m => exports'[p][l] <= exports'[p][m]
  <2>1. \A m \in 1..n + 1 : exports'[p][m] <= now
    BY <1>1, <1>2, <1>4, <1>5
  <2>2. ASSUME NEW l \in 1..n + 1, NEW m \in 1..n + 1, l <= m
        PROVE  exports'[p][l] <= exports'[p][m]
    <3>1. CASE m = n + 1
      BY <1>2, <2>1, <3>1
    <3>2. CASE m \in 1..n
      <4>1. l \in 1..n
        BY <1>1, <2>2, <3>2
      <4> QED
        BY <1>2, <1>5, <2>2, <3>2, <4>1
    <3> QED
      BY <1>4, <3>1, <3>2
  <2> QED
    BY <2>1, <2>2
<1>7. EndpointsInv'
  <2> SUFFICES ASSUME NEW q \in Providers
               PROVE  /\ \A m \in 1..Len(exports'[q]) : exports'[q][m] <= now
                      /\ \A l, m \in 1..Len(exports'[q]) :
                           l <= m => exports'[q][l] <= exports'[q][m]
                      /\ ingestion[q].got \subseteq 1..Len(exports'[q])
                      /\ ingestion[q].rejected \subseteq 1..Len(exports'[q])
    BY <1>1, <1>2 DEF CompleteInv, EndpointsInv
  <2>1. CASE q = p
    BY <1>2, <1>3, <1>6, <2>1 DEF CompleteInv, EndpointsInv
  <2>2. CASE q # p
    BY <1>2, <2>2 DEF CompleteInv, EndpointsInv
  <2> QED
    BY <2>1, <2>2
<1>8. \A q \in Providers : Seen(q) \subseteq Seen(q)'
  BY <1>1 DEF Seen
<1> QED
  BY <1>1, <1>3, <1>7, <1>8, FleetMoves

(* An ingestion adds to what was seen.                                     *)
LEMMA IngestComplete ==
    ASSUME CompleteInv, NEW p \in Providers, NEW n \in 1..MaxExports,
           Ingest(p, n) \/ Reject(p, n)
    PROVE  CompleteInv'
<1>1. /\ UNCHANGED <<now, exports, snapshots, accepted>>
      /\ n \in 1..Len(exports[p]) /\ now \in Int
      /\ \A q \in Providers : Len(exports[q]) \in Nat
      /\ ingestion[p] = [got |-> ingestion[p].got, rejected |-> ingestion[p].rejected,
                         quarantined |-> ingestion[p].quarantined, at |-> ingestion[p].at]
      /\ DOMAIN ingestion = Providers
  BY DEF CompleteInv, EndpointsInv, Ingest, Reject
<1>2. PICK i : /\ ingestion'[p] = i /\ DOMAIN ingestion' = Providers
               /\ \A q \in Providers \ {p} : ingestion'[q] = ingestion[q]
               /\ i = [got |-> i.got, rejected |-> i.rejected,
                       quarantined |-> i.quarantined, at |-> i.at]
               /\ i.got \in {ingestion[p].got, ingestion[p].got \cup {n}}
               /\ i.rejected \in {ingestion[p].rejected, ingestion[p].rejected \cup {n}}
               /\ i.at \in {ingestion[p].at, now}
  <2>1. CASE Ingest(p, n)
    <3> DEFINE i == [got |-> ingestion[p].got \cup {n}, rejected |-> ingestion[p].rejected,
                     quarantined |-> ingestion[p].quarantined, at |-> now]
    <3>1. ingestion' = [ingestion EXCEPT ![p].got = @ \cup {n}, ![p].at = now]
      BY <2>1 DEF Ingest
    <3>2. /\ ingestion'[p] = [[ingestion[p] EXCEPT !.got = @ \cup {n}] EXCEPT !.at = now]
          /\ DOMAIN ingestion' = Providers
          /\ \A q \in Providers \ {p} : ingestion'[q] = ingestion[q]
      BY <1>1, <3>1
    <3>3. ingestion'[p] = i
      BY <1>1, <3>2
    <3>4. /\ i.got = ingestion[p].got \cup {n} /\ i.rejected = ingestion[p].rejected
          /\ i.at = now
          /\ i = [got |-> i.got, rejected |-> i.rejected,
                  quarantined |-> i.quarantined, at |-> i.at]
      OBVIOUS
    <3> HIDE DEF i
    <3> QED
      BY <3>2, <3>3, <3>4
  <2>2. CASE Reject(p, n)
    <3>1. PICK kept \in BOOLEAN :
            ingestion' = [ingestion EXCEPT ![p].rejected = @ \cup {n},
                                           ![p].quarantined = @ /\ kept]
      BY <2>2 DEF Reject
    <3> DEFINE old == ingestion[p]
               i == [got |-> old.got, rejected |-> old.rejected \cup {n},
                     quarantined |-> old.quarantined /\ kept, at |-> old.at]
    <3>2. /\ ingestion'[p] = [[old EXCEPT !.rejected = @ \cup {n}] EXCEPT
                                 !.quarantined = @ /\ kept]
          /\ DOMAIN ingestion' = Providers
          /\ \A q \in Providers \ {p} : ingestion'[q] = ingestion[q]
      BY <1>1, <3>1
    <3>3. ingestion'[p] = i
      BY <1>1, <3>2
    <3>4. /\ i.got = ingestion[p].got /\ i.rejected = ingestion[p].rejected \cup {n}
          /\ i.at = ingestion[p].at
          /\ i = [got |-> i.got, rejected |-> i.rejected,
                  quarantined |-> i.quarantined, at |-> i.at]
      OBVIOUS
    <3> HIDE DEF i, old
    <3> QED
      BY <3>2, <3>3, <3>4
  <2> QED
    BY <2>1, <2>2
<1>3. EndpointsInv'
  BY <1>1, <1>2 DEF CompleteInv, EndpointsInv
<1>4. \A q \in Providers : Seen(q) \subseteq Seen(q)'
  BY <1>2 DEF Seen
<1> QED
  BY <1>1, <1>3, <1>4, FleetMoves

(* A capture is true of the endpoints at its time.                         *)
LEMMA CaptureComplete ==
    ASSUME FleetInv, CompleteInv, Capture
    PROVE  CompleteInv'
<1> DEFINE n == Len(snapshots)
<1>1. PICK missing \in {{}} \cup {{p} : p \in Providers} :
        snapshots' = Append(snapshots,
           [content |-> [capturedAt |-> now,
                         endpoints |-> [p \in Providers \ missing |-> EndpointEvidence(p)]],
            sequence |-> IF position = 0 THEN 1 ELSE snapshots[position].sequence + 1,
            previous |-> IF position = 0 THEN NoSnapshot ELSE snapshots[position].content,
            continues |-> position,
            held |-> [p \in Providers |-> ingestion[p].got],
            made |-> [p \in Providers |-> Len(exports[p])]])
  BY DEF Capture
<1> DEFINE r == [content |-> [capturedAt |-> now,
                         endpoints |-> [p \in Providers \ missing |-> EndpointEvidence(p)]],
            sequence |-> IF position = 0 THEN 1 ELSE snapshots[position].sequence + 1,
            previous |-> IF position = 0 THEN NoSnapshot ELSE snapshots[position].content,
            continues |-> position,
            held |-> [p \in Providers |-> ingestion[p].got],
            made |-> [p \in Providers |-> Len(exports[p])]]
<1>2. /\ snapshots' = Append(snapshots, r)
      /\ r.content.endpoints = [p \in Providers \ missing |-> EndpointEvidence(p)]
      /\ r.held = [p \in Providers |-> ingestion[p].got]
      /\ r.made = [p \in Providers |-> Len(exports[p])]
  BY <1>1
<1> HIDE DEF r
<1>3. PICK S : snapshots \in Seq(S)
  BY DEF FleetInv, CollectorInv
<1>4. snapshots \in Seq(S \cup {r})
  BY <1>3
<1>5. /\ n \in Nat /\ Len(snapshots') = n + 1 /\ snapshots'[n + 1] = r
      /\ \A i \in 1..n : snapshots'[i] = snapshots[i]
      /\ UNCHANGED <<now, exports, ingestion, accepted>>
  <2>1. UNCHANGED <<now, exports, ingestion, accepted>>
    BY DEF Capture, endpoints
  <2> QED
    BY <1>2, <1>4, <2>1
<1>6. \A i \in 1..n + 1 : i \in 1..n \/ i = n + 1
  BY <1>5
<1>7. EndpointsInv'
  BY <1>5 DEF CompleteInv, EndpointsInv
<1>8. ASSUME NEW p \in Providers, p \in DOMAIN r.content.endpoints
      PROVE  SnapshotTrue(r, p)
  <2>1. /\ r.content.endpoints[p] = EndpointEvidence(p)
        /\ r.held[p] = ingestion[p].got /\ r.made[p] = Len(exports[p])
    BY <1>2, <1>8
  <2> QED
    BY <1>8, <2>1, CapturedTrue DEF CompleteInv
<1>9. \A s, p : SnapshotTrue(s, p) => SnapshotTrue(s, p)'
  BY <1>5 DEF SnapshotTrue, Seen
<1>10. SnapshotsInv'
  <2> SUFFICES ASSUME NEW i \in 1..n + 1, NEW p \in Providers,
                      p \in DOMAIN snapshots'[i].content.endpoints
               PROVE  SnapshotTrue(snapshots[i], p)'
    BY <1>5 DEF SnapshotsInv
  <2>1. SnapshotTrue(snapshots'[i], p)
    BY <1>5, <1>6, <1>8 DEF CompleteInv, SnapshotsInv
  <2> QED
    BY <1>5, <2>1 DEF SnapshotTrue, Seen
<1>11. AcceptedInv'
  BY <1>5 DEF CompleteInv, AcceptedInv
<1> QED
  BY <1>7, <1>10, <1>11 DEF CompleteInv

(* Both verifiers accept only what has no gap and nothing exported after   *)
(* the last ingestion.                                                     *)
LEMMA VerifyComplete ==
    ASSUME FleetInv, CompleteInv, NEW i \in DOMAIN snapshots, NEW j \in DOMAIN snapshots,
           VerifyFleet(i, j)
    PROVE  CompleteInv'
<1> DEFINE a == [statement |-> i, document |-> j, at |-> now]
           c == snapshots[j].content
<1>1. /\ j \in 1..Len(snapshots) /\ accepted' = Append(accepted, a)
      /\ UNCHANGED <<now, exports, ingestion, snapshots>>
      /\ Telemetry(c)
  BY DEF VerifyFleet, FleetInv, CollectorInv, endpoints
<1>2. a.document = j
  OBVIOUS
<1> HIDE DEF a
<1>3. PICK S : accepted \in Seq(S)
  BY DEF FleetInv, CheckpointInv
<1>4. accepted \in Seq(S \cup {a})
  BY <1>3
<1>5. /\ Len(accepted) \in Nat /\ Len(accepted') = Len(accepted) + 1
      /\ accepted'[Len(accepted) + 1] = a
      /\ \A k \in 1..Len(accepted) : accepted'[k] = accepted[k]
  BY <1>1, <1>4
<1>6. \A k \in 1..Len(accepted) + 1 : k \in 1..Len(accepted) \/ k = Len(accepted) + 1
  BY <1>5
<1>7. ASSUME NEW p \in Providers
      PROVE  /\ p \in DOMAIN c.endpoints /\ ~c.endpoints[p].gap
             /\ c.endpoints[p].exportedAt <= c.endpoints[p].ingestedAt
  <2>1. /\ p \in DOMAIN c.endpoints /\ ~c.endpoints[p].gap
        /\ c.endpoints[p].ingestedAt - c.endpoints[p].exportedAt \in 0..MaxLag
    BY <1>1 DEF Telemetry, EndpointResult
  <2>2. c.endpoints[p].exportedAt \in Int /\ c.endpoints[p].ingestedAt \in Int
    BY <1>1, <2>1 DEF CompleteInv, SnapshotsInv, SnapshotTrue
  <2> HIDE DEF c
  <2> QED
    BY <2>1, <2>2
<1>8. AcceptedInv'
  BY <1>1, <1>2, <1>5, <1>6, <1>7 DEF CompleteInv, AcceptedInv
<1>9. EndpointsInv' /\ SnapshotsInv'
  BY <1>1 DEF CompleteInv, EndpointsInv, SnapshotsInv, SnapshotTrue, Seen
<1> QED
  BY <1>8, <1>9 DEF CompleteInv

(* CompleteInv is kept by every step, given FleetInv.                      *)
LEMMA CompleteStep == FleetInv /\ CompleteInv /\ [FleetNext]_fleetVars => CompleteInv'
<1> SUFFICES ASSUME FleetInv, CompleteInv, [FleetNext]_fleetVars PROVE CompleteInv'
  OBVIOUS
<1>1. ASSUME UNCHANGED <<exports, ingestion, snapshots, accepted>>, now' \in Nat, now <= now'
      PROVE  CompleteInv'
  <2>1. \A p \in Providers : \A n \in 1..Len(exports[p]) : exports[p][n] \in Nat
    BY DEF CompleteInv, EndpointsInv
  <2>2. EndpointsInv'
    BY <1>1, <2>1 DEF CompleteInv, EndpointsInv
  <2> QED
    BY <1>1, <2>2 DEF CompleteInv, SnapshotsInv, SnapshotTrue, Seen, AcceptedInv
<1>2. now \in Nat
  BY DEF FleetInv, CollectorInv
<1>3. CASE Restore
  BY <1>1, <1>2, <1>3 DEF Restore, endpoints
<1>4. CASE FleetTick
  BY <1>1, <1>2, <1>4 DEF FleetTick, endpoints
<1>5. CASE UNCHANGED fleetVars
  BY <1>1, <1>2, <1>5 DEF fleetVars, endpoints
<1> QED
  BY <1>3, <1>4, <1>5, ExportComplete, IngestComplete, CaptureComplete, VerifyComplete
  DEF FleetNext

(* FleetAcceptedIsComplete: whatever the network loses, delays and         *)
(* reorders, a snapshot that both verifiers passed shows every hole in     *)
(* what it counts, and nothing was exported after the last ingestion.      *)
THEOREM FleetAcceptedIsComplete == FleetSpec => []AcceptedIsComplete
<1>1. FleetInit => FleetInv /\ CompleteInv
  <2> SUFFICES ASSUME FleetInit PROVE FleetInv /\ CompleteInv
    OBVIOUS
  <2>1. /\ now = 0 /\ snapshots = <<>> /\ accepted = <<>> /\ Len(<<>>) = 0
        /\ exports = [p \in Providers |-> <<>>]
        /\ ingestion = [p \in Providers |->
                          [got |-> {}, rejected |-> {}, quarantined |-> TRUE, at |-> NoTime]]
    BY DEF FleetInit
  <2>2. FleetInv
    BY DEF FleetInit, FleetInv, CollectorInv, CheckpointInv, AcceptedIsOneHistory
  <2>3. EndpointsInv
    <3>1. <<>> \in Seq(Nat)
      OBVIOUS
    <3> QED
      BY <2>1, <3>1 DEF EndpointsInv, NoTime
  <2>4. SnapshotsInv /\ AcceptedInv
    BY <2>1 DEF SnapshotsInv, AcceptedInv
  <2> QED
    BY <2>2, <2>3, <2>4 DEF CompleteInv
<1>2. FleetInv /\ CompleteInv /\ [FleetNext]_fleetVars => (FleetInv /\ CompleteInv)'
  BY FleetInvInductive, CompleteStep
<1>3. FleetInv /\ CompleteInv => AcceptedIsComplete
  BY CompleteByParts
<1> QED
  BY <1>1, <1>2, <1>3, PTL DEF FleetSpec
-----------------------------------------------------------------------------
(* Delegation: accepted delegations and responses.                         *)

(* What is signed has numbers where numbers are wanted, and a response     *)
(* carries the delegation that it answers.                                 *)
SignedInv ==
    /\ moment \in Nat
    /\ \E S : delegations \in Seq(S)
    /\ \E S : responses \in Seq(S)
    /\ \A i \in 1..Len(delegations) :
         delegations[i].sequence \in Nat /\ delegations[i].budget \in Nat
    /\ \A j \in 1..Len(responses) :
         /\ responses[j].sequence \in Nat /\ responses[j].spent \in Nat
         /\ responses[j].of \in 1..Len(delegations)
         /\ responses[j].answers = delegations[responses[j].of]

(* The replay state is the last accepted pair.                             *)
ReplayInv ==
    /\ consumedUpTo.sender \in Nat /\ consumedUpTo.recipient \in Nat
    /\ \E S : acceptedPairs \in Seq(S)
    /\ \A n \in 1..Len(acceptedPairs) :
         /\ acceptedPairs[n].delegation \in 1..Len(delegations)
         /\ acceptedPairs[n].response \in 1..Len(responses)
         /\ delegations[acceptedPairs[n].delegation].sequence <= consumedUpTo.sender
         /\ responses[acceptedPairs[n].response].sequence <= consumedUpTo.recipient

(* AcceptedOnceAndBelow without the part that follows: equal indices have  *)
(* equal sequence numbers                                                  *)
InOrder ==
    \A m, n \in 1..Len(acceptedPairs) : m < n =>
        /\ delegations[acceptedPairs[m].delegation].sequence
             < delegations[acceptedPairs[n].delegation].sequence
        /\ responses[acceptedPairs[m].response].sequence
             < responses[acceptedPairs[n].response].sequence

PairBelow(d, r) ==
    /\ delegations[responses[r].of] = delegations[d]
    /\ responses[r].issued <= delegations[d].expires
    /\ responses[r].authority \subseteq Ceiling /\ responses[r].spent <= BudgetCeiling

Below ==
    \A n \in 1..Len(acceptedPairs) :
        PairBelow(acceptedPairs[n].delegation, acceptedPairs[n].response)

DelegationInv == SignedInv /\ ReplayInv /\ InOrder /\ Below
-----------------------------------------------------------------------------
(* What was signed and accepted stays so when more is signed.              *)
LEMMA MoreSigned ==
    ASSUME DelegationInv, SignedInv',
           Len(delegations) <= Len(delegations'), Len(responses) <= Len(responses'),
           \A i \in 1..Len(delegations) : delegations'[i] = delegations[i],
           \A j \in 1..Len(responses) : responses'[j] = responses[j],
           UNCHANGED <<consumedUpTo, acceptedPairs>>
    PROVE  DelegationInv'
<1>1. /\ Len(delegations) \in Nat /\ Len(responses) \in Nat
      /\ Len(delegations') \in Nat /\ Len(responses') \in Nat
  BY DEF DelegationInv, SignedInv
<1>2. /\ 1..Len(delegations) \subseteq 1..Len(delegations')
      /\ 1..Len(responses) \subseteq 1..Len(responses')
  BY <1>1
<1>3. \A n \in 1..Len(acceptedPairs) :
        /\ acceptedPairs[n].delegation \in 1..Len(delegations)
        /\ acceptedPairs[n].response \in 1..Len(responses)
        /\ responses[acceptedPairs[n].response].of \in 1..Len(delegations)
  BY DEF DelegationInv, SignedInv, ReplayInv
<1>4. ReplayInv'
  BY <1>2, <1>3 DEF DelegationInv, ReplayInv
<1>5. InOrder'
  <2> SUFFICES ASSUME NEW m \in 1..Len(acceptedPairs), NEW n \in 1..Len(acceptedPairs), m < n
               PROVE  /\ delegations'[acceptedPairs[m].delegation].sequence
                           < delegations'[acceptedPairs[n].delegation].sequence
                      /\ responses'[acceptedPairs[m].response].sequence
                           < responses'[acceptedPairs[n].response].sequence
    BY DEF InOrder
  <2>1. /\ delegations'[acceptedPairs[m].delegation] = delegations[acceptedPairs[m].delegation]
        /\ delegations'[acceptedPairs[n].delegation] = delegations[acceptedPairs[n].delegation]
        /\ responses'[acceptedPairs[m].response] = responses[acceptedPairs[m].response]
        /\ responses'[acceptedPairs[n].response] = responses[acceptedPairs[n].response]
    BY <1>3
  <2> QED
    BY <2>1 DEF DelegationInv, InOrder
<1>6. Below'
  <2> SUFFICES ASSUME NEW n \in 1..Len(acceptedPairs)
               PROVE  PairBelow(acceptedPairs[n].delegation, acceptedPairs[n].response)'
    BY DEF Below, PairBelow
  <2> DEFINE d == acceptedPairs[n].delegation
             r == acceptedPairs[n].response
  <2>1. /\ delegations'[d] = delegations[d] /\ responses'[r] = responses[r]
        /\ delegations'[responses[r].of] = delegations[responses[r].of]
        /\ UNCHANGED <<d, r>>
    BY <1>3
  <2>2. PairBelow(d, r)
    BY DEF DelegationInv, Below
  <2> HIDE DEF d, r
  <2> QED
    BY <2>1, <2>2 DEF PairBelow, d, r
<1> QED
  BY <1>4, <1>5, <1>6 DEF DelegationInv

(* A delegation that is signed leaves what was accepted alone.             *)
LEMMA SignDelegationKeeps ==
    ASSUME DelegationInv, NEW sequence \in 1..MaxDelegations, NEW grant \in {Sound} \cup Unsound,
           SignDelegation(sequence, grant)
    PROVE  DelegationInv'
<1> DEFINE d == [sequence |-> sequence, nonce |-> Len(delegations) + 1,
                 sound |-> grant = Sound, capabilities |-> grant.capabilities,
                 budget |-> grant.budget, issued |-> moment,
                 expires |-> moment + grant.ttl, onward |-> grant.onward]
<1>1. /\ delegations' = Append(delegations, d)
      /\ UNCHANGED <<moment, responses, consumedUpTo, acceptedPairs>>
  BY DEF SignDelegation
<1>2. d.sequence \in Nat /\ d.budget \in Nat
  BY DEF Sound, Unsound, BudgetCeiling
<1> HIDE DEF d
<1>3. PICK S : delegations \in Seq(S)
  BY DEF DelegationInv, SignedInv
<1>4. /\ Len(delegations) \in Nat /\ Len(delegations') = Len(delegations) + 1
      /\ delegations'[Len(delegations) + 1] = d
      /\ \A i \in 1..Len(delegations) : delegations'[i] = delegations[i]
      /\ delegations' \in Seq(S \cup {d})
  BY <1>1, <1>3
<1>5. /\ \A i \in 1..Len(delegations') : i \in 1..Len(delegations) \/ i = Len(delegations) + 1
      /\ 1..Len(delegations) \subseteq 1..Len(delegations')
      /\ Len(delegations) <= Len(delegations')
  BY <1>4
<1>6. SignedInv'
  <2>1. \A i \in 1..Len(delegations') :
          delegations'[i].sequence \in Nat /\ delegations'[i].budget \in Nat
    BY <1>2, <1>4, <1>5 DEF DelegationInv, SignedInv
  <2>2. \A j \in 1..Len(responses) :
          /\ responses[j].of \in 1..Len(delegations')
          /\ responses[j].answers = delegations'[responses[j].of]
    BY <1>4, <1>5 DEF DelegationInv, SignedInv
  <2> QED
    BY <1>1, <1>4, <2>1, <2>2 DEF DelegationInv, SignedInv
<1> QED
  BY <1>1, <1>4, <1>5, <1>6, MoreSigned DEF DelegationInv, SignedInv

(* A response that is signed leaves what was accepted alone.               *)
LEMMA SignResponseKeeps ==
    ASSUME DelegationInv, NEW i \in DOMAIN delegations, NEW sequence \in 1..MaxResponses,
           NEW use \in {SoundUse(delegations[i])} \cup UnsoundUse(delegations[i]),
           SignResponse(i, sequence, use)
    PROVE  DelegationInv'
<1> DEFINE r == [sequence |-> sequence, nonce |-> Len(responses) + 1,
                 answers |-> delegations[i], of |-> i,
                 sound |-> use = SoundUse(delegations[i]), issued |-> moment,
                 spent |-> use.spent, authority |-> use.authority]
<1>1. /\ responses' = Append(responses, r)
      /\ UNCHANGED <<moment, delegations, consumedUpTo, acceptedPairs>>
  BY DEF SignResponse
<1>2. i \in 1..Len(delegations) /\ delegations[i].budget \in Nat
  BY DEF DelegationInv, SignedInv
<1>3. r.sequence \in Nat /\ r.spent \in Nat /\ r.of = i /\ r.answers = delegations[i]
  BY <1>2 DEF SoundUse, UnsoundUse
<1> HIDE DEF r
<1>4. PICK S : responses \in Seq(S)
  BY DEF DelegationInv, SignedInv
<1>5. /\ Len(responses) \in Nat /\ Len(responses') = Len(responses) + 1
      /\ responses'[Len(responses) + 1] = r
      /\ \A j \in 1..Len(responses) : responses'[j] = responses[j]
      /\ responses' \in Seq(S \cup {r})
  BY <1>1, <1>4
<1>6. /\ \A j \in 1..Len(responses') : j \in 1..Len(responses) \/ j = Len(responses) + 1
      /\ Len(responses) <= Len(responses')
  BY <1>5
<1>7. SignedInv'
  <2>1. \A j \in 1..Len(responses') :
          /\ responses'[j].sequence \in Nat /\ responses'[j].spent \in Nat
          /\ responses'[j].of \in 1..Len(delegations)
          /\ responses'[j].answers = delegations[responses'[j].of]
    BY <1>2, <1>3, <1>5, <1>6 DEF DelegationInv, SignedInv
  <2> QED
    BY <1>1, <1>5, <2>1 DEF DelegationInv, SignedInv
<1>8. Len(delegations) \in Nat
  BY DEF DelegationInv, SignedInv
<1> QED
  BY <1>1, <1>5, <1>6, <1>7, <1>8, MoreSigned

(* A pair that is accepted is above the replay state in both sequences and *)
(* below the ceilings of its edge.                                         *)
LEMMA ShowPairKeeps ==
    ASSUME DelegationInv, NEW i \in DOMAIN delegations, NEW j \in DOMAIN responses,
           ShowPair(i, j)
    PROVE  DelegationInv'
<1> DEFINE p == [delegation |-> i, response |-> j, at |-> moment]
           k == Len(acceptedPairs)
<1>1. PICK g \in Showings :
        /\ CapabilityOk(delegations[i], responses[j]) /\ BudgetOk(delegations[i], responses[j])
        /\ FreshnessOk(delegations[i], responses[j]) /\ ResponseOk(delegations[i], responses[j])
  BY DEF ShowPair
<1>2. /\ acceptedPairs' = Append(acceptedPairs, p)
      /\ consumedUpTo' = [sender |-> delegations[i].sequence,
                          recipient |-> responses[j].sequence]
      /\ UNCHANGED <<moment, delegations, responses>>
  BY DEF ShowPair
<1>3. i \in 1..Len(delegations) /\ j \in 1..Len(responses)
  BY DEF DelegationInv, SignedInv
<1>4. p.delegation = i /\ p.response = j
  OBVIOUS
<1> HIDE DEF p
<1>5. PICK S : acceptedPairs \in Seq(S)
  BY DEF DelegationInv, ReplayInv
<1>6. /\ k \in Nat /\ Len(acceptedPairs') = k + 1 /\ acceptedPairs'[k + 1] = p
      /\ \A n \in 1..k : acceptedPairs'[n] = acceptedPairs[n]
      /\ acceptedPairs' \in Seq(S \cup {p})
  BY <1>2, <1>5
<1>7. \A n \in 1..k + 1 : n \in 1..k \/ n = k + 1
  BY <1>6
<1>8. /\ delegations[i].sequence > consumedUpTo.sender
      /\ responses[j].sequence > consumedUpTo.recipient
      /\ consumedUpTo'.sender = delegations[i].sequence
      /\ consumedUpTo'.recipient = responses[j].sequence
  BY <1>1, <1>2 DEF FreshnessOk
<1>9. /\ consumedUpTo.sender \in Nat /\ consumedUpTo.recipient \in Nat
      /\ delegations[i].sequence \in Nat /\ responses[j].sequence \in Nat
  BY <1>3 DEF DelegationInv, SignedInv, ReplayInv
<1>10. ASSUME NEW n \in 1..k
       PROVE  /\ acceptedPairs[n].delegation \in 1..Len(delegations)
              /\ acceptedPairs[n].response \in 1..Len(responses)
              /\ delegations[acceptedPairs[n].delegation].sequence < delegations[i].sequence
              /\ responses[acceptedPairs[n].response].sequence < responses[j].sequence
              /\ delegations[acceptedPairs[n].delegation].sequence <= delegations[i].sequence
              /\ responses[acceptedPairs[n].response].sequence <= responses[j].sequence
  <2>1. /\ acceptedPairs[n].delegation \in 1..Len(delegations)
        /\ acceptedPairs[n].response \in 1..Len(responses)
        /\ delegations[acceptedPairs[n].delegation].sequence <= consumedUpTo.sender
        /\ responses[acceptedPairs[n].response].sequence <= consumedUpTo.recipient
    BY DEF DelegationInv, ReplayInv
  <2>2. /\ delegations[acceptedPairs[n].delegation].sequence \in Nat
        /\ responses[acceptedPairs[n].response].sequence \in Nat
    BY <2>1 DEF DelegationInv, SignedInv
  <2>3. \A x, y, z \in Nat : x <= y /\ z > y => x < z /\ x <= z
    OBVIOUS
  <2>4. /\ delegations[acceptedPairs[n].delegation].sequence < delegations[i].sequence
        /\ delegations[acceptedPairs[n].delegation].sequence <= delegations[i].sequence
    BY <1>8, <1>9, <2>1, <2>2, <2>3
  <2>5. /\ responses[acceptedPairs[n].response].sequence < responses[j].sequence
        /\ responses[acceptedPairs[n].response].sequence <= responses[j].sequence
    BY <1>8, <1>9, <2>1, <2>2, <2>3
  <2> QED
    BY <2>1, <2>4, <2>5
<1>11. SignedInv'
  BY <1>2 DEF DelegationInv, SignedInv
<1>12. ReplayInv'
  <2>1. \A n \in 1..k + 1 :
          /\ acceptedPairs'[n].delegation \in 1..Len(delegations)
          /\ acceptedPairs'[n].response \in 1..Len(responses)
          /\ delegations[acceptedPairs'[n].delegation].sequence <= delegations[i].sequence
          /\ responses[acceptedPairs'[n].response].sequence <= responses[j].sequence
    <3> SUFFICES ASSUME NEW n \in 1..k + 1
                 PROVE  /\ acceptedPairs'[n].delegation \in 1..Len(delegations)
                        /\ acceptedPairs'[n].response \in 1..Len(responses)
                        /\ delegations[acceptedPairs'[n].delegation].sequence
                             <= delegations[i].sequence
                        /\ responses[acceptedPairs'[n].response].sequence
                             <= responses[j].sequence
      OBVIOUS
    <3>1. CASE n \in 1..k
      BY <1>6, <1>10, <3>1
    <3>2. CASE n = k + 1
      BY <1>3, <1>4, <1>6, <1>9, <3>2
    <3> QED
      BY <1>7, <3>1, <3>2
  <2> QED
    BY <1>2, <1>6, <1>8, <1>9, <2>1 DEF ReplayInv
<1>13. InOrder'
  <2> SUFFICES ASSUME NEW m \in 1..k + 1, NEW n \in 1..k + 1, m < n
               PROVE  /\ delegations[acceptedPairs'[m].delegation].sequence
                           < delegations[acceptedPairs'[n].delegation].sequence
                      /\ responses[acceptedPairs'[m].response].sequence
                           < responses[acceptedPairs'[n].response].sequence
    BY <1>2, <1>6 DEF InOrder
  <2>1. m \in 1..k
    BY <1>6
  <2>2. CASE n \in 1..k
    BY <1>6, <2>1, <2>2 DEF DelegationInv, InOrder
  <2>3. CASE n = k + 1
    BY <1>4, <1>6, <1>10, <2>1, <2>3
  <2> QED
    BY <1>7, <2>2, <2>3
<1>14. Below'
  <2>1. PairBelow(i, j)
    <3>1. delegations[responses[j].of] = delegations[i]
      BY <1>1, <1>3 DEF ResponseOk, DelegationInv, SignedInv
    <3>2. responses[j].issued <= delegations[i].expires
      BY <1>1 DEF FreshnessOk
    <3>3. responses[j].authority \subseteq Ceiling
      BY <1>1 DEF CapabilityOk
    <3>4. responses[j].spent <= BudgetCeiling
      <4>1. delegations[i].budget \in Nat /\ responses[j].spent \in Nat
        BY <1>3 DEF DelegationInv, SignedInv
      <4> QED
        BY <1>1, <4>1 DEF BudgetOk, BudgetCeiling
    <3> QED
      BY <3>1, <3>2, <3>3, <3>4 DEF PairBelow
  <2>2. \A n \in 1..k + 1 : PairBelow(acceptedPairs'[n].delegation, acceptedPairs'[n].response)
    BY <1>4, <1>6, <1>7, <2>1 DEF DelegationInv, Below
  <2> QED
    BY <1>2, <1>6, <2>2 DEF Below, PairBelow
<1> QED
  BY <1>11, <1>12, <1>13, <1>14 DEF DelegationInv

(* DelegationInv is kept by every step of senders and consumer.            *)
LEMMA DelegationInvInductive == DelegationInv /\ [DelegationNext]_delegationVars => DelegationInv'
<1> SUFFICES ASSUME DelegationInv, [DelegationNext]_delegationVars PROVE DelegationInv'
  OBVIOUS
<1>1. CASE DelegationTick
  <2>1. moment' \in Nat /\ UNCHANGED <<delegations, responses, consumedUpTo, acceptedPairs>>
    BY <1>1 DEF DelegationTick, DelegationInv, SignedInv
  <2> QED
    BY <2>1 DEF DelegationInv, SignedInv, ReplayInv, InOrder, Below, PairBelow
<1>2. CASE UNCHANGED delegationVars
  BY <1>2 DEF delegationVars, DelegationInv, SignedInv, ReplayInv, InOrder, Below, PairBelow
<1> QED
  BY <1>1, <1>2, SignDelegationKeeps, SignResponseKeeps, ShowPairKeeps DEF DelegationNext

(* DelegationAcceptedOnceAndBelow: whatever is repeated, reordered or      *)
(* signed with too much, the accepted pairs go up in both sequences and    *)
(* stay below the ceilings of the edge.                                    *)
THEOREM DelegationAcceptedOnceAndBelow == DelegationSpec => []AcceptedOnceAndBelow
<1>1. DelegationInit => DelegationInv
  BY DEF DelegationInit, DelegationInv, SignedInv, ReplayInv, InOrder, Below
<1>2. DelegationInv => AcceptedOnceAndBelow
  <2> SUFFICES ASSUME DelegationInv, NEW m \in DOMAIN acceptedPairs, NEW n \in DOMAIN acceptedPairs
               PROVE  /\ m < n =>
                           /\ acceptedPairs[m].delegation # acceptedPairs[n].delegation
                           /\ acceptedPairs[m].response # acceptedPairs[n].response
                           /\ delegations[acceptedPairs[m].delegation].sequence
                                < delegations[acceptedPairs[n].delegation].sequence
                           /\ responses[acceptedPairs[m].response].sequence
                                < responses[acceptedPairs[n].response].sequence
                      /\ PairBelow(acceptedPairs[n].delegation, acceptedPairs[n].response)
    BY DEF AcceptedOnceAndBelow, PairBelow
  <2>1. m \in 1..Len(acceptedPairs) /\ n \in 1..Len(acceptedPairs)
    BY DEF DelegationInv, ReplayInv
  <2>2. /\ delegations[acceptedPairs[m].delegation].sequence \in Nat
        /\ responses[acceptedPairs[m].response].sequence \in Nat
    BY <2>1 DEF DelegationInv, SignedInv, ReplayInv
  <2> QED
    BY <2>1, <2>2 DEF DelegationInv, InOrder, Below
<1> QED
  BY <1>1, <1>2, DelegationInvInductive, PTL DEF DelegationSpec
=============================================================================
