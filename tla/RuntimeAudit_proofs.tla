------------------------- MODULE RuntimeAudit_proofs -------------------------
(***************************************************************************)
(* Proofs about the shared audit file, for any number of writers and any   *)
(* size limit.  The size test and the writes of a record are separate      *)
(* steps; what carries the test over to the writes is that only the holder *)
(* of the flock extends the file.                                          *)
(***************************************************************************)
EXTENDS RuntimeAudit, TLAPS

\* A writer between LOCK_EX and LOCK_UN is the one that holds the flock.
FlockHeld == \A w \in Procs : append[w] \in Holding => flock = w

\* A writer inside append_event has a decision to record.
DecisionGiven ==
  \A w \in Procs :
    append[w] \in {"locking"} \union Holding => decision[w] \in Decisions

\* The result of the size test still holds when the holder writes.
RoomLeft ==
  \A w \in Procs :
    /\ append[w] = "writing" => Len(log) + 2 <= MaxChunks
    /\ append[w] = "half" => Len(log) + 1 <= MaxChunks

\* The holder's own head, then its own record, is the end of the file.
HalfAtEnd ==
  \A w \in Procs :
    append[w] = "half" => Len(log) > 0 /\ log[Len(log)] = Chunk(w, "head")
RecordAtEnd ==
  \A w \in Procs :
    append[w] = "syncing" => RecordEndsAt(w, decision[w], Len(log))

AuditInv ==
  /\ AuditTypeOK
  /\ FlockHeld
  /\ DecisionGiven
  /\ RoomLeft
  /\ HalfAtEnd
  /\ RecordAtEnd
  /\ SizeBounded
  /\ RecordsNotInterleaved
  /\ DoneIsDurable

---------------------------------------------------------------------------
\* What one write adds at the end of a sequence.
LEMMA AppendFacts ==
  ASSUME NEW S, NEW s \in Seq(S), NEW a \in S
  PROVE  /\ Append(s, a) \in Seq(S)
         /\ Len(Append(s, a)) = Len(s) + 1
         /\ \A i \in 1 .. Len(s) : Append(s, a)[i] = s[i]
         /\ Append(s, a)[Len(s) + 1] = a
  OBVIOUS

\* What a write of a whole record adds.
LEMMA AppendTwoFacts ==
  ASSUME NEW S, NEW s \in Seq(S), NEW a \in S, NEW b \in S
  PROVE  /\ s \o <<a, b>> \in Seq(S)
         /\ Len(s \o <<a, b>>) = Len(s) + 2
         /\ \A i \in 1 .. Len(s) : (s \o <<a, b>>)[i] = s[i]
         /\ (s \o <<a, b>>)[Len(s) + 1] = a
         /\ (s \o <<a, b>>)[Len(s) + 2] = b
  OBVIOUS

\* What is left of the file when its end is lost.
LEMMA PrefixFacts ==
  ASSUME NEW S, NEW s \in Seq(S), NEW k \in 0 .. Len(s)
  PROVE  /\ SubSeq(s, 1, k) \in Seq(S)
         /\ Len(SubSeq(s, 1, k)) = k
         /\ \A i \in 1 .. k : SubSeq(s, 1, k)[i] = s[i]
  OBVIOUS

\* The file starts empty and unlocked.
LEMMA AuditInitInv == AuditInit => AuditInv
  BY NoProcAssumption, MaxChunksAssumption
  DEF AuditInit, AuditInv, AuditTypeOK, FlockHeld, DecisionGiven, RoomLeft,
      HalfAtEnd, RecordAtEnd, SizeBounded, RecordsNotInterleaved, DoneIsDurable,
      AppendStates, Holding

\* Every step of append_event, every failure, kill and crash keeps the
\* invariant of the file.
LEMMA AuditStepInv ==
  ASSUME AuditInv, [AuditNext]_auditVars
  PROVE  AuditInv'
<1> USE NoProcAssumption, MaxChunksAssumption DEF Holding, AppendStates
<1> USE DEF AuditInv, AuditTypeOK, FlockHeld, DecisionGiven, RoomLeft,
            HalfAtEnd, RecordAtEnd, SizeBounded, RecordsNotInterleaved, DoneIsDurable, RecordEndsAt, Chunk
<1>1. ASSUME NEW w \in Procs, NEW d \in Decisions, AppendEvent(w, d)
      PROVE  AuditInv'
  BY <1>1 DEF AppendEvent
<1>2. ASSUME NEW w \in Procs, RefuseFile(w)
      PROVE  AuditInv'
  BY <1>2 DEF RefuseFile, Proceed
<1>3. ASSUME NEW w \in Procs, TakeFlock(w)
      PROVE  AuditInv'
  BY <1>3 DEF TakeFlock, Proceed
<1>4. ASSUME NEW w \in Procs, SizeLimit(w)
      PROVE  AuditInv'
  BY <1>4 DEF SizeLimit, Proceed, Funlock
<1>5. ASSUME NEW w \in Procs, SizeFits(w)
      PROVE  AuditInv'
  BY <1>5 DEF SizeFits, Proceed
<1>9. ASSUME NEW w \in Procs, Fsync(w)
      PROVE  AuditInv'
  BY <1>9 DEF Fsync, Proceed, Funlock
<1>10. ASSUME NEW w \in Procs, AppendFailure(w)
       PROVE  AuditInv'
  BY <1>10 DEF AppendFailure, Funlock
<1>11. ASSUME NEW w \in Procs, KillWriter(w)
       PROVE  AuditInv'
  BY <1>11 DEF KillWriter, Funlock
<1>13. CASE UNCHANGED auditVars
  BY <1>13 DEF auditVars
<1>6. ASSUME NEW w \in Procs, WriteAll(w)
      PROVE  AuditInv'
  <2>1. /\ append[w] = "writing" /\ flock = w /\ decision[w] \in Decisions
        /\ Len(log) + 2 <= MaxChunks /\ Len(log) \in Nat
    BY <1>6 DEF WriteAll, Proceed
  <2>2. /\ append' = [append EXCEPT ![w] = "syncing"]
        /\ durable' = durable /\ flock' = flock /\ decision' = decision
    BY <1>6 DEF WriteAll, Proceed
  <2>3. Chunk(w, "head") \in Chunks /\ Chunk(w, "tail") \in Chunks
    BY <2>1 DEF Chunks
  <2>4. /\ log' \in Seq(Chunks) /\ Len(log') = Len(log) + 2
        /\ \A i \in 1 .. Len(log) : log'[i] = log[i]
        /\ log'[Len(log) + 1] = Chunk(w, "head")
        /\ log'[Len(log) + 2] = Chunk(w, "tail")
    BY <1>6, <2>3, AppendTwoFacts DEF WriteAll
  <2>9. \A i \in 1 .. Len(log) :
          i > 1 => log'[i - 1] = log[i - 1] /\ log'[i] = log[i]
    <3>1. \A i \in 1 .. Len(log) : i > 1 => i - 1 \in 1 .. Len(log)
      BY <2>1
    <3> QED
      BY <2>4, <3>1
  <2> HIDE DEF Chunk
  <2>5. AuditTypeOK' /\ FlockHeld' /\ DecisionGiven' /\ RoomLeft' /\ HalfAtEnd'
    BY <2>1, <2>2, <2>4
  <2>6. RecordAtEnd'
    BY <2>1, <2>2, <2>4 DEF Chunk
  <2>7. SizeBounded'
    BY <2>1, <2>2, <2>4
  <2>10. DoneIsDurable'
    <3> SUFFICES ASSUME NEW v \in Procs, append'[v] = "done"
                 PROVE  (\E i \in 1 .. durable : RecordEndsAt(v, decision[v], i))'
      BY DEF DoneIsDurable
    <3>1. append[v] = "done"
      BY <2>1, <2>2
    <3>2. PICK i \in 1 .. durable : RecordEndsAt(v, decision[v], i)
      BY <3>1
    <3>3. i \in 1 .. Len(log) /\ i \in 1 .. durable' /\ i > 1
      BY <2>1, <2>2, <3>2
    <3>4. log'[i - 1] = log[i - 1] /\ log'[i] = log[i] /\ decision' = decision
      BY <2>2, <2>9, <3>3
    <3>5. RecordEndsAt(v, decision[v], i)'
      BY <3>2, <3>3, <3>4
    <3> QED
      BY <3>3, <3>5
  <2>8. RecordsNotInterleaved'
    <3> SUFFICES ASSUME NEW i \in 1 .. Len(log'), log'[i].part = "tail"
                 PROVE  RecordEndsAt(log[i].by, log[i].decision, i)'
      OBVIOUS
    <3>1. CASE i \in 1 .. Len(log)
      <4>1. RecordEndsAt(log[i].by, log[i].decision, i)
        BY <3>1, <2>4
      <4> QED
        BY <3>1, <4>1, <2>4, <2>9
    <3>2. CASE i = Len(log) + 1
      BY <3>2, <2>4 DEF Chunk
    <3>3. CASE i = Len(log) + 2
      BY <3>3, <2>1, <2>4 DEF Chunk
    <3> QED
      BY <3>1, <3>2, <3>3, <2>1, <2>4
  <2> QED
    BY <2>5, <2>6, <2>7, <2>8, <2>10
<1>7. ASSUME NEW w \in Procs, ShortWrite(w)
      PROVE  AuditInv'
  <2>1. /\ append[w] = "writing" /\ flock = w /\ decision[w] \in Decisions
        /\ Len(log) + 2 <= MaxChunks /\ Len(log) \in Nat
    BY <1>7 DEF ShortWrite, Proceed
  <2>2. /\ append' = [append EXCEPT ![w] = "half"]
        /\ durable' = durable /\ flock' = flock /\ decision' = decision
    BY <1>7 DEF ShortWrite, Proceed
  <2>3. Chunk(w, "head") \in Chunks
    BY <2>1 DEF Chunks
  <2>4. /\ log' \in Seq(Chunks) /\ Len(log') = Len(log) + 1
        /\ \A i \in 1 .. Len(log) : log'[i] = log[i]
        /\ log'[Len(log) + 1] = Chunk(w, "head")
    BY <1>7, <2>3, AppendFacts DEF ShortWrite
  <2>9. \A i \in 1 .. Len(log) :
          i > 1 => log'[i - 1] = log[i - 1] /\ log'[i] = log[i]
    <3>1. \A i \in 1 .. Len(log) : i > 1 => i - 1 \in 1 .. Len(log)
      BY <2>1
    <3> QED
      BY <2>4, <3>1
  <2> HIDE DEF Chunk
  <2>11. AuditTypeOK' /\ FlockHeld' /\ DecisionGiven'
    BY <2>1, <2>2, <2>4
  <2>12. RoomLeft'
    <3>1. \A v \in Procs : v # w => append'[v] \notin {"writing", "half"}
      BY <2>1, <2>2
    <3>2. append'[w] = "half" /\ Len(log') + 1 <= MaxChunks
      BY <2>1, <2>2, <2>4
    <3> QED
      BY <3>1, <3>2 DEF RoomLeft
  <2>5. RecordAtEnd'
    <3>1. \A v \in Procs : append'[v] # "syncing"
      BY <2>1, <2>2
    <3> QED
      BY <3>1 DEF RecordAtEnd
  <2>6. HalfAtEnd'
    BY <2>1, <2>2, <2>4 DEF Chunk
  <2>7. SizeBounded'
    BY <2>1, <2>4 DEF SizeBounded
  <2>10. DoneIsDurable'
    <3> SUFFICES ASSUME NEW v \in Procs, append'[v] = "done"
                 PROVE  (\E i \in 1 .. durable : RecordEndsAt(v, decision[v], i))'
      BY DEF DoneIsDurable
    <3>1. append[v] = "done"
      BY <2>1, <2>2
    <3>2. PICK i \in 1 .. durable : RecordEndsAt(v, decision[v], i)
      BY <3>1
    <3>3. i \in 1 .. Len(log) /\ i \in 1 .. durable' /\ i > 1
      BY <2>1, <2>2, <3>2
    <3>4. log'[i - 1] = log[i - 1] /\ log'[i] = log[i] /\ decision' = decision
      BY <2>2, <2>9, <3>3
    <3>5. RecordEndsAt(v, decision[v], i)'
      BY <3>2, <3>3, <3>4
    <3> QED
      BY <3>3, <3>5
  <2>8. RecordsNotInterleaved'
    <3> SUFFICES ASSUME NEW i \in 1 .. Len(log'), log'[i].part = "tail"
                 PROVE  RecordEndsAt(log[i].by, log[i].decision, i)'
      OBVIOUS
    <3>1. CASE i \in 1 .. Len(log)
      <4>1. RecordEndsAt(log[i].by, log[i].decision, i)
        BY <3>1, <2>4
      <4> QED
        BY <3>1, <4>1, <2>4, <2>9
    <3>2. CASE i = Len(log) + 1
      BY <3>2, <2>4 DEF Chunk
    <3> QED
      BY <3>1, <3>2, <2>1, <2>4
  <2> QED
    BY <2>5, <2>6, <2>7, <2>8, <2>10, <2>11, <2>12
<1>8. ASSUME NEW w \in Procs, WriteRest(w)
      PROVE  AuditInv'
  <2>1. /\ append[w] = "half" /\ flock = w /\ decision[w] \in Decisions
        /\ Len(log) + 1 <= MaxChunks /\ Len(log) \in Nat /\ Len(log) > 0
        /\ log[Len(log)] = Chunk(w, "head")
    BY <1>8 DEF WriteRest, Proceed
  <2>2. /\ append' = [append EXCEPT ![w] = "syncing"]
        /\ durable' = durable /\ flock' = flock /\ decision' = decision
    BY <1>8 DEF WriteRest, Proceed
  <2>3. Chunk(w, "tail") \in Chunks
    BY <2>1 DEF Chunks
  <2>4. /\ log' \in Seq(Chunks) /\ Len(log') = Len(log) + 1
        /\ \A i \in 1 .. Len(log) : log'[i] = log[i]
        /\ log'[Len(log) + 1] = Chunk(w, "tail")
    BY <1>8, <2>3, AppendFacts DEF WriteRest
  <2>9. \A i \in 1 .. Len(log) :
          i > 1 => log'[i - 1] = log[i - 1] /\ log'[i] = log[i]
    <3>1. \A i \in 1 .. Len(log) : i > 1 => i - 1 \in 1 .. Len(log)
      BY <2>1
    <3> QED
      BY <2>4, <3>1
  <2> HIDE DEF Chunk
  <2>5. AuditTypeOK' /\ FlockHeld' /\ DecisionGiven' /\ RoomLeft' /\ HalfAtEnd'
    BY <2>1, <2>2, <2>4
  <2>6. RecordAtEnd'
    BY <2>1, <2>2, <2>4 DEF Chunk
  <2>7. SizeBounded'
    BY <2>1, <2>2, <2>4
  <2>10. DoneIsDurable'
    <3> SUFFICES ASSUME NEW v \in Procs, append'[v] = "done"
                 PROVE  (\E i \in 1 .. durable : RecordEndsAt(v, decision[v], i))'
      BY DEF DoneIsDurable
    <3>1. append[v] = "done"
      BY <2>1, <2>2
    <3>2. PICK i \in 1 .. durable : RecordEndsAt(v, decision[v], i)
      BY <3>1
    <3>3. i \in 1 .. Len(log) /\ i \in 1 .. durable' /\ i > 1
      BY <2>1, <2>2, <3>2
    <3>4. log'[i - 1] = log[i - 1] /\ log'[i] = log[i] /\ decision' = decision
      BY <2>2, <2>9, <3>3
    <3>5. RecordEndsAt(v, decision[v], i)'
      BY <3>2, <3>3, <3>4
    <3> QED
      BY <3>3, <3>5
  <2>8. RecordsNotInterleaved'
    <3> SUFFICES ASSUME NEW i \in 1 .. Len(log'), log'[i].part = "tail"
                 PROVE  RecordEndsAt(log[i].by, log[i].decision, i)'
      OBVIOUS
    <3>1. CASE i \in 1 .. Len(log)
      <4>1. RecordEndsAt(log[i].by, log[i].decision, i)
        BY <3>1, <2>4
      <4> QED
        BY <3>1, <4>1, <2>4, <2>9
    <3>2. CASE i = Len(log) + 1
      BY <3>2, <2>1, <2>4 DEF Chunk
    <3> QED
      BY <3>1, <3>2, <2>1, <2>4
  <2> QED
    BY <2>5, <2>6, <2>7, <2>8, <2>10
<1>12. CASE LoseUnsynced
  BY <1>12, PrefixFacts DEF LoseUnsynced
<1> QED
  BY <1>1, <1>2, <1>3, <1>4, <1>5, <1>6, <1>7, <1>8, <1>9, <1>10, <1>11, <1>12,
     <1>13 DEF AuditNext, AppendStep

---------------------------------------------------------------------------
\* Every reachable state of the audit file satisfies the invariant.
THEOREM AuditInvariant == AuditSpec => []AuditInv
<1>1. AuditInit => AuditInv
  BY AuditInitInv
<1>2. AuditInv /\ [AuditNext]_auditVars => AuditInv'
  BY AuditStepInv
<1> QED
  BY <1>1, <1>2, PTL DEF AuditSpec

\* The file never grows past its limit, whoever else tests and writes.
THEOREM AuditSizeBounded == AuditSpec => []SizeBounded
<1>1. AuditInv => SizeBounded
  BY DEF AuditInv
<1> QED
  BY <1>1, AuditInvariant, PTL

\* No two records have their chunks mixed, however many writes they take.
THEOREM AuditNotInterleaved == AuditSpec => []RecordsNotInterleaved
<1>1. AuditInv => RecordsNotInterleaved
  BY DEF AuditInv
<1> QED
  BY <1>1, AuditInvariant, PTL
=============================================================================
