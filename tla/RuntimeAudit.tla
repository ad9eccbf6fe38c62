---------------------------- MODULE RuntimeAudit ----------------------------
(***************************************************************************)
(* The JSON Lines audit file that every managed hook process appends its   *)
(* decision to (scripts/runtime_audit.py, append_event).  Procs are      *)
(* processes; the file is the sequence of the chunks the kernel wrote.  A  *)
(* record is two chunks long, its "head" and the "tail" that ends with the *)
(* newline, so that a write may stop short in between; the size limit is   *)
(* counted in chunks.  A crash of the host may lose what fsync had not     *)
(* reached.                                                                *)
(***************************************************************************)
EXTENDS HookProcesses, Naturals, Sequences

CONSTANTS Decisions, MaxChunks

ASSUME MaxChunksAssumption == MaxChunks \in Nat

VARIABLES
  log,        \* the chunks in the file, in the order they were written
  durable,    \* how many of them are known to be on stable storage
  flock,      \* the writer that holds the exclusive flock, or NoProc
  append,     \* where each writer is inside append_event
  decision    \* the decision each writer is recording

auditVars == <<log, durable, flock, append, decision>>

Chunks == [by : Procs, decision : Decisions, part : {"head", "tail"}]

\* "done" is the normal return of append_event, "failed" its AuditError.
Holding == {"locked", "writing", "half", "syncing"}
AppendStates == {"idle", "locking", "done", "failed", "dead"} \union Holding

Chunk(w, part) == [by |-> w, decision |-> decision[w], part |-> part]

\* Record d of w ends at chunk i, with its head right before it.
RecordEndsAt(w, d, i) ==
  /\ i > 1
  /\ log[i - 1] = [by |-> w, decision |-> d, part |-> "head"]
  /\ log[i] = [by |-> w, decision |-> d, part |-> "tail"]
Recorded(w, d) == \E i \in 1 .. Len(log) : RecordEndsAt(w, d, i)

\* A reader splits the file at newlines: it sees the record as a line of its
\* own only when the chunk before it is the end of another line.
Readable(w, d) ==
  \E i \in 2 .. Len(log) :
    RecordEndsAt(w, d, i) /\ (i > 2 => log[i - 2].part = "tail")

AuditInit ==
  /\ log = << >>
  /\ durable = 0
  /\ flock = NoProc
  /\ append = [w \in Procs |-> "idle"]
  /\ decision = [w \in Procs |-> "none"]

---------------------------------------------------------------------------
Proceed(w, from, to) ==
  /\ append[w] = from
  /\ append' = [append EXCEPT ![w] = to]

\* The finally clause, and the kernel when the descriptor is closed.
Funlock(w) == flock' = IF flock = w THEN NoProc ELSE flock

\* A hook process records its decision; when that fails it records "error".
AppendEvent(w, d) ==
  /\ \/ append[w] = "idle"
     \/ append[w] = "failed" /\ decision[w] # "error" /\ d = "error"
  /\ append' = [append EXCEPT ![w] = "locking"]
  /\ decision' = [decision EXCEPT ![w] = d]
  /\ UNCHANGED <<log, durable, flock>>

\* The policy, the directory or the file is refused before the lock.
RefuseFile(w) ==
  /\ Proceed(w, "locking", "failed")
  /\ UNCHANGED <<log, durable, flock, decision>>

\* Wrong variant: a shared lock, LOCK_SH, which several writers get.
TakeSharedFlock(w) ==
  /\ Proceed(w, "locking", "locked")
  /\ UNCHANGED <<log, durable, flock, decision>>

TakeFlock(w) ==
  /\ Proceed(w, "locking", "locked")
  /\ flock = NoProc
  /\ flock' = w
  /\ UNCHANGED <<log, durable, decision>>

\* The size is read under the lock.
SizeLimit(w) ==
  /\ Proceed(w, "locked", "failed")
  /\ Len(log) + 2 > MaxChunks
  /\ Funlock(w)
  /\ UNCHANGED <<log, durable, decision>>

SizeFits(w) ==
  /\ Proceed(w, "locked", "writing")
  /\ Len(log) + 2 <= MaxChunks
  /\ UNCHANGED <<log, durable, flock, decision>>

WriteAll(w) ==
  /\ Proceed(w, "writing", "syncing")
  /\ log' = log \o <<Chunk(w, "head"), Chunk(w, "tail")>>
  /\ UNCHANGED <<durable, flock, decision>>

\* os.write took only a part; the loop will write what remains.
ShortWrite(w) ==
  /\ Proceed(w, "writing", "half")
  /\ log' = Append(log, Chunk(w, "head"))
  /\ UNCHANGED <<durable, flock, decision>>

WriteRest(w) ==
  /\ Proceed(w, "half", "syncing")
  /\ log' = Append(log, Chunk(w, "tail"))
  /\ UNCHANGED <<durable, flock, decision>>

\* Wrong variant: the data stays in the page cache.
SkipFsync(w) ==
  /\ Proceed(w, "syncing", "done")
  /\ Funlock(w)
  /\ UNCHANGED <<log, durable, decision>>

Fsync(w) ==
  /\ Proceed(w, "syncing", "done")
  /\ durable' = Len(log)
  /\ Funlock(w)
  /\ UNCHANGED <<log, decision>>

\* Wrong variant: the error path leaves without the finally clause.
FailureKeepsFlock(w) ==
  /\ append[w] \in {"writing", "half", "syncing"}
  /\ append' = [append EXCEPT ![w] = "failed"]
  /\ UNCHANGED <<log, durable, flock, decision>>

\* os.write or os.fsync raises OSError: whatever was written stays.
AppendFailure(w) ==
  /\ append[w] \in {"writing", "half", "syncing"}
  /\ append' = [append EXCEPT ![w] = "failed"]
  /\ Funlock(w)
  /\ UNCHANGED <<log, durable, decision>>

\* The writer is killed; the kernel closes its descriptor.
KillWriter(w) ==
  /\ append' = [append EXCEPT ![w] = "dead"]
  /\ Funlock(w)
  /\ UNCHANGED <<log, durable, decision>>

\* The host goes down: the writers inside append_event die and any suffix
\* that was not synced may be missing when it comes back.
LoseUnsynced ==
  /\ \E kept \in durable .. Len(log) :
       /\ log' = SubSeq(log, 1, kept)
       /\ durable' = kept
  /\ flock' = NoProc
  /\ append' = [w \in Procs |->
       IF append[w] \in {"locking"} \union Holding THEN "dead" ELSE append[w]]
  /\ UNCHANGED decision

---------------------------------------------------------------------------
\* One step of the code of append_event when nothing breaks under it.
AppendStep(w) ==
  \/ TakeFlock(w)
  \/ SizeLimit(w)
  \/ SizeFits(w)
  \/ WriteAll(w)
  \/ ShortWrite(w)
  \/ WriteRest(w)
  \/ Fsync(w)

AuditNext ==
  \/ \E w \in Procs :
       \/ \E d \in Decisions : AppendEvent(w, d)
       \/ AppendStep(w)
       \/ RefuseFile(w)
       \/ AppendFailure(w)
       \/ KillWriter(w)
  \/ LoseUnsynced

AuditSpec == AuditInit /\ [][AuditNext]_auditVars

---------------------------------------------------------------------------
AuditTypeOK ==
  /\ log \in Seq(Chunks)
  /\ durable \in 0 .. Len(log)
  /\ flock \in Procs \union {NoProc}
  /\ append \in [Procs -> AppendStates]
  /\ decision \in [Procs -> Decisions \union {"none"}]

\* The file never exceeds maximum_file_bytes, however many hook processes
\* test the size and write: the test of one is still true when it writes.
SizeBounded == Len(log) <= MaxChunks

\* The chunks of two records never interleave, although a record may take
\* several writes: each tail comes right after the head of the same record.
RecordsNotInterleaved ==
  \A i \in 1 .. Len(log) :
    log[i].part = "tail" => RecordEndsAt(log[i].by, log[i].decision, i)

\* When append_event has returned, the record is complete and survives a
\* crash of the host (the fsync comes before the return).
DoneIsDurable ==
  \A w \in Procs :
    append[w] = "done" => \E i \in 1 .. durable : RecordEndsAt(w, decision[w], i)
=============================================================================
