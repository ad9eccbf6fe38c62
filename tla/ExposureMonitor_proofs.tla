----------------------- MODULE ExposureMonitor_proofs -----------------------
(***************************************************************************)
(* Proofs about the public exposure monitor, for any number of overlapping *)
(* runs, objects, versions and pages.  All rests on the compare-and-swap:  *)
(* a run that puts its document has read the one it replaces, so that what *)
(* was new for it is still new and what it did not change is still there.  *)
(***************************************************************************)
EXTENDS ExposureMonitor, SequenceTheorems, TLAPS

---------------------------------------------------------------------------
\* What reconcile_state does to a document.
LEMMA ReconcileType ==
  ASSUME NEW state \in States, NEW observed \in SUBSET Fingerprints,
         NEW now \in 0 .. MaxTime
  PROVE  Reconcile(state, observed, now) \in States
<1>1. now \in Nat
  BY MonitorAssumption
<1>2. NewFinding(now) \in Findings
  BY <1>1 DEF NewFinding, Findings
<1>3. ASSUME NEW f \in Fingerprints, f \in Known(state),
             MustReopen(state.findings[f], now)
      PROVE  Reopen(state.findings[f]) \in Findings
  BY <1>3 DEF States, Known, Reopen, Findings, MustReopen
<1> QED
  BY <1>1, <1>2, <1>3 DEF Reconcile, States

LEMMA ReconcileKnown ==
  ASSUME NEW state \in States, NEW observed \in SUBSET Fingerprints,
         NEW now \in 0 .. MaxTime
  PROVE  Known(Reconcile(state, observed, now)) = Known(state) \union observed
<1>1. NewFinding(now) # NoFinding
  BY StateAssumption, MonitorAssumption DEF NewFinding, Findings
<1>2. ASSUME NEW f \in Known(state), MustReopen(state.findings[f], now)
      PROVE  Reopen(state.findings[f]) # NoFinding
  <2>1. Reopen(state.findings[f]) \in Findings
    BY <1>2 DEF States, Known, Reopen, Findings, MustReopen
  <2> QED
    BY <2>1, StateAssumption
<1> QED
  BY <1>1, <1>2 DEF Reconcile, Known

LEMMA ReconcileKeeps ==
  ASSUME NEW state \in States, NEW observed \in SUBSET Fingerprints,
         NEW now \in 0 .. MaxTime, NEW f \in Known(state)
  PROVE  LET old == state.findings[f]
             new == Reconcile(state, observed, now).findings[f]
         IN /\ new.first_seen = old.first_seen
            /\ new.disposition = "open" /\ old.disposition # "open" =>
                 old.disposition = "remediated" \/ old.expires <= now
BY DEF Reconcile, Known, States, Findings, Reopen, MustReopen

---------------------------------------------------------------------------
\* What is listed or returned by a search exists at some version.
Exists ==
  /\ \A o \in visible : version[o] >= 1
  /\ \A g \in ToSet(listing) : version[g] >= 1

Before(cursor, time) == cursor = NoCursor \/ cursor <= time

\* No cursor is ahead of the collection that replaces it.
Times ==
  /\ Before(remote.cursor, clock)
  /\ \A w \in Runs :
       /\ run[w].step = "collect" => Before(run[w].base.cursor, clock)
       /\ run[w].step \in {"list", "detail", "written"} =>
            run[w].now <= clock /\ Before(run[w].base.cursor, run[w].now)

News(w) == NewEvents(run[w].base, run[w].observed)

\* A finding that a run has put and not yet announced was announced by nobody
\* and is announced by no other run.
Counted ==
  \A f \in Fingerprints :
    /\ announced[f] <= 1
    /\ announced[f] = 1 => f \in Known(remote)
    /\ \A w \in Runs :
         run[w].step = "written" /\ f \in News(w) =>
           /\ f \in Known(remote)
           /\ announced[f] = 0
           /\ \A v \in Runs : run[v].step = "written" /\ f \in News(v) => v = w

TypeInv == MonitorTypeOK /\ Exists

MonitorInv == TypeInv /\ Times /\ Counted /\ RecordedIsAnnounced

LEMMA IdleType == Idle \in RunRecords
<1>1. EmptyState \in States
  BY DEF EmptyState, States
<1>2. <<>> \in Seq(Gists)
  BY EmptySeq
<1>3. 0 \in 0 .. MaxTime /\ 0 \in 0 .. MaxPages + 1
  BY MonitorAssumption
<1> QED
  BY <1>1, <1>2, <1>3 DEF Idle, RunRecords, Steps

\* In the initial states nothing is published, recorded or announced.
LEMMA MonitorInitInv == Init => MonitorInv
<1> SUFFICES ASSUME Init PROVE MonitorInv
  OBVIOUS
<1>1. EmptyState \in States /\ Known(EmptyState) = {} /\ EmptyState.cursor = NoCursor
  BY DEF EmptyState, States, Known
<1>2. TypeInv
  <2>1. <<>> \in Seq(Gists) /\ ToSet(<<>>) = {}
    BY EmptySeq DEF ToSet
  <2>2. /\ remote \in States /\ listing \in Seq(Gists) /\ unheard \in BOOLEAN
        /\ slipped \in BOOLEAN
        /\ run \in [Runs -> RunRecords] /\ visible \subseteq Searched
    BY <1>1, <2>1, IdleType DEF Init
  <2>3. /\ announced \in [Fingerprints -> Nat] /\ clock \in 0 .. MaxTime
        /\ version \in [Objects -> 0 .. MaxVersion]
        /\ updated \in [Gists -> 0 .. MaxTime]
    BY StateAssumption, MonitorAssumption DEF Init
  <2>4. Exists
    BY <2>1 DEF Init, Exists
  <2> QED
    BY <2>2, <2>3, <2>4 DEF TypeInv, MonitorTypeOK
<1>3. Times /\ Counted /\ RecordedIsAnnounced
  BY <1>1 DEF Init, Idle, Times, Before, Counted, RecordedIsAnnounced,
              EmittedOnLaterRun
<1> QED
  BY <1>2, <1>3 DEF MonitorInv

LEMMA CurrentType ==
  ASSUME TypeInv, NEW o \in visible \union ToSet(listing)
  PROVE  Current(o) \in Fingerprints
<1>1. o \in Objects /\ version[o] >= 1
  BY DEF TypeInv, MonitorTypeOK, Exists, Objects, ToSet
<1> QED
  BY <1>1, StateAssumption DEF TypeInv, MonitorTypeOK, Current, Fingerprints

LEMMA ConsProperties ==
  ASSUME NEW S, NEW e \in S, NEW s \in Seq(S)
  PROVE  /\ <<e>> \o s \in Seq(S)
         /\ ToSet(<<e>> \o s) \subseteq ToSet(s) \union {e}
<1>1. <<e>> \in Seq(S) /\ Len(<<e>>) = 1 /\ <<e>>[1] = e
  OBVIOUS
<1>2. <<e>> \o s \in Seq(S) /\ Len(<<e>> \o s) = 1 + Len(s)
  BY <1>1, ConcatProperties
<1>3. \A i \in 1 .. 1 + Len(s) :
        (<<e>> \o s)[i] = IF i = 1 THEN e ELSE s[i - 1]
  BY <1>1, ConcatProperties
<1>4. \A i \in 1 .. 1 + Len(s) : (<<e>> \o s)[i] \in ToSet(s) \union {e}
  BY <1>3 DEF ToSet
<1>5. DOMAIN (<<e>> \o s) = 1 .. 1 + Len(s)
  BY <1>2
<1> QED
  BY <1>2, <1>4, <1>5 DEF ToSet

\* Removing a gist from the listing leaves a listing of others.
LEMMA WithoutType ==
  ASSUME TypeInv, NEW g \in Gists
  PROVE  /\ Without(g) \in Seq(Gists)
         /\ ToSet(Without(g)) \subseteq ToSet(listing)
<1>1. listing \in Seq(Gists)
  BY DEF TypeInv, MonitorTypeOK
<1>2. CASE g \notin ToSet(listing)
  BY <1>1, <1>2 DEF Without
<1>3. CASE g \in ToSet(listing)
  <2> DEFINE i == CHOOSE i \in DOMAIN listing : listing[i] = g
  <2>1. i \in 1 .. Len(listing)
    BY <1>1, <1>3 DEF ToSet
  <2> HIDE DEF i
  <2> DEFINE front == SubSeq(listing, 1, i - 1)
             back == SubSeq(listing, i + 1, Len(listing))
  <2>2. Without(g) = front \o back
    BY <1>3 DEF Without, RemoveAt, i
  <2>3. /\ front \in Seq(Gists) /\ \A k \in 1 .. Len(front) : front[k] \in ToSet(listing)
        /\ back \in Seq(Gists) /\ \A k \in 1 .. Len(back) : back[k] \in ToSet(listing)
    BY <1>1, <2>1, SubSeqProperties DEF ToSet
  <2> HIDE DEF front, back
  <2>4. front \o back \in Seq(Gists)
    BY <2>3
  <2>5. \A k \in 1 .. Len(front \o back) : (front \o back)[k] \in ToSet(listing)
    BY <2>3, ConcatProperties
  <2> QED
    BY <2>2, <2>4, <2>5 DEF ToSet
<1> QED
  BY <1>2, <1>3

---------------------------------------------------------------------------
\* Type correctness is preserved.
LEMMA TypeStep ==
  ASSUME TypeInv, [Next]_vars
  PROVE  TypeInv'
<1> USE DEF TypeInv, MonitorTypeOK, Exists
<1>1. ASSUME NEW w \in Runs, NEW r \in RunRecords, run' = [run EXCEPT ![w] = r]
      PROVE  run' \in [Runs -> RunRecords]
  BY <1>1
<1>2. ASSUME NEW w \in Runs, ReadState(w)
      PROVE  TypeInv'
  <2>1. [[run[w] EXCEPT !.step = "collect"] EXCEPT !.base = remote] \in RunRecords
    BY DEF RunRecords, Steps
  <2> QED
    BY <1>2, <2>1 DEF ReadState, published
<1>3. ASSUME NEW w \in Runs, Search(w)
      PROVE  TypeInv'
  <2>1. {Current(o) : o \in visible} \subseteq Fingerprints
    BY CurrentType
  <2>2. run'[w] = [step |-> "list", base |-> run[w].base, now |-> clock, page |-> 1,
                   queue |-> run[w].queue,
                   observed |-> {Current(o) : o \in visible}]
    BY <1>3 DEF Search, RunRecords
  <2>3. run'[w] \in RunRecords
    BY <2>1, <2>2, MonitorAssumption DEF RunRecords, Steps
  <2>4. run' = [run EXCEPT ![w] = run'[w]]
    BY <1>3 DEF Search
  <2> QED
    BY <1>1, <1>3, <2>3, <2>4 DEF Search, published
<1>4. ASSUME NEW w \in Runs, ListPage(w)
      PROVE  TypeInv'
  <2>1. PICK queue \in Seq(Gists) : UpdateListing(w, queue)
    <3>1. OnPage(w) \subseteq Gists
      BY DEF OnPage, Delta
    <3>2. run[w].queue \in Seq(Gists)
      BY DEF RunRecords
    <3> QED
      BY <1>4, <3>1, <3>2, AppendProperties DEF ListPage
  <2>2. run'[w] = [step |-> IF HasNext(w) THEN "list" ELSE "detail",
                   base |-> run[w].base, now |-> run[w].now,
                   page |-> IF HasNext(w) THEN run[w].page + 1 ELSE 0,
                   queue |-> queue, observed |-> run[w].observed]
    BY <2>1 DEF UpdateListing, RunRecords
  <2>3. run[w].page + 1 \in 0 .. MaxPages + 1 /\ 0 \in 0 .. MaxPages + 1
    BY <1>4, MonitorAssumption DEF ListPage, RunRecords
  <2>4. run'[w] \in RunRecords
    BY <2>2, <2>3 DEF RunRecords, Steps
  <2>5. run' = [run EXCEPT ![w] = run'[w]]
    BY <2>1 DEF UpdateListing
  <2> QED
    BY <1>1, <1>4, <2>4, <2>5 DEF ListPage, published
<1>5. ASSUME NEW w \in Runs, FetchGist(w)
      PROVE  TypeInv'
  <2> DEFINE g == Head(run[w].queue)
             seen == IF g \in Matching THEN run[w].observed \union {Current(g)}
                     ELSE run[w].observed
  <2>1. Current(g) \in Fingerprints
    BY <1>5, CurrentType DEF FetchGist
  <2>2. run[w].queue \in Seq(Gists) /\ run[w].queue # <<>>
    BY <1>5 DEF FetchGist, RunRecords
  <2>3. Tail(run[w].queue) \in Seq(Gists)
    BY <2>2, HeadTailProperties
  <2>4. run'[w] = [step |-> run[w].step, base |-> run[w].base, now |-> run[w].now,
                   page |-> run[w].page, queue |-> Tail(run[w].queue),
                   observed |-> seen]
    BY <1>5 DEF FetchGist, RunRecords
  <2>5. seen \in SUBSET Fingerprints
    BY <2>1 DEF RunRecords
  <2>6. run'[w] \in RunRecords
    BY <2>3, <2>4, <2>5 DEF RunRecords
  <2>7. run' = [run EXCEPT ![w] = run'[w]]
    BY <1>5 DEF FetchGist
  <2> QED
    BY <1>1, <1>5, <2>6, <2>7 DEF FetchGist, published
<1>6. ASSUME NEW w \in Runs, PutState(w)
      PROVE  TypeInv'
  <2>1. NextState(w) \in States
    BY ReconcileType DEF NextState, NewCursor, RunRecords
  <2>2. [run[w] EXCEPT !.step = "written"] \in RunRecords
    BY DEF RunRecords, Steps
  <2> QED
    BY <1>6, <2>1, <2>2 DEF PutState, published
<1>7. ASSUME NEW w \in Runs,
             PaginationLimit(w) \/ GistGone(w) \/ PutConflict(w) \/ Fail(w)
               \/ ResponseLost(w)
      PROVE  TypeInv'
  BY <1>7, IdleType
  DEF PaginationLimit, GistGone, PutConflict, Fail, ResponseLost, published
<1>8. ASSUME NEW w \in Runs, Exit(w)
      PROVE  TypeInv'
  BY <1>8, IdleType DEF Exit, published
<1>9. ASSUME NEW o \in Searched, PublishSearched(o)
      PROVE  TypeInv'
  <2>1. o \in Objects
    BY DEF Objects
  <2>2. version' \in [Objects -> 0 .. MaxVersion] /\ \A x \in Objects : version'[x] >= version[x]
    BY <1>9, <2>1, StateAssumption DEF PublishSearched
  <2>3. version'[o] >= 1
    BY <1>9, <2>1, StateAssumption DEF PublishSearched
  <2>4. ToSet(listing) \subseteq Objects /\ visible \subseteq Objects
    BY DEF ToSet, Objects
  <2> QED
    BY <1>9, <2>2, <2>3, <2>4, StateAssumption DEF PublishSearched
<1>10. ASSUME NEW o \in Searched, Unpublish(o)
       PROVE  TypeInv'
  BY <1>10 DEF Unpublish
<1>11. ASSUME NEW g \in Gists, PublishGist(g)
       PROVE  TypeInv'
  <2>1. g \in Objects
    BY DEF Objects
  <2>2. version' \in [Objects -> 0 .. MaxVersion] /\ \A x \in Objects : version'[x] >= version[x]
    BY <1>11, <2>1, StateAssumption DEF PublishGist
  <2>3. version'[g] >= 1
    BY <1>11, <2>1, StateAssumption DEF PublishGist
  <2>4. ToSet(listing) \subseteq Objects /\ visible \subseteq Objects
    BY DEF ToSet, Objects
  <2>5. Without(g) \in Seq(Gists) /\ ToSet(Without(g)) \subseteq ToSet(listing)
    BY WithoutType
  <2>6. <<g>> \o Without(g) \in Seq(Gists)
        /\ ToSet(<<g>> \o Without(g)) \subseteq ToSet(listing) \union {g}
    BY <2>5, ConsProperties
  <2>7. Exists'
    BY <1>11, <2>2, <2>3, <2>4, <2>6, StateAssumption DEF PublishGist
  <2> QED
    BY <1>11, <2>2, <2>6, <2>7 DEF PublishGist
<1>12. ASSUME NEW g \in Gists, DeleteGist(g)
       PROVE  TypeInv'
  BY <1>12, WithoutType DEF DeleteGist
<1>13. ASSUME NEW f \in Fingerprints, Review(f)
       PROVE  TypeInv'
  <2>1. remote.findings[f] \in Findings
    BY <1>13 DEF Review, Known, States
  <2>2. remote.findings[f].first_seen \in Nat /\ clock + 1 \in Nat /\ 0 \in Nat
    BY <2>1, MonitorAssumption DEF Findings
  <2>3. /\ ReviewedTo(f, "remediated", 0) \in States
        /\ ReviewedTo(f, "reviewed", clock + 1) \in States
    BY <2>2 DEF ReviewedTo, States, Findings
  <2> QED
    BY <1>13, <2>3 DEF Review, published
<1>14. ASSUME Tick
       PROVE  TypeInv'
  BY <1>14, MonitorAssumption DEF Tick, published
<1>15. ASSUME UNCHANGED vars
       PROVE  TypeInv'
  BY <1>15 DEF vars, published
<1> HIDE DEF TypeInv
<1> QED
  BY <1>2, <1>3, <1>4, <1>5, <1>6, <1>7, <1>8, <1>9, <1>10, <1>11, <1>12,
     <1>13, <1>14, <1>15
  DEF Next, RunStep, World

---------------------------------------------------------------------------
\* A run's step before the PUT, or its end without an announcement, moves that
\* run alone, to a place that is not "written".
Elsewhere(w) ==
  /\ UNCHANGED <<remote, announced>>
  /\ \E r : r.step # "written" /\ run' = [run EXCEPT ![w] = r]

LEMMA RunElsewhere ==
  ASSUME TypeInv, NEW w \in Runs,
         \/ ReadState(w) \/ Search(w) \/ ListPage(w) \/ PaginationLimit(w)
         \/ FetchGist(w) \/ GistGone(w) \/ PutConflict(w) \/ Fail(w)
         \/ ResponseLost(w)
  PROVE  Elsewhere(w)
<1> USE DEF TypeInv, MonitorTypeOK, RunRecords
<1>1. CASE PaginationLimit(w) \/ GistGone(w) \/ PutConflict(w) \/ Fail(w)
             \/ ResponseLost(w)
  BY <1>1 DEF PaginationLimit, GistGone, PutConflict, Fail, ResponseLost, Idle,
              Elsewhere
<1>2. CASE ReadState(w) \/ Search(w) \/ ListPage(w) \/ FetchGist(w)
  <2>1. CASE ListPage(w)
    <3>1. PICK queue : UpdateListing(w, queue)
      BY <2>1 DEF ListPage
    <3>2. run'[w].step # "written" /\ run' = [run EXCEPT ![w] = run'[w]]
      BY <3>1 DEF UpdateListing
    <3> QED
      BY <2>1, <3>2 DEF ListPage, Elsewhere
  <2>2. CASE ReadState(w) \/ Search(w) \/ FetchGist(w)
    <3>1. run'[w].step # "written" /\ run' = [run EXCEPT ![w] = run'[w]]
      BY <2>2 DEF ReadState, Search, FetchGist
    <3> QED
      BY <2>2, <3>1 DEF ReadState, Search, FetchGist, Elsewhere
  <2> QED
    BY <1>2, <2>1, <2>2
<1> QED
  BY <1>1, <1>2

LEMMA WorldElsewhere ==
  ASSUME TypeInv, World
  PROVE  UNCHANGED <<run, announced, unheard>> /\ Known(remote') = Known(remote)
<1> USE DEF TypeInv, MonitorTypeOK
<1>1. ASSUME NEW f \in Fingerprints, Review(f)
      PROVE  Known(remote') = Known(remote)
  <2>1. f \in Known(remote)
    BY <1>1 DEF Review
  <2>2. PICK finding \in Findings :
          remote' = [remote EXCEPT !.findings[f] = finding]
    <3>1. remote.findings[f].first_seen \in Nat /\ clock + 1 \in Nat /\ 0 \in Nat
      BY <2>1, MonitorAssumption DEF Known, States, Findings
    <3> QED
      BY <1>1, <3>1 DEF Review, ReviewedTo, Findings
  <2>3. finding # NoFinding
    BY <2>2, StateAssumption
  <2> QED
    BY <2>1, <2>2, <2>3 DEF Known, States
<1> QED
  BY <1>1 DEF World, PublishSearched, Unpublish, PublishGist, DeleteGist,
              Review, Tick

\* What PutState and Exit do, in the terms of the invariant.
LEMMA PutEffect ==
  ASSUME TypeInv, NEW w \in Runs, PutState(w)
  PROVE  /\ Known(remote') = Known(remote) \union run[w].observed
         /\ News(w) = run[w].observed \ Known(remote)
         /\ announced' = announced /\ unheard' = unheard
         /\ run[w].step # "written"
         /\ run' = [run EXCEPT ![w] = run'[w]]
         /\ run'[w].step = "written"
         /\ run'[w].base = run[w].base /\ run'[w].observed = run[w].observed
<1> USE DEF TypeInv, MonitorTypeOK, RunRecords
<1>1. remote = run[w].base
  BY DEF PutState, BlobUnchanged
<1>2. Known(remote') = Known(remote) \union run[w].observed
  BY <1>1, ReconcileKnown DEF PutState, NextState, NewCursor
<1> QED
  BY <1>1, <1>2 DEF PutState, ReadyToPut, News, NewEvents

LEMMA ExitEffect ==
  ASSUME TypeInv, NEW w \in Runs, Exit(w)
  PROVE  /\ run[w].step = "written"
         /\ \A f \in Fingerprints :
              announced'[f] = IF f \in News(w) THEN announced[f] + 1 ELSE announced[f]
         /\ UNCHANGED <<remote, unheard>>
         /\ run' = [run EXCEPT ![w] = Idle]
BY DEF Exit, News

LEMMA CountedStep ==
  ASSUME TypeInv, Counted, [Next]_vars
  PROVE  Counted'
<1> USE DEF TypeInv, MonitorTypeOK
<1>1. ASSUME NEW w \in Runs, Elsewhere(w)
      PROVE  Counted'
  BY <1>1 DEF Elsewhere, Counted, News
<1>2. ASSUME NEW w \in Runs, PutState(w)
      PROVE  Counted'
  <2> SUFFICES ASSUME NEW f \in Fingerprints
               PROVE  /\ announced'[f] <= 1
                      /\ announced'[f] = 1 => f \in Known(remote')
                      /\ \A u \in Runs :
                           run'[u].step = "written" /\ f \in News(u)' =>
                             /\ f \in Known(remote')
                             /\ announced'[f] = 0
                             /\ \A v \in Runs :
                                  run'[v].step = "written" /\ f \in News(v)' => v = u
    BY DEF Counted
  <2>1. announced'[f] = announced[f] /\ Known(remote) \subseteq Known(remote')
    BY <1>2, PutEffect
  <2>2. News(w)' = News(w) /\ \A u \in Runs \ {w} : run'[u] = run[u] /\ News(u)' = News(u)
    BY <1>2, PutEffect DEF News
  <2>3. ASSUME f \in News(w)
        PROVE  /\ f \in Known(remote') /\ announced[f] = 0
               /\ \A u \in Runs : ~(run[u].step = "written" /\ f \in News(u))
    <3>1. f \notin Known(remote) /\ f \in Known(remote')
      BY <1>2, <2>3, PutEffect
    <3>2. announced[f] \in {0, 1}
      BY DEF Counted
    <3> QED
      BY <3>1, <3>2 DEF Counted
  <2> QED
    BY <1>2, <2>1, <2>2, <2>3 DEF Counted
<1>3. ASSUME NEW w \in Runs, Exit(w)
      PROVE  Counted'
  <2> SUFFICES ASSUME NEW f \in Fingerprints
               PROVE  /\ announced'[f] <= 1
                      /\ announced'[f] = 1 => f \in Known(remote')
                      /\ \A u \in Runs :
                           run'[u].step = "written" /\ f \in News(u)' =>
                             /\ f \in Known(remote')
                             /\ announced'[f] = 0
                             /\ \A v \in Runs :
                                  run'[v].step = "written" /\ f \in News(v)' => v = u
    BY DEF Counted
  <2>1. run'[w].step # "written" /\ \A u \in Runs \ {w} : run'[u] = run[u] /\ News(u)' = News(u)
    BY <1>3, ExitEffect DEF Idle, News
  <2>2. CASE f \in News(w)
    <3>1. announced[f] = 0 /\ announced'[f] = 1 /\ f \in Known(remote')
      BY <1>3, <2>2, ExitEffect DEF Counted
    <3>2. \A u \in Runs : ~(run'[u].step = "written" /\ f \in News(u)')
      BY <1>3, <2>1, <2>2, ExitEffect DEF Counted
    <3> QED
      BY <3>1, <3>2
  <2>3. CASE f \notin News(w)
    <3>1. announced'[f] = announced[f] /\ remote' = remote
      BY <1>3, <2>3, ExitEffect
    <3> QED
      BY <2>1, <3>1 DEF Counted
  <2> QED
    BY <2>2, <2>3
<1>4. CASE World
  <2>1. Known(remote') = Known(remote) /\ UNCHANGED <<run, announced>>
    BY <1>4, WorldElsewhere
  <2> QED
    BY <2>1 DEF Counted, News
<1>5. CASE UNCHANGED vars
  BY <1>5 DEF vars, Counted, News
<1> HIDE DEF TypeInv
<1> QED
  BY <1>1, <1>2, <1>3, <1>4, <1>5, RunElsewhere DEF Next, RunStep

LEMMA AnnouncedStep ==
  ASSUME TypeInv, RecordedIsAnnounced, [Next]_vars
  PROVE  RecordedIsAnnounced'
<1> SUFFICES ASSUME ~unheard', NEW f \in Known(remote')
             PROVE  \/ announced'[f] > 0
                    \/ \E w \in Runs : run'[w].step = "written" /\ f \in News(w)'
  BY DEF RecordedIsAnnounced, EmittedOnLaterRun, News
<1> USE DEF TypeInv, MonitorTypeOK
<1>1. f \in Fingerprints
  BY DEF Known
<1>2. ASSUME ~unheard, f \in Known(remote)
      PROVE  \/ announced[f] > 0
             \/ \E w \in Runs : run[w].step = "written" /\ f \in News(w)
  BY <1>2 DEF RecordedIsAnnounced, EmittedOnLaterRun, News
<1>3. ASSUME NEW w \in Runs,
             \/ ReadState(w) \/ Search(w) \/ ListPage(w) \/ PaginationLimit(w)
             \/ FetchGist(w) \/ GistGone(w) \/ PutConflict(w) \/ Fail(w)
      PROVE  \/ announced'[f] > 0
             \/ \E v \in Runs : run'[v].step = "written" /\ f \in News(v)'
  <2>1. run[w].step # "written" /\ unheard' = unheard
    BY <1>3 DEF ReadState, Search, ListPage, PaginationLimit, FetchGist, GistGone,
                PutConflict, Fail, ReadyToPut, BeforePut
  <2>2. Elsewhere(w)
    BY <1>3, RunElsewhere
  <2> QED
    BY <1>2, <2>1, <2>2 DEF Elsewhere, News
<1>4. ASSUME NEW w \in Runs, PutState(w)
      PROVE  \/ announced'[f] > 0
             \/ \E v \in Runs : run'[v].step = "written" /\ f \in News(v)'
  <2>1. f \in Known(remote) \/ f \in News(w)
    BY <1>4, PutEffect
  <2>2. News(w)' = News(w) /\ run'[w].step = "written"
    BY <1>4, PutEffect DEF News
  <2>3. \A v \in Runs \ {w} : run'[v] = run[v] /\ News(v)' = News(v)
    BY <1>4, PutEffect DEF News
  <2> QED
    BY <1>2, <1>4, <2>1, <2>2, <2>3, PutEffect
<1>5. ASSUME NEW w \in Runs, Exit(w)
      PROVE  \/ announced'[f] > 0
             \/ \E v \in Runs : run'[v].step = "written" /\ f \in News(v)'
  <2>1. announced[f] \in Nat
    BY <1>1
  <2>2. \A v \in Runs \ {w} : run'[v] = run[v] /\ News(v)' = News(v)
    BY <1>5, ExitEffect DEF News
  <2>3. CASE f \in News(w)
    BY <1>1, <1>5, <2>1, <2>3, ExitEffect
  <2>4. CASE f \notin News(w)
    BY <1>1, <1>2, <1>5, <2>2, <2>4, ExitEffect
  <2> QED
    BY <2>3, <2>4
<1>6. ASSUME NEW w \in Runs, ResponseLost(w)
      PROVE  FALSE
  BY <1>6 DEF ResponseLost
<1>7. ASSUME World
      PROVE  \/ announced'[f] > 0
             \/ \E v \in Runs : run'[v].step = "written" /\ f \in News(v)'
  BY <1>2, <1>7, WorldElsewhere DEF News
<1>8. ASSUME UNCHANGED vars
      PROVE  \/ announced'[f] > 0
             \/ \E v \in Runs : run'[v].step = "written" /\ f \in News(v)'
  BY <1>2, <1>8 DEF vars, News
<1> HIDE DEF TypeInv
<1> QED
  BY <1>3, <1>4, <1>5, <1>6, <1>7, <1>8 DEF Next, RunStep

---------------------------------------------------------------------------
\* The collection time of a run is never behind the cursor it replaces.
LEMMA TimesStep ==
  ASSUME TypeInv, Times, [Next]_vars
  PROVE  Times'
<1> USE DEF TypeInv, MonitorTypeOK
<1>1. /\ clock \in Int /\ clock' \in Int /\ clock <= clock'
      /\ remote.cursor \in Nat \union {NoCursor}
      /\ \A w \in Runs : run[w].now \in Int /\ run[w].base.cursor \in Nat \union {NoCursor}
  <2>1. TypeInv'
    BY TypeStep
  <2>2. clock \in Int /\ clock' \in Int
    BY <2>1, MonitorAssumption
  <2>3. ASSUME Tick PROVE clock <= clock'
    BY <2>2, <2>3 DEF Tick
  <2>4. ASSUME ~Tick PROVE clock <= clock'
    <3>1. clock' = clock
      BY <2>4
      DEF Next, RunStep, World, ReadState, Search, ListPage, PaginationLimit,
          FetchGist, GistGone, PutState, PutConflict, Exit, Fail, ResponseLost,
          PublishSearched, Unpublish, PublishGist, DeleteGist, Review, vars
    <3> QED
      BY <2>2, <3>1
  <2>5. clock <= clock'
    BY <2>3, <2>4
  <2> QED
    BY <2>2, <2>5, MonitorAssumption DEF RunRecords, States
<1>2. ASSUME NEW w \in Runs,
             \/ PaginationLimit(w) \/ GistGone(w) \/ PutConflict(w) \/ Fail(w)
             \/ ResponseLost(w) \/ Exit(w)
      PROVE  Times'
  <2>1. run' = [run EXCEPT ![w] = Idle] /\ UNCHANGED <<remote, clock>>
    BY <1>2 DEF PaginationLimit, GistGone, PutConflict, Fail, ResponseLost, Exit
  <2> QED
    BY <2>1 DEF Times, Idle
<1>3. ASSUME NEW w \in Runs, ReadState(w)
      PROVE  Times'
  BY <1>3 DEF ReadState, Times
<1>4. ASSUME NEW w \in Runs, Search(w)
      PROVE  Times'
  BY <1>1, <1>4 DEF Search, Times
<1>5. ASSUME NEW w \in Runs, ListPage(w)
      PROVE  Times'
  <2>1. PICK queue : UpdateListing(w, queue)
    BY <1>5 DEF ListPage
  <2>2. /\ run'[w].step \in {"list", "detail"}
        /\ run'[w].now = run[w].now /\ run'[w].base = run[w].base
        /\ \A v \in Runs \ {w} : run'[v] = run[v]
    BY <2>1 DEF UpdateListing
  <2>3. run[w].step = "list" /\ UNCHANGED <<remote, clock>>
    BY <1>5 DEF ListPage
  <2> QED
    BY <2>2, <2>3 DEF Times
<1>6. ASSUME NEW w \in Runs, FetchGist(w)
      PROVE  Times'
  BY <1>6 DEF FetchGist, Times
<1>7. ASSUME NEW w \in Runs, PutState(w)
      PROVE  Times'
  <2>1. remote'.cursor = run[w].now /\ run[w].now <= clock
    BY <1>7 DEF PutState, ReadyToPut, NextState, NewCursor, Reconcile, Times
  <2> QED
    BY <1>7, <2>1 DEF PutState, ReadyToPut, Times, Before
<1>8. ASSUME World
      PROVE  Times'
  <2>1. remote'.cursor = remote.cursor
    <3>1. ASSUME NEW f \in Fingerprints, Review(f)
          PROVE  remote'.cursor = remote.cursor
      BY <3>1 DEF Review, ReviewedTo, States
    <3> QED
      BY <1>8, <3>1
      DEF World, PublishSearched, Unpublish, PublishGist, DeleteGist, Tick
  <2>2. run' = run
    BY <1>8, WorldElsewhere
  <2> QED
    BY <1>1, <2>1, <2>2 DEF Times, Before
<1>9. CASE UNCHANGED vars
  BY <1>9 DEF vars, Times
<1> HIDE DEF TypeInv
<1> QED
  BY <1>2, <1>3, <1>4, <1>5, <1>6, <1>7, <1>8, <1>9 DEF Next, RunStep

---------------------------------------------------------------------------
\* The inductive invariant of the specification.
THEOREM MonitorInvariant == Spec => []MonitorInv
<1>1. MonitorInv /\ [Next]_vars => MonitorInv'
  BY TypeStep, TimesStep, CountedStep, AnnouncedStep DEF MonitorInv
<1> QED
  BY <1>1, MonitorInitInv, PTL DEF Spec

\* The documents and the runs keep their types: validate_state accepts every
\* document that a run or the reviewer leaves.
THEOREM MonitorTypeCorrect == Spec => []MonitorTypeOK
<1>1. MonitorInv => MonitorTypeOK
  BY DEF MonitorInv, TypeInv
<1> QED
  BY <1>1, MonitorInvariant, PTL

\* No finding is announced as new twice.
THEOREM MonitorNewOnce == Spec => []NewOnce
<1>1. MonitorInv => NewOnce
  BY DEF MonitorInv, Counted, NewOnce
<1> QED
  BY <1>1, MonitorInvariant, PTL

\* What was announced is recorded and stays recorded.
THEOREM MonitorAnnouncedIsRecorded == Spec => []AnnouncedIsRecorded
<1>1. MonitorInv => AnnouncedIsRecorded
  <2> SUFFICES ASSUME MonitorInv, NEW f \in Fingerprints, announced[f] > 0
               PROVE  f \in Known(remote)
    BY DEF AnnouncedIsRecorded
  <2>1. announced[f] = 1
    BY DEF MonitorInv, TypeInv, MonitorTypeOK, Counted
  <2> QED
    BY <2>1 DEF MonitorInv, Counted
<1> QED
  BY <1>1, MonitorInvariant, PTL

\* While every PUT's response arrives, what is recorded is announced or about
\* to be.
THEOREM MonitorRecordedIsAnnounced == Spec => []RecordedIsAnnounced
<1>1. MonitorInv => RecordedIsAnnounced
  BY DEF MonitorInv
<1> QED
  BY <1>1, MonitorInvariant, PTL

Forward ==
  /\ remote.cursor = NoCursor \/ remote'.cursor >= remote.cursor
  /\ Known(remote) \subseteq Known(remote')
  /\ \A f \in Known(remote) :
       LET old == remote.findings[f]
           new == remote'.findings[f]
       IN /\ new.first_seen = old.first_seen
          /\ new.disposition = "open" /\ old.disposition # "open" =>
               \/ old.disposition = "remediated"
               \/ old.expires <= remote'.cursor

LEMMA ForwardStep ==
  ASSUME MonitorInv, [Next]_vars, remote' # remote
  PROVE  Forward
<1> USE DEF MonitorInv, TypeInv, MonitorTypeOK
<1>1. ASSUME NEW w \in Runs, PutState(w)
      PROVE  Forward
  <2>1. /\ remote = run[w].base /\ run[w].now \in 0 .. MaxTime
        /\ run[w].observed \in SUBSET Fingerprints
        /\ remote' = Reconcile(remote, run[w].observed, run[w].now)
    BY <1>1 DEF PutState, BlobUnchanged, NextState, NewCursor, RunRecords
  <2>2. remote'.cursor = run[w].now
    BY <2>1 DEF Reconcile
  <2>3. remote.cursor = NoCursor \/ remote'.cursor >= remote.cursor
    <3>1. remote.cursor = NoCursor \/ remote.cursor <= run[w].now
      BY <1>1, <2>1 DEF PutState, ReadyToPut, Times, Before
    <3>2. remote.cursor = NoCursor \/ remote.cursor \in Nat
      BY DEF States
    <3> QED
      BY <2>1, <2>2, <3>1, <3>2, MonitorAssumption
  <2>4. Known(remote) \subseteq Known(remote')
    BY <1>1, PutEffect
  <2> QED
    BY <2>1, <2>2, <2>3, <2>4, ReconcileKeeps DEF Forward
<1>2. ASSUME NEW f \in Fingerprints, Review(f)
      PROVE  Forward
  <2>1. Known(remote') = Known(remote)
    BY <1>2, WorldElsewhere DEF World
  <2>2. remote'.cursor = remote.cursor
    BY <1>2 DEF Review, ReviewedTo, States
  <2>3. \A g \in Fingerprints \ {f} : remote'.findings[g] = remote.findings[g]
    BY <1>2 DEF Review, ReviewedTo, States
  <2>4. /\ remote'.findings[f].first_seen = remote.findings[f].first_seen
        /\ remote'.findings[f].disposition # "open"
    BY <1>2 DEF Review, ReviewedTo, States
  <2>5. remote.cursor = NoCursor \/ remote.cursor \in Nat
    BY DEF States
  <2>6. remote.cursor = NoCursor \/ remote'.cursor >= remote.cursor
    BY <2>2, <2>5
  <2>7. ASSUME NEW g \in Known(remote)
        PROVE  /\ remote'.findings[g].first_seen = remote.findings[g].first_seen
               /\ remote'.findings[g].disposition = "open" =>
                    remote.findings[g].disposition = "open"
    <3>1. g \in Fingerprints
      BY DEF Known
    <3> QED
      BY <2>3, <2>4, <3>1
  <2> QED
    BY <2>1, <2>6, <2>7 DEF Forward
<1> QED
  BY <1>1, <1>2
  DEF Next, RunStep, World, ReadState, Search, ListPage, PaginationLimit,
      FetchGist, GistGone, PutConflict, Exit, Fail, ResponseLost,
      PublishSearched, Unpublish, PublishGist, DeleteGist, Tick, vars

\* No step loses a finding, moves the cursor back or overrides a review that
\* is still in force.
THEOREM MonitorMovesForward == Spec => MovesForward
<1>1. MonitorInv /\ [Next]_vars => (remote' # remote => Forward)
  BY ForwardStep
<1>2. MonitorInv /\ [Next]_vars => [Forward]_remote
  BY <1>1
<1> QED
  BY <1>2, MonitorInvariant, PTL DEF Spec, MovesForward, Forward

---------------------------------------------------------------------------
\* No gist is skipped.  The listing moves while a run turns its pages: what
\* is still due lies ahead of the run, is in its queue, or is read already.

\* The listing has every gist once, the last updated first.
Ordered(list) ==
  /\ \A i, j \in 1 .. Len(list) : i # j => list[i] # list[j]
  /\ \A i, j \in 1 .. Len(list) : i <= j => updated[list[i]] >= updated[list[j]]
  /\ \A i \in 1 .. Len(list) : updated[list[i]] <= clock

\* A listed gist that is gone does not come back: the run that waits for its
\* content cannot put its document any more.
Doomed(w) == \E h \in ToSet(run[w].queue) : h \notin ToSet(listing)

\* What the run must find, and how far it is with it.
Due(w, g) ==
  g \in ToSet(listing) /\ updated[g] < run[w].now /\ updated[g] >= Since(w)

Ahead(w, g) ==
  run[w].step = "list" /\ \E i \in 1 .. Len(listing) : i >= run[w].page /\ listing[i] = g

Reached(w, g) ==
  g \in ToSet(run[w].queue) \/ Current(g) \in run[w].observed \/ Ahead(w, g)

Covered(w) == Doomed(w) \/ \A g \in Matching : Due(w, g) => Reached(w, g)

SkipInv ==
  /\ Ordered(listing)
  /\ \A w \in Runs : \A h \in ToSet(run[w].queue) : version[h] >= 1
  /\ ~slipped => \A w \in Runs : run[w].step \in {"list", "detail"} => Covered(w)
  /\ NothingSkipped

\* What leaves its place lets what follows move up by one.
LEMMA WithoutPlaces ==
  ASSUME TypeInv, Ordered(listing), NEW g \in ToSet(listing)
  PROVE  \E p \in 1 .. Len(listing) :
           /\ listing[p] = g
           /\ Len(Without(g)) = Len(listing) - 1
           /\ \A k \in 1 .. Len(listing) - 1 :
                Without(g)[k] = IF k < p THEN listing[k] ELSE listing[k + 1]
<1>1. listing \in Seq(Gists) /\ Len(listing) \in Nat
  BY DEF TypeInv, MonitorTypeOK
<1> DEFINE p == CHOOSE i \in DOMAIN listing : listing[i] = g
           front == SubSeq(listing, 1, p - 1)
           back == SubSeq(listing, p + 1, Len(listing))
<1>2. p \in 1 .. Len(listing) /\ listing[p] = g
  BY <1>1 DEF ToSet
<1>3. Without(g) = front \o back
  BY DEF Without, RemoveAt
<1> HIDE DEF p
<1>4. /\ front \in Seq(Gists) /\ Len(front) = p - 1
      /\ \A k \in 1 .. p - 1 : front[k] = listing[k]
  BY <1>1, <1>2, SubSeqProperties
<1>5. /\ back \in Seq(Gists) /\ Len(back) = Len(listing) - p
      /\ \A k \in 1 .. Len(listing) - p : back[k] = listing[p + k]
  BY <1>1, <1>2, SubSeqProperties
<1> HIDE DEF front, back
<1>6. /\ Len(front \o back) = Len(listing) - 1
      /\ \A k \in 1 .. Len(listing) - 1 :
           (front \o back)[k] = IF k <= p - 1 THEN front[k] ELSE back[k - (p - 1)]
  <2>1. /\ Len(front \o back) = Len(front) + Len(back)
        /\ \A k \in 1 .. Len(front) + Len(back) :
             (front \o back)[k] = IF k <= Len(front) THEN front[k] ELSE back[k - Len(front)]
    BY <1>4, <1>5, ConcatProperties
  <2>2. Len(front) + Len(back) = Len(listing) - 1 /\ Len(front) = p - 1
    BY <1>1, <1>2, <1>4, <1>5
  <2> QED
    BY <2>1, <2>2
<1>7. ASSUME NEW k \in 1 .. Len(listing) - 1
      PROVE  (front \o back)[k] = IF k < p THEN listing[k] ELSE listing[k + 1]
  <2>1. CASE k < p
    BY <1>1, <1>2, <1>4, <1>6, <2>1
  <2>2. CASE k >= p
    <3>1. k - (p - 1) \in 1 .. Len(listing) - p /\ p + (k - (p - 1)) = k + 1
      BY <1>1, <1>2, <2>2
    <3>2. back[k - (p - 1)] = listing[k + 1]
      BY <1>5, <3>1
    <3>3. (front \o back)[k] = back[k - (p - 1)]
      BY <1>1, <1>2, <1>6, <2>2
    <3>4. ~(k < p)
      BY <1>1, <1>2, <2>2
    <3> QED
      BY <3>2, <3>3, <3>4
  <2>3. k < p \/ k >= p
    BY <1>1, <1>2
  <2> QED
    BY <2>1, <2>2, <2>3
<1> QED
  BY <1>2, <1>3, <1>6, <1>7

\* The listing without a gist is a listing of the others, in the same order;
\* only what came after the gist has another place, the one before its own.
LEMMA WithoutOrdered ==
  ASSUME TypeInv, Ordered(listing), NEW g \in Gists
  PROVE  /\ Without(g) \in Seq(Gists) /\ Ordered(Without(g))
         /\ \A k \in 1 .. Len(Without(g)) : Without(g)[k] # g
         /\ \A j \in 1 .. Len(listing) : listing[j] # g =>
              \/ j \in 1 .. Len(Without(g)) /\ Without(g)[j] = listing[j]
              \/ /\ j - 1 \in 1 .. Len(Without(g)) /\ Without(g)[j - 1] = listing[j]
                 /\ \E i \in 1 .. j - 1 : listing[i] = g
<1>1. listing \in Seq(Gists) /\ Len(listing) \in Nat /\ Without(g) \in Seq(Gists)
  BY WithoutType DEF TypeInv, MonitorTypeOK
<1>2. CASE g \notin ToSet(listing)
  BY <1>1, <1>2 DEF Without, ToSet
<1>3. CASE g \in ToSet(listing)
  <2> DEFINE W == Without(g)
  <2>1. PICK p \in 1 .. Len(listing) :
           /\ listing[p] = g
           /\ Len(W) = Len(listing) - 1
           /\ \A k \in 1 .. Len(listing) - 1 :
                W[k] = IF k < p THEN listing[k] ELSE listing[k + 1]
    BY <1>3, WithoutPlaces
  <2> HIDE DEF W
  <2>2. ASSUME NEW k \in 1 .. Len(W)
        PROVE  \E i \in 1 .. Len(listing) :
                 W[k] = listing[i] /\ i # p /\ i = IF k < p THEN k ELSE k + 1
    <3>1. CASE k < p
      BY <1>1, <2>1, <3>1
    <3>2. CASE k >= p
      <4>1. k + 1 \in 1 .. Len(listing) /\ k + 1 # p
        BY <1>1, <2>1, <3>2
      <4>2. W[k] = listing[k + 1]
        BY <1>1, <2>1, <3>2
      <4> QED
        BY <1>1, <2>1, <3>2, <4>1, <4>2
    <3> QED
      BY <1>1, <2>1, <3>1, <3>2
  <2>3. ASSUME NEW k \in 1 .. Len(W)
        PROVE  W[k] # g /\ updated[W[k]] <= clock
    BY <1>1, <2>1, <2>2 DEF Ordered
  <2>4. ASSUME NEW k \in 1 .. Len(W), NEW l \in 1 .. Len(W)
        PROVE  /\ k # l => W[k] # W[l]
               /\ k <= l => updated[W[k]] >= updated[W[l]]
    <3>1. PICK i \in 1 .. Len(listing) :
            W[k] = listing[i] /\ i # p /\ i = IF k < p THEN k ELSE k + 1
      BY <2>2
    <3>2. PICK j \in 1 .. Len(listing) :
            W[l] = listing[j] /\ j # p /\ j = IF l < p THEN l ELSE l + 1
      BY <2>2
    <3>3. (k # l => i # j) /\ (k <= l => i <= j)
      BY <1>1, <2>1, <3>1, <3>2
    <3> QED
      BY <3>1, <3>2, <3>3 DEF Ordered
  <2>5. ASSUME NEW j \in 1 .. Len(listing), listing[j] # g
        PROVE  \/ j \in 1 .. Len(W) /\ W[j] = listing[j]
               \/ /\ j - 1 \in 1 .. Len(W) /\ W[j - 1] = listing[j]
                  /\ \E i \in 1 .. j - 1 : listing[i] = g
    <3>1. CASE j < p
      BY <1>1, <2>1, <3>1
    <3>2. CASE j > p
      <4>1. j - 1 \in 1 .. Len(listing) - 1 /\ ~(j - 1 < p) /\ (j - 1) + 1 = j
            /\ p \in 1 .. j - 1
        BY <1>1, <2>1, <3>2
      <4>2. W[j - 1] = listing[j]
        BY <2>1, <4>1
      <4> QED
        BY <2>1, <4>1, <4>2
    <3> QED
      BY <1>1, <2>1, <2>5, <3>1, <3>2
  <2> QED
    BY <1>1, <2>3, <2>4, <2>5 DEF W, Ordered
<1> QED
  BY <1>2, <1>3

---------------------------------------------------------------------------
\* Steps of other runs and of the reviewer leave what a run has reached.
LEMMA CoveredSame ==
  ASSUME NEW w \in Runs, run'[w] = run[w], UNCHANGED <<version, listing, updated>>
  PROVE  Covered(w)' <=> Covered(w)
BY DEF Covered, Doomed, Due, Since, Reached, Ahead, Current

\* A step of one run alone keeps the invariant, if the run still covers what
\* is due.
LEMMA SkipQuiet ==
  ASSUME TypeInv, SkipInv, NEW w \in Runs, UNCHANGED <<remote, published, clock>>,
         \A v \in Runs \ {w} : run'[v] = run[v],
         ~slipped /\ run'[w].step \in {"list", "detail"} => Covered(w)',
         \A h \in ToSet(run'[w].queue) : version[h] >= 1
  PROVE  SkipInv'
<1>1. UNCHANGED <<version, listing, updated, slipped>>
  BY DEF published
<1>2. ASSUME ~slipped, NEW v \in Runs, run'[v].step \in {"list", "detail"}
      PROVE  Covered(v)'
  BY <1>1, <1>2, CoveredSame DEF SkipInv
<1>3. Ordered(listing)' /\ NothingSkipped'
  BY <1>1 DEF SkipInv, Ordered, NothingSkipped, FollowedFromCursor, Current
<1> QED
  BY <1>1, <1>2, <1>3 DEF SkipInv

\* A run that begins to list has everything ahead of it.
LEMMA SkipSearch ==
  ASSUME TypeInv, SkipInv, NEW w \in Runs, Search(w)
  PROVE  SkipInv'
<1>1. /\ UNCHANGED <<remote, published, clock>>
      /\ \A v \in Runs \ {w} : run'[v] = run[v]
      /\ run'[w].step = "list" /\ run'[w].page = 1 /\ run'[w].queue = run[w].queue
  BY DEF Search, TypeInv, MonitorTypeOK, RunRecords
<1>2. ASSUME NEW g \in Matching, Due(w, g)'
      PROVE  Reached(w, g)'
  <2>1. PICK i \in DOMAIN listing' : listing'[i] = g
    BY <1>2 DEF Due, ToSet
  <2>2. i \in 1 .. Len(listing') /\ i >= 1
    BY <1>1, <2>1 DEF published, TypeInv, MonitorTypeOK
  <2> QED
    BY <1>1, <2>1, <2>2 DEF Reached, Ahead
<1> QED
  BY <1>1, <1>2, SkipQuiet DEF Covered, SkipInv

\* A page adds its gist to the queue; the last one has nothing behind it that
\* is due, because the listing is ordered.
LEMMA SkipListPage ==
  ASSUME TypeInv, SkipInv, NEW w \in Runs, ListPage(w)
  PROVE  SkipInv'
<1> USE DEF TypeInv, MonitorTypeOK
<1>1. /\ run[w].step = "list" /\ run[w].queue \in Seq(Gists) /\ run[w].page \in Nat
      /\ listing \in Seq(Gists) /\ Len(listing) \in Nat /\ MaxPages \in Nat
      /\ UNCHANGED <<remote, published, clock, version, listing, updated, slipped>>
  BY MonitorAssumption DEF ListPage, RunRecords, published
<1>2. PICK queue : /\ UpdateListing(w, queue)
                   /\ \/ OnPage(w) = {} /\ queue = run[w].queue
                      \/ \E g \in OnPage(w) : queue = Append(run[w].queue, g)
  BY DEF ListPage
<1>3. OnPage(w) \subseteq ToSet(listing)
  BY <1>1 DEF OnPage, Delta, ToSet
<1>4. /\ queue \in Seq(Gists) /\ ToSet(run[w].queue) \subseteq ToSet(queue)
      /\ ToSet(queue) \subseteq ToSet(run[w].queue) \union OnPage(w)
      /\ OnPage(w) \subseteq ToSet(queue)
  <2>1. CASE OnPage(w) = {} /\ queue = run[w].queue
    BY <1>1, <2>1
  <2>2. ASSUME NEW g \in OnPage(w), queue = Append(run[w].queue, g)
        PROVE  /\ queue \in Seq(Gists) /\ ToSet(queue) = ToSet(run[w].queue) \union {g}
               /\ OnPage(w) = {g}
    <3>1. g \in Gists
      BY <1>1, <1>3 DEF ToSet
    <3>2. /\ queue \in Seq(Gists) /\ DOMAIN queue = 1 .. Len(run[w].queue) + 1
          /\ \A i \in 1 .. Len(run[w].queue) : queue[i] = run[w].queue[i]
          /\ queue[Len(run[w].queue) + 1] = g
          /\ DOMAIN run[w].queue = 1 .. Len(run[w].queue) /\ Len(run[w].queue) \in Nat
      BY <1>1, <2>2, <3>1
    <3>3. ToSet(queue) = ToSet(run[w].queue) \union {g}
      <4> DEFINE n == Len(run[w].queue)
      <4>1. \A i \in 1 .. n + 1 : i \in 1 .. n \/ i = n + 1
        BY <3>2
      <4>2. n + 1 \in 1 .. n + 1 /\ 1 .. n \subseteq 1 .. n + 1
        BY <3>2
      <4>3. \A x \in ToSet(queue) : x \in ToSet(run[w].queue) \union {g}
        BY <3>2, <4>1 DEF ToSet
      <4>4. \A x \in ToSet(run[w].queue) : x \in ToSet(queue)
        BY <3>2, <4>2 DEF ToSet
      <4>5. g \in ToSet(queue)
        BY <3>2, <4>2 DEF ToSet
      <4> QED
        BY <4>3, <4>4, <4>5
    <3>4. OnPage(w) = {g}
      BY <2>2 DEF OnPage
    <3> QED
      BY <3>2, <3>3, <3>4
  <2> QED
    BY <1>2, <2>1, <2>2
<1>5. /\ \A v \in Runs \ {w} : run'[v] = run[v]
      /\ run'[w].queue = queue /\ run'[w].observed = run[w].observed
      /\ run'[w].base = run[w].base /\ run'[w].now = run[w].now
      /\ run'[w].page = IF HasNext(w) THEN run[w].page + 1 ELSE 0
      /\ run'[w].step = IF HasNext(w) THEN "list" ELSE "detail"
  BY <1>2 DEF UpdateListing, RunRecords
<1>6. \A h \in ToSet(queue) : version[h] >= 1
  BY <1>3, <1>4 DEF SkipInv, Exists
<1>7. Since(w)' = Since(w)
  BY <1>5 DEF Since
<1>8. ASSUME NEW g \in Matching, Due(w, g), Reached(w, g)
      PROVE  Reached(w, g)'
  <2>1. CASE g \in ToSet(run[w].queue)
    BY <1>4, <1>5, <2>1 DEF Reached
  <2>2. CASE Current(g) \in run[w].observed
    BY <1>1, <1>5, <2>2 DEF Reached, Current
  <2>3. CASE Ahead(w, g)
    <3>1. PICK i \in 1 .. Len(listing) : i >= run[w].page /\ listing[i] = g
      BY <2>3 DEF Ahead
    <3>2. CASE i = run[w].page
      <4>1. run[w].page \in Delta(w)
        BY <1>1, <1>8, <3>1, <3>2 DEF Due, Delta
      <4>2. g \in OnPage(w) \/ g \in ToSet(run[w].queue)
        BY <3>1, <3>2, <4>1 DEF OnPage
      <4> QED
        BY <1>4, <1>5, <4>2 DEF Reached
    <3>3. CASE i > run[w].page
      <4>1. run[w].page + 1 \in 1 .. Len(listing) /\ run[w].page + 1 <= i
        BY <1>1, <3>1, <3>3
      <4>2. updated[listing[run[w].page + 1]] >= updated[g]
        BY <3>1, <4>1 DEF SkipInv, Ordered
      <4>3. updated[g] \in Int /\ updated[listing[run[w].page + 1]] \in Int /\ Since(w) \in Int
        <5>1. g \in Gists /\ listing[run[w].page + 1] \in Gists
          BY <1>1, <4>1, MonitorAssumption
        <5>2. run[w].now \in Int /\ run[w].base.cursor \in Nat \union {NoCursor}
          BY MonitorAssumption DEF RunRecords, States
        <5> QED
          BY <5>1, <5>2, MonitorAssumption DEF Since
      <4>4. HasNext(w)
        BY <1>1, <1>8, <4>1, <4>2, <4>3 DEF HasNext, Delta, Due
      <4> QED
        BY <1>1, <1>5, <3>1, <4>1, <4>4 DEF Reached, Ahead
    <3> QED
      BY <1>1, <3>1, <3>2, <3>3
  <2> QED
    BY <1>8, <2>1, <2>2, <2>3 DEF Reached
<1>9. Covered(w) => Covered(w)'
  <2>1. Doomed(w) => Doomed(w)'
    BY <1>1, <1>4, <1>5 DEF Doomed
  <2>2. \A g \in Matching : Due(w, g)' => Due(w, g)
    BY <1>1, <1>5, <1>7 DEF Due
  <2> QED
    BY <1>8, <2>1, <2>2 DEF Covered
<1>10. ~slipped => Covered(w)'
  BY <1>1, <1>9 DEF SkipInv
<1> HIDE DEF TypeInv
<1> QED
  BY <1>1, <1>5, <1>6, <1>10, SkipQuiet

\* A gist that is read is observed; a doomed queue is not read to its end.
LEMMA SkipFetchGist ==
  ASSUME TypeInv, SkipInv, NEW w \in Runs, FetchGist(w)
  PROVE  SkipInv'
<1> USE DEF TypeInv, MonitorTypeOK
<1> DEFINE q == run[w].queue
           d == Head(q)
<1>1. /\ run[w].step = "detail" /\ q \in Seq(Gists) /\ q # <<>> /\ d \in ToSet(listing)
      /\ UNCHANGED <<remote, published, clock, version, listing, updated, slipped>>
  BY DEF FetchGist, RunRecords, published
<1>2. ToSet(q) = ToSet(Tail(q)) \union {d}
  <2>1. /\ Tail(q) \in Seq(Gists) /\ DOMAIN q = 1 .. Len(q) /\ Len(q) \in Nat /\ Len(q) >= 1
        /\ d = q[1] /\ DOMAIN Tail(q) = 1 .. Len(q) - 1
        /\ \A i \in 1 .. Len(q) - 1 : Tail(q)[i] = q[i + 1]
    BY <1>1
  <2> HIDE DEF q, d
  <2>2. \A i \in 1 .. Len(q) : i = 1 \/ (i - 1 \in 1 .. Len(q) - 1 /\ q[i] = Tail(q)[i - 1])
    BY <2>1
  <2>3. \A i \in 1 .. Len(q) - 1 : i + 1 \in 1 .. Len(q)
    BY <2>1
  <2>4. ASSUME NEW x \in ToSet(q) PROVE x \in ToSet(Tail(q)) \union {d}
    <3>1. PICK i \in 1 .. Len(q) : q[i] = x
      BY <2>1 DEF ToSet
    <3> QED
      BY <2>1, <2>2, <3>1 DEF ToSet
  <2>5. ASSUME NEW x \in ToSet(Tail(q)) PROVE x \in ToSet(q)
    <3>1. PICK i \in 1 .. Len(q) - 1 : Tail(q)[i] = x
      BY <2>1 DEF ToSet
    <3> QED
      BY <2>1, <2>3, <3>1 DEF ToSet
  <2>6. d \in ToSet(q)
    <3>1. 1 \in DOMAIN q
      BY <2>1
    <3> QED
      BY <2>1, <3>1 DEF ToSet
  <2> QED
    BY <2>4, <2>5, <2>6
<1>3. /\ \A v \in Runs \ {w} : run'[v] = run[v]
      /\ run'[w].queue = Tail(q) /\ run'[w].base = run[w].base /\ run'[w].now = run[w].now
      /\ run'[w].step = "detail"
      /\ run'[w].observed = IF d \in Matching THEN run[w].observed \union {Current(d)}
                            ELSE run[w].observed
  BY <1>1 DEF FetchGist, RunRecords
<1> HIDE DEF d, q
<1>4. \A g \in Matching : Due(w, g)' => Due(w, g)
  BY <1>1, <1>3 DEF Due, Since
<1>5. \A g \in Matching : Reached(w, g) => Reached(w, g)'
  BY <1>1, <1>2, <1>3 DEF Reached, Ahead, Current, q
<1>6. Doomed(w) => Doomed(w)'
  BY <1>1, <1>2, <1>3 DEF Doomed, q
<1>7. ~slipped => Covered(w)'
  BY <1>1, <1>4, <1>5, <1>6 DEF Covered, SkipInv
<1>8. \A h \in ToSet(run'[w].queue) : version[h] >= 1
  BY <1>2, <1>3 DEF SkipInv, q
<1> HIDE DEF TypeInv
<1> QED
  BY <1>1, <1>3, <1>7, <1>8, SkipQuiet

\* What the run did not have to find was recorded before.
LEMMA SkipPutState ==
  ASSUME MonitorInv, SkipInv, NEW w \in Runs, PutState(w)
  PROVE  SkipInv'
<1> USE DEF TypeInv, MonitorTypeOK
<1>1. /\ run[w].step = "detail" /\ run[w].queue = <<>> /\ remote = run[w].base
      /\ UNCHANGED <<published, clock, version, listing, updated, slipped>>
      /\ remote' = Reconcile(remote, run[w].observed, run[w].now)
      /\ \A v \in Runs \ {w} : run'[v] = run[v]
      /\ run'[w].step = "written" /\ run'[w].queue = <<>>
  BY DEF MonitorInv, PutState, ReadyToPut, BlobUnchanged, NextState, NewCursor, published,
         RunRecords
<1>2. Known(remote') = Known(remote) \union run[w].observed /\ remote'.cursor = run[w].now
  <2>1. /\ remote \in States /\ run[w].observed \in SUBSET Fingerprints
        /\ run[w].now \in 0 .. MaxTime
    BY DEF MonitorInv, RunRecords
  <2>2. Known(remote') = Known(remote) \union run[w].observed
    BY <1>1, <2>1, ReconcileKnown
  <2> QED
    BY <1>1, <2>2 DEF Reconcile
<1>3. ToSet(<<>>) = {}
  BY DEF ToSet
<1>4. ASSUME ~slipped, NEW g \in Matching, g \in ToSet(listing),
             updated[g] < run[w].now, updated[g] >= MaxTime - Lookback
      PROVE  Current(g) \in Known(remote')
  <2>1. CASE updated[g] >= Since(w)
    <3>1. ~Doomed(w) /\ ~Ahead(w, g) /\ g \notin ToSet(run[w].queue)
      BY <1>1, <1>3 DEF Doomed, Ahead
    <3>2. Current(g) \in run[w].observed
      BY <1>1, <1>4, <2>1, <3>1 DEF SkipInv, Covered, Due, Reached
    <3> QED
      BY <1>2, <3>2
  <2>2. CASE ~(updated[g] >= Since(w))
    <3>1. g \in Gists /\ updated[g] \in Int /\ run[w].now \in 0 .. MaxTime
      BY MonitorAssumption DEF MonitorInv, RunRecords
    <3>2. remote.cursor # NoCursor
      <4>1. SUFFICES ASSUME remote.cursor = NoCursor PROVE FALSE
        OBVIOUS
      <4>2. Since(w) = run[w].now - Lookback
        BY <1>1, <4>1 DEF Since
      <4> QED
        BY <1>4, <2>2, <3>1, <4>2, MonitorAssumption
    <3>3. remote.cursor \in Nat /\ Since(w) = remote.cursor
      BY <1>1, <3>2 DEF MonitorInv, States, Since
    <3>4. updated[g] < remote.cursor
      BY <2>2, <3>1, <3>3
    <3>5. Current(g) \in Known(remote)
      BY <1>4, <3>2, <3>4 DEF SkipInv, NothingSkipped, FollowedFromCursor
    <3> QED
      BY <1>2, <3>5
  <2> QED
    BY <2>1, <2>2
<1>5. NothingSkipped'
  BY <1>1, <1>2, <1>4 DEF NothingSkipped, FollowedFromCursor, Current
<1>6. Ordered(listing)'
  BY <1>1 DEF SkipInv, Ordered
<1>7. \A v \in Runs : \A h \in ToSet(run'[v].queue) : version'[h] >= 1
  BY <1>1, <1>3 DEF SkipInv
<1>8. ASSUME ~slipped, NEW v \in Runs, run'[v].step \in {"list", "detail"}
      PROVE  Covered(v)'
  BY <1>1, <1>8, CoveredSame DEF SkipInv
<1> QED
  BY <1>1, <1>5, <1>6, <1>7, <1>8 DEF SkipInv

\* A gist that comes to the front moves the others back or leaves them.
LEMMA SkipPublishGist ==
  ASSUME MonitorInv, SkipInv, NEW h \in Gists, PublishGist(h)
  PROVE  SkipInv'
<1> USE DEF TypeInv, MonitorTypeOK
<1> DEFINE W == Without(h)
<1>1. /\ listing \in Seq(Gists) /\ Len(listing) \in Nat /\ clock \in Int
      /\ W \in Seq(Gists) /\ Ordered(W) /\ \A k \in 1 .. Len(W) : W[k] # h
      /\ \A j \in 1 .. Len(listing) : listing[j] # h =>
           \/ j \in 1 .. Len(W) /\ W[j] = listing[j]
           \/ j - 1 \in 1 .. Len(W) /\ W[j - 1] = listing[j]
      /\ ToSet(W) \subseteq ToSet(listing)
  <2>1. TypeInv /\ Ordered(listing)
    BY DEF MonitorInv, SkipInv
  <2>2. /\ listing \in Seq(Gists) /\ Len(listing) \in Nat
        /\ clock \in Int
    BY <2>1, MonitorAssumption
  <2> HIDE DEF TypeInv, MonitorTypeOK
  <2>3. ToSet(W) \subseteq ToSet(listing)
    BY <2>1, WithoutType
  <2>4. /\ W \in Seq(Gists) /\ Ordered(W) /\ \A k \in 1 .. Len(W) : W[k] # h
        /\ \A j \in 1 .. Len(listing) : listing[j] # h =>
             \/ j \in 1 .. Len(W) /\ W[j] = listing[j]
             \/ j - 1 \in 1 .. Len(W) /\ W[j - 1] = listing[j]
    <3>1. /\ W \in Seq(Gists) /\ Ordered(W) /\ \A k \in 1 .. Len(W) : W[k] # h
          /\ \A j \in 1 .. Len(listing) : listing[j] # h =>
               \/ j \in 1 .. Len(W) /\ W[j] = listing[j]
               \/ /\ j - 1 \in 1 .. Len(W) /\ W[j - 1] = listing[j]
                  /\ \E i \in 1 .. j - 1 : listing[i] = h
      BY <2>1, WithoutOrdered, Zenon
    <3> QED
      BY <3>1
  <2> QED
    BY <2>2, <2>3, <2>4
<1>2. /\ UNCHANGED <<remote, run, clock, slipped>>
      /\ listing' = <<h>> \o W
      /\ h \in Objects /\ updated'[h] = clock
      /\ \A g \in Gists \ {h} : updated'[g] = updated[g] /\ version'[g] = version[g]
      /\ \A g \in Gists : version'[g] >= version[g]
      /\ \A g \in Gists : updated[g] \in Int
      /\ version[h] = 0 \/ h \in ToSet(listing)
  <2>1. Gists \subseteq Objects /\ h \in Objects
    BY DEF Objects
  <2>2. \A g \in Gists : version[g] \in Int /\ updated[g] \in Int
    BY <2>1, StateAssumption, MonitorAssumption DEF MonitorInv
  <2> QED
    BY <2>1, <2>2 DEF PublishGist, MonitorInv
<1> HIDE DEF W
<1>3. /\ Len(listing') = 1 + Len(W) /\ listing' \in Seq(Gists) /\ Len(W) \in Nat
      /\ listing'[1] = h
      /\ \A k \in 1 .. Len(W) : listing'[k + 1] = W[k]
      /\ \A k \in 1 .. Len(W) : W[k] \in Gists
  <2>1. <<h>> \in Seq(Gists) /\ Len(<<h>>) = 1 /\ <<h>>[1] = h
    OBVIOUS
  <2>2. /\ <<h>> \o W \in Seq(Gists) /\ Len(<<h>> \o W) = 1 + Len(W)
        /\ \A i \in 1 .. 1 + Len(W) : (<<h>> \o W)[i] = IF i <= 1 THEN <<h>>[i] ELSE W[i - 1]
    BY <1>1, <2>1, ConcatProperties
  <2>3. Len(W) \in Nat /\ \A k \in 1 .. Len(W) : W[k] \in Gists /\ (k + 1) - 1 = k
    BY <1>1
  <2> QED
    BY <1>2, <2>1, <2>2, <2>3
<1>4. \A k \in 1 .. Len(listing') : k = 1 \/ k - 1 \in 1 .. Len(W)
  BY <1>3
<1>5. \A k \in 1 .. Len(listing') : k # 1 => listing'[k] = W[k - 1]
  <2> SUFFICES ASSUME NEW k \in 1 .. Len(listing'), k # 1 PROVE listing'[k] = W[k - 1]
    OBVIOUS
  <2>1. k - 1 \in 1 .. Len(W) /\ (k - 1) + 1 = k
    BY <1>3, <1>4
  <2> QED
    BY <1>3, <2>1
<1>6. \A k \in 1 .. Len(W) : updated'[W[k]] = updated[W[k]]
  BY <1>1, <1>2, <1>3
<1>7. Ordered(listing)'
  <2>1. ASSUME NEW i \in 1 .. Len(listing'), NEW j \in 1 .. Len(listing'), i < j
        PROVE  /\ listing'[i] # listing'[j]
               /\ updated'[listing'[i]] >= updated'[listing'[j]]
    <3>1. j # 1 /\ j - 1 \in 1 .. Len(W) /\ listing'[j] = W[j - 1]
          /\ updated'[listing'[j]] = updated[W[j - 1]]
      BY <1>3, <1>4, <1>5, <1>6, <2>1
    <3>2. CASE i = 1
      BY <1>1, <1>2, <1>3, <3>1, <3>2 DEF Ordered
    <3>3. CASE i # 1
      <4>1. i - 1 \in 1 .. Len(W) /\ listing'[i] = W[i - 1]
            /\ updated'[listing'[i]] = updated[W[i - 1]]
        BY <1>4, <1>5, <1>6, <3>3
      <4>2. i - 1 # j - 1 /\ i - 1 <= j - 1
        BY <1>3, <2>1
      <4> QED
        BY <1>1, <3>1, <4>1, <4>2 DEF Ordered
    <3> QED
      BY <3>2, <3>3
  <2>2. ASSUME NEW i \in 1 .. Len(listing')
        PROVE  updated'[listing'[i]] <= clock' /\ updated'[listing'[i]] \in Int
    BY <1>1, <1>2, <1>3, <1>4, <1>5, <1>6 DEF Ordered
  <2>3. \A i, j \in 1 .. Len(listing') : i < j \/ j < i \/ i = j
    BY <1>3
  <2>4. \A i, j \in 1 .. Len(listing') : i # j => listing'[i] # listing'[j]
    BY <2>1, <2>3
  <2>5. \A i, j \in 1 .. Len(listing') :
          i <= j => updated'[listing'[i]] >= updated'[listing'[j]]
    <3> SUFFICES ASSUME NEW i \in 1 .. Len(listing'), NEW j \in 1 .. Len(listing'), i <= j
                 PROVE  updated'[listing'[i]] >= updated'[listing'[j]]
      OBVIOUS
    <3>1. CASE i < j
      BY <2>1, <3>1
    <3>2. CASE i = j
      BY <2>2, <3>2
    <3> QED
      BY <1>3, <3>1, <3>2
  <2> QED
    BY <2>2, <2>4, <2>5 DEF Ordered
<1>8. ToSet(listing') \subseteq ToSet(listing) \union {h} /\ h \in ToSet(listing')
  <2>1. ToSet(listing') \subseteq ToSet(W) \union {h}
    BY <1>1, <1>2, ConsProperties
  <2>2. 1 \in DOMAIN listing'
    BY <1>3
  <2>3. h \in ToSet(listing')
    BY <1>3, <2>2 DEF ToSet
  <2> QED
    BY <1>1, <2>1, <2>3
<1>9. \A x \in Gists \ {h} : x \in ToSet(listing) =>
        \A j \in 1 .. Len(listing) : listing[j] = x =>
          \E k \in 1 .. Len(listing') : k >= j /\ listing'[k] = x
  <2> SUFFICES ASSUME NEW j \in 1 .. Len(listing), listing[j] # h
               PROVE  \E k \in 1 .. Len(listing') : k >= j /\ listing'[k] = listing[j]
    OBVIOUS
  <2>1. CASE j \in 1 .. Len(W) /\ W[j] = listing[j]
    BY <1>3, <2>1
  <2>2. CASE j - 1 \in 1 .. Len(W) /\ W[j - 1] = listing[j]
    <3>1. (j - 1) + 1 = j /\ j \in 1 .. Len(listing')
      BY <1>3, <2>2
    <3> QED
      BY <1>3, <2>2, <3>1
  <2> QED
    BY <1>1, <2>1, <2>2
<1>10. ASSUME NEW w \in Runs PROVE run[w].now <= clock \/ run[w].step \notin {"list", "detail"}
  BY DEF MonitorInv, Times
<1>11. ASSUME NEW w \in Runs, Covered(w), run[w].step \in {"list", "detail"}
       PROVE  Covered(w)'
  <2>1. run[w].queue \in Seq(Gists) /\ run[w].now \in Int /\ run[w].now <= clock
    BY <1>10, <1>11, MonitorAssumption DEF MonitorInv, RunRecords
  <2>2. Doomed(w) => Doomed(w)'
    <3> SUFFICES ASSUME NEW x \in ToSet(run[w].queue), x \notin ToSet(listing)
                 PROVE  x \notin ToSet(listing')
      BY <1>2 DEF Doomed
    <3>1. version[x] >= 1 /\ x \in Gists
      BY <2>1 DEF SkipInv, ToSet
    <3>2. x # h
      BY <1>2, <3>1
    <3> QED
      BY <1>8, <3>2
  <2>3. ASSUME NEW g \in Matching, Due(w, g)'
        PROVE  Due(w, g) /\ g \in Gists \ {h}
    <3>1. g # h
      BY <1>1, <1>2, <2>1, <2>3 DEF Due
    <3>2. g \in Gists
      BY MonitorAssumption
    <3> QED
      BY <1>2, <1>8, <2>3, <3>1, <3>2 DEF Due, Since
  <2>4. ASSUME NEW g \in Matching, g \in Gists \ {h}, g \in ToSet(listing), Reached(w, g)
        PROVE  Reached(w, g)'
    <3>1. CASE g \in ToSet(run[w].queue) \/ Current(g) \in run[w].observed
      BY <1>2, <2>4, <3>1 DEF Reached, Current
    <3>2. CASE Ahead(w, g)
      <4>1. PICK i \in 1 .. Len(listing) : i >= run[w].page /\ listing[i] = g
        BY <3>2 DEF Ahead
      <4>2. PICK k \in 1 .. Len(listing') : k >= i /\ listing'[k] = g
        BY <1>9, <2>4, <4>1
      <4>3. k >= run[w].page
        BY <1>1, <1>3, <4>1, <4>2, MonitorAssumption DEF MonitorInv, RunRecords
      <4> QED
        BY <1>2, <3>2, <4>2, <4>3 DEF Reached, Ahead
    <3> QED
      BY <2>4, <3>1, <3>2 DEF Reached
  <2> QED
    BY <1>11, <2>2, <2>3, <2>4 DEF Covered, Due
<1>12. \A w \in Runs : \A x \in ToSet(run'[w].queue) : version'[x] >= 1
  <2> SUFFICES ASSUME NEW w \in Runs, NEW x \in ToSet(run[w].queue) PROVE version'[x] >= 1
    BY <1>2
  <2>1. version[x] >= 1 /\ x \in Gists
    BY DEF SkipInv, MonitorInv, RunRecords, ToSet
  <2>2. version[x] \in Int /\ version'[x] \in Int
    <3>1. x \in Objects
      BY <2>1 DEF Objects
    <3>2. TypeInv'
      BY TypeStep DEF MonitorInv, Next, World
    <3> QED
      BY <3>1, <3>2, StateAssumption DEF MonitorInv
  <2> QED
    BY <1>2, <2>1, <2>2
<1>13. NothingSkipped'
  <2> SUFFICES ASSUME ~slipped, NEW g \in Matching, g \in ToSet(listing'),
                      remote.cursor # NoCursor, updated'[g] < remote.cursor,
                      updated'[g] >= MaxTime - Lookback
               PROVE  Current(g)' \in Known(remote)
    BY <1>2 DEF NothingSkipped, FollowedFromCursor
  <2>1. remote.cursor \in Nat /\ remote.cursor <= clock
    BY DEF MonitorInv, Times, Before, States
  <2>2. g # h /\ g \in Gists
    BY <1>1, <1>2, <2>1, MonitorAssumption
  <2>3. g \in ToSet(listing) /\ updated'[g] = updated[g] /\ version'[g] = version[g]
    BY <1>2, <1>8, <2>2
  <2>4. Current(g) \in Known(remote)
    BY <2>3 DEF SkipInv, NothingSkipped, FollowedFromCursor
  <2> QED
    BY <2>3, <2>4 DEF Current
<1>14. ~slipped' => \A w \in Runs : run'[w].step \in {"list", "detail"} => Covered(w)'
  BY <1>2, <1>11 DEF SkipInv
<1> QED
  BY <1>7, <1>12, <1>13, <1>14 DEF SkipInv

\* A deletion moves what follows it to the front: onto a page that was turned
\* only if the deleted gist was listed, and the queue is doomed, or slipped.
LEMMA SkipDeleteGist ==
  ASSUME MonitorInv, SkipInv, NEW h \in Gists, DeleteGist(h)
  PROVE  SkipInv'
<1> USE DEF TypeInv, MonitorTypeOK
<1>1. /\ listing \in Seq(Gists) /\ Len(listing) \in Nat
      /\ listing' \in Seq(Gists) /\ Ordered(listing')
      /\ \A k \in 1 .. Len(listing') : listing'[k] # h
      /\ \A j \in 1 .. Len(listing) : listing[j] # h =>
           \/ j \in 1 .. Len(listing') /\ listing'[j] = listing[j]
           \/ /\ j - 1 \in 1 .. Len(listing') /\ listing'[j - 1] = listing[j]
              /\ \E i \in 1 .. j - 1 : listing[i] = h
      /\ ToSet(listing') \subseteq ToSet(listing)
  <2>1. listing' = Without(h) /\ TypeInv /\ Ordered(listing)
    BY DEF MonitorInv, SkipInv, DeleteGist
  <2>2. listing \in Seq(Gists) /\ Len(listing) \in Nat
    BY DEF MonitorInv
  <2> HIDE DEF TypeInv
  <2> QED
    BY <2>1, <2>2, WithoutOrdered, WithoutType
<1>2. /\ UNCHANGED <<remote, run, clock, version, updated>>
      /\ slipped' = (slipped \/ \E w \in Runs : BehindUnlisted(w, h))
  BY DEF DeleteGist
<1>3. h \notin ToSet(listing')
  BY <1>1 DEF ToSet
<1>4. ASSUME NEW w \in Runs, Covered(w), ~BehindUnlisted(w, h)
      PROVE  Covered(w)'
  <2>1. CASE Doomed(w)
    BY <1>1, <1>2, <2>1 DEF Covered, Doomed
  <2>2. CASE h \in ToSet(run[w].queue)
    BY <1>2, <1>3, <2>2 DEF Covered, Doomed
  <2>3. ASSUME h \notin ToSet(run[w].queue), NEW g \in Matching, Due(w, g), g # h,
               Ahead(w, g)
        PROVE  Ahead(w, g)'
    <3>1. PICK j \in 1 .. Len(listing) : j >= run[w].page /\ listing[j] = g
      BY <2>3 DEF Ahead
    <3>2. run[w].page \in Int
      BY MonitorAssumption DEF MonitorInv, RunRecords
    <3>3. CASE j \in 1 .. Len(listing') /\ listing'[j] = g
      BY <1>2, <2>3, <3>1, <3>3 DEF Ahead
    <3>4. ASSUME j - 1 \in 1 .. Len(listing'), listing'[j - 1] = g,
                 NEW i \in 1 .. j - 1, listing[i] = h
          PROVE  Ahead(w, g)'
      <4>1. i \in DOMAIN listing /\ i < j
        BY <1>1, <3>1, <3>4
      <4>2. ~(i < run[w].page)
        BY <1>4, <2>3, <3>4, <4>1 DEF BehindUnlisted, Ahead
      <4>3. j - 1 >= run[w].page
        BY <1>1, <3>1, <3>2, <4>1, <4>2
      <4> QED
        BY <1>2, <2>3, <3>4, <4>3 DEF Ahead
    <3> QED
      BY <1>1, <2>3, <3>1, <3>3, <3>4
  <2>4. \A g \in Matching : Due(w, g)' => Due(w, g) /\ g # h
    BY <1>1, <1>2, <1>3 DEF Due, Since
  <2> QED
    BY <1>2, <1>4, <2>1, <2>2, <2>3, <2>4 DEF Covered, Reached, Current
<1>5. ~slipped' => \A w \in Runs : run'[w].step \in {"list", "detail"} => Covered(w)'
  BY <1>2, <1>4 DEF SkipInv
<1>6. NothingSkipped'
  BY <1>1, <1>2 DEF SkipInv, NothingSkipped, FollowedFromCursor, Current
<1>7. Ordered(listing)'
  BY <1>1, <1>2 DEF Ordered
<1> QED
  BY <1>2, <1>5, <1>6, <1>7 DEF SkipInv

\* Nobody else touches the listing or the queues.
LEMMA SkipElsewhere ==
  ASSUME MonitorInv, SkipInv, UNCHANGED <<run, listing, updated, slipped>>,
         \A g \in Gists : version'[g] = version[g],
         remote'.cursor = remote.cursor, Known(remote') = Known(remote),
         clock' \in Int, clock' >= clock
  PROVE  SkipInv'
<1> USE DEF TypeInv, MonitorTypeOK
<1>1. Matching \subseteq Gists /\ listing \in Seq(Gists) /\ Len(listing) \in Nat
      /\ clock \in Int
  BY MonitorAssumption DEF MonitorInv
<1>2. Ordered(listing)'
  <2>1. \A i \in 1 .. Len(listing) : updated[listing[i]] \in Int /\ updated[listing[i]] <= clock
    BY <1>1, MonitorAssumption DEF MonitorInv, SkipInv, Ordered
  <2> QED
    BY <1>1, <2>1 DEF SkipInv, Ordered
<1>3. \A w \in Runs : \A h \in ToSet(run[w].queue) : version'[h] >= 1
  <2>1. \A w \in Runs : ToSet(run[w].queue) \subseteq Gists
    BY DEF MonitorInv, RunRecords, ToSet
  <2> QED
    BY <2>1 DEF SkipInv
<1>4. \A g \in Matching : Current(g)' = Current(g)
  BY <1>1 DEF Current
<1>5. \A w \in Runs : Covered(w) => Covered(w)'
  BY <1>4 DEF Covered, Doomed, Due, Since, Reached, Ahead
<1>6. NothingSkipped'
  BY <1>4 DEF SkipInv, NothingSkipped, FollowedFromCursor
<1> QED
  BY <1>2, <1>3, <1>5, <1>6 DEF SkipInv

\* SkipInv is kept by every step, given MonitorInv.
LEMMA SkipStep ==
  ASSUME MonitorInv, SkipInv, [Next]_vars
  PROVE  SkipInv'
<1> USE DEF MonitorInv
<1>1. clock \in Int
  BY MonitorAssumption DEF TypeInv, MonitorTypeOK
<1>2. ASSUME NEW w \in Runs,
             \/ PaginationLimit(w) \/ GistGone(w) \/ PutConflict(w) \/ Fail(w)
             \/ ResponseLost(w) \/ Exit(w)
      PROVE  SkipInv'
  <2>1. /\ UNCHANGED <<remote, published, clock>> /\ run' = [run EXCEPT ![w] = Idle]
    BY <1>2 DEF PaginationLimit, GistGone, PutConflict, Fail, ResponseLost, Exit
  <2>2. /\ \A v \in Runs \ {w} : run'[v] = run[v]
        /\ run'[w].step = "idle" /\ run'[w].queue = <<>>
    BY <2>1 DEF TypeInv, MonitorTypeOK, Idle
  <2>3. ToSet(<<>>) = {}
    BY DEF ToSet
  <2> QED
    BY <2>1, <2>2, <2>3, SkipQuiet
<1>3. ASSUME NEW w \in Runs, ReadState(w)
      PROVE  SkipInv'
  <2>1. /\ UNCHANGED <<remote, published, clock>>
        /\ \A v \in Runs \ {w} : run'[v] = run[v]
        /\ run'[w].step = "collect" /\ run'[w].queue = run[w].queue
    BY <1>3 DEF ReadState, TypeInv, MonitorTypeOK, RunRecords
  <2> QED
    BY <2>1, SkipQuiet DEF SkipInv
<1>4. ASSUME NEW o \in Searched, PublishSearched(o) \/ Unpublish(o)
      PROVE  SkipInv'
  <2>1. o \notin Gists
    BY StateAssumption
  <2>2. /\ UNCHANGED <<run, listing, updated, slipped, remote, clock>>
        /\ \A g \in Gists : version'[g] = version[g]
    BY <1>4, <2>1 DEF PublishSearched, Unpublish, TypeInv, MonitorTypeOK, Objects
  <2> QED
    BY <1>1, <2>2, SkipElsewhere
<1>5. ASSUME NEW f \in Fingerprints, Review(f)
      PROVE  SkipInv'
  <2>1. Known(remote') = Known(remote)
    BY <1>5, WorldElsewhere DEF World
  <2>2. remote'.cursor = remote.cursor
    BY <1>5 DEF Review, ReviewedTo, States, TypeInv, MonitorTypeOK
  <2>3. UNCHANGED <<run, listing, updated, slipped, version, clock>>
    BY <1>5 DEF Review, published
  <2> QED
    BY <1>1, <2>1, <2>2, <2>3, SkipElsewhere
<1>6. ASSUME Tick
      PROVE  SkipInv'
  <2>1. /\ UNCHANGED <<run, listing, updated, slipped, version, remote>> /\ clock' = clock + 1
    BY <1>6 DEF Tick, published
  <2> QED
    BY <1>1, <2>1, SkipElsewhere
<1>7. CASE UNCHANGED vars
  <2>1. UNCHANGED <<run, listing, updated, slipped, version, remote, clock>>
    BY <1>7 DEF vars, published
  <2> QED
    BY <1>1, <2>1, SkipElsewhere
<1> QED
  BY <1>2, <1>3, <1>4, <1>5, <1>6, <1>7, SkipSearch, SkipListPage, SkipFetchGist,
     SkipPutState, SkipPublishGist, SkipDeleteGist
  DEF Next, RunStep, World

\* MonitorNothingSkipped: for any gists, revisions, pages and overlapping
\* runs, what the cursor has passed is recorded at its current revision, as
\* long as no gist was deleted that collect_gist_delta had not listed and
\* that lay behind its page: what moves to the front is left to the next run,
\* and the deletion of a listed gist fails the run.
THEOREM MonitorNothingSkipped == Spec => []NothingSkipped
<1>1. Init => SkipInv
  <2> SUFFICES ASSUME Init PROVE SkipInv
    OBVIOUS
  <2>1. listing = <<>> /\ Len(<<>>) = 0 /\ ToSet(<<>>) = {}
    BY DEF Init, ToSet
  <2>2. \A w \in Runs : run[w].queue = <<>> /\ run[w].step = "idle"
    BY DEF Init, Idle
  <2>3. Ordered(listing)
    BY <2>1 DEF Ordered
  <2>4. NothingSkipped
    BY <2>1 DEF NothingSkipped, FollowedFromCursor
  <2> QED
    BY <2>1, <2>2, <2>3, <2>4 DEF SkipInv
<1>2. MonitorInv /\ SkipInv /\ [Next]_vars => SkipInv'
  BY SkipStep
<1>3. SkipInv => NothingSkipped
  BY DEF SkipInv
<1> QED
  BY <1>1, <1>2, <1>3, MonitorInvariant, PTL DEF Spec
=============================================================================
