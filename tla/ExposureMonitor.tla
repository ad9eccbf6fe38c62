-------------------------- MODULE ExposureMonitor --------------------------
(***************************************************************************)
(* The public exposure monitor of PSB-SOURCE-003: runs of the commands     *)
(* state-read, collect and reconcile against GitHub.  A run reads the      *)
(* findings document from the state branch, collects the search results    *)
(* and the gists updated since the document's cursor, prepares its         *)
(* notification files, and replaces the document if its blob is still the  *)
(* one that was read.  Only a run that then exits 1 has its events         *)
(* delivered.  Meanwhile people publish, edit and delete, a reviewer edits *)
(* the document, runs overlap, fail and die.                               *)
(***************************************************************************)
EXTENDS ExposureState, Sequences, SequencesExt

CONSTANTS
  Runs,         \* the runs that may overlap: the reference workflow puts its
                \* own one after the other, other callers do not
  Matching,     \* the gists whose text names a configured domain
  Lookback,     \* INITIAL_GIST_LOOKBACK_HOURS
  MaxPages,     \* MAX_GIST_PAGES, of one gist each here
  MaxTime       \* bound on the clock

ASSUME MonitorAssumption ==
  /\ Matching \subseteq Gists
  /\ Lookback \in Nat /\ MaxPages \in Nat \ {0} /\ MaxTime \in Nat

VARIABLES
  remote,       \* the document on the state branch
  run,          \* where each run is and what it holds
  announced,    \* how often a NEW event of a fingerprint was delivered
  version,      \* the current version of each object, 0 before it exists
  visible,      \* the objects that the searches return
  listing,      \* the public gists, last updated first
  updated,      \* updated_at of the gists
  clock,
  unheard,      \* some run put its document and did not exit 0 or 1
  slipped       \* history: a deletion pulled the listing back under a run

published == <<version, visible, listing, updated, slipped>>
vars == <<remote, run, announced, published, clock, unheard>>

Idle ==
  [step |-> "idle", base |-> EmptyState, now |-> 0, page |-> 0,
   queue |-> <<>>, observed |-> {}]

Init ==
  /\ remote = EmptyState
  /\ run = [w \in Runs |-> Idle]
  /\ announced = [f \in Fingerprints |-> 0]
  /\ version = [o \in Objects |-> 0]
  /\ visible = {}
  /\ listing = <<>>
  /\ updated = [g \in Gists |-> 0]
  /\ clock = 0
  /\ unheard = FALSE
  /\ slipped = FALSE

Current(o) == [object |-> o, version |-> version[o]]

---------------------------------------------------------------------------
\* state-read: the snapshot of the document, with the sha of its blob.
ReadState(w) ==
  /\ run[w].step = "idle"
  /\ run' = [run EXCEPT ![w].step = "collect", ![w].base = remote]
  /\ UNCHANGED <<remote, announced, published, clock, unheard>>

\* collect: the collection time is taken first, then the searches run.  A
\* search that changes between its pages is left to the next run, which
\* repeats it in full.
Search(w) ==
  /\ run[w].step = "collect"
  /\ run' = [run EXCEPT
       ![w].step = "list",
       ![w].now = clock,
       ![w].page = 1,
       ![w].observed = {Current(o) : o \in visible}]
  /\ UNCHANGED <<remote, announced, published, clock, unheard>>

\* Wrong variant: the next run starts after the cursor.
SinceAfterCursor(w) ==
  LET cursor == run[w].base.cursor
  IN IF cursor = NoCursor THEN run[w].now - Lookback ELSE cursor + 1

Since(w) ==
  LET cursor == run[w].base.cursor
  IN IF cursor = NoCursor THEN run[w].now - Lookback ELSE cursor

\* GET /gists/public?since=...: the listing is ordered by updated_at, so that
\* what it returns is the first part of it.
Delta(w) == {i \in DOMAIN listing : updated[listing[i]] >= Since(w)}

HasNext(w) == run[w].page + 1 \in Delta(w)

\* The gist of the page, unless it was seen on an earlier one.
OnPage(w) ==
  {listing[i] : i \in {run[w].page} \intersect Delta(w)} \ ToSet(run[w].queue)

UpdateListing(w, queue) ==
  run' = [run EXCEPT
    ![w].queue = queue,
    ![w].page = IF HasNext(w) THEN @ + 1 ELSE 0,
    ![w].step = IF HasNext(w) THEN "list" ELSE "detail"]

ListPage(w) ==
  /\ run[w].step = "list"
  /\ run[w].page <= MaxPages
  /\ \/ OnPage(w) = {} /\ UpdateListing(w, run[w].queue)
     \/ \E g \in OnPage(w) : UpdateListing(w, Append(run[w].queue, g))
  /\ UNCHANGED <<remote, announced, published, clock, unheard>>

PaginationLimit(w) ==
  /\ run[w].step = "list"
  /\ run[w].page > MaxPages
  /\ run' = [run EXCEPT ![w] = Idle]
  /\ UNCHANGED <<remote, announced, published, clock, unheard>>

FetchGist(w) ==
  /\ run[w].step = "detail"
  /\ run[w].queue # <<>>
  /\ LET g == Head(run[w].queue) IN
     /\ g \in ToSet(listing)
     /\ run' = [run EXCEPT
          ![w].queue = Tail(@),
          ![w].observed = IF g \in Matching THEN @ \union {Current(g)} ELSE @]
  /\ UNCHANGED <<remote, announced, published, clock, unheard>>

\* Wrong variant: a gist that is gone is skipped.
SkipGone(w) ==
  /\ run[w].step = "detail"
  /\ run[w].queue # <<>>
  /\ Head(run[w].queue) \notin ToSet(listing)
  /\ run' = [run EXCEPT ![w].queue = Tail(@)]
  /\ UNCHANGED <<remote, announced, published, clock, unheard>>

\* A listed gist that is gone when its content is read fails the run.
GistGone(w) ==
  /\ run[w].step = "detail"
  /\ run[w].queue # <<>>
  /\ Head(run[w].queue) \notin ToSet(listing)
  /\ run' = [run EXCEPT ![w] = Idle]
  /\ UNCHANGED <<remote, announced, published, clock, unheard>>

NewCursor(w) == run[w].now

NextState(w) == Reconcile(run[w].base, run[w].observed, NewCursor(w))

\* reconcile: the files are prepared and the document is about to be put.
ReadyToPut(w) == run[w].step = "detail" /\ run[w].queue = <<>>

\* Wrong variant: the PUT does not send the sha.
AnyBlob(w) == TRUE

\* The provider compares the sha of the request with the blob it has.
BlobUnchanged(w) == remote = run[w].base

PutState(w) ==
  /\ ReadyToPut(w)
  /\ BlobUnchanged(w)
  /\ remote' = NextState(w)
  /\ run' = [run EXCEPT ![w].step = "written"]
  /\ UNCHANGED <<announced, published, clock, unheard>>

PutConflict(w) ==
  /\ ReadyToPut(w)
  /\ ~BlobUnchanged(w)
  /\ run' = [run EXCEPT ![w] = Idle]
  /\ UNCHANGED <<remote, announced, published, clock, unheard>>

\* Exit 1 with events, 0 without: the adapter may deliver new-findings.json.
Exit(w) ==
  /\ run[w].step = "written"
  /\ announced' = [f \in Fingerprints |->
       IF f \in NewEvents(run[w].base, run[w].observed)
       THEN announced[f] + 1 ELSE announced[f]]
  /\ run' = [run EXCEPT ![w] = Idle]
  /\ UNCHANGED <<remote, published, clock, unheard>>

---------------------------------------------------------------------------
\* Wrong variant: the files are prepared after the document was put.
AnyStep == {"collect", "list", "detail", "written"}

BeforePut == {"collect", "list", "detail"}

\* Exit 2 of one of the commands (provider, credential, limit, local file,
\* malformed document), or the end of the job by its timeout.
Fail(w) ==
  /\ run[w].step \in BeforePut
  /\ run' = [run EXCEPT ![w] = Idle]
  /\ UNCHANGED <<remote, announced, published, clock, unheard>>

\* The provider replaced the document, but its response does not arrive:
\* request_json raises and the command exits 2.  Or the job dies there.
ResponseLost(w) ==
  /\ run[w].step = "written"
  /\ unheard' = TRUE
  /\ run' = [run EXCEPT ![w] = Idle]
  /\ UNCHANGED <<remote, announced, published, clock>>

---------------------------------------------------------------------------
PublishSearched(o) ==
  /\ version[o] < MaxVersion
  /\ version' = [version EXCEPT ![o] = @ + 1]
  /\ visible' = visible \union {o}
  /\ UNCHANGED <<remote, run, announced, listing, updated, clock, unheard, slipped>>

Unpublish(o) ==
  /\ o \in visible
  /\ visible' = visible \ {o}
  /\ UNCHANGED <<remote, run, announced, version, listing, updated, clock, unheard, slipped>>

Without(g) ==
  IF g \in ToSet(listing)
  THEN RemoveAt(listing, CHOOSE i \in DOMAIN listing : listing[i] = g)
  ELSE listing

\* A new gist or a new revision comes first in the listing.  The id of a
\* deleted gist does not come back.
PublishGist(g) ==
  /\ version[g] = 0 \/ g \in ToSet(listing)
  /\ version[g] < MaxVersion
  /\ version' = [version EXCEPT ![g] = @ + 1]
  /\ listing' = <<g>> \o Without(g)
  /\ updated' = [updated EXCEPT ![g] = clock]
  /\ UNCHANGED <<remote, run, announced, visible, clock, unheard, slipped>>

\* The gist has its place on a page that the run has turned, but came there
\* later: the run did not list it.
BehindUnlisted(w, g) ==
  /\ run[w].step = "list"
  /\ \E i \in DOMAIN listing : i < run[w].page /\ listing[i] = g
  /\ g \notin ToSet(run[w].queue)

\* What follows a deleted gist moves one place to the front.
DeleteGist(g) ==
  /\ g \in ToSet(listing)
  /\ listing' = Without(g)
  /\ slipped' = (slipped \/ \E w \in Runs : BehindUnlisted(w, g))
  /\ UNCHANGED <<remote, run, announced, version, visible, updated, clock, unheard>>

\* The reviewer commits a disposition to the state branch.
ReviewedTo(f, disposition, expires) ==
  [remote EXCEPT !.findings[f] =
     [first_seen |-> @.first_seen, disposition |-> disposition, expires |-> expires]]

Review(f) ==
  /\ f \in Known(remote)
  /\ \/ remote' = ReviewedTo(f, "remediated", 0)
     \/ remote' = ReviewedTo(f, "reviewed", clock + 1)
  /\ UNCHANGED <<run, announced, published, clock, unheard>>

Tick ==
  /\ clock < MaxTime
  /\ clock' = clock + 1
  /\ UNCHANGED <<remote, run, announced, published, unheard>>

---------------------------------------------------------------------------
RunStep(w) ==
  \/ ReadState(w)
  \/ Search(w)
  \/ ListPage(w)
  \/ PaginationLimit(w)
  \/ FetchGist(w)
  \/ GistGone(w)
  \/ PutState(w)
  \/ PutConflict(w)
  \/ Exit(w)

World ==
  \/ \E o \in Searched : PublishSearched(o) \/ Unpublish(o)
  \/ \E g \in Gists : PublishGist(g) \/ DeleteGist(g)
  \/ \E f \in Fingerprints : Review(f)
  \/ Tick

Next ==
  \/ \E w \in Runs : RunStep(w) \/ Fail(w) \/ ResponseLost(w)
  \/ World

Spec == Init /\ [][Next]_vars

\* The schedule starts a run again and again, and a run that goes on comes
\* to its end.
FairSpec == Spec /\ \A w \in Runs : WF_vars(RunStep(w))

---------------------------------------------------------------------------
Steps == {"idle", "collect", "list", "detail", "written"}

RunRecords ==
  [step : Steps, base : States, now : 0 .. MaxTime, page : 0 .. MaxPages + 1,
   queue : Seq(Gists), observed : SUBSET Fingerprints]

\* The documents are those that validate_state accepts, in particular no open
\* finding has a review; everything observed is a version that exists.
MonitorTypeOK ==
  /\ remote \in States
  /\ run \in [Runs -> RunRecords]
  /\ announced \in [Fingerprints -> Nat]
  /\ version \in [Objects -> 0 .. MaxVersion]
  /\ visible \subseteq Searched
  /\ listing \in Seq(Gists)
  /\ updated \in [Gists -> 0 .. MaxTime]
  /\ clock \in 0 .. MaxTime
  /\ unheard \in BOOLEAN
  /\ slipped \in BOOLEAN

\* A finding is announced as new at most once, whatever runs overlap, fail
\* and start again: two runs that both find it cannot both put it.
NewOnce == \A f \in Fingerprints : announced[f] <= 1

\* What is announced was recorded first: a run that exits 1 has put its
\* findings in the document, and nobody removes them.
AnnouncedIsRecorded ==
  \A f \in Fingerprints : announced[f] > 0 => f \in Known(remote)

\* The document only moves forward: no finding disappears, also when it is
\* no longer observed, first_seen is kept, the cursor never goes back, and a
\* reviewer's disposition gives way to "open" only when it said remediated
\* or has expired.  Runs that overlap with each other and with the reviewer
\* never overwrite what they did not read.
MovesForward ==
  [][ /\ remote.cursor = NoCursor \/ remote'.cursor >= remote.cursor
      /\ Known(remote) \subseteq Known(remote')
      /\ \A f \in Known(remote) :
           LET old == remote.findings[f]
               new == remote'.findings[f]
           IN /\ new.first_seen = old.first_seen
              /\ new.disposition = "open" /\ old.disposition # "open" =>
                   \/ old.disposition = "remediated"
                   \/ old.expires <= remote'.cursor ]_remote

\* The documentation's promise that the gists are followed from the cursor
\* on: a matching gist last updated before the cursor, within the reach of
\* the first run, is recorded at its current revision.
FollowedFromCursor ==
  \A g \in Matching :
    /\ g \in ToSet(listing)
    /\ remote.cursor # NoCursor
    /\ updated[g] < remote.cursor
    /\ updated[g] >= MaxTime - Lookback
    => Current(g) \in Known(remote)

\* No gist is skipped, although gists are published, edited and deleted while
\* a run turns the pages.  What moves to the front is left to the next run,
\* and what the deletion of a listed gist pulls onto a page that was already
\* read is not missed either, because the contents are read after the last
\* page and the deleted gist then fails the run.  The exception is a gist
\* that came to the front after its page was read and is deleted before the
\* last page is: nothing tells the run that it turned one gist too few.
NothingSkipped == ~slipped => FollowedFromCursor

\* The documentation's promise for a failed state update: the unchanged state
\* makes a later run emit the finding.  What is recorded has been announced,
\* or the run that recorded it is about to announce it.
EmittedOnLaterRun ==
  \A f \in Known(remote) :
    \/ announced[f] > 0
    \/ \E w \in Runs :
         /\ run[w].step = "written"
         /\ f \in NewEvents(run[w].base, run[w].observed)

\* It holds as long as the response of every PUT arrives and every run that
\* has put its document exits.
RecordedIsAnnounced == ~unheard => EmittedOnLaterRun

Present(f) ==
  /\ f.object \in visible \union (Matching \intersect ToSet(listing))
  /\ f = Current(f.object)

DisturbancesEnd ==
  <>[][ /\ \A f \in Fingerprints : ~Review(f)
        /\ \A w \in Runs : ~Fail(w) ]_vars

\* No run has put a document yet, and the gist was last updated before the
\* reach of a run that starts now: the first run lists the gists from its own
\* start less the look-back, the later ones from the cursor of the run before.
OutOfReach(f) ==
  /\ remote.cursor = NoCursor
  /\ f.object \in Gists
  /\ f = Current(f.object)
  /\ updated[f.object] < clock - Lookback

\* Under fairness of the schedule and of the runs, what stays public is
\* announced in the end, unless it is a gist that no run put on record before
\* it was older than the look-back, the response of a PUT is lost, a deletion
\* made a run turn one gist too few, or there are more gists than a run
\* accepts.  Runs must not fail for ever, and a reviewer who edited the
\* document under every run would make every PUT conflict: both have to end.
EventuallyAnnounced ==
  DisturbancesEnd =>
    \A f \in Fingerprints :
      []~OutOfReach(f) =>
        ([]Present(f) ~>
           announced[f] > 0 \/ unheard \/ slipped \/ Len(listing) > MaxPages)
=============================================
