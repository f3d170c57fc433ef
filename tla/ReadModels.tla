----------------------------- MODULE ReadModels ------------------------------
(***************************************************************************)
(* The read side: lists in pages of an offset (app/services/workspace_     *)
(* query.py, intelligence_read.py), the list of anomalies in pages of a    *)
(* cursor (anomaly_service.py, app/anomaly/pagination.py), and the         *)
(* activity on the dashboard (dashboard_service.py).                       *)
(*                                                                         *)
(* Every page is a request of its own, every query of a request sees what  *)
(* is committed when it runs (READ COMMITTED), and the tables change in    *)
(* between: a list is a count and then a page, the activity one query per  *)
(* kind of row.  Rows carry the time their transaction began: rows of one  *)
(* transaction share it, and a long one commits rows older than some       *)
(* already there.  Only the cursor breaks such ties, by id.  One table     *)
(* stands for all.                                                         *)
(***************************************************************************)
EXTENDS Integers, SequencesExt, FiniteSetsExt

CONSTANTS
    Ids,            \* ids of rows: integers, in no relation to time
    Stamps,         \* created_at, detected_at: integers
    RowStatuses,    \* what a list may be filtered by
    Feeds,          \* the kinds of rows on the dashboard, as they are read
    FeedOf,         \* id -> its kind
    PageSize,       \* limit
    PerFeed,        \* _ACTIVITY_PER_SOURCE
    ActivityLimit,  \* _ACTIVITY_LIMIT
    MaxMoves        \* bound: changes of status

ASSUME ReadModelsAssumption ==
    /\ Ids \subseteq Nat /\ Stamps \subseteq Nat
    /\ Feeds \in Seq(ToSet(Feeds)) /\ FeedOf \in [Ids -> ToSet(Feeds)]
    /\ PageSize \in Nat \ {0} /\ PerFeed \in Nat /\ ActivityLimit \in Nat
    /\ MaxMoves \in Nat

VARIABLES
    listed,     \* the table: a set of rows
    walk,       \* a reader that goes from page to page
    board,      \* a reader of the dashboard
    moves       \* changes so far

readVars == <<listed, walk, board, moves>>

Rows == [id : Ids, stamp : Stamps, status : RowStatuses]

NoWalk == [mode |-> "none"]

NoBoard == [mode |-> "none"]

ReadInit == listed = {} /\ walk = NoWalk /\ board = NoBoard /\ moves = 0

Matching(filter) == {r \in listed : filter \in {"any", r.status}}

(* Queries *************************************************************)

\* ORDER BY created_at DESC: rows of one stamp come in any order.
OrderedByTime(S) ==
    {s \in SetToSeqs(S) : \A i, j \in DOMAIN s : i < j => s[i].stamp >= s[j].stamp}

\* LIMIT PageSize OFFSET offset.
Page(s, offset) == SubSeq(s, offset + 1, Min({offset + PageSize, Len(s)}))

\* The pages that a list may return at an offset.
OffsetPages(filter, offset) ==
    {Page(s, offset) : s \in OrderedByTime(Matching(filter))}

\* Mutant: the cursor is only a time.
AfterTime(r, cursor) == r.stamp < cursor.stamp

\* detected_at DESC, id DESC: what comes after the cursor.
After(r, cursor) ==
    \/ r.stamp < cursor.stamp
    \/ r.stamp = cursor.stamp /\ r.id < cursor.id

\* list_anomalies_page: the next page, and whether a row was left over.
CursorPage(filter, cursor) ==
    LET later(r, s) == r.stamp > s.stamp \/ (r.stamp = s.stamp /\ r.id >= s.id)
        rest == {r \in Matching(filter) : (cursor.stamp = -1) \/ After(r, cursor)}
        sorted == CHOOSE s \in SetToSeqs(rest) :
                    \A i, j \in DOMAIN s : i < j => later(s[i], s[j])
    IN  [page |-> Page(sorted, 0), more |-> Len(sorted) > PageSize]

\* The newest n rows of S, ties in any way.
Newest(S, n) ==
    {T \in kSubset(IF Cardinality(S) < n THEN Cardinality(S) ELSE n, S) :
        \A r \in S \ T, t \in T : r.stamp <= t.stamp}

\* What the dashboard keeps of the rows of S, whatever their status.
Faces(S) == {[id |-> r.id, stamp |-> r.stamp] : r \in S}

(* Writers *************************************************************)

InsertRow(r) ==
    /\ \A q \in listed : q.id # r.id
    /\ listed' = listed \union {r}
    /\ UNCHANGED <<walk, board, moves>>

\* A row whose status changes may leave the list it was in.
MoveRow(r, status) ==
    /\ moves < MaxMoves /\ status # r.status
    /\ moves' = moves + 1
    /\ listed' = (listed \ {r}) \union {[r EXCEPT !.status = status]}
    /\ walk' = IF walk = NoWalk THEN walk ELSE [walk EXCEPT !.moved = @ \union {r.id}]
    /\ UNCHANGED board

(* The readers: they write nothing, so one at a time shows what each sees **)

BeginWalk(mode, filter) ==
    /\ walk = NoWalk /\ board = NoBoard
    /\ walk' = [mode |-> mode, filter |-> filter, offset |-> 0,
                cursor |-> [stamp |-> -1, id |-> 0], counted |-> FALSE, total |-> 0,
                seen |-> <<>>, began |-> Matching(filter), moved |-> {}, done |-> FALSE]
    /\ UNCHANGED <<listed, board, moves>>

\* The first query of a list: how many rows there are.
CountRows ==
    /\ walk.mode = "offset" /\ ~walk.done /\ ~walk.counted
    /\ walk' = [walk EXCEPT !.counted = TRUE, !.total = Cardinality(Matching(walk.filter))]
    /\ UNCHANGED <<listed, board, moves>>

\* The second: the page.  The client stops where the count says so.
NextOffsetPage ==
    /\ walk.mode = "offset" /\ ~walk.done /\ walk.counted
    /\ \E page \in OffsetPages(walk.filter, walk.offset) :
          walk' = [walk EXCEPT !.seen = @ \o page, !.offset = @ + PageSize, !.counted = FALSE,
                      !.done = walk.offset + PageSize >= walk.total]
    /\ UNCHANGED <<listed, board, moves>>

NextCursorPage ==
    LET next == CursorPage(walk.filter, walk.cursor)
    IN  /\ walk.mode = "cursor" /\ ~walk.done
        /\ walk' = [walk EXCEPT !.seen = @ \o next.page, !.done = ~next.more,
                        !.cursor = IF next.more THEN [stamp |-> Last(next.page).stamp,
                                                      id |-> Last(next.page).id] ELSE @]
        /\ UNCHANGED <<listed, board, moves>>

BeginBoard ==
    /\ walk = NoWalk /\ board = NoBoard
    /\ board' = [mode |-> "activity", read |-> 0, items |-> {}, began |-> Faces(listed),
                 shown |-> {}]
    /\ UNCHANGED <<listed, walk, moves>>

\* _activity: the newest rows of the next kind; after the last kind the newest
\* of all are shown.
ReadFeed ==
    /\ board.mode = "activity" /\ board.read < Len(Feeds)
    /\ \E T \in Newest({q \in Faces(listed) : FeedOf[q.id] = Feeds[board.read + 1]}, PerFeed) :
       \E shown \in IF board.read + 1 = Len(Feeds)
                     THEN Newest(board.items \union T, ActivityLimit) ELSE {{}} :
          board' = [board EXCEPT !.read = @ + 1, !.items = @ \union T, !.shown = shown]
    /\ UNCHANGED <<listed, walk, moves>>

ReadNext ==
    \/ \E r \in Rows : InsertRow(r)
    \/ \E r \in listed, status \in RowStatuses : MoveRow(r, status)
    \/ \E mode \in {"offset", "cursor"}, filter \in RowStatuses \union {"any"} :
          BeginWalk(mode, filter)
    \/ CountRows \/ NextOffsetPage \/ NextCursorPage
    \/ BeginBoard \/ ReadFeed

ReadSpec == ReadInit /\ [][ReadNext]_readVars

(* Properties **********************************************************)

SeenIds == {walk.seen[i].id : i \in DOMAIN walk.seen}

\* By cursor: no row twice, and none missed that was in the list throughout.
CursorWalkIsComplete ==
    walk.mode = "cursor" /\ walk.done =>
        /\ Cardinality(SeenIds) = Len(walk.seen) \/ walk.moved # {}
        /\ {r.id : r \in walk.began} \ walk.moved \subseteq SeenIds

\* By offset: as long as no row leaves the list, none is missed whose time is
\* its own, unless newer rows, as many as the last count counted, push it past
\* the last page.  In the state in which the walk ends that takes a row that was
\* committed between the last count and its page: without one the newer rows and
\* the row itself are together no more than were counted.
OffsetWalkIsComplete ==
    walk.mode = "offset" /\ walk.done /\ walk.moved = {} =>
        \A r \in walk.began :
            (\A q \in listed : q.stamp = r.stamp => q.id = r.id) =>
                \/ r.id \in SeenIds
                \/ Cardinality({q \in Matching(walk.filter) : q.stamp > r.stamp}) >= walk.total

\* The dashboard shows what was there before its first query, if it is among the
\* newest of all kinds when it is shown.
NewestAreShown ==
    board.mode = "activity" /\ board.read = Len(Feeds) =>
        \A r \in board.began :
            Cardinality({q \in Faces(listed) : q.stamp >= r.stamp}) <= Min({PerFeed, ActivityLimit})
                => r \in board.shown

\* While rows are added, change and commit out of order between two requests and
\* between two queries of one, whoever reads page after page misses nothing but
\* what the offset is known to miss (rows of one transaction, lists that shrink,
\* and at the end as many rows as came between a count and its page), and the
\* dashboard none of the newest that were there when it was asked for.
ReadersMissNothing ==
    CursorWalkIsComplete /\ OffsetWalkIsComplete /\ NewestAreShown

=============================================================================
