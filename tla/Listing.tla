------------------------------- MODULE Listing -------------------------------
(***************************************************************************)
(* Readers that go through a table by id while it changes: a client that   *)
(* asks the API for one page after another (api.rs, handle_list_events and *)
(* handle_list_jobs; db.rs, list_events_for_api and list_jobs_filtered),   *)
(* and `qhook tail`, which polls for what is new (cli.rs; db.rs,           *)
(* list_events_after and list_jobs_after).                                 *)
(*                                                                         *)
(* Ids are ulids: they are made before their row is committed, so rows     *)
(* become visible out of the order of their ids.  A row matches a reader's *)
(* filter or not, and may come to match (a job's status), or to be purged. *)
(***************************************************************************)
EXTENDS Naturals, FiniteSets

CONSTANTS
  MaxId,        (* bound on the rows, which are named after their ulids       *)
  PageLimit,    (* limit of the API's query, positive                         *)
  TailLimit,    (* limit of the tail's query                                  *)
  MaxChanges    (* bound on the changes of rows after their commit            *)

ASSUME ListingAssumption ==
  /\ MaxId \in Nat /\ MaxChanges \in Nat
  /\ PageLimit \in Nat \ {0} /\ TailLimit \in Nat \ {0}

VARIABLES
  table,        (* each row: none, matches or differs, purged                 *)
  changes,      (* changes of rows so far                                     *)
  pager,        (* the client: whether it walks, its cursor, the rows it got  *)
                (* and those it got again                                     *)
  throughout,   (* history: the rows that have matched since the walk began   *)
  tail,         (* `qhook tail`: its cursor and the rows it has printed       *)
  late          (* history: the rows that came to match behind its cursor     *)

listingVars == <<table, changes, pager, throughout, tail, late>>

Ids == 1..MaxId
RowState == {"none", "matches", "differs", "purged"}

Matching == {i \in Ids : table[i] = "matches"}
After(cursor) == {i \in Matching : i > cursor}

(* ORDER BY id ASC LIMIT n, and DESC.                                      *)
Lowest(S, n) == {i \in S : Cardinality({k \in S : k < i}) < n}
Highest(S, n) == {i \in S : Cardinality({k \in S : k > i}) < n}

Least(S) == CHOOSE i \in S : \A k \in S : i <= k
Greatest(S) == CHOOSE i \in S : \A k \in S : k <= i

-----------------------------------------------------------------------------
(* The table: commits, updates that touch the filter, and purges.          *)

Become(i, state) ==
  /\ table' = [table EXCEPT ![i] = state]
  /\ throughout' = throughout \ (IF state = "matches" THEN {} ELSE {i})
  /\ late' = IF state = "matches" /\ i < tail.cursor THEN late \cup {i} ELSE late
  /\ UNCHANGED <<pager, tail>>

CommitRow(i) ==
  /\ table[i] = "none"
  /\ \E state \in {"matches", "differs"} : Become(i, state)
  /\ UNCHANGED changes

ChangeRow(i) ==
  /\ table[i] \notin {"none", "purged"}
  /\ changes < MaxChanges
  /\ changes' = changes + 1
  /\ \E state \in RowState \ {"none", table[i]} : Become(i, state)

-----------------------------------------------------------------------------
(* The API's pages.                                                        *)

StartWalk ==
  /\ ~pager.walking
  /\ pager' = [walking |-> TRUE, cursor |-> 0, got |-> {}, again |-> {}]
  /\ throughout' = Matching
  /\ UNCHANGED <<table, changes, tail, late>>

(* Mutant of NextCursor: the row that told of a further page is skipped.   *)
NextCursorSkips(fetched, page) == Greatest(fetched)

(* The client goes on after the last row it was given.                     *)
NextCursor(fetched, page) == Greatest(page)

(* handle_list_events: limit + 1 rows are fetched, which tells has_more,   *)
(* and limit of them are returned.                                         *)
FetchPage ==
  /\ pager.walking
  /\ LET fetched == Lowest(After(pager.cursor), PageLimit + 1)
         page == Lowest(fetched, PageLimit)
         more == Cardinality(fetched) > PageLimit
     IN  pager' = [walking |-> more, got |-> pager.got \cup page,
                   again |-> pager.again \cup (pager.got \cap page),
                   cursor |-> IF more THEN NextCursor(fetched, page) ELSE pager.cursor]
  /\ UNCHANGED <<table, changes, throughout, tail, late>>

-----------------------------------------------------------------------------
(* `qhook tail`.                                                           *)

(* Mutant of Polled: the newest rows come first at every poll.             *)
PolledNewest(cursor) == Highest(After(cursor), TailLimit)

(* list_events_after: the newest rows, until there is a cursor; then the   *)
(* oldest ones after it.                                                   *)
Polled(cursor) ==
  IF cursor = 0 THEN Highest(Matching, TailLimit) ELSE Lowest(After(cursor), TailLimit)

(* Every row is printed in the order it comes in, the newest first without *)
(* a cursor and the oldest first with one, and the cursor follows: after   *)
(* the first poll it is the oldest of the rows.                            *)
PollTail ==
  LET rows == Polled(tail.cursor)
      first == tail.cursor = 0
  IN  /\ rows # {}
      /\ tail' = [cursor |-> IF first THEN Least(rows) ELSE Greatest(rows),
                  printed |-> tail.printed \cup rows,
                  oldest |-> IF first THEN Least(rows) ELSE tail.oldest]
      /\ UNCHANGED <<table, changes, pager, throughout, late>>

-----------------------------------------------------------------------------

ListingInit ==
  /\ table = [i \in Ids |-> "none"]
  /\ changes = 0
  /\ pager = [walking |-> FALSE, cursor |-> 0, got |-> {}, again |-> {}]
  /\ throughout = {}
  /\ tail = [cursor |-> 0, printed |-> {}, oldest |-> 0]
  /\ late = {}

ListingNext ==
  \/ \E i \in Ids : CommitRow(i) \/ ChangeRow(i)
  \/ StartWalk \/ FetchPage \/ PollTail

ListingSpec == ListingInit /\ [][ListingNext]_listingVars

-----------------------------------------------------------------------------
(* Properties.                                                             *)

(* A client that follows the pages until has_more is false has been given  *)
(* every row that matched all the time, and no row twice, whatever was     *)
(* committed, changed or purged between two pages (api.rs,                 *)
(* handle_list_events and handle_list_jobs).                               *)
PagesAreComplete ==
  /\ pager.again = {}
  /\ ~pager.walking => throughout \subseteq pager.got

(* The tail's cursor passes no row that it could have printed: what it     *)
(* never prints is older than its first rows, or came to match (by a late  *)
(* commit or a late change) when the cursor was already past it (db.rs,    *)
(* list_events_after and list_jobs_after).                                 *)
TailSkipsNothing ==
  \A i \in Matching : i <= tail.cursor =>
    i \in tail.printed \cup late \/ i < tail.oldest
=============================================================================
