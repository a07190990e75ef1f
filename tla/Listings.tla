----------------------------- MODULE Listings ------------------------------
(***************************************************************************)
(* A reader pages through a list while its rows come and go.               *)
(* Sources: community/service.py, community/router.py, chat/service.py,    *)
(* notifications/service.py, notifications/router.py, admin/users.py.      *)
(*                                                                         *)
(* A page holds the first rows after a cursor, in the order of a key whose *)
(* last part is the row's id.  Some cursors carry the key, others the id   *)
(* of a row that is read again.  A row is stamped before it is committed.  *)
(***************************************************************************)
EXTENDS Integers, FiniteSets

CONSTANTS
  Rows,     \* ids: numbers, compared where the times are equal
  Lists,    \* lists that are paged through
  Page,     \* rows of a page
  MaxClock, \* bound: moments that rows are stamped with
  MaxCopied \* bound: copies of a field note

VARIABLES
  list,  \* the list that is paged through
  clock,
  listed,   \* the rows of the list
  walk   \* what the reader has been shown, and where he continues

listingVars == <<list, clock, listed, walk>>

AllLists == {"posts", "latest", "recommended", "comments", "favorites",
             "messages", "notifications", "users", "plans"}

NoRow == [status |-> "none", at |-> 0, copies |-> 0]

NoWalk == [state |-> "none"]

ASSUME ListingsAssumption ==
  /\ Rows \subseteq Nat /\ IsFiniteSet(Rows) /\ Lists \subseteq AllLists
  /\ Page \in Nat \ {0} /\ MaxClock \in Nat \ {0} /\ MaxCopied \in Nat

ListingsTypeOK ==
  /\ list \in Lists
  /\ clock \in 1..MaxClock
  /\ listed \in [Rows -> [status : {"none", "listed", "unlisted", "deleted"}, at : 0..MaxClock, copies : 0..MaxCopied]]
  /\ walk.state \in {"none", "more", "ended", "refused"}

ListingsInit ==
  /\ list \in Lists /\ clock = 1
  /\ listed = [n \in Rows |-> NoRow]
  /\ walk = NoWalk

----------------------------------------------------------------------------
(* The rows *)

Tick == clock < MaxClock /\ clock' = clock + 1 /\ UNCHANGED <<list, listed, walk>>

\* The date of a plan is its author's choice.
Appear(n, at) ==
  /\ listed[n] = NoRow /\ (list = "plans" \/ at <= clock)
  /\ listed' = [listed EXCEPT ![n] = [status |-> "listed", at |-> at, copies |-> 0]]
  /\ UNCHANGED <<list, clock, walk>>

Leaves(n, status) ==
  /\ listed[n].status = "listed"
  /\ listed' = [listed EXCEPT ![n].status = status]
  /\ walk' = IF walk = NoWalk THEN walk ELSE [walk EXCEPT !.due = @ \ {n}]
  /\ UNCHANGED <<list, clock>>

HidePost(n) == list \in {"posts", "latest", "recommended", "favorites"} /\ Leaves(n, "unlisted")

MarkRead(n) == list = "notifications" /\ Leaves(n, "unlisted")

ClosePlan(n) == list = "plans" /\ Leaves(n, "unlisted")

\* A plan whose party grows, or that its host opens again.
ReopenPlan(n) ==
  /\ list = "plans" /\ listed[n].status = "unlisted"
  /\ listed' = [listed EXCEPT ![n].status = "listed"]
  /\ UNCHANGED <<list, clock, walk>>

RemoveFavorite(n) == list = "favorites" /\ Leaves(n, "deleted")

CopyNote(n) ==
  /\ list = "recommended" /\ listed[n].status = "listed" /\ listed[n].copies < MaxCopied
  /\ listed' = [listed EXCEPT ![n].copies = @ + 1]
  /\ UNCHANGED <<list, clock, walk>>

----------------------------------------------------------------------------
(* The pages *)

Key(n) == [n |-> n, at |-> listed[n].at, copies |-> listed[n].copies]

NewestFirst(a, b) == a.at > b.at \/ (a.at = b.at /\ a.n > b.n)

MostCopiedFirst(a, b) == a.copies > b.copies \/ (a.copies = b.copies /\ NewestFirst(a, b))

\* Mutant of OldestFirst: the id does not tell apart rows of one moment.
OldestFirstByTime(a, b) == a.at < b.at

OldestFirst(a, b) == a.at < b.at \/ (a.at = b.at /\ a.n < b.n)

\* The start date, then the latest.
ByDate(a, b) == a.at < b.at \/ (a.at = b.at /\ a.n > b.n)

Precedes(a, b) ==
  CASE list \in {"comments", "messages", "users"} -> OldestFirst(a, b)
    [] list = "plans" -> ByDate(a, b)
    [] list = "recommended" -> MostCopiedFirst(a, b)
    [] OTHER -> NewestFirst(a, b)

ListedRows == {n \in Rows : listed[n].status = "listed"}

After(cursor) == {n \in ListedRows : \A k \in cursor : Precedes(k, Key(n))}

Sooner(n, ns) == {m \in ns \ {n} : Precedes(Key(m), Key(n))}

FirstOf(ns) == {n \in ns : Cardinality(Sooner(n, ns)) < Page}

\* One row more than the page is read to know whether there are more.
HasMore(ns) == FirstOf(ns) # ns

LastOf(ns) == {Key(n) : n \in {m \in ns : Sooner(m, ns) = ns \ {m}}}

NextOf(ns) == {Key(n) : n \in {m \in ns : Sooner(m, ns) = {}}}

\* Lists whose cursor names the row read beyond the page instead of its last.
Overreaching == {"posts", "latest", "recommended", "comments"}

Cursor(page, rest) == IF list \in Overreaching THEN NextOf(rest \ page) ELSE LastOf(page)

\* INVALID_CURSOR: the row the cursor names is gone ...
Gone(k) == listed[k.n].status = "deleted"

\* ... or is a post that is no longer listed.
Hidden(k) == list = "posts" /\ listed[k.n].status # "listed"

Usable(cursor) == \A k \in cursor : ~Gone(k) /\ ~Hidden(k)

StartWalk ==
  /\ walk = NoWalk
  /\ walk' = [state |-> "more", cursor |-> {}, shown |-> {}, due |-> ListedRows, twice |-> {}]
  /\ UNCHANGED <<list, clock, listed>>

NextPage ==
  /\ walk.state = "more" /\ Usable(walk.cursor)
  /\ LET rest == After(walk.cursor)
         page == FirstOf(rest)
     IN walk' = [state |-> IF HasMore(rest) THEN "more" ELSE "ended",
                 cursor |-> IF HasMore(rest) THEN Cursor(page, rest) ELSE {},
                 shown |-> walk.shown \union page, due |-> walk.due,
                 twice |-> walk.twice \union (page \intersect walk.shown)]
  /\ UNCHANGED <<list, clock, listed>>

CursorRefused ==
  /\ walk.state = "more" /\ ~Usable(walk.cursor)
  /\ walk' = [walk EXCEPT !.state = "refused"]
  /\ UNCHANGED <<list, clock, listed>>

ListingsNext ==
  \/ Tick
  \/ \E n \in Rows, at \in 1..MaxClock : Appear(n, at)
  \/ \E n \in Rows : HidePost(n) \/ MarkRead(n) \/ RemoveFavorite(n) \/ ClosePlan(n) \/ ReopenPlan(n) \/ CopyNote(n)
  \/ StartWalk \/ NextPage \/ CursorRefused

ListingsSpec == ListingsInit /\ [][ListingsNext]_listingVars

----------------------------------------------------------------------------
\* Whoever pages through a list to its end has been shown everything that was
\* listed when he began and is still listed.
ShowsAll == walk.state = "ended" => walk.due \subseteq walk.shown

\* Rows that appear, leave or are copied between two pages neither make a page
\* repeat a row nor, where the cursor names the last row shown, hide one that
\* stays in the list.
PagesAreSound ==
  /\ walk # NoWalk => walk.twice = {}
  /\ list \notin Overreaching => ShowsAll
=============================================================================
