------------------------------ MODULE Listings ------------------------------
(***************************************************************************)
(* The pages of a hook's executions and of its trigger attempts            *)
(* (execution_list and trigger_attempt_list in routes/hooks.rs, the        *)
(* queries in models/, PaginationState in views.rs, the links in           *)
(* views/hook_activity.rs): counted in one statement and read in another,  *)
(* while triggers add rows and executions change their status, and paged   *)
(* through by a viewer with the links the pages show.                      *)
(*                                                                         *)
(* A row is [status, day]; its number is the order of insertion, and the   *)
(* lists are ordered by the time of it, newest first.  A list is the set   *)
(* of its rows' numbers, which says their order.                           *)
(*                                                                         *)
(* A definition whose comment begins with "Faulty:" is a mistake this code *)
(* could have made, kept to see that the properties notice it.             *)
(***************************************************************************)
EXTENDS Integers, Sequences, FiniteSetsExt

CONSTANTS
  Statuses,
  Unfiltered, \* no filter
  Days,     \* a range of naturals
  PerPage,  \* EXECUTIONS_PER_PAGE and ATTEMPTS_PER_PAGE
  MaxPage,  \* bound on the page a URL asks for
  MaxRows   \* bound on rows

ASSUME ListingsConstants ==
  /\ Unfiltered \notin Statuses /\ Unfiltered \notin Days
  /\ Days \subseteq Nat /\ {MaxPage, MaxRows} \subseteq Nat /\ PerPage \in Nat \ {0}

VARIABLES
  list,  \* "executions" or "attempts": what is listed
  rows,
  view   \* what the viewer asked for, and got

vars == <<list, rows, view>>

NoFilter == [status |-> Unfiltered, from |-> Unfiltered, to |-> Unfiltered]
HasDates(f) == f.from # Unfiltered \/ f.to # Unfiltered

\* Attempts have no dates to filter by.
Filters ==
  {f \in [status : Statuses \cup {Unfiltered},
          from : Days \cup {Unfiltered}, to : Days \cup {Unfiltered}] :
     list = "attempts" => ~HasDates(f)}

----
(***************************************************************************)
(* The queries.                                                            *)
(***************************************************************************)
StatusMatches(f, i) == f.status \in {Unfiltered, rows[i].status}

InRange(f, i) ==
  /\ f.from = Unfiltered \/ rows[i].day >= f.from
  /\ f.to = Unfiltered \/ rows[i].day <= f.to

\* ORDER BY triggered_at DESC, attempted_at DESC: the place of a row in a list.
Place(found, i) == Cardinality({j \in found : j >= i})

Limited(found, limit, offset) ==
  {i \in found : offset < Place(found, i) /\ Place(found, i) <= offset + limit}

WithStatus(f) == {i \in DOMAIN rows : StatusMatches(f, i)}

\* With dates, the newest rows up to the end of the page.
Fetched(f, limit, offset) == Limited(WithStatus(f), limit + offset, 0)

\* list_by_hook_filtered, list_by_hook: dates are looked at after the fetch.
ListByHook(f, limit, offset) ==
  IF HasDates(f)
  THEN Limited({i \in Fetched(f, limit, offset) : InRange(f, i)}, limit, offset)
  ELSE Limited(WithStatus(f), limit, offset)

\* count_by_hook_filtered, count_by_hook
CountByHook(f) ==
  Cardinality(IF HasDates(f) THEN ListByHook(f, MaxRows, 0) ELSE WithStatus(f))

----
(***************************************************************************)
(* PaginationState, and the page it is about: [page, total, items].        *)
(***************************************************************************)
\* Faulty: the last page counts only if it is full.
FullPages(total) == total \div PerPage

TotalPages(total) == IF total = 0 THEN 1 ELSE (total + PerPage - 1) \div PerPage

Clamp(n, low, high) == Max({low, Min({n, high})})

Pagination(page, total, items) ==
  [page |-> Clamp(page, 1, TotalPages(total)), total |-> total,
   items |-> Clamp(items, 0, PerPage)]

NoPage == Pagination(1, 0, 0)

StartIndex(p) == IF p.total = 0 \/ p.items = 0 THEN 0 ELSE (p.page - 1) * PerPage + 1

EndIndex(p) ==
  IF p.total = 0 \/ p.items = 0 THEN 0 ELSE Min({StartIndex(p) + p.items - 1, p.total})

\* The links are shown below a table: there is none without rows.
HasNext == view.shown # {} /\ view.at.page < TotalPages(view.at.total)
HasPrevious == view.shown # {} /\ view.at.page > 1

----
(***************************************************************************)
(* The viewer.                                                             *)
(***************************************************************************)
Matching(f) == {i \in WithStatus(f) : InRange(f, i)}

\* Faulty: pages are counted from zero.
OffsetFromZero(page) == page * PerPage

\* The offset of a page; page.max(1) comes first.
Offset(page) == (page - 1) * PerPage

Ask(v, page) ==
  view' = [v EXCEPT !.pc = "asked", !.page = Max({page, 1}), !.stale = FALSE,
                    !.shown = {}, !.at = NoPage]

\* A URL: the filters and the page in it.  "unseen" is what matched then and
\* has not been shown, while the viewer walks from the first page on.
Visit(f, page) ==
  /\ view.pc = "away"
  /\ Ask([view EXCEPT !.filter = f, !.walk = page <= 1,
                      !.unseen = IF page <= 1 THEN Matching(f) ELSE {}], page)
  /\ UNCHANGED <<list, rows>>

NextPage == HasNext /\ Ask(view, view.at.page + 1)
PreviousPage == HasPrevious /\ Ask(view, view.at.page - 1)

Follow ==
  /\ view.pc = "shown"
  /\ NextPage \/ PreviousPage
  /\ UNCHANGED <<list, rows>>

Count ==
  /\ view.pc = "asked"
  /\ view' = [view EXCEPT !.pc = "counted", !.total = CountByHook(view.filter)]
  /\ UNCHANGED <<list, rows>>

Show ==
  /\ view.pc = "counted"
  /\ LET found == ListByHook(view.filter, PerPage, Offset(view.page))
     IN view' = [view EXCEPT !.pc = "shown", !.shown = found,
                             !.at = Pagination(view.page, view.total, Cardinality(found)),
                             !.total = 0, !.unseen = @ \ found]
  /\ UNCHANGED <<list, rows>>

----
(***************************************************************************)
(* The triggers and the executors (external to this module).  Nothing      *)
(* deletes a row, and an attempt's status stays.                           *)
(***************************************************************************)
\* Whether the rows have changed since they were counted.
Restale == view' = [view EXCEPT !.stale = @ \/ view.pc = "counted"]

Insert(status, day) ==
  /\ Len(rows) < MaxRows
  /\ rows # <<>> => day >= rows[Len(rows)].day
  /\ rows' = Append(rows, [status |-> status, day |-> day])
  /\ Restale
  /\ UNCHANGED list

Change(i, status) ==
  /\ list = "executions"
  /\ rows' = [rows EXCEPT ![i].status = status]
  /\ Restale
  /\ UNCHANGED list

Away == [pc |-> "away", filter |-> NoFilter, unseen |-> {}, walk |-> FALSE, page |-> 1,
         total |-> 0, stale |-> FALSE, shown |-> {}, at |-> NoPage]

Init ==
  /\ list \in {"executions", "attempts"}
  /\ rows = <<>> /\ view = Away

Next ==
  \/ \E f \in Filters, page \in 0..MaxPage : Visit(f, page)
  \/ Count \/ Show \/ Follow
  \/ \E s \in Statuses : \E d \in Days : Insert(s, d)
  \/ \E s \in Statuses : \E i \in DOMAIN rows : Change(i, s)

Spec == Init /\ [][Next]_vars

----
(***************************************************************************)
(* Properties.                                                             *)
(***************************************************************************)
\* Whatever a page's label says of it is so, "FROM-TO OF TOTAL", if nothing
\* changed between the two statements: with or without dates, the rows shown
\* are those at these places of all that match, newest first; and without
\* dates the page is as full as it can be.
PageIsAsLabelled ==
  [][view.pc = "counted" /\ view'.pc = "shown" /\ ~view.stale =>
       LET all == Matching(view.filter)
       IN /\ view'.at.total = Cardinality(all)
          /\ view'.shown # {} =>
               view'.shown = {i \in all : Place(all, i) \in StartIndex(view'.at)..EndIndex(view'.at)}
          /\ ~HasDates(view.filter) /\ (view.page - 1) * PerPage < Cardinality(all) =>
               Cardinality(view'.shown)
                 = Min({PerPage, Cardinality(all) - (view.page - 1) * PerPage})]_vars

\* Following the links from the first page to where there is no next one shows
\* every row that was there at the start, although triggers push the rows down
\* meanwhile: unless the rows changed between the last page's two statements,
\* or a date is asked for, or a status that executions enter and leave.
WalkMissesNothing ==
  view.pc = "shown" /\ view.walk /\ ~HasNext /\ ~view.stale
  /\ ~HasDates(view.filter) /\ (list = "attempts" \/ view.filter.status = Unfiltered)
    => view.unseen = {}

=============================================================================
