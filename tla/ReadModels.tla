----------------------------- MODULE ReadModels -----------------------------
(***************************************************************************)
(* The three listings - history, logs, detail audit - and the run page, as *)
(* they are read while runs start and finish, stores are renamed and       *)
(* access changes.                                                         *)
(*                                                                         *)
(* A request reads its context in one transaction and answers from a       *)
(* second one, each statement of which sees what is committed by then: the *)
(* count, the page, and on the run page the run, its summary and its files *)
(* before them.  A reader walks from page to page, by the links of the     *)
(* HTML pages or by the API.  Each listing is written twice: as a SQL      *)
(* query, which the application uses, and in the service, over lists.      *)
(***************************************************************************)
EXTENDS Integers, Sequences, FiniteSets, FiniteSetsExt

CONSTANTS
    Stores,         \* ids
    Names, Times,   \* natural numbers, in the order that sorting gives
    Files,          \* original names of input files
    Queries,        \* what readers ask for
    PageSizes,      \* page sizes that are accepted
    Unset,          \* "no filter"
    MaxRuns,        \* bound: runs
    RowCounts,      \* bound: how many detail rows a run may have
    MaxChanges      \* bound: changes of the manager's access and of names

Users    == {"admin", "manager"}
Listings == {"history", "logs", "detail"}
Run      == 1..MaxRuns
None     == 0                       \* NULL

ASSUME ReadModelsAssumption ==
    /\ Names \subseteq Nat \ {0} /\ Times \subseteq Nat \ {0} /\ PageSizes \subseteq Nat \ {0}
    /\ MaxRuns \in Nat /\ RowCounts \subseteq Nat /\ MaxChanges \in Nat
    /\ Unset \notin Nat /\ Unset \notin BOOLEAN
    /\ \A q \in Queries :
        /\ DOMAIN q = {"listing", "via", "size", "sort", "desc", "equal", "search", "from", "to", "key"}
        /\ q.listing \in Listings /\ q.via \in {"page", "api"} /\ q.size \in Nat
        /\ q.desc \in BOOLEAN /\ q.key \in BOOLEAN \cup {Unset}
        /\ q.from \in Nat \cup {Unset} /\ q.to \in Nat \cup {Unset}

VARIABLES
    runs,       \* rows by id, with their detail rows counted: a sequence
    names,      \* of the stores
    access,     \* stores granted to the manager
    changes,    \* used up of the bound
    view        \* the request, and what the walk has shown

vars == <<runs, names, access, changes, view>>
Tables == <<runs, names, access, changes>>

Idle == [pc |-> "idle"]

Init ==
    /\ runs = <<>> /\ names \in [Stores -> Names]
    /\ access = Stores /\ changes = 0
    /\ view = Idle

-----------------------------------------------------------------------------
(* The rows of the listings, joined with the names that they show.  The    *)
(* words of a row are those a search may look for in any of its columns.   *)

HistoryRow(i) == [id |-> i, store |-> runs[i].store, name |-> names[runs[i].store], run |-> i,
                  time |-> runs[i].started, finished |-> runs[i].finished, key |-> i,
                  words |-> {<<"name", names[runs[i].store]>>, <<"file", runs[i].file>>}]

\* of the log, the row that the start of each run writes
LogRow(i) == [id |-> i, store |-> runs[i].store, name |-> names[runs[i].store], run |-> i,
              time |-> runs[i].started, finished |-> None, key |-> i, words |-> {<<"run", i>>}]

\* every second row has no entity key
DetailRow(i, k) == [id |-> k, store |-> runs[i].store, run |-> i, time |-> k,
                    finished |-> None, key |-> IF k % 2 = 0 THEN None ELSE k, words |-> {<<"row", k>>}]

Rows(listing, i) ==
    CASE listing = "history" -> {HistoryRow(j) : j \in DOMAIN runs}
      [] listing = "logs"    -> {LogRow(j) : j \in DOMAIN runs}
      [] OTHER               -> {DetailRow(i, k) : k \in 1..runs[i].rows}

SortFields(listing) == CASE listing = "history" -> {"time", "finished", "name"}
                         [] listing = "logs"    -> {"time", "name"}
                         [] OTHER               -> {"time", "key"}

Offset(page, size) == (page - 1) * size

\* a page of rows, given the place of each: those at the places behind the offset
Page(place, page, size) ==
    LET first == Offset(page, size)
        last  == Min({Cardinality(DOMAIN place), first + size})
    IN  [n \in 1..Max({0, last - first}) |-> CHOOSE x \in DOMAIN place : place[x] = first + n]

-----------------------------------------------------------------------------
(* The queries of the gateways.                                            *)

\* Mutant: asking for one store widens the scope to it.
SqlScopeOrFilter(q, scope, x) ==
    /\ x.store \in scope \/ "store" \in DOMAIN q.equal
    /\ \A f \in DOMAIN q.equal : x[f] = q.equal[f]

\* Mutant: a search does not look at the names of the files.
SqlSkippingFiles(q, scope, x) ==
    /\ x.store \in scope
    /\ \A f \in DOMAIN q.equal : x[f] = q.equal[f]
    /\ q.from # Unset => x.time >= q.from
    /\ q.to # Unset => x.time <= q.to
    /\ q.search # Unset => q.search \in {w \in x.words : w[1] # "file"}
    /\ q.key # Unset => (x.key # None) = q.key

SqlSelects(q, scope, x) ==
    /\ x.store \in scope
    /\ \A f \in DOMAIN q.equal : x[f] = q.equal[f]
    /\ q.from # Unset => x.time >= q.from
    /\ q.to # Unset => x.time <= q.to
    /\ q.search # Unset => q.search \in x.words
    /\ q.key # Unset => (x.key # None) = q.key

\* NULL sorts as the greatest value
Below(a, b) == a # None /\ (b = None \/ a < b)

SqlBefore(q, x, y) ==
    LET a == x[q.sort] b == y[q.sort]
    IN  \/ a # b /\ q.desc /\ Below(b, a)
        \/ a # b /\ ~q.desc /\ Below(a, b)
        \/ a = b /\ q.listing = "detail" /\ x.id < y.id
        \/ a = b /\ q.listing # "detail" /\ x.id > y.id

SqlRows(q, i, scope) == {x \in Rows(q.listing, i) : SqlSelects(q, scope, x)}

SqlPlaces(q, rows) == [x \in rows |-> 1 + Cardinality({y \in rows : SqlBefore(q, y, x)})]

SqlPage(q, i, scope, page) == Page(SqlPlaces(q, SqlRows(q, i, scope)), page, q.size)

-----------------------------------------------------------------------------
(* The same in the services, when they have no gateway.                    *)

ServiceRejects(q, x) ==
    \/ \E f \in DOMAIN q.equal : x[f] # q.equal[f]
    \/ q.from # Unset /\ x.time < q.from
    \/ q.to # Unset /\ x.time > q.to
    \/ q.search # Unset /\ \A w \in x.words : w # q.search
    \/ q.key = TRUE /\ x.key = None
    \/ q.key = FALSE /\ x.key # None

ServiceRows(q, i, scope) ==
    {x \in Rows(q.listing, i) : x.store \in scope /\ ~ServiceRejects(q, x)}

\* an unfinished run sorts by its start, an empty value as the least
ServiceKey(q, x) == IF q.sort = "finished" /\ x.finished = None THEN x.time ELSE x[q.sort]

\* sorted() is stable, also with reverse=True
ServiceAhead(q, x, y) ==
    \/ q.desc /\ ServiceKey(q, x) > ServiceKey(q, y)
    \/ ~q.desc /\ ServiceKey(q, x) < ServiceKey(q, y)
    \/ ServiceKey(q, x) = ServiceKey(q, y) /\ x.id < y.id

ServicePlaces(q, rows) == [x \in rows |-> 1 + Cardinality({y \in rows : ServiceAhead(q, y, x)})]

ServicePage(q, i, scope, page) == Page(ServicePlaces(q, ServiceRows(q, i, scope)), page, q.size)

-----------------------------------------------------------------------------
(* What changes meanwhile.                                                 *)

\* a statement of the reader's transaction falls on each side of the commit
Torn == IF view.pc = "fetch" THEN [view EXCEPT !.missing = {}] ELSE view

\* started_at is read from the clock before the transaction commits
StartRun(s, f, t) ==
    /\ Len(runs) < MaxRuns
    /\ runs' = Append(runs, [store |-> s, file |-> f, started |-> t, finished |-> None, rows |-> 0])
    /\ view' = Torn
    /\ UNCHANGED <<names, access, changes>>

\* a process run succeeds: summary, detail rows, result file and status in one commit
FinishRun(i, t, n) ==
    /\ i \in DOMAIN runs /\ runs[i].finished = None /\ t >= runs[i].started
    /\ runs' = [runs EXCEPT ![i] = [@ EXCEPT !.finished = t, !.rows = n]]
    /\ view' = Torn
    /\ UNCHANGED <<names, access, changes>>

ChangeAccess(stores) ==
    /\ stores # access /\ changes < MaxChanges
    /\ access' = stores /\ changes' = changes + 1
    /\ view' = IF view.pc = "idle" \/ view.user = "admin" THEN view
               ELSE [view EXCEPT !.entitled = @ \cup stores,
                                 !.missing = IF view.scope \subseteq stores THEN @ ELSE {}]
    /\ UNCHANGED <<runs, names>>

\* edit_store; a name is unique among the stores of one marketplace only
RenameStore(s, n) ==
    /\ names[s] # n /\ changes < MaxChanges
    /\ names' = [names EXCEPT ![s] = n] /\ changes' = changes + 1
    /\ UNCHANGED <<runs, access, view>>

-----------------------------------------------------------------------------
(* A request.                                                              *)

Scope(u) == IF u = "admin" THEN Stores ELSE access

\* Mutant: the run is read after its summary and its files.
RunReadLast(listing) == IF listing = "detail" THEN <<"summary", "files", "count", "fetch", "policy">>
                        ELSE <<"policy", "count", "fetch">>

Steps(listing) == IF listing = "detail" THEN <<"policy", "summary", "files", "count", "fetch">>
                  ELSE <<"policy", "count", "fetch">>

After(v) == IF v.step = Len(Steps(v.query.listing)) THEN "shown"
            ELSE Steps(v.query.listing)[v.step + 1]
Proceed(v) == [v EXCEPT !.pc = After(v), !.step = @ + 1]

\* history: the rows that the walk still has to show, or none when it cannot be held
\* to it any more, and every store accessible during the request
Open(u, q, i) ==
    /\ view.pc = "idle"
    /\ q.listing = "detail" => i \in DOMAIN runs
    /\ q.listing # "detail" => i = 1
    /\ view' = [pc |-> Steps(q.listing)[1], step |-> 1, user |-> u, query |-> q, run |-> i, page |-> 1,
                scope |-> Scope(u), entitled |-> Scope(u), final |-> FALSE, summary |-> FALSE,
                file |-> FALSE, total |-> 0, items |-> <<>>,
                missing |-> {x.id : x \in SqlRows(q, i, Scope(u))}]
    /\ UNCHANGED Tables

Admitted(v) == CASE v.query.listing = "history" -> v.user = "admin" \/ v.scope # {}
                 [] v.query.listing = "logs"    -> v.user = "admin"
                 [] OTHER                       -> runs[v.run].store \in v.scope

Admit ==
    /\ view.pc = "policy" /\ Admitted(view)
    /\ view' = [Proceed(view) EXCEPT !.final = IF view.query.listing = "detail"
                                               THEN runs[view.run].finished # None ELSE FALSE]
    /\ UNCHANGED Tables

ReadSummary ==
    /\ view.pc = "summary"
    /\ view' = [Proceed(view) EXCEPT !.summary = runs[view.run].finished # None]
    /\ UNCHANGED Tables

ReadFiles ==
    /\ view.pc = "files"
    /\ view' = [Proceed(view) EXCEPT !.file = runs[view.run].finished # None]
    /\ UNCHANGED Tables

Count ==
    /\ view.pc = "count" /\ view.query.size \in PageSizes
    /\ view' = [Proceed(view) EXCEPT
                  !.total = Cardinality(SqlRows(view.query, view.run, view.scope))]
    /\ UNCHANGED Tables

Fetch ==
    /\ view.pc = "fetch" /\ view.query.sort \in SortFields(view.query.listing)
    /\ LET items == SqlPage(view.query, view.run, view.scope, view.page)
       IN  view' = [Proceed(view) EXCEPT !.items = items,
                                         !.missing = @ \ {items[n].id : n \in DOMAIN items}]
    /\ UNCHANGED Tables

\* the policy, the page size or the sort field
Refuse ==
    /\ \/ view.pc = "policy" /\ ~Admitted(view)
       \/ view.pc = "count" /\ view.query.size \notin PageSizes
       \/ view.pc = "fetch" /\ view.query.sort \notin SortFields(view.query.listing)
    /\ view' = Idle
    /\ UNCHANGED Tables

-----------------------------------------------------------------------------
(* From page to page.                                                      *)

\* Mutant: the last page counts only if it is full.
FullPages(total, size) == IF total < size THEN 1 ELSE total \div size

TotalPages(total, size) == IF total = 0 THEN 1 ELSE (total + size - 1) \div size

\* a parameter that is False is left out of the link, and gets its default again
LinkQuery(q) == [q EXCEPT !.desc = @ \/ q.listing # "detail",
                          !.key = IF @ = FALSE THEN Unset ELSE @]

Turn(q) ==
    /\ view.pc = "shown" /\ view.page < TotalPages(view.total, view.query.size)
    /\ view' = [view EXCEPT !.pc = Steps(q.listing)[1], !.step = 1, !.page = @ + 1, !.query = q,
                            !.scope = Scope(view.user), !.entitled = Scope(view.user),
                            !.items = <<>>, !.total = 0]
    /\ UNCHANGED Tables

FollowLink == view.pc = "shown" /\ view.query.via = "page" /\ Turn(LinkQuery(view.query))
AskNext    == view.pc = "shown" /\ view.query.via = "api" /\ Turn(view.query)

Finish ==
    /\ view.pc = "shown" /\ view.page >= TotalPages(view.total, view.query.size)
    /\ view' = [view EXCEPT !.pc = "done", !.items = <<>>, !.total = 0]
    /\ UNCHANGED Tables

Leave ==
    /\ view.pc \in {"shown", "done"} /\ view' = Idle
    /\ UNCHANGED Tables

Next ==
    \/ \E s \in Stores, f \in Files, t \in Times : StartRun(s, f, t)
    \/ \E i \in DOMAIN runs, t \in Times, n \in RowCounts : FinishRun(i, t, n)
    \/ \E stores \in SUBSET Stores : ChangeAccess(stores)
    \/ \E s \in Stores, n \in Names : RenameStore(s, n)
    \/ \E u \in Users, q \in Queries, i \in Run : Open(u, q, i)
    \/ Admit \/ ReadSummary \/ ReadFiles \/ Count \/ Fetch \/ Refuse
    \/ FollowLink \/ AskNext \/ Finish \/ Leave

Spec == Init /\ [][Next]_vars

-----------------------------------------------------------------------------
(* Properties.                                                             *)

(* Tables and request have their types; a page is never longer than asked. *)
TypeOK ==
    /\ Len(runs) <= MaxRuns
    /\ names \in [Stores -> Names] /\ access \subseteq Stores /\ changes \in 0..MaxChanges
    /\ \A i \in DOMAIN runs : runs[i].store \in Stores /\ runs[i].rows \in RowCounts \cup {0}
    /\ view.pc # "idle" => /\ view.page \in Nat \ {0} /\ view.total \in Nat
                           /\ Len(view.items) <= view.query.size

\* columns that keep their value: the id of the store, but not its name
Lasting == {"time", "store", "run", "key"}

\* sorted, filtered and searched by nothing that changes
Lasts(q) == /\ q.sort \in Lasting /\ DOMAIN q.equal \subseteq Lasting
            /\ \A n \in Names : q.search # <<"name", n>>

(* A walk over all pages, by columns that do not change, shows every row   *)
(* that matched when it began, whatever is started and renamed in between  *)
(* - unless a commit fell between a count and its page or access was taken *)
(* away (list_history, list_logs, list_detail_audit, _pagination).         *)
NothingSkipped == view.pc = "done" /\ Lasts(view.query) => view.missing = {}

(* Every row shown is of a store that the reader had access to at some     *)
(* moment of the request; logs are shown to administrators only            *)
(* (accessible_store_ids, _assert_run_access, can_view_logs; docs/05).     *)
ShownRowsWereAccessible ==
    view.pc = "shown" =>
        /\ \A n \in DOMAIN view.items : view.items[n].store \in view.entitled
        /\ view.query.listing = "logs" => view.user = "admin"

(* A run page that shows a finished run shows its summary, its result file *)
(* and the number of all its detail rows, although they are read by        *)
(* different statements (get_run_page, _finalize_success).                 *)
FinalPageIsComplete ==
    view.pc = "shown" /\ view.query.listing = "detail" /\ view.final =>
        /\ view.summary /\ view.file
        /\ view.total = Cardinality(SqlRows(view.query, view.run, Stores))

(* The SQL query and the service's own filtering give the same page, when  *)
(* the column tells the rows apart and is not empty (read_queries.py,      *)
(* _apply_filters, _apply_sort, _paginate).                                *)
PagesAgree == view = Idle =>
    \A q \in Queries, i \in Run, u \in Users, page \in 1..MaxRuns :
        LET rows == SqlRows(q, i, Scope(u)) IN
        /\ q.sort \in SortFields(q.listing) /\ (q.listing = "detail" => i \in DOMAIN runs)
        /\ \A x, y \in rows : x[q.sort] # None /\ (x # y => x[q.sort] # y[q.sort])
        => SqlPage(q, i, Scope(u), page) = ServicePage(q, i, Scope(u), page)
=============================================================================
