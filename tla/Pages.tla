---------------------------------- MODULE Pages ----------------------------------
(***************************************************************************)
(* cursor.pagination.ts, offset.pagination.ts and apply-sort.sort.ts: a     *)
(* client walks through the pages of a list while rows come and go.  A      *)
(* cursor is the last or first row of a page in the pagination keys: its id, *)
(* and its date, which JavaScript keeps to the millisecond and PostgreSQL   *)
(* to the microsecond.                                                      *)
(***************************************************************************)
EXTENDS Integers, Sequences, FiniteSets

CONSTANTS
    Rows,           \* ids of rows, numbers
    Stamps, NoDate, \* dates, records of ms and us; the null among them
    Tables,         \* the rows there may be at first
    CursorKeys,     \* pagination keys: sequences of "at" and "id"
    Sorts,          \* sort parameters: sequences of [key, up]
    Limits,         \* page sizes
    MaxChanges      \* bound on rows inserted and removed

\* Only the null has the null's milliseconds; pagination keys are distinct.
ASSUME PagesAssumption ==
    /\ Rows \subseteq Int /\ Limits \subseteq Nat \ {0} /\ MaxChanges \in Nat
    /\ \A d \in Stamps : d \in [ms : Int, us : Int] /\ (d.ms = NoDate.ms => d = NoDate)
    /\ \A T \in Tables : T \subseteq Rows /\ IsFiniteSet(T)
    /\ \A ks \in CursorKeys :
          ks \in Seq({"at", "id"}) /\ ks # <<>> /\ \A i, j \in DOMAIN ks : ks[i] = ks[j] => i = j

VARIABLES
    query,          \* how the client lists
    stamp,          \* the date of each row
    table, changes, \* the rows there are; bound
    walk,           \* the walk: its phase, the last page and what came with it
    seen, stayed, match \* history: rows shown; rows there all along; pages that should be equal are

vars == <<query, stamp, table, changes, walk, seen, stayed, match>>

NoCursor == [there |-> FALSE, at |-> NoDate.ms, id |-> 0]

Available == {"id", "at"}

\* applySorts: the parts that can be applied, the default only without a sort.
ApplySorts(sort) ==
    IF sort = <<>> THEN <<[key |-> "id", up |-> TRUE]>>
    ELSE SelectSeq(sort, LAMBDA p : p.key \in Available)

Queries ==
    [by : {"cursor"}, order : {[i \in DOMAIN ks |-> [key |-> ks[i], up |-> up]] : ks \in CursorKeys, up \in BOOLEAN}, limit : Limits]
    \cup [by : {"offset"}, order : {ApplySorts(s) : s \in Sorts}, limit : Limits]

-------------------------------------------------------------------------------
\* ORDER BY compares whole dates, and takes null for the greatest.
Lower(r, s, key) ==
    IF key = "id" THEN r < s
    ELSE /\ stamp[r] # NoDate
         /\ stamp[s] # NoDate =>
              stamp[r].ms < stamp[s].ms \/ (stamp[r].ms = stamp[s].ms /\ stamp[r].us < stamp[s].us)

Differ(r, s, p) == IF p.up THEN Lower(r, s, p.key) ELSE Lower(s, r, p.key)

Precedes(r, s, order) ==
    \E i \in DOMAIN order :
        /\ Differ(r, s, order[i])
        /\ \A j \in 1 .. i - 1 : ~Lower(r, s, order[j].key) /\ ~Lower(s, r, order[j].key)

\* The orders the database may answer in: rows that tie come in any order.
Ordered(S, order) ==
    {q \in [1 .. Cardinality(S) -> S] :
        \A i, j \in DOMAIN q : i < j => q[i] # q[j] /\ ~Precedes(q[j], q[i], order)}

\* buildOrder: a page before a cursor is read backwards.
Flip(order) == [i \in DOMAIN order |-> [order[i] EXCEPT !.up = ~@]]

\* buildCursorQuery: a date compares to the millisecond, a null to nothing.
Beyond(r, c, p) ==
    IF p.key = "id" THEN IF p.up THEN r > c.id ELSE r < c.id
    ELSE stamp[r] # NoDate /\ IF p.up THEN stamp[r].ms > c.at ELSE stamp[r].ms < c.at

Level(r, c, p) == IF p.key = "id" THEN r = c.id ELSE stamp[r] # NoDate /\ stamp[r].ms = c.at

\* Mutant: every key alone decides.
CursorQuery_AnyKey(r, c, order) == \E i \in DOMAIN order : Beyond(r, c, order[i])

CursorQuery(r, c, order) ==
    \E i \in DOMAIN order :
        Beyond(r, c, order[i]) /\ \A j \in 1 .. i - 1 : Level(r, c, order[j])

\* encode, and decode, which throws on a date that is none.
Encode(r) == [there |-> TRUE, at |-> stamp[r].ms, id |-> r]
Decodes(c, order) == \A i \in DOMAIN order : order[i].key = "at" => c.at # NoDate.ms

Reversed(q) == [i \in DOMAIN q |-> q[Len(q) + 1 - i]]
Prefix(q, n) == SubSeq(q, 1, IF Len(q) < n THEN Len(q) ELSE n)

\* Mutant: the page before a cursor is answered as it was read.
Page_AsRead(rows, after, before) ==
    LET more == Len(rows) > query.limit
        data == Prefix(rows, query.limit)
    IN  [walk EXCEPT !.phase = "page", !.data = data,
            !.after = IF data # <<>> /\ (before.there \/ more) THEN Encode(data[Len(data)]) ELSE NoCursor,
            !.before = IF data # <<>> /\ (after.there \/ (more /\ before.there)) THEN Encode(data[1]) ELSE NoCursor]

\* paginate: one row more than the limit was read; a page before a cursor is
\* turned round; the cursors of the answer.
Page(rows, after, before) ==
    LET more == Len(rows) > query.limit
        read == Prefix(rows, query.limit)
        data == IF ~after.there /\ before.there THEN Reversed(read) ELSE read
    IN  [walk EXCEPT !.phase = "page", !.data = data,
            !.after = IF data # <<>> /\ (before.there \/ more) THEN Encode(data[Len(data)]) ELSE NoCursor,
            !.before = IF data # <<>> /\ (after.there \/ (more /\ before.there)) THEN Encode(data[1]) ELSE NoCursor]

\* paginate with these cursors: a page, or an error of decode.
Paginate(after, before) ==
    LET c == IF after.there THEN after ELSE before
        order == IF ~after.there /\ before.there THEN Flip(query.order) ELSE query.order
        rows == IF c.there THEN {r \in table : CursorQuery(r, c, order)} ELSE table
    IN  IF c.there /\ ~Decodes(c, order)
        THEN {[walk EXCEPT !.phase = "failed"]}
        ELSE {Page(Prefix(q, query.limit + 1), after, before) : q \in Ordered(rows, order)}

-------------------------------------------------------------------------------
First ==
    /\ query.by = "cursor" /\ walk.phase = "start"
    /\ walk' \in Paginate(NoCursor, NoCursor)
    /\ seen' = walk'.data
    /\ UNCHANGED <<query, stamp, table, changes, stayed, match>>

\* A move to the next page (way "next") or the previous one, and whether it
\* shows the page that was left by the opposite move just before.
Move(way, pages) ==
    /\ query.by = "cursor" /\ walk.phase = "page"
    /\ \E w \in pages :
        /\ walk' = [w EXCEPT !.way = IF walk.fresh THEN way ELSE "none", !.fresh = TRUE, !.left = walk.data, !.turned = walk.turned \/ way = "previous"]
        /\ seen' = IF walk'.turned \/ w.phase = "failed" THEN seen ELSE seen \o w.data
        /\ match' = (w.phase = "page" /\ walk.way \notin {"none", way} => w.data = walk.left)
    /\ UNCHANGED <<query, stamp, table, changes, stayed>>

NextPage == walk.after.there /\ Move("next", Paginate(walk.after, NoCursor))
PreviousPage == walk.before.there /\ Move("previous", Paginate(NoCursor, walk.before))

\* offset.pagination.ts: getMany with skip and take ...
OffsetRows ==
    /\ query.by = "offset" /\ walk.phase \in {"start", "page"} /\ walk.number < walk.total
    /\ \E q \in Ordered(table, query.order) :
        LET n == walk.number * query.limit
            data == SubSeq(q, n + 1, IF n + query.limit < Len(q) THEN n + query.limit ELSE Len(q))
        IN  walk' = [walk EXCEPT !.phase = "count", !.number = @ + 1, !.data = data] /\ seen' = seen \o data
    /\ UNCHANGED <<query, stamp, table, changes, stayed, match>>

\* OffsetPaginationDto: nextPage is decided before totalPages is set, and is
\* never there: the client counts up to totalPages.
TotalPages(n) == (n + query.limit - 1) \div query.limit

\* ... and getCount.
OffsetCount ==
    /\ walk.phase = "count"
    /\ walk' = [walk EXCEPT !.phase = "page", !.total = TotalPages(Cardinality(table))]
    /\ UNCHANGED <<query, stamp, table, changes, seen, stayed, match>>

\* Others insert and remove rows.  What was the page before may change.
Change ==
    /\ changes < MaxChanges /\ walk.phase # "start"
    /\ changes' = changes + 1
    /\ \E r \in Rows :
        /\ table' = IF r \in table THEN table \ {r} ELSE table \cup {r}
        /\ stayed' = stayed \ {r}
    /\ walk' = [walk EXCEPT !.way = "none", !.fresh = FALSE]
    /\ UNCHANGED <<query, stamp, seen, match>>

PagesInit ==
    /\ query \in Queries /\ stamp \in [Rows -> Stamps] /\ table \in Tables
    /\ changes = 0 /\ seen = <<>> /\ stayed = table /\ match = TRUE
    /\ walk = [phase |-> "start", data |-> <<>>, after |-> NoCursor, before |-> NoCursor,
               number |-> 0, total |-> 1, fresh |-> TRUE, way |-> "none", left |-> <<>>, turned |-> FALSE]

-------------------------------------------------------------------------------
Ended ==
    /\ walk.phase = "page" /\ ~walk.turned
    /\ IF query.by = "cursor" THEN ~walk.after.there ELSE walk.number >= walk.total

ByDate == \E i \in DOMAIN query.order : query.order[i].key = "at"
ById == \E i \in DOMAIN query.order : query.order[i].key = "id"

\* Cursors do not tell the row from another: it has no date, or shares its
\* millisecond with a row that is not ordered after it by the id alone.
Blurred(r) ==
    query.by = "cursor" /\ ByDate
    /\ \/ stamp[r] = NoDate
       \/ \E s \in Rows \ {r} : stamp[s].ms = stamp[r].ms /\ (ById => stamp[s].us # stamp[r].us)

\* Offsets do not tell rows apart when the order leaves ties or rows change.
Shifted ==
    query.by = "offset"
    /\ \/ changes > 0
       \/ \E r, s \in Rows : r # s /\ ~Precedes(r, s, query.order) /\ ~Precedes(s, r, query.order)

\* A walk to the last page shows every row that was there all along, and
\* shows it once, whatever rows come and go: by cursors unless the row is
\* blurred, by offsets unless rows shift.
WalkSeesEveryRow ==
    query.by # "none" /\ Ended /\ ~Shifted =>
        \A r \in stayed : Blurred(r) \/ Cardinality({i \in DOMAIN seen : seen[i] = r}) = 1

\* The page before the next one is the page one came from, and the other way
\* round, unless rows changed in between or are blurred.
PagesMatchBothWays == match \/ \E r \in Rows : Blurred(r)
===============================================================================
