--------------------------------- MODULE Listing ---------------------------------
(***************************************************************************)
(* GET /items: ItemController::getAllItems, ListItemsUseCase and the       *)
(* find_all and count of PostgresItemRepository.                           *)
(*                                                                         *)
(* A request is two transactions: find_all reads one page, count the       *)
(* total.  Other handlers insert, change and remove items between them and *)
(* between the requests of a client that walks from page to page.  The     *)
(* walk is the client's; the program sees one request after the other.     *)
(***************************************************************************)
EXTENDS Integers, Sequences, FiniteSets

CONSTANTS
  Clients,       \* clients, each with one walk
  Ids,           \* item ids
  Rows,          \* the rows items may have
  Params,        \* the query parameters a walk may start with
  Unset,         \* a parameter that is not given, a std::optional without value
  Invalid,       \* a value that is no UUID, no status, no number
  NotHex,        \* a category_id as long as a UUID that is no number
  Nothing,       \* no row with that id, no request yet
  InitTables,    \* contents of the items table at startup
  IntMax,        \* the greatest int
  MaxPages,      \* bound: pages of one walk
  MaxWrites,     \* bound: writes of the items table
  MaxErrors      \* bound: repository calls that fail

VARIABLES
  items,      \* the items table, as a function from id
  used,       \* ids that have been in the table
  pc,         \* how many repository calls of the request are still to be made
  filter,     \* the request's ItemFilter
  found,      \* the page find_all has returned, as ids
  total,      \* what count has returned
  answer,     \* status of the last response, 0 before the first
  total_pages,\* as in the response
  writes, errors,   \* what the bounds bound
  walked,     \* history: the pages of the walk, one after the other
  stayed,     \* history: items in the result ever since the walk began
  entered,    \* history: an item has entered the result during the walk
  left,       \* history: an item has left the result during the walk
  moved,      \* history: the result has changed between the request's two queries
  first,      \* history: the page the walk began with
  tied        \* history: two items have had one created_at

history == <<walked, stayed, entered, left, moved, first, tied>>
vars == <<items, used, pc, filter, found, total, answer, total_pages, writes, errors,
          walked, stayed, entered, left, moved, first, tied>>

--------------------------------------------------------------------------------
(* Data *)

Statuses == {"active", "inactive", "discontinued", "out_of_stock"}

\* "texts" are the search strings that occur in the row's name or SKU.
IsRow(r) == /\ DOMAIN r = {"created_at", "texts", "category", "status", "stock", "price"}
            /\ r.status \in Statuses
            /\ {r.created_at, r.stock, r.price} \subseteq Int
IntMin == -IntMax - 1

\* What the query parameters say, and what ItemFilter holds of them.
Given(field) == {p[field] : p \in Params}
Number == Int \cup {Unset}
Requests == [search : Given("search"), category_id : Given("category_id"),
             status : Given("status"),
             min_stock : Number \cup {Invalid}, max_price : Number \cup {Invalid},
             page : IntMin..IntMax \cup {Unset, Invalid},
             page_size : IntMin..IntMax \cup {Unset, Invalid}]
Filters == [search : Given("search"), category_id : Given("category_id"),
            status : Statuses \cup {Unset}, min_stock : Number, max_price : Number,
            page : IntMin..IntMax, page_size : IntMin..IntMax]

ASSUME BoundsAssumption == MaxPages \in Nat /\ MaxWrites \in Nat /\ MaxErrors \in Nat
ASSUME IntAssumption == IntMax \in Nat /\ IntMax >= 20
ASSUME UnsetAssumption == Unset \notin Int /\ Invalid \notin Int \cup {Unset}
\* The number of items, hence of pages, is one that an int can hold.
ASSUME RowsAssumption ==
  /\ IsFiniteSet(Ids) /\ Cardinality(Ids) <= IntMax
  /\ \A r \in Rows : IsRow(r)
ASSUME ParamsAssumption == Params \subseteq Requests
ASSUME InitTablesAssumption == InitTables \subseteq [Ids -> Rows \cup {Nothing}]
ASSUME NothingAssumption == Nothing \notin Rows \cup Filters

Present(id) == items[id] # Nothing

\* std::stoi, std::stoll and the std::stoull of Uuid::from_string throw; Drogon
\* answers for the handler.
Throws(p) == \/ Invalid \in {p.page, p.page_size, p.min_stock, p.max_price}
             \/ p.category_id = NotHex

\* A status of no known name counts as not given.
Decoded_AnyStatus(p) ==
  [p EXCEPT !.page = IF @ = Unset THEN 1 ELSE @, !.page_size = IF @ = Unset THEN 20 ELSE @]
Decoded(p) ==
  [p EXCEPT !.status = IF @ \in Statuses THEN @ ELSE Unset,
            !.page = IF @ = Unset THEN 1 ELSE @,
            !.page_size = IF @ = Unset THEN 20 ELSE @]

\* The WHERE clauses of build_find_all_query and build_count_query, each built
\* by a text of its own.  An empty search string and an invalid UUID are no
\* condition; min_stock is an upper bound.
Where(f, r) ==
  /\ f.search \notin {Unset, ""} => f.search \in r.texts
  /\ f.category_id \notin {Unset, Invalid} => r.category = f.category_id
  /\ f.status # Unset => r.status = f.status
  /\ f.min_stock # Unset => r.stock <= f.min_stock
  /\ f.max_price # Unset => r.price <= f.max_price
CountWhere_NoStatus(f, r) ==
  /\ f.search \notin {Unset, ""} => f.search \in r.texts
  /\ f.category_id \notin {Unset, Invalid} => r.category = f.category_id
  /\ f.min_stock # Unset => r.stock <= f.min_stock
  /\ f.max_price # Unset => r.price <= f.max_price
CountWhere(f, r) ==
  /\ f.search \notin {Unset, ""} => f.search \in r.texts
  /\ f.category_id \notin {Unset, Invalid} => r.category = f.category_id
  /\ f.status # Unset => r.status = f.status
  /\ f.min_stock # Unset => r.stock <= f.min_stock
  /\ f.max_price # Unset => r.price <= f.max_price

Matching(table, f) == {id \in Ids : table[id] # Nothing /\ Where(f, table[id])}
Counted(f) == Cardinality({id \in Ids : Present(id) /\ CountWhere(f, items[id])})

Tied(table) == \E i, j \in Ids : /\ i # j /\ table[i] # Nothing /\ table[j] # Nothing
                                  /\ table[i].created_at = table[j].created_at

\* ORDER BY created_at DESC: rows with one time come in any order, and in
\* another one with the next query.
Before_Oldest(i, j) == items[i].created_at <= items[j].created_at
Before(i, j) == items[i].created_at >= items[j].created_at
Orders(S) == {s \in [1..Cardinality(S) -> S] :
                \A i, j \in DOMAIN s : i < j => s[i] # s[j] /\ Before(s[i], s[j])}

\* Products of int wrap around.
AsInt(n) == ((n - IntMin) % (IntMax - IntMin + 1)) + IntMin
Offset_FromOne(f) == AsInt(f.page * f.page_size)
Offset(f) == AsInt((f.page - 1) * f.page_size)
Limit_LookAhead(f) == f.page_size + 1
Limit(f) == f.page_size
Smaller(m, n) == IF m < n THEN m ELSE n
Slice(s, offset, limit) == SubSeq(s, offset + 1, Smaller(offset + limit, Len(s)))

\* ceil(count / page_size) as an int.  Of infinity and NaN the conversion is
\* undefined: processors yield the least int, the greatest, or 0.
TotalPages(n, size) == IF size = 0 THEN {IntMin, 0, IntMax} ELSE {-((-n) \div size)}

\* The order of the use case's two calls
Calls_CountFirst == <<"count", "find_all">>
Calls == <<"find_all", "count">>

--------------------------------------------------------------------------------
(* Steps *)

Init ==
  /\ items \in InitTables
  /\ used = {id \in Ids : Present(id)}
  /\ pc = [c \in Clients |-> 0]
  /\ filter = [c \in Clients |-> Nothing]
  /\ found = [c \in Clients |-> <<>>]
  /\ total = [c \in Clients |-> 0]
  /\ answer = [c \in Clients |-> 0]
  /\ total_pages = [c \in Clients |-> 0]
  /\ writes = 0
  /\ errors = 0
  /\ walked = [c \in Clients |-> <<>>]
  /\ stayed = [c \in Clients |-> {}]
  /\ entered = [c \in Clients |-> FALSE]
  /\ left = [c \in Clients |-> FALSE]
  /\ moved = [c \in Clients |-> FALSE]
  /\ first = [c \in Clients |-> 0]
  /\ tied = Tied(items)

Idle(c) == pc[c] = 0
\* The client's next call is `name`.
Calling(c, name) == pc[c] > 0 /\ Calls[Len(Calls) + 1 - pc[c]] = name

Reply(c, status) == answer' = [answer EXCEPT ![c] = status]
Succeeds == errors' = errors
Fails == errors < MaxErrors /\ errors' = errors + 1

\* The handler decodes the parameters and calls the use case.
Start(c) ==
  \E p \in Params :
    /\ Idle(c) /\ filter[c] = Nothing
    /\ IF Throws(p)
       THEN Reply(c, 500) /\ UNCHANGED <<pc, filter, stayed, first>>
       ELSE /\ filter' = [filter EXCEPT ![c] = Decoded(p)]
            /\ pc' = [pc EXCEPT ![c] = Len(Calls)]
            /\ stayed' = [stayed EXCEPT ![c] = Matching(items, Decoded(p))]
            /\ first' = [first EXCEPT ![c] = Decoded(p).page]
            /\ UNCHANGED answer
    /\ UNCHANGED <<items, used, found, total, total_pages, writes, errors,
                   walked, entered, left, moved, tied>>

\* The client asks for the page after the one it has received.
NextPage(c) ==
  /\ Idle(c) /\ filter[c] # Nothing /\ answer[c] = 200
  /\ filter[c].page < total_pages[c]
  /\ filter[c].page < MaxPages
  /\ filter' = [filter EXCEPT ![c].page = @ + 1]
  /\ pc' = [pc EXCEPT ![c] = Len(Calls)]
  /\ moved' = [moved EXCEPT ![c] = FALSE]
  /\ UNCHANGED <<items, used, found, total, answer, total_pages, writes, errors,
                 walked, stayed, entered, left, first, tied>>

\* A call returns what it has read, and the last one completes the response.
Return(c, page, count) ==
  /\ found' = [found EXCEPT ![c] = page]
  /\ total' = [total EXCEPT ![c] = count]
  /\ pc' = [pc EXCEPT ![c] = @ - 1]
  /\ IF pc[c] > 1 THEN UNCHANGED <<answer, total_pages, walked>>
     ELSE /\ Reply(c, 200)
          /\ \E n \in TotalPages(count, filter[c].page_size) :
               total_pages' = [total_pages EXCEPT ![c] = n]
          /\ walked' = [walked EXCEPT ![c] = @ \o page]
  /\ UNCHANGED <<items, used, filter, writes, stayed, entered, left, moved, first, tied>>

\* The query is refused, or the connection fails: 500.
Refuse(c) ==
  /\ pc' = [pc EXCEPT ![c] = 0]
  /\ Reply(c, 500)
  /\ UNCHANGED <<items, used, filter, found, total, total_pages, writes, history>>

\* PostgreSQL refuses a negative LIMIT or OFFSET.
FindAll(c) ==
  LET f == filter[c] IN
  /\ Calling(c, "find_all")
  /\ \/ /\ Succeeds
        /\ IF Limit(f) < 0 \/ Offset(f) < 0 THEN Refuse(c)
           ELSE \E s \in Orders(Matching(items, f)) :
                  Return(c, Slice(s, Offset(f), Limit(f)), total[c])
     \/ Fails /\ Refuse(c)

Count(c) ==
  /\ Calling(c, "count")
  /\ \/ Succeeds /\ Return(c, found[c], Counted(filter[c]))
     \/ Fails /\ Refuse(c)

\* Another handler commits a write.
Write(table) ==
  LET result(c, t) == IF filter[c] = Nothing THEN {} ELSE Matching(t, filter[c]) IN
  /\ writes < MaxWrites
  /\ writes' = writes + 1
  /\ items' = table
  /\ stayed' = [c \in Clients |-> stayed[c] \cap result(c, table)]
  /\ entered' = [c \in Clients |-> entered[c] \/ ~(result(c, table) \subseteq result(c, items))]
  /\ left' = [c \in Clients |-> left[c] \/ ~(result(c, items) \subseteq result(c, table))]
  /\ moved' = [c \in Clients |-> moved[c] \/ (pc[c] = 1 /\ result(c, table) # result(c, items))]
  /\ tied' = (tied \/ Tied(table))
  /\ UNCHANGED <<pc, filter, found, total, answer, total_pages, errors, walked, first>>

SaveItem == \E id \in Ids \ used, r \in Rows :
  Write([items EXCEPT ![id] = r]) /\ used' = used \cup {id}
\* created_at is not among the columns that an UPDATE sets.
UpdateItem == \E id \in Ids, r \in Rows :
  /\ Present(id) /\ r # items[id] /\ r.created_at = items[id].created_at
  /\ Write([items EXCEPT ![id] = r]) /\ used' = used
RemoveItem == \E id \in Ids :
  Present(id) /\ Write([items EXCEPT ![id] = Nothing]) /\ used' = used

Terminated == (\A c \in Clients : Idle(c)) /\ UNCHANGED vars

Next ==
  \/ \E c \in Clients : Start(c) \/ NextPage(c) \/ FindAll(c) \/ Count(c)
  \/ SaveItem \/ UpdateItem \/ RemoveItem
  \/ Terminated

Spec == Init /\ [][Next]_vars

--------------------------------------------------------------------------------
(* Properties *)

\* Every variable keeps to its type; a filter's status is one of the enum's.
TypeOK ==
  /\ items \in [Ids -> Rows \cup {Nothing}]
  /\ used \in SUBSET Ids
  /\ pc \in [Clients -> 0..2]
  /\ filter \in [Clients -> Filters \cup {Nothing}]
  /\ found \in [Clients -> Seq(Ids)] /\ walked \in [Clients -> Seq(Ids)]
  /\ total \in [Clients -> 0..Cardinality(Ids)]
  /\ answer \in [Clients -> {0, 200, 500}]
  /\ total_pages \in [Clients -> IntMin..IntMax]
  /\ writes \in 0..MaxWrites
  /\ errors \in 0..MaxErrors
  /\ stayed \in [Clients -> SUBSET Ids]
  /\ {entered, left, moved} \subseteq [Clients -> BOOLEAN]
  /\ first \in [Clients -> IntMin..IntMax]
  /\ tied \in BOOLEAN

\* The client has its response to a request for a page of positive number and
\* size, with an offset that an int can hold.
Answered(c) == /\ Idle(c) /\ answer[c] = 200
               /\ filter[c].page > 0 /\ filter[c].page_size > 0
               /\ (filter[c].page - 1) * filter[c].page_size <= IntMax

\* Unless the result has changed between the two queries, the page, total_count
\* and total_pages agree: every page before the last is full, the last has the
\* rest, and there is none after it.
TotalsAgree ==
  \A c \in Clients : Answered(c) /\ ~moved[c] =>
    LET size == filter[c].page_size
        before == (filter[c].page - 1) * size
    IN
    /\ Len(found[c]) = IF before >= total[c] THEN 0 ELSE Smaller(size, total[c] - before)
    /\ filter[c].page < total_pages[c] => Len(found[c]) = size
    /\ filter[c].page >= total_pages[c] => before + Len(found[c]) >= total[c]

\* A client that walks from page 1 to the last page misses no item that was in
\* the result all the time, as long as items only come in: they push others to
\* later pages, and total_pages is counted after the page was read.
WalkMissesNothing ==
  \A c \in Clients :
    /\ Answered(c)
    /\ first[c] = 1
    /\ filter[c].page >= total_pages[c]
    /\ ~left[c] /\ ~tied
    => stayed[c] \subseteq {walked[c][i] : i \in DOMAIN walked[c]}

\* A walk shows no item twice, as long as items only go.
NothingTwice ==
  \A c \in Clients : Answered(c) /\ ~entered[c] /\ ~tied =>
    \A i, j \in DOMAIN walked[c] : walked[c][i] = walked[c][j] => i = j

\* Across the pages of a walk, items come newest first, as long as items only
\* go, those of one time in any order.
NewestFirst ==
  \A c \in Clients : Answered(c) /\ ~entered[c] =>
    \A i, j \in DOMAIN walked[c] :
      i < j /\ Present(walked[c][i]) /\ Present(walked[c][j]) =>
        items[walked[c][i]].created_at >= items[walked[c][j]].created_at
================================================================================
