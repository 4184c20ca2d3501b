------------------------------ MODULE ItemService ------------------------------
(***************************************************************************)
(* The item API, from the HTTP handler down to the rows of the items       *)
(* table: ItemController, ItemValidator, the create, get, update and       *)
(* delete use cases and PostgresItemRepository (src/src/api, src/src/core, *)
(* src/src/infrastructure/repositories).                                   *)
(*                                                                         *)
(* Each repository call is one transaction on one row, so it is one step;  *)
(* between two calls of a handler any other handler may run.  Any call may *)
(* fail; a failing write may have been committed, when the connection dies *)
(* after the server has received COMMIT.                                   *)
(***************************************************************************)
EXTENDS Integers, FiniteSets

CONSTANTS
  Clients,        \* HTTP requests in progress at once, one for each client
  Ids,            \* the UUIDs that will be generated
  Skus,           \* nonempty SKUs
  EmptySku,       \* ""
  Absent,         \* a request body without "sku"
  Nothing,        \* no row with that id, no request yet, no item read
  Categories,     \* ids of rows of the categories table
  CreateBodies,   \* bodies of POST /items
  UpdateBodies,   \* bodies of PUT and PATCH /items/{id}
  InitTables,     \* contents of the table at startup
  MaxRequests,    \* bound: requests by one client
  MaxErrors       \* bound: repository calls that fail

VARIABLES
  rows,      \* the items table, as a function from id
  ids,       \* ids set aside for creations so far
  pc,        \* the repository call a client's handler is about to make
  req,       \* the request it serves
  item,      \* the Item an update is about to write
  answer,    \* status of the last response sent to a client
  sent, errors,             \* what the bounds bound
  ver,       \* history: writes of each row
  base,      \* history: ver of the row when an update read it
  wrote,     \* history: the client's request has committed a write
  deleted,   \* history: ids whose row was deleted
  acks,      \* history: 204 answers to the deletion of each id
  doubled    \* history: ids that two creations have drawn

history == <<ver, base, wrote, deleted, acks, doubled>>
vars == <<rows, ids, pc, req, item, answer, sent, errors,
          ver, base, wrote, deleted, acks, doubled>>

--------------------------------------------------------------------------------
(* Data.  "name" stands for the texts, "category" for the two foreign keys,  *)
(* "stock" for the two quantities; currency and unit never change.           *)

Fields == {"name", "category", "price", "stock", "status"}
Amounts_PriceOnly == {"price"}
Amounts == {"price", "stock"}
EmptyName == 0
Active == 1

\* What a JSON body gives a value to; requests without one have NoBody.
IsBody(b) == /\ b.sku \in Skus \cup {EmptySku, Absent}
             /\ DOMAIN b.set \subseteq Fields
             /\ b.set \in [DOMAIN b.set -> Int]
NoBody == [sku |-> Absent, set |-> <<>>]
Bodies == CreateBodies \cup UpdateBodies \cup {NoBody}
Row == [sku : Skus, data : [Fields -> Int]]
Request == [op : {"create", "get", "update", "remove"}, id : Ids, body : Bodies]
Places == {"idle", "find_by_sku", "save", "find_by_id", "update", "find_for_remove", "remove"}

ASSUME IdsAssumption == IsFiniteSet(Ids) /\ Nothing \notin Row \cup Request
ASSUME SkusAssumption == EmptySku \notin Skus /\ Absent \notin Skus
ASSUME BodiesAssumption ==
  /\ \A b \in CreateBodies \cup UpdateBodies : IsBody(b)
  /\ \A b \in CreateBodies : DOMAIN b.set = Fields \ {"status"}
ASSUME InitTablesAssumption ==
  \A table \in InitTables :
    /\ table \in [Ids -> Row \cup {Nothing}]
    /\ \A i, j \in Ids : table[i] # Nothing /\ table[j] # Nothing /\ table[i].sku = table[j].sku
                           => i = j
    /\ \A i \in Ids : table[i] # Nothing =>
         /\ \A f \in {"price", "stock"} : table[i].data[f] >= 0
         /\ table[i].data["name"] # EmptyName
         /\ table[i].data["category"] \in Categories
ASSUME BoundsAssumption == MaxRequests \in Nat /\ MaxErrors \in Nat

Present(id) == rows[id] # Nothing
SkuTaken(sku) == \E id \in Ids : Present(id) /\ rows[id].sku = sku

\* from_json(UpdateItemRequest) never reads "status".
Settable == Fields \ {"status"}
Decoded(b) == DOMAIN b.set \cap Settable

NegativeAmount(set) == \E f \in DOMAIN set \cap Amounts : set[f] < 0
NoName(set) == "name" \in DOMAIN set /\ set["name"] = EmptyName

\* The status ItemController answers before it reaches a use case; 0 if it does.
CreateCheck(b) == IF b.sku = Absent THEN 400
                  ELSE IF b.sku = EmptySku \/ NoName(b.set) \/ NegativeAmount(b.set) THEN 422
                  ELSE 0
UpdateCheck(b) == IF b.sku = Absent THEN 400
                  ELSE IF b.sku = EmptySku \/ NegativeAmount(b.set) THEN 422
                  ELSE 0

NewRow_NoStatus(b) == [sku |-> b.sku, data |-> b.set]
NewRow(b) == [sku |-> b.sku,
              data |-> [f \in Fields |-> IF f = "status" THEN Active ELSE b.set[f]]]

\* The setters UpdateItemUseCase calls on the item it has read.
Applied_Defaults(row, b) ==
  [sku |-> row.sku,
   data |-> [f \in Fields |-> IF f \in Decoded(b) THEN b.set[f]
                              ELSE IF f = "stock" THEN 0 ELSE row.data[f]]]
Applied(row, b) ==
  [sku |-> row.sku,
   data |-> [f \in Fields |-> IF f \in Decoded(b) THEN b.set[f] ELSE row.data[f]]]

\* The constraints of the items table: sku UNIQUE, category_id REFERENCES
\* categories, and for an INSERT the primary key.
Storable_NotUnique(id, row) == row.data["category"] \in Categories
Storable(id, row) ==
  /\ row.data["category"] \in Categories
  /\ \A other \in Ids \ {id} : Present(other) => rows[other].sku # row.sku
Insertable_Overwrites(id, row) == Storable(id, row)
Insertable(id, row) == ~Present(id) /\ Storable(id, row)

--------------------------------------------------------------------------------
(* Steps of a handler *)

Init ==
  /\ rows \in InitTables
  /\ ids = {id \in Ids : Present(id)}
  /\ pc = [c \in Clients |-> "idle"]
  /\ req = [c \in Clients |-> Nothing]
  /\ item = [c \in Clients |-> Nothing]
  /\ answer = [c \in Clients |-> 0]
  /\ sent = [c \in Clients |-> 0]
  /\ errors = 0
  /\ ver = [id \in Ids |-> 0]
  /\ base = [c \in Clients |-> 0]
  /\ wrote = [c \in Clients |-> FALSE]
  /\ deleted = {}
  /\ acks = [id \in Ids |-> 0]
  /\ doubled = {}

At(c, place) == pc[c] = place

\* A handler goes on to its next repository call.
Call(c, place) == pc' = [pc EXCEPT ![c] = place] /\ answer' = answer
\* A handler invokes its callback with a response.
Reply(c, status) == /\ pc' = [pc EXCEPT ![c] = "idle"]
                    /\ answer' = [answer EXCEPT ![c] = status]

Succeeds == errors' = errors
Fails == errors < MaxErrors /\ errors' = errors + 1

\* A request arrives while the client waits for no other.
Receive(c, op, id, body) ==
  /\ At(c, "idle")
  /\ sent[c] < MaxRequests
  /\ sent' = [sent EXCEPT ![c] = @ + 1]
  /\ req' = [req EXCEPT ![c] = [op |-> op, id |-> id, body |-> body]]
  /\ wrote' = [wrote EXCEPT ![c] = FALSE]
  /\ UNCHANGED <<rows, item, ver, base, deleted, acks, doubled>>

\* Checks, or else the first repository call.
CallOr(c, status, place) == IF status = 0 THEN Call(c, place) ELSE Reply(c, status)

\* Commits `row` as the row of the request's id.
Write(c, row) ==
  /\ rows' = [rows EXCEPT ![req[c].id] = row]
  /\ ver' = [ver EXCEPT ![req[c].id] = @ + 1]
  /\ wrote' = IF row # rows[req[c].id] \/ Present(req[c].id)
              THEN [wrote EXCEPT ![c] = TRUE] ELSE wrote

\* The answer to a committed write: the client may see an error all the same.
Committed(c, status) == \/ Succeeds /\ Reply(c, status)
                        \/ Fails /\ Reply(c, 500)

(* POST /items.  An id is set aside on arrival; the handler generates it later. *)
CreateItem(c) ==
  \E b \in CreateBodies, id \in Ids \ ids :
    /\ Receive(c, "create", id, b)
    /\ ids' = ids \cup {id}
    /\ Succeeds
    /\ CallOr(c, CreateCheck(b), "find_by_sku")

\* Uuid::generate draws from one generator that all threads share without a
\* lock: a call may return what one that overlaps it returns.
Generate(c) ==
  \/ UNCHANGED <<req, doubled>>
  \/ \E d \in Clients : /\ At(d, "save")
                       /\ req' = [req EXCEPT ![c].id = req[d].id]
                       /\ doubled' = doubled \cup {req[d].id}

\* find_by_sku: any failure counts as "no such item".
FindBySku(c) ==
  /\ At(c, "find_by_sku")
  /\ \/ SkuTaken(req[c].body.sku) /\ Succeeds /\ Reply(c, 409) /\ UNCHANGED <<req, doubled>>
     \/ ~SkuTaken(req[c].body.sku) /\ Succeeds /\ Call(c, "save") /\ Generate(c)
     \/ Fails /\ Call(c, "save") /\ Generate(c)
  /\ UNCHANGED <<rows, ids, item, sent, ver, base, wrote, deleted, acks>>

Save(c) ==
  LET row == NewRow(req[c].body) IN
  /\ At(c, "save")
  /\ Insertable(req[c].id, row)
  /\ Write(c, row)
  /\ Committed(c, 201)
  /\ UNCHANGED <<ids, req, item, sent, base, deleted, acks, doubled>>

\* The INSERT or UPDATE violates a constraint: a database error, answered 500.
Refused(c) ==
  /\ \/ At(c, "save") /\ ~Insertable(req[c].id, NewRow(req[c].body))
     \/ At(c, "update") /\ Present(req[c].id) /\ ~Storable(req[c].id, item[c])
  /\ Succeeds
  /\ Reply(c, 500)
  /\ UNCHANGED <<rows, ids, req, item, sent, history>>

(* GET /items/{id} *)
GetItem(c) ==
  \E id \in Ids :
    /\ Receive(c, "get", id, NoBody)
    /\ \/ Succeeds /\ Reply(c, IF Present(id) THEN 200 ELSE 404)
       \/ Fails /\ Reply(c, 500)
    /\ ids' = ids

(* PUT and PATCH /items/{id}, which share one body *)
UpdateItem(c) ==
  \E b \in UpdateBodies, id \in Ids :
    /\ Receive(c, "update", id, b)
    /\ Succeeds
    /\ CallOr(c, UpdateCheck(b), "find_by_id")
    /\ ids' = ids

FindById(c) ==
  LET id == req[c].id IN
  /\ At(c, "find_by_id")
  /\ Succeeds
  /\ IF ~Present(id) \/ NoName(req[c].body.set)
     THEN /\ Reply(c, IF Present(id) THEN 422 ELSE 404)
          /\ UNCHANGED <<item, base>>
     ELSE /\ Call(c, "update")
          /\ item' = [item EXCEPT ![c] = Applied(rows[id], req[c].body)]
          /\ base' = [base EXCEPT ![c] = ver[id]]
  /\ UNCHANGED <<rows, ids, req, sent, ver, wrote, deleted, acks, doubled>>

\* UPDATE ... WHERE id = $1 finds the row.
Matched_Upsert(id) == TRUE
Matched(id) == Present(id)

\* Every column but id and created_at is written, requested or not.
Update(c) ==
  LET id == req[c].id IN
  /\ At(c, "update")
  /\ \/ /\ Matched(id)
        /\ Storable(id, item[c])
        /\ Write(c, item[c])
        /\ Committed(c, 200)
     \/ /\ ~Matched(id)
        /\ Succeeds
        /\ Reply(c, 404)
        /\ UNCHANGED <<rows, ver, wrote>>
  /\ UNCHANGED <<ids, req, item, sent, base, deleted, acks, doubled>>

(* DELETE /items/{id} *)
DeleteItem(c) ==
  \E id \in Ids :
    /\ Receive(c, "remove", id, NoBody)
    /\ Succeeds
    /\ Call(c, "find_for_remove")
    /\ ids' = ids

FindForRemove(c) ==
  /\ At(c, "find_for_remove")
  /\ Succeeds
  /\ IF Present(req[c].id) THEN Call(c, "remove") ELSE Reply(c, 404)
  /\ UNCHANGED <<rows, ids, req, item, sent, history>>

\* affected_rows() of the DELETE.
Affected_Ignored(id) == TRUE
Affected(id) == Present(id)

Remove(c) ==
  LET id == req[c].id IN
  /\ At(c, "remove")
  /\ \/ /\ Affected(id)
        /\ Write(c, Nothing)
        /\ deleted' = deleted \cup {id}
        /\ \/ Succeeds /\ Reply(c, 204) /\ acks' = [acks EXCEPT ![id] = @ + 1]
           \/ Fails /\ Reply(c, 500) /\ acks' = acks
     \/ /\ ~Affected(id)
        /\ Succeeds
        /\ Reply(c, 404)
        /\ UNCHANGED <<rows, ver, wrote, deleted, acks>>
  /\ UNCHANGED <<ids, req, item, sent, base, doubled>>

\* A repository call fails and leaves the table alone; only a failing
\* find_by_sku is not answered at once.
CallFails_NotFound(c) ==
  /\ pc[c] \in {"save", "find_by_id", "update", "find_for_remove", "remove"}
  /\ Fails
  /\ Reply(c, IF pc[c] \in {"find_by_id", "find_for_remove"} THEN 404 ELSE 500)
  /\ UNCHANGED <<rows, ids, req, item, sent, history>>
CallFails(c) ==
  /\ pc[c] \in {"save", "find_by_id", "update", "find_for_remove", "remove"}
  /\ Fails
  /\ Reply(c, 500)
  /\ UNCHANGED <<rows, ids, req, item, sent, history>>

Terminated == (\A c \in Clients : At(c, "idle")) /\ UNCHANGED vars

Next ==
  \/ \E c \in Clients :
       \/ CreateItem(c) \/ FindBySku(c) \/ Save(c) \/ Refused(c)
       \/ GetItem(c)
       \/ UpdateItem(c) \/ FindById(c) \/ Update(c)
       \/ DeleteItem(c) \/ FindForRemove(c) \/ Remove(c)
       \/ CallFails(c)
  \/ Terminated

Spec == Init /\ [][Next]_vars

--------------------------------------------------------------------------------
(* Properties *)

\* Every variable keeps to its type.
TypeOK ==
  /\ rows \in [Ids -> Row \cup {Nothing}]
  /\ ids \in SUBSET Ids
  /\ pc \in [Clients -> Places]
  /\ req \in [Clients -> Request \cup {Nothing}]
  /\ item \in [Clients -> Row \cup {Nothing}]
  /\ answer \in [Clients -> {0, 200, 201, 204, 400, 404, 409, 422, 500}]
  /\ sent \in [Clients -> 0..MaxRequests]
  /\ errors \in 0..MaxErrors
  /\ ver \in [Ids -> Nat]
  /\ base \in [Clients -> Nat]
  /\ wrote \in [Clients -> BOOLEAN]
  /\ deleted \in SUBSET Ids
  /\ acks \in [Ids -> Nat]
  /\ doubled \in SUBSET Ids

\* No two items share a SKU, although the check and the INSERT are two
\* transactions and a failing check counts as passed.
SkuUnique ==
  \A i, j \in Ids : Present(i) /\ Present(j) /\ rows[i].sku = rows[j].sku => i = j

\* Whatever handlers overlap, a stored item has a name, no negative amount and
\* an existing category.  The table itself demands only the last.
StoredItemsValid ==
  \A i \in Ids : Present(i) =>
    /\ \A f \in {"price", "stock"} : rows[i].data[f] >= 0
    /\ rows[i].data["name"] # EmptyName
    /\ rows[i].data["category"] \in Categories

\* An update or a create that overlaps a deletion never brings the item back,
\* unless two creations had drawn its id.
NoResurrection == \A id \in deleted \ doubled : ~Present(id)

\* An item's SKU is fixed for life: no update, however stale the item it
\* writes, moves it, and no creation that has drawn the same id.  The body of an
\* update carries a SKU that is ignored.  (A deleted item may come back as
\* another one under a doubled id.)
SkuNeverChanges ==
  [][\A id \in Ids : rows[id] # Nothing /\ rows'[id] # Nothing =>
       rows'[id].sku = rows[id].sku \/ id \in doubled \cap deleted]_vars

\* 2xx to a write means that it was committed, 4xx that the table was left
\* alone; only a 500 leaves the client in doubt.
AnswersTellTheTruth ==
  \A c \in Clients : At(c, "idle") /\ req[c] # Nothing =>
    /\ answer[c] \in {200, 201, 204} /\ req[c].op # "get" => wrote[c]
    /\ answer[c] \in {400, 404, 409, 422} => ~wrote[c]

\* Of any number of overlapping deletions of an item, at most one is told 204.
DeletedOnce == \A id \in Ids \ doubled : acks[id] <= 1 /\ (acks[id] = 1 => id \in deleted)

\* An update, by PUT as by PATCH, is partial as long as no other write of the row is
\* committed between its reading the item and its writing it: what the body does not
\* name keeps the value it has.  (UpdateIsPartial is the claim without that proviso.)
UncontendedUpdateIsPartial ==
  \A c \in Clients :
    LET id == req[c].id IN
    At(c, "update") /\ base[c] = ver[id] =>
      \A f \in Fields \ DOMAIN req[c].body.set : item[c].data[f] = rows[id].data[f]

\* "partial update of an item" (item_controller.hpp): what the body does not
\* name keeps the value it has when the update is committed.
UpdateIsPartial ==
  [][\A c \in Clients :
       At(c, "update") /\ wrote'[c] /\ rows' # rows =>
         \A f \in Fields \ DOMAIN req[c].body.set :
           rows'[req[c].id].data[f] = rows[req[c].id].data[f]]_vars

--------------------------------------------------------------------------------
(* The contract: each request is served in the instant of its answer *)

\* A handler that has read the item has drafted what it will write; the id that
\* a creation has drawn concerns nobody before the row is there.
StageOf(place) ==
  CASE place = "idle" -> "idle" [] place = "update" -> "drafted" [] OTHER -> "asked"
Stage == [c \in Clients |-> StageOf(pc[c])]
AsAsked(r) ==
  IF r = Nothing THEN Nothing
  ELSE [op |-> r.op, target |-> IF r.op = "create" THEN Nothing ELSE r.id, body |-> r.body]
Asked == [c \in Clients |-> AsAsked(req[c])]

Store == INSTANCE ItemStore WITH
  table <- rows,
  stage <- Stage,
  asked <- Asked,
  draft <- item,
  UpdateNeedsSku <- TRUE

\* Though a handler makes up to two repository calls, between which any other
\* may run, and calls fail before and after they commit, every request takes
\* effect at most once, entirely, in the instant of its answer; and that answer
\* is true of the table in that instant, with the stale draft of an update as the
\* one exception.
ImplementsStore == Store!StoreSpec
================================================================================
