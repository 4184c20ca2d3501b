------------------------------- MODULE ItemStore -------------------------------
(***************************************************************************)
(* What the item API promises its clients, without repository calls, ids   *)
(* set aside or failing connections: a table of items, and requests each   *)
(* of which is served in one instant, the instant of its answer.  There it *)
(* takes effect entirely or not at all, and the answer tells the truth     *)
(* about the table at that instant; only 500 leaves open what happened.    *)
(* The one thing that is older is the item an update writes, a draft of it *)
(* made when the request had arrived, which may be stale by then.          *)
(*                                                                         *)
(* PUT and PATCH are one request, an update of the fields that its body    *)
(* names.  Two constants say what a body may do, since the documentation   *)
(* (src/docs/api.yaml, src/README.md) and the code disagree: documented    *)
(* are Settable = Fields and UpdateNeedsSku = FALSE.  ItemService.tla      *)
(* (src/src/api, src/src/core/use_cases) implements the contract without   *)
(* "status" in Settable, and with UpdateNeedsSku = TRUE.                   *)
(***************************************************************************)
EXTENDS Integers

CONSTANTS
  Clients,
  Ids,
  Fields,         \* of an item, its SKU apart
  Settable,       \* those that an update sets if its body names them
  UpdateNeedsSku, \* an update that does not name a SKU, which it ignores, is refused
  Categories,     \* those that exist
  CreateBodies,   \* what a request may carry: a SKU, and values for some fields
  UpdateBodies,
  NoBody,
  Absent,         \* no SKU was given
  EmptySku,
  EmptyName,
  Active,         \* the status of a new item
  Nothing         \* no item

VARIABLES
  table,     \* the item of each id
  stage,     \* "idle", "asked" or "drafted", for each client
  asked,     \* its last request
  draft,     \* the item its update is about to write
  answer     \* the last answer it was given

storeVars == <<table, stage, asked, draft, answer>>

\* The target of a creation is chosen when the item comes to be.
Requests == [op : {"create"}, target : {Nothing}, body : CreateBodies]
              \cup [op : {"update"}, target : Ids, body : UpdateBodies]
              \cup [op : {"get", "remove"}, target : Ids, body : {NoBody}]

Present(id) == table[id] # Nothing
SkuTaken(sku) == \E id \in Ids : Present(id) /\ table[id].sku = sku

\* What no item may become: without a name, with an empty SKU or a negative amount.
Faulty(b) ==
  \/ b.sku = EmptySku
  \/ "name" \in DOMAIN b.set /\ b.set["name"] = EmptyName
  \/ \E f \in {"price", "stock"} \cap DOMAIN b.set : b.set[f] < 0

Incomplete(r) == r.body.sku = Absent /\ (r.op = "create" \/ UpdateNeedsSku)
Acceptable(r) == ~Incomplete(r) /\ ~Faulty(r.body)

Made(b) ==
  [sku |-> b.sku,
   data |-> [f \in Fields |-> IF f \in DOMAIN b.set THEN b.set[f] ELSE Active]]
Patched(row, b) ==
  [sku |-> row.sku,
   data |-> [f \in Fields |-> IF f \in DOMAIN b.set \cap Settable THEN b.set[f] ELSE row.data[f]]]

\* The table has room for this item under this id.
Fits(id, row) ==
  /\ row.data["category"] \in Categories
  /\ \A other \in Ids \ {id} : Present(other) => table[other].sku # row.sku

--------------------------------------------------------------------------------
StoreInit ==
  /\ \A id \in Ids : Present(id) => Fits(id, table[id])
  /\ stage = [c \in Clients |-> "idle"]
  /\ asked = [c \in Clients |-> Nothing]
  /\ draft = [c \in Clients |-> Nothing]
  /\ answer = [c \in Clients |-> 0]

Ask(c) ==
  /\ stage[c] = "idle"
  /\ stage' = [stage EXCEPT ![c] = "asked"]
  /\ \E r \in Requests : asked' = [asked EXCEPT ![c] = r]
  /\ UNCHANGED <<table, draft, answer>>

Draft(c) ==
  LET r == asked[c] IN
  /\ stage[c] = "asked"
  /\ r.op = "update" /\ Acceptable(r) /\ Present(r.target)
  /\ draft' = [draft EXCEPT ![c] = Patched(table[r.target], r.body)]
  /\ stage' = [stage EXCEPT ![c] = "drafted"]
  /\ UNCHANGED <<table, asked, answer>>

Inserted(r) ==
  /\ r.op = "create" /\ Acceptable(r)
  /\ \E id \in Ids : /\ ~Present(id)
                     /\ Fits(id, Made(r.body))
                     /\ table' = [table EXCEPT ![id] = Made(r.body)]

Replaced(c, r) ==
  /\ stage[c] = "drafted"
  /\ Present(r.target)
  /\ Fits(r.target, draft[c])
  /\ table' = [table EXCEPT ![r.target] = draft[c]]

Erased(r) ==
  /\ r.op = "remove"
  /\ Present(r.target)
  /\ table' = [table EXCEPT ![r.target] = Nothing]

\* What a request that changes nothing may be told.
Told(r, status) ==
  \/ status = 200 /\ r.op = "get" /\ Present(r.target)
  \/ status = 404 /\ r.op # "create" /\ ~Present(r.target)
  \/ status = 409 /\ r.op = "create" /\ SkuTaken(r.body.sku)
  \/ status = 400 /\ r.op \in {"create", "update"} /\ Incomplete(r)
  \/ status = 422 /\ r.op \in {"create", "update"} /\ Faulty(r.body)
  \/ status = 500

\* What a request does to the table, and what its client is told of it.
Effect(c, r, status) ==
  \/ table' = table /\ Told(r, status)
  \/ Inserted(r) /\ status \in {201, 500}
  \/ Replaced(c, r) /\ status \in {200, 500}
  \/ Erased(r) /\ status \in {204, 500}

Answers == {200, 201, 204, 400, 404, 409, 422, 500}
Answer(c, r) ==
  /\ stage' = [stage EXCEPT ![c] = "idle"]
  /\ draft' = draft
  /\ \E status \in Answers : Effect(c, r, status) /\ answer' = [answer EXCEPT ![c] = status]

Serve(c) ==
  /\ stage[c] # "idle"
  /\ asked' = asked
  /\ Answer(c, asked[c])

\* A request that is answered as it arrives.
ServeAtOnce(c) ==
  /\ stage[c] = "idle"
  /\ \E r \in Requests : asked' = [asked EXCEPT ![c] = r] /\ Answer(c, r)

StoreNext == \E c \in Clients : Ask(c) \/ Draft(c) \/ Serve(c) \/ ServeAtOnce(c)

StoreSpec == StoreInit /\ [][StoreNext]_storeVars
================================================================================
