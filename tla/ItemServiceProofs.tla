--------------------------- MODULE ItemServiceProofs ---------------------------
(***************************************************************************)
(* What TLAPS proves of ItemService for every number of clients, requests  *)
(* and failures, every set of bodies and every initial table.              *)
(***************************************************************************)
EXTENDS ItemService, TLAPS

--------------------------------------------------------------------------------
(* Types, and what a handler's place says of its request *)

HandlerInv ==
  \A c \in Clients :
    /\ pc[c] # "idle" => req[c] \in Request
    /\ pc[c] \in {"find_by_sku", "save"} =>
         /\ req[c].op = "create"
         /\ req[c].body \in CreateBodies
         /\ CreateCheck(req[c].body) = 0
    /\ pc[c] \in {"find_by_id", "update"} =>
         /\ req[c].op = "update"
         /\ req[c].body \in UpdateBodies
         /\ UpdateCheck(req[c].body) = 0
    /\ pc[c] \in {"find_for_remove", "remove"} => req[c].op = "remove"
    /\ pc[c] = "update" => item[c] \in Row

TypeInv == TypeOK /\ HandlerInv

\* A body that passed the controller's checks makes a well-typed row.
LEMMA NewRowType ==
  ASSUME NEW b \in CreateBodies, CreateCheck(b) = 0
  PROVE  NewRow(b) \in Row
<1>1. b.sku \in Skus
  BY BodiesAssumption DEF CreateCheck, IsBody
<1>2. \A f \in Fields \ {"status"} : b.set[f] \in Int
  BY BodiesAssumption DEF IsBody
<1> QED
  BY <1>1, <1>2 DEF NewRow, Row, Active

LEMMA AppliedType ==
  ASSUME NEW row \in Row, NEW b \in UpdateBodies
  PROVE  Applied(row, b) \in Row
<1>1. \A f \in Decoded(b) : b.set[f] \in Int
  BY BodiesAssumption DEF IsBody, Decoded
<1> QED
  BY <1>1 DEF Applied, Row

\* Write(c, row) marks its client as having written, or leaves the mark alone.
LEMMA WroteType ==
  ASSUME wrote \in [Clients -> BOOLEAN], NEW c \in Clients, NEW row,
         Write(c, row) \/ wrote' = wrote
  PROVE  wrote' \in [Clients -> BOOLEAN]
<1>1. wrote' = wrote \/ wrote' = [wrote EXCEPT ![c] = TRUE]
  BY Zenon DEF Write
<1>2. [wrote EXCEPT ![c] = TRUE] \in [Clients -> BOOLEAN]
  OBVIOUS
<1> QED
  BY <1>1, <1>2

LEMMA InitTypeInv == Init => TypeInv
<1> SUFFICES ASSUME Init PROVE TypeInv
  OBVIOUS
<1>1. rows \in [Ids -> Row \cup {Nothing}]
  BY InitTablesAssumption DEF Init
<1> QED
  BY <1>1, BoundsAssumption DEF Init, TypeInv, TypeOK, HandlerInv, Places, Present

LEMMA NextTypeInv == TypeInv /\ [Next]_vars => TypeInv'
<1> SUFFICES ASSUME TypeInv, [Next]_vars PROVE TypeInv'
  OBVIOUS
<1>a. NoBody \in Bodies /\ CreateBodies \subseteq Bodies /\ UpdateBodies \subseteq Bodies
  BY DEF Bodies
<1> USE <1>a, BoundsAssumption
       DEF TypeInv, TypeOK, HandlerInv, Places, At, Call, Reply, Succeeds, Fails, CallOr
<1>1. ASSUME NEW c \in Clients, CreateItem(c) PROVE TypeInv'
  BY <1>1, <1>a DEF CreateItem, Receive, Request, CreateCheck
<1>2. ASSUME NEW c \in Clients, FindBySku(c) PROVE TypeInv'
  <2>1. /\ req[c] \in Request
        /\ req[c].op = "create" /\ req[c].body \in CreateBodies /\ CreateCheck(req[c].body) = 0
    BY <1>2 DEF FindBySku
  <2>2. \/ UNCHANGED <<req, doubled>>
        \/ \E id \in Ids : req' = [req EXCEPT ![c] = [req[c] EXCEPT !.id = id]]
                         /\ doubled' = doubled \cup {id}
    BY <1>2 DEF FindBySku, Generate, Request
  <2>3. /\ pc' = [pc EXCEPT ![c] = "save"] \/ pc' = [pc EXCEPT ![c] = "idle"]
        /\ answer' = answer \/ answer' = [answer EXCEPT ![c] = 409]
        /\ errors' = errors \/ (errors < MaxErrors /\ errors' = errors + 1)
        /\ UNCHANGED <<rows, ids, item, sent, ver, base, wrote, deleted, acks>>
    BY <1>2 DEF FindBySku
  <2>4. /\ req' \in [Clients -> Request \cup {Nothing}] /\ doubled' \in SUBSET Ids
        /\ \A d \in Clients \ {c} : req'[d] = req[d]
        /\ req'[c] \in Request /\ req'[c].op = req[c].op /\ req'[c].body = req[c].body
    <3>1. CASE UNCHANGED <<req, doubled>>
      BY <2>1, <3>1
    <3>2. ASSUME NEW id \in Ids, req' = [req EXCEPT ![c] = [req[c] EXCEPT !.id = id]],
                 doubled' = doubled \cup {id}
          PROVE  /\ req' \in [Clients -> Request \cup {Nothing}] /\ doubled' \in SUBSET Ids
                 /\ \A d \in Clients \ {c} : req'[d] = req[d]
                 /\ req'[c] \in Request /\ req'[c].op = req[c].op /\ req'[c].body = req[c].body
      <4>1. /\ [req[c] EXCEPT !.id = id] \in Request
            /\ [req[c] EXCEPT !.id = id].op = req[c].op
            /\ [req[c] EXCEPT !.id = id].body = req[c].body
        BY <2>1 DEF Request
      <4> QED
        BY <3>2, <4>1
    <3> QED
      BY <2>2, <3>1, <3>2
  <2>5. TypeOK'
    BY <2>3, <2>4
  <2>6. HandlerInv'
    BY <2>1, <2>3, <2>4
  <2> QED
    BY <2>5, <2>6
<1>3. ASSUME NEW c \in Clients, Save(c) PROVE TypeInv'
  BY <1>3, NewRowType DEF Save, Write, Committed, Request
<1>4. ASSUME NEW c \in Clients, Refused(c) PROVE TypeInv'
  BY <1>4 DEF Refused, history
<1>5. ASSUME NEW c \in Clients, GetItem(c) PROVE TypeInv'
  BY <1>5, <1>a DEF GetItem, Receive, Request, Present
<1>6. ASSUME NEW c \in Clients, UpdateItem(c) PROVE TypeInv'
  BY <1>6, <1>a DEF UpdateItem, Receive, Request, UpdateCheck
<1>7. ASSUME NEW c \in Clients, FindById(c) PROVE TypeInv'
  BY <1>7, AppliedType DEF FindById, Request, Present
<1>8. ASSUME NEW c \in Clients, Update(c) PROVE TypeInv'
  <2>1. req[c].id \in Ids /\ item[c] \in Row
    BY <1>8 DEF Update, Request
  <2>2. rows' \in [Ids -> Row \cup {Nothing}] /\ ver' \in [Ids -> Nat]
    BY <1>8, <2>1 DEF Update, Write
  <2>3. wrote' \in [Clients -> BOOLEAN]
    <3>1. Write(c, item[c]) \/ wrote' = wrote
      BY <1>8 DEF Update
    <3> QED
      BY <3>1, WroteType
  <2>4. /\ pc' = [pc EXCEPT ![c] = "idle"]
        /\ \E status \in {200, 204, 404, 500} : answer' = [answer EXCEPT ![c] = status]
        /\ errors' = errors \/ (errors < MaxErrors /\ errors' = errors + 1)
        /\ UNCHANGED <<ids, req, item, sent, base, doubled>>
    BY <1>8 DEF Update, Committed
  <2>5. deleted' \in SUBSET Ids /\ acks' \in [Ids -> Nat]
    BY <1>8, <2>1 DEF Update
  <2> QED
    BY <2>1, <2>2, <2>3, <2>4, <2>5
<1>9. ASSUME NEW c \in Clients, DeleteItem(c) PROVE TypeInv'
  BY <1>9, <1>a DEF DeleteItem, Receive, Request
<1>10. ASSUME NEW c \in Clients, FindForRemove(c) PROVE TypeInv'
  BY <1>10 DEF FindForRemove, history, Present
<1>11. ASSUME NEW c \in Clients, Remove(c) PROVE TypeInv'
  <2>1. req[c].id \in Ids /\ TRUE
    BY <1>11 DEF Remove, Request
  <2>2. rows' \in [Ids -> Row \cup {Nothing}] /\ ver' \in [Ids -> Nat]
    BY <1>11, <2>1 DEF Remove, Write
  <2>3. wrote' \in [Clients -> BOOLEAN]
    <3>1. Write(c, Nothing) \/ wrote' = wrote
      BY <1>11 DEF Remove
    <3> QED
      BY <3>1, WroteType
  <2>4. /\ pc' = [pc EXCEPT ![c] = "idle"]
        /\ \E status \in {200, 204, 404, 500} : answer' = [answer EXCEPT ![c] = status]
        /\ errors' = errors \/ (errors < MaxErrors /\ errors' = errors + 1)
        /\ UNCHANGED <<ids, req, item, sent, base, doubled>>
    BY <1>11 DEF Remove, Committed
  <2>5. deleted' \in SUBSET Ids /\ acks' \in [Ids -> Nat]
    BY <1>11, <2>1 DEF Remove
  <2> QED
    BY <2>1, <2>2, <2>3, <2>4, <2>5
<1>12. ASSUME NEW c \in Clients, CallFails(c) PROVE TypeInv'
  BY <1>12 DEF CallFails, history
<1>13. ASSUME UNCHANGED vars PROVE TypeInv'
  BY <1>13 DEF vars
<1> QED
  BY <1>1, <1>2, <1>3, <1>4, <1>5, <1>6, <1>7, <1>8, <1>9, <1>10, <1>11, <1>12, <1>13 DEF Next,
     Terminated

\* The model is well typed.
THEOREM TypeCorrect == Spec => []TypeOK
<1>1. TypeInv => TypeOK
  BY DEF TypeInv
<1> QED
  BY InitTypeInv, NextTypeInv, <1>1, PTL DEF Spec

--------------------------------------------------------------------------------
(* The life of an id: generated once, saved at most once, deleted for good.   *)
(* What an update has read it finds again, with the same SKU, or not at all.  *)
(* The exceptions are ids that two creations have drawn.                      *)

Creating(c) == pc[c] \in {"find_by_sku", "save"}

LifeInv ==
  /\ \A id \in Ids : Present(id) => id \in ids /\ (id \in deleted => id \in doubled)
  /\ deleted \subseteq ids
  /\ \A c \in Clients : Creating(c) =>
       /\ req[c].id \in ids
       /\ req[c].id \in doubled \/ (~Present(req[c].id) /\ req[c].id \notin deleted)
  /\ \A c, d \in Clients : Creating(c) /\ Creating(d) /\ req[c].id = req[d].id =>
       c = d \/ req[c].id \in doubled
  /\ \A c \in Clients : pc[c] = "update" =>
       \/ req[c].id \in doubled \cap deleted
       \/ IF Present(req[c].id) THEN item[c].sku = rows[req[c].id].sku
                                ELSE req[c].id \in deleted

LEMMA InitLifeInv == Init => LifeInv
  BY DEF Init, LifeInv, Creating, Present

\* A step of one handler that leaves the table alone and neither starts a
\* creation nor reads an item to update.
LEMMA QuietStep ==
  ASSUME LifeInv, NEW c \in Clients,
         UNCHANGED <<rows, deleted, ids, item>>, doubled \subseteq doubled',
         \A d \in Clients \ {c} : pc'[d] = pc[d] /\ req'[d] = req[d],
         \/ ~Creating(c)' /\ pc'[c] # "update"
         \/ Creating(c) /\ Creating(c)' /\ req'[c] = req[c]
         \/ Creating(c)' /\ req'[c].id \in ids \cap doubled'
  PROVE  LifeInv'
<1>1. \A d \in Clients : Creating(d)' =>
        \/ Creating(d) /\ req'[d] = req[d]
        \/ req'[d].id \in ids \cap doubled'
  BY DEF Creating
<1>2. \A d \in Clients : pc'[d] = "update" => pc[d] = "update" /\ req'[d] = req[d]
  BY DEF Creating
<1>3. /\ \A id \in Ids : Present(id)' => id \in ids' /\ (id \in deleted' => id \in doubled')
      /\ deleted' \subseteq ids'
  BY DEF LifeInv, Present
<1>4. \A d \in Clients : Creating(d)' =>
        /\ req'[d].id \in ids'
        /\ req'[d].id \in doubled' \/ (rows'[req'[d].id] = Nothing /\ req'[d].id \notin deleted')
  BY <1>1 DEF LifeInv, Present
<1>5. \A d, e \in Clients : Creating(d)' /\ Creating(e)' /\ req'[d].id = req'[e].id =>
        d = e \/ req'[d].id \in doubled'
  BY <1>1 DEF LifeInv
<1>6. \A d \in Clients : pc'[d] = "update" =>
        \/ req'[d].id \in doubled' \cap deleted'
        \/ IF rows'[req'[d].id] # Nothing THEN item'[d].sku = rows'[req'[d].id].sku
                                   ELSE req'[d].id \in deleted'
  BY <1>2 DEF LifeInv, Present
<1> QED
  BY <1>3, <1>4, <1>5, <1>6 DEF LifeInv, Present

LEMMA NextLifeInv == TypeInv /\ LifeInv /\ [Next]_vars => LifeInv'
<1> SUFFICES ASSUME TypeInv, LifeInv, [Next]_vars PROVE LifeInv'
  OBVIOUS
<1> USE IdsAssumption
       DEF TypeInv, TypeOK, HandlerInv, LifeInv, Creating, Present, Request, At, Call, Reply, Row
<1>1. ASSUME NEW c \in Clients, CreateItem(c) PROVE LifeInv'
  <2>1. PICK id \in Ids \ ids :
          /\ UNCHANGED <<rows, deleted, item, doubled>> /\ ids' = ids \cup {id}
          /\ req'[c].id = id /\ pc'[c] \in {"idle", "find_by_sku"}
          /\ \A d \in Clients \ {c} : req'[d] = req[d] /\ pc'[d] = pc[d]
    BY <1>1 DEF CreateItem, Receive, CallOr
  <2>2. ~Present(id) /\ id \notin deleted
    BY <2>1
  <2>3. \A d \in Clients : Creating(d) => req[d].id # id
    BY <2>1
  <2>4. /\ \A i \in Ids : rows'[i] # Nothing => i \in ids' /\ (i \in deleted' => i \in doubled')
        /\ deleted' \subseteq ids'
    BY <2>1
  <2>5. \A d \in Clients : pc'[d] \in {"find_by_sku", "save"} =>
          /\ req'[d].id \in ids'
          /\ req'[d].id \in doubled' \/ (rows'[req'[d].id] = Nothing /\ req'[d].id \notin deleted')
    BY <2>1, <2>2
  <2>6. \A d, e \in Clients : pc'[d] \in {"find_by_sku", "save"} /\ pc'[e] \in {"find_by_sku", "save"}
                                     /\ req'[d].id = req'[e].id =>
          d = e \/ req'[d].id \in doubled'
    BY <2>1, <2>3
  <2>7. \A d \in Clients : pc'[d] = "update" =>
          \/ req'[d].id \in doubled' \cap deleted'
          \/ IF rows'[req'[d].id] # Nothing THEN item'[d].sku = rows'[req'[d].id].sku
                                     ELSE req'[d].id \in deleted'
    BY <2>1
  <2> QED
    BY <2>4, <2>5, <2>6, <2>7
<1>2. ASSUME NEW c \in Clients, FindBySku(c) PROVE LifeInv'
  <2>1. /\ UNCHANGED <<rows, deleted, ids, item>>
        /\ pc[c] = "find_by_sku" /\ req[c] \in Request
        /\ \A d \in Clients \ {c} : pc'[d] = pc[d]
    BY <1>2 DEF FindBySku
  <2>2. CASE UNCHANGED <<req, doubled>>
    <3>1. pc'[c] \in {"idle", "save"}
      BY <1>2 DEF FindBySku
    <3> QED
      BY <2>1, <2>2, <3>1, QuietStep
  <2>3. ASSUME NEW d \in Clients, pc[d] = "save", pc'[c] = "save",
               req' = [req EXCEPT ![c].id = req[d].id], doubled' = doubled \cup {req[d].id}
        PROVE  LifeInv'
    <3>1. req'[c].id = req[d].id
      BY <2>1, <2>3
    <3>2. \A e \in Clients \ {c} : req'[e] = req[e]
      BY <2>3
    <3>3. req[d].id \in ids \cap doubled'
      BY <2>3
    <3> QED
      BY <2>1, <2>3, <3>1, <3>2, <3>3, QuietStep
  <2>4. UNCHANGED <<req, doubled>> \/ (pc'[c] = "save" /\ Generate(c))
    BY <1>2 DEF FindBySku
  <2> QED
    BY <2>2, <2>3, <2>4 DEF Generate
<1>3. ASSUME NEW c \in Clients, Save(c) PROVE LifeInv'
  <2>1. NewRow(req[c].body) \in Row /\ req[c].id \in Ids
    BY <1>3, NewRowType DEF Save
  <2>2. rows' = [rows EXCEPT ![req[c].id] = NewRow(req[c].body)]
    BY <1>3 DEF Save, Write
  <2>3. \A id \in Ids : rows'[id] # Nothing => id \in ids' /\ (id \in deleted' => id \in doubled')
    BY <1>3, <2>1, <2>2 DEF Save, Insertable, Committed
  <2>4. deleted' \subseteq ids'
    BY <1>3, <2>1, <2>2 DEF Save, Insertable, Committed
  <2>5. \A d \in Clients : pc'[d] \in {"find_by_sku", "save"} =>
          /\ req'[d].id \in ids'
          /\ req'[d].id \in doubled' \/ (rows'[req'[d].id] = Nothing /\ req'[d].id \notin deleted')
    BY <1>3, <2>1, <2>2 DEF Save, Insertable, Committed
  <2>6. \A d, e \in Clients : pc'[d] \in {"find_by_sku", "save"} /\ pc'[e] \in {"find_by_sku", "save"}
                                     /\ req'[d].id = req'[e].id =>
          d = e \/ req'[d].id \in doubled'
    BY <1>3, <2>1, <2>2 DEF Save, Insertable, Committed
  <2>7. \A d \in Clients : pc'[d] = "update" =>
          \/ req'[d].id \in doubled' \cap deleted'
          \/ IF rows'[req'[d].id] # Nothing THEN item'[d].sku = rows'[req'[d].id].sku
                                     ELSE req'[d].id \in deleted'
    BY <1>3, <2>1, <2>2 DEF Save, Insertable, Committed
  <2> QED
    BY <2>3, <2>4, <2>5, <2>6, <2>7
<1>4. ASSUME NEW c \in Clients, Refused(c) PROVE LifeInv'
  <2>1. /\ UNCHANGED <<rows, deleted, ids, item, doubled>>
        /\ \A d \in Clients \ {c} : pc'[d] = pc[d] /\ req'[d] = req[d]
        /\ pc'[c] \notin {"find_by_sku", "save", "update"}
    BY <1>4 DEF Refused, history
  <2> QED
    BY <2>1, QuietStep
<1>5. ASSUME NEW c \in Clients, GetItem(c) PROVE LifeInv'
  <2>1. /\ UNCHANGED <<rows, deleted, ids, item, doubled>>
        /\ \A d \in Clients \ {c} : pc'[d] = pc[d] /\ req'[d] = req[d]
        /\ pc'[c] \notin {"find_by_sku", "save", "update"}
    BY <1>5 DEF GetItem, Receive
  <2> QED
    BY <2>1, QuietStep
<1>6. ASSUME NEW c \in Clients, UpdateItem(c) PROVE LifeInv'
  <2>1. /\ UNCHANGED <<rows, deleted, ids, item, doubled>>
        /\ \A d \in Clients \ {c} : pc'[d] = pc[d] /\ req'[d] = req[d]
        /\ pc'[c] \notin {"find_by_sku", "save", "update"}
    BY <1>6 DEF UpdateItem, Receive, CallOr
  <2> QED
    BY <2>1, QuietStep
<1>7. ASSUME NEW c \in Clients, FindById(c) PROVE LifeInv'
  <2>1. CASE ~Present(req[c].id) \/ NoName(req[c].body.set)
    BY <1>7, <2>1 DEF FindById
  <2>2. CASE Present(req[c].id) /\ ~NoName(req[c].body.set)
    <3>1. item' = [item EXCEPT ![c] = Applied(rows[req[c].id], req[c].body)]
      BY <1>7, <2>2 DEF FindById
    <3>2. item'[c].sku = rows[req[c].id].sku
      BY <3>1 DEF Applied
    <3>3. /\ pc' = [pc EXCEPT ![c] = "update"]
          /\ UNCHANGED <<rows, ids, req, deleted>>
      BY <1>7, <2>2 DEF FindById
    <3> QED
      BY <1>7, <2>2, <3>1, <3>2, <3>3 DEF FindById
  <2> QED
    BY <2>1, <2>2
<1>8. ASSUME NEW c \in Clients, Update(c) PROVE LifeInv'
  <2>1. item[c] \in Row /\ req[c].id \in Ids /\ Nothing \notin Row
    BY <1>8 DEF Update
  <2>2. \/ Present(req[c].id) /\ rows' = [rows EXCEPT ![req[c].id] = item[c]]
        \/ ~Present(req[c].id) /\ rows' = rows
    BY <1>8 DEF Update, Write, Matched
  <2>3. \A id \in Ids : rows'[id] # Nothing => id \in ids' /\ (id \in deleted' => id \in doubled')
    BY <1>8, <2>1, <2>2 DEF Update, Committed, Matched
  <2>4. deleted' \subseteq ids'
    BY <1>8, <2>1, <2>2 DEF Update, Committed, Matched
  <2>5. \A d \in Clients : pc'[d] \in {"find_by_sku", "save"} =>
          /\ req'[d].id \in ids'
          /\ req'[d].id \in doubled' \/ (rows'[req'[d].id] = Nothing /\ req'[d].id \notin deleted')
    BY <1>8, <2>1, <2>2 DEF Update, Committed, Matched
  <2>6. \A d, e \in Clients : pc'[d] \in {"find_by_sku", "save"} /\ pc'[e] \in {"find_by_sku", "save"}
                                     /\ req'[d].id = req'[e].id =>
          d = e \/ req'[d].id \in doubled'
    BY <1>8, <2>1, <2>2 DEF Update, Committed, Matched
  <2>7. \A d \in Clients : pc'[d] = "update" =>
          \/ req'[d].id \in doubled' \cap deleted'
          \/ IF rows'[req'[d].id] # Nothing THEN item'[d].sku = rows'[req'[d].id].sku
                                     ELSE req'[d].id \in deleted'
    BY <1>8, <2>1, <2>2 DEF Update, Committed, Matched
  <2> QED
    BY <2>3, <2>4, <2>5, <2>6, <2>7
<1>9. ASSUME NEW c \in Clients, DeleteItem(c) PROVE LifeInv'
  <2>1. /\ UNCHANGED <<rows, deleted, ids, item, doubled>>
        /\ \A d \in Clients \ {c} : pc'[d] = pc[d] /\ req'[d] = req[d]
        /\ pc'[c] \notin {"find_by_sku", "save", "update"}
    BY <1>9 DEF DeleteItem, Receive
  <2> QED
    BY <2>1, QuietStep
<1>10. ASSUME NEW c \in Clients, FindForRemove(c) PROVE LifeInv'
  <2>1. /\ UNCHANGED <<rows, deleted, ids, item, doubled>>
        /\ \A d \in Clients \ {c} : pc'[d] = pc[d] /\ req'[d] = req[d]
        /\ pc'[c] \notin {"find_by_sku", "save", "update"}
    BY <1>10 DEF FindForRemove, history
  <2> QED
    BY <2>1, QuietStep
<1>11. ASSUME NEW c \in Clients, Remove(c) PROVE LifeInv'
  BY <1>11 DEF Remove, Write, Affected
<1>12. ASSUME NEW c \in Clients, CallFails(c) PROVE LifeInv'
  <2>1. /\ UNCHANGED <<rows, deleted, ids, item, doubled>>
        /\ \A d \in Clients \ {c} : pc'[d] = pc[d] /\ req'[d] = req[d]
        /\ pc'[c] \notin {"find_by_sku", "save", "update"}
    BY <1>12 DEF CallFails, history
  <2> QED
    BY <2>1, QuietStep
<1>13. ASSUME UNCHANGED vars PROVE LifeInv'
  BY <1>13 DEF vars
<1> QED
  BY <1>1, <1>2, <1>3, <1>4, <1>5, <1>6, <1>7, <1>8, <1>9, <1>10, <1>11, <1>12, <1>13 DEF Next,
     Terminated

\* A deleted item stays deleted, however stale the update that overlaps the
\* deletion, unless two creations had drawn its id.
THEOREM NothingComesBack == Spec => []NoResurrection
<1>1. TypeInv /\ LifeInv => NoResurrection
  BY DEF LifeInv, NoResurrection, TypeInv, TypeOK
<1> QED
  BY <1>1, InitTypeInv, NextTypeInv, InitLifeInv, NextLifeInv, PTL DEF Spec

LEMMA SkuStep ==
  TypeInv /\ LifeInv /\ [Next]_vars =>
    \A id \in Ids : rows[id] # Nothing /\ rows'[id] # Nothing =>
      rows'[id].sku = rows[id].sku \/ id \in doubled \cap deleted
<1> SUFFICES ASSUME TypeInv, LifeInv, [Next]_vars, NEW id \in Ids,
                    rows[id] # Nothing, rows'[id] # Nothing
             PROVE  rows'[id].sku = rows[id].sku \/ id \in doubled \cap deleted
  OBVIOUS
<1> USE DEF TypeInv, TypeOK, HandlerInv, LifeInv, Creating, Present, Request, At
<1>1. ASSUME NEW c \in Clients, CreateItem(c) PROVE rows'[id].sku = rows[id].sku \/ id \in doubled \cap deleted
  BY <1>1 DEF CreateItem, Receive, CallOr
<1>2. ASSUME NEW c \in Clients, FindBySku(c) PROVE rows'[id].sku = rows[id].sku \/ id \in doubled \cap deleted
  BY <1>2 DEF FindBySku, history
<1>3. ASSUME NEW c \in Clients, Save(c) PROVE rows'[id].sku = rows[id].sku \/ id \in doubled \cap deleted
  BY <1>3 DEF Save, Insertable, Write, Committed, NewRow
<1>4. ASSUME NEW c \in Clients, Refused(c) PROVE rows'[id].sku = rows[id].sku \/ id \in doubled \cap deleted
  BY <1>4 DEF Refused, history
<1>5. ASSUME NEW c \in Clients, GetItem(c) PROVE rows'[id].sku = rows[id].sku \/ id \in doubled \cap deleted
  BY <1>5 DEF GetItem, Receive
<1>6. ASSUME NEW c \in Clients, UpdateItem(c) PROVE rows'[id].sku = rows[id].sku \/ id \in doubled \cap deleted
  BY <1>6 DEF UpdateItem, Receive, CallOr
<1>7. ASSUME NEW c \in Clients, FindById(c) PROVE rows'[id].sku = rows[id].sku \/ id \in doubled \cap deleted
  BY <1>7 DEF FindById, Applied
<1>8. ASSUME NEW c \in Clients, Update(c) PROVE rows'[id].sku = rows[id].sku \/ id \in doubled \cap deleted
  BY <1>8 DEF Update, Write, Committed, Matched
<1>9. ASSUME NEW c \in Clients, DeleteItem(c) PROVE rows'[id].sku = rows[id].sku \/ id \in doubled \cap deleted
  BY <1>9 DEF DeleteItem, Receive
<1>10. ASSUME NEW c \in Clients, FindForRemove(c) PROVE rows'[id].sku = rows[id].sku \/ id \in doubled \cap deleted
  BY <1>10 DEF FindForRemove, history
<1>11. ASSUME NEW c \in Clients, Remove(c) PROVE rows'[id].sku = rows[id].sku \/ id \in doubled \cap deleted
  BY <1>11 DEF Remove, Write, Affected
<1>12. ASSUME NEW c \in Clients, CallFails(c) PROVE rows'[id].sku = rows[id].sku \/ id \in doubled \cap deleted
  BY <1>12 DEF CallFails, history
<1>13. ASSUME UNCHANGED vars PROVE rows'[id].sku = rows[id].sku \/ id \in doubled \cap deleted
  BY <1>13 DEF vars
<1> QED
  BY <1>1, <1>2, <1>3, <1>4, <1>5, <1>6, <1>7, <1>8, <1>9, <1>10, <1>11, <1>12, <1>13 DEF Next,
     Terminated

\* An item keeps the SKU it was created with, also when its id is drawn twice.
THEOREM SkuIsFixed == Spec => SkuNeverChanges
<1>1. TypeInv /\ LifeInv /\ [Next]_vars =>
        [\A id \in Ids : rows[id] # Nothing /\ rows'[id] # Nothing
                           => rows'[id].sku = rows[id].sku \/ id \in doubled \cap deleted]_vars
  BY SkuStep
<1> QED
  BY <1>1, InitTypeInv, NextTypeInv, InitLifeInv, NextLifeInv, PTL DEF Spec, SkuNeverChanges

--------------------------------------------------------------------------------
(* What the UNIQUE constraint and the affected-rows check are needed for      *)

LEMMA InitSkuUnique == Init => SkuUnique
  BY InitTablesAssumption DEF Init, SkuUnique, Present

LEMMA NextSkuUnique == TypeInv /\ SkuUnique /\ [Next]_vars => SkuUnique'
<1> SUFFICES ASSUME TypeInv, SkuUnique, [Next]_vars PROVE SkuUnique'
  OBVIOUS
<1> USE DEF TypeInv, TypeOK, HandlerInv, SkuUnique, Present, Request, At
<1>1. ASSUME NEW c \in Clients, CreateItem(c) PROVE SkuUnique'
  BY <1>1 DEF CreateItem, Receive, CallOr
<1>2. ASSUME NEW c \in Clients, FindBySku(c) PROVE SkuUnique'
  BY <1>2 DEF FindBySku, history
<1>3. ASSUME NEW c \in Clients, Save(c) PROVE SkuUnique'
  BY <1>3 DEF Save, Insertable, Write, Committed, NewRow, Storable
<1>4. ASSUME NEW c \in Clients, Refused(c) PROVE SkuUnique'
  BY <1>4 DEF Refused, history
<1>5. ASSUME NEW c \in Clients, GetItem(c) PROVE SkuUnique'
  BY <1>5 DEF GetItem, Receive
<1>6. ASSUME NEW c \in Clients, UpdateItem(c) PROVE SkuUnique'
  BY <1>6 DEF UpdateItem, Receive, CallOr
<1>7. ASSUME NEW c \in Clients, FindById(c) PROVE SkuUnique'
  BY <1>7 DEF FindById, Applied
<1>8. ASSUME NEW c \in Clients, Update(c) PROVE SkuUnique'
  BY <1>8 DEF Update, Write, Committed, Matched, Storable
<1>9. ASSUME NEW c \in Clients, DeleteItem(c) PROVE SkuUnique'
  BY <1>9 DEF DeleteItem, Receive
<1>10. ASSUME NEW c \in Clients, FindForRemove(c) PROVE SkuUnique'
  BY <1>10 DEF FindForRemove, history
<1>11. ASSUME NEW c \in Clients, Remove(c) PROVE SkuUnique'
  BY <1>11 DEF Remove, Write, Affected
<1>12. ASSUME NEW c \in Clients, CallFails(c) PROVE SkuUnique'
  BY <1>12 DEF CallFails, history
<1>13. ASSUME UNCHANGED vars PROVE SkuUnique'
  BY <1>13 DEF vars
<1> QED
  BY <1>1, <1>2, <1>3, <1>4, <1>5, <1>6, <1>7, <1>8, <1>9, <1>10, <1>11, <1>12, <1>13 DEF Next,
     Terminated

\* One item for each SKU, though creates check and insert in two transactions.
THEOREM SkusAreUnique == Spec => []SkuUnique
  BY InitTypeInv, NextTypeInv, InitSkuUnique, NextSkuUnique, PTL DEF Spec

LEMMA InitDeletedOnce == Init => DeletedOnce
  BY DEF Init, DeletedOnce

LEMMA NextDeletedOnce == TypeInv /\ LifeInv /\ DeletedOnce /\ [Next]_vars => DeletedOnce'
<1> SUFFICES ASSUME TypeInv, LifeInv, DeletedOnce, [Next]_vars PROVE DeletedOnce'
  OBVIOUS
<1> USE DEF TypeInv, TypeOK, HandlerInv, LifeInv, DeletedOnce, Present, Request, At
<1>1. ASSUME NEW c \in Clients, CreateItem(c) PROVE DeletedOnce'
  BY <1>1 DEF CreateItem, Receive, CallOr
<1>2. ASSUME NEW c \in Clients, FindBySku(c) PROVE DeletedOnce'
  BY <1>2 DEF FindBySku, Generate
<1>3. ASSUME NEW c \in Clients, Save(c) PROVE DeletedOnce'
  BY <1>3 DEF Save, Write, Committed, NewRow
<1>4. ASSUME NEW c \in Clients, Refused(c) PROVE DeletedOnce'
  BY <1>4 DEF Refused, history
<1>5. ASSUME NEW c \in Clients, GetItem(c) PROVE DeletedOnce'
  BY <1>5 DEF GetItem, Receive
<1>6. ASSUME NEW c \in Clients, UpdateItem(c) PROVE DeletedOnce'
  BY <1>6 DEF UpdateItem, Receive, CallOr
<1>7. ASSUME NEW c \in Clients, FindById(c) PROVE DeletedOnce'
  BY <1>7 DEF FindById, Applied
<1>8. ASSUME NEW c \in Clients, Update(c) PROVE DeletedOnce'
  BY <1>8 DEF Update, Write, Committed, Matched
<1>9. ASSUME NEW c \in Clients, DeleteItem(c) PROVE DeletedOnce'
  BY <1>9 DEF DeleteItem, Receive
<1>10. ASSUME NEW c \in Clients, FindForRemove(c) PROVE DeletedOnce'
  BY <1>10 DEF FindForRemove, history
<1>11. ASSUME NEW c \in Clients, Remove(c) PROVE DeletedOnce'
  BY <1>11 DEF Remove, Write, Affected
<1>12. ASSUME NEW c \in Clients, CallFails(c) PROVE DeletedOnce'
  BY <1>12 DEF CallFails, history
<1>13. ASSUME UNCHANGED vars PROVE DeletedOnce'
  BY <1>13 DEF vars
<1> QED
  BY <1>1, <1>2, <1>3, <1>4, <1>5, <1>6, <1>7, <1>8, <1>9, <1>10, <1>11, <1>12, <1>13 DEF Next,
     Terminated

\* Of the clients that delete an item with an id of its own, at most one is told
\* that it did.
THEOREM OneDeletionIsAcknowledged == Spec => []DeletedOnce
  BY InitTypeInv, NextTypeInv, InitLifeInv, NextLifeInv, InitDeletedOnce, NextDeletedOnce,
     PTL DEF Spec

--------------------------------------------------------------------------------
(* Answers.  A handler that has not answered has not written: each handler    *)
(* writes at most once and answers in the same step.                          *)

TruthInv == /\ AnswersTellTheTruth
            /\ \A c \in Clients : pc[c] # "idle" => ~wrote[c]

LEMMA InitTruthInv == Init => TruthInv
  BY DEF Init, TruthInv, AnswersTellTheTruth

LEMMA NextTruthInv == TypeInv /\ LifeInv /\ TruthInv /\ [Next]_vars => TruthInv'
<1> SUFFICES ASSUME TypeInv, LifeInv, TruthInv, [Next]_vars PROVE TruthInv'
  OBVIOUS
<1> USE IdsAssumption
       DEF TypeInv, TypeOK, HandlerInv, TruthInv, AnswersTellTheTruth, Present, Request,
           At, Call, Reply
<1>1. ASSUME NEW c \in Clients, CreateItem(c) PROVE TruthInv'
  BY <1>1 DEF CreateItem, Receive, CallOr, CreateCheck
<1>2. ASSUME NEW c \in Clients, FindBySku(c) PROVE TruthInv'
  BY <1>2 DEF FindBySku, Generate
<1>3. ASSUME NEW c \in Clients, Save(c) PROVE TruthInv'
  BY <1>3, NewRowType DEF Save, Write, Committed, NewRow
<1>4. ASSUME NEW c \in Clients, Refused(c) PROVE TruthInv'
  BY <1>4 DEF Refused, history
<1>5. ASSUME NEW c \in Clients, GetItem(c) PROVE TruthInv'
  BY <1>5 DEF GetItem, Receive
<1>6. ASSUME NEW c \in Clients, UpdateItem(c) PROVE TruthInv'
  BY <1>6 DEF UpdateItem, Receive, CallOr, UpdateCheck
<1>7. ASSUME NEW c \in Clients, FindById(c) PROVE TruthInv'
  BY <1>7 DEF FindById, Applied
<1>8. ASSUME NEW c \in Clients, Update(c) PROVE TruthInv'
  BY <1>8 DEF Update, Write, Committed, Matched
<1>9. ASSUME NEW c \in Clients, DeleteItem(c) PROVE TruthInv'
  BY <1>9 DEF DeleteItem, Receive
<1>10. ASSUME NEW c \in Clients, FindForRemove(c) PROVE TruthInv'
  BY <1>10 DEF FindForRemove, history
<1>11. ASSUME NEW c \in Clients, Remove(c) PROVE TruthInv'
  BY <1>11 DEF Remove, Write, Affected
<1>12. ASSUME NEW c \in Clients, CallFails(c) PROVE TruthInv'
  BY <1>12 DEF CallFails, history
<1>13. ASSUME UNCHANGED vars PROVE TruthInv'
  BY <1>13 DEF vars
<1> QED
  BY <1>1, <1>2, <1>3, <1>4, <1>5, <1>6, <1>7, <1>8, <1>9, <1>10, <1>11, <1>12, <1>13 DEF Next,
     Terminated

\* A client that is told of success has it, one that is told of its own error
\* has changed nothing.
THEOREM AnswersAreTrue == Spec => []AnswersTellTheTruth
<1>1. TruthInv => AnswersTellTheTruth
  BY DEF TruthInv
<1> QED
  BY <1>1, InitTypeInv, NextTypeInv, InitLifeInv, NextLifeInv, InitTruthInv, NextTruthInv,
     PTL DEF Spec

--------------------------------------------------------------------------------
(* The item an update writes is what it read with the body applied, and a row *)
(* whose version has not moved is still what it read.                         *)

VersionInv ==
  \A c \in Clients : pc[c] = "update" =>
    /\ base[c] <= ver[req[c].id]
    /\ base[c] = ver[req[c].id] => item[c] = Applied(rows[req[c].id], req[c].body)

LEMMA InitVersionInv == Init => VersionInv
  BY DEF Init, VersionInv

LEMMA NextVersionInv == TypeInv /\ VersionInv /\ [Next]_vars => VersionInv'
<1> SUFFICES ASSUME TypeInv, VersionInv, [Next]_vars PROVE VersionInv'
  OBVIOUS
<1> USE DEF TypeInv, TypeOK, HandlerInv, VersionInv, Present, Request, At, Call, Reply
<1>1. ASSUME NEW c \in Clients, CreateItem(c) PROVE VersionInv'
  BY <1>1 DEF CreateItem, Receive, CallOr
<1>2. ASSUME NEW c \in Clients, FindBySku(c) PROVE VersionInv'
  BY <1>2 DEF FindBySku, Generate
<1>3. ASSUME NEW c \in Clients, Save(c) PROVE VersionInv'
  BY <1>3 DEF Save, Write, Committed, NewRow
<1>4. ASSUME NEW c \in Clients, Refused(c) PROVE VersionInv'
  BY <1>4 DEF Refused, history
<1>5. ASSUME NEW c \in Clients, GetItem(c) PROVE VersionInv'
  BY <1>5 DEF GetItem, Receive
<1>6. ASSUME NEW c \in Clients, UpdateItem(c) PROVE VersionInv'
  BY <1>6 DEF UpdateItem, Receive, CallOr
<1>7. ASSUME NEW c \in Clients, FindById(c) PROVE VersionInv'
  BY <1>7 DEF FindById
<1>8. ASSUME NEW c \in Clients, Update(c) PROVE VersionInv'
  BY <1>8 DEF Update, Write, Committed, Matched
<1>9. ASSUME NEW c \in Clients, DeleteItem(c) PROVE VersionInv'
  BY <1>9 DEF DeleteItem, Receive
<1>10. ASSUME NEW c \in Clients, FindForRemove(c) PROVE VersionInv'
  BY <1>10 DEF FindForRemove, history
<1>11. ASSUME NEW c \in Clients, Remove(c) PROVE VersionInv'
  BY <1>11 DEF Remove, Write, Affected
<1>12. ASSUME NEW c \in Clients, CallFails(c) PROVE VersionInv'
  BY <1>12 DEF CallFails, history
<1>13. ASSUME UNCHANGED vars PROVE VersionInv'
  BY <1>13 DEF vars
<1> QED
  BY <1>1, <1>2, <1>3, <1>4, <1>5, <1>6, <1>7, <1>8, <1>9, <1>10, <1>11, <1>12, <1>13 DEF Next,
     Terminated

\* What the body of an update does not name keeps its value, unless another write of
\* the row is committed between the update's read and its write.
THEOREM UncontendedUpdates == Spec => []UncontendedUpdateIsPartial
<1>1. VersionInv => UncontendedUpdateIsPartial
  <2> SUFFICES ASSUME NEW c \in Clients, NEW f \in Fields \ DOMAIN req[c].body.set,
                      item[c] = Applied(rows[req[c].id], req[c].body)
               PROVE  item[c].data[f] = rows[req[c].id].data[f]
    BY DEF VersionInv, UncontendedUpdateIsPartial, At
  <2> QED
    BY DEF Applied, Decoded
<1> QED
  BY <1>1, InitTypeInv, NextTypeInv, InitVersionInv, NextVersionInv, PTL DEF Spec

--------------------------------------------------------------------------------
(* What is stored is valid: each write stores a body that was checked, merged *)
(* into an item that was valid when it was read.                              *)

ValidInv ==
  /\ StoredItemsValid
  /\ \A c \in Clients : pc[c] = "update" =>
       /\ \A f \in {"price", "stock"} : item[c].data[f] >= 0
       /\ item[c].data["name"] # EmptyName

LEMMA NewRowValid ==
  ASSUME NEW b \in CreateBodies, CreateCheck(b) = 0
  PROVE  /\ \A f \in {"price", "stock"} : NewRow(b).data[f] >= 0
         /\ NewRow(b).data["name"] # EmptyName
<1>1. ~NegativeAmount(b.set) /\ ~NoName(b.set) /\ DOMAIN b.set = Fields \ {"status"}
  BY BodiesAssumption DEF CreateCheck
<1>2. \A f \in {"price", "stock"} : b.set[f] \in Int /\ ~(b.set[f] < 0)
  BY <1>1, BodiesAssumption DEF NegativeAmount, Amounts, Fields, IsBody
<1>3. b.set["name"] # EmptyName
  BY <1>1 DEF NoName, Fields
<1> QED
  BY <1>2, <1>3 DEF NewRow, Fields

LEMMA AppliedValid ==
  ASSUME NEW row \in Row, NEW b \in UpdateBodies, UpdateCheck(b) = 0, ~NoName(b.set),
         \A f \in {"price", "stock"} : row.data[f] >= 0,
         row.data["name"] # EmptyName
  PROVE  /\ \A f \in {"price", "stock"} : Applied(row, b).data[f] >= 0
         /\ Applied(row, b).data["name"] # EmptyName
<1>1. ~NegativeAmount(b.set)
  BY DEF UpdateCheck
<1>2. \A f \in {"price", "stock"} : f \in Decoded(b) => b.set[f] >= 0
  BY <1>1, BodiesAssumption DEF NegativeAmount, Amounts, Decoded, IsBody
<1>3. "name" \in Decoded(b) => b.set["name"] # EmptyName
  BY DEF NoName, Decoded
<1> QED
  BY <1>2, <1>3 DEF Applied, Fields

LEMMA InitValidInv == Init => ValidInv
  BY InitTablesAssumption DEF Init, ValidInv, StoredItemsValid, Present

LEMMA NextValidInv == TypeInv /\ ValidInv /\ [Next]_vars => ValidInv'
<1> SUFFICES ASSUME TypeInv, ValidInv, [Next]_vars PROVE ValidInv'
  OBVIOUS
<1> USE IdsAssumption
       DEF TypeInv, TypeOK, HandlerInv, ValidInv, StoredItemsValid, Present, Request,
           At, Call, Reply
<1>1. ASSUME NEW c \in Clients, CreateItem(c) PROVE ValidInv'
  BY <1>1 DEF CreateItem, Receive, CallOr
<1>2. ASSUME NEW c \in Clients, FindBySku(c) PROVE ValidInv'
  BY <1>2 DEF FindBySku, Generate
<1>3. ASSUME NEW c \in Clients, Save(c) PROVE ValidInv'
  <2> DEFINE row == NewRow(req[c].body)
  <2>1. /\ \A f \in {"price", "stock"} : row.data[f] >= 0
        /\ row.data["name"] # EmptyName
        /\ row.data["category"] \in Categories
    BY <1>3, NewRowValid DEF Save, Insertable, Storable
  <2>2. rows' = [rows EXCEPT ![req[c].id] = row]
    BY <1>3 DEF Save, Write
  <2>3. item' = item /\ pc' = [pc EXCEPT ![c] = "idle"]
    BY <1>3 DEF Save, Committed
  <2> HIDE DEF row
  <2> QED
    BY <2>1, <2>2, <2>3
<1>4. ASSUME NEW c \in Clients, Refused(c) PROVE ValidInv'
  BY <1>4 DEF Refused, history
<1>5. ASSUME NEW c \in Clients, GetItem(c) PROVE ValidInv'
  BY <1>5 DEF GetItem, Receive
<1>6. ASSUME NEW c \in Clients, UpdateItem(c) PROVE ValidInv'
  BY <1>6 DEF UpdateItem, Receive, CallOr
<1>7. ASSUME NEW c \in Clients, FindById(c) PROVE ValidInv'
  <2>1. CASE ~Present(req[c].id) \/ NoName(req[c].body.set)
    BY <1>7, <2>1 DEF FindById
  <2>2. CASE Present(req[c].id) /\ ~NoName(req[c].body.set)
    <3> DEFINE new == Applied(rows[req[c].id], req[c].body)
    <3>1. /\ \A f \in {"price", "stock"} : new.data[f] >= 0
          /\ new.data["name"] # EmptyName
      <4>1. rows[req[c].id] \in Row /\ rows[req[c].id] # Nothing /\ req[c].id \in Ids
        BY <1>7, <2>2 DEF FindById
      <4>2. /\ \A f \in {"price", "stock"} : rows[req[c].id].data[f] >= 0
            /\ rows[req[c].id].data["name"] # EmptyName
        BY <4>1
      <4>3. req[c].body \in UpdateBodies /\ UpdateCheck(req[c].body) = 0
        BY <1>7 DEF FindById
      <4> QED
        BY <2>2, <4>1, <4>2, <4>3, AppliedValid
    <3>2. /\ item' = [item EXCEPT ![c] = new]
          /\ pc' = [pc EXCEPT ![c] = "update"]
          /\ rows' = rows
      BY <1>7, <2>2 DEF FindById
    <3> HIDE DEF new
    <3>3. \A d \in Clients : pc'[d] = "update" =>
            /\ \A f \in {"price", "stock"} : item'[d].data[f] >= 0
            /\ item'[d].data["name"] # EmptyName
      BY <3>1, <3>2
    <3> QED
      BY <3>2, <3>3
  <2> QED
    BY <2>1, <2>2
<1>8. ASSUME NEW c \in Clients, Update(c) PROVE ValidInv'
  BY <1>8 DEF Update, Write, Committed, Matched, Storable
<1>9. ASSUME NEW c \in Clients, DeleteItem(c) PROVE ValidInv'
  BY <1>9 DEF DeleteItem, Receive
<1>10. ASSUME NEW c \in Clients, FindForRemove(c) PROVE ValidInv'
  BY <1>10 DEF FindForRemove, history
<1>11. ASSUME NEW c \in Clients, Remove(c) PROVE ValidInv'
  BY <1>11 DEF Remove, Write, Affected
<1>12. ASSUME NEW c \in Clients, CallFails(c) PROVE ValidInv'
  BY <1>12 DEF CallFails, history
<1>13. ASSUME UNCHANGED vars PROVE ValidInv'
  BY <1>13 DEF vars
<1> QED
  BY <1>1, <1>2, <1>3, <1>4, <1>5, <1>6, <1>7, <1>8, <1>9, <1>10, <1>11, <1>12, <1>13 DEF Next,
     Terminated

\* Every stored item is valid, though the table does not demand it and a stale
\* item is written back whole.
THEOREM StoredItemsAreValid == Spec => []StoredItemsValid
<1>1. ValidInv => StoredItemsValid
  BY DEF ValidInv
<1> QED
  BY <1>1, InitTypeInv, NextTypeInv, InitValidInv, NextValidInv, PTL DEF Spec

--------------------------------------------------------------------------------
(* The item API implements its contract: what a step of a handler is to its    *)
(* client.  The model's operators and the contract's say the same in different *)
(* words; the lemmas relate them.                                              *)

LEMMA FaultyBody ==
  ASSUME NEW b
  PROVE  Store!Faulty(b) <=> b.sku = EmptySku \/ NoName(b.set) \/ NegativeAmount(b.set)
<1>1. NoName(b.set) <=> "name" \in DOMAIN b.set /\ b.set["name"] = EmptyName
  BY DEF NoName
<1>2. NegativeAmount(b.set) <=> \E f \in {"price", "stock"} \cap DOMAIN b.set : b.set[f] < 0
  BY DEF NegativeAmount, Amounts
<1> QED
  BY <1>1, <1>2, Zenon DEF Store!Faulty

\* A body passes the controller's checks exactly if it is acceptable.
LEMMA CheckedCreate ==
  ASSUME NEW b \in CreateBodies
  PROVE  /\ CreateCheck(b) = 0 => b.sku # Absent /\ ~Store!Faulty(b) /\ Store!Made(b) = NewRow(b)
         /\ CreateCheck(b) # 0 =>
              \/ CreateCheck(b) = 400 /\ b.sku = Absent
              \/ CreateCheck(b) = 422 /\ Store!Faulty(b)
<1>1. /\ DOMAIN b.set = Fields \ {"status"}
      /\ b.sku \in Skus \cup {EmptySku, Absent}
  BY BodiesAssumption DEF IsBody
<1>2. Store!Made(b) = NewRow(b)
  BY <1>1 DEF Store!Made, NewRow
<1> QED
  BY <1>2, FaultyBody DEF CreateCheck

LEMMA CheckedUpdate ==
  ASSUME NEW b \in UpdateBodies
  PROVE  /\ UpdateCheck(b) = 0 => b.sku # Absent /\ (NoName(b.set) <=> Store!Faulty(b))
         /\ UpdateCheck(b) # 0 =>
              \/ UpdateCheck(b) = 400 /\ b.sku = Absent
              \/ UpdateCheck(b) = 422 /\ Store!Faulty(b)
  BY FaultyBody DEF UpdateCheck

LEMMA DraftIsPatched ==
  ASSUME NEW row, NEW b
  PROVE  Store!Patched(row, b) = Applied(row, b)
  BY DEF Store!Patched, Applied, Decoded

LEMMA RoomForIt ==
  ASSUME NEW id, NEW row
  PROVE  Storable(id, row) <=> Store!Fits(id, row)
  BY DEF Storable, Store!Fits, Present, Store!Present

\* What the mapped variables do when one client's handler moves.
LEMMA MapStage ==
  ASSUME TypeInv, NEW c \in Clients, NEW place \in Places, pc' = [pc EXCEPT ![c] = place]
  PROVE  Stage' = [Stage EXCEPT ![c] = StageOf(place)]
  BY DEF TypeInv, TypeOK, Stage

LEMMA MapAsked ==
  ASSUME TypeOK, NEW c \in Clients, NEW r, req' = [req EXCEPT ![c] = r]
  PROVE  Asked' = [Asked EXCEPT ![c] = AsAsked(r)]
  BY DEF TypeOK, Asked

LEMMA MapRequest ==
  ASSUME NEW r \in Request
  PROVE  /\ AsAsked(r).op = r.op
         /\ AsAsked(r).body = r.body
         /\ r.op # "create" => AsAsked(r).target = r.id
         /\ r.op = "create" => AsAsked(r).target = Nothing
  BY IdsAssumption DEF AsAsked

LEMMA StageValues ==
  /\ StageOf("idle") = "idle" /\ StageOf("update") = "drafted"
  /\ \A place \in {"find_by_sku", "save", "find_by_id", "find_for_remove", "remove"} :
       StageOf(place) = "asked"
  BY DEF StageOf

\* The request a handler serves, as its client sees it.
LEMMA ServedRequest ==
  ASSUME TypeInv, NEW c \in Clients, pc[c] # "idle"
  PROVE  /\ req[c] \in Request
         /\ Asked[c] = AsAsked(req[c])
         /\ Stage[c] # "idle"
         /\ pc[c] = "update" => Stage[c] = "drafted"
         /\ pc[c] # "update" => Stage[c] = "asked"
BY StageValues DEF TypeInv, TypeOK, HandlerInv, Asked, Stage, Places

LEMMA MapReply ==
  ASSUME TypeInv, NEW c \in Clients, NEW status, Reply(c, status)
  PROVE  Stage' = [Stage EXCEPT ![c] = "idle"]
<1>1. "idle" \in Places /\ pc' = [pc EXCEPT ![c] = "idle"]
  BY DEF Places, Reply
<1>2. Stage' = [Stage EXCEPT ![c] = StageOf("idle")]
  BY <1>1, MapStage
<1> QED
  BY <1>2, StageValues

\* A handler answers, with one of the effects that the contract allows.
LEMMA AnswerStep ==
  ASSUME TypeInv, NEW c \in Clients, pc[c] # "idle", UNCHANGED <<req, item>>,
         NEW status \in Store!Answers, Reply(c, status),
         Store!Effect(c, Asked[c], status)
  PROVE  Store!Serve(c)
<1>1. Stage' = [Stage EXCEPT ![c] = "idle"]
  BY MapReply
<1>2. Asked' = Asked
  BY DEF Asked
<1>3. answer' = [answer EXCEPT ![c] = status]
  BY DEF Reply
<1>4. Store!Answer(c, Asked[c])
  BY <1>1, <1>3 DEF Store!Answer
<1> QED
  BY <1>2, <1>4, ServedRequest DEF Store!Serve

\* A request is answered as it arrives.
LEMMA AnswerAtOnce ==
  ASSUME TypeInv, NEW c \in Clients, NEW op, NEW id, NEW body, Receive(c, op, id, body),
         NEW status \in Store!Answers, Reply(c, status),
         NEW r \in Store!Requests, r = AsAsked([op |-> op, id |-> id, body |-> body]),
         Store!Told(r, status)
  PROVE  Store!ServeAtOnce(c)
<1>1. Asked' = [Asked EXCEPT ![c] = r]
  BY MapAsked DEF Receive, TypeInv
<1>2. Stage' = [Stage EXCEPT ![c] = "idle"]
  BY MapReply
<1>3. Store!Answer(c, r)
  <2>1. item' = item /\ answer' = [answer EXCEPT ![c] = status]
    BY DEF Receive, Reply
  <2>2. Store!Effect(c, r, status)
    BY DEF Store!Effect, Receive
  <2> QED
    BY <1>2, <2>1, <2>2 DEF Store!Answer
<1>4. Stage[c] = "idle"
  BY StageValues DEF Receive, At, Stage
<1> QED
  BY <1>1, <1>3, <1>4 DEF Store!ServeAtOnce

\* A request arrives, and its handler goes on to a repository call.
LEMMA ArrivalStep ==
  ASSUME TypeInv, NEW c \in Clients, NEW op, NEW id, NEW body, Receive(c, op, id, body),
         NEW place \in {"find_by_sku", "find_by_id", "find_for_remove"}, Call(c, place),
         NEW r \in Store!Requests, r = AsAsked([op |-> op, id |-> id, body |-> body])
  PROVE  Store!Ask(c)
<1>1. Asked' = [Asked EXCEPT ![c] = r]
  BY MapAsked DEF Receive, TypeInv
<1>2. Stage' = [Stage EXCEPT ![c] = "asked"]
  <2>1. place \in Places /\ pc' = [pc EXCEPT ![c] = place] /\ StageOf(place) = "asked"
    BY StageValues DEF Places, Call
  <2> QED
    BY <2>1, MapStage
<1>3. Stage[c] = "idle"
  BY StageValues DEF Receive, At, Stage
<1> QED
  BY <1>1, <1>2, <1>3 DEF Store!Ask, Receive, Call

\* A handler goes from one call to the next and nobody notices.
LEMMA SilentStep ==
  ASSUME TypeInv, NEW c \in Clients, Call(c, IF pc[c] = "find_by_sku" THEN "save" ELSE "remove"),
         pc[c] \in {"find_by_sku", "find_for_remove"}, Asked' = Asked, UNCHANGED <<rows, item>>
  PROVE  UNCHANGED Store!storeVars
<1>1. Stage' = [Stage EXCEPT ![c] = "asked"]
  <2> DEFINE place == IF pc[c] = "find_by_sku" THEN "save" ELSE "remove"
  <2>1. place \in Places /\ pc' = [pc EXCEPT ![c] = place] /\ StageOf(place) = "asked"
    BY StageValues DEF Places, Call
  <2> HIDE DEF place
  <2> QED
    BY <2>1, MapStage
<1>2. Stage[c] = "asked"
  BY StageValues DEF Stage
<1>3. Stage' = Stage
  BY <1>1, <1>2 DEF Stage
<1> QED
  BY <1>3 DEF Call, Store!storeVars

LEMMA InitStore == Init => Store!StoreInit
<1> SUFFICES ASSUME Init PROVE Store!StoreInit
  OBVIOUS
<1>1. \A id \in Ids : Store!Present(id) => Store!Fits(id, rows[id])
  BY InitTablesAssumption DEF Init, Store!Present, Store!Fits
<1>2. Stage = [c \in Clients |-> "idle"]
  BY StageValues DEF Init, Stage
<1>3. Asked = [c \in Clients |-> Nothing]
  BY DEF Init, Asked, AsAsked
<1> QED
  BY <1>1, <1>2, <1>3 DEF Init, Store!StoreInit

\* Requests of the contract, as the handlers receive them.
LEMMA Received ==
  ASSUME NEW id \in Ids
  PROVE  /\ \A b \in CreateBodies :
              AsAsked([op |-> "create", id |-> id, body |-> b]) \in Store!Requests
         /\ \A b \in UpdateBodies :
              AsAsked([op |-> "update", id |-> id, body |-> b]) \in Store!Requests
         /\ AsAsked([op |-> "get", id |-> id, body |-> NoBody]) \in Store!Requests
         /\ AsAsked([op |-> "remove", id |-> id, body |-> NoBody]) \in Store!Requests
<1>1. \A op \in {"create", "get", "update", "remove"}, b \in Bodies :
        /\ [op |-> op, id |-> id, body |-> b] \in Request
        /\ [op |-> op, id |-> id, body |-> b] # Nothing
  BY IdsAssumption DEF Request
<1>2. NoBody \in Bodies /\ CreateBodies \subseteq Bodies /\ UpdateBodies \subseteq Bodies
  BY DEF Bodies
<1>3. \A b \in CreateBodies :
        AsAsked([op |-> "create", id |-> id, body |-> b]) \in Store!Requests
  BY <1>1, <1>2 DEF AsAsked, Store!Requests
<1>4. \A b \in UpdateBodies :
        AsAsked([op |-> "update", id |-> id, body |-> b]) \in Store!Requests
  BY <1>1, <1>2 DEF AsAsked, Store!Requests
<1>5. /\ AsAsked([op |-> "get", id |-> id, body |-> NoBody]) \in Store!Requests
      /\ AsAsked([op |-> "remove", id |-> id, body |-> NoBody]) \in Store!Requests
  BY <1>1, <1>2 DEF AsAsked, Store!Requests
<1> QED
  BY <1>3, <1>4, <1>5

LEMMA ReceivedParts ==
  ASSUME NEW id \in Ids, NEW op \in {"create", "get", "update", "remove"}, NEW b \in Bodies,
         NEW r, r = AsAsked([op |-> op, id |-> id, body |-> b])
  PROVE  r.op = op /\ r.body = b /\ (op # "create" => r.target = id)
<1>1. [op |-> op, id |-> id, body |-> b] \in Request
  BY DEF Request
<1> QED
  BY <1>1, MapRequest

LEMMA ArrivingCreate ==
  ASSUME TypeInv, NEW c \in Clients, CreateItem(c)
  PROVE  Store!Ask(c) \/ Store!ServeAtOnce(c)
<1>1. PICK b \in CreateBodies, id \in Ids :
        /\ Receive(c, "create", id, b)
        /\ CallOr(c, CreateCheck(b), "find_by_sku")
  BY DEF CreateItem
<1> DEFINE r == AsAsked([op |-> "create", id |-> id, body |-> b])
<1>2. r \in Store!Requests /\ r.op = "create" /\ r.body = b
  <2>1. b \in Bodies
    BY DEF Bodies
  <2>2. r \in Store!Requests
    BY Received
  <2>3. r.op = "create" /\ r.body = b
    BY <2>1, ReceivedParts
  <2> QED
    BY <2>2, <2>3
<1>3. CASE CreateCheck(b) = 0
  <2>1. Call(c, "find_by_sku")
    BY <1>1, <1>3 DEF CallOr
  <2> QED
    BY <1>1, <1>2, <2>1, ArrivalStep
<1>4. CASE CreateCheck(b) # 0
  <2>1. Reply(c, CreateCheck(b)) /\ CreateCheck(b) \in Store!Answers
    BY <1>1, <1>4 DEF CallOr, CreateCheck, Store!Answers
  <2>2. Store!Told(r, CreateCheck(b))
    BY <1>2, <1>4, CheckedCreate DEF Store!Told, Store!Incomplete
  <2> QED
    BY <1>1, <1>2, <2>1, <2>2, AnswerAtOnce
<1> QED
  BY <1>3, <1>4

LEMMA ArrivingUpdate ==
  ASSUME TypeInv, NEW c \in Clients, UpdateItem(c)
  PROVE  Store!Ask(c) \/ Store!ServeAtOnce(c)
<1>1. PICK b \in UpdateBodies, id \in Ids :
        /\ Receive(c, "update", id, b)
        /\ CallOr(c, UpdateCheck(b), "find_by_id")
  BY DEF UpdateItem
<1> DEFINE r == AsAsked([op |-> "update", id |-> id, body |-> b])
<1>2. r \in Store!Requests /\ r.op = "update" /\ r.body = b
  <2>1. b \in Bodies
    BY DEF Bodies
  <2>2. r \in Store!Requests
    BY Received
  <2>3. r.op = "update" /\ r.body = b
    BY <2>1, ReceivedParts
  <2> QED
    BY <2>2, <2>3
<1>3. CASE UpdateCheck(b) = 0
  <2>1. Call(c, "find_by_id")
    BY <1>1, <1>3 DEF CallOr
  <2> QED
    BY <1>1, <1>2, <2>1, ArrivalStep
<1>4. CASE UpdateCheck(b) # 0
  <2>1. Reply(c, UpdateCheck(b)) /\ UpdateCheck(b) \in Store!Answers
    BY <1>1, <1>4 DEF CallOr, UpdateCheck, Store!Answers
  <2>2. Store!Told(r, UpdateCheck(b))
    BY <1>2, <1>4, CheckedUpdate DEF Store!Told, Store!Incomplete
  <2> QED
    BY <1>1, <1>2, <2>1, <2>2, AnswerAtOnce
<1> QED
  BY <1>3, <1>4

LEMMA ArrivingGet ==
  ASSUME TypeInv, NEW c \in Clients, GetItem(c)
  PROVE  Store!ServeAtOnce(c)
<1>1. PICK id \in Ids :
        /\ Receive(c, "get", id, NoBody)
        /\ \/ Reply(c, IF Present(id) THEN 200 ELSE 404)
           \/ Reply(c, 500)
  BY DEF GetItem
<1> DEFINE r == AsAsked([op |-> "get", id |-> id, body |-> NoBody])
<1>2. r \in Store!Requests /\ r.op = "get" /\ r.target = id
  <2>1. NoBody \in Bodies
    BY DEF Bodies
  <2>2. r \in Store!Requests
    BY Received
  <2>3. r.op = "get" /\ r.target = id
    BY <2>1, ReceivedParts
  <2> QED
    BY <2>2, <2>3
<1>3. ASSUME NEW status \in {200, 404, 500}, Reply(c, status), Store!Told(r, status)
      PROVE  Store!ServeAtOnce(c)
  BY <1>1, <1>2, <1>3, AnswerAtOnce DEF Store!Answers
<1>4. /\ Store!Told(r, IF Present(id) THEN 200 ELSE 404)
      /\ Store!Told(r, 500)
  BY <1>2 DEF Store!Told, Present, Store!Present
<1> QED
  BY <1>1, <1>3, <1>4

LEMMA ArrivingRemove ==
  ASSUME TypeInv, NEW c \in Clients, DeleteItem(c)
  PROVE  Store!Ask(c)
<1>1. PICK id \in Ids : Receive(c, "remove", id, NoBody) /\ Call(c, "find_for_remove")
  BY DEF DeleteItem
<1>2. AsAsked([op |-> "remove", id |-> id, body |-> NoBody]) \in Store!Requests
  BY Received
<1> QED
  BY <1>1, <1>2, ArrivalStep

\* A handler that answers without a write of its own.
LEMMA ToldStep ==
  ASSUME TypeInv, NEW c \in Clients, pc[c] # "idle", UNCHANGED <<rows, req, item>>,
         NEW status \in Store!Answers, Reply(c, status), Store!Told(Asked[c], status)
  PROVE  Store!Serve(c)
  BY AnswerStep DEF Store!Effect

\* The id that a creation draws is not yet its client's concern.
LEMMA FindBySkuStep ==
  ASSUME TypeInv, NEW c \in Clients, FindBySku(c)
  PROVE  Store!Serve(c) \/ UNCHANGED Store!storeVars
<1>1. /\ pc[c] = "find_by_sku" /\ UNCHANGED <<rows, item>>
      /\ req[c] \in Request /\ req[c].op = "create"
  BY DEF FindBySku, At, TypeInv, HandlerInv
<1>2. Asked[c].op = "create" /\ Asked[c].body = req[c].body
  BY <1>1, ServedRequest, MapRequest
<1>3. CASE SkuTaken(req[c].body.sku) /\ Reply(c, 409) /\ UNCHANGED req
  <2>1. Store!Told(Asked[c], 409)
    BY <1>2, <1>3 DEF Store!Told, SkuTaken, Present, Store!SkuTaken, Store!Present
  <2> QED
    BY <1>1, <1>3, <2>1, ToldStep DEF Store!Answers
<1>4. CASE Call(c, "save") /\ Generate(c)
  <2>1. Asked' = Asked
    <3>1. CASE UNCHANGED req
      BY <3>1 DEF Asked
    <3>2. ASSUME NEW d \in Clients, At(d, "save"), req' = [req EXCEPT ![c].id = req[d].id]
          PROVE  Asked' = Asked
      <4> DEFINE r == [req[c] EXCEPT !.id = req[d].id]
      <4>1. req[d].id \in Ids
        BY <3>2 DEF At, TypeInv, HandlerInv, Request
      <4>2. r \in Request /\ r.op = "create" /\ r.body = req[c].body
        BY <1>1, <4>1 DEF Request
      <4>3. req' = [req EXCEPT ![c] = r]
        BY <3>2
      <4>4. Asked' = [Asked EXCEPT ![c] = AsAsked(r)]
        BY <4>3, MapAsked DEF TypeInv
      <4>5. AsAsked(r) = AsAsked(req[c])
        BY <1>1, <4>2, IdsAssumption DEF AsAsked
      <4>6. Asked[c] = AsAsked(req[c])
        BY DEF Asked
      <4> QED
        BY <4>4, <4>5, <4>6 DEF Asked
    <3> QED
      BY <1>4, <3>1, <3>2 DEF Generate
  <2> QED
    BY <1>1, <1>4, <2>1, SilentStep
<1> QED
  BY <1>3, <1>4 DEF FindBySku

LEMMA SaveStep ==
  ASSUME TypeInv, NEW c \in Clients, Save(c)
  PROVE  Store!Serve(c)
<1>1. /\ pc[c] = "save" /\ UNCHANGED <<req, item>>
      /\ req[c] \in Request /\ req[c].op = "create"
      /\ req[c].body \in CreateBodies /\ CreateCheck(req[c].body) = 0
  BY DEF Save, At, TypeInv, HandlerInv
<1>2. Asked[c].op = "create" /\ Asked[c].body = req[c].body
  BY <1>1, ServedRequest, MapRequest
<1>3. Store!Inserted(Asked[c])
  <2>1. /\ req[c].id \in Ids
        /\ ~Store!Present(req[c].id)
        /\ Store!Fits(req[c].id, NewRow(req[c].body))
        /\ rows' = [rows EXCEPT ![req[c].id] = NewRow(req[c].body)]
    BY <1>1, RoomForIt DEF Save, Insertable, Write, Present, Store!Present, Request
  <2>2. Store!Acceptable(Asked[c]) /\ Store!Made(req[c].body) = NewRow(req[c].body)
    BY <1>1, <1>2, CheckedCreate DEF Store!Acceptable, Store!Incomplete
  <2> QED
    BY <1>2, <2>1, <2>2 DEF Store!Inserted
<1>4. \E status \in {201, 500} : Reply(c, status)
  BY DEF Save, Committed
<1> QED
  BY <1>1, <1>3, <1>4, AnswerStep DEF Store!Effect, Store!Answers

LEMMA UpdateStep ==
  ASSUME TypeInv, NEW c \in Clients, Update(c)
  PROVE  Store!Serve(c)
<1>1. /\ pc[c] = "update" /\ UNCHANGED <<req, item>>
      /\ req[c] \in Request /\ req[c].op = "update"
  BY DEF Update, At, TypeInv, HandlerInv
<1>2. Asked[c].op = "update" /\ Asked[c].target = req[c].id /\ Stage[c] = "drafted"
  BY <1>1, ServedRequest, MapRequest
<1>3. CASE Present(req[c].id)
  <2>1. Store!Replaced(c, Asked[c])
    <3>1. Storable(req[c].id, item[c]) /\ rows' = [rows EXCEPT ![req[c].id] = item[c]]
      BY <1>3 DEF Update, Matched, Write
    <3> QED
      BY <1>2, <1>3, <3>1, RoomForIt DEF Store!Replaced, Present, Store!Present
  <2>2. \E status \in {200, 500} : Reply(c, status)
    BY <1>3 DEF Update, Matched, Committed
  <2> QED
    BY <1>1, <2>1, <2>2, AnswerStep DEF Store!Effect, Store!Answers
<1>4. CASE ~Present(req[c].id)
  <2>1. rows' = rows /\ Reply(c, 404)
    BY <1>4 DEF Update, Matched
  <2>2. Store!Told(Asked[c], 404)
    BY <1>2, <1>4 DEF Store!Told, Present, Store!Present
  <2> QED
    BY <1>1, <2>1, <2>2, ToldStep DEF Store!Answers
<1> QED
  BY <1>3, <1>4

LEMMA RemoveStep ==
  ASSUME TypeInv, NEW c \in Clients, Remove(c)
  PROVE  Store!Serve(c)
<1>1. /\ pc[c] = "remove" /\ UNCHANGED <<req, item>>
      /\ req[c] \in Request /\ req[c].op = "remove"
  BY DEF Remove, At, TypeInv, HandlerInv
<1>2. Asked[c].op = "remove" /\ Asked[c].target = req[c].id
  BY <1>1, ServedRequest, MapRequest
<1>3. CASE Present(req[c].id)
  <2>1. Store!Erased(Asked[c])
    <3>1. rows' = [rows EXCEPT ![req[c].id] = Nothing]
      BY <1>3 DEF Remove, Affected, Write
    <3> QED
      BY <1>2, <1>3, <3>1 DEF Store!Erased, Present, Store!Present
  <2>2. \E status \in {204, 500} : Reply(c, status)
    BY <1>3 DEF Remove, Affected
  <2> QED
    BY <1>1, <2>1, <2>2, AnswerStep DEF Store!Effect, Store!Answers
<1>4. CASE ~Present(req[c].id)
  <2>1. rows' = rows /\ Reply(c, 404)
    BY <1>4 DEF Remove, Affected
  <2>2. Store!Told(Asked[c], 404)
    BY <1>2, <1>4 DEF Store!Told, Present, Store!Present
  <2> QED
    BY <1>1, <2>1, <2>2, ToldStep DEF Store!Answers
<1> QED
  BY <1>3, <1>4

LEMMA FindByIdStep ==
  ASSUME TypeInv, NEW c \in Clients, FindById(c)
  PROVE  Store!Serve(c) \/ Store!Draft(c)
<1>1. /\ pc[c] = "find_by_id" /\ UNCHANGED <<rows, req>>
      /\ req[c] \in Request /\ req[c].op = "update"
      /\ req[c].body \in UpdateBodies /\ UpdateCheck(req[c].body) = 0
  BY DEF FindById, At, TypeInv, HandlerInv
<1>2. /\ Asked[c].op = "update" /\ Asked[c].target = req[c].id /\ Asked[c].body = req[c].body
      /\ Stage[c] = "asked"
  BY <1>1, ServedRequest, MapRequest
<1>3. /\ NoName(req[c].body.set) <=> Store!Faulty(req[c].body)
      /\ ~NoName(req[c].body.set) => Store!Acceptable(Asked[c])
  BY <1>1, <1>2, CheckedUpdate DEF Store!Acceptable, Store!Incomplete
<1>4. CASE ~Present(req[c].id)
  <2>1. Reply(c, 404) /\ item' = item
    BY <1>4 DEF FindById
  <2>2. Store!Told(Asked[c], 404)
    BY <1>2, <1>4 DEF Store!Told, Present, Store!Present
  <2> QED
    BY <1>1, <2>1, <2>2, ToldStep DEF Store!Answers
<1>5. CASE Present(req[c].id) /\ NoName(req[c].body.set)
  <2>1. Reply(c, 422) /\ item' = item
    BY <1>5 DEF FindById
  <2>2. Store!Told(Asked[c], 422)
    BY <1>2, <1>3, <1>5 DEF Store!Told
  <2> QED
    BY <1>1, <2>1, <2>2, ToldStep DEF Store!Answers
<1>6. CASE Present(req[c].id) /\ ~NoName(req[c].body.set)
  <2>1. /\ Call(c, "update")
        /\ item' = [item EXCEPT ![c] = Store!Patched(rows[req[c].id], req[c].body)]
    BY <1>6, DraftIsPatched DEF FindById
  <2>2. Stage' = [Stage EXCEPT ![c] = "drafted"]
    <3>1. "update" \in Places /\ pc' = [pc EXCEPT ![c] = "update"]
      BY <2>1 DEF Call, Places
    <3>2. Stage' = [Stage EXCEPT ![c] = StageOf("update")]
      BY <3>1, MapStage
    <3> QED
      BY <3>2, StageValues
  <2>3. Asked' = Asked
    BY <1>1 DEF Asked
  <2> QED
    BY <1>1, <1>2, <1>3, <1>6, <2>1, <2>2, <2>3
       DEF Store!Draft, Call, Present, Store!Present
<1> QED
  BY <1>4, <1>5, <1>6

LEMMA FindForRemoveStep ==
  ASSUME TypeInv, NEW c \in Clients, FindForRemove(c)
  PROVE  Store!Serve(c) \/ UNCHANGED Store!storeVars
<1>1. /\ pc[c] = "find_for_remove" /\ UNCHANGED <<rows, req, item>>
      /\ req[c] \in Request /\ req[c].op = "remove"
  BY DEF FindForRemove, At, TypeInv, HandlerInv
<1>2. Asked[c].op = "remove" /\ Asked[c].target = req[c].id
  BY <1>1, ServedRequest, MapRequest
<1>3. CASE Present(req[c].id)
  <2>1. Call(c, "remove")
    BY <1>3 DEF FindForRemove
  <2>2. Asked' = Asked
    BY <1>1 DEF Asked
  <2> QED
    BY <1>1, <2>1, <2>2, SilentStep
<1>4. CASE ~Present(req[c].id)
  <2>1. Reply(c, 404)
    BY <1>4 DEF FindForRemove
  <2>2. Store!Told(Asked[c], 404)
    BY <1>2, <1>4 DEF Store!Told, Present, Store!Present
  <2> QED
    BY <1>1, <2>1, <2>2, ToldStep DEF Store!Answers
<1> QED
  BY <1>3, <1>4

\* The database refuses a write, or a call fails: 500, and nothing has changed.
LEMMA ErrorStep ==
  ASSUME TypeInv, NEW c \in Clients, Refused(c) \/ CallFails(c)
  PROVE  Store!Serve(c)
<1>1. pc[c] # "idle" /\ UNCHANGED <<rows, req, item>> /\ Reply(c, 500)
  BY DEF Refused, CallFails, At
<1>2. Store!Told(Asked[c], 500)
  BY DEF Store!Told
<1> QED
  BY <1>1, <1>2, ToldStep DEF Store!Answers

LEMMA NextStore == TypeInv /\ [Next]_vars => [Store!StoreNext]_(Store!storeVars)
<1> SUFFICES ASSUME TypeInv, [Next]_vars PROVE [Store!StoreNext]_(Store!storeVars)
  OBVIOUS
<1>1. ASSUME NEW c \in Clients,
             Store!Ask(c) \/ Store!Draft(c) \/ Store!Serve(c) \/ Store!ServeAtOnce(c)
      PROVE  Store!StoreNext
  BY <1>1 DEF Store!StoreNext
<1>2. ASSUME NEW c \in Clients, CreateItem(c) \/ UpdateItem(c) \/ GetItem(c) \/ DeleteItem(c)
      PROVE  Store!StoreNext
  BY <1>1, <1>2, ArrivingCreate, ArrivingUpdate, ArrivingGet, ArrivingRemove
<1>3. ASSUME NEW c \in Clients, FindBySku(c) \/ FindById(c) \/ FindForRemove(c)
      PROVE  Store!StoreNext \/ UNCHANGED Store!storeVars
  BY <1>1, <1>3, FindBySkuStep, FindByIdStep, FindForRemoveStep
<1>4. ASSUME NEW c \in Clients, Save(c) \/ Update(c) \/ Remove(c)
      PROVE  Store!StoreNext
  BY <1>1, <1>4, SaveStep, UpdateStep, RemoveStep
<1>5. ASSUME NEW c \in Clients, Refused(c) \/ CallFails(c)
      PROVE  Store!StoreNext
  BY <1>1, <1>5, ErrorStep
<1>6. ASSUME UNCHANGED vars PROVE UNCHANGED Store!storeVars
  BY <1>6 DEF vars, Store!storeVars, Stage, Asked
<1> QED
  BY <1>2, <1>3, <1>4, <1>5, <1>6 DEF Next, Terminated

\* Every request is served in the instant of its answer, whatever other handlers
\* do between the repository calls of this one and whichever calls fail.
THEOREM Refinement == Spec => ImplementsStore
  BY InitStore, NextStore, InitTypeInv, NextTypeInv, PTL DEF Spec, ImplementsStore,
     Store!StoreSpec
================================================================================
