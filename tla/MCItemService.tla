----------------------------- MODULE MCItemService -----------------------------
(* Model-checking instances of ItemService. *)
EXTENDS ItemService, TLC

CONSTANTS i1, i2, s1, s2

\* Bodies of POST: two that are fine, an unknown category, an empty SKU, a negative price.
Item(sku, price, category) ==
  [sku |-> sku,
   set |-> [f \in Fields \ {"status"} |->
              CASE f = "name" -> 1 [] f = "category" -> category
                [] f = "price" -> price [] f = "stock" -> 1]]
Creates == {Item(s1, 1, 1), Item(s2, 1, 1), Item(s1, 1, 9), Item(EmptySku, 1, 1), Item(s2, -1, 1)}

\* Bodies of PUT and PATCH: one field each, a new sku, "status", and the bodies refused.
Patch(sku, f, v) == [sku |-> sku, set |-> (f :> v)]
Updates ==
  {Patch(s1, "price", 2), Patch(s1, "stock", 2), Patch(s2, "status", 2),
   Patch(s1, "name", EmptyName), Patch(s1, "category", 9), Patch(s1, "stock", -1),
   Patch(Absent, "price", 3)}

\* An empty table, and one that holds an item.
Stored == [sku |-> s1, data |-> [f \in Fields |-> 1]]
Tables == {[id \in Ids |-> Nothing], [id \in Ids |-> IF id = i1 THEN Stored ELSE Nothing]}
Cats == {1}

Symmetry == Permutations(Clients)
================================================================================
