------------------------------- MODULE MCListing -------------------------------
(* Model-checking instances of Listing. *)
EXTENDS Listing, TLC

CONSTANTS i1, i2, i3, i4, tools

MCRow(time, status) ==
  [created_at |-> time, texts |-> {"saw"}, category |-> tools, status |-> status,
   stock |-> 1, price |-> 1]
MCRows == {MCRow(time, status) : time \in 1..3, status \in {"active", "inactive"}}

\* Three items of three times or of two, and room for a fourth.
MCInitTables ==
  {(i1 :> MCRow(3, "active")) @@ (i2 :> MCRow(t, "active")) @@ (i3 :> MCRow(1, "active"))
     @@ (i4 :> Nothing) : t \in {1, 2}}

Query(status, page, page_size) ==
  [search |-> Unset, category_id |-> Unset, status |-> status, min_stock |-> Unset,
   max_price |-> Unset, page |-> page, page_size |-> page_size]

\* Everything, or one status, in pages of one or two; every filter at once; and
\* the edges: unknown status, no number, page 0, sizes 0 and below, a page far
\* beyond the end, a category that is no UUID and one that cannot be read.
MCParams ==
  {Query("active", Unset, 1), Query("active", 1, 2), Query(Unset, 1, 2),
   Query(Invalid, 2, 2), Query(Unset, Invalid, 1), Query(Unset, 0, 1),
   Query(Unset, 1, 0), Query(Unset, 1, -1), Query(Unset, 3, Unset),
   [search |-> "saw", category_id |-> tools, status |-> "active", min_stock |-> 1,
    max_price |-> 1, page |-> 1, page_size |-> Unset],
   [search |-> "", category_id |-> Invalid, status |-> "inactive", min_stock |-> 0,
    max_price |-> 1, page |-> Unset, page_size |-> 1],
   [Query(Unset, 1, 1) EXCEPT !.category_id = NotHex]}
================================================================================
