--------------------------- MODULE ListingWalkProofs ---------------------------
(***************************************************************************)
(* What a client that walks from page to page is shown, for every table,   *)
(* query, number of pages, clients and writes: no item twice, the newest   *)
(* first, and none missing.                                                *)
(*                                                                         *)
(* The three rest on one count.  The rank of an item is the number of      *)
(* items of the result that are newer.  While items only leave the result, *)
(* ranks only fall: what the walk has gathered keeps a rank below the end  *)
(* of the pages that were read, and a page begins beyond it.  While items  *)
(* only enter, ranks only grow: what still has a rank below that end was   *)
(* there already when its page was read.                                   *)
(***************************************************************************)
EXTENDS ListingProofs

Result(c) == Matching(items, filter[c])
Newer(x, S) == {y \in S : items[y].created_at > items[x].created_at}
Rank(x, c) == Cardinality(Newer(x, Result(c)))

Shown(s) == {s[i] : i \in DOMAIN s}
\* The pages of the walk, the one whose total is still to be counted included.
Gathered(c) == IF pc[c] = 1 THEN walked[c] \o found[c] ELSE walked[c]
\* Where the pages that were read end.
Passed(c) == IF pc[c] = 2 THEN Skipped(c) ELSE Skipped(c) + filter[c].page_size
Walking(c) == Sized(c) /\ (pc[c] > 0 \/ answer[c] = 200)

OnceEach(s) == \A i, j \in DOMAIN s : s[i] = s[j] => i = j
Sorted(s) == \A i, j \in DOMAIN s :
               i < j /\ Present(s[i]) /\ Present(s[j]) =>
                 items[s[i]].created_at >= items[s[j]].created_at
LowRanks(c) == \A x \in Shown(Gathered(c)) : Present(x) => Rank(x, c) < Passed(c)
NoneMissing(c) == \A y \in stayed[c] : Rank(y, c) < Passed(c) => y \in Shown(Gathered(c))
AtTheEnd(c) == pc[c] = 0 /\ filter[c].page >= total_pages[c]

OnlyLeft(c) == ~entered[c] => /\ Sorted(Gathered(c)) /\ LowRanks(c)
                              /\ ~tied => OnceEach(Gathered(c))
OnlyEntered(c) == first[c] = 1 /\ ~left[c] /\ ~tied =>
                    /\ NoneMissing(c)
                    /\ AtTheEnd(c) => stayed[c] \subseteq Shown(walked[c])

\* Ids are not used again, and `tied` tells the truth.
TableBooks == /\ \A id \in Ids : Present(id) => id \in used
              /\ ~tied => ~Tied(items)
\* So do the other histories; a page 0 is refused, so no walk comes to its first
\* page from an earlier one.
Books(c) ==
  /\ Shown(walked[c]) \subseteq used /\ Shown(found[c]) \subseteq used
  /\ filter[c] = Nothing => walked[c] = <<>>
  /\ filter[c] # Nothing => stayed[c] \subseteq Result(c)
  /\ pc[c] = 1 \/ (pc[c] = 0 /\ answer[c] = 200) =>
       filter[c].page # 0 \/ filter[c].page_size = 0
GoodWalk(c) == Walking(c) => OnlyLeft(c) /\ OnlyEntered(c)
WalkInv == TableBooks /\ \A c \in Clients : Books(c) /\ GoodWalk(c)

--------------------------------------------------------------------------------
(* Ranks *)

LEMMA ResultPresent ==
  ASSUME NEW f
  PROVE  /\ Matching(items, f) \in SUBSET Ids /\ IsFiniteSet(Matching(items, f))
         /\ \A y \in Matching(items, f) : Present(y)
<1>1. Matching(items, f) \in SUBSET Ids /\ \A y \in Matching(items, f) : Present(y)
  BY DEF Matching, Present
<1> QED
  BY <1>1, RowsAssumption, FS_Subset

LEMMA TimeType ==
  ASSUME TypeOK, NEW x \in Ids, Present(x)
  PROVE  items[x].created_at \in Int
<1>1. items[x] \in Rows
  BY DEF TypeOK, Present
<1> QED
  BY <1>1, RowsAssumption DEF IsRow

\* Of a larger set, no fewer are newer.
LEMMA RankMono ==
  ASSUME NEW T \in SUBSET Ids, NEW U \in SUBSET T
  PROVE  /\ IsFiniteSet(U) /\ Cardinality(U) \in Nat /\ Cardinality(T) \in Nat
         /\ Cardinality(U) <= Cardinality(T)
<1>1. IsFiniteSet(T)
  BY RowsAssumption, FS_Subset
<1>2. IsFiniteSet(U) /\ Cardinality(U) <= Cardinality(T)
  BY <1>1, FS_Subset
<1> QED
  BY <1>1, <1>2, FS_CardinalityType

\* The first k places of a sequence without repetition hold k items.
Places(s, k) == {s[j] : j \in 1..k}

LEMMA PrefixCount ==
  ASSUME NEW S, NEW n \in Nat, NEW s \in [1..n -> S],
         \A i, j \in 1..n : i < j => s[i] # s[j],
         NEW k \in 0..n
  PROVE  Cardinality(Places(s, k)) = k
<1> DEFINE P == Places(s, k)
           f == [j \in 1..k |-> s[j]]
<1>1. \A i, j \in 1..k : s[i] = s[j] => i = j
  <2>1. \A j \in 1..k : j \in 1..n
    OBVIOUS
  <2>2. \A i, j \in 1..k : i = j \/ i < j \/ j < i
    OBVIOUS
  <2> QED
    BY <2>1, <2>2
<1>2. f \in Bijection(1..k, P)
  BY <1>1 DEF Places, Bijection, Injection, Surjection, IsInjective
<1>3. ExistsBijection(1..k, P)
  BY <1>2 DEF ExistsBijection
<1>4. IsFiniteSet(1..k) /\ Cardinality(1..k) = k
  BY FS_Interval
<1> HIDE DEF P
<1>5. Cardinality(P) = k
  BY <1>3, <1>4, FS_Bijection
<1> QED
  BY <1>5 DEF P

\* In the order of the query, the item at place k has at most k - 1 newer ones;
\* every item of the result has its place.
LEMMA OrderRanks ==
  ASSUME TypeOK, NEW S \in SUBSET Ids, \A y \in S : Present(y), NEW s \in Orders(S)
  PROVE  /\ s \in [1..Cardinality(S) -> S]
         /\ \A y \in S : \E k \in 1..Cardinality(S) : y = s[k]
         /\ \A k \in 1..Cardinality(S) : Cardinality(Newer(s[k], S)) <= k - 1
<1> DEFINE n == Cardinality(S)
<1>1. n \in Nat /\ IsFiniteSet(S)
  BY RankMono
<1>2. /\ s \in [1..n -> S]
      /\ \A i, j \in 1..n : i < j => s[i] # s[j] /\ Before(s[i], s[j])
  BY DEF Orders
<1> HIDE DEF n
<1>6. n \in 0..n /\ \A i, j \in 1..n : i < j => s[i] # s[j]
  BY <1>1, <1>2
<1>3. Places(s, n) = S
  <2>1. Cardinality(Places(s, n)) = n
    BY <1>1, <1>2, <1>6, PrefixCount
  <2>2. Places(s, n) \in SUBSET S
    BY <1>2 DEF Places
  <2> QED
    BY <1>1, <2>1, <2>2, FS_Subset DEF n
<1>4. ASSUME NEW k \in 1..n PROVE Cardinality(Newer(s[k], S)) <= k - 1
  <2> DEFINE P == Places(s, k - 1)
  <2>1. ASSUME NEW y \in Newer(s[k], S) PROVE y \in P
    <3>1. PICK j \in 1..n : y = s[j]
      BY <1>3, <2>1 DEF Newer, Places
    <3>2. items[s[j]].created_at > items[s[k]].created_at
      BY <2>1, <3>1 DEF Newer
    <3>3. items[s[j]].created_at \in Int /\ items[s[k]].created_at \in Int
      BY <1>2, TimeType
    <3>4. ~(k < j) /\ k # j
      BY <1>2, <3>2, <3>3 DEF Before
    <3>5. j \in 1..(k - 1)
      BY <3>4
    <3> QED
      BY <3>1, <3>5 DEF Places
  <2>2. k - 1 \in 0..n /\ \A j \in 1..(k - 1) : j \in 1..n
    BY <1>1
  <2>3. P \in SUBSET S
    BY <1>2, <2>2 DEF Places
  <2>4. Cardinality(P) = k - 1
    BY <1>1, <1>2, <1>6, <2>2, PrefixCount
  <2> HIDE DEF P
  <2>5. Cardinality(Newer(s[k], S)) <= Cardinality(P)
    BY <2>1, <2>3, RankMono
  <2> QED
    BY <2>4, <2>5
<1> QED
  BY <1>2, <1>3, <1>4 DEF n, Places

\* An item that is older than the first k of the result has k newer ones.
LEMMA RankAtLeast ==
  ASSUME NEW S \in SUBSET Ids, NEW s \in Orders(S), NEW x, NEW k \in 0..Cardinality(S),
         \A j \in 1..k : items[s[j]].created_at > items[x].created_at
  PROVE  k <= Cardinality(Newer(x, S))
<1> DEFINE n == Cardinality(S)
           P == Places(s, k)
<1>1. n \in Nat
  BY RankMono
<1>2. s \in [1..n -> S] /\ \A i, j \in 1..n : i < j => s[i] # s[j]
  BY DEF Orders
<1>3. k \in 0..n
  OBVIOUS
<1> HIDE DEF n
<1>4. P \in SUBSET Newer(x, S)
  <2>1. \A j \in 1..k : j \in 1..n
    BY <1>1, <1>3
  <2> QED
    BY <1>2, <2>1 DEF Newer, Places
<1>5. Cardinality(P) = k
  BY <1>1, <1>2, <1>3, PrefixCount
<1> HIDE DEF P
<1>6. Newer(x, S) \in SUBSET Ids
  BY DEF Newer
<1> QED
  BY <1>4, <1>5, <1>6, RankMono

\* Without ties, the item at place k has k - 1 newer ones.
LEMMA RankIsPlace ==
  ASSUME TypeOK, NEW S \in SUBSET Ids, \A y \in S : Present(y), NEW s \in Orders(S),
         ~Tied(items), NEW k \in 1..Cardinality(S)
  PROVE  Cardinality(Newer(s[k], S)) = k - 1
<1> DEFINE n == Cardinality(S)
<1>1. n \in Nat
  BY RankMono
<1>2. /\ s \in [1..n -> S]
      /\ \A i, j \in 1..n : i < j => s[i] # s[j] /\ Before(s[i], s[j])
  BY DEF Orders
<1>3. k \in 1..n
  OBVIOUS
<1>4. Cardinality(Newer(s[k], S)) <= k - 1
  BY OrderRanks
<1> HIDE DEF n
<1>5. ASSUME NEW j \in 1..(k - 1) PROVE items[s[j]].created_at > items[s[k]].created_at
  <2>1. j \in 1..n /\ j < k
    BY <1>1, <1>3
  <2>2. /\ s[j] \in Ids /\ s[k] \in Ids /\ s[j] # s[k]
        /\ items[s[j]].created_at >= items[s[k]].created_at
        /\ items[s[j]].created_at \in Int /\ items[s[k]].created_at \in Int
    BY <1>2, <1>3, <2>1, TimeType DEF Before
  <2>3. items[s[j]] # Nothing /\ items[s[k]] # Nothing
    BY <1>2, <1>3, <2>1 DEF Present
  <2>4. items[s[j]].created_at # items[s[k]].created_at
    BY <2>2, <2>3 DEF Tied
  <2> QED
    BY <2>2, <2>4
<1>6. k - 1 \in 0..n
  BY <1>1, <1>3
<1>7. k - 1 <= Cardinality(Newer(s[k], S))
  BY <1>5, <1>6, RankAtLeast DEF n
<1>8. Cardinality(Newer(s[k], S)) \in Nat
  <2>1. Newer(s[k], S) \in SUBSET Ids
    BY DEF Newer
  <2> QED
    BY <2>1, RankMono
<1> QED
  BY <1>1, <1>3, <1>4, <1>7, <1>8

--------------------------------------------------------------------------------
(* A page is added to a walk *)

LEMMA ShownJoin ==
  ASSUME NEW w \in Seq(Ids), NEW p \in Seq(Ids)
  PROVE  /\ DOMAIN w = 1..Len(w) /\ DOMAIN p = 1..Len(p)
         /\ Len(w) \in Nat /\ Len(p) \in Nat
         /\ DOMAIN (w \o p) = 1..(Len(w) + Len(p))
         /\ \A i \in 1..Len(w) : (w \o p)[i] = w[i]
         /\ \A i \in 1..Len(p) : (w \o p)[Len(w) + i] = p[i]
         /\ \A i \in DOMAIN (w \o p) :
              i \in 1..Len(w) \/ \E j \in 1..Len(p) : i = Len(w) + j
         /\ Shown(w \o p) = Shown(w) \cup Shown(p)
<1>1. /\ DOMAIN w = 1..Len(w) /\ DOMAIN p = 1..Len(p)
      /\ Len(w) \in Nat /\ Len(p) \in Nat
  BY LenProperties
<1>2. /\ w \o p \in Seq(Ids) /\ Len(w \o p) = Len(w) + Len(p)
      /\ \A i \in 1..(Len(w) + Len(p)) :
           (w \o p)[i] = IF i <= Len(w) THEN w[i] ELSE p[i - Len(w)]
  BY ConcatProperties
<1>3. DOMAIN (w \o p) = 1..(Len(w) + Len(p))
  BY <1>2, LenProperties
<1>4. \A i \in 1..Len(w) : i \in DOMAIN (w \o p) /\ (w \o p)[i] = w[i]
  BY <1>1, <1>2, <1>3
<1>5. \A i \in 1..Len(p) : Len(w) + i \in DOMAIN (w \o p) /\ (w \o p)[Len(w) + i] = p[i]
  <2> SUFFICES ASSUME NEW i \in 1..Len(p)
               PROVE  Len(w) + i \in DOMAIN (w \o p) /\ (w \o p)[Len(w) + i] = p[i]
    OBVIOUS
  <2>1. /\ Len(w) + i \in 1..(Len(w) + Len(p)) /\ ~(Len(w) + i <= Len(w))
        /\ (Len(w) + i) - Len(w) = i
    BY <1>1
  <2> QED
    BY <1>2, <1>3, <2>1
<1>6. \A i \in DOMAIN (w \o p) : \/ i \in 1..Len(w)
                                 \/ \E j \in 1..Len(p) : i = Len(w) + j
  <2> SUFFICES ASSUME NEW i \in 1..(Len(w) + Len(p)), i \notin 1..Len(w)
               PROVE  \E j \in 1..Len(p) : i = Len(w) + j
    BY <1>3
  <2> WITNESS i - Len(w) \in 1..Len(p)
  <2> QED
    BY <1>1
<1>7. Shown(w \o p) = Shown(w) \cup Shown(p)
  <2>1. ASSUME NEW x \in Shown(w \o p) PROVE x \in Shown(w) \cup Shown(p)
    <3>1. PICK i \in DOMAIN (w \o p) : x = (w \o p)[i]
      BY <2>1 DEF Shown
    <3>2. CASE i \in 1..Len(w)
      BY <1>1, <1>4, <3>1, <3>2 DEF Shown
    <3>3. ASSUME NEW j \in 1..Len(p), i = Len(w) + j PROVE x \in Shown(p)
      BY <1>1, <1>5, <3>1, <3>3 DEF Shown
    <3> QED
      BY <1>6, <3>2, <3>3
  <2>2. Shown(w) \subseteq Shown(w \o p)
    BY <1>1, <1>4 DEF Shown
  <2>3. Shown(p) \subseteq Shown(w \o p)
    BY <1>1, <1>5 DEF Shown
  <2> QED
    BY <2>1, <2>2, <2>3
<1>8. /\ \A i \in 1..Len(w) : (w \o p)[i] = w[i]
      /\ \A i \in 1..Len(p) : (w \o p)[Len(w) + i] = p[i]
  BY <1>4, <1>5
<1> QED
  BY <1>1, <1>3, <1>6, <1>7, <1>8, Zenon

\* The places of the result that a page shows.
LEMMA PagePlaces ==
  ASSUME NEW S \in SUBSET Ids, NEW s \in Orders(S), NEW off \in Nat, NEW size \in Nat,
         NEW page, page = Slice(s, off, size)
  PROVE  /\ page \in Seq(S) /\ page \in Seq(Ids) /\ DOMAIN page = 1..Len(page)
         /\ \A i \in 1..Len(page) :
              off + i \in 1..Cardinality(S) /\ i <= size /\ page[i] = s[off + i]
         /\ \A k \in 1..Cardinality(S) :
              off < k /\ k <= off + size => \E i \in 1..Len(page) : page[i] = s[k]
<1> DEFINE n == Cardinality(S)
           end == Smaller(off + size, n)
<1>1. n \in Nat
  BY RankMono
<1>2. s \in [1..n -> S]
  BY DEF Orders
<1> HIDE DEF n
<1>3. end \in Nat /\ end <= n /\ end <= off + size
  BY <1>1 DEF Smaller
<1>4. \A k \in 1..n : k <= off + size => k <= end
  BY <1>1 DEF Smaller
<1>5. page = SubSeq(s, off + 1, end)
  <2>1. s \in Seq(S)
    BY <1>1, <1>2, SeqDef
  <2>2. Len(s) = n
    BY <1>1, <1>2, <2>1, LenProperties
  <2> QED
    BY <2>2 DEF Slice
<1> HIDE DEF end
<1>6. \A i \in (off + 1)..end : i \in 1..n
  BY <1>1, <1>3
<1>7. \A i \in (off + 1)..end : s[i] \in S
  BY <1>2, <1>6
<1>8. /\ page \in Seq(S)
      /\ Len(page) = IF off + 1 <= end THEN end - (off + 1) + 1 ELSE 0
      /\ \A i \in 1..(end - (off + 1) + 1) : page[i] = s[(off + 1) + i - 1]
  BY <1>3, <1>5, <1>7, SubSeqProperties
<1>9. DOMAIN page = 1..Len(page) /\ Len(page) \in Nat
  BY <1>8, LenProperties
<1>10. page \in Seq(Ids)
  <2>1. page \in [1..Len(page) -> S]
    BY <1>8, LenProperties
  <2>2. page \in [1..Len(page) -> Ids]
    BY <2>1
  <2> QED
    BY <1>9, <2>2, SeqDef
<1>11. ASSUME NEW i \in 1..Len(page)
       PROVE  off + i \in 1..n /\ i <= size /\ page[i] = s[off + i]
  <2>1. i \in 1..(end - (off + 1) + 1) /\ off + i <= end
    BY <1>3, <1>8
  <2>2. (off + 1) + i - 1 = off + i
    OBVIOUS
  <2> QED
    BY <1>1, <1>3, <1>8, <2>1, <2>2
<1>12. ASSUME NEW k \in 1..n, off < k, k <= off + size
       PROVE  \E i \in 1..Len(page) : page[i] = s[k]
  <2>3. k <= end /\ k \in Nat
    BY <1>1, <1>4, <1>12
  <2>4. Len(page) = end - off
    BY <1>3, <1>8, <1>12, <2>3
  <2>1. k - off \in 1..Len(page) /\ off + (k - off) = k
    BY <1>3, <1>12, <2>3, <2>4
  <2>2. page[k - off] = s[k]
    BY <1>11, <2>1
  <2> QED
    BY <2>1, <2>2
<1> QED
  BY <1>8, <1>9, <1>10, <1>11, <1>12 DEF n

\* A walk w has passed the first `off` items of the result S; the next page
\* begins there.
Behind(w, S, off) ==
  \A x \in Shown(w) : Present(x) => Cardinality(Newer(x, S)) < off

\* Nothing on the page is newer than what the walk has shown.
LEMMA PageIsOlder ==
  ASSUME TypeOK, NEW S \in SUBSET Ids, \A y \in S : Present(y), NEW s \in Orders(S),
         NEW off \in Nat, NEW x \in Ids, Present(x), Cardinality(Newer(x, S)) < off,
         NEW k \in 1..Cardinality(S), off < k
  PROVE  items[x].created_at >= items[s[k]].created_at
<1> DEFINE n == Cardinality(S)
<1>1. n \in Nat
  BY RankMono
<1>2. s \in [1..n -> S] /\ \A i, j \in 1..n : i < j => Before(s[i], s[j])
  BY DEF Orders
<1>3. k \in 1..n
  OBVIOUS
<1> HIDE DEF n
<1>4. /\ items[x].created_at \in Int
      /\ \A j \in 1..n : items[s[j]].created_at \in Int
  BY <1>2, TimeType
<1>5. ASSUME items[s[k]].created_at > items[x].created_at PROVE FALSE
  <2>1. ASSUME NEW j \in 1..k PROVE items[s[j]].created_at > items[x].created_at
    <3>1. j \in 1..n /\ (j = k \/ j < k)
      BY <1>1, <1>3
    <3>2. items[s[j]].created_at >= items[s[k]].created_at
      BY <1>2, <1>3, <1>4, <3>1 DEF Before
    <3> QED
      BY <1>3, <1>4, <1>5, <3>1, <3>2
  <2>2. k \in 0..n
    BY <1>1, <1>3
  <2>3. k <= Cardinality(Newer(x, S))
    BY <2>1, <2>2, RankAtLeast DEF n
  <2>4. Newer(x, S) \in SUBSET Ids
    BY DEF Newer
  <2>5. Cardinality(Newer(x, S)) \in Nat
    BY <2>4, RankMono
  <2> QED
    BY <1>1, <1>3, <2>3, <2>5
<1> QED
  BY <1>3, <1>4, <1>5

LEMMA JoinSorted ==
  ASSUME TypeOK, NEW S \in SUBSET Ids, \A y \in S : Present(y), NEW s \in Orders(S),
         NEW off \in Nat, NEW size \in Nat, NEW w \in Seq(Ids), Behind(w, S, off), Sorted(w)
  PROVE  Sorted(w \o Slice(s, off, size))
<1> DEFINE page == Slice(s, off, size)
           n == Cardinality(S)
           v == w \o page
<1>1. /\ page \in Seq(Ids)
      /\ \A i \in 1..Len(page) : off + i \in 1..n /\ i <= size /\ page[i] = s[off + i]
  BY PagePlaces
<1>2. \A i, j \in 1..n : i < j => Before(s[i], s[j])
  BY DEF Orders
<1> HIDE DEF page, n
<1>3. /\ DOMAIN w = 1..Len(w) /\ Len(w) \in Nat /\ Len(page) \in Nat
      /\ \A i \in 1..Len(w) : v[i] = w[i]
      /\ \A i \in 1..Len(page) : v[Len(w) + i] = page[i]
      /\ \A i \in DOMAIN v : i \in 1..Len(w) \/ \E j \in 1..Len(page) : i = Len(w) + j
  BY <1>1, ShownJoin
<1> SUFFICES ASSUME NEW i \in DOMAIN v, NEW j \in DOMAIN v, i < j, Present(v[i]), Present(v[j])
             PROVE  items[v[i]].created_at >= items[v[j]].created_at
  BY DEF Sorted, page
<1> HIDE DEF v
<1>4. CASE i \in 1..Len(w) /\ j \in 1..Len(w)
  BY <1>3, <1>4 DEF Sorted
<1>5. ASSUME i \in 1..Len(w), NEW l \in 1..Len(page), j = Len(w) + l
      PROVE  items[v[i]].created_at >= items[v[j]].created_at
  <2>1. w[i] \in Ids /\ w[i] \in Shown(w) /\ v[i] = w[i] /\ v[j] = page[l]
    BY <1>3, <1>5, ElementOfSeq DEF Shown
  <2>2. Cardinality(Newer(w[i], S)) < off
    BY <2>1 DEF Behind
  <2>3. off + l \in 1..n /\ off < off + l /\ page[l] = s[off + l]
    BY <1>1
  <2>4. items[w[i]].created_at >= items[s[off + l]].created_at
    BY <2>1, <2>2, <2>3, PageIsOlder DEF n
  <2> QED
    BY <2>1, <2>3, <2>4
<1>6. ASSUME NEW k \in 1..Len(page), NEW l \in 1..Len(page), i = Len(w) + k, j = Len(w) + l
      PROVE  items[v[i]].created_at >= items[v[j]].created_at
  <2>1. off + k \in 1..n /\ off + l \in 1..n /\ off + k < off + l
    BY <1>1, <1>3, <1>6
  <2>2. v[i] = s[off + k] /\ v[j] = s[off + l]
    BY <1>1, <1>3, <1>6
  <2> QED
    BY <1>2, <2>1, <2>2 DEF Before
<1>7. ~(j \in 1..Len(w) /\ \E k \in 1..Len(page) : i = Len(w) + k)
  BY <1>3
<1> QED
  BY <1>3, <1>4, <1>5, <1>6, <1>7

LEMMA JoinOnce ==
  ASSUME TypeOK, NEW S \in SUBSET Ids, \A y \in S : Present(y), NEW s \in Orders(S),
         NEW off \in Nat, NEW size \in Nat, NEW w \in Seq(Ids), Behind(w, S, off),
         ~Tied(items), OnceEach(w)
  PROVE  OnceEach(w \o Slice(s, off, size))
<1> DEFINE page == Slice(s, off, size)
           n == Cardinality(S)
           v == w \o page
<1>1. /\ page \in Seq(Ids) /\ page \in Seq(S)
      /\ \A i \in 1..Len(page) : off + i \in 1..n /\ page[i] = s[off + i]
  BY PagePlaces
<1>2. s \in [1..n -> S] /\ \A i, j \in 1..n : i < j => s[i] # s[j]
  BY DEF Orders
<1>3. \A k \in 1..n : Cardinality(Newer(s[k], S)) = k - 1
  BY RankIsPlace
<1> HIDE DEF page, n
<1>4. /\ DOMAIN w = 1..Len(w) /\ Len(w) \in Nat /\ Len(page) \in Nat
      /\ \A i \in 1..Len(w) : v[i] = w[i]
      /\ \A i \in 1..Len(page) : v[Len(w) + i] = page[i]
      /\ \A i \in DOMAIN v : i \in 1..Len(w) \/ \E j \in 1..Len(page) : i = Len(w) + j
  BY <1>1, ShownJoin
<1>5. ASSUME NEW i \in 1..Len(w), NEW l \in 1..Len(page), w[i] = page[l] PROVE FALSE
  <2>1. w[i] \in Shown(w) /\ off + l \in 1..n /\ w[i] = s[off + l]
    BY <1>1, <1>4, <1>5 DEF Shown
  <2>2. Present(w[i])
    BY <1>2, <2>1
  <2>3. Cardinality(Newer(w[i], S)) < off
    BY <2>1, <2>2 DEF Behind
  <2>4. Cardinality(Newer(w[i], S)) = (off + l) - 1
    BY <1>3, <2>1
  <2> QED
    BY <2>3, <2>4
<1>6. ASSUME NEW k \in 1..Len(page), NEW l \in 1..Len(page), page[k] = page[l] PROVE k = l
  <2>1. /\ off + k \in 1..n /\ off + l \in 1..n /\ s[off + k] = s[off + l]
        /\ (k = l \/ off + k < off + l \/ off + l < off + k)
    BY <1>1, <1>6
  <2> QED
    BY <1>2, <2>1
<1> SUFFICES ASSUME NEW i \in DOMAIN v, NEW j \in DOMAIN v, v[i] = v[j] PROVE i = j
  BY DEF OnceEach, page
<1> HIDE DEF v
<1>7. CASE i \in 1..Len(w) /\ j \in 1..Len(w)
  BY <1>4, <1>7 DEF OnceEach
<1>8. CASE ~(i \in 1..Len(w)) /\ ~(j \in 1..Len(w))
  <2>1. PICK k \in 1..Len(page) : i = Len(w) + k
    BY <1>4, <1>8
  <2>2. PICK l \in 1..Len(page) : j = Len(w) + l
    BY <1>4, <1>8
  <2>3. page[k] = page[l]
    BY <1>4, <2>1, <2>2
  <2> QED
    BY <1>6, <2>1, <2>2, <2>3
<1>9. ASSUME NEW k \in 1..Len(w), NEW l \in DOMAIN v, ~(l \in 1..Len(w)), v[k] = v[l] PROVE FALSE
  BY <1>4, <1>5, <1>9
<1> QED
  BY <1>7, <1>8, <1>9

LEMMA JoinBehind ==
  ASSUME TypeOK, NEW S \in SUBSET Ids, \A y \in S : Present(y), NEW s \in Orders(S),
         NEW off \in Nat, NEW size \in Nat, NEW w \in Seq(Ids), Behind(w, S, off)
  PROVE  Behind(w \o Slice(s, off, size), S, off + size)
<1> DEFINE page == Slice(s, off, size)
<1>1. /\ page \in Seq(Ids) /\ DOMAIN page = 1..Len(page)
      /\ \A i \in 1..Len(page) :
           off + i \in 1..Cardinality(S) /\ i <= size /\ page[i] = s[off + i]
  BY PagePlaces
<1> HIDE DEF page
<1>2. Shown(w \o page) = Shown(w) \cup Shown(page)
  BY <1>1, ShownJoin
<1>3. \A x : Cardinality(Newer(x, S)) \in Nat
  <2>1. \A x : Newer(x, S) \in SUBSET Ids
    BY DEF Newer
  <2> QED
    BY <2>1, RankMono
<1>4. ASSUME NEW x \in Shown(w), Present(x) PROVE Cardinality(Newer(x, S)) < off + size
  <2>1. Cardinality(Newer(x, S)) < off
    BY <1>4 DEF Behind
  <2> QED
    BY <1>3, <2>1
<1>5. ASSUME NEW x \in Shown(page) PROVE Cardinality(Newer(x, S)) < off + size
  <2>1. PICK i \in 1..Len(page) : x = page[i]
    BY <1>1 DEF Shown
  <2>2. Cardinality(Newer(x, S)) <= (off + i) - 1 /\ i <= size
    BY <1>1, <2>1, OrderRanks
  <2> QED
    BY <1>3, <2>2
<1> QED
  BY <1>2, <1>4, <1>5 DEF Behind, page

\* Of the items Y of the result, a walk that has shown those it has passed shows
\* with the next page those that this page passes.
LEMMA JoinAll ==
  ASSUME TypeOK, NEW S \in SUBSET Ids, \A y \in S : Present(y), NEW s \in Orders(S),
         NEW off \in Nat, NEW size \in Nat, NEW w \in Seq(Ids), ~Tied(items),
         NEW y \in S, Cardinality(Newer(y, S)) < off => y \in Shown(w),
         Cardinality(Newer(y, S)) < off + size
  PROVE  y \in Shown(w \o Slice(s, off, size))
<1> DEFINE page == Slice(s, off, size)
           n == Cardinality(S)
<1>1. /\ page \in Seq(Ids) /\ DOMAIN page = 1..Len(page)
      /\ \A k \in 1..n : off < k /\ k <= off + size => \E i \in 1..Len(page) : page[i] = s[k]
  BY PagePlaces
<1>2. PICK k \in 1..n : y = s[k]
  BY OrderRanks
<1>3. Cardinality(Newer(y, S)) = k - 1
  BY <1>2, RankIsPlace
<1>4. Shown(w \o page) = Shown(w) \cup Shown(page)
  BY <1>1, ShownJoin
<1> HIDE DEF page, n
<1>5. CASE k <= off
  BY <1>3, <1>4, <1>5 DEF page
<1>6. CASE ~(k <= off)
  <2>1. off < k /\ k <= off + size
    BY <1>3, <1>6
  <2>2. PICK i \in 1..Len(page) : page[i] = y
    BY <1>1, <1>2, <2>1
  <2> QED
    BY <1>1, <1>4, <2>2 DEF Shown, page
<1> QED
  BY <1>5, <1>6

--------------------------------------------------------------------------------
(* The steps *)

\* All of a client's walk.
walk(c) == <<pc[c], filter[c], found[c], answer[c], total_pages[c], walked[c], stayed[c],
             entered[c], left[c], first[c]>>

LEMMA WalkKeeps ==
  ASSUME NEW c \in Clients, Books(c), GoodWalk(c), UNCHANGED <<items, used, tied, walk(c)>>
  PROVE  Books(c)' /\ GoodWalk(c)'
<1>1. UNCHANGED <<Result(c), Passed(c), Gathered(c), Walking(c), AtTheEnd(c)>>
  BY DEF walk, Result, Matching, Passed, Skipped, Gathered, Walking, Sized, AtTheEnd
<1>2. \A x : Rank(x, c)' = Rank(x, c)
  BY <1>1 DEF Rank, Newer
<1>3. Books(c)'
  BY <1>1 DEF walk, Books, Shown
<1>4. OnlyLeft(c) => OnlyLeft(c)'
  BY <1>1, <1>2 DEF walk, OnlyLeft, Sorted, LowRanks, OnceEach, Present, Shown
<1>5. OnlyEntered(c) => OnlyEntered(c)'
  BY <1>1, <1>2 DEF walk, OnlyEntered, NoneMissing, Shown
<1> QED
  BY <1>1, <1>3, <1>4, <1>5 DEF GoodWalk

\* A step of client c that leaves the table and the other walks alone.
LEMMA OneWalk ==
  ASSUME WalkInv, NEW c \in Clients, UNCHANGED <<items, used, tied>>,
         \A d \in Clients : d # c => UNCHANGED walk(d),
         Books(c)' /\ GoodWalk(c)'
  PROVE  WalkInv'
<1>1. TableBooks'
  BY DEF WalkInv, TableBooks, Present, Tied
<1>2. ASSUME NEW d \in Clients, d # c PROVE Books(d)' /\ GoodWalk(d)'
  BY <1>2, WalkKeeps DEF WalkInv
<1> QED
  BY <1>1, <1>2 DEF WalkInv

LEMMA EmptyWalk ==
  /\ Shown(<<>>) = {} /\ Sorted(<<>>) /\ OnceEach(<<>>)
BY DEF Shown, Sorted, OnceEach

LEMMA StartWalk ==
  ASSUME TypeInv, WalkInv, NEW c \in Clients, Start(c)
  PROVE  WalkInv'
<1>1. PICK p \in Params :
        /\ Idle(c) /\ filter[c] = Nothing
        /\ IF Throws(p)
           THEN Reply(c, 500) /\ UNCHANGED <<pc, filter, stayed, first>>
           ELSE /\ filter' = [filter EXCEPT ![c] = Decoded(p)]
                /\ pc' = [pc EXCEPT ![c] = Len(Calls)]
                /\ stayed' = [stayed EXCEPT ![c] = Matching(items, Decoded(p))]
                /\ first' = [first EXCEPT ![c] = Decoded(p).page]
                /\ UNCHANGED answer
        /\ UNCHANGED <<items, used, found, total, total_pages, writes, errors,
                       walked, entered, left, moved, tied>>
  BY DEF Start
<1>2. Books(c) /\ walked[c] = <<>> /\ pc[c] = 0
  BY <1>1 DEF WalkInv, Books, Idle
<1>3. CASE Throws(p)
  <2>1. answer' = [answer EXCEPT ![c] = 500] /\ UNCHANGED <<pc, filter, stayed, first>>
    BY <1>1, <1>3 DEF Reply
  <2>2. filter'[c] = Nothing /\ pc'[c] = 0 /\ answer'[c] = 500
    BY <1>1, <1>2, <2>1, Domains
  <2>3. Books(c)'
    BY <1>1, <1>2, <2>2 DEF Books
  <2>4. GoodWalk(c)'
    BY <2>2, NothingAssumption DEF GoodWalk, Walking, Sized
  <2>5. ASSUME NEW d \in Clients, d # c PROVE UNCHANGED walk(d)
    BY <1>1, <2>1, <2>5, Domains DEF walk
  <2> QED
    BY <1>1, <2>3, <2>4, <2>5, OneWalk
<1>4. CASE ~Throws(p)
  <2> DEFINE f == Decoded(p)
  <2>1. /\ filter' = [filter EXCEPT ![c] = f] /\ pc' = [pc EXCEPT ![c] = 2]
        /\ stayed' = [stayed EXCEPT ![c] = Matching(items, f)]
        /\ first' = [first EXCEPT ![c] = f.page]
        /\ UNCHANGED <<items, walked, found>>
    BY <1>1, <1>4 DEF Calls
  <2>2. /\ filter'[c] = f /\ pc'[c] = 2 /\ stayed'[c] = Matching(items, f) /\ first'[c] = f.page
        /\ items' = items /\ walked'[c] = <<>> /\ found'[c] = found[c] /\ used' = used
    BY <1>1, <1>2, <2>1, Domains
  <2>3. f \in Filters
    BY <1>4, DecodedType
  <2>4. Result(c)' = Matching(items, f) /\ Gathered(c)' = <<>>
    BY <2>2 DEF Result, Matching, Gathered
  <2>5. Books(c)'
    BY <1>2, <2>2, <2>3, <2>4, NothingAssumption, EmptyWalk DEF Books
  <2>6. OnlyLeft(c)'
    BY <2>4, EmptyWalk DEF OnlyLeft, Sorted, LowRanks, OnceEach, Shown
  <2>7. ASSUME first'[c] = 1 PROVE NoneMissing(c)'
    <3>1. Passed(c)' = 0
      <4>1. Passed(c)' = (f.page - 1) * f.page_size
        BY <2>2 DEF Passed, Skipped
      <4>2. f.page = 1 /\ f.page_size \in Int
        BY <2>2, <2>3, <2>7, IntAssumption DEF Filters, IntMin
      <4> QED
        BY <4>1, <4>2
    <3>2. \A y : Rank(y, c)' \in Nat
      <4>1. Result(c)' \in SUBSET Ids
        BY <2>4 DEF Matching
      <4>2. ASSUME NEW y PROVE Newer(y, Result(c))' \in SUBSET Ids
        BY <4>1 DEF Newer
      <4> QED
        BY <4>2, RankMono DEF Rank
    <3> QED
      BY <3>1, <3>2 DEF NoneMissing
  <2>8. OnlyEntered(c)'
    BY <2>2, <2>7 DEF OnlyEntered, AtTheEnd
  <2>9. ASSUME NEW d \in Clients, d # c PROVE UNCHANGED walk(d)
    BY <1>1, <1>4, <2>1, <2>9, Domains DEF walk
  <2> QED
    BY <1>1, <2>5, <2>6, <2>8, <2>9, OneWalk DEF GoodWalk
<1> QED
  BY <1>3, <1>4

LEMMA NextPageWalk ==
  ASSUME TypeInv, WalkInv, NEW c \in Clients, NextPage(c)
  PROVE  WalkInv'
<1> DEFINE f == filter[c]
<1>1. /\ pc[c] = 0 /\ answer[c] = 200 /\ f \in Filters
      /\ filter' = [filter EXCEPT ![c] = [f EXCEPT !.page = f.page + 1]]
      /\ pc' = [pc EXCEPT ![c] = 2]
      /\ UNCHANGED <<items, used, tied, found, answer, total_pages, walked, stayed,
                     entered, left, first>>
  BY DEF NextPage, Idle, Calls, TypeInv, CallInv
<1>2. pc'[c] = 2 /\ filter'[c] = [f EXCEPT !.page = f.page + 1]
  BY <1>1, Domains
<1>3. /\ filter'[c].page = f.page + 1 /\ filter'[c].page_size = f.page_size
      /\ f.page \in Int /\ f.page_size \in Int
  BY <1>1, <1>2, IntAssumption DEF Filters, IntMin
<1>4. Result(c)' = Result(c) /\ Gathered(c)' = Gathered(c)
  <2>1. \A r : Where(filter'[c], r) <=> Where(f, r)
    BY <1>1, <1>2 DEF Where, Filters
  <2> QED
    BY <1>1, <1>2, <2>1 DEF Result, Matching, Gathered
<1>5. Books(c) /\ GoodWalk(c)
  BY DEF WalkInv
<1>6. Books(c)'
  <2>1. filter[c] # Nothing
    BY DEF NextPage
  <2>2. TypeInv'
    BY NextTypeInv DEF Next
  <2>3. filter'[c] # Nothing
    BY <1>2, <2>2, NothingAssumption DEF TypeInv, CallInv
  <2> QED
    BY <1>1, <1>2, <1>4, <1>5, <2>1, <2>3 DEF Books
<1>7. ASSUME Walking(c)' PROVE OnlyLeft(c)' /\ OnlyEntered(c)'
  <2>1. /\ f.page + 1 > 0 /\ f.page_size > 0
        /\ ((f.page + 1) - 1) * f.page_size <= IntMax
    BY <1>3, <1>7 DEF Walking, Sized, Skipped
  <2>2. f.page > 0
    BY <1>1, <1>3, <1>5, <2>1 DEF Books
  <2>3. /\ Skipped(c)' = Skipped(c) + f.page_size
        /\ Skipped(c) \in Int /\ Skipped(c) <= IntMax
    <3>1. Skipped(c)' = ((f.page + 1) - 1) * f.page_size /\ Skipped(c) = (f.page - 1) * f.page_size
      BY <1>3 DEF Skipped
    <3>2. (f.page - 1) * f.page_size + f.page_size = ((f.page + 1) - 1) * f.page_size
      BY <1>3
    <3>3. (f.page - 1) * f.page_size \in Int
      BY <1>3
    <3>4. (f.page - 1) * f.page_size <= IntMax
      BY <1>3, <2>1, <3>2, <3>3, IntAssumption
    <3> QED
      BY <3>1, <3>2, <3>3, <3>4
  <2>4. Walking(c)
    BY <1>1, <2>1, <2>2, <2>3 DEF Walking, Sized
  <2>5. Passed(c)' = Passed(c)
    BY <1>1, <1>2, <2>3 DEF Passed
  <2>6. \A x : Rank(x, c)' = Rank(x, c)
    BY <1>1, <1>4 DEF Rank, Newer
  <2>7. OnlyLeft(c)'
    BY <1>1, <1>4, <1>5, <2>4, <2>5, <2>6
       DEF GoodWalk, OnlyLeft, Sorted, LowRanks, OnceEach, Present, Shown
  <2>8. OnlyEntered(c)'
    BY <1>1, <1>2, <1>4, <1>5, <2>4, <2>5, <2>6
       DEF GoodWalk, OnlyEntered, NoneMissing, AtTheEnd, Shown
  <2> QED
    BY <2>7, <2>8
<1>8. ASSUME NEW d \in Clients, d # c PROVE UNCHANGED walk(d)
  BY <1>1, <1>8, Domains DEF walk
<1> QED
  BY <1>1, <1>6, <1>7, <1>8, OneWalk DEF GoodWalk

LEMMA RefuseWalk ==
  ASSUME TypeInv, WalkInv, NEW c \in Clients, Refuse(c)
  PROVE  WalkInv'
<1>1. /\ pc' = [pc EXCEPT ![c] = 0] /\ answer' = [answer EXCEPT ![c] = 500]
      /\ UNCHANGED <<items, used, tied, filter, found, total_pages, walked, stayed,
                     entered, left, first>>
  BY DEF Refuse, Reply, history
<1>2. pc'[c] = 0 /\ answer'[c] = 500
  BY <1>1, Domains
<1>3. Books(c)'
  BY <1>1, <1>2 DEF WalkInv, Books, Result, Matching
<1>4. GoodWalk(c)'
  BY <1>2 DEF GoodWalk, Walking
<1>5. ASSUME NEW d \in Clients, d # c PROVE UNCHANGED walk(d)
  BY <1>1, <1>5, Domains DEF walk
<1> QED
  BY <1>1, <1>3, <1>4, <1>5, OneWalk

\* What the two calls change of other walks: nothing.
LEMMA ReturnWalks ==
  ASSUME TypeInv, NEW c \in Clients, NEW page, NEW count, Return(c, page, count)
  PROVE  /\ UNCHANGED <<items, used, tied>>
         /\ \A d \in Clients : d # c => UNCHANGED walk(d)
         /\ UNCHANGED <<filter, stayed, entered, left, first>>
         /\ pc'[c] = pc[c] - 1 /\ found'[c] = page
<1>1. UNCHANGED <<items, used, tied, filter, stayed, entered, left, first>>
  BY DEF Return
<1>2. pc'[c] = pc[c] - 1 /\ found'[c] = page
  BY DEF Return, TypeInv, TypeOK
<1>3. ASSUME NEW d \in Clients, d # c PROVE UNCHANGED walk(d)
  <2>1. UNCHANGED <<items, request(d)>>
    BY <1>3, ReturnOthers
  <2>2. walked'[d] = walked[d]
    BY <1>3 DEF Return, TypeInv, TypeOK
  <2> QED
    BY <1>1, <2>1, <2>2 DEF request, walk
<1> QED
  BY <1>1, <1>2, <1>3

\* The offset of a page that an int can hold.
LEMMA OffsetSkipped ==
  ASSUME NEW c \in Clients, Sized(c)
  PROVE  /\ Offset(filter[c]) = Skipped(c) /\ Skipped(c) \in Nat
         /\ filter[c].page_size \in Nat /\ filter[c].page_size > 0
<1>1. filter[c].page \in Nat \ {0} /\ filter[c].page_size \in Nat /\ filter[c].page_size > 0
  BY IntAssumption DEF Sized, Filters, IntMin
<1>2. (filter[c].page - 1) * filter[c].page_size \in Nat
  BY <1>1
<1>3. Skipped(c) \in 0..IntMax
  BY <1>2, IntAssumption DEF Sized, Skipped
<1>4. AsInt(Skipped(c)) = Skipped(c)
  BY <1>3, AsIntKeeps
<1> QED
  BY <1>1, <1>3, <1>4 DEF Offset, Skipped

\* find_all: the page joins the walk.
LEMMA FindAllWalk ==
  ASSUME TypeInv, WalkInv, NEW c \in Clients, FindAll(c)
  PROVE  WalkInv'
<1> DEFINE f == filter[c]
           S == Matching(items, f)
<1>1. pc[c] = 2 /\ f \in Filters
  BY CallingPlace DEF FindAll, TypeInv, CallInv
<1>2. CASE Refuse(c)
  BY <1>2, RefuseWalk
<1>3. ASSUME NEW s \in Orders(S), ~(Limit(f) < 0 \/ Offset(f) < 0),
             Return(c, Slice(s, Offset(f), Limit(f)), total[c])
      PROVE  WalkInv'
  <2> DEFINE page == Slice(s, Offset(f), Limit(f))
  <2>1. /\ UNCHANGED <<items, used, tied, filter, stayed, entered, left, first>>
        /\ \A d \in Clients : d # c => UNCHANGED walk(d)
        /\ pc'[c] = 1 /\ found'[c] = page /\ UNCHANGED walked
    <3>1. pc[c] > 1 /\ pc[c] - 1 = 1
      BY <1>1
    <3>2. UNCHANGED walked
      BY <1>3, <3>1 DEF Return
    <3> HIDE DEF page
    <3>3. Return(c, page, total[c])
      BY <1>3 DEF page
    <3> QED
      BY <3>1, <3>2, <3>3, ReturnWalks
  <2>2. S \in SUBSET Ids /\ (\A y \in S : Present(y)) /\ walked[c] \in Seq(Ids) /\ TypeOK
    BY ResultPresent DEF TypeInv, TypeOK
  <2>3. Offset(f) \in Nat /\ Limit(f) \in Nat
    <3>1. f.page \in Int /\ f.page_size \in Int
      BY <1>1, IntAssumption DEF Filters, IntMin
    <3>2. (f.page - 1) * f.page_size \in Int
      BY <3>1
    <3> QED
      BY <1>3, <3>1, <3>2, AsIntType DEF Offset, Limit
  <2>4. /\ page \in Seq(Ids) /\ DOMAIN page = 1..Len(page)
        /\ \A i \in 1..Len(page) : page[i] \in S
    <3>1. page \in Seq(S) /\ page \in Seq(Ids) /\ DOMAIN page = 1..Len(page)
      BY <2>2, <2>3, PagePlaces
    <3> HIDE DEF page
    <3> QED
      BY <3>1, ElementOfSeq
  <2> HIDE DEF S, page
  <2>5. Books(c) /\ GoodWalk(c) /\ TableBooks
    BY DEF WalkInv
  <2>6. Result(c) = S /\ Result(c)' = S
    BY <2>1 DEF Result, Matching, S
  <2>7. Books(c)'
    <3>1. Shown(page) \subseteq used
      BY <2>2, <2>4, <2>5 DEF Shown, TableBooks
    <3>2. f.page # 0 \/ f.page_size = 0
      <4>1. ASSUME f.page = 0, f.page_size # 0 PROVE FALSE
        <5>1. f.page_size \in 1..IntMax
          BY <1>1, <2>3, <4>1, IntAssumption DEF Filters, IntMin, Limit
        <5>2. (f.page - 1) * f.page_size = -f.page_size
          BY <4>1, <5>1
        <5>3. -f.page_size - IntMin \in Nat /\ IntMax - IntMin + 1 \in Nat
              /\ -f.page_size - IntMin < IntMax - IntMin + 1
          BY <5>1, IntAssumption DEF IntMin
        <5>4. (-f.page_size - IntMin) % (IntMax - IntMin + 1) = -f.page_size - IntMin
          BY <5>3
        <5>5. Offset(f) = (-f.page_size - IntMin) + IntMin
          BY <5>2, <5>4 DEF Offset, AsInt
        <5> QED
          BY <2>3, <5>1, <5>5, IntAssumption DEF IntMin
      <4> QED
        BY <4>1
    <3>3. /\ Shown(walked[c]) \subseteq used
          /\ f = Nothing => walked[c] = <<>>
          /\ f # Nothing => stayed[c] \subseteq S
      BY <2>5, <2>6 DEF Books
    <3>4. found'[c] = page /\ walked'[c] = walked[c] /\ filter'[c] = f /\ stayed'[c] = stayed[c]
          /\ used' = used
      BY <2>1
    <3> QED
      BY <2>6, <3>1, <3>2, <3>3, <3>4 DEF Books
  <2>8. ASSUME Walking(c)' PROVE OnlyLeft(c)' /\ OnlyEntered(c)'
    <3> DEFINE w == walked[c]
               off == Skipped(c)
               size == f.page_size
    <3>1. Sized(c)
      BY <2>1, <2>8 DEF Walking, Sized, Skipped
    <3>2. /\ Offset(f) = off /\ Limit(f) = size
          /\ off \in Nat /\ size \in Nat
      BY <3>1, OffsetSkipped DEF Limit
    <3>3. page = Slice(s, off, size) /\ s \in Orders(S)
      BY <1>3, <3>2 DEF page, S
    <3>4. Gathered(c) = w /\ Gathered(c)' = w \o page
      BY <1>1, <2>1 DEF Gathered
    <3>5. Passed(c) = off /\ Passed(c)' = off + size
      BY <1>1, <2>1 DEF Passed, Skipped
    <3>6. OnlyLeft(c) /\ OnlyEntered(c)
      BY <1>1, <2>5, <3>1 DEF GoodWalk, Walking
    <3>7. \A x : Rank(x, c) = Cardinality(Newer(x, S)) /\ Rank(x, c)' = Cardinality(Newer(x, S))
      BY <2>1, <2>6 DEF Rank, Newer
    <3> HIDE DEF off, size, w
    <3>8. OnlyLeft(c)'
      <4> SUFFICES ASSUME ~entered'[c]
                   PROVE  /\ Sorted(Gathered(c))' /\ LowRanks(c)'
                          /\ ~tied' => OnceEach(Gathered(c))'
        BY DEF OnlyLeft
      <4>1. Sorted(w) /\ LowRanks(c) /\ (~tied => OnceEach(w))
        BY <2>1, <3>4, <3>6 DEF OnlyLeft
      <4>2. Behind(w, S, off)
        BY <3>4, <3>5, <3>7, <4>1 DEF LowRanks, Behind
      <4>3. Sorted(w \o page)
        BY <2>2, <3>2, <3>3, <4>1, <4>2, JoinSorted DEF w
      <4>4. Sorted(Gathered(c))'
        BY <2>1, <3>4, <4>3 DEF Sorted, Present
      <4>5. Behind(w \o page, S, off + size)
        BY <2>2, <3>2, <3>3, <4>2, JoinBehind DEF w
      <4>6. LowRanks(c)'
        BY <2>1, <3>4, <3>5, <3>7, <4>5 DEF LowRanks, Behind, Present
      <4>7. ASSUME ~tied' PROVE OnceEach(Gathered(c))'
        <5>1. ~Tied(items) /\ OnceEach(w)
          BY <2>1, <2>5, <4>1, <4>7 DEF TableBooks
        <5>2. OnceEach(w \o page)
          BY <2>2, <3>2, <3>3, <4>2, <5>1, JoinOnce DEF w
        <5> QED
          BY <3>4, <5>2 DEF OnceEach
      <4> QED
        BY <4>4, <4>6, <4>7
    <3>9. OnlyEntered(c)'
      <4> SUFFICES ASSUME first'[c] = 1, ~left'[c], ~tied'
                   PROVE  NoneMissing(c)'
        BY <2>1 DEF OnlyEntered, AtTheEnd
      <4>1. NoneMissing(c) /\ ~Tied(items)
        BY <2>1, <2>5, <3>6 DEF OnlyEntered, TableBooks
      <4>2. stayed[c] \subseteq S
        BY <1>1, <2>5, <2>6, NothingAssumption DEF Books
      <4>3. ASSUME NEW y \in stayed[c], Cardinality(Newer(y, S)) < off + size
            PROVE  y \in Shown(w \o page)
        <5>1. Cardinality(Newer(y, S)) < off => y \in Shown(w)
          BY <3>4, <3>5, <3>7, <4>1 DEF NoneMissing
        <5> QED
          BY <2>2, <3>2, <3>3, <4>1, <4>2, <4>3, <5>1, JoinAll DEF w
      <4> QED
        BY <2>1, <3>4, <3>5, <3>7, <4>3 DEF NoneMissing
    <3> QED
      BY <3>8, <3>9
  <2> QED
    BY <2>1, <2>7, <2>8, OneWalk DEF GoodWalk
<1> QED
  BY <1>2, <1>3 DEF FindAll

\* When the last page there is was read, the pages reach beyond every rank.
LEMMA LastPageEnds ==
  ASSUME NEW n \in Nat, NEW size \in Nat, size > 0, NEW k \in Int,
         NEW m \in TotalPages(n, size), k >= m
  PROVE  n <= (k - 1) * size + size
<1> DEFINE q == (-n) \div size
<1>1. q \in Int /\ size * q <= -n
  BY Floor
<1>2. m = -q
  BY DEF TotalPages
<1> HIDE DEF q
<1>3. (-q) * size <= k * size
  BY <1>1, <1>2, TimesMono
<1>4. n <= (-q) * size
  BY <1>1
<1>5. (k - 1) * size + size = k * size /\ k * size \in Int /\ (-q) * size \in Int
  BY <1>1
<1> QED
  BY <1>3, <1>4, <1>5

LEMMA RankBelowSize ==
  ASSUME NEW S \in SUBSET Ids, NEW y \in S, items[y].created_at \in Int
  PROVE  Cardinality(Newer(y, S)) < Cardinality(S)
<1>1. IsFiniteSet(S) /\ Cardinality(S) \in Nat
  BY RankMono
<1>2. Cardinality(S \ {y}) = Cardinality(S) - 1
  BY <1>1, FS_RemoveElement
<1>3. Newer(y, S) \in SUBSET (S \ {y})
  BY DEF Newer
<1>4. S \ {y} \in SUBSET Ids
  OBVIOUS
<1>5. Cardinality(Newer(y, S)) <= Cardinality(S \ {y}) /\ Cardinality(Newer(y, S)) \in Nat
  BY <1>3, <1>4, RankMono
<1> QED
  BY <1>1, <1>2, <1>5

\* count: the page counts as shown; if it was the last, every rank is passed.
LEMMA CountWalk ==
  ASSUME TypeInv, WalkInv, NEW c \in Clients, Count(c)
  PROVE  WalkInv'
<1> DEFINE f == filter[c]
           S == Matching(items, f)
<1>1. pc[c] = 1 /\ f \in Filters
  BY CallingPlace DEF Count, TypeInv, CallInv
<1>2. CASE Refuse(c)
  BY <1>2, RefuseWalk
<1>3. CASE Return(c, found[c], Counted(f))
  <2>1. /\ UNCHANGED <<items, used, tied, filter, stayed, entered, left, first>>
        /\ \A d \in Clients : d # c => UNCHANGED walk(d)
        /\ pc'[c] = 0 /\ found'[c] = found[c]
    <3>1. pc[c] - 1 = 0
      BY <1>1
    <3> QED
      BY <1>3, <3>1, ReturnWalks
  <2>2. walked'[c] = walked[c] \o found[c]
    BY <1>1, <1>3 DEF Return, TypeInv, TypeOK
  <2>3. total_pages'[c] \in TotalPages(Counted(f), f.page_size)
    <3>1. PICK m \in TotalPages(Counted(f), f.page_size) :
            total_pages' = [total_pages EXCEPT ![c] = m]
      BY <1>1, <1>3 DEF Return
    <3> QED
      BY <3>1 DEF TypeInv, TypeOK
  <2>4. walked[c] \in Seq(Ids) /\ found[c] \in Seq(Ids)
    BY DEF TypeInv, TypeOK
  <2>5. Books(c) /\ GoodWalk(c)
    BY DEF WalkInv
  <2>6. Result(c) = S /\ Result(c)' = S /\ S \in SUBSET Ids /\ Counted(f) = Cardinality(S)
        /\ \A y \in S : Present(y)
    <3>1. Counted(f) = Cardinality(S)
      BY CountedMatching
    <3> QED
      BY <2>1, <3>1, ResultPresent DEF Result, Matching
  <2> HIDE DEF S
  <2>7. Gathered(c)' = walked'[c] /\ Gathered(c)' = Gathered(c)
    BY <1>1, <2>1, <2>2 DEF Gathered
  <2>8. Books(c)'
    <3>1. Shown(walked'[c]) \subseteq used
      BY <2>2, <2>4, <2>5, ShownJoin DEF Books
    <3>2. f # Nothing
      BY <1>1, NothingAssumption
    <3>3. found'[c] = found[c] /\ filter'[c] = f /\ stayed'[c] = stayed[c] /\ used' = used
      BY <2>1
    <3> QED
      BY <1>1, <2>5, <2>6, <3>1, <3>2, <3>3 DEF Books
  <2>9. ASSUME Walking(c)' PROVE OnlyLeft(c)' /\ OnlyEntered(c)'
    <3>1. Sized(c)
      BY <2>1, <2>9 DEF Walking, Sized, Skipped
    <3>2. Passed(c) = Skipped(c) + f.page_size /\ Passed(c)' = Passed(c)
      BY <1>1, <2>1 DEF Passed, Skipped
    <3>3. OnlyLeft(c) /\ OnlyEntered(c)
      BY <1>1, <2>5, <3>1 DEF GoodWalk, Walking
    <3>4. \A x : Rank(x, c) = Cardinality(Newer(x, S)) /\ Rank(x, c)' = Cardinality(Newer(x, S))
      BY <2>1, <2>6 DEF Rank, Newer
    <3>5. OnlyLeft(c)'
      BY <2>1, <2>7, <3>2, <3>3, <3>4
         DEF OnlyLeft, Sorted, LowRanks, OnceEach, Present, Shown
    <3>6. ASSUME first'[c] = 1, ~left'[c], ~tied'
          PROVE  /\ NoneMissing(c)'
                 /\ AtTheEnd(c)' => stayed'[c] \subseteq Shown(walked'[c])
      <4>1. NoneMissing(c)
        BY <2>1, <3>3, <3>6 DEF OnlyEntered
      <4>2. NoneMissing(c)'
        BY <2>1, <2>7, <3>2, <3>4, <4>1 DEF NoneMissing, Shown
      <4>3. ASSUME AtTheEnd(c)', NEW y \in stayed[c] PROVE y \in Shown(walked'[c])
        <5>1. y \in S
          BY <1>1, <2>5, <2>6, NothingAssumption DEF Books
        <5>2. items[y].created_at \in Int
          BY <2>6, <5>1, TimeType DEF TypeInv
        <5>3. Cardinality(Newer(y, S)) < Cardinality(S)
          BY <2>6, <5>1, <5>2, RankBelowSize
        <5>4. Cardinality(S) <= Passed(c)
          <6>1. f.page \in Int /\ f.page_size \in Nat /\ f.page_size > 0
            BY <1>1, <3>1, OffsetSkipped, IntAssumption DEF Filters, IntMin
          <6>2. f.page >= total_pages'[c]
            BY <2>1, <4>3 DEF AtTheEnd
          <6>3. Cardinality(S) \in Nat
            BY <2>6, RankMono
          <6>4. total_pages'[c] \in TotalPages(Cardinality(S), f.page_size)
            BY <2>3, <2>6
          <6>5. Cardinality(S) <= (f.page - 1) * f.page_size + f.page_size
            BY <6>1, <6>2, <6>3, <6>4, LastPageEnds
          <6> QED
            BY <3>2, <6>5 DEF Skipped
        <5>5. Cardinality(Newer(y, S)) < Passed(c)
          <6>1. Newer(y, S) \in SUBSET Ids
            BY <2>6 DEF Newer
          <6>2. Cardinality(S) \in Nat /\ Cardinality(Newer(y, S)) \in Nat
            BY <2>6, <6>1, RankMono
          <6>3. Passed(c) \in Int
            BY <3>1, <3>2, OffsetSkipped
          <6> QED
            BY <5>3, <5>4, <6>2, <6>3
        <5>6. y \in Shown(Gathered(c))
          BY <3>4, <4>1, <4>3, <5>5 DEF NoneMissing
        <5> QED
          BY <2>7, <5>6
      <4> QED
        BY <2>1, <4>2, <4>3
    <3> QED
      BY <3>5, <3>6 DEF OnlyEntered, Shown
  <2> QED
    BY <2>1, <2>8, <2>9, OneWalk DEF GoodWalk
<1> QED
  BY <1>2, <1>3 DEF Count

\* A write gives no id a second row, and no row another time.
TimesStay(table) ==
  /\ table \in [Ids -> Rows \cup {Nothing}]
  /\ used \subseteq used'
  /\ \A id \in Ids : table[id] # Nothing =>
       /\ id \in used'
       /\ id \in used => Present(id) /\ table[id].created_at = items[id].created_at

\* A write: while items only leave, ranks fall; while they only enter, ranks rise.
LEMMA WriteWalk ==
  ASSUME TypeInv, WalkInv, NEW table, TimesStay(table), Write(table)
  PROVE  WalkInv'
<1>1. /\ items' = table
      /\ UNCHANGED <<pc, filter, found, answer, total_pages, walked, first>>
      /\ tied' = (tied \/ Tied(table))
  BY DEF Write
<1>2. TableBooks'
  BY <1>1 DEF TimesStay, TableBooks, Present, Tied
<1>3. ASSUME NEW c \in Clients PROVE Books(c)' /\ GoodWalk(c)'
  <2> DEFINE f == filter[c]
             R == Matching(items, f)
             T == Matching(table, f)
  <2>1. Books(c) /\ GoodWalk(c) /\ TableBooks
    BY DEF WalkInv
  <2>2. f # Nothing => /\ stayed'[c] = stayed[c] \cap T
                       /\ entered'[c] = (entered[c] \/ ~(T \subseteq R))
                       /\ left'[c] = (left[c] \/ ~(R \subseteq T))
    BY DEF Write
  <2>3. Result(c) = R /\ Result(c)' = T
    BY <1>1 DEF Result, Matching
  <2>4. /\ R \in SUBSET Ids /\ T \in SUBSET Ids
        /\ \A y \in R : Present(y) /\ y \in used
        /\ \A y \in T : table[y] # Nothing
    BY <2>1 DEF Matching, Present, TableBooks
  <2> HIDE DEF R, T
  <2>5. Books(c)'
    <3>1. /\ filter'[c] = f /\ pc'[c] = pc[c] /\ answer'[c] = answer[c]
          /\ walked'[c] = walked[c] /\ found'[c] = found[c] /\ used \subseteq used'
      BY <1>1 DEF TimesStay
    <3>2. f # Nothing => stayed'[c] \subseteq T
      BY <2>2
    <3> QED
      BY <2>1, <2>3, <3>1, <3>2 DEF Books
  <2>6. ASSUME Walking(c)' PROVE OnlyLeft(c)' /\ OnlyEntered(c)'
    <3>1. Walking(c) /\ f # Nothing
      BY <1>1, <2>6, NothingAssumption DEF Walking, Sized, Skipped
    <3>2. OnlyLeft(c) /\ OnlyEntered(c)
      BY <2>1, <3>1 DEF GoodWalk
    <3>3. /\ Gathered(c)' = Gathered(c) /\ Passed(c)' = Passed(c) /\ Passed(c) \in Int
          /\ AtTheEnd(c)' = AtTheEnd(c)
      <4>1. Passed(c) \in Int
        BY <3>1, OffsetSkipped DEF Passed, Walking
      <4> QED
        BY <1>1, <4>1 DEF Gathered, Passed, Skipped, AtTheEnd
    <3>4. Shown(Gathered(c)) \subseteq used
      <4>1. walked[c] \in Seq(Ids) /\ found[c] \in Seq(Ids)
        BY DEF TypeInv, TypeOK
      <4> QED
        BY <2>1, <4>1, ShownJoin DEF Books, Gathered
    <3>5. \A x \in used : x \in Ids /\ (table[x] # Nothing => Present(x)
                            /\ table[x].created_at = items[x].created_at)
      BY DEF TimesStay, TypeInv, TypeOK
    <3>6. /\ \A x : Rank(x, c) = Cardinality(Newer(x, R))
          /\ \A x : Rank(x, c)' = Cardinality({y \in T : table[y].created_at > table[x].created_at})
      BY <1>1, <2>3 DEF Rank, Newer
    <3>7. OnlyLeft(c)'
      <4> SUFFICES ASSUME ~entered'[c]
                   PROVE  /\ Sorted(Gathered(c))' /\ LowRanks(c)'
                          /\ ~tied' => OnceEach(Gathered(c))'
        BY DEF OnlyLeft
      <4>1. T \subseteq R /\ Sorted(Gathered(c)) /\ LowRanks(c) /\ (~tied => OnceEach(Gathered(c)))
        BY <2>2, <3>1, <3>2 DEF OnlyLeft
      <4>2. Sorted(Gathered(c))'
        <5>1. \A i \in DOMAIN Gathered(c) : Gathered(c)[i] \in used
          BY <3>4 DEF Shown
        <5> QED
          BY <1>1, <3>3, <3>5, <4>1, <5>1 DEF Sorted, Present
      <4>3. ASSUME NEW x \in Shown(Gathered(c)), table[x] # Nothing
            PROVE  Rank(x, c)' < Passed(c)
        <5> DEFINE U == {y \in T : table[y].created_at > table[x].created_at}
        <5>1. x \in used /\ Present(x) /\ table[x].created_at = items[x].created_at
          BY <3>4, <3>5, <4>3
        <5>2. U \in SUBSET Newer(x, R)
          BY <2>4, <3>5, <4>1, <5>1 DEF Newer
        <5>3. Newer(x, R) \in SUBSET Ids
          BY <2>4 DEF Newer
        <5>4. Cardinality(Newer(x, R)) < Passed(c)
          BY <3>6, <4>1, <4>3, <5>1 DEF LowRanks
        <5> HIDE DEF U
        <5>5. /\ Cardinality(U) <= Cardinality(Newer(x, R))
              /\ Cardinality(U) \in Nat /\ Cardinality(Newer(x, R)) \in Nat
          BY <5>2, <5>3, RankMono
        <5>6. Cardinality(U) < Passed(c)
          BY <3>3, <5>4, <5>5
        <5> QED
          BY <3>6, <5>6 DEF U
      <4>4. LowRanks(c)'
        BY <1>1, <3>3, <4>3 DEF LowRanks, Present, Shown
      <4>5. ~tied' => OnceEach(Gathered(c))'
        BY <1>1, <3>3, <4>1 DEF OnceEach
      <4> QED
        BY <4>2, <4>4, <4>5
    <3>8. ASSUME first'[c] = 1, ~left'[c], ~tied'
          PROVE  /\ NoneMissing(c)'
                 /\ AtTheEnd(c)' => stayed'[c] \subseteq Shown(walked'[c])
      <4>1. /\ R \subseteq T /\ stayed'[c] \subseteq stayed[c] /\ stayed[c] \subseteq R
            /\ NoneMissing(c) /\ (AtTheEnd(c) => stayed[c] \subseteq Shown(walked[c]))
        BY <1>1, <2>1, <2>2, <2>3, <3>1, <3>2, <3>8 DEF OnlyEntered, Books
      <4>2. ASSUME NEW y \in stayed'[c], Rank(y, c)' < Passed(c) PROVE Rank(y, c) < Passed(c)
        <5> DEFINE U == {z \in T : table[z].created_at > table[y].created_at}
        <5>1. \A z \in R : table[z].created_at = items[z].created_at
          BY <2>4, <3>5, <4>1
        <5>2. y \in R
          BY <4>1
        <5>3. Newer(y, R) \in SUBSET U
          BY <4>1, <5>1, <5>2 DEF Newer
        <5>4. U \in SUBSET Ids
          BY <2>4
        <5>5. Cardinality(U) < Passed(c)
          BY <3>6, <4>2
        <5> HIDE DEF U
        <5>6. /\ Cardinality(Newer(y, R)) <= Cardinality(U)
              /\ Cardinality(U) \in Nat /\ Cardinality(Newer(y, R)) \in Nat
          BY <5>3, <5>4, RankMono
        <5>7. Cardinality(Newer(y, R)) < Passed(c)
          BY <3>3, <5>5, <5>6
        <5> QED
          BY <3>6, <5>7
      <4>3. NoneMissing(c)'
        BY <3>3, <4>1, <4>2 DEF NoneMissing, Shown
      <4>4. AtTheEnd(c)' => stayed'[c] \subseteq Shown(walked'[c])
        BY <1>1, <3>3, <4>1
      <4> QED
        BY <4>3, <4>4
    <3> QED
      BY <3>7, <3>8 DEF OnlyEntered, Shown
  <2> QED
    BY <2>5, <2>6 DEF GoodWalk
<1> QED
  BY <1>2, <1>3 DEF WalkInv

\* Ids are not used twice, and created_at is not among the columns of an UPDATE.
LEMMA WritersKeepTimes ==
  ASSUME TypeInv, WalkInv, SaveItem \/ UpdateItem \/ RemoveItem
  PROVE  \E table : TimesStay(table) /\ Write(table)
<1>1. /\ items \in [Ids -> Rows \cup {Nothing}] /\ used \in SUBSET Ids
      /\ \A id \in Ids : items[id] # Nothing => id \in used
  BY DEF TypeInv, TypeOK, WalkInv, TableBooks, Present
<1>2. CASE SaveItem
  <2>1. PICK id \in Ids \ used, r \in Rows :
          Write([items EXCEPT ![id] = r]) /\ used' = used \cup {id}
    BY <1>2 DEF SaveItem
  <2>2. TimesStay([items EXCEPT ![id] = r])
    BY <1>1, <2>1 DEF TimesStay, Present
  <2> QED
    BY <2>1, <2>2
<1>3. CASE UpdateItem
  <2>1. PICK id \in Ids, r \in Rows :
          /\ Present(id) /\ r.created_at = items[id].created_at
          /\ Write([items EXCEPT ![id] = r]) /\ used' = used
    BY <1>3 DEF UpdateItem
  <2>2. TimesStay([items EXCEPT ![id] = r])
    BY <1>1, <2>1 DEF TimesStay, Present
  <2> QED
    BY <2>1, <2>2
<1>4. CASE RemoveItem
  <2>1. PICK id \in Ids : Write([items EXCEPT ![id] = Nothing]) /\ used' = used
    BY <1>4 DEF RemoveItem
  <2>2. TimesStay([items EXCEPT ![id] = Nothing])
    BY <1>1, <2>1 DEF TimesStay, Present
  <2> QED
    BY <2>1, <2>2
<1> QED
  BY <1>2, <1>3, <1>4

LEMMA InitWalkInv == Init => WalkInv
<1> SUFFICES ASSUME Init PROVE WalkInv
  OBVIOUS
<1>1. TableBooks
  BY DEF Init, TableBooks
<1>2. ASSUME NEW c \in Clients PROVE Books(c) /\ GoodWalk(c)
  <2>1. /\ walked[c] = <<>> /\ found[c] = <<>> /\ filter[c] = Nothing /\ pc[c] = 0 /\ answer[c] = 0
    BY DEF Init
  <2>2. Books(c)
    BY <2>1, EmptyWalk DEF Books
  <2>3. GoodWalk(c)
    BY <2>1 DEF GoodWalk, Walking
  <2> QED
    BY <2>2, <2>3
<1> QED
  BY <1>1, <1>2 DEF WalkInv

LEMMA NextWalkInv == TypeInv /\ WalkInv /\ [Next]_vars => WalkInv'
<1> SUFFICES ASSUME TypeInv, WalkInv, [Next]_vars PROVE WalkInv'
  OBVIOUS
<1>1. CASE SaveItem \/ UpdateItem \/ RemoveItem
  BY <1>1, WritersKeepTimes, WriteWalk
<1>2. CASE UNCHANGED vars
  <2>1. /\ UNCHANGED <<items, used, tied>> /\ \A c \in Clients : UNCHANGED walk(c)
    BY <1>2 DEF vars, walk
  <2>2. TableBooks'
    BY <2>1 DEF WalkInv, TableBooks, Present, Tied
  <2>3. \A c \in Clients : Books(c)' /\ GoodWalk(c)'
    BY <2>1, WalkKeeps DEF WalkInv
  <2> QED
    BY <2>2, <2>3 DEF WalkInv
<1> QED
  BY <1>1, <1>2, StartWalk, NextPageWalk, FindAllWalk, CountWalk DEF Next, Terminated

\* A client with its response has gathered what it has walked.
LEMMA AnsweredWalk ==
  ASSUME TypeInv, WalkInv, NEW c \in Clients, Answered(c)
  PROVE  pc[c] = 0 /\ Gathered(c) = walked[c] /\ OnlyLeft(c) /\ OnlyEntered(c)
<1>1. pc[c] = 0 /\ Walking(c)
  BY DEF Answered, Idle, Walking, Sized, Skipped, TypeInv, CallInv
<1> QED
  BY <1>1 DEF WalkInv, GoodWalk, Gathered

\* A walk over the pages shows no item twice, as long as items only go: at any
\* number of pages and of writes in between.
THEOREM ShownOnce == Spec => []NothingTwice
<1>1. TypeInv /\ WalkInv => NothingTwice
  BY AnsweredWalk DEF OnlyLeft, OnceEach, NothingTwice
<1> QED
  BY <1>1, InitTypeInv, NextTypeInv, InitWalkInv, NextWalkInv, PTL DEF Spec

\* A walk shows the newest items first, across its pages, as long as items only
\* go, and those of one time in any order.
THEOREM ShownInOrder == Spec => []NewestFirst
<1>1. TypeInv /\ WalkInv => NewestFirst
  BY AnsweredWalk DEF OnlyLeft, Sorted, NewestFirst
<1> QED
  BY <1>1, InitTypeInv, NextTypeInv, InitWalkInv, NextWalkInv, PTL DEF Spec

\* A walk from page 1 to the last misses no item that was in the result all the
\* time, as long as items only come in.
THEOREM ShownAll == Spec => []WalkMissesNothing
<1>1. TypeInv /\ WalkInv => WalkMissesNothing
  BY AnsweredWalk DEF OnlyEntered, AtTheEnd, Shown, WalkMissesNothing
<1> QED
  BY <1>1, InitTypeInv, NextTypeInv, InitWalkInv, NextWalkInv, PTL DEF Spec
================================================================================
