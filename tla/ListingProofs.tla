----------------------------- MODULE ListingProofs -----------------------------
(***************************************************************************)
(* What TLAPS proves of Listing for every table, every query, any number   *)
(* of clients, pages and writes: the types, and that the two queries of a  *)
(* request agree unless a write came between them.                         *)
(*                                                                         *)
(* PageInv says what find_all has left behind: a page as long as the       *)
(* result at that moment makes it.  It lasts until count runs, because a   *)
(* write that changes the result says so in `moved`.                       *)
(***************************************************************************)
EXTENDS Listing, FiniteSetTheorems, SequenceTheorems, TLAPS

--------------------------------------------------------------------------------
(* Arithmetic *)

LEMMA Floor ==
  ASSUME NEW n \in Int, NEW s \in Int, s > 0
  PROVE  n \div s \in Int /\ s * (n \div s) <= n /\ n < s * ((n \div s) + 1)
OBVIOUS

LEMMA TimesMono ==
  ASSUME NEW a \in Int, NEW b \in Int, NEW s \in Nat, a <= b
  PROVE  a * s <= b * s
OBVIOUS

\* An int keeps a value that it can hold.
LEMMA AsIntKeeps == ASSUME NEW n \in 0..IntMax PROVE AsInt(n) = n
<1>1. /\ n - IntMin \in Int /\ IntMax - IntMin + 1 \in Int
      /\ 0 <= n - IntMin /\ n - IntMin < IntMax - IntMin + 1
  BY IntAssumption DEF IntMin
<1>2. (n - IntMin) % (IntMax - IntMin + 1) = n - IntMin
  BY <1>1
<1>3. IntMin \in Int /\ n \in Int
  BY IntAssumption DEF IntMin
<1> QED
  BY <1>2, <1>3 DEF AsInt

LEMMA AsIntType == ASSUME NEW n \in Int PROVE AsInt(n) \in Int
<1>1. n - IntMin \in Int /\ IntMax - IntMin + 1 \in Int /\ IntMax - IntMin + 1 > 0 /\ IntMin \in Int
  BY IntAssumption DEF IntMin
<1>2. (n - IntMin) % (IntMax - IntMin + 1) \in Int
  BY <1>1
<1> QED
  BY <1>1, <1>2 DEF AsInt

\* The number of pages is one that an int can hold.
LEMMA TotalPagesType ==
  ASSUME NEW n \in 0..Cardinality(Ids), NEW size \in 0..IntMax, NEW m \in TotalPages(n, size)
  PROVE  m \in IntMin..IntMax
<1>1. CASE size = 0
  BY <1>1, IntAssumption DEF TotalPages, IntMin
<1>2. CASE size # 0
  <2>1. m = -((-n) \div size) /\ size > 0
    BY <1>2, IntAssumption DEF TotalPages
  <2>2. Cardinality(Ids) \in Nat /\ Cardinality(Ids) <= IntMax
    BY RowsAssumption, FS_CardinalityType
  <2>3. m \in 0..n
    BY <2>1, <2>2, IntAssumption
  <2> QED
    BY <2>2, <2>3, IntAssumption DEF IntMin
<1> QED
  BY <1>1, <1>2

--------------------------------------------------------------------------------
(* The queries *)

LEMMA IdsFinite ==
  /\ Cardinality(Ids) \in Nat
  /\ \A S \in SUBSET Ids : Cardinality(S) \in 0..Cardinality(Ids)
<1>1. Cardinality(Ids) \in Nat
  BY RowsAssumption, FS_CardinalityType
<1>2. ASSUME NEW S \in SUBSET Ids PROVE Cardinality(S) \in 0..Cardinality(Ids)
  <2>1. IsFiniteSet(S) /\ Cardinality(S) <= Cardinality(Ids)
    BY RowsAssumption, FS_Subset
  <2>2. Cardinality(S) \in Nat
    BY <2>1, FS_CardinalityType
  <2> QED
    BY <1>1, <2>1, <2>2
<1> QED
  BY <1>1, <1>2

\* Both queries ask for the same items: their conditions, written twice, agree.
LEMMA CountedMatching ==
  ASSUME NEW f PROVE Counted(f) = Cardinality(Matching(items, f)) /\ Counted(f) \in 0..Cardinality(Ids)
<1>1. {id \in Ids : Present(id) /\ CountWhere(f, items[id])} = Matching(items, f)
  BY DEF Matching, Present, CountWhere, Where
<1>2. Matching(items, f) \in SUBSET Ids
  BY DEF Matching
<1> QED
  BY <1>1, <1>2, IdsFinite DEF Counted

\* How long a page is that starts after `before` items of n.
PageLength(before, size, n) == IF before >= n THEN 0 ELSE Smaller(size, n - before)

LEMMA SliceLength ==
  ASSUME NEW S \in SUBSET Ids, NEW s \in Orders(S), NEW offset \in Nat, NEW limit \in Nat
  PROVE  /\ Slice(s, offset, limit) \in Seq(Ids)
         /\ Len(Slice(s, offset, limit)) = PageLength(offset, limit, Cardinality(S))
<1> DEFINE n == Cardinality(S)
           end == Smaller(offset + limit, n)
<1>1. n \in Nat
  BY IdsFinite
<1>2. s \in [1..n -> S] /\ s \in Seq(Ids) /\ Len(s) = n
  <2>1. s \in [1..n -> S]
    BY DEF Orders
  <2>2. s \in Seq(S)
    BY <1>1, <2>1, SeqDef
  <2>3. s \in [1..n -> Ids]
    BY <2>1
  <2> HIDE DEF n
  <2>4. s \in Seq(Ids) /\ Len(s) = n
    BY <1>1, <2>1, <2>3, SeqDef, LenProperties
  <2> QED
    BY <2>1, <2>4
<1> HIDE DEF n
<1>3. end \in Nat /\ end <= n
  BY <1>1 DEF Smaller
<1>4. \A i \in (offset + 1)..end : s[i] \in Ids
  <2>1. \A i \in (offset + 1)..end : i \in 1..n
    BY <1>1, <1>3
  <2> QED
    BY <1>2, <2>1
<1>5. Slice(s, offset, limit) = SubSeq(s, offset + 1, end)
  BY <1>2 DEF Slice
<1> HIDE DEF end
<1>6. /\ SubSeq(s, offset + 1, end) \in Seq(Ids)
      /\ Len(SubSeq(s, offset + 1, end)) = IF offset + 1 <= end THEN end - (offset + 1) + 1 ELSE 0
  BY <1>3, <1>4, SubSeqProperties
<1>7. (IF offset + 1 <= end THEN end - (offset + 1) + 1 ELSE 0) = PageLength(offset, limit, n)
  BY <1>1, <1>3 DEF PageLength, Smaller, end
<1> QED
  BY <1>5, <1>6, <1>7 DEF n

--------------------------------------------------------------------------------
(* Types *)

\* A client inside a request or with a page in hand has a filter; a page that
\* was read had a size that is not negative.
CallInv ==
  \A c \in Clients :
    /\ pc[c] > 0 \/ answer[c] = 200 => filter[c] \in Filters
    /\ pc[c] = 1 \/ answer[c] = 200 => filter[c].page_size >= 0

TypeInv == TypeOK /\ CallInv

LEMMA DecodedType ==
  ASSUME NEW p \in Params, ~Throws(p)
  PROVE  Decoded(p) \in Filters
<1>1. p \in Requests
  BY ParamsAssumption
<1>2. /\ p.page \in IntMin..IntMax \cup {Unset} /\ p.page_size \in IntMin..IntMax \cup {Unset}
      /\ p.min_stock \in Number /\ p.max_price \in Number
  BY <1>1 DEF Requests, Throws
<1>3. 1 \in IntMin..IntMax /\ 20 \in IntMin..IntMax
  BY IntAssumption DEF IntMin
<1>4. /\ (IF p.status \in Statuses THEN p.status ELSE Unset) \in Statuses \cup {Unset}
      /\ (IF p.page = Unset THEN 1 ELSE p.page) \in IntMin..IntMax
      /\ (IF p.page_size = Unset THEN 20 ELSE p.page_size) \in IntMin..IntMax
  BY <1>2, <1>3
<1> QED
  BY <1>1, <1>2, <1>4 DEF Decoded, Requests, Filters

LEMMA InitTypeInv == Init => TypeInv
<1> SUFFICES ASSUME Init PROVE TypeInv
  OBVIOUS
<1>1. items \in [Ids -> Rows \cup {Nothing}] /\ used \in SUBSET Ids
  BY InitTablesAssumption DEF Init
<1>2. tied \in BOOLEAN
  BY DEF Init, Tied
<1>3. <<>> \in Seq(Ids)
  BY EmptySeq
<1>4. /\ 0 \in IntMin..IntMax /\ 0 \in 0..Cardinality(Ids)
      /\ 0 \in 0..MaxWrites /\ 0 \in 0..MaxErrors
  BY IntAssumption, BoundsAssumption, IdsFinite DEF IntMin
<1>5. CallInv
  BY DEF Init, CallInv
<1> QED
  BY <1>1, <1>2, <1>3, <1>4, <1>5 DEF Init, TypeInv, TypeOK

\* The functions that a client's steps change.
LEMMA Domains ==
  ASSUME TypeInv
  PROVE  /\ pc \in [Clients -> 0..2] /\ filter \in [Clients -> Filters \cup {Nothing}]
         /\ answer \in [Clients -> {0, 200, 500}]
         /\ stayed \in [Clients -> SUBSET Ids] /\ first \in [Clients -> IntMin..IntMax]
         /\ moved \in [Clients -> BOOLEAN]
BY DEF TypeInv, TypeOK

\* find_all is a request's first call, count its last.
LEMMA CallingPlace ==
  ASSUME TypeOK, NEW c \in Clients
  PROVE  /\ Calling(c, "find_all") => pc[c] = 2
         /\ Calling(c, "count") => pc[c] = 1
<1>1. Len(Calls) = 2 /\ Calls[1] = "find_all" /\ Calls[2] = "count"
  BY DEF Calls
<1>2. pc[c] \in 0..2
  BY DEF TypeOK
<1>3. pc[c] = 1 => Len(Calls) + 1 - pc[c] = 2
  BY <1>1
<1>4. pc[c] = 2 => Len(Calls) + 1 - pc[c] = 1
  BY <1>1
<1> QED
  BY <1>1, <1>2, <1>3, <1>4 DEF Calling

\* What a call of the use case leaves alone.
others == <<items, used, filter, writes, stayed, entered, left, moved, first, tied>>

LEMMA ReturnType ==
  ASSUME TypeInv, NEW c \in Clients, NEW page \in Seq(Ids), NEW count \in 0..Cardinality(Ids),
         pc[c] > 0, filter[c].page_size >= 0, Return(c, page, count), errors' \in 0..MaxErrors
  PROVE  TypeInv'
<1>1. UNCHANGED others
  BY DEF Return, others
<1>2. /\ pc' = [pc EXCEPT ![c] = pc[c] - 1]
      /\ found' = [found EXCEPT ![c] = page]
      /\ total' = [total EXCEPT ![c] = count]
  BY DEF Return
<1>3. pc[c] \in 1..2 /\ filter[c] \in Filters
  BY DEF TypeInv, TypeOK, CallInv
<1>4. /\ pc' \in [Clients -> 0..2]
      /\ found' \in [Clients -> Seq(Ids)]
      /\ total' \in [Clients -> 0..Cardinality(Ids)]
  BY <1>2, <1>3 DEF TypeInv, TypeOK
<1>5. /\ answer' = answer \/ answer' = [answer EXCEPT ![c] = 200]
      /\ answer' \in [Clients -> {0, 200, 500}]
      /\ total_pages' \in [Clients -> IntMin..IntMax]
      /\ walked' \in [Clients -> Seq(Ids)]
  <2>1. CASE pc[c] > 1
    BY <2>1 DEF Return, TypeInv, TypeOK
  <2>2. CASE ~(pc[c] > 1)
    <3>1. PICK n \in TotalPages(count, filter[c].page_size) :
            total_pages' = [total_pages EXCEPT ![c] = n]
      BY <2>2 DEF Return
    <3>2. filter[c].page_size \in 0..IntMax
      BY <1>3, IntAssumption DEF Filters, IntMin
    <3>3. n \in IntMin..IntMax
      BY <3>2, TotalPagesType
    <3>4. answer' = [answer EXCEPT ![c] = 200] /\ walked' = [walked EXCEPT ![c] = @ \o page]
      BY <2>2 DEF Return, Reply
    <3>5. walked[c] \o page \in Seq(Ids)
      BY ConcatProperties DEF TypeInv, TypeOK
    <3> QED
      BY <3>1, <3>3, <3>4, <3>5 DEF TypeInv, TypeOK
  <2> QED
    BY <2>1, <2>2
<1>6. TypeOK'
  BY <1>1, <1>4, <1>5 DEF others, TypeInv, TypeOK
<1>7. CallInv'
  <2>1. ASSUME NEW d \in Clients, d # c
        PROVE  pc'[d] = pc[d] /\ answer'[d] = answer[d] /\ filter'[d] = filter[d]
    <3>1. pc'[d] = pc[d]
      BY <1>2, <2>1 DEF TypeInv, TypeOK
    <3>2. answer'[d] = answer[d]
      <4>1. answer \in [Clients -> {0, 200, 500}]
        BY DEF TypeInv, TypeOK
      <4>2. CASE answer' = answer
        BY <4>2
      <4>3. CASE answer' = [answer EXCEPT ![c] = 200]
        BY <2>1, <4>1, <4>3
      <4> QED
        BY <1>5, <4>2, <4>3
    <3>3. filter'[d] = filter[d]
      BY <1>1 DEF others
    <3> QED
      BY <3>1, <3>2, <3>3
  <2>2. filter'[c] \in Filters /\ filter'[c].page_size >= 0
    BY <1>1, <1>3 DEF others
  <2> QED
    BY <2>1, <2>2 DEF TypeInv, CallInv
<1> QED
  BY <1>6, <1>7 DEF TypeInv

LEMMA RefuseType ==
  ASSUME TypeInv, NEW c \in Clients, Refuse(c), errors' \in 0..MaxErrors
  PROVE  TypeInv'
<1>1. pc' \in [Clients -> 0..2] /\ answer' \in [Clients -> {0, 200, 500}]
  BY Domains DEF Refuse, Reply
<1>2. CallInv'
  <2>1. pc'[c] = 0 /\ answer'[c] = 500 /\ UNCHANGED filter
    BY Domains DEF Refuse, Reply
  <2>2. \A d \in Clients : d # c => pc'[d] = pc[d] /\ answer'[d] = answer[d]
    BY Domains DEF Refuse, Reply
  <2> QED
    BY <2>1, <2>2 DEF TypeInv, CallInv
<1> QED
  BY <1>1, <1>2 DEF Refuse, history, TypeInv, TypeOK

\* What find_all reads is a page of a length that offset and limit determine.
LEMMA FoundPage ==
  ASSUME TypeInv, NEW c \in Clients, filter[c] \in Filters,
         ~(Limit(filter[c]) < 0 \/ Offset(filter[c]) < 0),
         NEW s \in Orders(Matching(items, filter[c])),
         NEW page, page = Slice(s, Offset(filter[c]), Limit(filter[c]))
  PROVE  /\ page \in Seq(Ids)
         /\ Len(page) = PageLength(Offset(filter[c]), Limit(filter[c]), Counted(filter[c]))
<1> DEFINE f == filter[c]
<1>1. /\ f.page \in Int /\ f.page_size \in Int
  BY IntAssumption DEF Filters, IntMin
<1>2. (f.page - 1) * f.page_size \in Int
  BY <1>1
<1>3. Offset(f) \in Nat /\ Limit(f) \in Nat
  BY <1>1, <1>2, AsIntType DEF Offset, Limit
<1>4. Matching(items, f) \in SUBSET Ids /\ Counted(f) = Cardinality(Matching(items, f))
  BY CountedMatching DEF Matching
<1> QED
  BY <1>3, <1>4, SliceLength

LEMMA CallOutcome ==
  ASSUME TypeInv, Succeeds \/ Fails
  PROVE  errors' \in 0..MaxErrors
BY BoundsAssumption DEF Succeeds, Fails, TypeInv, TypeOK

\* A write of another handler changes one row.
LEMMA WriteType ==
  ASSUME TypeInv, NEW table \in [Ids -> Rows \cup {Nothing}], Write(table), used' \in SUBSET Ids
  PROVE  TypeInv'
<1>1. writes' \in 0..MaxWrites
  BY BoundsAssumption DEF Write, TypeInv, TypeOK
<1>2. stayed' \in [Clients -> SUBSET Ids]
  BY DEF Write, TypeInv, TypeOK
<1>3. entered' \in [Clients -> BOOLEAN] /\ left' \in [Clients -> BOOLEAN]
  BY DEF Write, TypeInv, TypeOK
<1>4. moved' \in [Clients -> BOOLEAN] /\ tied' \in BOOLEAN
  BY DEF Write, Tied, TypeInv, TypeOK
<1>5. /\ items' = table
      /\ UNCHANGED <<pc, filter, found, total, answer, total_pages, errors, walked, first>>
  BY DEF Write
<1> QED
  BY <1>1, <1>2, <1>3, <1>4, <1>5 DEF TypeInv, TypeOK, CallInv

LEMMA NextTypeInv == TypeInv /\ [Next]_vars => TypeInv'
<1> SUFFICES ASSUME TypeInv, [Next]_vars PROVE TypeInv'
  OBVIOUS
<1>1. ASSUME NEW c \in Clients, Start(c) PROVE TypeInv'
  <2>1. PICK p \in Params :
          /\ Idle(c) /\ filter[c] = Nothing
          /\ IF Throws(p)
             THEN Reply(c, 500) /\ UNCHANGED <<pc, filter, stayed, first>>
             ELSE /\ filter' = [filter EXCEPT ![c] = Decoded(p)]
                  /\ pc' = [pc EXCEPT ![c] = Len(Calls)]
                  /\ stayed' = [stayed EXCEPT ![c] = Matching(items, Decoded(p))]
                  /\ first' = [first EXCEPT ![c] = Decoded(p).page]
                  /\ UNCHANGED answer
          /\ UNCHANGED <<items, used, found, total, total_pages, writes, errors,
                         walked, entered, left, moved, tied>>
    BY <1>1 DEF Start
  <2>2. CASE Throws(p)
    <3>1. answer' = [answer EXCEPT ![c] = 500] /\ UNCHANGED <<pc, filter, stayed, first>>
      BY <2>1, <2>2 DEF Reply
    <3> QED
      BY <2>1, <3>1 DEF TypeInv, TypeOK, CallInv
  <2>3. CASE ~Throws(p)
    <3>1. Decoded(p) \in Filters /\ Decoded(p).page \in IntMin..IntMax
      BY <2>3, DecodedType DEF Filters
    <3>2. Len(Calls) = 2
      BY DEF Calls
    <3>3. answer[c] # 200
      BY <2>1, NothingAssumption DEF TypeInv, CallInv
    <3>4. /\ filter' = [filter EXCEPT ![c] = Decoded(p)] /\ pc' = [pc EXCEPT ![c] = 2]
          /\ stayed' = [stayed EXCEPT ![c] = Matching(items, Decoded(p))]
          /\ first' = [first EXCEPT ![c] = Decoded(p).page]
          /\ UNCHANGED answer
      BY <2>1, <2>3, <3>2
    <3>5. filter' \in [Clients -> Filters \cup {Nothing}] /\ pc' \in [Clients -> 0..2]
      BY <3>1, <3>4, Domains
    <3>7. Matching(items, Decoded(p)) \in SUBSET Ids
      BY DEF Matching
    <3>8. stayed' \in [Clients -> SUBSET Ids]
      BY <3>4, <3>7, Domains
    <3>9. first' \in [Clients -> IntMin..IntMax]
      BY <3>1, <3>4, Domains
    <3>6. CallInv'
      <4>1. filter'[c] \in Filters /\ pc'[c] = 2 /\ answer'[c] # 200
        BY <3>1, <3>3, <3>4, Domains
      <4>2. \A d \in Clients : d # c => filter'[d] = filter[d] /\ pc'[d] = pc[d]
        BY <3>4, Domains
      <4> QED
        BY <3>4, <4>1, <4>2 DEF TypeInv, CallInv
    <3> QED
      BY <2>1, <3>4, <3>5, <3>6, <3>8, <3>9 DEF TypeInv, TypeOK
  <2> QED
    BY <2>2, <2>3
<1>2. ASSUME NEW c \in Clients, NextPage(c) PROVE TypeInv'
  <2>1. /\ answer[c] = 200 /\ filter[c] \in Filters /\ filter[c].page < total_pages[c]
        /\ filter' = [filter EXCEPT ![c] = [filter[c] EXCEPT !.page = filter[c].page + 1]]
        /\ pc' = [pc EXCEPT ![c] = 2]
        /\ moved' = [moved EXCEPT ![c] = FALSE]
        /\ UNCHANGED <<items, used, found, total, answer, total_pages, writes, errors,
                       walked, stayed, entered, left, first, tied>>
    BY <1>2 DEF NextPage, Calls, TypeInv, CallInv
  <2>2. filter[c].page + 1 \in IntMin..IntMax
    <3>1. total_pages[c] \in IntMin..IntMax
      BY DEF TypeInv, TypeOK
    <3>2. filter[c].page \in IntMin..IntMax
      BY <2>1 DEF Filters
    <3> QED
      BY <2>1, <3>1, <3>2, IntAssumption DEF IntMin
  <2>3. /\ [filter[c] EXCEPT !.page = filter[c].page + 1] \in Filters
        /\ [filter[c] EXCEPT !.page = filter[c].page + 1].page_size = filter[c].page_size
    BY <2>1, <2>2 DEF Filters
  <2>4. filter' \in [Clients -> Filters \cup {Nothing}] /\ pc' \in [Clients -> 0..2]
    BY <2>1, <2>3, Domains
  <2>5. CallInv'
    <3>1. /\ filter'[c] \in Filters /\ filter'[c].page_size = filter[c].page_size
          /\ pc'[c] = 2 /\ answer' = answer
      BY <2>1, <2>3, Domains
    <3>2. \A d \in Clients : d # c => filter'[d] = filter[d] /\ pc'[d] = pc[d]
      BY <2>1, Domains
    <3> QED
      BY <2>1, <3>1, <3>2 DEF TypeInv, CallInv
  <2> QED
    BY <2>1, <2>4, <2>5 DEF TypeInv, TypeOK
<1>3. ASSUME NEW c \in Clients, FindAll(c) PROVE TypeInv'
  <2>1. pc[c] = 2 /\ filter[c] \in Filters
    BY <1>3, CallingPlace DEF FindAll, TypeInv, CallInv
  <2>2. errors' \in 0..MaxErrors
    BY <1>3, CallOutcome DEF FindAll
  <2>3. ASSUME NEW s \in Orders(Matching(items, filter[c])),
               ~(Limit(filter[c]) < 0 \/ Offset(filter[c]) < 0),
               Return(c, Slice(s, Offset(filter[c]), Limit(filter[c])), total[c])
        PROVE  TypeInv'
    <3>1. Slice(s, Offset(filter[c]), Limit(filter[c])) \in Seq(Ids)
      BY <2>1, <2>3, FoundPage
    <3>2. total[c] \in 0..Cardinality(Ids)
      BY DEF TypeInv, TypeOK
    <3>3. filter[c].page_size >= 0
      BY <2>1, <2>3, IntAssumption DEF Limit, Filters, IntMin
    <3> QED
      BY <2>1, <2>2, <2>3, <3>1, <3>2, <3>3, ReturnType
  <2> QED
    BY <1>3, <2>2, <2>3, RefuseType DEF FindAll
<1>4. ASSUME NEW c \in Clients, Count(c) PROVE TypeInv'
  <2>1. pc[c] = 1 /\ filter[c].page_size >= 0
    BY <1>4, CallingPlace DEF Count, TypeInv, CallInv
  <2>2. errors' \in 0..MaxErrors
    BY <1>4, CallOutcome DEF Count
  <2>3. found[c] \in Seq(Ids) /\ Counted(filter[c]) \in 0..Cardinality(Ids)
    BY CountedMatching DEF TypeInv, TypeOK
  <2> QED
    BY <1>4, <2>1, <2>2, <2>3, ReturnType, RefuseType DEF Count
<1>5. CASE SaveItem
  <2>1. PICK id \in Ids \ used, r \in Rows :
          Write([items EXCEPT ![id] = r]) /\ used' = used \cup {id}
    BY <1>5 DEF SaveItem
  <2>2. [items EXCEPT ![id] = r] \in [Ids -> Rows \cup {Nothing}] /\ used' \in SUBSET Ids
    BY <2>1 DEF TypeInv, TypeOK
  <2> QED
    BY <2>1, <2>2, WriteType
<1>6. CASE UpdateItem
  <2>1. PICK id \in Ids, r \in Rows : Write([items EXCEPT ![id] = r]) /\ used' = used
    BY <1>6 DEF UpdateItem
  <2>2. [items EXCEPT ![id] = r] \in [Ids -> Rows \cup {Nothing}] /\ used' \in SUBSET Ids
    BY <2>1 DEF TypeInv, TypeOK
  <2> QED
    BY <2>1, <2>2, WriteType
<1>7. CASE RemoveItem
  <2>1. PICK id \in Ids : Write([items EXCEPT ![id] = Nothing]) /\ used' = used
    BY <1>7 DEF RemoveItem
  <2>2. [items EXCEPT ![id] = Nothing] \in [Ids -> Rows \cup {Nothing}] /\ used' \in SUBSET Ids
    BY <2>1 DEF TypeInv, TypeOK
  <2> QED
    BY <2>1, <2>2, WriteType
<1>8. CASE UNCHANGED vars
  BY <1>8 DEF vars, TypeInv, TypeOK, CallInv
<1> QED
  BY <1>1, <1>2, <1>3, <1>4, <1>5, <1>6, <1>7, <1>8 DEF Next, Terminated

\* Every variable keeps to its type, for any table, parameters, clients and bounds.
THEOREM TypeCorrect == Spec => []TypeOK
<1>1. TypeInv => TypeOK
  BY DEF TypeInv
<1> QED
  BY InitTypeInv, NextTypeInv, <1>1, PTL DEF Spec

--------------------------------------------------------------------------------
(* The page, total_count and total_pages *)

Skipped(c) == (filter[c].page - 1) * filter[c].page_size
Sized(c) == /\ filter[c] \in Filters
            /\ filter[c].page > 0 /\ filter[c].page_size > 0 /\ Skipped(c) <= IntMax

\* find_all has run: the page is as long as the result, were it counted now,
\* would make it.
ReadPage(c) ==
  pc[c] = 1 /\ ~moved[c] =>
    Len(found[c]) = PageLength(Skipped(c), filter[c].page_size, Counted(filter[c]))
\* count has run too: the page is as long as total_count makes it.
HasPage(c) ==
  pc[c] = 0 /\ answer[c] = 200 /\ ~moved[c] =>
    /\ Len(found[c]) = PageLength(Skipped(c), filter[c].page_size, total[c])
    /\ total_pages[c] = -((-total[c]) \div filter[c].page_size)
PageInv == \A c \in Clients : Sized(c) => ReadPage(c) /\ HasPage(c)

\* All of a client's request.
request(c) == <<pc[c], filter[c], found[c], total[c], answer[c], total_pages[c], moved[c]>>

LEMMA OthersKeep ==
  ASSUME NEW c, PageInv, c \in Clients, UNCHANGED <<items, request(c)>>
  PROVE  Sized(c)' => ReadPage(c)' /\ HasPage(c)'
<1>1. Sized(c)' => Sized(c)
  BY DEF request, Sized, Skipped
<1>2. Counted(filter[c])' = Counted(filter[c])
  BY DEF request, Counted, Present
<1>3. Skipped(c)' = Skipped(c)
  BY DEF request, Skipped
<1>4. ReadPage(c) => ReadPage(c)'
  BY <1>2, <1>3 DEF request, ReadPage
<1>5. HasPage(c) => HasPage(c)'
  BY <1>3 DEF request, HasPage
<1> QED
  BY <1>1, <1>4, <1>5 DEF PageInv

\* A step of client c leaves the requests of the others alone.
LEMMA ReturnOthers ==
  ASSUME TypeInv, NEW c \in Clients, NEW page, NEW count, Return(c, page, count),
         NEW d \in Clients, d # c
  PROVE  UNCHANGED <<items, request(d)>>
<1>1. UNCHANGED <<items, filter, moved>>
  BY DEF Return
<1>2. pc'[d] = pc[d] /\ found'[d] = found[d] /\ total'[d] = total[d]
  BY DEF Return, TypeInv, TypeOK
<1>3. answer'[d] = answer[d] /\ total_pages'[d] = total_pages[d]
  <2>1. CASE pc[c] > 1
    BY <2>1 DEF Return
  <2>2. CASE ~(pc[c] > 1)
    <3>1. answer' = [answer EXCEPT ![c] = 200]
      BY <2>2 DEF Return, Reply
    <3>2. \E n : total_pages' = [total_pages EXCEPT ![c] = n]
      BY <2>2 DEF Return
    <3> QED
      BY <3>1, <3>2 DEF TypeInv, TypeOK
  <2> QED
    BY <2>1, <2>2
<1> QED
  BY <1>1, <1>2, <1>3 DEF request

LEMMA RefusePage ==
  ASSUME TypeInv, PageInv, NEW c \in Clients, Refuse(c)
  PROVE  PageInv'
<1>1. pc'[c] = 0 /\ answer'[c] = 500
  BY DEF Refuse, Reply, TypeInv, TypeOK
<1>2. ReadPage(c)' /\ HasPage(c)'
  BY <1>1 DEF ReadPage, HasPage
<1>3. ASSUME NEW d \in Clients, d # c PROVE UNCHANGED <<items, request(d)>>
  BY <1>3 DEF Refuse, Reply, history, request, TypeInv, TypeOK
<1> QED
  BY <1>2, <1>3, OthersKeep DEF PageInv

\* find_all: the page is of the length that the result makes it.
LEMMA FindAllPage ==
  ASSUME TypeInv, PageInv, NEW c \in Clients, FindAll(c)
  PROVE  PageInv'
<1> DEFINE f == filter[c]
<1>1. pc[c] = 2 /\ f \in Filters
  BY CallingPlace DEF FindAll, TypeInv, CallInv
<1>2. CASE Refuse(c)
  BY <1>2, RefusePage
<1>3. ASSUME NEW s \in Orders(Matching(items, f)), ~(Limit(f) < 0 \/ Offset(f) < 0),
             Return(c, Slice(s, Offset(f), Limit(f)), total[c])
      PROVE  PageInv'
  <2> DEFINE page == Slice(s, Offset(f), Limit(f))
  <2>1. Len(page) = PageLength(Offset(f), Limit(f), Counted(f))
    BY <1>1, <1>3, FoundPage
  <2>2. UNCHANGED <<items, filter, moved>>
    BY <1>3 DEF Return
  <2>3. pc'[c] = 1 /\ found'[c] = page
    BY <1>1, <1>3 DEF Return, TypeInv, TypeOK
  <2>4. ASSUME Sized(c) PROVE Offset(f) = Skipped(c)
    <3>1. f.page \in Nat \ {0} /\ f.page_size \in Nat
      BY <2>4, IntAssumption DEF Sized, Filters, IntMin
    <3>2. (f.page - 1) * f.page_size \in Nat
      BY <3>1
    <3>3. Skipped(c) \in 0..IntMax
      BY <2>4, <3>2, IntAssumption DEF Sized, Skipped
    <3>4. AsInt(Skipped(c)) = Skipped(c)
      BY <3>3, AsIntKeeps
    <3> QED
      BY <3>4 DEF Offset, Skipped
  <2>5. Counted(f)' = Counted(f) /\ Skipped(c)' = Skipped(c) /\ (Sized(c)' => Sized(c))
    BY <2>2 DEF Counted, Present, Skipped, Sized
  <2>6. Sized(c)' => ReadPage(c)' /\ HasPage(c)'
    <3>1. HasPage(c)'
      BY <2>3 DEF HasPage
    <3>2. ASSUME Sized(c) PROVE Len(found'[c]) = PageLength(Skipped(c), f.page_size, Counted(f))
      BY <2>1, <2>3, <2>4, <3>2 DEF Limit
    <3>3. filter'[c].page_size = f.page_size
      BY <2>2
    <3>4. Sized(c) => ReadPage(c)'
      BY <2>5, <3>2, <3>3 DEF ReadPage
    <3> QED
      BY <2>5, <3>1, <3>4
  <2> QED
    BY <1>3, <2>6, ReturnOthers, OthersKeep DEF PageInv
<1> QED
  BY <1>2, <1>3 DEF FindAll

\* count: nothing has changed the result since, or `moved` would say so.
LEMMA CountPage ==
  ASSUME TypeInv, PageInv, NEW c \in Clients, Count(c)
  PROVE  PageInv'
<1> DEFINE f == filter[c]
<1>1. pc[c] = 1 /\ f \in Filters
  BY CallingPlace DEF Count, TypeInv, CallInv
<1>2. CASE Refuse(c)
  BY <1>2, RefusePage
<1>3. CASE Return(c, found[c], Counted(f))
  <2>1. UNCHANGED <<items, filter, moved>>
    BY <1>3 DEF Return
  <2>2. pc'[c] = 0 /\ found'[c] = found[c] /\ total'[c] = Counted(f)
    BY <1>1, <1>3 DEF Return, TypeInv, TypeOK
  <2>3. PICK n \in TotalPages(Counted(f), f.page_size) :
          total_pages' = [total_pages EXCEPT ![c] = n]
    BY <1>1, <1>3 DEF Return
  <2>4. total_pages'[c] \in TotalPages(Counted(f), f.page_size)
    BY <2>3 DEF TypeInv, TypeOK
  <2>5. Skipped(c)' = Skipped(c) /\ (Sized(c)' => Sized(c)) /\ filter'[c] = f /\ moved'[c] = moved[c]
    BY <2>1 DEF Skipped, Sized
  <2>6. ASSUME Sized(c) PROVE HasPage(c)'
    <3>1. total_pages'[c] = -((-Counted(f)) \div f.page_size)
      BY <2>4, <2>6 DEF TotalPages, Sized
    <3>2. ~moved[c] => Len(found[c]) = PageLength(Skipped(c), f.page_size, Counted(f))
      BY <1>1, <2>6 DEF PageInv, ReadPage
    <3> QED
      BY <2>2, <2>5, <3>1, <3>2 DEF HasPage
  <2>7. ReadPage(c)'
    BY <2>2 DEF ReadPage
  <2> QED
    BY <1>3, <2>5, <2>6, <2>7, ReturnOthers, OthersKeep DEF PageInv
<1> QED
  BY <1>2, <1>3 DEF Count

\* A write that changes the result between the two queries says so.
LEMMA WritePage ==
  ASSUME TypeInv, PageInv, NEW table, Write(table)
  PROVE  PageInv'
<1> SUFFICES ASSUME NEW c \in Clients, Sized(c)' PROVE ReadPage(c)' /\ HasPage(c)'
  BY DEF PageInv
<1> DEFINE f == filter[c]
<1>1. /\ items' = table
      /\ UNCHANGED <<pc, filter, found, total, answer, total_pages>>
  BY DEF Write
<1>2. Sized(c) /\ Skipped(c)' = Skipped(c)
  BY <1>1 DEF Sized, Skipped
<1>3. f # Nothing
  BY <1>2, NothingAssumption DEF Sized
<1>4. moved'[c] = (moved[c] \/ (pc[c] = 1 /\ Matching(table, f) # Matching(items, f)))
  BY <1>3 DEF Write
<1>5. HasPage(c)'
  BY <1>1, <1>2, <1>4 DEF PageInv, HasPage
<1>6. ASSUME Matching(table, f) = Matching(items, f) PROVE Counted(f)' = Counted(f)
  <2>1. Counted(f) = Cardinality(Matching(items, f))
    BY CountedMatching
  <2>2. Counted(f)' = Cardinality(Matching(items', f'))
    <3>1. {id \in Ids : Present(id)' /\ CountWhere(f', items'[id])} = Matching(items', f')
      BY DEF Matching, Present, CountWhere, Where
    <3> QED
      BY <3>1 DEF Counted
  <2>3. f' = f
    BY <1>1
  <2> QED
    BY <1>1, <1>6, <2>1, <2>2, <2>3
<1>7. ReadPage(c)'
  <2>1. SUFFICES ASSUME pc'[c] = 1, ~moved'[c]
                 PROVE  Len(found'[c]) = PageLength(Skipped(c)', filter'[c].page_size, Counted(filter[c])')
    BY DEF ReadPage
  <2>2. Counted(f)' = Counted(f) /\ ~moved[c] /\ pc[c] = 1
    BY <1>1, <1>4, <1>6, <2>1
  <2>3. Len(found[c]) = PageLength(Skipped(c), f.page_size, Counted(f))
    BY <1>2, <2>2 DEF PageInv, ReadPage
  <2> QED
    BY <1>1, <1>2, <2>2, <2>3
<1> QED
  BY <1>5, <1>7

LEMMA NextPageInv == TypeInv /\ PageInv /\ [Next]_vars => PageInv'
<1> SUFFICES ASSUME TypeInv, PageInv, [Next]_vars PROVE PageInv'
  OBVIOUS
<1>1. ASSUME NEW c \in Clients, Start(c) PROVE PageInv'
  <2>1. /\ answer[c] # 200
        /\ \/ pc' = [pc EXCEPT ![c] = 2] /\ UNCHANGED answer
           \/ answer' = [answer EXCEPT ![c] = 500] /\ UNCHANGED pc
    BY <1>1, NothingAssumption DEF Start, Reply, Calls, TypeInv, CallInv
  <2>2. pc[c] = 0
    BY <1>1 DEF Start, Idle
  <2>3. answer'[c] # 200 /\ pc'[c] # 1
    BY <2>1, <2>2 DEF TypeInv, TypeOK
  <2>4. ReadPage(c)' /\ HasPage(c)'
    BY <2>3 DEF ReadPage, HasPage
  <2>5. ASSUME NEW d \in Clients, d # c PROVE UNCHANGED <<items, request(d)>>
    <3>1. pc'[d] = pc[d] /\ answer'[d] = answer[d]
      BY <2>1, <2>5 DEF TypeInv, TypeOK
    <3>2. filter'[d] = filter[d]
      BY <1>1, <2>5 DEF Start, TypeInv, TypeOK
    <3>3. UNCHANGED <<items, found, total, total_pages, moved>>
      BY <1>1 DEF Start
    <3> QED
      BY <3>1, <3>2, <3>3 DEF request
  <2> QED
    BY <2>4, <2>5, OthersKeep DEF PageInv
<1>2. ASSUME NEW c \in Clients, NextPage(c) PROVE PageInv'
  <2>1. /\ pc' = [pc EXCEPT ![c] = 2]
        /\ filter' = [filter EXCEPT ![c] = [filter[c] EXCEPT !.page = filter[c].page + 1]]
        /\ moved' = [moved EXCEPT ![c] = FALSE]
        /\ UNCHANGED <<items, found, total, answer, total_pages>>
    BY <1>2 DEF NextPage, Calls
  <2>2. pc'[c] = 2
    BY <2>1, Domains
  <2>3. ReadPage(c)' /\ HasPage(c)'
    BY <2>2 DEF ReadPage, HasPage
  <2>4. ASSUME NEW d \in Clients, d # c PROVE UNCHANGED <<items, request(d)>>
    BY <2>1, <2>4, Domains DEF request
  <2> QED
    BY <2>3, <2>4, OthersKeep DEF PageInv
<1>3. CASE SaveItem \/ UpdateItem \/ RemoveItem
  BY <1>3, WritePage DEF SaveItem, UpdateItem, RemoveItem
<1>4. CASE UNCHANGED vars
  BY <1>4, OthersKeep DEF vars, request, PageInv
<1> QED
  BY <1>1, <1>2, <1>3, <1>4, FindAllPage, CountPage DEF Next, Terminated

\* n items fill p = ceil(n / s) pages of s: every page before the last is full,
\* and after the last there is nothing left.
LEMMA PagesFill ==
  ASSUME NEW n \in Nat, NEW s \in Nat, s > 0, NEW k \in Nat, k > 0
  PROVE  /\ k < -((-n) \div s) => PageLength((k - 1) * s, s, n) = s
         /\ k >= -((-n) \div s) => (k - 1) * s + PageLength((k - 1) * s, s, n) >= n
<1> DEFINE q == (-n) \div s
           before == (k - 1) * s
<1>1. q \in Int /\ s * q <= -n /\ -n < s * (q + 1)
  BY Floor
<1>2. before \in Nat /\ k * s = before + s
  OBVIOUS
<1> HIDE DEF q, before
<1>3. CASE k < -q
  <2>1. k <= -(q + 1)
    BY <1>1, <1>3
  <2>2. k * s <= (-(q + 1)) * s
    BY <1>1, <2>1, TimesMono
  <2>3. (-(q + 1)) * s < n
    BY <1>1
  <2>4. before + s < n
    BY <1>1, <1>2, <2>2, <2>3
  <2>5. PageLength(before, s, n) = s
    BY <1>2, <2>4 DEF PageLength, Smaller
  <2> QED
    BY <1>1, <1>3, <2>5 DEF q, before
<1>4. CASE k >= -q
  <2>1. (-q) * s <= k * s
    BY <1>1, <1>4, TimesMono
  <2>2. n <= (-q) * s
    BY <1>1
  <2>3. n <= before + s
    BY <1>1, <1>2, <2>1, <2>2
  <2>4. before + PageLength(before, s, n) >= n
    BY <1>2, <2>3 DEF PageLength, Smaller
  <2> QED
    BY <1>1, <1>4, <2>4 DEF q, before
<1> QED
  BY <1>1, <1>3, <1>4 DEF q, before

\* Unless a write came between its two queries, a response's page, total_count
\* and total_pages fit together, whatever the filter, the page size and the table.
THEOREM TotalsFit == Spec => []TotalsAgree
<1>1. Init => PageInv
  BY DEF Init, PageInv, ReadPage, HasPage
<1>2. TypeInv /\ PageInv => TotalsAgree
  <2> SUFFICES ASSUME TypeInv, PageInv, NEW c \in Clients, Answered(c), ~moved[c]
               PROVE  LET size == filter[c].page_size
                          before == (filter[c].page - 1) * size
                      IN  /\ Len(found[c]) = IF before >= total[c] THEN 0
                                             ELSE Smaller(size, total[c] - before)
                          /\ filter[c].page < total_pages[c] => Len(found[c]) = size
                          /\ filter[c].page >= total_pages[c] => before + Len(found[c]) >= total[c]
    BY DEF TotalsAgree
  <2>1. Sized(c) /\ HasPage(c) /\ pc[c] = 0 /\ answer[c] = 200
    BY DEF Answered, Idle, TypeInv, CallInv, Sized, Skipped, PageInv
  <2>2. /\ Len(found[c]) = PageLength(Skipped(c), filter[c].page_size, total[c])
        /\ total_pages[c] = -((-total[c]) \div filter[c].page_size)
    BY <2>1 DEF HasPage
  <2>3. /\ filter[c].page \in Nat /\ filter[c].page > 0
        /\ filter[c].page_size \in Nat /\ filter[c].page_size > 0
    BY <2>1, IntAssumption DEF Sized, Filters, IntMin
  <2>4. total[c] \in Nat
    BY IdsFinite DEF TypeInv, TypeOK
  <2>5. /\ filter[c].page < total_pages[c] => Len(found[c]) = filter[c].page_size
        /\ filter[c].page >= total_pages[c] => Skipped(c) + Len(found[c]) >= total[c]
    BY <2>2, <2>3, <2>4, PagesFill DEF Skipped
  <2> QED
    BY <2>2, <2>5 DEF Skipped, PageLength
<1> QED
  BY <1>1, <1>2, InitTypeInv, NextTypeInv, NextPageInv, PTL DEF Spec
================================================================================
