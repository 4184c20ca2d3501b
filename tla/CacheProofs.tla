------------------------------ MODULE CacheProofs ------------------------------
(***************************************************************************)
(* What TLAPS proves of CacheAdapter for every number of threads, keys and *)
(* values, every time to live and every way the clock is moved.            *)
(***************************************************************************)
EXTENDS CacheAdapter, TLAPS

\* No sweep has read a time that the clock has not shown, and while the clock
\* has not been set back none has shown a later one than now.
ClockInv ==
  /\ clock <= peak
  /\ \A t \in Threads : now[t] # Nothing => now[t] <= peak
  /\ setbacks = 0 => peak = clock

IInv == TypeOK /\ ClockInv

LEMMA NewEntryType ==
  ASSUME TypeOK, NEW k \in Keys, NEW v \in Values, NEW ttl \in Ttls
  PROVE  NewEntry(k, v, ttl) \in Entry
<1>1. EffectiveTtl(ttl) \in Int
  BY TtlsAssumption DEF EffectiveTtl
<1> DEFINE effective == EffectiveTtl(ttl)
<1>2. (IF effective > 0 THEN clock + effective ELSE 0) \in Nat
  BY <1>1, BoundsAssumption DEF TypeOK
<1> HIDE DEF effective
<1>3. (effective > 0) \in BOOLEAN
  OBVIOUS
<1> QED
  BY <1>2, <1>3 DEF NewEntry, Entry, effective

\* Every operation replaces some entries by well-typed ones or by nothing.
LEMMA NextEntries ==
  ASSUME TypeOK, [Next]_vars
  PROVE  entries' \in [Keys -> Entry \cup {Nothing}]
<1> USE DEF TypeOK
<1>1. ASSUME NEW t \in Threads, NEW k \in Keys, Get(t, k) \/ Exists(t, k) \/ Del(t, k)
      PROVE  entries' \in [Keys -> Entry \cup {Nothing}]
  BY <1>1 DEF Get, Exists, Del, EraseStale
<1>2. ASSUME NEW t \in Threads, NEW k \in Keys, NEW v \in Values, NEW ttl \in Ttls, Set(t, k, v, ttl)
      PROVE  entries' \in [Keys -> Entry \cup {Nothing}]
  <2>1. NewEntry(k, v, ttl) \in Entry
    BY NewEntryType
  <2> QED
    BY <1>2, <2>1 DEF Set
<1>3. ASSUME NEW t \in Threads, Flush(t) \/ StartEvict(t) \/ EvictExpired(t)
      PROVE  entries' \in [Keys -> Entry \cup {Nothing}]
  BY <1>3 DEF Flush, StartEvict, EvictExpired
<1>4. ASSUME Tick \/ SetBack \/ UNCHANGED vars
      PROVE  entries' \in [Keys -> Entry \cup {Nothing}]
  BY <1>4 DEF Tick, SetBack, vars
<1> QED
  BY <1>1, <1>2, <1>3, <1>4 DEF Next

LEMMA InitIInv == Init => IInv
  BY BoundsAssumption DEF Init, IInv, TypeOK, ClockInv

LEMMA NextIInv == IInv /\ [Next]_vars => IInv'
<1> SUFFICES ASSUME IInv, [Next]_vars PROVE IInv'
  OBVIOUS
<1>e. entries' \in [Keys -> Entry \cup {Nothing}]
  BY NextEntries DEF IInv
<1> USE BoundsAssumption DEF IInv, TypeOK, ClockInv, times
<1>1. ASSUME NEW t \in Threads, NEW k \in Keys, Get(t, k) PROVE IInv'
  <2>1. (IF Hit(k) THEN entries[k].value ELSE Nothing) \in Values \cup {Nothing}
    BY DEF Hit, Entry
  <2> QED
    BY <1>e, <1>1, <2>1 DEF Get
<1>2. ASSUME NEW t \in Threads, NEW k \in Keys, Exists(t, k) PROVE IInv'
  <2>1. Hit(k) \in BOOLEAN
    BY DEF Hit
  <2> QED
    BY <1>e, <1>2, <2>1 DEF Exists
<1>3. ASSUME NEW t \in Threads, NEW k \in Keys, Del(t, k) PROVE IInv'
  BY <1>e, <1>3 DEF Del
<1>4. ASSUME NEW t \in Threads, NEW k \in Keys, NEW v \in Values, NEW ttl \in Ttls, Set(t, k, v, ttl)
      PROVE  IInv'
  BY <1>e, <1>4 DEF Set
<1>5. ASSUME NEW t \in Threads, Flush(t) PROVE IInv'
  BY <1>e, <1>5 DEF Flush
<1>6. ASSUME NEW t \in Threads, StartEvict(t) PROVE IInv'
  BY <1>e, <1>6 DEF StartEvict
<1>7. ASSUME NEW t \in Threads, EvictExpired(t) PROVE IInv'
  BY <1>e, <1>7 DEF EvictExpired
<1>8. CASE Tick
  BY <1>e, <1>8, NothingAssumption DEF Tick
<1>9. CASE SetBack
  BY <1>e, <1>9, NothingAssumption DEF SetBack
<1>10. CASE UNCHANGED vars
  BY <1>e, <1>10 DEF vars
<1> QED
  BY <1>1, <1>2, <1>3, <1>4, <1>5, <1>6, <1>7, <1>8, <1>9, <1>10 DEF Next

\* The model is well typed.
THEOREM TypeCorrect == Spec => []TypeOK
<1>1. IInv => TypeOK
  BY DEF IInv
<1> QED
  BY InitIInv, NextIInv, <1>1, PTL DEF Spec

\* A sweep takes only what has expired, unless the clock has been set back.
THEOREM SweepsTakeOnlyExpired == Spec => SweepsOnlyExpired
<1>1. ASSUME IInv, [Next]_vars, setbacks = 0, NEW t \in Threads, NEW k \in Keys,
             now[t] # Nothing, now'[t] = Nothing, entries[k] # Nothing, entries'[k] = Nothing
      PROVE  entries[k].has_ttl /\ entries[k].expires_at <= clock
  <2>1. entries[k] \in Entry /\ now[t] \in Nat /\ clock \in Nat /\ now[t] <= clock
    BY <1>1 DEF IInv, TypeOK, ClockInv
  <2>2. EvictExpired(t)
    <3>1. ASSUME NEW u \in Threads, Ready(u), UNCHANGED now \/ StartEvict(u) PROVE FALSE
      BY <1>1, <3>1, NothingAssumption DEF Ready, StartEvict, IInv, TypeOK
    <3>2. ASSUME NEW u \in Threads, EvictExpired(u) PROVE u = t
      BY <1>1, <3>2 DEF EvictExpired, IInv, TypeOK
    <3>3. now' # now
      BY <1>1
    <3> QED
      BY <1>1, <3>1, <3>2, <3>3 DEF Next, Get, Exists, Set, Del, Flush, StartEvict, Tick, SetBack, vars
  <2>3. Expired(entries[k], now[t])
    BY <1>1, <2>2 DEF EvictExpired, Stale
  <2> QED
    BY <2>1, <2>3 DEF Expired, Entry
<1>2. IInv /\ [Next]_vars =>
        [setbacks = 0 =>
           \A t \in Threads, k \in Keys :
             now[t] # Nothing /\ now'[t] = Nothing /\ entries[k] # Nothing /\ entries'[k] = Nothing
               => entries[k].has_ttl /\ entries[k].expires_at <= clock]_vars
  BY <1>1
<1> QED
  BY InitIInv, NextIInv, <1>2, PTL DEF Spec, SweepsOnlyExpired

--------------------------------------------------------------------------------
(* The refinement.  Entries and what is remembered of them change together.   *)

Memory == [k \in Keys |-> Remembered(entries[k])]

Ends == [ttl \in Ttls |-> IF ttl > 0 THEN ttl
                          ELSE IF ttl = 0 /\ DefaultTtl > 0 THEN DefaultTtl ELSE Forever]

LEMMA RememberedEntry ==
  ASSUME NEW e \in Entry
  PROVE  /\ Remembered(e) \in Timed
         /\ Remembered(e) # Nothing
         /\ Remembered(e).value = e.value
         /\ \A time \in Nat : Map!Over(Remembered(e), time) <=> Expired(e, time)
<1>1. e # Nothing /\ e.expires_at # Forever
  BY NothingAssumption DEF Entry
<1>2. Remembered(e) = [value |-> e.value,
                      until |-> IF e.has_ttl THEN e.expires_at ELSE Forever]
  BY <1>1 DEF Remembered
<1>3. \A time \in Nat : Map!Over(Remembered(e), time) <=> Expired(e, time)
  BY <1>1, <1>2 DEF Map!Over, Expired, Entry
<1>4. Remembered(e) \in Timed
  BY <1>2 DEF Entry, Timed
<1> QED
  BY <1>2, <1>3, <1>4, NothingAssumption

LEMMA MemoryOfUpdate ==
  ASSUME TypeOK, NEW k \in Keys, NEW e, entries' = [entries EXCEPT ![k] = e]
  PROVE  Memory' = [Memory EXCEPT ![k] = Remembered(e)]
BY DEF Memory, Remembered, TypeOK

LEMMA MemoryOfLookup ==
  ASSUME IInv, NEW k \in Keys, EraseStale(k)
  PROVE  /\ Map!Usable(k) <=> Hit(k)
         /\ Hit(k) => Memory[k].value = entries[k].value
         /\ Memory' = Memory \/ Map!Forgets(k)
<1>1. clock \in Nat /\ peak \in Nat /\ clock <= peak
  BY BoundsAssumption DEF IInv, TypeOK, ClockInv
<1>2. Memory[k] = Remembered(entries[k])
  BY DEF Memory
<1>3. CASE entries[k] = Nothing
  <2>1. Memory[k] = Nothing
    BY <1>2, <1>3 DEF Remembered
  <2>2. entries' = entries
    BY <1>3 DEF EraseStale, Stale
  <2> QED
    BY <1>3, <2>1, <2>2 DEF Map!Usable, Hit, Memory
<1>4. CASE entries[k] \in Entry
  <2>1. /\ Memory[k] # Nothing /\ Memory[k].value = entries[k].value
        /\ Map!Over(Memory[k], clock) <=> Expired(entries[k], clock)
        /\ Map!Over(Memory[k], peak) <=> Expired(entries[k], peak)
        /\ entries[k] # Nothing
    BY <1>1, <1>2, <1>4, RememberedEntry, NothingAssumption
  <2>2. Map!Usable(k) <=> Hit(k)
    BY <2>1 DEF Map!Usable, Memory, Hit, Stale
  <2>3. ASSUME Stale(k, clock) PROVE Map!Forgets(k)
    <3>1. Expired(entries[k], peak)
      BY <1>1, <1>4, <2>3 DEF Stale, Expired, Entry
    <3>2. Memory' = [Memory EXCEPT ![k] = Nothing]
      <4>1. Remembered(Nothing) = Nothing
        BY DEF Remembered
      <4>2. entries' = [entries EXCEPT ![k] = Nothing]
        BY <2>3 DEF EraseStale
      <4> QED
        BY <4>1, <4>2, MemoryOfUpdate DEF IInv
    <3> QED
      BY <2>1, <3>1, <3>2 DEF Map!Forgets, Memory
  <2>4. ASSUME ~Stale(k, clock) PROVE Memory' = Memory
    BY <2>4 DEF EraseStale, Memory
  <2> QED
    BY <2>1, <2>2, <2>3, <2>4
<1> QED
  BY <1>3, <1>4 DEF IInv, TypeOK

LEMMA RememberedNewEntry ==
  ASSUME TypeOK, NEW k \in Keys, NEW v \in Values, NEW ttl \in Ttls
  PROVE  Remembered(NewEntry(k, v, ttl)) =
           [value |-> v, until |-> IF Ends[ttl] = Forever THEN Forever ELSE clock + Ends[ttl]]
<1>1. NewEntry(k, v, ttl) # Nothing
  BY NewEntryType, NothingAssumption
<1>2. ttl \in Int /\ DefaultTtl \in Int /\ EffectiveTtl(ttl) \in Int
  BY TtlsAssumption DEF EffectiveTtl
<1>3. Ends[ttl] = IF EffectiveTtl(ttl) > 0 THEN EffectiveTtl(ttl) ELSE Forever
  <2>1. Ends[ttl] = IF ttl > 0 THEN ttl ELSE IF ttl = 0 /\ DefaultTtl > 0 THEN DefaultTtl ELSE Forever
    BY DEF Ends
  <2>2. CASE ttl > 0
    BY <1>2, <2>1, <2>2 DEF EffectiveTtl
  <2>3. CASE ttl = 0 /\ DefaultTtl > 0
    BY <1>2, <2>1, <2>3 DEF EffectiveTtl
  <2>4. CASE ~(ttl > 0) /\ ~(ttl = 0 /\ DefaultTtl > 0)
    BY <1>2, <2>1, <2>4 DEF EffectiveTtl
  <2> QED
    BY <2>2, <2>3, <2>4
<1>4. EffectiveTtl(ttl) # Forever
  BY <1>2, NothingAssumption
<1> QED
  BY <1>1, <1>3, <1>4 DEF Remembered, NewEntry

LEMMA SweepForgets ==
  ASSUME IInv, NEW t \in Threads, EvictExpired(t)
  PROVE  Map!Expire
<1>1. peak \in Nat /\ now[t] \in Nat /\ now[t] <= peak
  BY BoundsAssumption DEF IInv, TypeOK, ClockInv, EvictExpired, Ready
<1> DEFINE old == {k \in Keys : Stale(k, now[t])}
<1>2. ASSUME NEW k \in Keys, Stale(k, now[t])
      PROVE  Memory[k] # Nothing /\ Map!Over(Memory[k], peak)
  <2>1. entries[k] \in Entry /\ Memory[k] = Remembered(entries[k])
    BY <1>2 DEF Stale, IInv, TypeOK, Memory
  <2>2. Expired(entries[k], peak)
    BY <1>1, <1>2, <2>1 DEF Stale, Expired, Entry
  <2> QED
    BY <1>1, <2>1, <2>2, RememberedEntry
<1>3. old \in SUBSET {k \in Keys : Memory[k] # Nothing /\ Map!Over(Memory[k], peak)}
  BY <1>2
<1>4. Memory' = [k \in Keys |-> IF k \in old THEN Nothing ELSE Memory[k]]
  BY DEF EvictExpired, Memory, Remembered
<1>5. UNCHANGED <<clock, peak, answer>>
  BY DEF EvictExpired, times
<1> HIDE DEF old
<1> QED
  BY <1>3, <1>4, <1>5 DEF Map!Expire, Memory

LEMMA StepRefines ==
  ASSUME IInv, [Next]_vars
  PROVE  [Map!MapNext]_<<clock, peak, Memory, answer>>
<1> USE DEF times
<1>1. ASSUME NEW t \in Threads, NEW k \in Keys, Get(t, k) PROVE Map!Read(t, k)
  <2>1. EraseStale(k) /\ UNCHANGED <<clock, peak>>
    BY <1>1 DEF Get
  <2>2. answer' = [answer EXCEPT ![t] = IF Map!Usable(k) THEN Memory[k].value ELSE Nothing]
    BY <1>1, <2>1, MemoryOfLookup DEF Get
  <2> QED
    BY <2>1, <2>2, MemoryOfLookup DEF Map!Read, Memory
<1>2. ASSUME NEW t \in Threads, NEW k \in Keys, Exists(t, k) PROVE Map!Check(t, k)
  <2>1. EraseStale(k) /\ UNCHANGED <<clock, peak>>
    BY <1>2 DEF Exists
  <2>2. answer' = [answer EXCEPT ![t] = Map!Usable(k)]
    <3>1. Map!Usable(k) = Hit(k)
      BY <2>1, MemoryOfLookup DEF Map!Usable, Hit
    <3> QED
      BY <1>2, <3>1 DEF Exists
  <2> QED
    BY <2>1, <2>2, MemoryOfLookup DEF Map!Check, Memory
<1>3. ASSUME NEW t \in Threads, NEW k \in Keys, NEW v \in Values, NEW ttl \in Ttls, Set(t, k, v, ttl)
      PROVE  Map!Put(k, v, ttl)
  <2>1. entries' = [entries EXCEPT ![k] = NewEntry(k, v, ttl)] /\ UNCHANGED <<clock, peak, answer>>
    BY <1>3 DEF Set
  <2>2. Memory' = [Memory EXCEPT ![k] = Remembered(NewEntry(k, v, ttl))]
    BY <2>1, MemoryOfUpdate DEF IInv
  <2>3. Memory' = [Memory EXCEPT ![k] = [value |-> v,
                     until |-> IF Ends[ttl] = Forever THEN Forever ELSE clock + Ends[ttl]]]
    BY <2>2, RememberedNewEntry DEF IInv
  <2> QED
    BY <2>1, <2>3 DEF Map!Put, Memory, Ends
<1>4. ASSUME NEW t \in Threads, NEW k \in Keys, Del(t, k) PROVE Map!Remove(k)
  <2>1. entries' = [entries EXCEPT ![k] = Nothing] /\ UNCHANGED <<clock, peak, answer>>
    BY <1>4 DEF Del
  <2>2. Memory' = [Memory EXCEPT ![k] = Remembered(Nothing)]
    BY <2>1, MemoryOfUpdate DEF IInv
  <2>3. Remembered(Nothing) = Nothing
    BY DEF Remembered
  <2> QED
    BY <2>1, <2>2, <2>3 DEF Map!Remove, Memory
<1>5. ASSUME NEW t \in Threads, Flush(t) PROVE Map!Clear
  <2>1. Memory' = [k \in Keys |-> Nothing]
    BY <1>5 DEF Flush, Memory, Remembered
  <2> QED
    BY <1>5, <2>1 DEF Flush, Map!Clear, Memory
<1>6. ASSUME NEW t \in Threads, StartEvict(t) PROVE UNCHANGED <<clock, peak, Memory, answer>>
  BY <1>6 DEF StartEvict, Memory
<1>7. ASSUME NEW t \in Threads, EvictExpired(t) PROVE Map!Expire
  BY <1>7, SweepForgets
<1>8. ASSUME Tick \/ SetBack PROVE Map!PassTime
  <2>1. clock \in Nat /\ peak \in Nat /\ clock <= peak
    BY BoundsAssumption DEF IInv, TypeOK, ClockInv
  <2>2. clock' \in Nat /\ peak' = IF clock' > peak THEN clock' ELSE peak
    BY <1>8, <2>1 DEF Tick, SetBack
  <2>3. entries' = entries /\ answer' = answer
    BY <1>8 DEF Tick, SetBack
  <2> QED
    BY <2>2, <2>3 DEF Map!PassTime, Memory
<1>9. CASE UNCHANGED vars
  BY <1>9 DEF vars, Memory
<1> QED
  BY <1>1, <1>2, <1>3, <1>4, <1>5, <1>6, <1>7, <1>8, <1>9 DEF Next, Map!MapNext, Memory

\* The cache implements a map whose entries expire, sweeps that wait for the
\* mutex and clocks that are set back included.
THEOREM Refinement == Spec => ImplementsMap
<1>1. Init => Map!MapInit
  BY DEF Init, Map!MapInit, Remembered
<1>2. IInv /\ [Next]_vars => [Map!MapNext]_(Map!mapVars)
  BY StepRefines DEF Map!mapVars, Memory
<1> QED
  BY InitIInv, NextIInv, <1>1, <1>2, PTL DEF Spec, ImplementsMap, Map!MapSpec
================================================================================
