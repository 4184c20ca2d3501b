----------------------------- MODULE CacheAdapter ------------------------------
(***************************************************************************)
(* InMemoryCacheAdapter of src/src/infrastructure/cache/cache_adapter.cpp: *)
(* threads that share a map under one mutex, entries that expire by the    *)
(* system clock and are erased by whoever meets them, and a sweep that     *)
(* reads the clock before it locks.                                        *)
(*                                                                         *)
(* Each operation but the sweep has one critical section, reads the clock  *)
(* inside it and is one step.  The clock counts seconds and may be set     *)
(* back: system_clock is not steady.                                       *)
(***************************************************************************)
EXTENDS Integers

CONSTANTS
  Threads, Keys, Values,
  Ttls,          \* times to live that callers pass, in seconds; 0 is the default argument
  DefaultTtl,    \* m_default_ttl
  Nothing,       \* no entry, std::nullopt, or no sweep under way
  Forever,       \* the expiry of an entry that has none
  MaxTime,       \* bound: the clock
  MaxSetBacks    \* bound: times the clock is set back

Entry == [value : Values, has_ttl : BOOLEAN, expires_at : Nat]
Timed == [value : Values, until : Nat \cup {Forever}]

ASSUME TtlsAssumption == Ttls \subseteq Int /\ DefaultTtl \in Int
ASSUME NothingAssumption ==
  Nothing \notin Values \cup Entry \cup Timed \cup Nat /\ Forever \notin Int
ASSUME BoundsAssumption == MaxTime \in Nat /\ MaxSetBacks \in Nat

VARIABLES
  entries,     \* m_entries
  clock,       \* what system_clock::now() returns
  now,         \* the time a thread inside evict_expired has read
  answer,      \* what a thread's last get or exists returned
  peak,        \* history: the latest time the clock has shown
  setbacks     \* what MaxSetBacks bounds

vars == <<entries, clock, now, answer, peak, setbacks>>
times == <<clock, peak, setbacks>>

Init ==
  /\ entries = [k \in Keys |-> Nothing]
  /\ clock = 0
  /\ now = [t \in Threads |-> Nothing]
  /\ answer = [t \in Threads |-> Nothing]
  /\ peak = 0
  /\ setbacks = 0

Ready(t) == now[t] = Nothing

Expired_AnyTtl(entry, time) == entry.has_ttl
Expired(entry, time) == entry.has_ttl /\ time >= entry.expires_at

Stale(k, time) == entries[k] # Nothing /\ Expired(entries[k], time)

Hit(k) == entries[k] # Nothing /\ ~Stale(k, clock)

\* get and exists erase the entry they find expired.
EraseStale(k) == entries' = IF Stale(k, clock) THEN [entries EXCEPT ![k] = Nothing] ELSE entries

Get(t, k) ==
  /\ Ready(t)
  /\ EraseStale(k)
  /\ answer' = [answer EXCEPT ![t] = IF Hit(k) THEN entries[k].value ELSE Nothing]
  /\ UNCHANGED <<now, times>>

Exists(t, k) ==
  /\ Ready(t)
  /\ EraseStale(k)
  /\ answer' = [answer EXCEPT ![t] = Hit(k)]
  /\ UNCHANGED <<now, times>>

EffectiveTtl(ttl) == IF ttl = 0 /\ DefaultTtl > 0 THEN DefaultTtl ELSE ttl

\* A time to live that is not positive is none, and expires_at stays at the epoch.
NewEntry_Unguarded(k, v, ttl) ==
  [value |-> v, has_ttl |-> TRUE, expires_at |-> clock + EffectiveTtl(ttl)]
NewEntry_KeepsExpiry(k, v, ttl) ==
  IF entries[k] # Nothing THEN [entries[k] EXCEPT !.value = v]
  ELSE LET effective == EffectiveTtl(ttl) IN
       [value |-> v, has_ttl |-> effective > 0,
        expires_at |-> IF effective > 0 THEN clock + effective ELSE 0]
NewEntry(k, v, ttl) ==
  LET effective == EffectiveTtl(ttl) IN
  [value |-> v, has_ttl |-> effective > 0,
   expires_at |-> IF effective > 0 THEN clock + effective ELSE 0]

Set(t, k, v, ttl) ==
  /\ Ready(t)
  /\ entries' = [entries EXCEPT ![k] = NewEntry(k, v, ttl)]
  /\ UNCHANGED <<now, answer, times>>

Del(t, k) ==
  /\ Ready(t)
  /\ entries' = [entries EXCEPT ![k] = Nothing]
  /\ UNCHANGED <<now, answer, times>>

Flush(t) ==
  /\ Ready(t)
  /\ entries' = [k \in Keys |-> Nothing]
  /\ UNCHANGED <<now, answer, times>>

\* evict_expired reads the clock and goes for the mutex...
StartEvict(t) ==
  /\ Ready(t)
  /\ now' = [now EXCEPT ![t] = clock]
  /\ UNCHANGED <<entries, answer, times>>

\* ...and, when it has it, erases what had expired when it read the clock.
EvictExpired(t) ==
  /\ ~Ready(t)
  /\ entries' = [k \in Keys |-> IF Stale(k, now[t]) THEN Nothing ELSE entries[k]]
  /\ now' = [now EXCEPT ![t] = Nothing]
  /\ UNCHANGED <<answer, times>>

Tick ==
  /\ clock < MaxTime
  /\ clock' = clock + 1
  /\ peak' = IF clock' > peak THEN clock' ELSE peak
  /\ UNCHANGED <<entries, now, answer, setbacks>>

SetBack ==
  /\ setbacks < MaxSetBacks
  /\ clock' \in 0..(clock - 1)
  /\ setbacks' = setbacks + 1
  /\ UNCHANGED <<entries, now, answer, peak>>

Next ==
  \/ \E t \in Threads :
       \/ \E k \in Keys :
            \/ Get(t, k) \/ Exists(t, k) \/ Del(t, k)
            \/ \E v \in Values, ttl \in Ttls : Set(t, k, v, ttl)
       \/ Flush(t) \/ StartEvict(t) \/ EvictExpired(t)
  \/ Tick
  \/ SetBack

Spec == Init /\ [][Next]_vars

--------------------------------------------------------------------------------
(* Properties *)

\* Every variable keeps to its type.
TypeOK ==
  /\ entries \in [Keys -> Entry \cup {Nothing}]
  /\ clock \in 0..MaxTime
  /\ now \in [Threads -> Nat \cup {Nothing}]
  /\ answer \in [Threads -> Values \cup BOOLEAN \cup {Nothing}]
  /\ peak \in 0..MaxTime
  /\ setbacks \in 0..MaxSetBacks

\* The entry as the abstract map has it.
Remembered(entry) ==
  IF entry = Nothing THEN Nothing
  ELSE [value |-> entry.value,
        until |-> IF entry.has_ttl THEN entry.expires_at ELSE Forever]

\* What callers see is a map whose entries last for the time they were given:
\* no get or exists finds an expired entry, no set leaves the former entry's
\* expiry in force, and no sweep, however long it waits for the mutex, takes an
\* entry whose time has never come.
Map == INSTANCE ExpiringMap WITH
         Lifetime <- [ttl \in Ttls |-> IF ttl > 0 THEN ttl
                                       ELSE IF ttl = 0 /\ DefaultTtl > 0 THEN DefaultTtl
                                       ELSE Forever],
         map <- [k \in Keys |-> Remembered(entries[k])]
ImplementsMap == Map!MapSpec

\* A sweep erases an entry only once the clock says that its time has come: true
\* while the clock is not set back.
SweepsOnlyExpired ==
  [][setbacks = 0 =>
       \A t \in Threads, k \in Keys :
         now[t] # Nothing /\ now'[t] = Nothing /\ entries[k] # Nothing /\ entries'[k] = Nothing
           => entries[k].has_ttl /\ entries[k].expires_at <= clock]_vars
================================================================================
