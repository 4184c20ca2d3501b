------------------------------ MODULE ExpiringMap ------------------------------
(***************************************************************************)
(* What CacheAdapter and InMemoryCacheAdapter of                           *)
(* src/src/infrastructure/cache/cache_adapter.hpp promise: a map whose     *)
(* entries last for the time they were given.  An entry may be forgotten   *)
(* once the clock has shown the end of its time, though the clock may have *)
(* been set back since, and never before.                                  *)
(***************************************************************************)
EXTENDS Integers

CONSTANTS
  Threads, Keys, Values, Ttls,
  Nothing,    \* std::nullopt
  Forever,    \* the end of a time without an end
  Lifetime    \* what each time to live asks for

VARIABLES
  clock,      \* the time now
  peak,       \* the latest time there has been
  map,        \* what is remembered
  answer      \* each thread's last answer

mapVars == <<clock, peak, map, answer>>

Over(entry, time) == entry.until # Forever /\ entry.until <= time

Usable(k) == map[k] # Nothing /\ ~Over(map[k], clock)

Forgets(k) == map[k] # Nothing /\ Over(map[k], peak) /\ map' = [map EXCEPT ![k] = Nothing]

MapInit ==
  /\ clock \in Nat
  /\ peak = clock
  /\ map = [k \in Keys |-> Nothing]
  /\ answer = [t \in Threads |-> Nothing]

PassTime ==
  /\ clock' \in Nat
  /\ peak' = IF clock' > peak THEN clock' ELSE peak
  /\ UNCHANGED <<map, answer>>

Put(k, v, ttl) ==
  /\ map' = [map EXCEPT ![k] =
       [value |-> v,
        until |-> IF Lifetime[ttl] = Forever THEN Forever ELSE clock + Lifetime[ttl]]]
  /\ UNCHANGED <<clock, peak, answer>>

Remove(k) == map' = [map EXCEPT ![k] = Nothing] /\ UNCHANGED <<clock, peak, answer>>

Clear == map' = [k \in Keys |-> Nothing] /\ UNCHANGED <<clock, peak, answer>>

Read(t, k) ==
  /\ answer' = [answer EXCEPT ![t] = IF Usable(k) THEN map[k].value ELSE Nothing]
  /\ map' = map \/ Forgets(k)
  /\ UNCHANGED <<clock, peak>>

Check(t, k) ==
  /\ answer' = [answer EXCEPT ![t] = Usable(k)]
  /\ map' = map \/ Forgets(k)
  /\ UNCHANGED <<clock, peak>>

Expire ==
  /\ \E old \in SUBSET {k \in Keys : map[k] # Nothing /\ Over(map[k], peak)} :
       map' = [k \in Keys |-> IF k \in old THEN Nothing ELSE map[k]]
  /\ UNCHANGED <<clock, peak, answer>>

MapNext ==
  \/ PassTime
  \/ \E k \in Keys, v \in Values, ttl \in Ttls : Put(k, v, ttl)
  \/ \E k \in Keys : Remove(k)
  \/ Clear
  \/ \E t \in Threads, k \in Keys : Read(t, k) \/ Check(t, k)
  \/ Expire

MapSpec == MapInit /\ [][MapNext]_mapVars
================================================================================
