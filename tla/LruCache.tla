------------------------------ MODULE LruCache ------------------------------
(***************************************************************************)
(* AsyncLruMemoryCache (src/services/cache.ts:113-186), and LruMemoryCache *)
(* (lines 44-99), which has the same get, set and delete without staleness.*)
(*                                                                         *)
(* The JavaScript Map is its keys in insertion order and their entries.    *)
(* An operation runs without an await, so it is one action.  expiresAt and *)
(* staleAt are kept as the time left until expiresAt, which stops counting *)
(* one tick past it; staleAt is swrMs before expiresAt.                    *)
(***************************************************************************)
EXTENDS Integers, FiniteSets, SequencesExt

CONSTANTS
  Keys, Values,
  Ttls,      \* the lifetimes entries are set with
  MaxSize,   \* maxSize
  Swr,       \* swrMs
  None       \* null, and no entry

Entries == [value : Values, left : Int, marked : BOOLEAN]

\* None is no key, no value and no entry, of the cache or of the map it is.
ASSUME LruAssumption ==
  /\ IsFiniteSet(Keys)
  /\ None \notin Keys \cup Values \cup Entries \cup [value : Values, left : Int]
  /\ Ttls \subseteq Nat \ {0}
  /\ MaxSize \in Nat \ {0}
  /\ Swr \in Nat

VARIABLES
  order,   \* the keys of the Map, oldest insertion first
  entry,   \* the entry of each key, or None
  answer,  \* what the latest operation returned
  stale,   \* the isStale of the latest getWithMeta
  newest   \* history: the key most recently hit or inserted, if still held

vars == <<order, entry, answer, stale, newest>>

\* The Map holds each key once, with its entry, and no more than maxSize.
TypeOK ==
  /\ order \in Seq(Keys)
  /\ entry \in [Keys -> Entries \cup {None}]
  /\ \A k \in Keys : entry[k] # None =>
       entry[k].left >= -1 /\ \E ttl \in Ttls : entry[k].left <= ttl
  /\ {order[i] : i \in DOMAIN order} = {k \in Keys : entry[k] # None}
  /\ Len(order) = Cardinality({k \in Keys : entry[k] # None})
  /\ Len(order) <= MaxSize
  /\ answer \in Values \cup {None}
  /\ stale \in BOOLEAN
  /\ newest \in Keys \cup {None}

Init ==
  /\ order = <<>>
  /\ entry = [k \in Keys |-> None]
  /\ answer = None
  /\ stale = FALSE
  /\ newest = None

-----------------------------------------------------------------------------

Held == {k \in Keys : entry[k] # None}

Without(seq, k) ==
  IF \E i \in DOMAIN seq : seq[i] = k
    THEN RemoveAt(seq, CHOOSE i \in DOMAIN seq : seq[i] = k)
    ELSE seq

ToEnd(seq, k) == Append(Without(seq, k), k)

Expired(k) == entry[k].left < 0

\* store.delete(k)
Erase(k) ==
  /\ order' = Without(order, k)
  /\ entry' = [entry EXCEPT ![k] = None]
  /\ newest' = IF newest = k THEN None ELSE newest

Miss(k) ==
  /\ entry[k] = None
  /\ answer' = None
  /\ stale' = FALSE
  /\ UNCHANGED <<order, entry, newest>>

\* Mutant: the expired entry is left in the Map.
MissExpiredKeeping(k) ==
  /\ entry[k] # None /\ Expired(k)
  /\ answer' = None
  /\ stale' = FALSE
  /\ order' = Without(order, k)
  /\ UNCHANGED <<entry, newest>>

MissExpired(k) ==
  /\ entry[k] # None /\ Expired(k)
  /\ answer' = None
  /\ stale' = FALSE
  /\ Erase(k)

\* Mutant: a hit does not move the key to the end.
HitInPlace(k) ==
  /\ entry[k] # None /\ ~Expired(k)
  /\ answer' = entry[k].value
  /\ stale' = FALSE
  /\ newest' = k
  /\ UNCHANGED <<order, entry>>

\* Mutant: the entry is still served at the tick after expiresAt.
HitExpired(k) ==
  /\ entry[k] # None
  /\ answer' = entry[k].value
  /\ stale' = FALSE
  /\ order' = ToEnd(order, k)
  /\ newest' = k
  /\ UNCHANGED entry

\* A hit deletes the entry and sets it again, which puts the key last.
Hit(k) ==
  /\ entry[k] # None /\ ~Expired(k)
  /\ answer' = entry[k].value
  /\ stale' = FALSE
  /\ order' = ToEnd(order, k)
  /\ newest' = k
  /\ UNCHANGED entry

\* getWithMeta: a hit that also tells whether now > staleAt.
HitWithMeta(k) ==
  /\ entry[k] # None /\ ~Expired(k)
  /\ answer' = entry[k].value
  /\ stale' = (entry[k].marked /\ entry[k].left < Swr)
  /\ order' = ToEnd(order, k)
  /\ newest' = k
  /\ UNCHANGED entry

Get(k) == Miss(k) \/ MissExpired(k) \/ Hit(k) \/ HitWithMeta(k)

\* Mutant: the stale time is added to the lifetime.
NewEntryLonger(v, ttl) ==
  [value |-> v, left |-> ttl + Swr, marked |-> Swr > 0 /\ ttl > Swr]

NewEntry(v, ttl) ==
  [value |-> v, left |-> ttl, marked |-> Swr > 0 /\ ttl > Swr]

\* set: a new key evicts the first one of a full Map and goes last; the new
\* entry of a key already held takes the place of the old one.
Set(k, v, ttl) ==
  LET evict == Cardinality(Held) >= MaxSize /\ k \notin Held
      kept  == IF evict THEN Tail(order) ELSE order
  IN  /\ order' = IF k \in Held THEN order ELSE Append(kept, k)
      /\ entry' = [x \in Keys |->
           IF x = k THEN NewEntry(v, ttl)
           ELSE IF evict /\ x = Head(order) THEN None ELSE entry[x]]
      /\ newest' = IF k \in Held THEN newest ELSE k
      /\ answer' = None
      /\ stale' = FALSE

Delete(k) ==
  /\ Erase(k)
  /\ answer' = None
  /\ stale' = FALSE

Flush ==
  /\ order' = <<>>
  /\ entry' = [k \in Keys |-> None]
  /\ newest' = None
  /\ answer' = None
  /\ stale' = FALSE

Tick ==
  /\ entry' = [k \in Keys |->
       IF entry[k] = None \/ entry[k].left < 0
         THEN entry[k] ELSE [entry[k] EXCEPT !.left = @ - 1]]
  /\ answer' = None
  /\ stale' = FALSE
  /\ UNCHANGED <<order, newest>>

Next ==
  \/ \E k \in Keys : Get(k) \/ Delete(k)
  \/ \E k \in Keys, v \in Values, ttl \in Ttls : Set(k, v, ttl)
  \/ Flush
  \/ Tick

Spec == Init /\ [][Next]_vars

-----------------------------------------------------------------------------
(* Safety *)

\* The key that was hit or inserted last is not the one evicted next, unless
\* the cache has room for one only: a key in use survives the arrival of others.
NewestSurvives ==
  newest # None /\ MaxSize > 1 =>
    newest \in Held /\ (Len(order) = MaxSize => Head(order) # newest)

Map == INSTANCE ExpiringMap WITH bound <- [k \in Keys |->
         IF entry[k] = None THEN None
         ELSE [value |-> entry[k].value, left |-> entry[k].left]]

\* The cache is an expiring map: eviction, expiry on read and reordering are
\* never seen as a value that was overwritten, deleted, flushed or too old.
ImplementsExpiringMap == Map!Spec

=============================================================================
