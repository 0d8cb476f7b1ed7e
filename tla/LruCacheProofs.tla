---------------------------- MODULE LruCacheProofs ---------------------------
(***************************************************************************)
(* For every set of keys and values, every size and every lifetime: the    *)
(* cache keeps its keys in a list without repetition that matches its      *)
(* entries, a key in use is not the next to be evicted, and the cache is   *)
(* the expiring map of ExpiringMap.                                        *)
(***************************************************************************)
EXTENDS LruCache, FiniteSetTheorems, SequenceTheorems, TLAPS

-----------------------------------------------------------------------------
(* The inductive invariant *)

\* The keys in a sequence.
Keyed(seq) == {seq[i] : i \in DOMAIN seq}

\* No key is listed twice.
Unrepeated(seq) == \A i, j \in DOMAIN seq : seq[i] = seq[j] => i = j

\* The key hit or inserted last is the last of the list.
NewestIsLast == newest # None => order # <<>> /\ order[Len(order)] = newest

IInv == TypeOK /\ Unrepeated(order) /\ NewestIsLast

-----------------------------------------------------------------------------
(* Lists of keys *)

LEMMA RemoveAtProperties ==
  ASSUME NEW seq \in Seq(Keys), NEW i \in DOMAIN seq
  PROVE  /\ RemoveAt(seq, i) \in Seq(Keys)
         /\ Len(RemoveAt(seq, i)) = Len(seq) - 1
         /\ \A j \in 1..(Len(seq) - 1) :
              RemoveAt(seq, i)[j] = IF j < i THEN seq[j] ELSE seq[j + 1]
<1> DEFINE n == Len(seq)
           before == SubSeq(seq, 1, i - 1)
           after  == SubSeq(seq, i + 1, n)
<1>1. n \in Nat /\ i \in 1..n /\ \A j \in 1..n : seq[j] \in Keys
  BY LenProperties
<1>2. /\ before \in Seq(Keys) /\ Len(before) = i - 1
      /\ \A j \in 1..(i - 1) : before[j] = seq[j]
  <2>1. i - 1 \in Int /\ \A j \in 1..(i - 1) : seq[j] \in Keys
    BY <1>1
  <2>2. /\ SubSeq(seq, 1, i - 1) \in Seq(Keys)
        /\ Len(SubSeq(seq, 1, i - 1)) = IF 1 <= i - 1 THEN (i - 1) - 1 + 1 ELSE 0
        /\ \A j \in 1..((i - 1) - 1 + 1) : SubSeq(seq, 1, i - 1)[j] = seq[1 + j - 1]
    BY <2>1, SubSeqProperties
  <2>3. QED
    BY <1>1, <2>2
<1>3. /\ after \in Seq(Keys) /\ Len(after) = n - i
      /\ \A j \in 1..(n - i) : after[j] = seq[i + j]
  <2>1. i + 1 \in Int /\ n \in Int /\ \A j \in (i + 1)..n : seq[j] \in Keys
    BY <1>1
  <2>2. /\ SubSeq(seq, i + 1, n) \in Seq(Keys)
        /\ Len(SubSeq(seq, i + 1, n)) = IF i + 1 <= n THEN n - (i + 1) + 1 ELSE 0
        /\ \A j \in 1..(n - (i + 1) + 1) :
             SubSeq(seq, i + 1, n)[j] = seq[(i + 1) + j - 1]
    BY <2>1, SubSeqProperties
  <2>3. QED
    BY <1>1, <2>2
<1>4. RemoveAt(seq, i) = before \o after
  BY DEF RemoveAt
<1> HIDE DEF before, after
<1>5. /\ before \o after \in Seq(Keys)
      /\ Len(before \o after) = Len(before) + Len(after)
      /\ \A j \in 1..(Len(before) + Len(after)) : (before \o after)[j] =
           IF j <= Len(before) THEN before[j] ELSE after[j - Len(before)]
  BY <1>2, <1>3, ConcatProperties
<1>6. Len(before \o after) = n - 1
  BY <1>1, <1>2, <1>3, <1>5
<1>7. ASSUME NEW j \in 1..(n - 1)
      PROVE  (before \o after)[j] = IF j < i THEN seq[j] ELSE seq[j + 1]
  <2>1. CASE j < i
    <3>1. (before \o after)[j] = before[j] /\ j \in 1..(i - 1)
      <4>1. /\ j \in 1..(Len(before) + Len(after)) /\ j <= Len(before)
            /\ j \in 1..(i - 1)
        BY <1>1, <1>2, <1>3, <2>1
      <4>2. QED
        BY <1>5, <4>1
    <3>2. QED
      BY <1>2, <2>1, <3>1
  <2>2. CASE ~(j < i)
    <3>1. (before \o after)[j] = after[j - (i - 1)]
      <4>1. j \in 1..(Len(before) + Len(after)) /\ ~(j <= Len(before))
        BY <1>1, <1>2, <1>3, <2>2
      <4>2. (before \o after)[j] = after[j - Len(before)]
        BY <1>5, <4>1
      <4>3. QED
        BY <1>2, <4>2
    <3>2. j - (i - 1) \in 1..(n - i) /\ i + (j - (i - 1)) = j + 1
      BY <1>1, <2>2
    <3>3. QED
      BY <1>3, <2>2, <3>1, <3>2
  <2>3. QED
    BY <2>1, <2>2
<1>8. QED
  BY <1>4, <1>5, <1>6, <1>7

\* A key that is taken out is gone, and the others stay in their order.
LEMMA WithoutProperties ==
  ASSUME NEW seq \in Seq(Keys), Unrepeated(seq), NEW k
  PROVE  /\ Without(seq, k) \in Seq(Keys)
         /\ Unrepeated(Without(seq, k))
         /\ Keyed(Without(seq, k)) = Keyed(seq) \ {k}
         /\ Len(Without(seq, k)) = IF k \in Keyed(seq) THEN Len(seq) - 1 ELSE Len(seq)
         /\ seq # <<>> /\ seq[Len(seq)] # k =>
              /\ Without(seq, k) # <<>>
              /\ Without(seq, k)[Len(Without(seq, k))] = seq[Len(seq)]
<1>1. CASE ~ \E i \in DOMAIN seq : seq[i] = k
  BY <1>1 DEF Without, Keyed
<1>2. CASE \E i \in DOMAIN seq : seq[i] = k
  <2> DEFINE i == CHOOSE j \in DOMAIN seq : seq[j] = k
             n == Len(seq)
             w == RemoveAt(seq, i)
  <2>1. i \in DOMAIN seq /\ seq[i] = k
    BY <1>2
  <2>2. Without(seq, k) = w
    BY <1>2 DEF Without
  <2>3. n \in Nat /\ DOMAIN seq = 1..n
    BY LenProperties
  <2> HIDE DEF i
  <2>4. /\ w \in Seq(Keys) /\ Len(w) = n - 1
        /\ \A j \in 1..(n - 1) : w[j] = IF j < i THEN seq[j] ELSE seq[j + 1]
    BY <2>1, RemoveAtProperties
  <2> HIDE DEF w, n
  <2>5. DOMAIN w = 1..(n - 1)
    BY <2>4, LenProperties
  <2>6. Unrepeated(w)
    <3> SUFFICES ASSUME NEW a \in DOMAIN w, NEW b \in DOMAIN w, w[a] = w[b]
                 PROVE  a = b
      BY DEF Unrepeated
    <3> DEFINE place(j) == IF j < i THEN j ELSE j + 1
    <3>1. /\ place(a) \in DOMAIN seq /\ w[a] = seq[place(a)]
          /\ place(b) \in DOMAIN seq /\ w[b] = seq[place(b)]
      BY <2>1, <2>3, <2>4, <2>5
    <3>2. place(a) = place(b)
      BY <3>1 DEF Unrepeated
    <3>3. QED
      BY <2>1, <2>3, <2>5, <3>2
  <2>7. Keyed(w) = Keyed(seq) \ {k}
    <3>1. ASSUME NEW j \in DOMAIN w
          PROVE  w[j] \in Keyed(seq) \ {k}
      <4> DEFINE place == IF j < i THEN j ELSE j + 1
      <4>1. place \in DOMAIN seq /\ w[j] = seq[place] /\ place # i
        BY <2>1, <2>3, <2>4, <2>5, <3>1
      <4> HIDE DEF place
      <4>2. seq[place] # seq[i]
        BY <2>1, <4>1 DEF Unrepeated
      <4>3. QED
        BY <2>1, <4>1, <4>2 DEF Keyed
    <3>2. ASSUME NEW j \in DOMAIN seq, seq[j] # k
          PROVE  \E m \in DOMAIN w : w[m] = seq[j]
      <4>1. CASE j < i
        <5>1. j \in DOMAIN w /\ w[j] = seq[j]
          BY <2>1, <2>3, <2>4, <2>5, <4>1
        <5>2. QED
          BY <5>1
      <4>2. CASE ~(j < i)
        <5>1. j - 1 \in DOMAIN w /\ w[j - 1] = seq[j]
          BY <2>1, <2>3, <2>4, <2>5, <3>2, <4>2
        <5>2. QED
          BY <5>1
      <4>3. QED
        BY <4>1, <4>2
    <3>3. QED
      BY <3>1, <3>2 DEF Keyed
  <2>8. k \in Keyed(seq)
    BY <2>1 DEF Keyed
  <2>9. ASSUME seq[Len(seq)] # k
        PROVE  w # <<>> /\ w[Len(w)] = seq[Len(seq)]
    <3>1. n - 1 \in 1..(n - 1) /\ w[n - 1] = seq[n]
      BY <2>1, <2>3, <2>4, <2>9 DEF n
    <3>2. QED
      BY <2>4, <3>1, EmptySeq DEF n
  <2>10. QED
    BY <2>2, <2>4, <2>6, <2>7, <2>8, <2>9 DEF n
<1>3. QED
  BY <1>1, <1>2

\* A key put last is the last.
LEMMA AppendedProperties ==
  ASSUME NEW seq \in Seq(Keys), Unrepeated(seq), NEW k \in Keys, k \notin Keyed(seq)
  PROVE  /\ Append(seq, k) \in Seq(Keys)
         /\ Unrepeated(Append(seq, k))
         /\ Keyed(Append(seq, k)) = Keyed(seq) \cup {k}
         /\ Len(Append(seq, k)) = Len(seq) + 1
         /\ Append(seq, k) # <<>>
         /\ Append(seq, k)[Len(Append(seq, k))] = k
<1> DEFINE a == Append(seq, k)
           n == Len(seq)
<1>1. n \in Nat /\ DOMAIN seq = 1..n
  BY LenProperties
<1>2. /\ a \in Seq(Keys) /\ a # <<>> /\ Len(a) = n + 1
      /\ \A i \in 1..n : a[i] = seq[i]
      /\ a[n + 1] = k
  BY AppendProperties
<1> HIDE DEF a, n
<1>3. DOMAIN a = 1..(n + 1)
  BY <1>2, LenProperties
<1>4. Unrepeated(a)
  BY <1>1, <1>2, <1>3 DEF Unrepeated, Keyed
<1>5. Keyed(a) = Keyed(seq) \cup {k}
  <2>1. ASSUME NEW i \in DOMAIN a
        PROVE  a[i] \in Keyed(seq) \cup {k}
    BY <1>1, <1>2, <1>3 DEF Keyed
  <2>2. ASSUME NEW i \in DOMAIN seq
        PROVE  i \in DOMAIN a /\ a[i] = seq[i]
    BY <1>1, <1>2, <1>3
  <2>3. n + 1 \in DOMAIN a /\ a[n + 1] = k
    BY <1>1, <1>2, <1>3
  <2>4. QED
    BY <2>1, <2>2, <2>3 DEF Keyed
<1>6. QED
  BY <1>2, <1>4, <1>5 DEF a, n

\* Evicting the first key leaves the others.
LEMMA TailKeepsTheRest ==
  ASSUME NEW seq \in Seq(Keys), Unrepeated(seq), seq # <<>>
  PROVE  /\ Tail(seq) \in Seq(Keys)
         /\ Unrepeated(Tail(seq))
         /\ Keyed(Tail(seq)) = Keyed(seq) \ {Head(seq)}
         /\ Len(Tail(seq)) = Len(seq) - 1
         /\ Head(seq) = seq[1] /\ Head(seq) \in Keyed(seq)
<1> DEFINE t == Tail(seq)
           n == Len(seq)
<1>1. n \in Nat \ {0} /\ DOMAIN seq = 1..n
  BY LenProperties, EmptySeq
<1>2. /\ t \in Seq(Keys) /\ Len(t) = n - 1
      /\ \A i \in 1..(n - 1) : t[i] = seq[i + 1]
  BY HeadTailProperties
<1>3. Head(seq) = seq[1] /\ Head(seq) \in Keyed(seq)
  BY <1>1 DEF Keyed
<1> HIDE DEF t, n
<1>4. DOMAIN t = 1..(n - 1)
  BY <1>2, LenProperties
<1>5. Unrepeated(t)
  <2> SUFFICES ASSUME NEW a \in DOMAIN t, NEW b \in DOMAIN t, t[a] = t[b]
               PROVE  a = b
    BY DEF Unrepeated
  <2>1. /\ a + 1 \in DOMAIN seq /\ t[a] = seq[a + 1]
        /\ b + 1 \in DOMAIN seq /\ t[b] = seq[b + 1]
    BY <1>1, <1>2, <1>4
  <2>2. a + 1 = b + 1
    BY <2>1 DEF Unrepeated
  <2>3. QED
    BY <1>1, <1>4, <2>2
<1>6. Keyed(t) = Keyed(seq) \ {Head(seq)}
  <2>1. ASSUME NEW i \in DOMAIN t
        PROVE  t[i] \in Keyed(seq) \ {seq[1]}
    BY <1>1, <1>2, <1>4, <2>1 DEF Keyed, Unrepeated
  <2>2. ASSUME NEW i \in DOMAIN seq, seq[i] # seq[1]
        PROVE  i - 1 \in DOMAIN t /\ t[i - 1] = seq[i]
    BY <1>1, <1>2, <1>4, <2>2
  <2>3. QED
    BY <1>3, <2>1, <2>2 DEF Keyed
<1>7. QED
  BY <1>2, <1>3, <1>5, <1>6 DEF t, n

-----------------------------------------------------------------------------
(* The steps *)

\* The list holds the keys that have an entry, each once.
ListMatches ==
  /\ order \in Seq(Keys) /\ Unrepeated(order)
  /\ Keyed(order) = Held
  /\ Len(order) = Cardinality(Held)
  /\ Len(order) <= MaxSize

\* No entry lives longer than some lifetime, nor past one tick after its end.
EntriesLive ==
  /\ entry \in [Keys -> Entries \cup {None}]
  /\ \A k \in Keys : entry[k] # None =>
       entry[k].left >= -1 /\ \E ttl \in Ttls : entry[k].left <= ttl

AnswerOK == answer \in Values \cup {None} /\ stale \in BOOLEAN

CacheOK == ListMatches /\ EntriesLive /\ NewestIsLast /\ newest \in Keys \cup {None}

LEMMA Parts == IInv <=> CacheOK /\ AnswerOK
BY DEF IInv, TypeOK, CacheOK, ListMatches, EntriesLive, AnswerOK, Keyed, Held

LEMMA HeldIsFinite ==
  ASSUME NEW S \in SUBSET Keys
  PROVE  IsFiniteSet(S) /\ Cardinality(S) \in Nat
BY LruAssumption, FS_Subset, FS_CardinalityType

\* Deleting a key, whether it is held or not.
LEMMA ErasureKeeps ==
  ASSUME CacheOK, NEW k \in Keys, Erase(k)
  PROVE  CacheOK'
<1> USE LruAssumption DEF CacheOK, Erase
<1>1. EntriesLive'
  BY DEF EntriesLive
<1>2. Held' = Held \ {k} /\ Held \in SUBSET Keys
  BY DEF EntriesLive, Held
<1>3. Cardinality(Held') =
        IF k \in Held THEN Cardinality(Held) - 1 ELSE Cardinality(Held)
  BY <1>2, HeldIsFinite, FS_RemoveElement
<1>4. /\ order' \in Seq(Keys) /\ Unrepeated(order') /\ Keyed(order') = Keyed(order) \ {k}
      /\ Len(order') = IF k \in Keyed(order) THEN Len(order) - 1 ELSE Len(order)
      /\ order # <<>> /\ order[Len(order)] # k =>
           order' # <<>> /\ order'[Len(order')] = order[Len(order)]
  BY WithoutProperties DEF ListMatches
<1>5. Len(order) \in Nat
  BY LenProperties DEF ListMatches
<1>6. ListMatches'
  <2>1. Unrepeated(order)' /\ Keyed(order)' = Held'
    BY <1>2, <1>4 DEF ListMatches, Unrepeated, Keyed
  <2>2. QED
    BY <1>3, <1>4, <1>5, <2>1 DEF ListMatches
<1>7. NewestIsLast' /\ newest' \in Keys \cup {None}
  BY <1>4 DEF NewestIsLast
<1>8. QED
  BY <1>1, <1>6, <1>7

\* Moving a key that is held to the end.
LEMMA MoveKeeps ==
  ASSUME CacheOK, NEW k \in Keys, entry[k] # None,
         order' = ToEnd(order, k), newest' = k, UNCHANGED entry
  PROVE  CacheOK'
<1> USE DEF CacheOK
<1> DEFINE w == Without(order, k)
<1>1. order \in Seq(Keys) /\ Unrepeated(order) /\ k \in Keyed(order)
  BY DEF ListMatches, Held
<1>2. /\ w \in Seq(Keys) /\ Unrepeated(w) /\ Keyed(w) = Keyed(order) \ {k}
      /\ Len(w) = Len(order) - 1
  BY <1>1, WithoutProperties
<1>3. order' = Append(w, k)
  BY DEF ToEnd
<1> HIDE DEF w
<1>4. /\ order' \in Seq(Keys) /\ Unrepeated(order')
      /\ Keyed(order') = Keyed(w) \cup {k}
      /\ Len(order') = Len(w) + 1
      /\ order' # <<>> /\ order'[Len(order')] = k
  BY <1>2, <1>3, AppendedProperties
<1>5. Held' = Held /\ Keyed(order') = Held /\ Len(order') = Len(order)
  <2>1. Len(order) \in Nat
    BY <1>1, LenProperties
  <2>2. QED
    BY <1>1, <1>2, <1>4, <2>1 DEF Held, ListMatches
<1>6. ListMatches'
  BY <1>4, <1>5 DEF ListMatches, Unrepeated, Keyed
<1>7. EntriesLive'
  BY DEF EntriesLive
<1>8. NewestIsLast' /\ newest' \in Keys \cup {None}
  BY <1>4 DEF NewestIsLast
<1>9. QED
  BY <1>6, <1>7, <1>8

\* A full cache that is given a new key lets go of the first one.
Evicts(k) == Cardinality(Held) >= MaxSize /\ k \notin Held

\* What Set leaves: the entries but the evicted one, and the new one.
LEMMA SetEntries ==
  ASSUME CacheOK, NEW k \in Keys, NEW v \in Values, NEW ttl \in Ttls, Set(k, v, ttl)
  PROVE  /\ EntriesLive'
         /\ entry'[k] = NewEntry(v, ttl) /\ NewEntry(v, ttl) \in Entries
         /\ Evicts(k) =>
              /\ order # <<>> /\ Head(order) \in Held
              /\ \A x \in Keys \ {k} :
                   entry'[x] = IF x = Head(order) THEN None ELSE entry[x]
         /\ ~Evicts(k) => \A x \in Keys \ {k} : entry'[x] = entry[x]
         /\ Held' = (IF Evicts(k) THEN Held \ {Head(order)} ELSE Held) \cup {k}
<1> USE LruAssumption DEF CacheOK
<1>1. NewEntry(v, ttl) \in Entries
  <2>1. (Swr > 0 /\ ttl > Swr) \in BOOLEAN
    BY Zenon
  <2>2. ttl \in Int
    OBVIOUS
  <2>3. QED
    BY <2>1, <2>2 DEF NewEntry, Entries
<1>2. NewEntry(v, ttl) # None
  BY <1>1
<1>3. entry' = [x \in Keys |->
        IF x = k THEN NewEntry(v, ttl)
        ELSE IF Evicts(k) /\ x = Head(order) THEN None ELSE entry[x]]
  BY DEF Set, Evicts
<1>4. Evicts(k) => order # <<>> /\ Head(order) \in Held
  <2>1. Evicts(k) => order # <<>>
    BY EmptySeq DEF Evicts, ListMatches
  <2>2. QED
    BY <2>1, TailKeepsTheRest DEF ListMatches
<1>5. EntriesLive'
  <2>1. NewEntry(v, ttl).left = ttl
    BY DEF NewEntry
  <2>2. QED
    BY <1>1, <1>3, <2>1 DEF EntriesLive
<1>6. Held' = (IF Evicts(k) THEN Held \ {Head(order)} ELSE Held) \cup {k}
  BY <1>2, <1>3, <1>4 DEF Held, Evicts
<1>7. QED
  BY <1>1, <1>3, <1>4, <1>5, <1>6

LEMMA SetKeeps ==
  ASSUME CacheOK, NEW k \in Keys, NEW v \in Values, NEW ttl \in Ttls, Set(k, v, ttl)
  PROVE  CacheOK'
<1> USE LruAssumption DEF CacheOK
<1>0. /\ order \in Seq(Keys) /\ Unrepeated(order) /\ Keyed(order) = Held
      /\ Len(order) \in Nat /\ Held \in SUBSET Keys
  BY LenProperties DEF ListMatches, Held
<1>1. CASE k \in Held
  <2>1. order' = order /\ newest' = newest
    BY <1>1 DEF Set
  <2>2. Held' = Held
    <3>1. ~Evicts(k)
      BY <1>1 DEF Evicts
    <3>2. Held' = Held \cup {k}
      BY <3>1, SetEntries
    <3>3. QED
      BY <1>1, <3>2
  <2>3. ListMatches' /\ NewestIsLast'
    BY <2>1, <2>2 DEF ListMatches, Unrepeated, Keyed, NewestIsLast
  <2>4. QED
    BY <2>1, <2>3, SetEntries
<1>2. CASE k \notin Held
  <2> DEFINE kept == IF Evicts(k) THEN Tail(order) ELSE order
             left == IF Evicts(k) THEN Held \ {Head(order)} ELSE Held
  <2>1. order' = Append(kept, k) /\ newest' = k
    BY <1>2 DEF Set, Evicts
  <2>2. Evicts(k) => order # <<>> /\ Head(order) \in Held
    BY SetEntries
  <2>3. /\ kept \in Seq(Keys) /\ Unrepeated(kept) /\ Keyed(kept) = left
        /\ Len(kept) = IF Evicts(k) THEN Len(order) - 1 ELSE Len(order)
    BY <1>0, <2>2, TailKeepsTheRest
  <2>4. Held' = left \cup {k} /\ left \subseteq Held
    BY SetEntries
  <2>5. Cardinality(left) =
          IF Evicts(k) THEN Cardinality(Held) - 1 ELSE Cardinality(Held)
    BY <1>0, <2>2, HeldIsFinite, FS_RemoveElement
  <2> HIDE DEF kept, left
  <2>6. Cardinality(Held') = Cardinality(left) + 1
    <3>1. IsFiniteSet(left) /\ k \notin left
      BY <1>0, <1>2, <2>4, HeldIsFinite
    <3>2. QED
      BY <2>4, <3>1, FS_AddElement
  <2>7. /\ order' \in Seq(Keys) /\ Unrepeated(order')
        /\ Keyed(order') = Keyed(kept) \cup {k}
        /\ Len(order') = Len(kept) + 1
        /\ order' # <<>> /\ order'[Len(order')] = k
    <3>1. k \notin Keyed(kept)
      BY <1>2, <2>3, <2>4
    <3>2. QED
      BY <2>1, <2>3, <3>1, AppendedProperties
  <2>8. Unrepeated(order)' /\ Keyed(order)' = Held'
    BY <2>3, <2>4, <2>7 DEF Unrepeated, Keyed
  <2>9. Cardinality(Held) \in Nat /\ Len(order) = Cardinality(Held)
    BY <1>0, HeldIsFinite DEF ListMatches
  <2>10. Len(order') = Cardinality(Held') /\ Len(order') <= MaxSize
    <3>1. Evicts(k) <=> Cardinality(Held) >= MaxSize
      BY <1>2 DEF Evicts
    <3>2. Len(order) <= MaxSize
      BY DEF ListMatches
    <3>3. QED
      BY <2>3, <2>5, <2>6, <2>7, <2>9, <3>1, <3>2
  <2>11. ListMatches'
    BY <2>7, <2>8, <2>10 DEF ListMatches
  <2>12. NewestIsLast' /\ newest' \in Keys \cup {None}
    BY <2>1, <2>7 DEF NewestIsLast
  <2>13. QED
    BY <2>11, <2>12, SetEntries
<1>3. QED
  BY <1>1, <1>2

LEMMA FlushKeeps == CacheOK /\ Flush => CacheOK'
<1> SUFFICES ASSUME Flush
             PROVE  CacheOK'
  OBVIOUS
<1> USE LruAssumption DEF Flush
<1>1. Held' = {} /\ EntriesLive'
  BY DEF Held, EntriesLive
<1>2. <<>> \in Seq(Keys) /\ Len(<<>>) = 0 /\ Cardinality({}) = 0
  BY EmptySeq, FS_EmptySet
<1>3. Unrepeated(order)' /\ Keyed(order)' = {}
  BY DEF Unrepeated, Keyed
<1>4. ListMatches'
  BY <1>1, <1>2, <1>3 DEF ListMatches
<1>5. QED
  BY <1>1, <1>4 DEF CacheOK, NewestIsLast

\* One tick takes one off the time left of the entries that are not yet expired.
LEMMA TickedEntries ==
  ASSUME EntriesLive, Tick, NEW k \in Keys
  PROVE  /\ entry'[k] \in Entries \cup {None}
         /\ entry[k] = None => entry'[k] = None
         /\ entry[k] # None =>
              /\ entry[k] \in Entries /\ entry'[k] \in Entries
              /\ entry'[k].value = entry[k].value
              /\ entry'[k].left =
                   IF entry[k].left < 0 THEN entry[k].left ELSE entry[k].left - 1
<1> DEFINE e == entry[k]
<1>1. e \in Entries \cup {None}
  BY DEF EntriesLive
<1>2. entry'[k] = IF e = None \/ e.left < 0 THEN e ELSE [e EXCEPT !.left = @ - 1]
  BY DEF Tick
<1> HIDE DEF e
<1>3. CASE e = None \/ e.left < 0
  BY <1>1, <1>2, <1>3 DEF e
<1>4. CASE ~(e = None \/ e.left < 0)
  <2>1. e \in Entries /\ entry'[k] = [e EXCEPT !.left = @ - 1]
    BY <1>1, <1>2, <1>4
  <2>2. /\ entry'[k] \in Entries /\ entry'[k].value = e.value
        /\ entry'[k].left = e.left - 1
    BY <2>1 DEF Entries
  <2>3. QED
    BY <1>4, <2>1, <2>2 DEF e
<1>5. QED
  BY <1>3, <1>4

LEMMA TickKeeps == CacheOK /\ Tick => CacheOK'
<1> SUFFICES ASSUME CacheOK, Tick
             PROVE  CacheOK'
  OBVIOUS
<1> USE LruAssumption DEF CacheOK
<1>1. Held' = Held
  BY TickedEntries DEF Held
<1>2. EntriesLive'
  <2>1. entry' \in [Keys -> Entries \cup {None}]
    <3>1. entry' = [k \in Keys |-> entry'[k]]
      BY DEF Tick
    <3>2. QED
      BY <3>1, TickedEntries
  <2>2. ASSUME NEW k \in Keys, entry'[k] # None
        PROVE  entry'[k].left >= -1 /\ \E ttl \in Ttls : entry'[k].left <= ttl
    <3>1. /\ entry[k] \in Entries
          /\ entry'[k].left =
               IF entry[k].left < 0 THEN entry[k].left ELSE entry[k].left - 1
      BY <2>2, TickedEntries
    <3>2. entry[k].left \in Int
      BY <3>1 DEF Entries
    <3>3. PICK ttl \in Ttls : entry[k].left >= -1 /\ entry[k].left <= ttl
      BY <3>1 DEF EntriesLive
    <3>4. entry'[k].left >= -1 /\ entry'[k].left <= ttl
      <4> DEFINE l == entry[k].left
      <4>1. ttl \in Nat /\ l \in Int /\ l >= -1 /\ l <= ttl
        BY <3>2, <3>3
      <4>2. entry'[k].left = IF l < 0 THEN l ELSE l - 1
        BY <3>1
      <4> HIDE DEF l
      <4>3. QED
        BY <4>1, <4>2
    <3>5. QED
      BY <3>4
  <2>3. QED
    BY <2>1, <2>2 DEF EntriesLive
<1>3. ListMatches' /\ NewestIsLast' /\ newest' \in Keys \cup {None}
  BY <1>1 DEF Tick, ListMatches, Unrepeated, Keyed, NewestIsLast
<1>4. QED
  BY <1>2, <1>3

-----------------------------------------------------------------------------
(* The invariant *)

LEMMA InitIInv == Init => IInv
<1> SUFFICES ASSUME Init
             PROVE  CacheOK /\ AnswerOK
  BY Parts
<1> USE LruAssumption DEF Init
<1>1. Held = {} /\ EntriesLive
  BY DEF Held, EntriesLive
<1>2. <<>> \in Seq(Keys) /\ Len(<<>>) = 0 /\ Cardinality({}) = 0
  BY EmptySeq, FS_EmptySet
<1>3. Unrepeated(order) /\ Keyed(order) = {}
  BY DEF Unrepeated, Keyed
<1>4. CacheOK
  BY <1>1, <1>2, <1>3 DEF CacheOK, ListMatches, NewestIsLast
<1>5. stale \in BOOLEAN
  BY Zenon
<1>6. QED
  BY <1>4, <1>5 DEF AnswerOK

LEMMA StepIInv == IInv /\ [Next]_vars => IInv'
<1> SUFFICES ASSUME CacheOK, AnswerOK, [Next]_vars
             PROVE  CacheOK' /\ AnswerOK'
  BY Parts, PTL
<1> USE LruAssumption
<1>1. ASSUME NEW k \in Keys, Miss(k)
      PROVE  CacheOK' /\ AnswerOK'
  <2>1. stale' \in BOOLEAN
    BY <1>1, Zenon DEF Miss
  <2>2. QED
    BY <1>1, <2>1 DEF Miss, AnswerOK, CacheOK, ListMatches, Unrepeated, Keyed, Held,
                      EntriesLive, NewestIsLast
<1>2. ASSUME NEW k \in Keys, MissExpired(k) \/ Delete(k)
      PROVE  CacheOK' /\ AnswerOK'
  <2>1. Erase(k) /\ answer' = None /\ stale' = FALSE
    BY <1>2 DEF MissExpired, Delete
  <2>2. stale' \in BOOLEAN
    BY <2>1, Zenon
  <2>3. QED
    BY <2>1, <2>2, ErasureKeeps DEF AnswerOK
<1>3. ASSUME NEW k \in Keys, Hit(k) \/ HitWithMeta(k)
      PROVE  CacheOK' /\ AnswerOK'
  <2>1. /\ entry[k] # None /\ answer' = entry[k].value
        /\ order' = ToEnd(order, k) /\ newest' = k /\ entry' = entry
    BY <1>3 DEF Hit, HitWithMeta
  <2>2. entry[k].value \in Values
    BY <2>1 DEF CacheOK, EntriesLive, Entries
  <2>3. stale' \in BOOLEAN
    <3>1. CASE Hit(k)
      BY <3>1, Zenon DEF Hit
    <3>2. CASE HitWithMeta(k)
      BY <3>2, Zenon DEF HitWithMeta
    <3>3. QED
      BY <1>3, <3>1, <3>2
  <2>4. QED
    BY <2>1, <2>2, <2>3, MoveKeeps DEF AnswerOK
<1>4. ASSUME NEW k \in Keys, NEW v \in Values, NEW ttl \in Ttls, Set(k, v, ttl)
      PROVE  CacheOK' /\ AnswerOK'
  <2>1. answer' = None /\ stale' = FALSE
    BY <1>4 DEF Set
  <2>2. stale' \in BOOLEAN
    BY <2>1, Zenon
  <2>3. QED
    BY <1>4, <2>1, <2>2, SetKeeps DEF AnswerOK
<1>5. CASE Flush \/ Tick
  <2>1. answer' = None /\ stale' = FALSE
    BY <1>5 DEF Flush, Tick
  <2>2. stale' \in BOOLEAN
    BY <2>1, Zenon
  <2>3. QED
    BY <1>5, <2>1, <2>2, FlushKeeps, TickKeeps DEF AnswerOK
<1>6. CASE UNCHANGED vars
  BY <1>6 DEF vars, AnswerOK, CacheOK, ListMatches, Unrepeated, Keyed, Held,
              EntriesLive, NewestIsLast
<1>7. QED
  BY <1>1, <1>2, <1>3, <1>4, <1>5, <1>6 DEF Next, Get

LEMMA Invariance == Spec => []IInv
BY InitIInv, StepIInv, PTL DEF Spec

-----------------------------------------------------------------------------
(* The results *)

\* The list of keys and the entries of the Map agree, within maxSize
\* (cache.ts:113-186).
THEOREM CacheTypeCorrect == Spec => []TypeOK
<1>1. IInv => TypeOK
  BY DEF IInv
<1>2. QED
  BY <1>1, Invariance, PTL

\* The key just hit or inserted is not the one a full cache evicts next
\* (cache.ts:127-160).
THEOREM KeysInUseSurvive == Spec => []NewestSurvives
<1>1. ASSUME IInv, newest # None, MaxSize > 1
      PROVE  newest \in Held /\ (Len(order) = MaxSize => Head(order) # newest)
  <2>1. order \in Seq(Keys) /\ Unrepeated(order) /\ Keyed(order) = Held
    BY <1>1, Parts DEF CacheOK, ListMatches
  <2>2. order # <<>> /\ order[Len(order)] = newest
    BY <1>1 DEF IInv, NewestIsLast
  <2>3. Len(order) \in DOMAIN order /\ 1 \in DOMAIN order /\ Head(order) = order[1]
    BY <2>1, <2>2, LenProperties, EmptySeq
  <2>4. newest \in Held
    BY <2>1, <2>2, <2>3 DEF Keyed
  <2>5. Len(order) = MaxSize => Head(order) # newest
    BY <1>1, <2>1, <2>2, <2>3 DEF Unrepeated
  <2>6. QED
    BY <2>4, <2>5
<1>2. IInv => NewestSurvives
  BY <1>1 DEF NewestSurvives
<1>3. QED
  BY <1>2, Invariance, PTL

-----------------------------------------------------------------------------
(* The cache is an expiring map *)

\* What the map sees of the entry of a key.
Seen(k) == IF entry[k] = None THEN None
           ELSE [value |-> entry[k].value, left |-> entry[k].left]

Binding == [k \in Keys |-> Seen(k)]

\* A key is bound exactly when it is held.
LEMMA BoundIsHeld ==
  ASSUME CacheOK
  PROVE  /\ \A k \in Keys : Seen(k) = None <=> entry[k] = None
         /\ Map!Bound = Held
<1>1. ASSUME NEW k \in Keys, entry[k] # None
      PROVE  Seen(k) # None
  <2>1. Seen(k) \in [value : Values, left : Int]
    BY <1>1 DEF Seen, CacheOK, EntriesLive, Entries
  <2>2. QED
    BY <2>1, LruAssumption
<1>2. \A k \in Keys : Seen(k) = None <=> entry[k] = None
  BY <1>1 DEF Seen
<1>3. Map!Bound = {k \in Keys : Seen(k) # None}
  BY DEF Map!Bound, Seen
<1>4. QED
  BY <1>2, <1>3 DEF Held

\* Dropping keys from the map is losing their entries.
LEMMA Dropped ==
  ASSUME NEW S, \A k \in Keys : entry'[k] = IF k \in S THEN None ELSE entry[k]
  PROVE  Binding' = Map!Drop(S)
<1>1. Binding' = [k \in Keys |-> Seen(k)']
  BY DEF Binding
<1>2. Map!Drop(S) = [k \in Keys |-> IF k \in S THEN None ELSE Seen(k)]
  BY DEF Map!Drop, Seen
<1>3. \A k \in Keys : Seen(k)' = IF k \in S THEN None ELSE Seen(k)
  BY DEF Seen
<1>4. QED
  BY <1>1, <1>2, <1>3

\* A lookup that finds nothing, or something expired, which it drops.
LEMMA MissRefines ==
  ASSUME CacheOK, NEW k \in Keys, Miss(k) \/ MissExpired(k)
  PROVE  Map!Lookup(k)
<1>1. Binding' = Map!Drop({k}) /\ answer' = None
  <2>1. entry' = [entry EXCEPT ![k] = None] /\ answer' = None
    BY DEF Miss, MissExpired, Erase, CacheOK, EntriesLive
  <2>2. \A x \in Keys : entry'[x] = IF x \in {k} THEN None ELSE entry[x]
    BY <2>1 DEF CacheOK, EntriesLive
  <2>3. QED
    BY <2>1, <2>2, Dropped
<1>2. Seen(k) = None \/ Seen(k).left < 0
  BY DEF Miss, MissExpired, Expired, Seen
<1>3. QED
  BY <1>1, <1>2 DEF Map!Lookup, Binding, Seen

LEMMA HitRefines ==
  ASSUME CacheOK, NEW k \in Keys, Hit(k) \/ HitWithMeta(k)
  PROVE  Map!Lookup(k)
<1>1. /\ entry[k] # None /\ ~(entry[k].left < 0) /\ answer' = entry[k].value
      /\ entry' = entry
  BY DEF Hit, HitWithMeta, Expired
<1>2. entry[k].left \in Int
  BY <1>1 DEF CacheOK, EntriesLive, Entries
<1>3. Seen(k) # None
  BY <1>1, BoundIsHeld
<1>4. Seen(k).left >= 0 /\ answer' = Seen(k).value
  BY <1>1, <1>2 DEF Seen
<1>5. Binding' = Binding
  BY <1>1 DEF Binding, Seen
<1>6. QED
  BY <1>3, <1>4, <1>5 DEF Map!Lookup, Binding, Seen

\* The map counts as the cache does.
LEMMA SameCardinality == \A S : Map!Cardinality(S) = Cardinality(S)
BY DEF Map!Cardinality, Cardinality

\* A set stores its key, at the cost of the first one if the cache is full.
LEMMA SetRefines ==
  ASSUME CacheOK, NEW k \in Keys, NEW v \in Values, NEW ttl \in Ttls, Set(k, v, ttl)
  PROVE  Map!Store(k)
<1> DEFINE victims == IF Evicts(k) THEN {Head(order)} ELSE {}
           new     == [value |-> v, left |-> ttl]
<1>1. Map!Bound = Held /\ Held \in SUBSET Keys
  BY BoundIsHeld DEF Held
<1>2. /\ entry'[k] = NewEntry(v, ttl) /\ NewEntry(v, ttl) \in Entries
      /\ Evicts(k) =>
           /\ Head(order) \in Held
           /\ \A x \in Keys \ {k} :
                entry'[x] = IF x = Head(order) THEN None ELSE entry[x]
      /\ ~Evicts(k) => \A x \in Keys \ {k} : entry'[x] = entry[x]
  BY SetEntries
<1>3. victims \in SUBSET (Map!Bound \ {k})
  BY <1>1, <1>2 DEF Evicts
<1>4. \A x \in Keys \ {k} : Seen(x)' = IF x \in victims THEN None ELSE Seen(x)
  BY <1>2 DEF Seen
<1>5. Seen(k)' = new
  <2>1. NewEntry(v, ttl) # None
    BY <1>2, LruAssumption
  <2>2. QED
    BY <1>2, <2>1 DEF Seen, NewEntry
<1> HIDE DEF new
<1>6. Binding' = [Map!Drop(victims) EXCEPT ![k] = new]
  <2>1. Binding' = [x \in Keys |-> Seen(x)']
    BY DEF Binding
  <2>2. Map!Drop(victims) = [x \in Keys |-> IF x \in victims THEN None ELSE Seen(x)]
    BY DEF Map!Drop, Seen
  <2> HIDE DEF victims
  <2>3. QED
    BY <1>4, <1>5, <2>1, <2>2
<1>7. /\ Cardinality(Held) \in Nat /\ Cardinality(Held) <= MaxSize
      /\ IsFiniteSet(Held)
  BY <1>1, HeldIsFinite DEF CacheOK, ListMatches
<1>8. Cardinality(Held \cup {k}) =
        IF k \in Held THEN Cardinality(Held) ELSE Cardinality(Held) + 1
  BY <1>7, FS_AddElement
<1>9. /\ Cardinality((Held \cup {k}) \ victims) <= MaxSize
      /\ victims # {} => Cardinality(Held \cup {k}) > MaxSize
      /\ Cardinality(victims) <= 1
  <2>1. CASE Evicts(k)
    <3>1. IsFiniteSet(Held \cup {k}) /\ Head(order) \in Held \cup {k}
      BY <1>2, <1>7, <2>1, FS_AddElement
    <3>2. Cardinality((Held \cup {k}) \ {Head(order)}) = Cardinality(Held \cup {k}) - 1
      BY <3>1, FS_RemoveElement
    <3>3. Cardinality({Head(order)}) = 1
      BY FS_Singleton
    <3>4. Cardinality(Held \cup {k}) = Cardinality(Held) + 1 /\ Cardinality(Held) >= MaxSize
      BY <1>8, <2>1 DEF Evicts
    <3>5. victims = {Head(order)}
      BY <2>1
    <3> HIDE DEF victims
    <3>6. QED
      BY <1>7, <3>2, <3>3, <3>4, <3>5, LruAssumption
  <2>2. CASE ~Evicts(k)
    <3>1. victims = {} /\ (Held \cup {k}) \ victims = Held \cup {k}
      BY <2>2
    <3>2. k \in Held \/ ~(Cardinality(Held) >= MaxSize)
      BY <2>2 DEF Evicts
    <3>3. Cardinality({}) = 0
      BY FS_EmptySet
    <3>4. Cardinality(Held \cup {k}) <= MaxSize
      BY <1>7, <1>8, <3>2, LruAssumption
    <3> HIDE DEF victims
    <3>5. QED
      BY <3>1, <3>3, <3>4
  <2>3. QED
    BY <2>1, <2>2
<1>10. answer' = None
  BY DEF Set
<1> HIDE DEF victims
<1>11. /\ Cardinality((Map!Bound \cup {k}) \ victims) <= MaxSize
       /\ victims # {} => Cardinality(Map!Bound \cup {k}) > MaxSize
       /\ Cardinality(victims) <= 1
       /\ Binding' = [Map!Drop(victims) EXCEPT ![k] = [value |-> v, left |-> ttl]]
       /\ answer' = None
  BY <1>1, <1>6, <1>9, <1>10 DEF new
<1>12. \E v2 \in Values, t2 \in Ttls, S \in SUBSET (Map!Bound \ {k}) :
         /\ Cardinality((Map!Bound \cup {k}) \ S) <= MaxSize
         /\ S # {} => Cardinality(Map!Bound \cup {k}) > MaxSize
         /\ Cardinality(S) <= 1
         /\ Binding' = [Map!Drop(S) EXCEPT ![k] = [value |-> v2, left |-> t2]]
         /\ answer' = None
  BY <1>3, <1>11, Zenon
<1>13. QED
  BY <1>12, SameCardinality DEF Map!Store, Binding, Seen

LEMMA RemovalRefines ==
  ASSUME CacheOK
  PROVE  /\ \A k \in Keys : Delete(k) => Map!Remove({k})
         /\ Flush => Map!Remove(Keys)
<1>1. ASSUME NEW k \in Keys, Delete(k)
      PROVE  Map!Remove({k})
  <2>1. \A x \in Keys : entry'[x] = IF x \in {k} THEN None ELSE entry[x]
    BY <1>1 DEF Delete, Erase, CacheOK, EntriesLive
  <2>2. Binding' = Map!Drop({k})
    BY <2>1, Dropped
  <2>3. QED
    BY <1>1, <2>2 DEF Delete, Map!Remove, Binding, Seen
<1>2. ASSUME Flush
      PROVE  Map!Remove(Keys)
  <2>1. \A x \in Keys : entry'[x] = IF x \in Keys THEN None ELSE entry[x]
    BY <1>2 DEF Flush
  <2>2. Binding' = Map!Drop(Keys)
    BY <2>1, Dropped
  <2>3. QED
    BY <1>2, <2>2 DEF Flush, Map!Remove, Binding, Seen
<1>3. QED
  BY <1>1, <1>2

LEMMA TickRefines ==
  ASSUME CacheOK, Tick
  PROVE  Map!TimePasses
<1> DEFINE Aged(k) == IF Seen(k) = None \/ Seen(k).left < 0
                        THEN Seen(k) ELSE [Seen(k) EXCEPT !.left = @ - 1]
<1>1. ASSUME NEW k \in Keys
      PROVE  Seen(k)' = Aged(k)
  <2>1. CASE entry[k] = None
    BY <2>1, TickedEntries DEF Seen, CacheOK
  <2>2. CASE entry[k] # None
    <3>1. /\ entry'[k] # None /\ entry'[k].value = entry[k].value
          /\ entry'[k].left =
               IF entry[k].left < 0 THEN entry[k].left ELSE entry[k].left - 1
      BY <2>2, TickedEntries, LruAssumption DEF CacheOK
    <3>2. /\ Seen(k) = [value |-> entry[k].value, left |-> entry[k].left]
          /\ Seen(k)' = [value |-> entry'[k].value, left |-> entry'[k].left]
      BY <2>2, <3>1 DEF Seen
    <3>3. Seen(k) # None
      BY <2>2, BoundIsHeld
    <3>4. QED
      BY <3>1, <3>2, <3>3
  <2>3. QED
    BY <2>1, <2>2
<1>2. Binding' = [k \in Keys |-> Seen(k)']
  BY DEF Binding
<1>3. Binding' = [k \in Keys |-> Aged(k)]
  BY <1>1, <1>2
<1>4. QED
  BY <1>3 DEF Tick, Map!TimePasses, Binding, Seen

LEMMA StepRefines == CacheOK /\ [Next]_vars => [Map!Next]_(Map!mapVars)
<1> SUFFICES ASSUME CacheOK, [Next]_vars
             PROVE  Map!Next \/ UNCHANGED Map!mapVars
  OBVIOUS
<1>1. ASSUME NEW k \in Keys, Get(k) \/ Delete(k)
      PROVE  Map!Lookup(k) \/ Map!Remove({k})
  BY <1>1, MissRefines, HitRefines, RemovalRefines DEF Get
<1>2. ASSUME NEW k \in Keys, NEW v \in Values, NEW ttl \in Ttls, Set(k, v, ttl)
      PROVE  Map!Store(k)
  BY <1>2, SetRefines
<1>3. CASE Flush
  BY <1>3, RemovalRefines DEF Map!Next
<1>4. CASE Tick
  BY <1>4, TickRefines DEF Map!Next
<1>5. CASE UNCHANGED vars
  BY <1>5 DEF vars, Map!mapVars
<1>6. QED
  BY <1>1, <1>2, <1>3, <1>4, <1>5 DEF Next, Map!Next

\* The cache implements the map: eviction, expiry on read and reordering never
\* show as a value that was overwritten, deleted, flushed or too old
\* (cache.ts:113-186).
THEOREM CacheImplementsMap == Spec => ImplementsExpiringMap
<1>1. Init => Map!Init
  BY DEF Init, Map!Init
<1>2. IInv => CacheOK
  BY Parts
<1>3. QED
  BY <1>1, <1>2, StepRefines, Invariance, PTL
     DEF Spec, ImplementsExpiringMap, Map!Spec
=============================================================================
