------------------------ MODULE SimulationResultProofs ------------------------
(***************************************************************************)
(* For any requests and any footprints, contracts, ledgers and costs: what *)
(* is said or remembered of a contract is earned and settles, the          *)
(* optimizer loses only collisions, lifetimes are attributed as far as     *)
(* they can be, and the two fee estimates agree.  The model's folds are    *)
(* first turned into chains of values that can be reasoned about by        *)
(* induction.                                                              *)
(***************************************************************************)
EXTENDS SimulationResult, FiniteSetTheorems, SequenceTheorems,
        WellFoundedInduction, TLAPS

-----------------------------------------------------------------------------
(* Induction and folds *)

\* A set of natural numbers that is not empty has a least element,
LEMMA Least ==
  ASSUME NEW T, T \subseteq Nat, T # {}
  PROVE  \E n \in T : \A m \in T : n <= m
<1> DEFINE below == {ss \in Nat \X Nat : ss[1] < ss[2]}
<1>1. IsWellFoundedOn(below, Nat)
  BY NatLessThanWellFounded DEF OpToRel
<1>2. \A m, n \in T : <<m, n>> \notin below => n <= m
  OBVIOUS
<1> HIDE DEF below
<1>3. PICK n \in T : \A m \in T : ~ (<<m, n>> \in below)
  BY <1>1, WFMin, Zenon
<1> QED
  BY <1>2, <1>3

\* and one that has 0 and the successor of each of its elements has them all.
LEMMA Induction ==
  ASSUME NEW S, 0 \in S, \A n \in Nat : n \in S => n + 1 \in S
  PROVE  Nat \subseteq S
<1> SUFFICES ASSUME Nat \ S # {} PROVE FALSE
  OBVIOUS
<1>1. PICK n \in Nat \ S : \A m \in Nat \ S : n <= m
  BY Least
<1>2. n - 1 \in Nat /\ n - 1 \in S
  BY <1>1
<1> QED
  BY <1>1, <1>2

\* The same for the numbers up to n
LEMMA Upward ==
  ASSUME NEW n \in Nat, NEW T, 0 \in T, \A k \in 1..n : k - 1 \in T => k \in T
  PROVE  0..n \subseteq T
<1> DEFINE S == {k \in Nat : k \in 0..n => k \in T}
<1>1. 0 \in S
  OBVIOUS
<1>2. ASSUME NEW k \in Nat, k \in S PROVE k + 1 \in S
  <2> SUFFICES ASSUME k + 1 \in 0..n PROVE k + 1 \in T
    OBVIOUS
  <2>1. k \in 0..n /\ k + 1 \in 1..n /\ (k + 1) - 1 = k
    OBVIOUS
  <2> QED
    BY <1>2, <2>1
<1> HIDE DEF S
<1>3. Nat \subseteq S
  BY <1>1, <1>2, Induction
<1> QED
  BY <1>3 DEF S

LEMMA MaxIs ==
  ASSUME NEW S, S \subseteq Int, NEW m \in S, \A x \in S : m >= x
  PROVE  Max(S) = m
<1>1. Max(S) \in S /\ \A x \in S : Max(S) >= x
  BY Zenon DEF Max
<1>2. \A a, b \in Int : a >= b /\ b >= a => a = b
  OBVIOUS
<1> QED
  BY <1>1, <1>2

\* What folds recurse over: the numbers up to n, the greatest one first.
LEMMA MaxOfRange ==
  ASSUME NEW n \in Nat \ {0}
  PROVE  Max(1..n) = n /\ (1..n) \ {n} = 1..(n - 1) /\ 1..n # {}
<1>1. 1..n \subseteq Int /\ n \in 1..n /\ \A x \in 1..n : n >= x
  OBVIOUS
<1>2. Max(1..n) = n
  BY <1>1, MaxIs, Zenon
<1>3. (1..n) \ {n} = 1..(n - 1)
  OBVIOUS
<1> QED
  BY <1>1, <1>2, <1>3, Zenon

LEMMA MaxOfSet ==
  ASSUME NEW n \in Nat, NEW s \in SUBSET (1..n), s # {}
  PROVE  Max(s) \in s /\ \A x \in s : Max(s) >= x
<1> DEFINE T == {m \in Nat : \A x \in s : m >= x}
<1>1. n \in T
  OBVIOUS
<1>2. PICK m \in T : \A k \in T : m <= k
  BY <1>1, Least
<1>3. m \in s
  <2> SUFFICES ASSUME m \notin s PROVE FALSE
    OBVIOUS
  <2>1. \A x \in s : m >= x /\ x \in Nat /\ x # m /\ x # 0
    BY <1>2
  <2>2. m - 1 \in Nat /\ \A x \in s : m - 1 >= x
    <3>1. m \in Nat
      BY <1>2
    <3>2. \A x \in Nat : m >= x /\ x # m => m - 1 >= x
      BY <3>1
    <3>3. \A x \in Nat : m >= x /\ x # 0 => m - 1 \in Nat
      BY <3>1
    <3> QED
      BY <2>1, <3>2, <3>3, Zenon
  <2>3. m <= m - 1
    BY <1>2, <2>2
  <2> QED
    BY <1>2, <2>3
<1>4. Max(s) = m
  <2>1. s \subseteq Int /\ \A x \in s : m >= x
    BY <1>2
  <2> QED
    BY <1>3, <2>1, MaxIs, Zenon
<1> QED
  BY <1>2, <1>3, <1>4

\* The recursive function behind a fold over n values, for an operation that is
\* given as a function F of the index and the value so far: it exists.
IsFold(g, n, V, base, F) ==
  /\ g \in [SUBSET (1..n) -> V]
  /\ \A s \in SUBSET (1..n) :
       g[s] = IF s = {} THEN base ELSE F[<<Max(s), g[s \ {Max(s)}]>>]

LEMMA FoldExists ==
  ASSUME NEW n \in Nat, NEW V, NEW base \in V, NEW F \in [(1..n) \X V -> V]
  PROVE  \E g : IsFold(g, n, V, base, F)
<1> DEFINE Fold(g, m) == IsFold(g, m, V, base, F)
           S == {m \in Nat : m <= n => \E g : Fold(g, m)}
<1> HIDE DEF Fold, IsFold
<1>1. 0 \in S
  <2> DEFINE g == [s \in SUBSET (1..0) |-> base]
  <2>1. Fold(g, 0)
    BY DEF Fold, IsFold
  <2> HIDE DEF g
  <2> QED
    BY <2>1
<1>2. ASSUME NEW m \in Nat, m \in S PROVE m + 1 \in S
  <2> SUFFICES ASSUME m + 1 <= n PROVE \E g : Fold(g, m + 1)
    OBVIOUS
  <2>1. PICK h : Fold(h, m)
    BY <1>2
  <2> DEFINE g == [s \in SUBSET (1..(m + 1)) |->
                     IF m + 1 \in s THEN F[<<m + 1, h[s \ {m + 1}]>>] ELSE h[s]]
  <2>2. ASSUME NEW s \in SUBSET (1..(m + 1))
        PROVE  /\ m + 1 \in s => s \ {m + 1} \in SUBSET (1..m)
               /\ m + 1 \notin s => s \in SUBSET (1..m)
    OBVIOUS
  <2>3. g \in [SUBSET (1..(m + 1)) -> V]
    <3> SUFFICES ASSUME NEW s \in SUBSET (1..(m + 1))
                 PROVE  g[s] \in V
      OBVIOUS
    <3>1. CASE m + 1 \in s
      <4>1. h[s \ {m + 1}] \in V /\ m + 1 \in 1..n
        BY <2>1, <2>2, <3>1 DEF Fold, IsFold
      <4> QED
        BY <3>1, <4>1
    <3>2. CASE m + 1 \notin s
      BY <2>1, <2>2, <3>2 DEF Fold, IsFold
    <3> QED
      BY <3>1, <3>2
  <2>4. ASSUME NEW s \in SUBSET (1..(m + 1))
        PROVE  g[s] = IF s = {} THEN base ELSE F[<<Max(s), g[s \ {Max(s)}]>>]
    <3>1. CASE m + 1 \in s
      <4>1. Max(s) = m + 1
        <5>1. s \subseteq Int /\ \A x \in s : m + 1 >= x
          OBVIOUS
        <5> QED
          BY <3>1, <5>1, MaxIs, Zenon
      <4>2. g[s \ {m + 1}] = h[s \ {m + 1}]
        OBVIOUS
      <4> QED
        BY <3>1, <4>1, <4>2
    <3>2. CASE m + 1 \notin s /\ s # {}
      <4>1. s \in SUBSET (1..m) /\ Max(s) \in s
        BY <2>2, <3>2, MaxOfSet
      <4>2. g[s \ {Max(s)}] = h[s \ {Max(s)}]
        BY <3>2
      <4>3. h[s] = F[<<Max(s), h[s \ {Max(s)}]>>]
        BY <2>1, <3>2, <4>1 DEF Fold, IsFold
      <4> QED
        BY <3>2, <4>2, <4>3
    <3>3. CASE s = {}
      <4>1. g[s] = h[s]
        BY <3>3
      <4> QED
        BY <2>1, <3>3, <4>1 DEF Fold, IsFold
    <3> QED
      BY <3>1, <3>2, <3>3
  <2> HIDE DEF g
  <2>5. Fold(g, m + 1)
    BY <2>3, <2>4 DEF Fold, IsFold
  <2> QED
    BY <2>5
<1> HIDE DEF S
<1>3. n \in S
  BY <1>1, <1>2, Induction
<1>4. \E g : Fold(g, n)
  BY <1>3 DEF S
<1> QED
  BY <1>4 DEF Fold

\* What a fold that follows F computes is the end of a chain of n values.
Follows(f, n, V, base, F) ==
  /\ f[{}] = base
  /\ \A s \in SUBSET (1..n) : s # {} /\ f[s \ {Max(s)}] \in V =>
       f[s] = F[<<Max(s), f[s \ {Max(s)}]>>]

IsChain(h, f, n, V, base, F) ==
  /\ h \in [0..n -> V] /\ h[0] = base
  /\ \A k \in 1..n : h[k] = F[<<k, h[k - 1]>>]
  /\ h[n] = f[1..n]

LEMMA FoldIsChain ==
  ASSUME NEW n \in Nat, NEW V, NEW base \in V, NEW F \in [(1..n) \X V -> V], NEW f,
         Follows(f, n, V, base, F)
  PROVE  \E h : IsChain(h, f, n, V, base, F)
<1> DEFINE h == [k \in 0..n |-> f[1..k]]
           T == {k \in 0..n : h[k] \in V}
<1>1. 0 \in 0..n /\ n \in 0..n /\ 1..0 = {}
  OBVIOUS
<1>2. h[0] = base
  BY <1>1, Zenon DEF Follows
<1>3. ASSUME NEW k \in 1..n, h[k - 1] \in V
      PROVE  h[k] = F[<<k, h[k - 1]>>] /\ h[k] \in V
  <2>1. k \in 0..n /\ k - 1 \in 0..n /\ 1..k \in SUBSET (1..n)
    OBVIOUS
  <2>2. Max(1..k) = k /\ (1..k) \ {k} = 1..(k - 1) /\ 1..k # {}
    <3>1. k \in Nat \ {0}
      OBVIOUS
    <3> QED
      BY <3>1, MaxOfRange, Zenon
  <2>3. f[1..k] = F[<<k, f[1..(k - 1)]>>]
    BY <1>3, <2>1, <2>2, Zenon DEF Follows
  <2>4. h[k] = F[<<k, h[k - 1]>>]
    BY <2>1, <2>3, Zenon
  <2> HIDE DEF h
  <2> QED
    BY <1>3, <2>4
<1> HIDE DEF h
<1>4. 0 \in T
  BY <1>1, <1>2, Zenon
<1>5. ASSUME NEW k \in 1..n, k - 1 \in T PROVE k \in T
  <2>1. k \in 0..n
    OBVIOUS
  <2> QED
    BY <1>3, <1>5, <2>1, Zenon
<1> HIDE DEF T
<1>6. 0..n \subseteq T
  BY <1>4, <1>5, Upward
<1>7. \A k \in 0..n : h[k] \in V
  BY <1>6, Zenon DEF T
<1>8. h \in [0..n -> V]
  BY <1>7 DEF h
<1>9. \A k \in 1..n : h[k] = F[<<k, h[k - 1]>>]
  <2>1. \A k \in 1..n : k - 1 \in 0..n
    OBVIOUS
  <2> QED
    BY <1>3, <1>7, <2>1, Zenon
<1>10. h[n] = f[1..n]
  BY <1>1, Zenon DEF h
<1> QED
  BY <1>2, <1>8, <1>9, <1>10, Zenon DEF IsChain

-----------------------------------------------------------------------------
(* Entries *)

Entry(e) ==
  /\ e.live \in Nat /\ e.text \in Seq(Nat)
  /\ e.type = "ContractData" => e.id # None
  /\ e.id \in Codes => e.type = "ContractCode"

\* The keys of a footprint are those of its two lists.
LEMMA KeysAreEntries ==
  ASSUME NEW fp \in Footprints
  PROVE  /\ fp.readOnly \in Seq(ToSet(fp.readOnly))
         /\ fp.readWrite \in Seq(ToSet(fp.readWrite))
         /\ Keys(fp) \in Seq(ToSet(Keys(fp)))
         /\ \A e \in ToSet(fp.readOnly) \cup ToSet(fp.readWrite) \cup ToSet(Keys(fp)) :
              Entry(e)
<1> DEFINE ro == fp.readOnly
           rw == fp.readWrite
           S == ToSet(ro) \cup ToSet(rw)
<1>1. /\ ro \in Seq(ToSet(ro)) /\ rw \in Seq(ToSet(rw))
      /\ \A e \in S : Entry(e)
  BY ResultAssumption, Zenon DEF Entry
<1>2. ro \in Seq(S) /\ rw \in Seq(S)
  BY <1>1, SeqMonotonic, Zenon
<1> HIDE DEF ro, rw, S
<1>3. /\ ro \o rw \in Seq(S)
  BY <1>2, ConcatProperties, Zenon
<1>4. ASSUME NEW s \in Seq(S) PROVE s \in Seq(ToSet(s)) /\ ToSet(s) \subseteq S
  <2>1. DOMAIN s = 1..Len(s) /\ Len(s) \in Nat
    OBVIOUS
  <2>2. s = [i \in 1..Len(s) |-> s[i]]
    OBVIOUS
  <2>3. \A i \in 1..Len(s) : s[i] \in ToSet(s) /\ s[i] \in S
    BY <2>1 DEF ToSet
  <2>4. s \in [1..Len(s) -> ToSet(s)]
    BY <2>2, <2>3
  <2>5. s \in Seq(ToSet(s))
    BY <2>1, <2>4, SeqDef
  <2> QED
    BY <2>1, <2>3, <2>5 DEF ToSet
<1>5. Keys(fp) = ro \o rw
  BY DEF Keys, ro, rw
<1> QED
  BY <1>1, <1>3, <1>4, <1>5 DEF ro, rw, S

-----------------------------------------------------------------------------
(* The contract whose type is detected *)

\* A new id is appended.
AddId(ids, id) == IF id = None \/ Contains(ids, id) THEN ids ELSE Append(ids, id)

\* The fold that collects the ids, step by step
LEMMA ContractsFold ==
  ASSUME NEW keys, keys \in Seq(ToSet(keys))
  PROVE  \E h \in [0..Len(keys) -> Seq({e.id : e \in ToSet(keys)})] :
           /\ h[0] = <<>>
           /\ \A k \in 1..Len(keys) : h[k] = AddId(h[k - 1], keys[k].id)
           /\ extractContracts(keys) = h[Len(keys)]
<1> DEFINE n == Len(keys)
           V == Seq({e.id : e \in ToSet(keys)})
           F == [p \in (1..n) \X V |-> AddId(p[2], keys[p[1]].id)]
<1>1. n \in Nat /\ DOMAIN keys = 1..n /\ <<>> \in V
  OBVIOUS
<1>2. \A k \in 1..n, v \in V : AddId(v, keys[k].id) \in V
  <2>1. \A k \in 1..n : keys[k].id \in {e.id : e \in ToSet(keys)}
    BY <1>1 DEF ToSet
  <2> QED
    BY <2>1 DEF AddId
<1> HIDE DEF n, V
<1>3. F \in [(1..n) \X V -> V]
  BY <1>2
<1>4. \A k \in 1..n, v \in V : F[<<k, v>>] = AddId(v, keys[k].id)
  OBVIOUS
<1> HIDE DEF F
<1>5. PICK g : IsFold(g, n, V, <<>>, F)
  BY <1>1, <1>3, FoldExists
<1>6. g = [s \in SUBSET (DOMAIN keys) |->
             IF s = {} THEN <<>> ELSE AddId(g[s \ {Max(s)}], keys[Max(s)].id)]
  <2>1. ASSUME NEW s \in SUBSET (1..n), s # {}
        PROVE  g[s] = AddId(g[s \ {Max(s)}], keys[Max(s)].id)
    <3>1. Max(s) \in 1..n
      BY <1>1, <2>1, MaxOfSet, Zenon
    <3>2. g[s \ {Max(s)}] \in V
      BY <1>5, Zenon DEF IsFold
    <3> QED
      BY <1>4, <1>5, <2>1, <3>1, <3>2, Zenon DEF IsFold
  <2>2. g[{}] = <<>> /\ g = [s \in SUBSET (1..n) |-> g[s]]
    BY <1>5 DEF IsFold
  <2> QED
    BY <1>1, <2>1, <2>2, Zenon
<1>7. PICK f :
        /\ f = [s \in SUBSET (DOMAIN keys) |->
                  IF s = {} THEN <<>> ELSE AddId(f[s \ {Max(s)}], keys[Max(s)].id)]
        /\ extractContracts(keys) = f[DOMAIN keys]
  BY <1>6, Zenon DEF AddId, extractContracts, FoldLeft, MapThenFoldSet
<1>8. f[{}] = <<>>
  BY <1>1, <1>7, Zenon
<1>9. ASSUME NEW s \in SUBSET (1..n), s # {}, f[s \ {Max(s)}] \in V
      PROVE  f[s] = F[<<Max(s), f[s \ {Max(s)}]>>]
  <2>1. Max(s) \in 1..n
    BY <1>1, <1>9, MaxOfSet, Zenon
  <2> QED
    BY <1>1, <1>4, <1>7, <1>9, <2>1, Zenon
<1>10. PICK h : IsChain(h, f, n, V, <<>>, F)
  <2>1. Follows(f, n, V, <<>>, F)
    BY <1>8, <1>9, Zenon DEF Follows
  <2> QED
    BY <1>1, <1>3, <2>1, FoldIsChain
<1>11. ASSUME NEW k \in 1..n PROVE h[k] = AddId(h[k - 1], keys[k].id)
  <2>1. k - 1 \in 0..n
    BY <1>1
  <2> QED
    BY <1>4, <1>10, <2>1, Zenon DEF IsChain
<1> QED
  BY <1>1, <1>7, <1>10, <1>11, Zenon DEF IsChain, n, V

\* It is the one of the first entry that has an id.
LEMMA Target ==
  ASSUME NEW keys, keys \in Seq(ToSet(keys)), extractContracts(keys) # <<>>
  PROVE  \E i \in DOMAIN keys :
           /\ keys[i].id = DetectionTarget(keys) /\ keys[i].id # None
           /\ \A j \in 1..(i - 1) : keys[j].id = None
<1> DEFINE n == Len(keys)
<1>1. n \in Nat /\ DOMAIN keys = 1..n
  OBVIOUS
<1>2. PICK h \in [0..n -> Seq({e.id : e \in ToSet(keys)})] :
        /\ h[0] = <<>>
        /\ \A k \in 1..n :
             h[k] = AddId(h[k - 1], keys[k].id)
        /\ extractContracts(keys) = h[n]
  BY ContractsFold, Zenon
<1> USE DEF AddId
<1> HIDE DEF n
<1> DEFINE first == {i \in Nat : i \in 1..n /\ keys[i].id # None}
<1>3. first # {}
  <2> SUFFICES ASSUME first = {} PROVE FALSE
    OBVIOUS
  <2> DEFINE T == {k \in 0..n : h[k] = <<>>}
  <2>1. 0 \in T
    BY <1>1, <1>2
  <2>2. ASSUME NEW k \in 1..n, k - 1 \in T PROVE k \in T
    <3>1. keys[k].id = None /\ k \in 0..n
      BY <1>1
    <3>2. h[k] = h[k - 1]
      BY <1>2, <3>1
    <3> QED
      BY <2>2, <3>1, <3>2
  <2> HIDE DEF T
  <2>3. 0..n \subseteq T
    BY <1>1, <2>1, <2>2, Upward
  <2>4. h[n] = <<>>
    BY <1>1, <2>3 DEF T
  <2> QED
    BY <1>2, <2>4
<1>4. PICK i \in first : \A j \in first : i <= j
  BY <1>3, Least
<1>5. i \in 1..n /\ keys[i].id # None /\ \A j \in 1..(i - 1) : keys[j].id = None
  BY <1>1, <1>4
<1> HIDE DEF first
<1> DEFINE id == keys[i].id
           T == {k \in 0..n :
                   IF k < i THEN h[k] = <<>> ELSE h[k] # <<>> /\ h[k][1] = id}
<1>6. 0 \in T
  BY <1>1, <1>2, <1>5
<1>7. ASSUME NEW k \in 1..n, k - 1 \in T PROVE k \in T
  <2> DEFINE s == h[k - 1]
             d == keys[k].id
  <2>0. k \in 0..n /\ k - 1 \in 0..n /\ k \in Int /\ i \in Int
    BY <1>1, <1>5
  <2>1. /\ h[k] = IF d = None \/ Contains(s, d) THEN s ELSE Append(s, d)
        /\ s \in Seq({e.id : e \in ToSet(keys)})
    BY <1>2, <2>0
  <2>2. CASE k < i
    <3>1. d = None /\ k - 1 < i
      BY <1>5, <2>0, <2>2
    <3>2. s = <<>>
      BY <1>7, <3>1
    <3> QED
      BY <2>0, <2>1, <2>2, <3>1, <3>2
  <2>3. CASE k = i
    <3>1. k - 1 < i /\ ~(k < i)
      BY <2>0, <2>3
    <3>2. s = <<>> /\ d = id /\ d # None
      BY <1>5, <1>7, <2>3, <3>1
    <3>3. ~Contains(s, d)
      BY <3>2 DEF Contains
    <3>4. h[k] = Append(<<>>, id)
      BY <2>1, <3>2, <3>3
    <3>5. h[k] = <<id>>
      BY <3>4
    <3> QED
      BY <2>0, <3>1, <3>5
  <2>4. CASE k > i
    <3>1. ~(k - 1 < i) /\ ~(k < i)
      BY <2>0, <2>4
    <3>2. s # <<>> /\ s[1] = id
      BY <1>7, <3>1
    <3>3. d \in {e.id : e \in ToSet(keys)}
      BY <1>1 DEF ToSet
    <3> HIDE DEF s, d, id
    <3>4. Append(s, d) # <<>> /\ Append(s, d)[1] = s[1]
      <4>1. Len(s) \in Nat /\ Len(s) > 0
        BY <2>1, <3>2
      <4>2. Append(s, d) \in Seq({e.id : e \in ToSet(keys)})
              /\ Len(Append(s, d)) = Len(s) + 1
        BY <2>1, <3>3
      <4> QED
        BY <2>1, <3>3, <4>1, <4>2
    <3>5. h[k] # <<>> /\ h[k][1] = id
      BY <2>1, <3>2, <3>4
    <3> QED
      BY <2>0, <3>1, <3>5
  <2> QED
    BY <2>0, <2>2, <2>3, <2>4
<1> HIDE DEF T
<1>8. 0..n \subseteq T
  BY <1>1, <1>6, <1>7, Upward
<1>9. h[n][1] = id
  BY <1>1, <1>5, <1>8 DEF T
<1> QED
  BY <1>1, <1>2, <1>5, <1>9 DEF DetectionTarget

-----------------------------------------------------------------------------
(* The inductive invariant *)

Typed ==
  /\ footprint \in [Requests -> Footprints \cup {None}]
  /\ existing = [r \in Requests |-> existing[r]]
  /\ type \in [Requests -> {"new", "asked", "unknown", "token"}]
  /\ typeCache \in [Ids -> {None, "unknown", "token"}]
  /\ cost \in [Requests -> Costs \cup {None}]

\* What the TTL lookup found are keys that it asked for.
FoundAreKeys ==
  \A r \in Requests : Found(r) => existing[r][2] \subseteq ToSet(Keys(footprint[r]))

Earned(c) == c \in Codes /\ LooksLikeToken(Wasms[c])

\* A contract remembered as a token's is code that looks like one,
CacheIsEarned ==
  \A c \in Ids : typeCache[c] # None /\ typeCache[c] = "token" => Earned(c)

\* and so is the first contract of a footprint that is said to be a token's.
TypesAreEarned ==
  \A r \in Requests : type[r] \in {"asked", "token"} =>
    /\ footprint[r] \in Footprints
    /\ extractContracts(Keys(footprint[r])) # <<>>
    /\ type[r] = "token" => Earned(DetectionTarget(Keys(footprint[r])))

ResultInv == Typed /\ FoundAreKeys /\ CacheIsEarned /\ TypesAreEarned

\* The first contract of a footprint that has one is an id of an entry of it.
LEMMA TargetIsId ==
  ASSUME NEW g \in Footprints, extractContracts(Keys(g)) # <<>>
  PROVE  DetectionTarget(Keys(g)) \in Ids
<1>1. Keys(g) \in Seq(ToSet(Keys(g)))
  BY KeysAreEntries, Zenon
<1>2. PICK i \in DOMAIN Keys(g) :
        Keys(g)[i].id = DetectionTarget(Keys(g)) /\ Keys(g)[i].id # None
  BY <1>1, Target, Zenon
<1> DEFINE id == DetectionTarget(Keys(g))
           all == UNION {{e.id : e \in ToSet(Keys(fp))} : fp \in Footprints}
<1>3. Keys(g)[i] \in ToSet(Keys(g))
  BY <1>1 DEF ToSet
<1>4. id \in {e.id : e \in ToSet(Keys(g))}
  BY <1>2, <1>3, Zenon
<1>5. id \in all
  BY <1>4, Zenon
<1>6. Ids = all \ {None}
  BY DEF Ids
<1>8. id # None
  BY <1>2, Zenon
<1> HIDE DEF id, all
<1>7. id \in Ids
  BY <1>5, <1>6, <1>8, Zenon
<1> QED
  BY <1>7, Zenon DEF id

\* Init establishes the invariant.
LEMMA ResultInvInit ==
  ASSUME Init
  PROVE  ResultInv
<1>1. Typed
  <2>1. /\ footprint \in [Requests -> Footprints \cup {None}]
        /\ typeCache \in [Ids -> {None, "unknown", "token"}]
        /\ cost \in [Requests -> Costs \cup {None}]
    BY Zenon DEF Init
  <2>2. type \in [Requests -> {"new", "asked", "unknown", "token"}]
    BY DEF Init
  <2>3. existing = [r \in Requests |-> existing[r]]
    BY DEF Init
  <2> QED
    BY <2>1, <2>2, <2>3 DEF Typed
<1>2. FoundAreKeys
  BY DEF Init, FoundAreKeys, Found
<1>3. CacheIsEarned
  BY Zenon DEF Init, CacheIsEarned
<1>4. TypesAreEarned
  BY DEF Init, TypesAreEarned
<1> QED
  BY <1>1, <1>2, <1>3, <1>4 DEF ResultInv

\* Every step keeps it.
LEMMA ResultInvStep ==
  ASSUME ResultInv, [Next]_vars
  PROVE  ResultInv'
<1> USE DEF ResultInv
<1>1. ASSUME NEW r \in Requests, Process(r) PROVE ResultInv'
  <2>1. PICK fp \in Footprints :
          /\ footprint' = [footprint EXCEPT ![r] = fp]
          /\ StartDetection(r, Keys(fp))
          /\ existing' = [existing EXCEPT ![r] =
                            IF Keys(fp) = <<>> THEN <<"found", {}>> ELSE <<"asked">>]
          /\ UNCHANGED <<typeCache, cost>>
    BY <1>1, Zenon DEF Process
  <2> DEFINE keys == Keys(fp)
             c == DetectionTarget(keys)
             t == IF extractContracts(keys) = <<>> THEN "unknown"
                  ELSE IF typeCache[c] # None THEN typeCache[c] ELSE "asked"
  <2>2. type' = [type EXCEPT ![r] = t]
    BY <2>1, Zenon DEF StartDetection
  <2>3. extractContracts(keys) # <<>> => c \in Ids
    BY TargetIsId, Zenon
  <2>4. footprint'[r] = fp /\ \A q \in Requests \ {r} : footprint'[q] = footprint[q]
    BY <2>1, Zenon DEF Typed
  <2>5. type'[r] = t /\ \A q \in Requests \ {r} : type'[q] = type[q]
    BY <2>2, Zenon DEF Typed
  <2>6. t \in {"unknown", "asked"} \/ (extractContracts(keys) # <<>> /\ c \in Ids
                                        /\ typeCache[c] # None /\ t = typeCache[c])
    BY <2>3, Zenon
  <2> HIDE DEF c, t
  <2>7. Typed'
    <3>1. t \in {"new", "asked", "unknown", "token"}
      BY <2>6, Zenon DEF Typed
    <3>2. type' \in [Requests -> {"new", "asked", "unknown", "token"}]
      BY <2>2, <3>1, Zenon DEF Typed
    <3>3. footprint' \in [Requests -> Footprints \cup {None}]
      BY <2>1, Zenon DEF Typed
    <3>4. existing' = [q \in Requests |-> existing'[q]]
      BY <2>1, Zenon DEF Typed
    <3> QED
      BY <2>1, <3>2, <3>3, <3>4, Zenon DEF Typed
  <2>8. FoundAreKeys'
    <3> SUFFICES ASSUME NEW q \in Requests, existing'[q][1] = "found"
                 PROVE  existing'[q][2] \subseteq ToSet(Keys(footprint'[q]))
      BY Zenon DEF FoundAreKeys, Found
    <3>1. CASE q = r
      <4>1. existing'[r] = IF keys = <<>> THEN <<"found", {}>> ELSE <<"asked">>
        BY <2>1, Zenon DEF Typed
      <4> HIDE DEF keys
      <4>2. existing'[r][2] = {}
        BY <3>1, <4>1
      <4> QED
        BY <3>1, <4>2
    <3>2. CASE q # r
      <4>1. existing'[q] = existing[q]
        BY <2>1, <3>2, Zenon DEF Typed
      <4> QED
        BY <2>4, <3>2, <4>1, Zenon DEF FoundAreKeys, Found
    <3> QED
      BY <3>1, <3>2
  <2>9. CacheIsEarned'
    BY <2>1, Zenon DEF CacheIsEarned
  <2>10. TypesAreEarned'
    <3> SUFFICES ASSUME NEW q \in Requests, type'[q] \in {"asked", "token"}
                 PROVE  /\ footprint'[q] \in Footprints
                        /\ extractContracts(Keys(footprint'[q])) # <<>>
                        /\ type'[q] = "token" =>
                             Earned(DetectionTarget(Keys(footprint'[q])))
      BY Zenon DEF TypesAreEarned, Earned
    <3>1. CASE q = r
      <4>1. extractContracts(keys) # <<>>
        BY <2>5, <3>1 DEF t
      <4>2. ASSUME t = "token" PROVE Earned(c)
        <5>1. "token" # "unknown" /\ "token" # "asked"
          OBVIOUS
        <5>2. c \in Ids /\ typeCache[c] # None /\ typeCache[c] = "token"
          BY <2>6, <4>2, <5>1, Zenon
        <5> QED
          BY <5>2, Zenon DEF CacheIsEarned
      <4> QED
        BY <2>4, <2>5, <3>1, <4>1, <4>2, Zenon DEF c
    <3>2. CASE q # r
      BY <2>4, <2>5, <3>2, Zenon DEF TypesAreEarned
    <3> QED
      BY <3>1, <3>2
  <2> QED
    BY <2>7, <2>8, <2>9, <2>10
<1>2. ASSUME NEW r \in Requests, DetectionReturns(r) PROVE ResultInv'
  <2> DEFINE c == DetectionTarget(Keys(footprint[r]))
  <2>1. PICK result : 
          /\ result = "unknown" \/ (result = "token" /\ Earned(c))
          /\ type' = [type EXCEPT ![r] = result]
          /\ typeCache' = [typeCache EXCEPT ![c] = result]
    <3>1. PICK result \in {"unknown"} \cup
                 (IF c \in Codes /\ LooksLikeToken(Wasms[c]) THEN {"token"} ELSE {}) :
            /\ type' = [type EXCEPT ![r] = result]
            /\ typeCache' = [typeCache EXCEPT ![c] = result]
      BY <1>2, Zenon DEF DetectionReturns
    <3> QED
      BY <3>1, Zenon DEF Earned
  <2>2. type[r] = "asked" /\ UNCHANGED <<footprint, existing, cost>>
    BY <1>2, Zenon DEF DetectionReturns
  <2>3. type[r] \in {"asked", "token"}
    BY <2>2, Zenon
  <2>4. footprint[r] \in Footprints /\ extractContracts(Keys(footprint[r])) # <<>>
    BY <2>3, Zenon DEF TypesAreEarned
  <2>5. c \in Ids
    BY <2>4, TargetIsId, Zenon
  <2> HIDE DEF c
  <2>6. result \in {"unknown", "token"} /\ (result = "token" => Earned(c))
    BY <2>1
  <2>7. type'[r] = result /\ \A q \in Requests \ {r} : type'[q] = type[q]
    BY <2>1, Zenon DEF Typed
  <2>8. typeCache'[c] = result /\ \A d \in Ids \ {c} : typeCache'[d] = typeCache[d]
    BY <2>1, <2>5, Zenon DEF Typed
  <2>9. Typed'
    <3>1. type' \in [Requests -> {"new", "asked", "unknown", "token"}]
      BY <2>1, <2>6, Zenon DEF Typed
    <3>2. typeCache' \in [Ids -> {None, "unknown", "token"}]
      BY <2>1, <2>6, Zenon DEF Typed
    <3> QED
      BY <2>2, <3>1, <3>2, Zenon DEF Typed
  <2>10. FoundAreKeys'
    BY <2>2, Zenon DEF FoundAreKeys, Found
  <2>11. CacheIsEarned'
    BY <2>6, <2>8, Zenon DEF CacheIsEarned, Earned
  <2>12. TypesAreEarned'
    <3> SUFFICES ASSUME NEW q \in Requests, type'[q] \in {"asked", "token"}
                 PROVE  /\ footprint'[q] \in Footprints
                        /\ extractContracts(Keys(footprint'[q])) # <<>>
                        /\ type'[q] = "token" =>
                             Earned(DetectionTarget(Keys(footprint'[q])))
      BY Zenon DEF TypesAreEarned, Earned
    <3>1. CASE q = r
      BY <2>2, <2>4, <2>6, <2>7, <3>1, Zenon DEF c
    <3>2. CASE q # r
      BY <2>2, <2>7, <3>2, Zenon DEF TypesAreEarned
    <3> QED
      BY <3>1, <3>2
  <2> QED
    BY <2>9, <2>10, <2>11, <2>12
<1>3. ASSUME NEW r \in Requests, TtlReturns(r) \/ TtlFails(r) PROVE ResultInv'
  <2>0. UNCHANGED <<footprint, type, typeCache, cost>>
    BY <1>3, Zenon DEF TtlReturns, TtlFails
  <2>1. PICK e : /\ existing' = [existing EXCEPT ![r] = e]
                 /\ e[1] = "found" => e[2] \subseteq ToSet(Keys(footprint[r]))
    <3>1. CASE TtlReturns(r)
      <4>1. PICK S \in SUBSET ToSet(Keys(footprint[r])) :
              existing' = [existing EXCEPT ![r] = <<"found", S>>]
        BY <3>1, Zenon DEF TtlReturns
      <4>2. <<"found", S>>[2] = S
        OBVIOUS
      <4> QED
        BY <4>1, <4>2, Zenon
    <3>2. CASE TtlFails(r)
      <4>1. existing' = [existing EXCEPT ![r] = <<"failed">>]
        BY <3>2, Zenon DEF TtlFails
      <4>2. <<"failed">>[1] # "found"
        OBVIOUS
      <4> QED
        BY <4>1, <4>2, Zenon
    <3> QED
      BY <1>3, <3>1, <3>2
  <2>2. Typed'
    BY <2>0, <2>1, Zenon DEF Typed
  <2>3. FoundAreKeys'
    <3>1. existing'[r] = e /\ \A q \in Requests \ {r} : existing'[q] = existing[q]
      BY <2>1, Zenon DEF Typed
    <3> QED
      BY <2>0, <2>1, <3>1, Zenon DEF FoundAreKeys, Found
  <2>4. CacheIsEarned' /\ TypesAreEarned'
    BY <2>0, Zenon DEF CacheIsEarned, TypesAreEarned, Earned
  <2> QED
    BY <2>2, <2>3, <2>4
<1>4. ASSUME NEW r \in Requests, EstimateFee(r) PROVE ResultInv'
  <2>1. /\ UNCHANGED <<footprint, existing, type, typeCache>>
        /\ \E c \in Costs : cost' = [cost EXCEPT ![r] = c]
    BY <1>4, Zenon DEF EstimateFee
  <2>2. cost' \in [Requests -> Costs \cup {None}]
    BY <2>1, Zenon DEF Typed
  <2>3. Typed'
    BY <2>1, <2>2, Zenon DEF Typed
  <2>4. FoundAreKeys' /\ CacheIsEarned' /\ TypesAreEarned'
    BY <2>1, Zenon DEF FoundAreKeys, Found, CacheIsEarned, TypesAreEarned, Earned
  <2> QED
    BY <2>3, <2>4
<1>5. ASSUME UNCHANGED vars PROVE ResultInv'
  <2>1. UNCHANGED <<footprint, existing, type, typeCache, cost>>
    BY <1>5 DEF vars
  <2>2. Typed'
    BY <2>1, Zenon DEF Typed
  <2> QED
    BY <2>1, <2>2, Zenon DEF FoundAreKeys, Found, CacheIsEarned, TypesAreEarned, Earned
<1> QED
  BY <1>1, <1>2, <1>3, <1>4, <1>5 DEF Next

\* In every reachable state the variables have their types, an entry found is one
\* that was asked for, and what is said or remembered to be a token's contract is
\* the hash of a code that looks like one (services/footprintParser.ts:172-217).
THEOREM ResultInvariant == Spec => []ResultInv
<1>1. Init => ResultInv
  BY ResultInvInit
<1>2. ResultInv /\ [Next]_vars => ResultInv'
  BY ResultInvStep
<1> QED
  BY <1>1, <1>2, PTL DEF Spec

\* Once no detection of a contract is in flight, what is remembered of it is final
\* and the RPC is not asked again (services/footprintParser.ts:186-217).
THEOREM SettledTypesAreFinal == Spec => SettledTypeIsFinal
<1> DEFINE InFlight(c) == \E r \in Requests :
             type[r] = "asked" /\ DetectionTarget(Keys(footprint[r])) = c
           Final == \A c \in Ids : typeCache[c] # None /\ ~InFlight(c) =>
                      typeCache'[c] = typeCache[c] /\ ~InFlight(c)'
<1>1. ASSUME ResultInv, [Next]_vars PROVE [Final]_vars
  <2> SUFFICES ASSUME NEW c \in Ids, typeCache[c] # None, ~InFlight(c), Next
               PROVE  typeCache'[c] = typeCache[c] /\ ~InFlight(c)'
    BY <1>1, Zenon
  <2> USE <1>1 DEF ResultInv
  <2>1. ASSUME NEW r \in Requests, Process(r)
        PROVE  typeCache'[c] = typeCache[c] /\ ~InFlight(c)'
    <3>1. PICK fp \in Footprints :
            /\ footprint' = [footprint EXCEPT ![r] = fp]
            /\ StartDetection(r, Keys(fp))
      BY <2>1, Zenon DEF Process
    <3>2. typeCache' = typeCache
      BY <2>1, Zenon DEF Process
    <3>3. /\ footprint'[r] = fp
          /\ \A q \in Requests \ {r} :
               footprint'[q] = footprint[q] /\ type'[q] = type[q]
      BY <3>1, Zenon DEF Typed, StartDetection
    <3>4. type'[r] = IF extractContracts(Keys(fp)) = <<>> THEN "unknown"
                     ELSE IF typeCache[DetectionTarget(Keys(fp))] # None
                          THEN typeCache[DetectionTarget(Keys(fp))] ELSE "asked"
      BY <3>1, Zenon DEF Typed, StartDetection
    <3>5. type'[r] # "asked" \/ DetectionTarget(Keys(fp)) # c
      <4> SUFFICES ASSUME DetectionTarget(Keys(fp)) = c PROVE type'[r] # "asked"
        OBVIOUS
      <4>1. typeCache[c] \in {"unknown", "token"}
        BY Zenon DEF Typed
      <4>2. "unknown" # "asked" /\ "token" # "asked"
        OBVIOUS
      <4> QED
        BY <3>4, <4>1, <4>2, Zenon
    <3> QED
      BY <3>2, <3>3, <3>5, Zenon
  <2>2. ASSUME NEW r \in Requests, DetectionReturns(r)
        PROVE  typeCache'[c] = typeCache[c] /\ ~InFlight(c)'
    <3> DEFINE d == DetectionTarget(Keys(footprint[r]))
    <3>1. PICK result \in {"unknown"} \cup
                 (IF d \in Codes /\ LooksLikeToken(Wasms[d]) THEN {"token"} ELSE {}) :
            /\ type' = [type EXCEPT ![r] = result]
            /\ typeCache' = [typeCache EXCEPT ![d] = result]
      BY <2>2, Zenon DEF DetectionReturns
    <3>2. type[r] = "asked" /\ footprint' = footprint
      BY <2>2, Zenon DEF DetectionReturns
    <3>3. d # c
      BY <3>2, Zenon
    <3>4. result # "asked"
      <4>1. result \in {"unknown", "token"}
        BY <3>1, Zenon
      <4> QED
        BY <4>1
    <3>5. \A q \in Requests : type'[q] = "asked" => type[q] = "asked"
      BY <3>1, <3>4, Zenon DEF Typed
    <3>6. typeCache'[c] = typeCache[c]
      BY <3>1, <3>3, Zenon DEF Typed
    <3> QED
      BY <3>2, <3>5, <3>6, Zenon
  <2>3. ASSUME NEW r \in Requests, TtlReturns(r) \/ TtlFails(r) \/ EstimateFee(r)
        PROVE  typeCache'[c] = typeCache[c] /\ ~InFlight(c)'
    <3>1. UNCHANGED <<footprint, type, typeCache>>
      BY <2>3, Zenon DEF TtlReturns, TtlFails, EstimateFee
    <3> QED
      BY <3>1, Zenon
  <2> QED
    BY <2>1, <2>2, <2>3, Zenon DEF Next
<1>2. ResultInv /\ [Next]_vars => [Final]_vars
  BY <1>1
<1>3. Spec => [][Final]_vars
  BY <1>2, ResultInvariant, PTL DEF Spec
<1> QED
  BY <1>3, Zenon DEF SettledTypeIsFinal

-----------------------------------------------------------------------------

\* "token" is only said of a contract whose code comes before every contract data
\* entry of the footprint, and in whose text six of a token's names occur
\* (services/footprintParser.ts:172-212, simulator.ts:340-345).
THEOREM TokensAreEarned == Spec => []TokenIsEarned
<1>1. ResultInv => TokenIsEarned
  <2> SUFFICES ASSUME ResultInv, NEW r \in Requests, type[r] = "token"
               PROVE  \E i \in DOMAIN Keys(footprint[r]) :
                        LET e == Keys(footprint[r])[i]
                        IN  /\ e.type = "ContractCode"
                            /\ \A j \in 1..(i - 1) :
                                 Keys(footprint[r])[j].type # "ContractData"
                            /\ LooksLikeToken(Wasms[e.id])
    BY Zenon DEF TokenIsEarned
  <2> DEFINE keys == Keys(footprint[r])
             c == DetectionTarget(keys)
  <2>1. type[r] \in {"asked", "token"}
    BY Zenon
  <2>2. footprint[r] \in Footprints /\ extractContracts(keys) # <<>> /\ Earned(c)
    BY <2>1, Zenon DEF ResultInv, TypesAreEarned
  <2>3. /\ keys \in Seq(ToSet(keys))
        /\ \A e \in ToSet(keys) : Entry(e)
    BY <2>2, KeysAreEntries, Zenon
  <2>4. PICK i \in DOMAIN keys :
          /\ keys[i].id = c /\ keys[i].id # None
          /\ \A j \in 1..(i - 1) : keys[j].id = None
    BY <2>2, <2>3, Target, Zenon
  <2> HIDE DEF keys, c
  <2>5. \A j \in 1..(i - 1) : keys[j] \in ToSet(keys)
    <3>1. i \in 1..Len(keys) /\ Len(keys) \in Nat /\ DOMAIN keys = 1..Len(keys)
      BY <2>3, <2>4
    <3>2. \A j \in 1..(i - 1) : j \in DOMAIN keys
      BY <3>1
    <3> QED
      BY <3>2 DEF ToSet
  <2>6. keys[i] \in ToSet(keys)
    BY <2>4, Zenon DEF ToSet
  <2>7. keys[i].type = "ContractCode"
    BY <2>2, <2>3, <2>4, <2>6, Zenon DEF Entry, Earned
  <2>8. \A j \in 1..(i - 1) : keys[j].type # "ContractData"
    BY <2>3, <2>4, <2>5, Zenon DEF Entry
  <2>9. LooksLikeToken(Wasms[keys[i].id])
    BY <2>2, <2>4, Zenon DEF Earned
  <2> QED
    BY <2>4, <2>7, <2>8, <2>9, Zenon DEF keys
<1> QED
  BY <1>1, ResultInvariant, PTL

-----------------------------------------------------------------------------
(* The hash *)

\* Residues of the modulus
LEMMA SmallMultiple ==
  ASSUME NEW M \in Nat, M > 1, NEW x \in Int, -M < M * x, M * x < M
  PROVE  x = 0
<1>1. x >= 1 => M * x >= M
  OBVIOUS
<1>2. x <= -1 => M * x <= -M
  OBVIOUS
<1> QED
  BY <1>1, <1>2

LEMMA DivMod ==
  ASSUME NEW M \in Nat, M > 1, NEW a \in Int
  PROVE  \E d, m \in Int : m = a % M /\ 0 <= m /\ m < M /\ a = M * d + m
<1>1. /\ a % M \in Int /\ a \div M \in Int /\ 0 <= a % M /\ a % M < M
  OBVIOUS
<1>2. a % M = a - M * (a \div M)
  OBVIOUS
<1>3. \A d, m \in Int : m = a - M * d => a = M * d + m
  OBVIOUS
<1> QED
  BY <1>1, <1>2, <1>3, Zenon

LEMMA SameRemainder ==
  ASSUME NEW M \in Nat, M > 1, NEW a \in Int, NEW q \in Int
  PROVE  (a + q * M) % M = a % M
<1> DEFINE b == a + q * M
<1>0. b \in Int /\ b = a + q * M
  OBVIOUS
<1> HIDE DEF b
<1>1. PICK d \in Int, r \in Int : r = a % M /\ 0 <= r /\ r < M /\ a = M * d + r
  BY DivMod, Zenon
<1>2. PICK e \in Int, s \in Int : s = b % M /\ 0 <= s /\ s < M /\ b = M * e + s
  BY <1>0, DivMod, Zenon
<1>3. s - r = M * (d + q - e)
  BY <1>0, <1>1, <1>2
<1> DEFINE x == d + q - e
<1>4. x \in Int /\ s - r = M * x
  BY <1>3
<1> HIDE DEF x
<1>5. -M < s - r /\ s - r < M
  BY <1>1, <1>2
<1>6. x = 0
  BY <1>4, <1>5, SmallMultiple, Zenon
<1>7. s = r
  BY <1>4, <1>6
<1> QED
  BY <1>1, <1>2, <1>7, Zenon DEF b

\* Wrapping a number adds a multiple of the modulus to it,
LEMMA WrapInt == ASSUME NEW n \in Int PROVE Wrap(n) \in Int
BY DataAssumption DEF Wrap

LEMMA WrapResidue ==
  ASSUME NEW n \in Int
  PROVE  \E q \in Int : Wrap(n) = n + q * Modulus
<1>1. PICK d \in Int, m \in Int : m = n % Modulus /\ n = Modulus * d + m
  BY DataAssumption, DivMod, Zenon
<1>2. Wrap(n) = m \/ Wrap(n) = m - Modulus
  BY <1>1, Zenon DEF Wrap
<1>3. m = n + (-d) * Modulus /\ m - Modulus = n + (-d - 1) * Modulus
  BY <1>1, DataAssumption
<1>4. -d \in Int /\ -d - 1 \in Int
  OBVIOUS
<1> QED
  BY <1>2, <1>3, <1>4, Zenon

\* and what differs by one is wrapped to the same:
LEMMA WrapCongruent ==
  ASSUME NEW a \in Int, NEW q \in Int
  PROVE  Wrap(a + q * Modulus) = Wrap(a)
BY DataAssumption, SameRemainder, Zenon DEF Wrap

\* it may be left to the end.
LEMMA WrapStep ==
  ASSUME NEW p \in Int, NEW c \in Nat
  PROVE  Wrap(31 * Wrap(p) + c) = Wrap(31 * p + c)
<1>1. PICK q \in Int : Wrap(p) = p + q * Modulus
  BY WrapResidue
<1>2. 31 * Wrap(p) + c = (31 * p + c) + (31 * q) * Modulus
  BY <1>1, DataAssumption
<1>3. 31 * p + c \in Int /\ 31 * q \in Int
  OBVIOUS
<1> QED
  BY <1>2, <1>3, WrapCongruent, Zenon

\* The fold of the polynomial, step by step
LEMMA PolynomialFold ==
  ASSUME NEW text \in Seq(Nat)
  PROVE  \E h \in [0..Len(text) -> Int] :
           /\ h[0] = 0
           /\ \A k \in 1..Len(text) : h[k] = 31 * h[k - 1] + text[k]
           /\ FoldLeft(LAMBDA value, c : 31 * value + c, 0, text) = h[Len(text)]
<1> DEFINE n == Len(text)
           F == [p \in (1..n) \X Int |-> 31 * p[2] + text[p[1]]]
<1>1. n \in Nat /\ DOMAIN text = 1..n /\ 0 \in Int
  OBVIOUS
<1>2. \A k \in 1..n, v \in Int : 31 * v + text[k] \in Int
  OBVIOUS
<1> HIDE DEF n
<1>3. F \in [(1..n) \X Int -> Int]
  BY <1>2
<1>4. \A k \in 1..n, v \in Int : F[<<k, v>>] = 31 * v + text[k]
  OBVIOUS
<1> HIDE DEF F
<1>5. PICK g : IsFold(g, n, Int, 0, F)
  BY <1>1, <1>3, FoldExists
<1>6. g = [s \in SUBSET (DOMAIN text) |->
             IF s = {} THEN 0 ELSE 31 * g[s \ {Max(s)}] + text[Max(s)]]
  <2>1. ASSUME NEW s \in SUBSET (1..n), s # {}
        PROVE  g[s] = 31 * g[s \ {Max(s)}] + text[Max(s)]
    <3>1. Max(s) \in 1..n
      BY <1>1, <2>1, MaxOfSet, Zenon
    <3>2. g[s \ {Max(s)}] \in Int
      BY <1>5, Zenon DEF IsFold
    <3> QED
      BY <1>4, <1>5, <2>1, <3>1, <3>2, Zenon DEF IsFold
  <2>2. g[{}] = 0 /\ g = [s \in SUBSET (1..n) |-> g[s]]
    BY <1>5 DEF IsFold
  <2> QED
    BY <1>1, <2>1, <2>2, Zenon
<1>7. PICK f :
        /\ f = [s \in SUBSET (DOMAIN text) |->
                  IF s = {} THEN 0 ELSE 31 * f[s \ {Max(s)}] + text[Max(s)]]
        /\ FoldLeft(LAMBDA value, c : 31 * value + c, 0, text) = f[DOMAIN text]
  BY <1>6, Zenon DEF FoldLeft, MapThenFoldSet
<1>8. f[{}] = 0
  BY <1>1, <1>7, Zenon
<1>9. ASSUME NEW s \in SUBSET (1..n), s # {}, f[s \ {Max(s)}] \in Int
      PROVE  f[s] = F[<<Max(s), f[s \ {Max(s)}]>>]
  <2>1. Max(s) \in 1..n
    BY <1>1, <1>9, MaxOfSet, Zenon
  <2> QED
    BY <1>1, <1>4, <1>7, <1>9, <2>1, Zenon
<1>10. PICK h : IsChain(h, f, n, Int, 0, F)
  <2>1. Follows(f, n, Int, 0, F)
    BY <1>8, <1>9, Zenon DEF Follows
  <2> QED
    BY <1>1, <1>3, <2>1, FoldIsChain
<1>11. ASSUME NEW k \in 1..n PROVE h[k] = 31 * h[k - 1] + text[k]
  <2>1. k - 1 \in 0..n
    BY <1>1
  <2> QED
    BY <1>4, <1>10, <2>1, Zenon DEF IsChain
<1> QED
  BY <1>1, <1>7, <1>10, <1>11, Zenon DEF IsChain, n

\* The fold of the hash
LEMMA HashFold ==
  ASSUME NEW text \in Seq(Nat)
  PROVE  \E h \in [0..Len(text) -> Int] :
           /\ h[0] = 0
           /\ \A k \in 1..Len(text) : h[k] = Wrap(31 * h[k - 1] + text[k])
           /\ FoldLeft(LAMBDA hash, c : Wrap(31 * hash + c), 0, text) = h[Len(text)]
<1> DEFINE n == Len(text)
           F == [p \in (1..n) \X Int |-> Wrap(31 * p[2] + text[p[1]])]
<1>1. n \in Nat /\ DOMAIN text = 1..n /\ 0 \in Int
  OBVIOUS
<1>2. \A k \in 1..n, v \in Int : Wrap(31 * v + text[k]) \in Int
  <2> SUFFICES ASSUME NEW k \in 1..n, NEW v \in Int
               PROVE  Wrap(31 * v + text[k]) \in Int
    OBVIOUS
  <2>1. 31 * v + text[k] \in Int
    BY <1>1
  <2> QED
    BY <2>1, WrapInt
<1> HIDE DEF n
<1>3. F \in [(1..n) \X Int -> Int]
  BY <1>2
<1>4. \A k \in 1..n, v \in Int : F[<<k, v>>] = Wrap(31 * v + text[k])
  OBVIOUS
<1> HIDE DEF F
<1>5. PICK g : IsFold(g, n, Int, 0, F)
  BY <1>1, <1>3, FoldExists
<1>6. g = [s \in SUBSET (DOMAIN text) |->
             IF s = {} THEN 0 ELSE Wrap(31 * g[s \ {Max(s)}] + text[Max(s)])]
  <2>1. ASSUME NEW s \in SUBSET (1..n), s # {}
        PROVE  g[s] = Wrap(31 * g[s \ {Max(s)}] + text[Max(s)])
    <3>1. Max(s) \in 1..n
      BY <1>1, <2>1, MaxOfSet, Zenon
    <3>2. g[s \ {Max(s)}] \in Int
      BY <1>5, Zenon DEF IsFold
    <3> QED
      BY <1>4, <1>5, <2>1, <3>1, <3>2, Zenon DEF IsFold
  <2>2. g[{}] = 0 /\ g = [s \in SUBSET (1..n) |-> g[s]]
    BY <1>5 DEF IsFold
  <2> QED
    BY <1>1, <2>1, <2>2, Zenon
<1>7. PICK f :
        /\ f = [s \in SUBSET (DOMAIN text) |->
                  IF s = {} THEN 0 ELSE Wrap(31 * f[s \ {Max(s)}] + text[Max(s)])]
        /\ FoldLeft(LAMBDA hash, c : Wrap(31 * hash + c), 0, text) = f[DOMAIN text]
  BY <1>6, Zenon DEF FoldLeft, MapThenFoldSet
<1>8. f[{}] = 0
  BY <1>1, <1>7, Zenon
<1>9. ASSUME NEW s \in SUBSET (1..n), s # {}, f[s \ {Max(s)}] \in Int
      PROVE  f[s] = F[<<Max(s), f[s \ {Max(s)}]>>]
  <2>1. Max(s) \in 1..n
    BY <1>1, <1>9, MaxOfSet, Zenon
  <2> QED
    BY <1>1, <1>4, <1>7, <1>9, <2>1, Zenon
<1>10. PICK h : IsChain(h, f, n, Int, 0, F)
  <2>1. Follows(f, n, Int, 0, F)
    BY <1>8, <1>9, Zenon DEF Follows
  <2> QED
    BY <1>1, <1>3, <2>1, FoldIsChain
<1>11. ASSUME NEW k \in 1..n PROVE h[k] = Wrap(31 * h[k - 1] + text[k])
  <2>1. k - 1 \in 0..n
    BY <1>1
  <2> QED
    BY <1>4, <1>10, <2>1, Zenon DEF IsChain
<1> QED
  BY <1>1, <1>7, <1>10, <1>11, Zenon DEF IsChain, n

\* Nothing of the polynomial is lost by wrapping it at every character.
LEMMA HashIsPolynomial ==
  ASSUME NEW text \in Seq(Nat)
  PROVE  simpleHash(text)
           = Magnitude(Wrap(FoldLeft(LAMBDA value, c : 31 * value + c, 0, text)))
<1> DEFINE n == Len(text)
           polynomial == FoldLeft(LAMBDA value, c : 31 * value + c, 0, text)
           hash == FoldLeft(LAMBDA h, c : Wrap(31 * h + c), 0, text)
<1>1. n \in Nat /\ \A k \in 1..n : text[k] \in Nat
  OBVIOUS
<1>2. PICK p \in [0..n -> Int] :
        /\ p[0] = 0
        /\ \A k \in 1..n : p[k] = 31 * p[k - 1] + text[k]
        /\ polynomial = p[n]
  BY PolynomialFold, Zenon
<1>3. PICK w \in [0..n -> Int] :
        /\ w[0] = 0
        /\ \A k \in 1..n : w[k] = Wrap(31 * w[k - 1] + text[k])
        /\ hash = w[n]
  BY HashFold, Zenon
<1> HIDE DEF n, polynomial, hash
<1> DEFINE T == {k \in 0..n : w[k] = Wrap(p[k])}
<1>4. 0 \in T
  <2>1. Wrap(0) = 0
    <3>1. 0 % Modulus = 0 /\ ~(0 >= Modulus \div 2)
      BY DataAssumption
    <3> QED
      BY <3>1, Zenon DEF Wrap
  <2>2. 0 \in 0..n
    BY <1>1
  <2> QED
    BY <1>2, <1>3, <2>1, <2>2, Zenon
<1>5. ASSUME NEW k \in 1..n, k - 1 \in T PROVE k \in T
  <2>1. k \in 0..n /\ k - 1 \in 0..n
    BY <1>1
  <2>2. w[k - 1] = Wrap(p[k - 1]) /\ p[k - 1] \in Int
    BY <1>2, <1>5, <2>1, Zenon
  <2>3. w[k] = Wrap(31 * p[k - 1] + text[k])
    <3>1. w[k] = Wrap(31 * Wrap(p[k - 1]) + text[k])
      BY <1>3, <2>2, Zenon
    <3>2. text[k] \in Nat
      BY <1>1, Zenon
    <3>3. Wrap(31 * Wrap(p[k - 1]) + text[k]) = Wrap(31 * p[k - 1] + text[k])
      BY <2>2, <3>2, WrapStep, Zenon
    <3> QED
      BY <3>1, <3>3, Zenon
  <2> QED
    BY <1>2, <2>1, <2>3, Zenon
<1> HIDE DEF T
<1>6. 0..n \subseteq T
  BY <1>1, <1>4, <1>5, Upward
<1>7. n \in 0..n
  BY <1>1
<1>8. hash = Wrap(polynomial)
  BY <1>2, <1>3, <1>6, <1>7, Zenon DEF T
<1> QED
  BY <1>8, Zenon DEF simpleHash, hash, polynomial

\* The optimizer takes every read-only entry that is also read-write out, keeps
\* the others in their order, and loses one that nothing replaces only if the
\* polynomials of the two texts agree in their last 32 bits, the sign aside
\* (services/optimizer.ts:26-53).
THEOREM OnlyCollisionsAreLost == Spec => []OptimizerLosesOnlyCollisions
<1> DEFINE Hash(s) == Magnitude(Wrap(FoldLeft(LAMBDA value, c : 31 * value + c, 0, s)))
           Collides(e, S) == \E f \in S : Hash(e.text) = Hash(f.text)
<1>1. ASSUME NEW s \in Seq(Nat) PROVE simpleHash(s) = Hash(s)
  BY HashIsPolynomial, Zenon
<1>2. ASSUME ResultInv, NEW r \in Requests, footprint[r] # None
      PROVE  optimizeFootprint(footprint[r].readOnly, footprint[r].readWrite)
               = Select(footprint[r].readOnly,
                        {e \in ToSet(footprint[r].readOnly) :
                           /\ e \notin ToSet(footprint[r].readWrite)
                           /\ ~Collides(e, ToSet(footprint[r].readWrite))})
  <2> DEFINE ro == footprint[r].readOnly
             rw == footprint[r].readWrite
  <2>1. footprint[r] \in Footprints
    BY <1>2, Zenon DEF ResultInv, Typed
  <2>2. \A e \in ToSet(ro) \cup ToSet(rw) : e.text \in Seq(Nat)
    BY <2>1, KeysAreEntries, Zenon DEF Entry
  <2>3. optimizeFootprint(ro, rw)
          = Select(ro, {e \in ToSet(ro) : simpleHash(e.text) \notin Hashes(rw)})
    BY Zenon DEF optimizeFootprint
  <2> HIDE DEF Hash, ro, rw
  <2>4. \A e \in ToSet(ro) \cup ToSet(rw) : simpleHash(e.text) = Hash(e.text)
    BY <1>1, <2>2, Zenon
  <2>5. \A e \in ToSet(ro) :
          simpleHash(e.text) \notin Hashes(rw)
            <=> e \notin ToSet(rw) /\ ~Collides(e, ToSet(rw))
    BY <2>4, Zenon DEF Hashes
  <2>6. {e \in ToSet(ro) : simpleHash(e.text) \notin Hashes(rw)}
          = {e \in ToSet(ro) : e \notin ToSet(rw) /\ ~Collides(e, ToSet(rw))}
    <3> HIDE DEF Collides
    <3> QED
      BY <2>5, Zenon
  <2> QED
    BY <2>3, <2>6, Zenon DEF ro, rw
<1>3. ResultInv => OptimizerLosesOnlyCollisions
  BY <1>2, Zenon DEF OptimizerLosesOnlyCollisions
<1> QED
  BY <1>3, ResultInvariant, PTL

-----------------------------------------------------------------------------
(* The fee *)

\* The fold that reads digits, step by step
LEMMA DigitsFold ==
  ASSUME NEW whole \in Int, NEW digits \in Seq(Int)
  PROVE  \E h \in [0..Len(digits) -> Int] :
           /\ h[0] = whole
           /\ \A k \in 1..Len(digits) : h[k] = 10 * h[k - 1] + digits[k]
           /\ FoldLeft(LAMBDA value, d : 10 * value + d, whole, digits) = h[Len(digits)]
<1> DEFINE n == Len(digits)
           F == [p \in (1..n) \X Int |-> 10 * p[2] + digits[p[1]]]
<1>1. n \in Nat /\ DOMAIN digits = 1..n /\ whole \in Int
  OBVIOUS
<1>2. \A k \in 1..n, v \in Int : 10 * v + digits[k] \in Int
  OBVIOUS
<1> HIDE DEF n
<1>3. F \in [(1..n) \X Int -> Int]
  BY <1>2
<1>4. \A k \in 1..n, v \in Int : F[<<k, v>>] = 10 * v + digits[k]
  OBVIOUS
<1> HIDE DEF F
<1>5. PICK g : IsFold(g, n, Int, whole, F)
  BY <1>1, <1>3, FoldExists
<1>6. g = [s \in SUBSET (DOMAIN digits) |->
             IF s = {} THEN whole ELSE 10 * g[s \ {Max(s)}] + digits[Max(s)]]
  <2>1. ASSUME NEW s \in SUBSET (1..n), s # {}
        PROVE  g[s] = 10 * g[s \ {Max(s)}] + digits[Max(s)]
    <3>1. Max(s) \in 1..n
      BY <1>1, <2>1, MaxOfSet, Zenon
    <3>2. g[s \ {Max(s)}] \in Int
      BY <1>5, Zenon DEF IsFold
    <3> QED
      BY <1>4, <1>5, <2>1, <3>1, <3>2, Zenon DEF IsFold
  <2>2. g[{}] = whole /\ g = [s \in SUBSET (1..n) |-> g[s]]
    BY <1>5 DEF IsFold
  <2> QED
    BY <1>1, <2>1, <2>2, Zenon
<1>7. PICK f :
        /\ f = [s \in SUBSET (DOMAIN digits) |->
                  IF s = {} THEN whole ELSE 10 * f[s \ {Max(s)}] + digits[Max(s)]]
        /\ FoldLeft(LAMBDA value, d : 10 * value + d, whole, digits) = f[DOMAIN digits]
  BY <1>6, Zenon DEF FoldLeft, MapThenFoldSet
<1>8. f[{}] = whole
  BY <1>1, <1>7, Zenon
<1>9. ASSUME NEW s \in SUBSET (1..n), s # {}, f[s \ {Max(s)}] \in Int
      PROVE  f[s] = F[<<Max(s), f[s \ {Max(s)}]>>]
  <2>1. Max(s) \in 1..n
    BY <1>1, <1>9, MaxOfSet, Zenon
  <2> QED
    BY <1>1, <1>4, <1>7, <1>9, <2>1, Zenon
<1>10. PICK h : IsChain(h, f, n, Int, whole, F)
  <2>1. Follows(f, n, Int, whole, F)
    BY <1>8, <1>9, Zenon DEF Follows
  <2> QED
    BY <1>1, <1>3, <2>1, FoldIsChain
<1>11. ASSUME NEW k \in 1..n PROVE h[k] = 10 * h[k - 1] + digits[k]
  <2>1. k - 1 \in 0..n
    BY <1>1
  <2> QED
    BY <1>4, <1>10, <2>1, Zenon DEF IsChain
<1> QED
  BY <1>1, <1>7, <1>10, <1>11, Zenon DEF IsChain, n

\* The seven digits after the point, read after the whole lumens, are the total.
LEMMA TextReadsBack ==
  ASSUME NEW total \in Nat
  PROVE  FoldLeft(LAMBDA value, d : 10 * value + d,
                  FeeInXlm(total).whole, FeeInXlm(total).digits) = total
<1> DEFINE whole == total \div 10000000
           frac == total % 10000000
           digits == [i \in 1..7 |-> (frac \div 10^(7 - i)) % 10]
<1>1. whole \in Int /\ frac \in Nat /\ frac < 10000000
  BY SMT
<1>2. total = 10000000 * whole + frac
  <2>1. frac = total - 10000000 * whole
    BY SMT
  <2> HIDE DEF whole, frac
  <2> QED
    BY <1>1, <2>1, SMT
<1>3. FeeInXlm(total).whole = whole /\ FeeInXlm(total).digits = digits
  <2> HIDE DEF digits
  <2>1. FeeInXlm(total) = [whole |-> whole, digits |-> digits]
    BY SMT DEF FeeInXlm, STROOPS_PER_XLM, digits
  <2> HIDE DEF whole
  <2> QED
    BY <2>1, SMT
<1> HIDE DEF whole, frac
<1>4. /\ digits[1] = (frac \div 1000000) % 10
      /\ digits[2] = (frac \div 100000) % 10
      /\ digits[3] = (frac \div 10000) % 10
      /\ digits[4] = (frac \div 1000) % 10
      /\ digits[5] = (frac \div 100) % 10
      /\ digits[6] = (frac \div 10) % 10
      /\ digits[7] = (frac \div 1) % 10
  <2>1. /\ 10^(7 - 1) = 1000000 /\ 10^(7 - 2) = 100000 /\ 10^(7 - 3) = 10000
        /\ 10^(7 - 4) = 1000 /\ 10^(7 - 5) = 100 /\ 10^(7 - 6) = 10 /\ 10^(7 - 7) = 1
    BY SMT
  <2>2. 1 \in 1..7 /\ 2 \in 1..7 /\ 3 \in 1..7 /\ 4 \in 1..7 /\ 5 \in 1..7 /\ 6 \in 1..7
          /\ 7 \in 1..7
    BY SMT
  <2> QED
    BY <2>1, <2>2, SMT
<1>5. /\ digits[1] = frac \div 1000000
      /\ digits[2] = frac \div 100000 - 10 * (frac \div 1000000)
      /\ digits[3] = frac \div 10000 - 10 * (frac \div 100000)
      /\ digits[4] = frac \div 1000 - 10 * (frac \div 10000)
      /\ digits[5] = frac \div 100 - 10 * (frac \div 1000)
      /\ digits[6] = frac \div 10 - 10 * (frac \div 100)
      /\ digits[7] = frac - 10 * (frac \div 10)
  <2>1. (frac \div 1000000) % 10 = frac \div 1000000
    BY <1>1, SMT
  <2>2. (frac \div 100000) % 10 = frac \div 100000 - 10 * (frac \div 1000000)
    BY <1>1, SMT
  <2>3. (frac \div 10000) % 10 = frac \div 10000 - 10 * (frac \div 100000)
    BY <1>1, SMT
  <2>4. (frac \div 1000) % 10 = frac \div 1000 - 10 * (frac \div 10000)
    BY <1>1, SMT
  <2>5. (frac \div 100) % 10 = frac \div 100 - 10 * (frac \div 1000)
    BY <1>1, SMT
  <2>6. (frac \div 10) % 10 = frac \div 10 - 10 * (frac \div 100)
    BY <1>1, SMT
  <2>7. (frac \div 1) % 10 = frac - 10 * (frac \div 10)
    BY <1>1, SMT
  <2> QED
    BY <1>4, <2>1, <2>2, <2>3, <2>4, <2>5, <2>6, <2>7, SMT
<1>6. digits \in Seq(Int) /\ Len(digits) = 7
  <2>1. digits = [i \in 1..7 |-> digits[i]]
    BY Zenon
  <2> HIDE DEF digits
  <2>2. /\ digits[1] \in Int /\ digits[2] \in Int /\ digits[3] \in Int
        /\ digits[4] \in Int /\ digits[5] \in Int /\ digits[6] \in Int
        /\ digits[7] \in Int
    BY <1>1, <1>5, SMT
  <2>3. \A i \in 1..7 : i = 1 \/ i = 2 \/ i = 3 \/ i = 4 \/ i = 5 \/ i = 6 \/ i = 7
    BY SMT
  <2>4. \A i \in 1..7 : digits[i] \in Int
    BY <2>2, <2>3, Zenon
  <2> QED
    BY <2>1, <2>4, SMT
<1> HIDE DEF digits
<1>7. PICK h \in [0..Len(digits) -> Int] :
        /\ h[0] = whole
        /\ \A k \in 1..Len(digits) : h[k] = 10 * h[k - 1] + digits[k]
        /\ FoldLeft(LAMBDA value, d : 10 * value + d, whole, digits) = h[Len(digits)]
  <2>1. whole \in Int
    BY <1>1, SMT
  <2> QED
    BY <1>6, <2>1, DigitsFold, Zenon
<1>8. /\ h[1] = 10 * h[0] + digits[1]
      /\ h[2] = 10 * h[1] + digits[2]
      /\ h[3] = 10 * h[2] + digits[3]
      /\ h[4] = 10 * h[3] + digits[4]
      /\ h[5] = 10 * h[4] + digits[5]
      /\ h[6] = 10 * h[5] + digits[6]
      /\ h[7] = 10 * h[6] + digits[7]
  <2>1. \A k \in 1..7 : h[k] = 10 * h[k - 1] + digits[k]
    BY <1>6, <1>7, Zenon
  <2>2. /\ 1 - 1 = 0 /\ 2 - 1 = 1 /\ 3 - 1 = 2 /\ 4 - 1 = 3 /\ 5 - 1 = 4 /\ 6 - 1 = 5
        /\ 7 - 1 = 6
    BY SMT
  <2>3. 1 \in 1..7 /\ 2 \in 1..7 /\ 3 \in 1..7 /\ 4 \in 1..7 /\ 5 \in 1..7 /\ 6 \in 1..7
          /\ 7 \in 1..7
    BY SMT
  <2> QED
    BY <2>1, <2>2, <2>3, Zenon
<1>9. h[7] = STROOPS_PER_XLM * whole + frac
  <2>1. PICK q1 \in Int, q2 \in Int, q3 \in Int, q4 \in Int, q5 \in Int, q6 \in Int :
          /\ digits[1] = q1
          /\ digits[2] = q2 - 10 * q1
          /\ digits[3] = q3 - 10 * q2
          /\ digits[4] = q4 - 10 * q3
          /\ digits[5] = q5 - 10 * q4
          /\ digits[6] = q6 - 10 * q5
          /\ digits[7] = frac - 10 * q6
    <3> DEFINE q1 == frac \div 1000000
               q2 == frac \div 100000
               q3 == frac \div 10000
               q4 == frac \div 1000
               q5 == frac \div 100
               q6 == frac \div 10
    <3>1. /\ q1 \in Int /\ q2 \in Int /\ q3 \in Int
          /\ q4 \in Int /\ q5 \in Int /\ q6 \in Int
      BY <1>1, SMT
    <3>2. /\ digits[1] = q1
          /\ digits[2] = q2 - 10 * q1
          /\ digits[3] = q3 - 10 * q2
          /\ digits[4] = q4 - 10 * q3
          /\ digits[5] = q5 - 10 * q4
          /\ digits[6] = q6 - 10 * q5
          /\ digits[7] = frac - 10 * q6
      BY <1>5, SMT
    <3> HIDE DEF q1, q2, q3, q4, q5, q6
    <3> QED
      BY <3>1, <3>2, Zenon
  <2>2. whole \in Int /\ frac \in Int
    BY <1>1, SMT
  <2> DEFINE h1 == h[1]
             h2 == h[2]
             h3 == h[3]
             h4 == h[4]
             h5 == h[5]
             h6 == h[6]
             h7 == h[7]
  <2>3. /\ h1 = 10 * whole + q1
        /\ h2 = 10 * h1 + (q2 - 10 * q1)
        /\ h3 = 10 * h2 + (q3 - 10 * q2)
        /\ h4 = 10 * h3 + (q4 - 10 * q3)
        /\ h5 = 10 * h4 + (q5 - 10 * q4)
        /\ h6 = 10 * h5 + (q6 - 10 * q5)
        /\ h7 = 10 * h6 + (frac - 10 * q6)
    BY <1>7, <1>8, <2>1, Zenon
  <2> HIDE DEF h1, h2, h3, h4, h5, h6, h7
  <2>4. h7 = STROOPS_PER_XLM * whole + frac
    BY <2>2, <2>3, SMT DEF STROOPS_PER_XLM
  <2> QED
    BY <2>4, Zenon DEF h7
<1>10. total = h[7]
  BY <1>2, <1>9, SMT DEF STROOPS_PER_XLM
<1> QED
  BY <1>3, <1>6, <1>7, <1>10, Zenon

\* The two estimates agree on every amount, the text in lumens reads back as the
\* total, the breakdown adds up, and the CPU fee pays for every started 10,000
\* instructions and no more (services/feeEstimator.ts:45-170).
THEOREM FeesAlwaysAgree == Spec => []FeesAgree
<1>1. ASSUME ResultInv, NEW r \in Requests, cost[r] # None
      PROVE  LET c == cost[r]
                 plain == estimateFee(c.cpu, c.mem, c.p50)
                 full == estimateFeeDetailed(c.cpu, c.mem, c.p50)
                 b == full.breakdown
                 increments == b.cpuFee \div 25
             IN  /\ plain.base = full.inclusion /\ plain.base > 0
                 /\ plain.resource = full.resource /\ plain.total = full.total
                 /\ plain.total
                      = full.inclusion + b.cpuFee + b.memoryFee + b.readFee
                          + b.overheadFee
                 /\ plain.xlm = full.xlm
                 /\ FoldLeft(LAMBDA n, d : 10 * n + d, plain.xlm.whole,
                             plain.xlm.digits) = plain.total
                 /\ (increments - 1) * INSTRUCTION_INCREMENT < c.cpu
                 /\ c.cpu <= increments * INSTRUCTION_INCREMENT
  <2> DEFINE c == cost[r]
             plain == estimateFee(c.cpu, c.mem, c.p50)
             full == estimateFeeDetailed(c.cpu, c.mem, c.p50)
             I == INSTRUCTION_INCREMENT
             started == (c.cpu + I - 1) \div I
             inclusion == InclusionFee(c.p50)
             resource == estimateResourceFee(c.cpu, c.mem)
             parts == estimateResourceFeeDetailed(c.cpu, c.mem)
             total == inclusion + resource
  <2>1. c \in Costs
    BY <1>1, Zenon DEF ResultInv, Typed
  <2>2. c.cpu \in Nat /\ c.mem \in Nat /\ c.p50 \in Nat \cup {NoFee}
    BY <2>1, ResultAssumption, Zenon
  <2>3. inclusion \in Nat /\ inclusion > 0
    BY <2>2 DEF InclusionFee
  <2>4. started \in Nat /\ (started * 25) \div 25 = started
          /\ (started - 1) * I < c.cpu /\ c.cpu <= started * I
    BY <2>2, SMT DEF INSTRUCTION_INCREMENT
  <2>5. resource = started * 25 + c.mem * 1000 + 300 * (100 + 100) + c.mem * 250
    BY Zenon DEF estimateResourceFee
  <2>6. /\ parts.cpuFee = started * 25 /\ parts.memoryFee = c.mem * 1000
        /\ parts.overheadFee = 300 * (100 + 100) /\ parts.readFee = c.mem * 250
    BY SMT DEF estimateResourceFeeDetailed
  <2> HIDE DEF c, I, started, inclusion, resource, parts
  <2>7. /\ resource \in Nat
        /\ resource = parts.cpuFee + parts.memoryFee + parts.readFee + parts.overheadFee
    BY <2>2, <2>4, <2>5, <2>6
  <2>8. plain = [base |-> inclusion, resource |-> resource, total |-> total,
                 xlm |-> FeeInXlm(total)]
    BY Zenon DEF estimateFee, inclusion, resource
  <2>9. full = [inclusion |-> inclusion, resource |-> resource, total |-> total,
                xlm |-> FeeInXlm(total), breakdown |-> parts]
    BY <2>7, Zenon DEF estimateFeeDetailed, inclusion, parts
  <2> HIDE DEF plain, full
  <2>10. total \in Nat
    BY <2>3, <2>7
  <2>11. total = inclusion + parts.cpuFee + parts.memoryFee + parts.readFee
                   + parts.overheadFee
    BY <2>2, <2>3, <2>4, <2>6, <2>7
  <2> HIDE DEF total
  <2>12. /\ plain.base = inclusion /\ plain.resource = resource /\ plain.total = total
         /\ plain.xlm = FeeInXlm(total)
    BY <2>8
  <2>13. /\ full.inclusion = inclusion /\ full.resource = resource /\ full.total = total
         /\ full.xlm = FeeInXlm(total) /\ full.breakdown = parts
    BY <2>9
  <2>14. FoldLeft(LAMBDA n, d : 10 * n + d, plain.xlm.whole, plain.xlm.digits)
           = plain.total
    BY <2>10, <2>12, TextReadsBack, Zenon
  <2>15. /\ (full.breakdown.cpuFee \div 25 - 1) * INSTRUCTION_INCREMENT < c.cpu
         /\ c.cpu <= (full.breakdown.cpuFee \div 25) * INSTRUCTION_INCREMENT
    <3>1. full.breakdown.cpuFee \div 25 = started
      BY <2>4, <2>6, <2>13, Zenon
    <3> QED
      BY <2>4, <3>1, Zenon DEF I
  <2> QED
    BY <2>3, <2>11, <2>12, <2>13, <2>14, <2>15, Zenon DEF plain, full, c
<1>2. ResultInv => FeesAgree
  BY <1>1, Zenon DEF FeesAgree
<1> QED
  BY <1>2, ResultInvariant, PTL

-----------------------------------------------------------------------------
(* The lifetimes *)

\* An element that is in the set is appended.
Keep(S, kept, e) == IF e \in S THEN Append(kept, e) ELSE kept

\* The fold that selects elements, step by step
LEMMA SelectFold ==
  ASSUME NEW keys, keys \in Seq(ToSet(keys)), NEW S
  PROVE  \E h \in [0..Len(keys) -> Seq(ToSet(keys))] :
           /\ h[0] = <<>>
           /\ \A k \in 1..Len(keys) : h[k] = Keep(S, h[k - 1], keys[k])
           /\ Select(keys, S) = h[Len(keys)]
<1> DEFINE n == Len(keys)
           V == Seq(ToSet(keys))
           F == [p \in (1..n) \X V |-> Keep(S, p[2], keys[p[1]])]
<1>1. n \in Nat /\ DOMAIN keys = 1..n /\ <<>> \in V
  OBVIOUS
<1>2. \A k \in 1..n, v \in V : Keep(S, v, keys[k]) \in V
  <2>1. \A k \in 1..n : keys[k] \in ToSet(keys)
    BY <1>1 DEF ToSet
  <2> QED
    BY <2>1 DEF Keep
<1> HIDE DEF n, V
<1>3. F \in [(1..n) \X V -> V]
  BY <1>2
<1>4. \A k \in 1..n, v \in V : F[<<k, v>>] = Keep(S, v, keys[k])
  OBVIOUS
<1> HIDE DEF F
<1>5. PICK g : IsFold(g, n, V, <<>>, F)
  BY <1>1, <1>3, FoldExists
<1>6. g = [s \in SUBSET (DOMAIN keys) |->
             IF s = {} THEN <<>> ELSE Keep(S, g[s \ {Max(s)}], keys[Max(s)])]
  <2>1. ASSUME NEW s \in SUBSET (1..n), s # {}
        PROVE  g[s] = Keep(S, g[s \ {Max(s)}], keys[Max(s)])
    <3>1. Max(s) \in 1..n
      BY <1>1, <2>1, MaxOfSet, Zenon
    <3>2. g[s \ {Max(s)}] \in V
      BY <1>5, Zenon DEF IsFold
    <3> QED
      BY <1>4, <1>5, <2>1, <3>1, <3>2, Zenon DEF IsFold
  <2>2. g[{}] = <<>> /\ g = [s \in SUBSET (1..n) |-> g[s]]
    BY <1>5 DEF IsFold
  <2> QED
    BY <1>1, <2>1, <2>2, Zenon
<1>7. PICK f :
        /\ f = [s \in SUBSET (DOMAIN keys) |->
                  IF s = {} THEN <<>> ELSE Keep(S, f[s \ {Max(s)}], keys[Max(s)])]
        /\ Select(keys, S) = f[DOMAIN keys]
  BY <1>6, Zenon DEF Keep, Select, FoldLeft, MapThenFoldSet
<1>8. f[{}] = <<>>
  BY <1>1, <1>7, Zenon
<1>9. ASSUME NEW s \in SUBSET (1..n), s # {}, f[s \ {Max(s)}] \in V
      PROVE  f[s] = F[<<Max(s), f[s \ {Max(s)}]>>]
  <2>1. Max(s) \in 1..n
    BY <1>1, <1>9, MaxOfSet, Zenon
  <2> QED
    BY <1>1, <1>4, <1>7, <1>9, <2>1, Zenon
<1>10. PICK h : IsChain(h, f, n, V, <<>>, F)
  <2>1. Follows(f, n, V, <<>>, F)
    BY <1>8, <1>9, Zenon DEF Follows
  <2> QED
    BY <1>1, <1>3, <2>1, FoldIsChain
<1>11. ASSUME NEW k \in 1..n PROVE h[k] = Keep(S, h[k - 1], keys[k])
  <2>1. k - 1 \in 0..n
    BY <1>1
  <2> QED
    BY <1>4, <1>10, <2>1, Zenon DEF IsChain
<1> QED
  BY <1>1, <1>7, <1>10, <1>11, Zenon DEF IsChain, n, V

\* An injective sequence has as many values at some places as there are places.
LEMMA ImageSize ==
  ASSUME NEW W, IsFiniteSet(W), NEW s, W \subseteq DOMAIN s, IsInjective(s)
  PROVE  Cardinality({s[i] : i \in W}) = Cardinality(W)
<1> DEFINE T == {s[i] : i \in W}
           f == [i \in W |-> s[i]]
<1>1. f \in Surjection(W, T)
  <2>1. f \in [W -> T] /\ \A t \in T : \E i \in W : f[i] = t
    BY Zenon
  <2> QED
    BY <2>1, Zenon DEF Surjection
<1>2. f \in Injection(W, T)
  <2>1. \A i, j \in W : f[i] = f[j] => i = j
    BY Zenon DEF IsInjective
  <2>2. DOMAIN f = W /\ f \in [W -> T]
    BY Zenon
  <2> HIDE DEF f, T
  <2> QED
    BY <2>1, <2>2, Zenon DEF Injection, IsInjective
<1> HIDE DEF T, f
<1>3. Cardinality(T) = Cardinality(W)
  BY <1>1, <1>2, FS_Surjection, Zenon
<1> QED
  BY <1>3 DEF T

\* What Select returns of a sequence that has nothing twice: each of its elements
\* that is in the set, once, and up to the first that is not in it each in place.
LEMMA SelectIs ==
  ASSUME NEW keys, keys \in Seq(ToSet(keys)), IsInjective(keys),
         NEW S \in SUBSET ToSet(keys)
  PROVE  LET kept == Select(keys, S)
         IN  /\ Len(kept) \in Nat /\ DOMAIN kept = 1..Len(kept)
             /\ Len(kept) <= Len(keys)
             /\ ToSet(kept) = S /\ IsInjective(kept)
             /\ \A i \in DOMAIN keys :
                  (\A j \in 1..i : keys[j] \in S) =>
                    i \in DOMAIN kept /\ kept[i] = keys[i]
<1> DEFINE n == Len(keys)
           V == Seq(ToSet(keys))
<1>1. n \in Nat /\ DOMAIN keys = 1..n
  OBVIOUS
<1>2. \A j \in 1..n : keys[j] \in ToSet(keys)
  BY <1>1 DEF ToSet
<1>3. \A i, j \in 1..n : keys[i] = keys[j] => i = j
  BY <1>1, Zenon DEF IsInjective
<1>4. PICK h \in [0..n -> V] :
        /\ h[0] = <<>>
        /\ \A k \in 1..n : h[k] = Keep(S, h[k - 1], keys[k])
        /\ Select(keys, S) = h[n]
  BY SelectFold, Zenon
<1> USE DEF Keep
<1> HIDE DEF n
<1>5. \A k \in 0..n : Len(h[k]) \in Nat /\ DOMAIN h[k] = 1..Len(h[k])
  <2> SUFFICES ASSUME NEW k \in 0..n
               PROVE  Len(h[k]) \in Nat /\ DOMAIN h[k] = 1..Len(h[k])
    OBVIOUS
  <2>1. h[k] \in V
    BY <1>4
  <2> QED
    BY <2>1
<1>6. ASSUME NEW k \in 1..n
      PROVE  LET s == h[k - 1]
                 t == h[k]
                 e == keys[k]
             IN  IF e \in S
                 THEN /\ Len(t) = Len(s) + 1 /\ t[Len(s) + 1] = e
                      /\ \A i \in 1..Len(s) : t[i] = s[i]
                 ELSE t = s
  <2> DEFINE s == h[k - 1]
             e == keys[k]
  <2>1. s \in V /\ e \in ToSet(keys)
    <3>1. k - 1 \in 0..n
      BY <1>1
    <3> QED
      BY <1>2, <1>4, <3>1, Zenon
  <2>2. h[k] = IF e \in S THEN Append(s, e) ELSE s
    BY <1>4, Zenon
  <2> HIDE DEF s, e
  <2>3. /\ Len(Append(s, e)) = Len(s) + 1 /\ Append(s, e)[Len(s) + 1] = e
        /\ \A i \in 1..Len(s) : Append(s, e)[i] = s[i]
    BY <2>1
  <2> QED
    BY <2>2, <2>3, Zenon DEF s, e
<1> HIDE DEF V
<1> DEFINE Place(k, i) == \E j \in 1..k : keys[j] \in S /\ h[k][i] = keys[j]
           Here(k, j) == \E i \in 1..Len(h[k]) : h[k][i] = keys[j]
           P(k) == /\ Len(h[k]) <= k
                   /\ \A i \in 1..Len(h[k]) : Place(k, i)
                   /\ \A j \in 1..k : keys[j] \in S => Here(k, j)
                   /\ \A i, j \in 1..Len(h[k]) : h[k][i] = h[k][j] => i = j
           T == {k \in 0..n : P(k)}
<1>7. 0 \in T
  <2>1. 0 \in 0..n /\ Len(h[0]) = 0 /\ 1..0 = {}
    BY <1>1, <1>4
  <2>2. P(0)
    BY <2>1
  <2> QED
    BY <2>1, <2>2
<1>8. ASSUME NEW k \in 1..n, k - 1 \in T PROVE k \in T
  <2>1. /\ k \in 0..n /\ k - 1 \in 0..n /\ k \in Nat /\ k - 1 \in Nat
        /\ k \in 1..k /\ \A j \in 1..(k - 1) : j \in 1..k /\ j \in 1..n /\ j # k
        /\ \A j \in 1..k : j = k \/ j \in 1..(k - 1)
    BY <1>1
  <2> DEFINE s == h[k - 1]
             m == Len(s)
  <2>2. /\ m \in Nat /\ m <= k - 1
        /\ \A i \in 1..m : Place(k - 1, i)
        /\ \A j \in 1..(k - 1) : keys[j] \in S => Here(k - 1, j)
        /\ \A i, j \in 1..m : s[i] = s[j] => i = j
    BY <1>5, <1>8, <2>1, Zenon
  <2>3. CASE keys[k] \notin S
    <3>1. h[k] = s
      BY <1>6, <2>3, Zenon
    <3>2. \A i \in 1..m : Place(k, i)
      <4> SUFFICES ASSUME NEW i \in 1..m PROVE Place(k, i)
        OBVIOUS
      <4>1. PICK j \in 1..(k - 1) : keys[j] \in S /\ s[i] = keys[j]
        BY <2>2, Zenon
      <4> QED
        BY <2>1, <3>1, <4>1, Zenon
    <3>3. ASSUME NEW j \in 1..k, keys[j] \in S PROVE Here(k, j)
      <4>1. j \in 1..(k - 1)
        BY <2>1, <2>3, <3>3, Zenon
      <4>2. PICK i \in 1..m : s[i] = keys[j]
        BY <2>2, <3>3, <4>1, Zenon
      <4> QED
        BY <3>1, <4>2, Zenon
    <3>4. m <= k
      BY <2>1, <2>2
    <3> HIDE DEF Place, Here
    <3>5. P(k)
      BY <2>2, <3>1, <3>2, <3>3, <3>4, Zenon
    <3> QED
      BY <2>1, <3>5
  <2>4. CASE keys[k] \in S
    <3>1. /\ Len(h[k]) = m + 1 /\ h[k][m + 1] = keys[k]
          /\ \A i \in 1..m : h[k][i] = s[i]
      BY <1>6, <2>4, Zenon
    <3>2. /\ m + 1 \in 1..(m + 1)
          /\ \A i \in 1..(m + 1) : i = m + 1 \/ i \in 1..m
          /\ \A i \in 1..m : i \in 1..(m + 1)
      BY <2>2
    <3>3. \A i \in 1..m : \E j \in 1..(k - 1) : keys[j] \in S /\ h[k][i] = keys[j]
      <4> SUFFICES ASSUME NEW i \in 1..m
                   PROVE  \E j \in 1..(k - 1) : keys[j] \in S /\ h[k][i] = keys[j]
        OBVIOUS
      <4>1. PICK j \in 1..(k - 1) : keys[j] \in S /\ s[i] = keys[j]
        BY <2>2, Zenon
      <4>2. h[k][i] = s[i]
        BY <3>1, Zenon
      <4> QED
        BY <4>1, <4>2, Zenon
    <3>4. \A i \in 1..m : h[k][i] # keys[k]
      BY <1>3, <2>1, <3>3, Zenon
    <3>5. \A i \in 1..(m + 1) : Place(k, i)
      BY <2>1, <2>4, <3>1, <3>2, <3>3, Zenon
    <3>6. \A j \in 1..k : keys[j] \in S => Here(k, j)
      <4>1. Here(k, k)
        BY <3>1, <3>2, Zenon
      <4>2. ASSUME NEW j \in 1..(k - 1), keys[j] \in S PROVE Here(k, j)
        <5>1. PICK i \in 1..m : s[i] = keys[j]
          BY <2>2, <4>2, Zenon
        <5>2. h[k][i] = keys[j] /\ i \in 1..(m + 1)
          BY <3>1, <3>2, <5>1, Zenon
        <5> QED
          BY <3>1, <5>2, Zenon
      <4> QED
        BY <2>1, <4>1, <4>2, Zenon
    <3>7. \A i, j \in 1..(m + 1) : h[k][i] = h[k][j] => i = j
      <4>1. \A i, j \in 1..m : h[k][i] = h[k][j] => i = j
        BY <2>2, <3>1, Zenon
      <4> QED
        BY <3>1, <3>2, <3>4, <4>1, Zenon
    <3>8. m + 1 <= k
      BY <2>1, <2>2
    <3> HIDE DEF Place, Here
    <3>9. P(k)
      BY <3>1, <3>5, <3>6, <3>7, <3>8, Zenon
    <3> QED
      BY <2>1, <3>9
  <2> QED
    BY <2>3, <2>4
<1>9. n \in T
  <2> HIDE DEF T
  <2>1. 0..n \subseteq T
    BY <1>1, <1>7, <1>8, Upward
  <2> QED
    BY <1>1, <2>1
<1> DEFINE kept == h[n]
<1>10. P(n) /\ n \in 0..n
  BY <1>9
<1>11. /\ Len(kept) \in Nat /\ DOMAIN kept = 1..Len(kept) /\ Len(kept) <= n
       /\ \A i, j \in 1..Len(kept) : kept[i] = kept[j] => i = j
  BY <1>5, <1>10, Zenon
<1>12. ToSet(kept) = S
  <2>1. \A i \in 1..Len(kept) : kept[i] \in S
    BY <1>10, Zenon
  <2>2. ASSUME NEW e \in S PROVE \E i \in 1..Len(kept) : kept[i] = e
    <3>1. PICK j \in 1..n : keys[j] = e
      BY <1>1, Zenon DEF ToSet
    <3> QED
      BY <1>10, <3>1, Zenon
  <2>3. ToSet(kept) = {kept[i] : i \in 1..Len(kept)}
    BY <1>11, Zenon DEF ToSet
  <2> HIDE DEF kept
  <2>4. {kept[i] : i \in 1..Len(kept)} = S
    BY <2>1, <2>2
  <2> QED
    BY <2>3, <2>4, Zenon
<1>13. ASSUME NEW i \in 1..n, \A j \in 1..i : keys[j] \in S
       PROVE  i \in 1..Len(kept) /\ kept[i] = keys[i]
  <2> DEFINE U == {k \in 0..n :
               IF k <= i THEN Len(h[k]) = k /\ \A j \in 1..k : h[k][j] = keys[j]
               ELSE i <= Len(h[k]) /\ h[k][i] = keys[i]}
  <2>1. 0 \in U
    <3>1. 0 \in 0..n /\ Len(h[0]) = 0 /\ 1..0 = {} /\ 0 <= i
      BY <1>1, <1>4
    <3> QED
      BY <3>1
  <2>2. ASSUME NEW k \in 1..n, k - 1 \in U PROVE k \in U
    <3> DEFINE s == h[k - 1]
               m == Len(s)
    <3>1. k \in 0..n /\ k - 1 \in 0..n /\ k \in Nat /\ i \in Nat /\ m \in Nat
            /\ Len(h[k]) \in Nat
      <4>1. k \in 0..n /\ k - 1 \in 0..n /\ k \in Nat /\ i \in Nat
        BY <1>1
      <4> QED
        BY <1>5, <4>1, Zenon
    <3>2. CASE k <= i
      <4>1. k - 1 <= i /\ k \in 1..i /\ (k - 1) + 1 = k
        BY <3>1, <3>2
      <4>2. m = k - 1 /\ \A j \in 1..(k - 1) : s[j] = keys[j]
        BY <2>2, <4>1, Zenon
      <4>3. keys[k] \in S
        BY <1>13, <4>1, Zenon
      <4>4. /\ Len(h[k]) = m + 1 /\ h[k][m + 1] = keys[k]
            /\ \A j \in 1..m : h[k][j] = s[j]
        BY <1>6, <4>3, Zenon
      <4>5. Len(h[k]) = k /\ h[k][k] = keys[k]
        BY <4>1, <4>2, <4>4, Zenon
      <4>6. \A j \in 1..k : j = k \/ j \in 1..(k - 1)
        BY <3>1
      <4>7. \A j \in 1..k : h[k][j] = keys[j]
        BY <4>2, <4>4, <4>5, <4>6, Zenon
      <4> QED
        BY <3>1, <3>2, <4>5, <4>7, Zenon
    <3>3. CASE k > i
      <4>1. i <= m /\ s[i] = keys[i]
        <5>1. CASE k - 1 <= i
          <6>1. k - 1 = i /\ i \in 1..i
            BY <3>1, <3>3, <5>1
          <6>2. m = i /\ \A j \in 1..i : s[j] = keys[j]
            BY <2>2, <5>1, <6>1, Zenon
          <6> QED
            BY <3>1, <6>1, <6>2
        <5>2. CASE ~(k - 1 <= i)
          BY <2>2, <5>2, Zenon
        <5> QED
          BY <5>1, <5>2
      <4>2. i \in 1..m
        BY <3>1, <4>1
      <4>3. h[k] = s \/ (Len(h[k]) = m + 1 /\ h[k][i] = s[i])
        BY <1>6, <4>2, Zenon
      <4>4. i <= Len(h[k]) /\ h[k][i] = keys[i]
        <5>1. CASE h[k] = s
          BY <4>1, <5>1, Zenon
        <5>2. CASE Len(h[k]) = m + 1 /\ h[k][i] = s[i]
          <6>1. i <= m + 1
            BY <3>1, <4>1
          <6> QED
            BY <4>1, <5>2, <6>1, Zenon
        <5> QED
          BY <4>3, <5>1, <5>2
      <4>5. ~(k <= i)
        BY <3>1, <3>3
      <4> QED
        BY <3>1, <4>4, <4>5, Zenon
    <3> QED
      BY <3>1, <3>2, <3>3
  <2> HIDE DEF U
  <2>3. n \in U
    <3>1. 0..n \subseteq U
      BY <1>1, <2>1, <2>2, Upward
    <3> QED
      BY <1>10, <3>1
  <2>4. i <= Len(kept) /\ kept[i] = keys[i]
    <3>1. CASE n <= i
      <4>1. n = i /\ i \in 1..n
        BY <1>1, <3>1
      <4>2. Len(kept) = n /\ \A j \in 1..n : kept[j] = keys[j]
        BY <2>3, <3>1, Zenon DEF U
      <4> QED
        BY <1>1, <4>1, <4>2
    <3>2. CASE ~(n <= i)
      BY <2>3, <3>2, Zenon DEF U
    <3> QED
      BY <3>1, <3>2
  <2> QED
    BY <1>1, <1>11, <2>4
<1>14. IsInjective(kept)
  BY <1>11, Zenon DEF IsInjective
<1> HIDE DEF kept
<1>15. Select(keys, S) = kept
  BY <1>4, Zenon DEF kept
<1> QED
  BY <1>1, <1>11, <1>12, <1>13, <1>14, <1>15, Zenon DEF n

\* When no key is asked for twice, the i-th entry's lifetime is that of the i-th key.
LEMMA TtlOfEach ==
  ASSUME NEW keys, keys \in Seq(ToSet(keys)), IsInjective(keys),
         NEW ret, DOMAIN ret \subseteq DOMAIN keys
  PROVE  /\ \A k : k \in DOMAIN TtlMap(keys, ret, LatestLedger) <=>
                \E i \in DOMAIN ret : ret[i].live # 0 /\ keys[i] = k
         /\ \A i \in DOMAIN ret : ret[i].live # 0 =>
              TtlMap(keys, ret, LatestLedger)[keys[i]] = ret[i].live - LatestLedger
<1> DEFINE timed == {i \in DOMAIN ret : ret[i].live # 0}
           ttl == TtlMap(keys, ret, LatestLedger)
           last(k) == CHOOSE i \in timed :
                        keys[i] = k /\ \A j \in timed : keys[j] = k => j <= i
<1>1. ttl = [k \in {keys[i] : i \in timed} |-> ret[last(k)].live - LatestLedger]
  BY Zenon DEF TtlMap
<1>2. ASSUME NEW i \in timed PROVE ttl[keys[i]] = ret[i].live - LatestLedger
  <2>1. \A j \in timed : keys[j] = keys[i] => j = i
    BY Zenon DEF IsInjective
  <2>2. i <= i
    <3>1. i \in DOMAIN keys
      BY Zenon
    <3>2. i \in Int
      BY <3>1
    <3> QED
      BY <3>2
  <2>3. last(keys[i]) \in timed /\ keys[last(keys[i])] = keys[i]
    <3>1. keys[i] = keys[i] /\ \A j \in timed : keys[j] = keys[i] => j <= i
      BY <2>1, <2>2, Zenon
    <3> HIDE DEF timed
    <3> QED
      BY <3>1, Zenon
  <2>4. last(keys[i]) = i
    BY <2>1, <2>3, Zenon
  <2> HIDE DEF timed, last, ttl
  <2>5. keys[i] \in {keys[j] : j \in timed}
    BY Zenon
  <2> QED
    BY <1>1, <2>4, <2>5, Zenon
<1>3. DOMAIN ttl = {keys[i] : i \in timed}
  <2> HIDE DEF timed, last, ttl
  <2> QED
    BY <1>1, Zenon
<1> QED
  BY <1>2, <1>3, Zenon

\* For a footprint that names no entry twice, lifetimes are right for the keys
\* before the first one that does not exist, and however they are attributed after
\* it, as many entries are warned about as expire within 100 ledgers
\* (services/simulator.ts:122-139, 155-163).
THEOREM TtlIsAlwaysAttributed == Spec => []TtlIsAttributed
<1>1. ASSUME ResultInv, NEW r \in Requests, footprint[r] # None, Found(r),
             IsInjective(Keys(footprint[r]))
      PROVE  LET keys == Keys(footprint[r])
                 right(e) == IF e.live = 0 THEN e \notin DOMAIN Ttl(r)
                             ELSE /\ e \in DOMAIN Ttl(r)
                                  /\ Ttl(r)[e] = e.live - LatestLedger
                 expiring == {e \in existing[r][2] :
                                e.live # 0 /\ e.live - LatestLedger < 100}
             IN  /\ \A i \in DOMAIN keys :
                      (\A j \in 1..i : keys[j] \in existing[r][2]) => right(keys[i])
                 /\ Cardinality(buildTtlWarnings(Ttl(r))) = Cardinality(expiring)
  <2> DEFINE keys == Keys(footprint[r])
             S == existing[r][2]
             ret == Select(keys, S)
             ttl == TtlMap(keys, ret, LatestLedger)
             timed == {i \in DOMAIN ret : ret[i].live # 0}
             warned == {i \in timed : ret[i].live - LatestLedger < 100}
             expiring == {e \in S : e.live # 0 /\ e.live - LatestLedger < 100}
  <2>1. Ttl(r) = ttl
    BY Zenon DEF Ttl, Returned
  <2>2. keys \in Seq(ToSet(keys)) /\ IsInjective(keys)
    <3>1. footprint[r] \in Footprints
      BY <1>1, Zenon DEF ResultInv, Typed
    <3> QED
      BY <1>1, <3>1, KeysAreEntries, Zenon
  <2>3. S \in SUBSET ToSet(keys)
    BY <1>1, Zenon DEF ResultInv, FoundAreKeys
  <2> HIDE DEF keys, S
  <2>4. /\ Len(ret) \in Nat /\ DOMAIN ret = 1..Len(ret) /\ Len(ret) <= Len(keys)
        /\ ToSet(ret) = S /\ IsInjective(ret)
        /\ \A i \in DOMAIN keys :
             (\A j \in 1..i : keys[j] \in S) => i \in DOMAIN ret /\ ret[i] = keys[i]
    BY <2>2, <2>3, SelectIs, Zenon
  <2> HIDE DEF ret
  <2>5. DOMAIN ret \subseteq DOMAIN keys /\ IsFiniteSet(DOMAIN ret)
    <3>1. DOMAIN keys = 1..Len(keys) /\ Len(keys) \in Nat
      BY <2>2
    <3>2. 1..Len(ret) \subseteq 1..Len(keys)
      BY <2>4, <3>1
    <3>3. IsFiniteSet(1..Len(ret))
      <4>1. 1 \in Int /\ Len(ret) \in Int
        BY <2>4
      <4> QED
        BY <4>1, FS_Interval, Zenon
    <3> QED
      BY <2>4, <3>1, <3>2, <3>3, Zenon
  <2>6. /\ DOMAIN ttl = {keys[i] : i \in timed}
        /\ \A i \in timed : ttl[keys[i]] = ret[i].live - LatestLedger
    <3>1. /\ \A k : k \in DOMAIN ttl <=>
                \E i \in DOMAIN ret : ret[i].live # 0 /\ keys[i] = k
          /\ \A i \in DOMAIN ret : ret[i].live # 0 =>
               ttl[keys[i]] = ret[i].live - LatestLedger
      BY <2>2, <2>5, TtlOfEach
    <3> HIDE DEF ttl
    <3> QED
      BY <3>1
  <2>7. \A i, j \in DOMAIN keys : keys[i] = keys[j] => i = j
    BY <2>2, Zenon DEF IsInjective
  <2> HIDE DEF ttl
  <2>8. ASSUME NEW i \in DOMAIN keys, \A j \in 1..i : keys[j] \in S
        PROVE  LET e == keys[i]
               IN  IF e.live = 0 THEN e \notin DOMAIN ttl
                   ELSE e \in DOMAIN ttl /\ ttl[e] = e.live - LatestLedger
    <3> DEFINE e == keys[i]
    <3>1. i \in DOMAIN ret /\ ret[i] = e
      BY <2>4, <2>8, Zenon
    <3>2. CASE e.live = 0
      <4> SUFFICES ASSUME e \in DOMAIN ttl PROVE FALSE
        BY <3>2, Zenon
      <4>1. PICK m \in timed : e = keys[m]
        BY <2>6, Zenon
      <4>2. m = i
        BY <2>5, <2>7, <4>1, Zenon
      <4> QED
        BY <3>1, <3>2, <4>2, Zenon
    <3>3. CASE e.live # 0
      <4>1. i \in timed
        BY <3>1, <3>3, Zenon
      <4>2. e \in DOMAIN ttl
        BY <2>6, <4>1, Zenon
      <4> QED
        BY <2>6, <3>1, <3>3, <4>1, <4>2, Zenon
    <3> QED
      BY <3>2, <3>3
  <2>9. Cardinality(buildTtlWarnings(ttl)) = Cardinality(expiring)
    <3>1. /\ IsFiniteSet(warned)
          /\ warned \subseteq DOMAIN ret /\ warned \subseteq DOMAIN keys
      <4>1. warned \subseteq DOMAIN ret
        BY Zenon
      <4> QED
        BY <2>5, <4>1, FS_Subset, Zenon
    <3>2. buildTtlWarnings(ttl) = {keys[i] : i \in warned}
      <4>1. buildTtlWarnings(ttl) = {k \in DOMAIN ttl : ttl[k] < 100}
        BY Zenon DEF buildTtlWarnings
      <4>2. \A i \in warned : keys[i] \in DOMAIN ttl /\ ttl[keys[i]] < 100
        BY <2>6, Zenon
      <4>3. ASSUME NEW k \in DOMAIN ttl, ttl[k] < 100
            PROVE  \E i \in warned : k = keys[i]
        <5>1. PICK i \in timed : k = keys[i]
          BY <2>6, Zenon
        <5>2. ttl[keys[i]] = ret[i].live - LatestLedger
          BY <2>6, Zenon
        <5>3. i \in warned
          BY <4>3, <5>1, <5>2, Zenon
        <5> QED
          BY <5>1, <5>3, Zenon
      <4> HIDE DEF warned, timed
      <4> QED
        BY <4>1, <4>2, <4>3
    <3>3. expiring = {ret[i] : i \in warned}
      <4>1. \A i \in DOMAIN ret : ret[i] \in S
        BY <2>4, Zenon DEF ToSet
      <4>2. ASSUME NEW e \in S PROVE \E i \in DOMAIN ret : e = ret[i]
        BY <2>4, Zenon DEF ToSet
      <4>3. \A i \in warned : ret[i] \in expiring
        BY <4>1, Zenon
      <4>4. \A e \in expiring : \E i \in warned : e = ret[i]
        BY <4>2, Zenon
      <4> HIDE DEF warned, expiring
      <4> QED
        BY <4>3, <4>4
    <3> HIDE DEF warned, expiring
    <3>4. Cardinality({keys[i] : i \in warned}) = Cardinality(warned)
      BY <2>2, <3>1, ImageSize, Zenon
    <3>5. Cardinality({ret[i] : i \in warned}) = Cardinality(warned)
      BY <2>4, <3>1, ImageSize, Zenon
    <3> QED
      BY <3>2, <3>3, <3>4, <3>5, Zenon
  <2> HIDE DEF timed, warned
  <2> QED
    BY <2>1, <2>8, <2>9, Zenon DEF keys, S
<1>2. ResultInv => TtlIsAttributed
  BY <1>1, Zenon DEF TtlIsAttributed
<1> QED
  BY <1>2, ResultInvariant, PTL
=============================================================================
