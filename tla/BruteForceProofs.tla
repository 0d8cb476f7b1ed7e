--------------------------- MODULE BruteForceProofs -------------------------
(***************************************************************************)
(* For every number of failures, every window, block time and thresholds:  *)
(* the failure counter holds no client for failures it did not make, is    *)
(* exact as long as calls do not overlap, and loses none but those that do.*)
(***************************************************************************)
EXTENDS BruteForce, FiniteSetTheorems, TLAPS

-----------------------------------------------------------------------------
(* The inductive invariant *)

\* A call writes once, at the end, and a record is known to others (stored,
\* read, written) only after the call that names it has created it.
NamesAreOwned ==
  /\ \A c \in Calls : phase[c] \in {"new", "sent", "read"} => wrote[c] = None
  /\ \A c, o \in Calls :
       wrote[c] = o \/ read[c] = o \/ store = o => wrote[o] = o

\* Nothing is dated later than now.
DatesArePast ==
  \A c \in Calls : start[c] <= now /\ heap[c].windowStart <= now

\* Every record, stored or not, counts no more than the recorded failures of
\* its window, and blocks only at the threshold.
RecordsAreSound ==
  \A o \in Calls :
    /\ heap[o].count <= Cardinality(FailuresOf(heap[o]))
    /\ heap[o].blockedUntil # 0 => heap[o].count >= BlockThreshold

\* While no call has overlapped another, at most one is in progress, what it
\* has read is what is stored, and the stored window began before it.
OneAtATime ==
  disturbed = {} => \A c \in InProgress :
    /\ \A d \in InProgress : c = d
    /\ phase[c] = "read" => read[c] = store
    /\ store # None => heap[store].windowStart <= start[c]

\* Until then every recorded failure is older than the stored window, or in it.
RecordedUpToTheWindow ==
  disturbed = {} =>
    /\ store = None => Recorded = {}
    /\ store # None =>
         \A c \in Recorded : start[c] <= heap[store].windowStart + Window

\* Calls in progress together are known to have overlapped.
OverlapIsKnown ==
  \A c, d \in InProgress : c # d => c \in disturbed

\* A call that overlapped no other was over when one that is in progress began.
SureCameFirst ==
  \A c \in InProgress, x \in Sure : start[x] <= start[c]

\* The record named o reaches back far enough to count the failures that nothing
\* overlapped, and counts them.
Complete(o) ==
  /\ \A x \in Sure : start[x] <= heap[o].windowStart + Window
  /\ heap[o].count >= Cardinality({x \in Sure : start[x] >= heap[o].windowStart})

\* This holds of the record in the store and of all those that calls in progress
\* have read and may yet bring back.
StoreIsComplete == IF store = None THEN Sure = {} ELSE Complete(store)

ReadIsComplete ==
  \A c \in Calls : phase[c] = "read" =>
    IF read[c] = None THEN Sure = {} ELSE Complete(read[c])

IInv ==
  /\ TypeOK
  /\ NamesAreOwned
  /\ DatesArePast
  /\ RecordsAreSound
  /\ OneAtATime
  /\ RecordedUpToTheWindow
  /\ SequentialCountIsExact
  /\ OverlapIsKnown
  /\ SureCameFirst
  /\ ReadIsComplete
  /\ StoreIsComplete

-----------------------------------------------------------------------------
(* Sets of calls *)

\* A set of calls is finite and no larger than all of them.
LEMMA CallsAreFew ==
  ASSUME NEW S \in SUBSET Calls
  PROVE  /\ IsFiniteSet(S)
         /\ Cardinality(S) \in Nat
         /\ Cardinality(S) <= Cardinality(Calls)
         /\ Cardinality(Calls) \in Nat
BY BruteForceAssumption, FS_Subset, FS_CardinalityType

\* One more call is one more to count.
LEMMA OneMoreCall ==
  ASSUME NEW S \in SUBSET Calls, NEW c \in Calls, c \notin S
  PROVE  Cardinality(S \cup {c}) = Cardinality(S) + 1
BY CallsAreFew, FS_AddElement

LEMMA MoreCalls ==
  ASSUME NEW T \in SUBSET Calls, NEW S \in SUBSET T
  PROVE  Cardinality(S) <= Cardinality(T)
BY CallsAreFew, FS_Subset

-----------------------------------------------------------------------------
(* The steps *)

\* The steps that write no record.
Waits(c) == Begin(c) \/ ServeGet(c) \/ LoseGet(c) \/ LoseSet(c)

Outside == RedisFails \/ RedisReturns \/ FlushCache \/ Tick

\* They leave every record as it is, and the failures it is about.
LEMMA NothingWritten ==
  ASSUME TypeOK, NamesAreOwned, Outside \/ \E c \in Calls : Waits(c)
  PROVE  /\ UNCHANGED <<heap, wrote, backend>>
         /\ now <= now' /\ now' \in 0..MaxNow
         /\ Recorded' = Recorded
         /\ \A c \in Recorded : start'[c] = start[c]
         /\ \A c \in Calls : start'[c] = start[c] \/ start'[c] = now'
<1> USE BruteForceAssumption
<1>1. UNCHANGED <<heap, wrote, backend>>
  BY DEF Outside, RedisFails, RedisReturns, FlushCache, Tick,
         Waits, Begin, ServeGet, LoseGet, LoseSet
<1>2. now <= now' /\ now' \in 0..MaxNow
  BY DEF TypeOK, Outside, RedisFails, RedisReturns, FlushCache, Tick,
         Waits, Begin, ServeGet, LoseGet, LoseSet
<1>3. Recorded' = Recorded
  BY <1>1 DEF Recorded
<1>4. CASE start' = start
  BY <1>1, <1>2, <1>3, <1>4
<1>5. ASSUME NEW d \in Calls, Begin(d)
      PROVE  /\ \A c \in Recorded : start'[c] = start[c]
             /\ \A c \in Calls : start'[c] = start[c] \/ start'[c] = now'
  BY <1>5 DEF Begin, NamesAreOwned, Recorded, TypeOK
<1>6. start' = start \/ \E d \in Calls : Begin(d)
  BY DEF Outside, RedisFails, RedisReturns, FlushCache, Tick,
         Waits, ServeGet, LoseGet, LoseSet
<1>7. QED
  BY <1>1, <1>2, <1>3, <1>4, <1>5, <1>6

\* What Write does, in the terms of the invariant.
LEMMA Written ==
  ASSUME TypeOK, NamesAreOwned, NEW c \in Calls, Write(c)
  PROVE  /\ Target(c) \in Calls /\ store' = Target(c)
         /\ UNCHANGED <<now, start, read, backend, disturbed>>
         /\ c \notin Recorded /\ Recorded' = Recorded \cup {c}
         /\ wrote' = [wrote EXCEPT ![c] = Target(c)]
         /\ NeedsNewWindow(c) =>
              /\ Target(c) = c
              /\ heap' = [heap EXCEPT ![c] = [count |-> 1, windowStart |-> start[c],
                                              blockedUntil |-> 0]]
         /\ ~NeedsNewWindow(c) =>
              /\ read[c] \in Calls /\ start[c] - heap[read[c]].windowStart <= Window
              /\ Target(c) = IF backend = "redis" THEN c ELSE read[c]
              /\ heap' = [heap EXCEPT ![Target(c)] = Counted(heap[read[c]], start[c])]
<1>1. Target(c) \in Calls
  BY DEF TypeOK, Target, NeedsNewWindow
<1>2. c \notin Recorded /\ wrote' = [wrote EXCEPT ![c] = Target(c)]
  BY DEF Write, NamesAreOwned, Recorded
<1>3. Recorded' = Recorded \cup {c}
  BY <1>1, <1>2, BruteForceAssumption DEF Recorded, TypeOK
<1>4. ~NeedsNewWindow(c) =>
        read[c] \in Calls /\ start[c] - heap[read[c]].windowStart <= Window
  BY BruteForceAssumption DEF TypeOK, NeedsNewWindow, Records
<1>5. QED
  BY <1>1, <1>2, <1>3, <1>4 DEF Write, Target

\* The record that Counted makes of another one.
LEMMA CountedRecord ==
  ASSUME NEW record \in Records, NEW t \in 0..MaxNow,
         record.count + 1 <= Cardinality(Calls)
  PROVE  /\ Counted(record, t) \in Records
         /\ Counted(record, t).count = record.count + 1
         /\ Counted(record, t).windowStart = record.windowStart
         /\ Counted(record, t).blockedUntil # 0 =>
              \/ record.blockedUntil # 0
              \/ record.count + 1 >= BlockThreshold
<1> DEFINE n == record.count + 1
           until == IF record.count + 1 >= BlockThreshold
                      THEN t + BlockTime ELSE record.blockedUntil
<1>1. Cardinality(Calls) \in Nat /\ BlockTime \in Nat /\ MaxNow \in Nat
  BY CallsAreFew, BruteForceAssumption
<1>2. n \in 0..Cardinality(Calls) /\ until \in 0..(MaxNow + BlockTime)
  BY <1>1 DEF Records
<1>3. Counted(record, t) = [record EXCEPT !.count = n, !.blockedUntil = until]
  BY DEF Counted
<1>4. until # 0 => record.blockedUntil # 0 \/ record.count + 1 >= BlockThreshold
  OBVIOUS
<1>5. n = record.count + 1
  OBVIOUS
<1> HIDE DEF n, until
<1>6. /\ Counted(record, t) \in Records
      /\ Counted(record, t).count = n /\ Counted(record, t).blockedUntil = until
      /\ Counted(record, t).windowStart = record.windowStart
  BY <1>2, <1>3 DEF Records
<1>7. QED
  BY <1>4, <1>5, <1>6

\* A call that adds to a record finds its failure not counted yet, so there is
\* room in the counter.
LEMMA RoomToCount ==
  ASSUME TypeOK, NamesAreOwned, RecordsAreSound, NEW c \in Calls, Write(c),
         ~NeedsNewWindow(c)
  PROVE  /\ heap[read[c]].count + 1 <= Cardinality(FailuresOf(heap[read[c]]) \cup {c})
         /\ heap[read[c]].count + 1 <= Cardinality(Calls)
<1>1. read[c] \in Calls /\ c \notin Recorded
  BY Written
<1> DEFINE F == FailuresOf(heap[read[c]])
<1>2. F \in SUBSET Calls /\ c \notin F
  BY <1>1 DEF FailuresOf, Recorded
<1>3. heap[read[c]].count <= Cardinality(F) /\ heap[read[c]].count \in Nat
  BY <1>1 DEF RecordsAreSound, TypeOK, Records
<1> HIDE DEF F
<1>4. Cardinality(F \cup {c}) = Cardinality(F) + 1 /\ Cardinality(F) \in Nat
  BY <1>2, OneMoreCall, CallsAreFew
<1>5. Cardinality(F \cup {c}) <= Cardinality(Calls)
  BY <1>2, CallsAreFew
<1>6. Cardinality(Calls) \in Nat
  BY CallsAreFew
<1>7. QED
  BY <1>3, <1>4, <1>5, <1>6 DEF F

LEMMA Steps == Next => \/ Outside
                       \/ \E c \in Calls : Waits(c)
                       \/ \E c \in Calls : Write(c)
BY DEF Next, Outside, Waits

\* The types, which need the bound of the counters.
LEMMA TypesKept ==
  ASSUME TypeOK, NamesAreOwned, RecordsAreSound, Next
  PROVE  TypeOK'
<1> USE BruteForceAssumption
<1>1. ASSUME NEW c \in Calls, Begin(c)
      PROVE  TypeOK'
  <2>1. disturbed' \subseteq Calls
    BY <1>1 DEF Begin, TypeOK, InProgress
  <2>2. QED
    BY <1>1, <2>1 DEF Begin, TypeOK, Phases
<1>2. ASSUME NEW c \in Calls, ServeGet(c) \/ LoseGet(c) \/ LoseSet(c)
      PROVE  TypeOK'
  BY <1>2 DEF ServeGet, LoseGet, LoseSet, TypeOK, Phases
<1>3. ASSUME NEW c \in Calls, Write(c)
      PROVE  TypeOK'
  <2>1. /\ Target(c) \in Calls /\ store' = Target(c)
        /\ UNCHANGED <<now, start, read, backend, disturbed>>
        /\ wrote' = [wrote EXCEPT ![c] = Target(c)]
    BY <1>3, Written
  <2>2. redis' = redis /\ phase' \in [Calls -> Phases]
    BY <1>3 DEF Write, TypeOK, Phases
  <2>3. heap' \in [Calls -> Records]
    <3>1. CASE NeedsNewWindow(c)
      <4> DEFINE first == [count |-> 1, windowStart |-> start[c], blockedUntil |-> 0]
      <4>1. heap' = [heap EXCEPT ![c] = first]
        BY <1>3, <3>1, Written
      <4>2. 1 <= Cardinality(Calls)
        <5>1. Cardinality({c}) = 1
          BY FS_Singleton
        <5>2. QED
          BY <5>1, CallsAreFew
      <4>3. first \in Records
        BY <4>2, CallsAreFew DEF TypeOK, Records
      <4> HIDE DEF first
      <4>4. QED
        BY <4>1, <4>3 DEF TypeOK
    <3>2. CASE ~NeedsNewWindow(c)
      <4> DEFINE next == Counted(heap[read[c]], start[c])
      <4>1. heap' = [heap EXCEPT ![Target(c)] = next] /\ read[c] \in Calls
        BY <1>3, <3>2, Written
      <4>2. heap[read[c]].count + 1 <= Cardinality(Calls)
        BY <1>3, <3>2, RoomToCount
      <4>3. next \in Records
        BY <4>1, <4>2, CountedRecord DEF TypeOK
      <4> HIDE DEF next
      <4>4. QED
        BY <4>1, <4>3 DEF TypeOK
    <3>3. QED
      BY <3>1, <3>2
  <2>4. QED
    BY <2>1, <2>2, <2>3 DEF TypeOK
<1>4. CASE Outside
  <2>1. now' \in 0..MaxNow
    BY <1>4 DEF Outside, RedisFails, RedisReturns, FlushCache, Tick, TypeOK
  <2>2. disturbed' \subseteq Calls
    BY <1>4 DEF Outside, RedisFails, RedisReturns, FlushCache, Tick, TypeOK
  <2>3. /\ redis' \in {"up", "down"} /\ store' \in Calls \cup {None}
        /\ UNCHANGED <<phase, start, read, heap, backend, wrote>>
    BY <1>4 DEF Outside, RedisFails, RedisReturns, FlushCache, Tick, TypeOK
  <2>4. QED
    BY <2>1, <2>2, <2>3 DEF TypeOK
<1>5. QED
  BY <1>1, <1>2, <1>3, <1>4, Steps DEF Waits

LEMMA NamesKept ==
  ASSUME TypeOK, NamesAreOwned, Next
  PROVE  NamesAreOwned'
<1> USE BruteForceAssumption
<1>1. ASSUME NEW c \in Calls, Waits(c)
      PROVE  NamesAreOwned'
  BY <1>1 DEF Waits, Begin, ServeGet, LoseGet, LoseSet, NamesAreOwned, TypeOK
<1>2. ASSUME NEW c \in Calls, Write(c)
      PROVE  NamesAreOwned'
  <2>1. /\ Target(c) \in {c, read[c]} /\ Target(c) \in Calls
        /\ store' = Target(c) /\ read' = read
        /\ wrote' = [wrote EXCEPT ![c] = Target(c)]
    BY <1>2, Written DEF Target
  <2>2. /\ phase[c] = "read"
        /\ \A d \in Calls : d # c => phase'[d] = phase[d]
        /\ phase'[c] \in {"done", "failed"}
    BY <1>2 DEF Write, TypeOK
  <2>3. wrote[c] = None
    BY <2>2 DEF NamesAreOwned
  <2>4. QED
    BY <2>1, <2>2, <2>3 DEF NamesAreOwned, TypeOK
<1>3. CASE Outside
  BY <1>3 DEF Outside, RedisFails, RedisReturns, FlushCache, Tick, NamesAreOwned,
              TypeOK
<1>4. QED
  BY <1>1, <1>2, <1>3, Steps

LEMMA DatesKept ==
  ASSUME TypeOK, NamesAreOwned, DatesArePast, Next
  PROVE  DatesArePast'
<1>1. CASE Outside \/ \E c \in Calls : Waits(c)
  BY <1>1, NothingWritten DEF DatesArePast, TypeOK, Records
<1>2. ASSUME NEW c \in Calls, Write(c)
      PROVE  DatesArePast'
  <2>1. UNCHANGED <<now, start>> /\ Target(c) \in Calls
    BY <1>2, Written
  <2>2. CASE NeedsNewWindow(c)
    BY <1>2, <2>1, <2>2, Written DEF DatesArePast, TypeOK
  <2>3. CASE ~NeedsNewWindow(c)
    <3> DEFINE next == Counted(heap[read[c]], start[c])
    <3>1. heap' = [heap EXCEPT ![Target(c)] = next] /\ read[c] \in Calls
      BY <1>2, <2>3, Written
    <3>2. next.windowStart = heap[read[c]].windowStart
      BY <3>1 DEF Counted, TypeOK, Records
    <3> HIDE DEF next
    <3>3. QED
      BY <2>1, <3>1, <3>2 DEF DatesArePast, TypeOK
  <2>4. QED
    BY <2>2, <2>3
<1>3. QED
  BY <1>1, <1>2, Steps

\* A record counts one more only when a failure of its window is recorded, and
\* a failure of the window of a record stays one.
LEMMA SoundKept ==
  ASSUME TypeOK, NamesAreOwned, RecordsAreSound, Next
  PROVE  RecordsAreSound'
<1> USE BruteForceAssumption
<1>1. CASE Outside \/ \E c \in Calls : Waits(c)
  <2>1. heap' = heap
    BY <1>1, NothingWritten
  <2>2. ASSUME NEW o \in Calls
        PROVE  FailuresOf(heap[o])' = FailuresOf(heap[o])
    BY <1>1, <2>1, NothingWritten DEF FailuresOf
  <2>3. QED
    BY <2>1, <2>2 DEF RecordsAreSound
<1>2. ASSUME NEW c \in Calls, Write(c)
      PROVE  RecordsAreSound'
  <2>1. /\ Target(c) \in Calls /\ start' = start
        /\ c \notin Recorded /\ Recorded' = Recorded \cup {c}
        /\ \A o \in Calls : o # Target(c) => heap'[o] = heap[o]
    BY <1>2, Written DEF TypeOK
  <2>2. ASSUME NEW o \in Calls, o # Target(c)
        PROVE  /\ heap'[o].count <= Cardinality(FailuresOf(heap[o])')
               /\ heap'[o].blockedUntil # 0 => heap'[o].count >= BlockThreshold
    <3>1. FailuresOf(heap[o]) \subseteq FailuresOf(heap[o])'
      BY <2>1, <2>2 DEF FailuresOf
    <3>2. FailuresOf(heap[o])' \in SUBSET Calls /\ FailuresOf(heap[o]) \in SUBSET Calls
      BY <2>1 DEF FailuresOf, Recorded
    <3>3. Cardinality(FailuresOf(heap[o])) <= Cardinality(FailuresOf(heap[o])')
      BY <3>1, <3>2, MoreCalls
    <3>4. /\ Cardinality(FailuresOf(heap[o])) \in Nat
          /\ Cardinality(FailuresOf(heap[o])') \in Nat
      BY <3>2, CallsAreFew
    <3>5. heap[o].count \in Nat /\ heap'[o] = heap[o]
      BY <2>1, <2>2 DEF TypeOK, Records
    <3>6. QED
      BY <3>3, <3>4, <3>5 DEF RecordsAreSound
  <2>3. ASSUME NEW o \in Calls, o = Target(c), NeedsNewWindow(c)
        PROVE  /\ heap'[o].count <= Cardinality(FailuresOf(heap[o])')
               /\ heap'[o].blockedUntil # 0 => heap'[o].count >= BlockThreshold
    <3> DEFINE F == FailuresOf(heap[o])'
    <3>1. o = c /\ heap'[o] = [count |-> 1, windowStart |-> start[c], blockedUntil |-> 0]
      BY <1>2, <2>3, Written DEF TypeOK
    <3>2. F \in SUBSET Calls /\ {c} \subseteq F
      BY <2>1, <3>1 DEF FailuresOf, TypeOK, Recorded
    <3>3. Cardinality({c}) = 1
      BY FS_Singleton
    <3>4. 1 <= Cardinality(F)
      BY <3>2, <3>3, MoreCalls
    <3>5. QED
      BY <3>1, <3>4
  <2>4. ASSUME NEW o \in Calls, o = Target(c), ~NeedsNewWindow(c)
        PROVE  /\ heap'[o].count <= Cardinality(FailuresOf(heap[o])')
               /\ heap'[o].blockedUntil # 0 => heap'[o].count >= BlockThreshold
    <3> DEFINE F == FailuresOf(heap[o])'
               old == heap[read[c]]
               G == FailuresOf(old)
               next == Counted(old, start[c])
    <3>1. /\ read[c] \in Calls /\ start[c] - old.windowStart <= Window
          /\ heap' = [heap EXCEPT ![o] = next]
      BY <1>2, <2>4, Written
    <3>2. /\ old.count + 1 <= Cardinality(G \cup {c})
          /\ old.count + 1 <= Cardinality(Calls)
      BY <1>2, <2>4, RoomToCount
    <3>3. /\ next.count = old.count + 1 /\ next.windowStart = old.windowStart
          /\ next.blockedUntil # 0 =>
               old.blockedUntil # 0 \/ old.count + 1 >= BlockThreshold
      BY <3>1, <3>2, CountedRecord DEF TypeOK
    <3>4. /\ old.count \in Nat
          /\ old.blockedUntil # 0 => old.count >= BlockThreshold
      BY <3>1 DEF RecordsAreSound, TypeOK, Records
    <3> HIDE DEF next
    <3>5. heap'[o] = next
      BY <2>4, <3>1 DEF TypeOK
    <3>6. G \cup {c} \subseteq F
      BY <2>1, <3>1, <3>3, <3>5 DEF FailuresOf, TypeOK
    <3>7. F \in SUBSET Calls
      BY <2>1 DEF FailuresOf, Recorded
    <3> HIDE DEF old, G, F
    <3>8. /\ Cardinality(G \cup {c}) <= Cardinality(F)
          /\ Cardinality(G \cup {c}) \in Nat /\ Cardinality(F) \in Nat
      BY <3>6, <3>7, MoreCalls, CallsAreFew
    <3>9. heap'[o].count <= Cardinality(F)
      BY <3>2, <3>3, <3>4, <3>5, <3>8
    <3>10. heap'[o].blockedUntil # 0 => heap'[o].count >= BlockThreshold
      BY <3>3, <3>4, <3>5
    <3>11. QED
      BY <3>9, <3>10 DEF F
  <2>5. QED
    BY <2>1, <2>2, <2>3, <2>4 DEF RecordsAreSound
<1>3. QED
  BY <1>1, <1>2, Steps

-----------------------------------------------------------------------------
(* Calls that do not overlap *)

\* Whoever begins while another is in progress disturbs it, and so does a
\* flush of what has been recorded; a disturbance is for ever.
LEMMA DisturbanceStays ==
  ASSUME TypeOK, Next
  PROVE  /\ disturbed \subseteq disturbed'
         /\ \A c \in Calls : Begin(c) /\ disturbed' = {} => InProgress = {}
         /\ FlushCache /\ disturbed' = {} => \A c \in Calls : phase[c] = "new"
<1>1. \A c \in Calls : Begin(c) =>
        disturbed \subseteq disturbed' /\ (disturbed' = {} => InProgress = {})
  BY DEF Begin
<1>2. FlushCache => /\ disturbed \subseteq disturbed'
                    /\ disturbed' = {} => \A c \in Calls : phase[c] = "new"
  BY DEF FlushCache
<1>3. ASSUME NEW c \in Calls, ServeGet(c) \/ LoseGet(c) \/ Write(c) \/ LoseSet(c)
      PROVE  disturbed' = disturbed
  BY <1>3 DEF ServeGet, LoseGet, Write, LoseSet
<1>4. ASSUME RedisFails \/ RedisReturns \/ Tick
      PROVE  disturbed' = disturbed
  BY <1>4 DEF RedisFails, RedisReturns, Tick
<1>5. QED
  BY <1>1, <1>2, <1>3, <1>4 DEF Next

LEMMA OneAtATimeKept ==
  ASSUME TypeOK, DatesArePast, OneAtATime, Next
  PROVE  OneAtATime'
<1> SUFFICES ASSUME disturbed' = {}, NEW c \in InProgress'
             PROVE  /\ \A d \in InProgress' : c = d
                    /\ phase'[c] = "read" => read'[c] = store'
                    /\ store' # None => heap'[store'].windowStart <= start'[c]
  BY DEF OneAtATime
<1> USE BruteForceAssumption
<1>0. /\ disturbed = {} /\ \A d \in Calls : Begin(d) => InProgress = {}
      /\ ~FlushCache
  <2>1. /\ disturbed = {} /\ \A d \in Calls : Begin(d) => InProgress = {}
        /\ FlushCache => \A d \in Calls : phase[d] = "new"
    BY DisturbanceStays
  <2>2. FlushCache => phase' = phase
    BY DEF FlushCache
  <2>3. QED
    BY <2>1, <2>2 DEF InProgress
<1>1. ASSUME NEW d \in Calls, Begin(d)
      PROVE  /\ InProgress' \subseteq {d}
             /\ phase'[d] = "read" => read'[d] = store
             /\ start'[d] = now /\ UNCHANGED <<store, heap>>
  BY <1>0, <1>1 DEF Begin, InProgress, TypeOK
<1>2. CASE \E d \in Calls : Begin(d)
  BY <1>1, <1>2 DEF DatesArePast, TypeOK
<1>3. ASSUME NEW d \in Calls, ServeGet(d)
      PROVE  /\ InProgress' \subseteq InProgress /\ d \in InProgress
             /\ read'[d] = store
             /\ UNCHANGED <<store, heap, start>>
  BY <1>3 DEF ServeGet, InProgress, TypeOK
<1>4. CASE \E d \in Calls : ServeGet(d)
  BY <1>0, <1>3, <1>4 DEF OneAtATime
<1>5. ASSUME NEW d \in Calls, Write(d)
      PROVE  InProgress' \subseteq InProgress \ {d} /\ d \in InProgress
  BY <1>5 DEF Write, InProgress, TypeOK
<1>6. ASSUME NEW d \in Calls, Write(d)
      PROVE  FALSE
  BY <1>0, <1>5, <1>6 DEF OneAtATime
<1>7. CASE \E d \in Calls : LoseGet(d) \/ LoseSet(d)
  <2>1. /\ InProgress' \subseteq InProgress
        /\ \A d \in InProgress' : phase'[d] = phase[d]
        /\ UNCHANGED <<read, store, heap, start>>
    BY <1>7 DEF LoseGet, LoseSet, InProgress, TypeOK
  <2>2. QED
    BY <1>0, <2>1 DEF OneAtATime
<1>8. CASE RedisFails \/ RedisReturns \/ Tick
  <2>1. UNCHANGED <<phase, read, store, heap, start>>
    BY <1>8 DEF RedisFails, RedisReturns, Tick
  <2>2. QED
    BY <1>0, <2>1 DEF OneAtATime, InProgress
<1>9. QED
  BY <1>0, <1>2, <1>4, <1>6, <1>7, <1>8 DEF Next

\* A call that writes undisturbed has read what is stored.
LEMMA UndisturbedWrite ==
  ASSUME TypeOK, OneAtATime, disturbed = {}, NEW c \in Calls, Write(c)
  PROVE  /\ read[c] = store
         /\ store # None => heap[store].windowStart <= start[c]
BY DEF OneAtATime, InProgress, Write

\* Undisturbed, nothing but a write changes what is stored: a flush that disturbs
\* no call finds nothing.
LEMMA UndisturbedStore ==
  ASSUME TypeOK, NamesAreOwned, Next, disturbed' = {},
         Outside \/ \E c \in Calls : Waits(c)
  PROVE  store' = store /\ disturbed = {}
<1>1. disturbed = {} /\ (FlushCache => \A c \in Calls : phase[c] = "new")
  BY DisturbanceStays
<1>2. (\A c \in Calls : phase[c] = "new") => store = None
  BY BruteForceAssumption DEF NamesAreOwned, TypeOK
<1>3. FlushCache => store' = None
  BY DEF FlushCache
<1>4. FlushCache \/ store' = store
  BY DEF Outside, RedisFails, RedisReturns, Tick, Waits, Begin, ServeGet, LoseGet,
         LoseSet
<1>5. QED
  BY <1>1, <1>2, <1>3, <1>4

LEMMA WindowKept ==
  ASSUME TypeOK, NamesAreOwned, OneAtATime, RecordedUpToTheWindow, Next
  PROVE  RecordedUpToTheWindow'
<1> SUFFICES ASSUME disturbed' = {}
             PROVE  RecordedUpToTheWindow'
  BY DEF RecordedUpToTheWindow
<1> USE BruteForceAssumption
<1>1. CASE Outside \/ \E c \in Calls : Waits(c)
  BY <1>1, NothingWritten, UndisturbedStore DEF RecordedUpToTheWindow
<1>2. ASSUME NEW c \in Calls, Write(c)
      PROVE  RecordedUpToTheWindow'
  <2>1. disturbed = {}
    BY DisturbanceStays
  <2>2. read[c] = store /\ (store # None => heap[store].windowStart <= start[c])
    BY <1>2, <2>1, UndisturbedWrite
  <2>3. /\ Target(c) \in Calls /\ store' = Target(c) /\ start' = start
        /\ Recorded' = Recorded \cup {c} /\ Recorded \subseteq Calls
    BY <1>2, Written DEF Recorded
  <2>4. \A x \in Recorded :
          store # None /\ start[x] <= heap[store].windowStart + Window
    BY <2>1 DEF RecordedUpToTheWindow
  <2>5. ASSUME NeedsNewWindow(c)
        PROVE  RecordedUpToTheWindow'
    <3>1. heap'[store'].windowStart = start[c]
      BY <1>2, <2>3, <2>5, Written DEF TypeOK
    <3>2. \A x \in Recorded' : start[x] <= start[c] + Window
      BY <2>2, <2>3, <2>4 DEF TypeOK, Records
    <3>3. QED
      BY <2>3, <3>1, <3>2 DEF RecordedUpToTheWindow
  <2>6. ASSUME ~NeedsNewWindow(c)
        PROVE  RecordedUpToTheWindow'
    <3> DEFINE old == heap[store]
               next == Counted(old, start[c])
    <3>1. /\ store \in Calls /\ start[c] - old.windowStart <= Window
          /\ heap' = [heap EXCEPT ![Target(c)] = next]
      BY <1>2, <2>2, <2>6, Written
    <3>2. next.windowStart = old.windowStart /\ old.windowStart \in Nat
      BY <3>1 DEF Counted, TypeOK, Records
    <3> HIDE DEF next
    <3>3. heap'[store'].windowStart = old.windowStart
      BY <2>3, <3>1, <3>2 DEF TypeOK
    <3>4. \A x \in Recorded' : start[x] <= old.windowStart + Window
      BY <2>3, <2>4, <3>1, <3>2 DEF TypeOK
    <3>5. QED
      BY <2>3, <3>3, <3>4 DEF RecordedUpToTheWindow
  <2>7. QED
    BY <2>5, <2>6
<1>3. QED
  BY <1>1, <1>2, Steps

LEMMA ExactKept ==
  ASSUME TypeOK, NamesAreOwned, OneAtATime, RecordedUpToTheWindow,
         SequentialCountIsExact, Next
  PROVE  SequentialCountIsExact'
<1> SUFFICES ASSUME disturbed' = {}
             PROVE  SequentialCountIsExact'
  BY DEF SequentialCountIsExact
<1> USE BruteForceAssumption
<1>1. CASE Outside \/ \E c \in Calls : Waits(c)
  <2>1. store' = store /\ disturbed = {} /\ heap' = heap
    BY <1>1, NothingWritten, UndisturbedStore
  <2>2. ASSUME NEW t
        PROVE  {c \in Recorded : start[c] >= t}' = {c \in Recorded : start[c] >= t}
    BY <1>1, NothingWritten
  <2>3. QED
    BY <2>1, <2>2 DEF SequentialCountIsExact
<1>2. ASSUME NEW c \in Calls, Write(c)
      PROVE  SequentialCountIsExact'
  <2>1. disturbed = {}
    BY DisturbanceStays
  <2>2. read[c] = store /\ (store # None => heap[store].windowStart <= start[c])
    BY <1>2, <2>1, UndisturbedWrite
  <2>3. /\ Target(c) \in Calls /\ store' = Target(c) /\ start' = start
        /\ c \notin Recorded /\ Recorded' = Recorded \cup {c} /\ Recorded \subseteq Calls
    BY <1>2, Written DEF Recorded
  <2>4. \A x \in Recorded :
          store # None /\ start[x] <= heap[store].windowStart + Window
    BY <2>1 DEF RecordedUpToTheWindow
  <2>5. ASSUME NeedsNewWindow(c)
        PROVE  SequentialCountIsExact'
    <3>1. heap'[store'] = [count |-> 1, windowStart |-> start[c], blockedUntil |-> 0]
      BY <1>2, <2>3, <2>5, Written DEF TypeOK
    <3>2. \A x \in Recorded : start[x] < start[c]
      BY <2>2, <2>3, <2>4, <2>5 DEF NeedsNewWindow, TypeOK, Records
    <3>3. {x \in Recorded' : start'[x] >= start[c]} = {c}
      BY <2>3, <3>2 DEF TypeOK
    <3>4. Cardinality({c}) = 1
      BY FS_Singleton
    <3>5. QED
      BY <3>1, <3>3, <3>4 DEF SequentialCountIsExact
  <2>6. ASSUME ~NeedsNewWindow(c)
        PROVE  SequentialCountIsExact'
    <3> DEFINE old == heap[store]
               next == Counted(old, start[c])
               Since == {x \in Recorded : start[x] >= old.windowStart}
    <3>1. /\ store \in Calls /\ store # None
          /\ heap' = [heap EXCEPT ![Target(c)] = next]
      BY <1>2, <2>2, <2>6, Written
    <3>2. next.windowStart = old.windowStart /\ next.count = old.count + 1
      BY <3>1 DEF Counted, TypeOK, Records
    <3> HIDE DEF next
    <3>3. heap'[store'] = next
      BY <2>3, <3>1 DEF TypeOK
    <3>4. {x \in Recorded' : start'[x] >= old.windowStart} = Since \cup {c}
      BY <2>2, <2>3, <3>1
    <3>5. Since \in SUBSET Calls /\ c \notin Since
      BY <2>3
    <3>6. Cardinality(Since \cup {c}) = Cardinality(Since) + 1
      BY <3>5, OneMoreCall
    <3>7. old.count = Cardinality(Since)
      BY <2>1, <3>1 DEF SequentialCountIsExact
    <3>8. QED
      BY <3>2, <3>3, <3>4, <3>6, <3>7 DEF SequentialCountIsExact
  <2>7. QED
    BY <2>5, <2>6
<1>3. QED
  BY <1>1, <1>2, Steps

-----------------------------------------------------------------------------
(* Calls that overlap no other, among calls that may overlap *)

\* What the store and the calls in progress know is complete as long as no other
\* record is written and no failure is added to the sure ones.
LEMMA CompleteStays ==
  ASSUME TypeOK, NEW o \in Calls, Complete(o), heap'[o] = heap[o],
         Sure' \subseteq Sure, \A x \in Sure : start'[x] = start[x]
  PROVE  Complete(o)'
<1> DEFINE Old == {x \in Sure : start[x] >= heap[o].windowStart}
           New == {x \in Sure' : start'[x] >= heap'[o].windowStart}
<1>1. Old \in SUBSET Calls /\ New \in SUBSET Old
  BY DEF Sure, Recorded
<1>2. /\ Cardinality(New) <= Cardinality(Old)
      /\ Cardinality(Old) \in Nat /\ Cardinality(New) \in Nat
  BY <1>1, MoreCalls, CallsAreFew
<1>3. heap[o].count \in Nat /\ heap[o].count >= Cardinality(Old)
  BY DEF Complete, TypeOK, Records
<1>4. \A x \in Sure' : start'[x] <= heap'[o].windowStart + Window
  BY DEF Complete
<1> HIDE DEF Old, New
<1>5. heap'[o].count >= Cardinality(New)
  BY <1>2, <1>3
<1>6. QED
  BY <1>4, <1>5 DEF Complete, New

\* A step that writes nothing makes no failure sure.
LEMMA NothingSurer ==
  ASSUME TypeOK, NamesAreOwned, Next, Outside \/ \E c \in Calls : Waits(c)
  PROVE  /\ Sure' \subseteq Sure
         /\ \A x \in Sure : start'[x] = start[x]
         /\ \A o \in Calls : Complete(o) => Complete(o)'
<1>1. Sure' \subseteq Sure /\ (\A x \in Sure : start'[x] = start[x]) /\ heap' = heap
  BY NothingWritten, DisturbanceStays DEF Sure
<1>2. QED
  BY <1>1, CompleteStays

\* A write makes sure no failure but its own, and that only when nobody else is
\* in progress.
LEMMA SureWritten ==
  ASSUME TypeOK, NamesAreOwned, OverlapIsKnown, NEW c \in Calls, Write(c)
  PROVE  /\ c \in InProgress /\ InProgress' = InProgress \ {c}
         /\ c \notin Sure /\ Sure \subseteq Calls
         /\ Sure' \subseteq Sure \cup {c}
         /\ InProgress \ {c} # {} => Sure' = Sure
<1>1. c \in InProgress /\ InProgress' = InProgress \ {c}
  BY DEF Write, InProgress, TypeOK
<1>2. disturbed' = disturbed /\ c \notin Recorded /\ Recorded' = Recorded \cup {c}
  BY Written
<1>3. InProgress \ {c} # {} => c \in disturbed
  BY <1>1 DEF OverlapIsKnown
<1>4. QED
  BY <1>1, <1>2, <1>3 DEF Sure, Recorded

LEMMA OverlapKept ==
  ASSUME TypeOK, OverlapIsKnown, Next
  PROVE  OverlapIsKnown'
<1>1. ASSUME NEW c \in Calls, Begin(c)
      PROVE  OverlapIsKnown'
  <2>1. InProgress' \subseteq InProgress \cup {c}
    BY <1>1 DEF Begin, InProgress, TypeOK
  <2>2. CASE InProgress = {}
    BY <2>1, <2>2 DEF OverlapIsKnown
  <2>3. CASE InProgress # {}
    BY <1>1, <2>1, <2>3 DEF OverlapIsKnown, Begin
  <2>4. QED
    BY <2>2, <2>3
<1>2. CASE \E c \in Calls : ServeGet(c) \/ LoseGet(c) \/ Write(c) \/ LoseSet(c)
  <2>1. InProgress' \subseteq InProgress /\ disturbed' = disturbed
    BY <1>2 DEF ServeGet, LoseGet, Write, LoseSet, InProgress, TypeOK
  <2>2. QED
    BY <2>1 DEF OverlapIsKnown
<1>3. CASE Outside
  <2>1. InProgress' = InProgress /\ disturbed \subseteq disturbed'
    BY <1>3 DEF Outside, RedisFails, RedisReturns, FlushCache, Tick, InProgress
  <2>2. QED
    BY <2>1 DEF OverlapIsKnown
<1>4. QED
  BY <1>1, <1>2, <1>3 DEF Next, Outside

LEMMA SureFirstKept ==
  ASSUME TypeOK, NamesAreOwned, DatesArePast, OverlapIsKnown, SureCameFirst, Next
  PROVE  SureCameFirst'
<1>1. ASSUME NEW c \in Calls, Begin(c)
      PROVE  SureCameFirst'
  <2>1. Sure' \subseteq Sure /\ \A x \in Sure : start'[x] = start[x]
    BY <1>1, NothingSurer DEF Waits
  <2>2. InProgress' \subseteq InProgress \cup {c} /\ start'[c] = now
    BY <1>1 DEF Begin, InProgress, TypeOK
  <2>3. \A d \in InProgress : d # c /\ start'[d] = start[d]
    BY <1>1 DEF Begin, InProgress, TypeOK
  <2>4. \A x \in Sure : start[x] <= now
    BY DEF DatesArePast, Sure, Recorded
  <2>5. QED
    BY <2>1, <2>2, <2>3, <2>4 DEF SureCameFirst
<1>2. CASE Outside \/ \E c \in Calls : ServeGet(c) \/ LoseGet(c) \/ LoseSet(c)
  <2>1. Sure' \subseteq Sure
    BY <1>2, NothingSurer DEF Waits
  <2>2. InProgress' \subseteq InProgress /\ start' = start
    BY <1>2 DEF Outside, RedisFails, RedisReturns, FlushCache, Tick, ServeGet,
                LoseGet, LoseSet, InProgress, TypeOK
  <2>3. QED
    BY <2>1, <2>2 DEF SureCameFirst
<1>3. ASSUME NEW c \in Calls, Write(c)
      PROVE  SureCameFirst'
  <2>1. start' = start /\ InProgress' = InProgress \ {c}
    BY <1>3, Written, SureWritten
  <2>2. CASE InProgress' = {}
    BY <2>2 DEF SureCameFirst
  <2>3. CASE InProgress' # {}
    <3>1. Sure' = Sure
      BY <1>3, <2>1, <2>3, SureWritten
    <3>2. QED
      BY <2>1, <3>1 DEF SureCameFirst
  <2>4. QED
    BY <2>2, <2>3
<1>4. QED
  BY <1>1, <1>2, <1>3, Steps DEF Waits

\* The record that a call writes is complete, because the one it has read is.
LEMMA WrittenIsComplete ==
  ASSUME TypeOK, NamesAreOwned, OverlapIsKnown, SureCameFirst, ReadIsComplete,
         NEW c \in Calls, Write(c), NEW o \in Calls, o = Target(c)
  PROVE  Complete(o)'
<1> USE BruteForceAssumption
<1> DEFINE New == {x \in Sure' : start'[x] >= heap'[o].windowStart}
<1>1. /\ start' = start /\ Sure \subseteq Calls /\ c \notin Sure
      /\ Sure' \subseteq Sure \cup {c}
  BY Written, SureWritten
<1>2. \A x \in Sure : start[x] <= start[c]
  BY SureWritten DEF SureCameFirst
<1>3. phase[c] = "read"
  BY DEF Write
<1>4. CASE NeedsNewWindow(c)
  <2>1. heap'[o] = [count |-> 1, windowStart |-> start[c], blockedUntil |-> 0]
    BY <1>4, Written DEF TypeOK
  <2>2. \A x \in Sure : start[x] < start[c]
    <3>1. CASE read[c] = None
      BY <1>3, <3>1 DEF ReadIsComplete
    <3>2. CASE read[c] # None
      <4>1. /\ read[c] \in Calls
            /\ \A x \in Sure : start[x] <= heap[read[c]].windowStart + Window
        BY <1>3, <3>2 DEF ReadIsComplete, Complete, TypeOK
      <4>2. heap[read[c]].windowStart + Window < start[c]
        BY <1>4, <3>2, <4>1 DEF NeedsNewWindow, TypeOK, Records
      <4>3. QED
        BY <1>1, <4>1, <4>2 DEF TypeOK, Records
    <3>3. QED
      BY <3>1, <3>2
  <2>3. New \in SUBSET {c}
    BY <1>1, <2>1, <2>2 DEF TypeOK
  <2>4. Cardinality({c}) = 1 /\ {c} \in SUBSET Calls
    BY FS_Singleton
  <2>5. Cardinality(New) <= 1
    BY <2>3, <2>4, MoreCalls
  <2>6. \A x \in Sure' : start'[x] <= heap'[o].windowStart + Window
    BY <1>1, <1>2, <2>1 DEF TypeOK
  <2> HIDE DEF New
  <2>7. Cardinality(New) \in Nat
    BY <2>3, <2>4, CallsAreFew
  <2>8. heap'[o].count >= Cardinality(New)
    BY <2>1, <2>5, <2>7
  <2>9. QED
    BY <2>6, <2>8 DEF Complete, New
<1>5. CASE ~NeedsNewWindow(c)
  <2> DEFINE old == heap[read[c]]
             next == Counted(old, start[c])
             Old == {x \in Sure : start[x] >= old.windowStart}
  <2>1. /\ read[c] \in Calls /\ start[c] - old.windowStart <= Window
        /\ heap' = [heap EXCEPT ![o] = next]
    BY <1>5, Written
  <2>2. /\ next.windowStart = old.windowStart /\ next.count = old.count + 1
        /\ old.windowStart \in Nat /\ old.count \in Nat
    BY <2>1 DEF Counted, TypeOK, Records
  <2>3. /\ \A x \in Sure : start[x] <= old.windowStart + Window
        /\ old.count >= Cardinality(Old)
    BY <1>3, <2>1 DEF ReadIsComplete, Complete
  <2> HIDE DEF next, old
  <2>4. heap'[o] = next
    BY <2>1 DEF TypeOK
  <2>5. \A x \in Sure' : start'[x] <= heap'[o].windowStart + Window
    BY <1>1, <2>1, <2>2, <2>3, <2>4 DEF TypeOK
  <2>6. Old \in SUBSET Calls /\ c \notin Old /\ New \in SUBSET (Old \cup {c})
    BY <1>1, <2>2, <2>4
  <2> HIDE DEF New, Old
  <2>7. Cardinality(Old \cup {c}) = Cardinality(Old) + 1 /\ Cardinality(Old) \in Nat
    BY <2>6, OneMoreCall, CallsAreFew
  <2>8. Cardinality(New) <= Cardinality(Old \cup {c}) /\ Cardinality(New) \in Nat
    <3>1. Old \cup {c} \in SUBSET Calls
      BY <2>6
    <3>2. New \in SUBSET Calls
      BY <2>6, <3>1
    <3>3. QED
      BY <2>6, <3>1, <3>2, MoreCalls, CallsAreFew
  <2>9. heap'[o].count >= Cardinality(New)
    BY <2>2, <2>3, <2>4, <2>7, <2>8
  <2>10. QED
    BY <2>5, <2>9 DEF Complete, New
<1>6. QED
  BY <1>4, <1>5

LEMMA CompleteKept ==
  ASSUME TypeOK, NamesAreOwned, OverlapIsKnown, SureCameFirst, ReadIsComplete,
         StoreIsComplete, Next
  PROVE  ReadIsComplete' /\ StoreIsComplete'
<1> USE BruteForceAssumption
<1>1. CASE Outside \/ \E c \in Calls : Waits(c)
  <2>1. /\ Sure' \subseteq Sure
        /\ \A o \in Calls : Complete(o) => Complete(o)'
    BY <1>1, NothingSurer
  <2>2. \A d \in Calls : phase'[d] = "read" =>
          (phase[d] = "read" /\ read'[d] = read[d]) \/ read'[d] = store
    BY <1>1 DEF Outside, RedisFails, RedisReturns, FlushCache, Tick, Waits, Begin,
                ServeGet, LoseGet, LoseSet, TypeOK
  <2>3. store' = store \/ FlushCache
    BY <1>1 DEF Outside, RedisFails, RedisReturns, Tick, Waits, Begin, ServeGet,
                LoseGet, LoseSet
  <2>4. FlushCache => Sure' = {} /\ store' = None
    <3>1. \A c \in Recorded : phase[c] # "new"
      BY DEF NamesAreOwned, Recorded
    <3>2. FlushCache => wrote' = wrote /\ store' = None
      BY DEF FlushCache
    <3>3. FlushCache => Recorded' = Recorded /\ Recorded \subseteq disturbed'
      BY <3>1, <3>2 DEF FlushCache, Recorded
    <3>4. QED
      BY <3>2, <3>3 DEF Sure
  <2>5. ReadIsComplete'
    <3> SUFFICES ASSUME NEW d \in Calls, phase'[d] = "read"
                 PROVE  IF read'[d] = None THEN Sure' = {} ELSE Complete(read[d])'
      BY DEF ReadIsComplete
    <3>1. PICK r \in Calls \cup {None} :
            read'[d] = r /\ (IF r = None THEN Sure = {} ELSE Complete(r))
      BY <2>2 DEF ReadIsComplete, StoreIsComplete, TypeOK
    <3>2. IF r = None THEN Sure' = {} ELSE Complete(r)'
      BY <2>1, <3>1
    <3>3. QED
      BY <3>1, <3>2 DEF Complete
  <2>6. StoreIsComplete'
    <3>1. CASE FlushCache
      BY <2>4, <3>1 DEF StoreIsComplete
    <3>2. CASE store' = store
      <4>1. PICK r \in Calls \cup {None} :
              store = r /\ (IF r = None THEN Sure = {} ELSE Complete(r))
        BY DEF StoreIsComplete, TypeOK
      <4>2. IF r = None THEN Sure' = {} ELSE Complete(r)'
        BY <2>1, <4>1
      <4>3. QED
        BY <3>2, <4>1, <4>2 DEF StoreIsComplete, Complete
    <3>3. QED
      BY <2>3, <3>1, <3>2
  <2>7. QED
    BY <2>5, <2>6
<1>2. ASSUME NEW c \in Calls, Write(c)
      PROVE  ReadIsComplete' /\ StoreIsComplete'
  <2>1. PICK o \in Calls : o = Target(c)
    BY <1>2, Written
  <2>2. Complete(o)'
    BY <1>2, <2>1, WrittenIsComplete
  <2>3. /\ store' = o /\ read' = read /\ start' = start
        /\ \A e \in Calls : e # o => heap'[e] = heap[e]
    BY <1>2, <2>1, Written DEF TypeOK
  <2>4. StoreIsComplete'
    BY <2>2, <2>3 DEF StoreIsComplete, Complete
  <2>5. ReadIsComplete'
    <3> SUFFICES ASSUME NEW d \in Calls, phase'[d] = "read"
                 PROVE  IF read'[d] = None THEN Sure' = {} ELSE Complete(read[d])'
      BY DEF ReadIsComplete
    <3>1. phase[d] = "read" /\ d # c
      BY <1>2 DEF Write, TypeOK
    <3>2. Sure' = Sure
      BY <1>2, <3>1, SureWritten DEF InProgress
    <3>3. PICK r \in Calls \cup {None} :
            read[d] = r /\ (IF r = None THEN Sure = {} ELSE Complete(r))
      BY <3>1 DEF ReadIsComplete, TypeOK
    <3>4. IF r = None THEN Sure' = {} ELSE Complete(r)'
      BY <2>2, <2>3, <3>2, <3>3, CompleteStays
    <3>5. QED
      BY <2>3, <3>3, <3>4 DEF Complete
  <2>6. QED
    BY <2>4, <2>5
<1>3. QED
  BY <1>1, <1>2, Steps

-----------------------------------------------------------------------------
(* The results *)

LEMMA InitIInv == Init => IInv
<1> SUFFICES ASSUME Init
             PROVE  IInv
  OBVIOUS
<1> USE BruteForceAssumption DEF Init, Blank
<1>1. Recorded = {} /\ InProgress = {}
  BY DEF Recorded, InProgress
<1>2. Cardinality(Calls) \in Nat /\ Cardinality({}) = 0
  BY CallsAreFew, FS_EmptySet
<1>3. TypeOK
  <2>1. disturbed \subseteq Calls
    OBVIOUS
  <2>2. Blank \in Records
    BY <1>2 DEF Records
  <2>3. QED
    BY <2>1, <2>2 DEF TypeOK, Phases
<1>4. NamesAreOwned /\ DatesArePast
  BY DEF NamesAreOwned, DatesArePast
<1>5. RecordsAreSound
  BY <1>1, <1>2 DEF RecordsAreSound, FailuresOf
<1>6. OneAtATime /\ RecordedUpToTheWindow /\ SequentialCountIsExact
  BY <1>1 DEF OneAtATime, RecordedUpToTheWindow, SequentialCountIsExact
<1>7. OverlapIsKnown /\ SureCameFirst /\ ReadIsComplete /\ StoreIsComplete
  BY <1>1 DEF OverlapIsKnown, SureCameFirst, ReadIsComplete, StoreIsComplete, Sure
<1>8. QED
  BY <1>3, <1>4, <1>5, <1>6, <1>7 DEF IInv

LEMMA StepIInv == IInv /\ [Next]_vars => IInv'
<1>1. ASSUME IInv, Next
      PROVE  IInv'
  BY <1>1, TypesKept, NamesKept, DatesKept, SoundKept, OneAtATimeKept,
     WindowKept, ExactKept, OverlapKept, SureFirstKept, CompleteKept DEF IInv
<1>2. ASSUME IInv, UNCHANGED vars
      PROVE  IInv'
  <2> USE <1>2 DEF IInv, vars
  <2>1. TypeOK' /\ NamesAreOwned' /\ DatesArePast'
    BY DEF TypeOK, NamesAreOwned, DatesArePast
  <2>2. Recorded' = Recorded /\ InProgress' = InProgress
    BY DEF Recorded, InProgress
  <2>3. RecordsAreSound'
    BY <2>2 DEF RecordsAreSound, FailuresOf
  <2>4. OneAtATime' /\ RecordedUpToTheWindow' /\ SequentialCountIsExact'
    BY <2>2 DEF OneAtATime, RecordedUpToTheWindow, SequentialCountIsExact
  <2>5. OverlapIsKnown' /\ SureCameFirst'
    BY <2>2 DEF OverlapIsKnown, SureCameFirst, Sure
  <2>6. ReadIsComplete' /\ StoreIsComplete'
    BY <2>2 DEF ReadIsComplete, StoreIsComplete, Complete, Sure
  <2>7. QED
    BY <2>1, <2>3, <2>4, <2>5, <2>6
<1>3. QED
  BY <1>1, <1>2

LEMMA Invariance == Spec => []IInv
BY InitIInv, StepIInv, PTL DEF Spec

\* The variables keep their types; the counter of a record never passes the
\* number of failures there are (bruteForce.ts:20-37).
THEOREM CountersTypeCorrect == Spec => []TypeOK
<1>1. IInv => TypeOK
  BY DEF IInv
<1>2. QED
  BY <1>1, Invariance, PTL

\* No client is held for failures it did not make, whatever the interleaving,
\* the losses of Redis and the flushes of the cache (bruteForce.ts:20-64).
THEOREM CountsAreSound == Spec => []CountIsSound
<1>1. ASSUME IInv, store # None
      PROVE  LET record == heap[store] IN
             /\ record.count <= Cardinality(FailuresOf(record))
             /\ Admission(record) = "blocked" =>
                  Cardinality(FailuresOf(record)) >= BlockThreshold
  <2> DEFINE record == heap[store]
  <2>1. store \in Calls /\ record.count \in Nat /\ now \in Nat
    BY <1>1, BruteForceAssumption DEF IInv, TypeOK, Records
  <2>2. /\ record.count <= Cardinality(FailuresOf(record))
        /\ record.blockedUntil # 0 => record.count >= BlockThreshold
    BY <1>1, <2>1 DEF IInv, RecordsAreSound
  <2>3. FailuresOf(record) \in SUBSET Calls
    BY DEF FailuresOf, Recorded
  <2>4. Cardinality(FailuresOf(record)) \in Nat
    BY <2>3, CallsAreFew
  <2>5. Admission(record) = "blocked" => record.blockedUntil # 0
    BY <2>1 DEF Admission
  <2> HIDE DEF record
  <2>6. /\ record.count <= Cardinality(FailuresOf(record))
        /\ Admission(record) = "blocked" =>
             Cardinality(FailuresOf(record)) >= BlockThreshold
    BY <2>1, <2>2, <2>4, <2>5, BruteForceAssumption
  <2>7. QED
    BY <2>6 DEF record
<1>2. IInv => CountIsSound
  BY <1>1 DEF CountIsSound
<1>3. QED
  BY <1>2, Invariance, PTL

\* Calls that do not overlap are all counted, in memory and in Redis.
THEOREM SequentialCountsAreExact == Spec => []SequentialCountIsExact
<1>1. IInv => SequentialCountIsExact
  BY DEF IInv
<1>2. QED
  BY <1>1, Invariance, PTL

\* A failure that no call overlapped is counted for as long as its window lasts,
\* whatever other calls do at the same time; only a flush takes it away
\* (bruteForce.ts:18-34).
THEOREM OnlyOverlappingFailuresAreLost == Spec => []OnlyOverlapsAreLost
<1>1. IInv => OnlyOverlapsAreLost
  BY BruteForceAssumption
     DEF IInv, StoreIsComplete, Complete, OnlyOverlapsAreLost, TypeOK
<1>2. QED
  BY <1>1, Invariance, PTL
=============================================================================
