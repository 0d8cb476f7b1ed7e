----------------------------- MODULE ExpiringMap ----------------------------
(***************************************************************************)
(* What the memory cache promises: a map whose entries live for the time   *)
(* given when they are set, of at most MaxSize entries, that may forget    *)
(* another entry to make room for a new one but never serves a value that  *)
(* was overwritten, deleted, flushed or has outlived its time.             *)
(***************************************************************************)
EXTENDS Integers, FiniteSets

CONSTANTS Keys, Values, Ttls, MaxSize, None

VARIABLES
  bound,   \* the value and remaining life of each key, or None
  answer   \* what the latest operation answered, None if nothing

mapVars == <<bound, answer>>

Bound == {k \in Keys : bound[k] # None}

Init ==
  /\ bound = [k \in Keys |-> None]
  /\ answer = None

Drop(S) == [k \in Keys |-> IF k \in S THEN None ELSE bound[k]]

Lookup(k) ==
  \/ /\ bound[k] # None /\ bound[k].left >= 0
     /\ answer' = bound[k].value
     /\ UNCHANGED bound
  \/ /\ bound[k] = None \/ bound[k].left < 0
     /\ answer' = None
     /\ bound' = Drop({k})

Store(k) ==
  \E v \in Values, t \in Ttls, victims \in SUBSET (Bound \ {k}) :
    /\ Cardinality((Bound \cup {k}) \ victims) <= MaxSize
    /\ victims # {} => Cardinality(Bound \cup {k}) > MaxSize
    /\ Cardinality(victims) <= 1
    /\ bound' = [Drop(victims) EXCEPT ![k] = [value |-> v, left |-> t]]
    /\ answer' = None

Remove(S) ==
  /\ bound' = Drop(S)
  /\ answer' = None

TimePasses ==
  /\ bound' = [k \in Keys |->
       IF bound[k] = None \/ bound[k].left < 0
         THEN bound[k] ELSE [bound[k] EXCEPT !.left = @ - 1]]
  /\ answer' = None

Next ==
  \/ \E k \in Keys : Lookup(k) \/ Store(k) \/ Remove({k})
  \/ Remove(Keys)
  \/ TimePasses

Spec == Init /\ [][Next]_mapVars
=============================================================================
