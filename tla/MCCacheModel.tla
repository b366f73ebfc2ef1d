---------------------------- MODULE MCCacheModel ----------------------------
(***************************************************************************)
(* CacheModel for TLC: every list of candidates of at most MaxLen entries, *)
(* grown one entry at a time, under every threshold.  Entries carry their  *)
(* position when they were added as the object's name, so that no two are  *)
(* equal.                                                                  *)
(***************************************************************************)
EXTENDS CacheModel, TLC

CONSTANTS
  MaxLen, \* the most candidates of a list
  MaxRw   \* the most accesses of an object

ASSUME BoundsAssumption == MaxLen \in Nat /\ MaxRw \in Nat

VARIABLES
  sa,       \* the candidates, sorted
  threshold \* client->threshold of the server

vars == <<sa, threshold>>

Init == sa = <<>> /\ threshold \in 1 .. MaxRw

\* dhmp_poll_ht_func takes an object if it was touched and is cached or was
\* touched threshold times.
Touched(rw, inDram) ==
  /\ rw >= threshold \/ inDram
  /\ LET more == Append(sa, [obj |-> Len(sa) + 1, rw |-> rw, inDram |-> inDram])
     IN Sorted(more) /\ sa' = more
  /\ UNCHANGED threshold

Next == Len(sa) < MaxLen /\ \E rw \in 1 .. MaxRw, inDram \in BOOLEAN : Touched(rw, inDram)

Spec == Init /\ [][Next]_vars

cold == HandleCacheModel(sa, threshold).cold
hot == HandleCacheModel(sa, threshold).hot

\* Only cached objects are dropped and only uncached ones copied, no object
\* is named twice in a message, and an object that makes room for another
\* was touched no more often than the other was.
SwapsGain ==
  /\ \A k \in DOMAIN cold : cold[k].inDram
  /\ \A k \in DOMAIN hot : ~ hot[k].inDram /\ hot[k].rw >= threshold
  /\ \A j, k \in DOMAIN cold : j # k => cold[j] # cold[k]
  /\ \A j, k \in DOMAIN hot : j # k => hot[j] # hot[k]
  /\ Len(cold) <= Len(hot)
  /\ \A k \in DOMAIN cold : cold[k].rw <= hot[k].rw

\* The two scans leave nothing to gain: no cached object stays in DRAM that
\* was touched less than an object that stays out of it.
NoSwapLeft ==
  \A p, q \in ToSet(sa) :
    /\ p.inDram /\ p \notin ToSet(cold)
    /\ ~ q.inDram /\ q \notin ToSet(hot)
    => q.rw <= p.rw

\* The scans leave out at most one object that has earned a copy.
OneLeftOut ==
  \A p, q \in ToSet(sa) \ ToSet(hot) : ~ p.inDram /\ ~ q.inDram => p = q
=============================================================================
