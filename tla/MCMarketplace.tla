--------------------------- MODULE MCMarketplace ---------------------------
(***************************************************************************)
(* Small instances of the marketplace for TLC.                             *)
(***************************************************************************)
EXTENDS Marketplace, TLC

CONSTANTS seller, buyer, first

MCSeller == [i \in Items |-> seller]
MCBuyerOf == [o \in Orders |-> buyer]
MCItemOf == [o \in Orders |-> CHOOSE i \in Items : TRUE]

\* Request ids and goroutines are interchangeable.
Symmetry == Permutations(Requests) \cup Permutations(Workers)

\* Orders are interchangeable too: the one called first is placed first, and it
\* is the one that is complained about.  That disables no step that is fair.
FirstOrderFirst ==
  /\ Next
  /\ \A o \in Orders \ {first} :
       /\ orders'[o] # NoOrder => orders'[first] # NoOrder
       /\ refunds'[o] = None /\ disputes'[o] = NoDispute
MCFairSpec == Init /\ [][FirstOrderFirst]_vars /\ Fairness
=============================================================================
