------------------------------ MODULE Escrow ------------------------------
(***************************************************************************)
(* What the marketplace promises, whatever listings, jobs, gateway calls   *)
(* and moderators do.  In the books the money of an order is held once and *)
(* then either released to the seller or returned to the buyer, and a new  *)
(* order is accepted for an item only when every earlier order of the item *)
(* came to nothing.  At the gateway the seller is paid once the money is   *)
(* released; it is returned once the buyer was paid; and the buyer is paid *)
(* besides the seller, or twice, only for a claim that was turned down.    *)
(***************************************************************************)
CONSTANTS Orders,   \* order identifiers
          ItemOf    \* the item each order is for

VARIABLES funds,    \* where the money of each order is, in the books
          payouts,  \* what the gateway paid out: <<order, "seller">>, <<order, claim>>
          rejected  \* claims that were turned down: <<order, claim>>

books == <<funds, payouts, rejected>>

\* What a buyer can get the money back for.
Claims == {"refund", "dispute"}

Init ==
  /\ funds = [o \in Orders |-> "absent"]
  /\ payouts = {}
  /\ rejected = {}

\* Nothing was paid for a claim of the order, other than claim, that stands.
NothingPaid(o, claim) ==
  \A c \in Claims \ {claim} : <<o, c>> \in payouts => <<o, c>> \in rejected

Move(o, from, to) ==
  /\ funds[o] = from
  /\ funds' = [funds EXCEPT ![o] = to]
  /\ UNCHANGED <<payouts, rejected>>

Reserve(o) ==
  /\ \A p \in Orders : ItemOf[p] = ItemOf[o] => funds[p] \in {"absent", "void"}
  /\ Move(o, "absent", "unpaid")

Void(o) == Move(o, "unpaid", "void")
Hold(o) == Move(o, "unpaid", "held")
Release(o) == NothingPaid(o, "none") /\ Move(o, "held", "released")
Return(o) == (\E c \in Claims : <<o, c>> \in payouts) /\ Move(o, "held", "returned")

Reject(o, c) ==
  /\ funds[o] = "held"
  /\ rejected' = rejected \cup {<<o, c>>}
  /\ UNCHANGED <<funds, payouts>>

PaySeller(o) ==
  /\ funds[o] = "released"
  /\ payouts' = payouts \cup {<<o, "seller">>}
  /\ UNCHANGED <<funds, rejected>>

PayBuyer(o, c) ==
  /\ \/ funds[o] = "held" /\ NothingPaid(o, c)
     \/ <<o, c>> \in rejected
  /\ payouts' = payouts \cup {<<o, c>>}
  /\ UNCHANGED <<funds, rejected>>

Next ==
  \E o \in Orders :
    \/ Reserve(o) \/ Void(o) \/ Hold(o) \/ Release(o) \/ Return(o) \/ PaySeller(o)
    \/ \E c \in Claims : Reject(o, c) \/ PayBuyer(o, c)

Spec == Init /\ [][Next]_books
=============================================================================
