---------------------------- MODULE Marketplace ----------------------------
(***************************************************************************)
(* The campus marketplace: listings, orders, payments, refunds, disputes   *)
(* and settlements (src/internal/marketplace).                             *)
(*                                                                         *)
(* A database transaction of the repository is one step: it takes the row  *)
(* locks it needs before it reads.  A service method that uses several     *)
(* transactions, or calls the payment gateway between two of them, is a    *)
(* call held by a worker (a request goroutine or the minute job) and takes *)
(* one step per transaction or gateway call.  A crash drops the calls in   *)
(* flight and keeps the tables.                                            *)
(*                                                                         *)
(* Order identifiers are fresh, so the buyer and the item an identifier    *)
(* will be used for are fixed in advance by BuyerOf and ItemOf.            *)
(***************************************************************************)
EXTENDS Integers, FiniteSets

CONSTANTS Items,              \* listing identifiers
          Orders,             \* order identifiers
          Users,              \* root users
          Requests,           \* payment request ids chosen by clients
          Workers,            \* goroutines that run multi-step calls
          Categories,         \* category identifiers
          Prices,             \* listing prices, in cents
          Rates,              \* commission rates, in basis points
          Seller,             \* the user who lists each item
          ItemOf,             \* the item each order is for
          BuyerOf,            \* the user who places each order
          PaymentWindow,      \* orderPaymentWindow
          AutoCompleteDelay,  \* autoCompleteDelay
          MaxTime,            \* bound on the clock
          None                \* SQL NULL, or a row that does not exist

ASSUME IdentityAssumption ==
  /\ Seller \in [Items -> Users]
  /\ ItemOf \in [Orders -> Items]
  /\ BuyerOf \in [Orders -> Users]

\* A rate of the whole price, in basis points.
FullRate == 10000

ASSUME AmountAssumption ==
  /\ Prices \subseteq Nat \ {0}
  /\ Rates \subseteq 0..FullRate

ASSUME TimeAssumption ==
  /\ PaymentWindow \in Nat
  /\ AutoCompleteDelay \in Nat
  /\ MaxTime \in Nat

ASSUME NoneAssumption ==
  /\ None \notin Orders \cup Items \cup Requests \cup Categories \cup Int
  /\ None \notin {"draft", "published", "reserved", "sold", "withdrawn", "hidden"}
  /\ None \notin {"pendingPayment", "paid", "delivered", "completed",
                  "cancelled", "refunded", "disputed"}
  /\ None \notin {"pending", "succeeded", "rejected", "failed", "resolved"}

VARIABLES rates,        \* category -> commission rate, None before it exists
          items,        \* item rows
          orders,       \* order rows
          payments,     \* payment rows, by request id (unique)
          refunds,      \* refund status, by order (unique)
          disputes,     \* dispute rows, by order (unique)
          settlements,  \* settlement rows, by order (unique)
          calls,        \* the call each worker is in
          opened,       \* gateway: requests it has a transaction for
          refunded,     \* gateway: refunds it has paid out
          settled,      \* gateway: settlements it has paid out
          now           \* the clock

listing == <<rates, items>>
records == <<payments, refunds, disputes, settlements>>
gateway == <<opened, refunded, settled>>
vars == <<rates, items, orders, payments, refunds, disputes, settlements,
          calls, opened, refunded, settled, now>>

----------------------------------------------------------------------------
(* Rows *)

ItemStatus == {"draft", "published", "reserved", "sold", "withdrawn", "hidden"}
OrderStatus == {"pendingPayment", "paid", "delivered", "completed",
                "cancelled", "refunded", "disputed"}

\* An order that still stands: it was neither cancelled nor refunded nor
\* completed.
Live == {"pendingPayment", "paid", "delivered", "disputed"}

\* The states reached through a successful payment.
Funded == {"paid", "delivered", "disputed", "completed", "refunded"}

NoItem == [status |-> None, category |-> None, price |-> None, order |-> None]
NoOrder == [status |-> None, price |-> None, rate |-> None, fee |-> None,
            net |-> None, expiresAt |-> None, deliveredAt |-> None]
NoPayment == [status |-> None, order |-> None, amount |-> None, txn |-> FALSE]
NoDispute == [status |-> None, previous |-> None]
NoSettlement == [status |-> None, amount |-> None]
Idle == [op |-> "idle"]

\* Mutant: the remainder of the price is not charged.
commissionFeeQuotientOnly(price, rate) == (price \div 10000) * rate

\* The platform's commission: computed on the quotient and the remainder of
\* the price by 10000 so that the product stays within 64 bits.
commissionFee(price, rate) ==
  (price \div 10000) * rate + ((price % 10000) * rate) \div 10000

Init ==
  /\ rates = [c \in Categories |-> None]
  /\ items = [i \in Items |-> NoItem]
  /\ orders = [o \in Orders |-> NoOrder]
  /\ payments = [r \in Requests |-> NoPayment]
  /\ refunds = [o \in Orders |-> None]
  /\ disputes = [o \in Orders |-> NoDispute]
  /\ settlements = [o \in Orders |-> NoSettlement]
  /\ calls = [w \in Workers |-> Idle]
  /\ opened = {}
  /\ refunded = {}
  /\ settled = {}
  /\ now = 0

----------------------------------------------------------------------------
(* Categories and listings *)

SaveCategory(c, rate) ==
  /\ rates' = [rates EXCEPT ![c] = rate]
  /\ UNCHANGED <<items, orders, records, calls, gateway, now>>

CreateItem(i, c, price, status) ==
  /\ items[i].status = None
  /\ rates[c] # None
  /\ items' = [items EXCEPT ![i] = [status |-> status, category |-> c,
                                    price |-> price, order |-> None]]
  /\ UNCHANGED <<rates, orders, records, calls, gateway, now>>

\* UpdateItem reads the listing first; a request without a status keeps the
\* status it read.
UpdateItem(w, i, c, price, requested) ==
  /\ calls[w] = Idle
  /\ items[i].status # None
  /\ rates[c] # None
  /\ calls' = [calls EXCEPT ![w] =
        [op |-> "updateItem", item |-> i, category |-> c, price |-> price,
         status |-> IF requested = None THEN items[i].status ELSE requested]]
  /\ UNCHANGED <<listing, orders, records, gateway, now>>

\* The conditional UPDATE that ends UpdateItem.
WriteItem(w) ==
  LET call == calls[w] IN
  /\ call.op = "updateItem"
  /\ items' = IF items[call.item].status \in {"draft", "published"}
              THEN [items EXCEPT ![call.item].category = call.category,
                                 ![call.item].price = call.price,
                                 ![call.item].status = call.status]
              ELSE items
  /\ calls' = [calls EXCEPT ![w] = Idle]
  /\ UNCHANGED <<rates, orders, records, gateway, now>>

WithdrawItem(i) ==
  /\ items[i].status \in {"draft", "published", "hidden"}
  /\ items' = [items EXCEPT ![i].status = "withdrawn"]
  /\ UNCHANGED <<rates, orders, records, calls, gateway, now>>

\* Moderation hides a listing whatever its status, and cancels the order
\* that reserves it when that order is not paid yet.
HideItem(i) ==
  LET held == items[i].order IN
  /\ items[i].status # None
  /\ orders' = IF /\ items[i].status = "reserved"
                  /\ held # None
                  /\ orders[held].status = "pendingPayment"
               THEN [orders EXCEPT ![held].status = "cancelled"]
               ELSE orders
  /\ items' = [items EXCEPT ![i].status = "hidden", ![i].order = None]
  /\ UNCHANGED <<rates, records, calls, gateway, now>>

----------------------------------------------------------------------------
(* Orders *)

CreateOrder(o) ==
  LET i == ItemOf[o]
      rate == rates[items[i].category]
      fee == commissionFee(items[i].price, rate)
  IN
  /\ orders[o].status = None
  /\ items[i].status = "published"
  /\ items[i].order = None
  /\ Seller[i] # BuyerOf[o]
  /\ rate # None
  /\ items' = [items EXCEPT ![i].status = "reserved", ![i].order = o]
  /\ orders' = [orders EXCEPT ![o] =
        [status |-> "pendingPayment", price |-> items[i].price, rate |-> rate,
         fee |-> fee, net |-> items[i].price - fee,
         expiresAt |-> now + PaymentWindow, deliveredAt |-> None]]
  /\ UNCHANGED <<rates, records, calls, gateway, now>>

\* UPDATE ... WHERE id = item AND reserved_order_id = order
ReleaseItem(o, change) ==
  items' = IF items[ItemOf[o]].order = o
           THEN [items EXCEPT ![ItemOf[o]] = change]
           ELSE items

\* Mutant: reserved_order_id is not cleared.
RelistedWithOrder(o) == [items[ItemOf[o]] EXCEPT !.status = "published"]

Relisted(o) == [items[ItemOf[o]] EXCEPT !.status = "published", !.order = None]
Sold(o) == [items[ItemOf[o]] EXCEPT !.status = "sold"]

CancelOrder(o) ==
  /\ orders[o].status = "pendingPayment"
  /\ orders' = [orders EXCEPT ![o].status = "cancelled"]
  /\ ReleaseItem(o, Relisted(o))
  /\ UNCHANGED <<rates, records, calls, gateway, now>>

\* The minute job cancels the orders whose payment window has closed.
ExpireOrder(o) ==
  /\ orders[o].status = "pendingPayment"
  /\ orders[o].expiresAt <= now
  /\ orders' = [orders EXCEPT ![o].status = "cancelled"]
  /\ ReleaseItem(o, Relisted(o))
  /\ UNCHANGED <<rates, records, calls, gateway, now>>

MarkDelivered(o) ==
  /\ orders[o].status = "paid"
  /\ orders' = [orders EXCEPT ![o].status = "delivered", ![o].deliveredAt = now]
  /\ UNCHANGED <<listing, records, calls, gateway, now>>

\* Mutant: a refund that is asked for does not stop completion.
CompletableDespiteRefund(o) == orders[o].status = "delivered"

Completable(o) == orders[o].status = "delivered" /\ refunds[o] # "pending"

\* completeOrderTx: shared by the buyer's confirmation and the minute job.
\* The settlement is inserted unless the order already has one.
CompleteOrder(o) ==
  /\ Completable(o)
  /\ orders' = [orders EXCEPT ![o].status = "completed"]
  /\ ReleaseItem(o, Sold(o))
  /\ settlements' = IF settlements[o].status = None
                    THEN [settlements EXCEPT ![o] = [status |-> "pending",
                                                     amount |-> orders[o].net]]
                    ELSE settlements

\* The caller goes on to process the settlement it has just inserted.
ConfirmReceived(w, o) ==
  /\ calls[w] = Idle
  /\ CompleteOrder(o)
  /\ calls' = [calls EXCEPT ![w] = [op |-> "findSettlement", order |-> o]]
  /\ UNCHANGED <<rates, payments, refunds, disputes, gateway, now>>

AutoCompleteOrder(w, o) ==
  /\ calls[w] = Idle
  /\ orders[o].deliveredAt # None
  /\ orders[o].deliveredAt <= now - AutoCompleteDelay
  /\ CompleteOrder(o)
  /\ calls' = [calls EXCEPT ![w] = [op |-> "findSettlement", order |-> o]]
  /\ UNCHANGED <<rates, payments, refunds, disputes, gateway, now>>

----------------------------------------------------------------------------
(* Payments *)

\* StartPayment reads the order and the clock before its transaction.
StartPayment(w, o, r) ==
  /\ calls[w] = Idle
  /\ orders[o].status # None
  /\ calls' = [calls EXCEPT ![w] =
        [op |-> "startPayment", order |-> o, request |-> r,
         amount |-> orders[o].price, at |-> now]]
  /\ UNCHANGED <<listing, orders, records, gateway, now>>

\* A request id already used for the same order and amount is found, not
\* created again; a payment without a transaction id goes to the gateway.
CreateOrFindPayment(w) ==
  LET call == calls[w]
      known == payments[call.request]
      payable == /\ orders[call.order].status = "pendingPayment"
                 /\ call.at < orders[call.order].expiresAt
      createPayment == [op |-> "createPayment", request |-> call.request]
  IN
  /\ call.op = "startPayment"
  /\ \/ /\ payable
        /\ known.status = None
        /\ payments' = [payments EXCEPT ![call.request] =
              [status |-> "pending", order |-> call.order,
               amount |-> call.amount, txn |-> FALSE]]
        /\ calls' = [calls EXCEPT ![w] = createPayment]
     \/ /\ payable
        /\ known.order = call.order
        /\ known.amount = call.amount
        /\ calls' = [calls EXCEPT ![w] = IF known.txn THEN Idle ELSE createPayment]
        /\ UNCHANGED payments
     \/ /\ \/ ~payable
           \/ /\ known.status # None
              /\ known.order # call.order \/ known.amount # call.amount
        /\ calls' = [calls EXCEPT ![w] = Idle]
        /\ UNCHANGED payments
  /\ UNCHANGED <<listing, orders, refunds, disputes, settlements, gateway, now>>

\* The gateway derives its transaction id from the request id, so opening a
\* request twice gives the same transaction.
GatewayCreatePayment(w) ==
  /\ calls[w].op = "createPayment"
  /\ \/ /\ opened' = opened \cup {calls[w].request}
        /\ calls' = [calls EXCEPT ![w].op = "attachPayment"]
     \/ /\ calls' = [calls EXCEPT ![w] = Idle]
        /\ UNCHANGED opened
  /\ UNCHANGED <<listing, orders, records, refunded, settled, now>>

AttachPaymentTransaction(w) ==
  /\ calls[w].op = "attachPayment"
  /\ payments' = [payments EXCEPT ![calls[w].request].txn = TRUE]
  /\ calls' = [calls EXCEPT ![w] = Idle]
  /\ UNCHANGED <<listing, orders, refunds, disputes, settlements, gateway, now>>

\* Mutant: the payment is recorded without a look at the order's status.
CallbackPayable(o) == now < orders[o].expiresAt

Payable(o) == orders[o].status = "pendingPayment" /\ now < orders[o].expiresAt

\* The gateway reports a payment, at any time, any number of times, also
\* before the transaction id is attached.
ApplyPaymentCallback(r) ==
  LET o == payments[r].order IN
  /\ r \in opened
  /\ payments[r].status = "pending"
  /\ Payable(o)
  /\ payments' = [payments EXCEPT ![r].status = "succeeded", ![r].txn = TRUE]
  /\ orders' = [orders EXCEPT ![o].status = "paid"]
  /\ UNCHANGED <<listing, refunds, disputes, settlements, calls, gateway, now>>

----------------------------------------------------------------------------
(* Refunds and disputes *)

CreateRefund(o) ==
  /\ orders[o].status \in {"paid", "delivered"}
  /\ refunds[o] = None
  /\ refunds' = [refunds EXCEPT ![o] = "pending"]
  /\ UNCHANGED <<listing, orders, payments, disputes, settlements, calls, gateway, now>>

\* The service looks the refund up and, to approve it, pays it out at the
\* gateway before the transaction that records the decision.
DecideRefund(w, o, approved) ==
  /\ calls[w] = Idle
  /\ refunds[o] # None
  /\ ~(refunds[o] = "succeeded" /\ approved)
  /\ calls' = [calls EXCEPT ![w] =
        [op |-> IF approved THEN "payRefund" ELSE "decideRefund",
         order |-> o, approved |-> approved]]
  /\ UNCHANGED <<listing, orders, records, gateway, now>>

\* Mutant: an error of the gateway is ignored.
GatewayRefundUnchecked(w) ==
  /\ calls[w].op = "payRefund"
  /\ \/ refunded' = refunded \cup {<<calls[w].order, "refund">>}
     \/ UNCHANGED refunded
  /\ calls' = [calls EXCEPT ![w].op = "decideRefund"]
  /\ UNCHANGED <<listing, orders, records, opened, settled, now>>

GatewayRefund(w) ==
  /\ calls[w].op = "payRefund"
  /\ \/ /\ refunded' = refunded \cup {<<calls[w].order, "refund">>}
        /\ calls' = [calls EXCEPT ![w].op = "decideRefund"]
     \/ /\ calls' = [calls EXCEPT ![w] = Idle]
        /\ UNCHANGED refunded
  /\ UNCHANGED <<listing, orders, records, opened, settled, now>>

\* Mutant: a refund puts the item back on sale.
RelistedByRefund(i) == [items EXCEPT ![i].status = "published", ![i].order = None]

Withdrawn(i) == [items EXCEPT ![i].status = "withdrawn", ![i].order = None]

RecordRefund(w) ==
  LET call == calls[w]
      o == call.order
  IN
  /\ call.op = "decideRefund"
  /\ IF refunds[o] # "pending"
     THEN UNCHANGED <<items, orders, refunds>>
     ELSE IF call.approved
     THEN /\ orders' = IF orders[o].status \in {"paid", "delivered", "disputed"}
                       THEN [orders EXCEPT ![o].status = "refunded"]
                       ELSE orders
          /\ items' = Withdrawn(ItemOf[o])
          /\ refunds' = [refunds EXCEPT ![o] = "succeeded"]
     ELSE /\ refunds' = [refunds EXCEPT ![o] = "rejected"]
          /\ UNCHANGED <<items, orders>>
  /\ calls' = [calls EXCEPT ![w] = Idle]
  /\ UNCHANGED <<rates, payments, disputes, settlements, gateway, now>>

CreateDispute(o) ==
  /\ orders[o].status \in {"paid", "delivered"}
  /\ refunds[o] # "pending"
  /\ disputes[o].status = None
  /\ disputes' = [disputes EXCEPT ![o] = [status |-> "pending",
                                          previous |-> orders[o].status]]
  /\ orders' = [orders EXCEPT ![o].status = "disputed"]
  /\ UNCHANGED <<listing, payments, refunds, settlements, calls, gateway, now>>

ResolveDispute(w, o, refund) ==
  /\ calls[w] = Idle
  /\ disputes[o].status = "pending"
  /\ calls' = [calls EXCEPT ![w] =
        [op |-> IF refund THEN "payDispute" ELSE "resolveDispute",
         order |-> o, refund |-> refund]]
  /\ UNCHANGED <<listing, orders, records, gateway, now>>

GatewayDisputeRefund(w) ==
  /\ calls[w].op = "payDispute"
  /\ \/ /\ refunded' = refunded \cup {<<calls[w].order, "dispute">>}
        /\ calls' = [calls EXCEPT ![w].op = "resolveDispute"]
     \/ /\ calls' = [calls EXCEPT ![w] = Idle]
        /\ UNCHANGED refunded
  /\ UNCHANGED <<listing, orders, records, opened, settled, now>>

\* A refund row the order already has is kept as it is.
RecordResolution(w) ==
  LET call == calls[w]
      o == call.order
      open == disputes[o].status = "pending" /\ orders[o].status = "disputed"
  IN
  /\ call.op = "resolveDispute"
  /\ IF ~open
     THEN UNCHANGED <<items, orders, refunds, disputes>>
     ELSE IF call.refund
     THEN /\ orders' = [orders EXCEPT ![o].status = "refunded"]
          /\ disputes' = [disputes EXCEPT ![o].status = "resolved"]
          /\ items' = Withdrawn(ItemOf[o])
          /\ refunds' = IF refunds[o] = None
                        THEN [refunds EXCEPT ![o] = "succeeded"]
                        ELSE refunds
     ELSE /\ orders' = [orders EXCEPT ![o].status = disputes[o].previous]
          /\ disputes' = [disputes EXCEPT ![o].status = "rejected"]
          /\ UNCHANGED <<items, refunds>>
  /\ calls' = [calls EXCEPT ![w] = Idle]
  /\ UNCHANGED <<rates, payments, settlements, gateway, now>>

----------------------------------------------------------------------------
(* Settlements *)

\* Mutant: a settlement the gateway refused is not open any more.
UnsettledOnce(o) == settlements[o].status = "pending"

Unsettled(o) == settlements[o].status \in {"pending", "failed"}

\* The retry pass of the minute job, or an administrator, starts over with a
\* settlement that is not through yet.
RetrySettlement(w, o) ==
  /\ calls[w] = Idle
  /\ Unsettled(o)
  /\ calls' = [calls EXCEPT ![w] = [op |-> "findSettlement", order |-> o]]
  /\ UNCHANGED <<listing, orders, records, gateway, now>>

FindSettlement(w) ==
  /\ calls[w].op = "findSettlement"
  /\ calls' = [calls EXCEPT ![w] =
        IF settlements[calls[w].order].status = "succeeded"
        THEN Idle ELSE [@ EXCEPT !.op = "settle"]]
  /\ UNCHANGED <<listing, orders, records, gateway, now>>

GatewaySettle(w) ==
  /\ calls[w].op = "settle"
  /\ settled' = settled \cup {calls[w].order}
  /\ calls' = [calls EXCEPT ![w].op = "settleDone"]
  /\ UNCHANGED <<listing, orders, records, opened, refunded, now>>

GatewaySettleFails(w) ==
  /\ calls[w].op = "settle"
  /\ calls' = [calls EXCEPT ![w].op = "settleFailed"]
  /\ UNCHANGED <<listing, orders, records, gateway, now>>

\* Only a pending or failed settlement is updated.
UpdateSettlement(w) ==
  LET o == calls[w].order IN
  /\ calls[w].op \in {"settleDone", "settleFailed"}
  /\ settlements' =
        IF Unsettled(o)
        THEN [settlements EXCEPT ![o].status =
                IF calls[w].op = "settleDone" THEN "succeeded" ELSE "failed"]
        ELSE settlements
  /\ calls' = [calls EXCEPT ![w] = Idle]
  /\ UNCHANGED <<listing, orders, payments, refunds, disputes, gateway, now>>

----------------------------------------------------------------------------
(* Environment *)

\* The server stops and is restarted: the calls in flight are gone.
Restart ==
  /\ \E w \in Workers : calls[w] # Idle
  /\ calls' = [w \in Workers |-> Idle]
  /\ UNCHANGED <<listing, orders, records, gateway, now>>

Tick ==
  /\ now < MaxTime
  /\ now' = now + 1
  /\ UNCHANGED <<listing, orders, records, calls, gateway>>

\* The next step of a call in flight.
CallStep(w) ==
  \/ WriteItem(w) \/ CreateOrFindPayment(w) \/ GatewayCreatePayment(w)
  \/ AttachPaymentTransaction(w) \/ GatewayRefund(w) \/ RecordRefund(w)
  \/ GatewayDisputeRefund(w) \/ RecordResolution(w) \/ FindSettlement(w)
  \/ GatewaySettle(w) \/ GatewaySettleFails(w) \/ UpdateSettlement(w)

Next ==
  \/ \E c \in Categories, rate \in Rates : SaveCategory(c, rate)
  \/ \E i \in Items, c \in Categories, price \in Prices :
       \/ \E status \in {"draft", "published"} : CreateItem(i, c, price, status)
       \/ \E w \in Workers, requested \in {"draft", "published", None} :
            UpdateItem(w, i, c, price, requested)
  \/ \E i \in Items : WithdrawItem(i) \/ HideItem(i)
  \/ \E o \in Orders :
       \/ CreateOrder(o) \/ CancelOrder(o) \/ ExpireOrder(o)
       \/ MarkDelivered(o) \/ CreateRefund(o) \/ CreateDispute(o)
  \/ \E r \in Requests : ApplyPaymentCallback(r)
  \/ \E w \in Workers, o \in Orders :
       \/ ConfirmReceived(w, o) \/ AutoCompleteOrder(w, o)
       \/ RetrySettlement(w, o)
       \/ \E r \in Requests : StartPayment(w, o, r)
       \/ \E answer \in BOOLEAN : \/ DecideRefund(w, o, answer)
                                  \/ ResolveDispute(w, o, answer)
  \/ \E w \in Workers : CallStep(w)
  \/ Restart
  \/ Tick

Spec == Init /\ [][Next]_vars

\* The minute job runs in a goroutine of its own, so what it finds due it gets
\* to (strong fairness: here it shares the workers with the requests).  Calls
\* do not hang, time passes, a gateway asked again and again answers at some
\* point, and the server is not restarted forever.
Fairness ==
  /\ WF_vars(Tick)
  /\ \A o \in Orders :
       /\ WF_vars(ExpireOrder(o))
       /\ SF_vars(\E w \in Workers : AutoCompleteOrder(w, o))
       /\ SF_vars(\E w \in Workers : RetrySettlement(w, o))
  /\ \A w \in Workers :
       /\ WF_vars(CallStep(w))
       /\ SF_vars(GatewaySettle(w))
  /\ <>[][~Restart]_vars

FairSpec == Spec /\ Fairness
----------------------------------------------------------------------------
(* Properties *)

UpdateItemCalls == [op : {"updateItem"}, item : Items, category : Categories,
                    price : Prices, status : ItemStatus]
StartPaymentCalls == [op : {"startPayment"}, order : Orders, request : Requests,
                      amount : Prices, at : Nat]
PaymentCalls == [op : {"createPayment", "attachPayment"}, request : Requests]
RefundCalls == [op : {"payRefund", "decideRefund"}, order : Orders,
                approved : BOOLEAN]
DisputeCalls == [op : {"payDispute", "resolveDispute"}, order : Orders,
                 refund : BOOLEAN]
SettlementCalls == [op : {"findSettlement", "settle", "settleDone", "settleFailed"},
                    order : Orders]
Calls == {Idle} \cup UpdateItemCalls \cup StartPaymentCalls \cup PaymentCalls
         \cup RefundCalls \cup DisputeCalls \cup SettlementCalls

ItemRows == [status : ItemStatus, category : Categories, price : Prices,
             order : Orders \cup {None}]
OrderRows == [status : OrderStatus, price : Prices, rate : Rates, fee : Nat,
              net : Nat, expiresAt : Nat, deliveredAt : Nat \cup {None}]
PaymentRows == [status : {"pending", "succeeded"}, order : Orders,
                amount : Prices, txn : BOOLEAN]
DisputeRows == [status : {"pending", "resolved", "rejected"},
                previous : {"paid", "delivered"}]
SettlementRows == [status : {"pending", "succeeded", "failed"}, amount : Nat]

\* Every table holds rows of its schema; gateway sets name known records.
TypeOK ==
  /\ rates \in [Categories -> Rates \cup {None}]
  /\ items \in [Items -> ItemRows \cup {NoItem}]
  /\ orders \in [Orders -> OrderRows \cup {NoOrder}]
  /\ payments \in [Requests -> PaymentRows \cup {NoPayment}]
  /\ refunds \in [Orders -> {None, "pending", "succeeded", "rejected"}]
  /\ disputes \in [Orders -> DisputeRows \cup {NoDispute}]
  /\ settlements \in [Orders -> SettlementRows \cup {NoSettlement}]
  /\ calls \in [Workers -> Calls]
  /\ opened \subseteq Requests
  /\ refunded \subseteq Orders \X {"refund", "dispute"}
  /\ settled \subseteq Orders
  /\ now \in Nat

\* An item is sold at most once: of all the orders ever placed for it, at most
\* one is not cancelled.  A listing returns to the market only when its order
\* is cancelled or expires, never after a payment, a refund or a completion,
\* however edits, hiding, withdrawal, jobs and callbacks interleave.
SoldOnce ==
  \A o1, o2 \in Orders :
    /\ ItemOf[o1] = ItemOf[o2]
    /\ orders[o1].status \notin {None, "cancelled"}
    /\ orders[o2].status \notin {None, "cancelled"}
    => o1 = o2

\* An item that can be edited or ordered names no order; an item that names an
\* order names one of its own, live or, once the item is sold, completed.
HoldsOwnOrder(i) ==
  /\ items[i].status \in {"draft", "published"} => items[i].order = None
  /\ items[i].order # None =>
       /\ ItemOf[items[i].order] = i
       /\ \/ items[i].status = "reserved" /\ orders[items[i].order].status \in Live
          \/ items[i].status = "sold" /\ orders[items[i].order].status = "completed"

\* reserved_order_id and the order agree: every item holds at most an order of
\* its own that still stands, and an order waiting for payment holds its item.
ReservationAgrees ==
  /\ \A i \in Items : HoldsOwnOrder(i)
  /\ \A o \in Orders :
       orders[o].status = "pendingPayment" => items[ItemOf[o]].order = o

\* An order is past payment exactly when one of its payments succeeded, for the
\* order's price, and then no other payment of it did: several requests,
\* repeated callbacks and callbacks that race cancellation or expiry never
\* pay an order twice or pay a cancelled one.
PaidOnce ==
  \A o \in Orders :
    LET paid == {r \in Requests : payments[r].order = o
                                   /\ payments[r].status = "succeeded"}
    IN  /\ orders[o].status \in Funded <=> paid # {}
        /\ \A r1, r2 \in paid : r1 = r2
        /\ \A r \in paid : payments[r].amount = orders[o].price

\* A refund waiting for its decision keeps the order paid or delivered, and a
\* dispute is pending exactly while the order is disputed: neither lets the
\* order complete under it, and both can still be decided.
RefundAndDisputeFreeze ==
  \A o \in Orders :
    /\ refunds[o] = "pending" => orders[o].status \in {"paid", "delivered"}
    /\ disputes[o].status = "pending" <=> orders[o].status = "disputed"

\* Only a completed order has a settlement, for its price less the commission
\* at the rate it was placed under; the gateway pays out no other order, and a
\* settlement recorded as succeeded has been paid out.
SettlementsMatchOrders ==
  \A o \in Orders :
    /\ settlements[o].status # None <=> orders[o].status = "completed"
    /\ settlements[o].status # None =>
         settlements[o].amount =
           orders[o].price - (orders[o].price * orders[o].rate) \div 10000
    /\ o \in settled => orders[o].status = "completed"
    /\ settlements[o].status = "succeeded" => o \in settled

\* An order is recorded as refunded only after the gateway has returned the
\* money, and a refund row marked succeeded belongs to a refunded order.
RefundsAreBacked ==
  \A o \in Orders :
    /\ orders[o].status = "refunded" =>
         <<o, "refund">> \in refunded \/ <<o, "dispute">> \in refunded
    /\ refunds[o] = "succeeded" => orders[o].status = "refunded"

\* What the gateway has paid out, and the claims that were turned down.
Payouts == settled \X {"seller"} \cup refunded
Rejected ==
  {o \in Orders : refunds[o] = "rejected"} \X {"refund"} \cup
  {o \in Orders : disputes[o].status = "rejected"} \X {"dispute"}

\* The money of an order leaves the gateway once, to the seller or for one claim
\* of the buyer, except for a claim that an administrator turned down after it
\* was paid, or approves after it was turned down: through failed calls, restarts
\* between payout and record, and administrators who decide against each other.
PaidOutOnce ==
  \A o \in Orders :
    /\ o \in settled => \A c \in {"refund", "dispute"} :
         <<o, c>> \in refunded => <<o, c>> \in Rejected
    /\ {<<o, "refund">>, <<o, "dispute">>} \subseteq refunded =>
         <<o, "refund">> \in Rejected \/ <<o, "dispute">> \in Rejected

\* Payouts and records agree: what is recorded as returned was paid, and what
\* was paid went one way.
PayoutsAgree == RefundsAreBacked /\ PaidOutOnce

OrderMoves ==
  {<<None, "pendingPayment">>, <<"pendingPayment", "paid">>,
   <<"pendingPayment", "cancelled">>, <<"paid", "delivered">>,
   <<"delivered", "completed">>, <<"paid", "refunded">>,
   <<"delivered", "refunded">>, <<"disputed", "refunded">>,
   <<"paid", "disputed">>, <<"delivered", "disputed">>,
   <<"disputed", "paid">>, <<"disputed", "delivered">>}

\* Orders move only along the documented order state machine, and a delivery
\* date, once set, is kept through a dispute.
OrderMachine ==
  [][\A o \in Orders :
       /\ orders[o].status # orders'[o].status =>
            <<orders[o].status, orders'[o].status>> \in OrderMoves
       /\ orders[o].deliveredAt # None =>
            orders'[o].deliveredAt = orders[o].deliveredAt]_vars

\* Final records stay final: a paid payment, a decided refund or dispute and a
\* succeeded settlement are not rewritten by a late or concurrent call.
DecisionsAreFinal ==
  [][/\ \A r \in Requests : payments[r].status = "succeeded" =>
           payments'[r] = payments[r]
     /\ \A o \in Orders :
          /\ refunds[o] \in {"succeeded", "rejected"} => refunds'[o] = refunds[o]
          /\ disputes[o].status \in {"resolved", "rejected"} =>
               disputes'[o] = disputes[o]
          /\ settlements[o].status = "succeeded" =>
               settlements'[o] = settlements[o]]_vars

\* An order never waits for payment forever: it is paid, or cancelled and its
\* item freed, once the payment window closes.  (Windows that close after the
\* bound on the clock are left out.)
ReservationsEnd ==
  \A o \in Orders :
    (orders[o].status = "pendingPayment" /\ orders[o].expiresAt <= MaxTime)
      ~> (\/ orders[o].status \in Funded
          \/ orders[o].status = "cancelled" /\ items[ItemOf[o]].order # o)

\* The seller of a delivered order is paid in the end, unless somebody
\* complains: through automatic completion, failing gateway calls, retries
\* and restarts.
DeliveredIsSettled ==
  \A o \in Orders :
    (orders[o].status = "delivered"
       /\ orders[o].deliveredAt + AutoCompleteDelay <= MaxTime)
      ~> (\/ settlements[o].status = "succeeded"
          \/ orders[o].status \in {"disputed", "refunded"}
          \/ refunds[o] = "pending")

\* Where the money of an order is, in the terms of Escrow.
FundsAt(status) ==
  CASE status = None -> "absent"
    [] status = "pendingPayment" -> "unpaid"
    [] status = "cancelled" -> "void"
    [] status \in {"paid", "delivered", "disputed"} -> "held"
    [] status = "completed" -> "released"
    [] status = "refunded" -> "returned"

Funds == [o \in Orders |-> FundsAt(orders[o].status)]

Ledger == INSTANCE Escrow WITH funds <- Funds, payouts <- Payouts, rejected <- Rejected

\* The marketplace implements Escrow: each step moves the money of at most one
\* order, in the books or at the gateway, along Escrow's moves.  DecideRefund
\* pays before it finds out that the refund was rejected meanwhile or long ago
\* (service_admin.go), so the money can go both ways then, and only then.
ImplementsEscrow == Ledger!Spec

\* A reserved listing names the order that holds it, as the repository's test
\* of concurrent orders asserts (marketplace/mysql_test.go).  An edit that read
\* the listing while it was reserved, and writes after the order was cancelled,
\* marks it reserved with no order; no operation frees it then.
ReservedHasOrder ==
  \A i \in Items : items[i].status = "reserved" => items[i].order # None
----------------------------------------------------------------------------
(* The inductive invariant behind the safety properties *)

\* A listing that can still be edited or ordered has no order that is not
\* cancelled.
OnSaleUnsold ==
  \A o \in Orders :
    /\ items[ItemOf[o]].status \in {None, "draft", "published"} =>
         orders[o].status \in {None, "cancelled"}
    /\ orders[o].status # None => items[ItemOf[o]].status # None

Sale == OnSaleUnsold /\ ReservationAgrees /\ SoldOnce

\* The amounts an order was placed with.
Amounts ==
  \A o \in Orders : orders[o].status # None =>
    /\ orders[o].fee = commissionFee(orders[o].price, orders[o].rate)
    /\ orders[o].net = orders[o].price - orders[o].fee

\* An order that is not delivered, or whose dispute will make it paid again,
\* has no delivery date.
Dated ==
  \A o \in Orders :
    \/ orders[o].status \in {None, "pendingPayment", "paid"}
    \/ orders[o].status = "disputed" /\ disputes[o].previous = "paid"
    => orders[o].deliveredAt = None

Settling ==
  /\ \A o \in Orders :
       /\ settlements[o].status # None <=> orders[o].status = "completed"
       /\ settlements[o].status # None => settlements[o].amount = orders[o].net
       /\ o \in settled => orders[o].status = "completed"
       /\ settlements[o].status = "succeeded" => o \in settled
  /\ \A w \in Workers :
       calls[w].op \in {"findSettlement", "settle", "settleDone", "settleFailed"} =>
         /\ orders[calls[w].order].status = "completed"
         /\ calls[w].op = "settleDone" => calls[w].order \in settled

\* Payment rows and payment calls are for orders that exist, at their price.
Paying ==
  /\ PaidOnce
  /\ \A r \in Requests : payments[r].status # None =>
       /\ orders[payments[r].order].status # None
       /\ payments[r].amount = orders[payments[r].order].price
       /\ payments[r].status = "succeeded" => payments[r].txn
  /\ \A r \in opened : payments[r].status # None
  /\ \A w \in Workers :
       /\ calls[w].op = "startPayment" =>
            /\ orders[calls[w].order].status # None
            /\ calls[w].amount = orders[calls[w].order].price
       /\ calls[w].op \in {"createPayment", "attachPayment"} =>
            payments[calls[w].request].status # None

\* A call that is about to record a refund has had it paid out.
Refunding ==
  /\ RefundsAreBacked
  /\ \A w \in Workers :
       /\ calls[w].op = "decideRefund" /\ calls[w].approved =>
            <<calls[w].order, "refund">> \in refunded
       /\ calls[w].op = "resolveDispute" /\ calls[w].refund =>
            <<calls[w].order, "dispute">> \in refunded

\* Who decides a claim, or was paid for one, has made it; a dispute decided for
\* the buyer was paid and ended the order, the refund it stands for was not paid
\* as such, and a refund that a call may still pay was paid by who recorded it.
Claiming ==
  /\ \A o \in Orders :
       /\ <<o, "refund">> \in refunded => refunds[o] # None
       /\ <<o, "dispute">> \in refunded => disputes[o].status # None
       /\ disputes[o].status = "resolved" =>
            orders[o].status = "refunded" /\ <<o, "dispute">> \in refunded
       /\ disputes[o].status = "resolved" /\ refunds[o] = "succeeded" =>
            <<o, "refund">> \notin refunded
  /\ \A w \in Workers :
       /\ calls[w].op \in {"payRefund", "decideRefund"} => refunds[calls[w].order] # None
       /\ calls[w].op = "payRefund" /\ refunds[calls[w].order] = "succeeded" =>
            <<calls[w].order, "refund">> \in refunded
       /\ calls[w].op \in {"payDispute", "resolveDispute"} =>
            disputes[calls[w].order].status # None

IInv ==
  /\ TypeOK /\ Sale /\ RefundAndDisputeFreeze
  /\ Amounts /\ Dated /\ Settling /\ Paying /\ Refunding /\ Claiming
=============================================================================
