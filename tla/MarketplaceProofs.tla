------------------------- MODULE MarketplaceProofs -------------------------
(***************************************************************************)
(* The commission is exact.  Every step of the marketplace keeps every     *)
(* table within its schema, keeps listings and orders in agreement (Sale), *)
(* treats each order with its refund and its dispute in one of the ways    *)
(* OrderMove lists and the call of each worker in one of the ways CallMove *)
(* lists, and keeps settlements, refunds and payments in agreement with    *)
(* the orders and with the gateway.  This gives the marketplace's safety   *)
(* properties and its refinement of Escrow, for every set of items,        *)
(* orders, requests, workers, prices and rates.                            *)
(***************************************************************************)
EXTENDS Marketplace, TLAPS

----------------------------------------------------------------------------
(* The commission *)

\* Division by 10000 distributes over a multiple of 10000.
LEMMA DivisionOfSum ==
  ASSUME NEW x \in Nat, NEW y \in Nat
  PROVE  (10000 * x + y) \div 10000 = x + y \div 10000
OBVIOUS

\* A product with a rate in basis points, and that product over 10000.
LEMMA RateBounds ==
  ASSUME NEW x \in Nat, NEW rate \in Nat, rate <= 10000
  PROVE  /\ x * rate \in Nat
         /\ x * rate <= 10000 * x
OBVIOUS

\* A quotient by 10000 is bounded like its dividend.
LEMMA QuotientBound ==
  ASSUME NEW x \in Nat, NEW z \in Nat, z <= 10000 * x
  PROVE  z \div 10000 \in 0..x
OBVIOUS

\* The commission of a price given by its quotient and its remainder.
LEMMA SplitCommission ==
  ASSUME NEW q \in Nat, NEW m \in Nat, NEW rate \in Nat, rate <= 10000
  PROVE  /\ ((10000 * q + m) * rate) \div 10000 = q * rate + (m * rate) \div 10000
         /\ q * rate + (m * rate) \div 10000 \in 0..(10000 * q + m)
<1>1. (10000 * q + m) * rate = 10000 * (q * rate) + m * rate
  OBVIOUS
<1>2. q * rate \in Nat /\ q * rate <= 10000 * q
  BY RateBounds
<1>3. m * rate \in Nat /\ m * rate <= 10000 * m
  BY RateBounds
<1>4. (m * rate) \div 10000 \in 0..m
  BY <1>3, QuotientBound
<1>5. (10000 * (q * rate) + m * rate) \div 10000 = q * rate + (m * rate) \div 10000
  BY <1>2, <1>3, DivisionOfSum
<1>6. ASSUME NEW a \in Nat, a <= 10000 * q, NEW b \in 0..m
      PROVE  a + b \in 0..(10000 * q + m)
  BY <1>6
<1>7. q * rate + (m * rate) \div 10000 \in 0..(10000 * q + m)
  BY <1>2, <1>4, <1>6
<1> QED BY <1>1, <1>5, <1>7

\* commissionFee is the commission rounded down, computed without forming
\* price * rate, and it never exceeds the price: the seller's net is not
\* negative.
THEOREM CommissionFeeIsExact ==
  ASSUME NEW price \in Nat, NEW rate \in Nat, rate <= 10000
  PROVE  /\ commissionFee(price, rate) = (price * rate) \div 10000
         /\ commissionFee(price, rate) \in 0..price
<1>1. ASSUME NEW q \in Nat, NEW m \in Nat, q = price \div 10000, m = price % 10000
      PROVE  /\ commissionFee(price, rate) = (price * rate) \div 10000
             /\ commissionFee(price, rate) \in 0..price
  <2>1. price = 10000 * q + m
    BY <1>1
  <2>2. commissionFee(price, rate) = q * rate + (m * rate) \div 10000
    BY <1>1 DEF commissionFee
  <2>3. /\ ((10000 * q + m) * rate) \div 10000 = q * rate + (m * rate) \div 10000
        /\ q * rate + (m * rate) \div 10000 \in 0..(10000 * q + m)
    BY SplitCommission
  <2> QED BY <2>1, <2>2, <2>3
<1>2. price \div 10000 \in Nat /\ price % 10000 \in Nat
  OBVIOUS
<1> QED BY <1>1, <1>2

----------------------------------------------------------------------------
(* Types *)

\* What a worker is doing determines the fields of its call.
LEMMA CallKinds ==
  ASSUME NEW call \in Calls
  PROVE  /\ call.op = "updateItem" => call \in UpdateItemCalls
         /\ call.op = "startPayment" => call \in StartPaymentCalls
         /\ call.op \in {"createPayment", "attachPayment"} => call \in PaymentCalls
         /\ call.op \in {"payRefund", "decideRefund"} => call \in RefundCalls
         /\ call.op \in {"payDispute", "resolveDispute"} => call \in DisputeCalls
         /\ call.op \in {"findSettlement", "settle", "settleDone", "settleFailed"}
              => call \in SettlementCalls
<1>1. call = Idle => call.op = "idle"
  BY DEF Idle
<1>2. call \in UpdateItemCalls => call.op = "updateItem"
  BY Zenon DEF UpdateItemCalls
<1>3. call \in StartPaymentCalls => call.op = "startPayment"
  BY Zenon DEF StartPaymentCalls
<1>4. call \in PaymentCalls => call.op \in {"createPayment", "attachPayment"}
  BY Zenon DEF PaymentCalls
<1>5. call \in RefundCalls => call.op \in {"payRefund", "decideRefund"}
  BY Zenon DEF RefundCalls
<1>6. call \in DisputeCalls => call.op \in {"payDispute", "resolveDispute"}
  BY Zenon DEF DisputeCalls
<1>7. call \in SettlementCalls =>
        call.op \in {"findSettlement", "settle", "settleDone", "settleFailed"}
  BY Zenon DEF SettlementCalls
<1> QED BY <1>1, <1>2, <1>3, <1>4, <1>5, <1>6, <1>7, Zenon DEF Calls

\* The call records the handlers build are calls.
LEMMA CallForms ==
  /\ Idle \in Calls
  /\ UpdateItemCalls \subseteq Calls
  /\ StartPaymentCalls \subseteq Calls
  /\ PaymentCalls \subseteq Calls
  /\ RefundCalls \subseteq Calls
  /\ DisputeCalls \subseteq Calls
  /\ SettlementCalls \subseteq Calls
BY Zenon DEF Calls

\* Prices and rates are numbers in range.
LEMMA AmountTypes ==
  /\ \A price \in Prices : price \in Nat
  /\ \A rate \in Rates : rate \in Nat /\ rate <= 10000
<1>1. ASSUME NEW price \in Prices
      PROVE  price \in Nat
  BY AmountAssumption, Zenon
<1>2. FullRate \in Nat
  BY DEF FullRate
<1>3. \A rate \in Rates : rate \in Nat /\ rate <= FullRate
  BY <1>2, AmountAssumption
<1> QED BY <1>1, <1>3 DEF FullRate

\* A table entry with a status is a row.
LEMMA RowsExist ==
  ASSUME TypeOK
  PROVE  /\ \A i \in Items : items[i].status # None => items[i] \in ItemRows
         /\ \A o \in Orders : orders[o].status # None => orders[o] \in OrderRows
         /\ \A r \in Requests : payments[r].status # None => payments[r] \in PaymentRows
         /\ \A o \in Orders : disputes[o].status # None => disputes[o] \in DisputeRows
         /\ \A o \in Orders : settlements[o].status # None =>
              settlements[o] \in SettlementRows
BY DEF TypeOK, NoItem, NoOrder, NoPayment, NoDispute, NoSettlement

\* Storing a call keeps the type of calls.
LEMMA StoreCall ==
  ASSUME TypeOK, NEW w \in Workers, NEW call \in Calls
  PROVE  [calls EXCEPT ![w] = call] \in [Workers -> Calls]
BY Zenon DEF TypeOK

\* Setting the status of an order that exists keeps the type of orders.
LEMMA StoreOrderStatus ==
  ASSUME TypeOK, NEW o \in Orders, orders[o].status # None, NEW s \in OrderStatus
  PROVE  [orders EXCEPT ![o].status = s] \in [Orders -> OrderRows \cup {NoOrder}]
<1>1. [orders[o] EXCEPT !.status = s] \in OrderRows
  BY RowsExist, Zenon DEF OrderRows
<1> QED BY <1>1, Zenon DEF TypeOK

\* An item that names an order is a row, and so are its released forms.
LEMMA ReleasedRows ==
  ASSUME TypeOK, NEW o \in Orders, items[ItemOf[o]].order = o
  PROVE  Relisted(o) \in ItemRows /\ Sold(o) \in ItemRows
<1>1. items[ItemOf[o]] \in ItemRows
  BY IdentityAssumption, NoneAssumption DEF TypeOK, NoItem
<1> QED BY <1>1, Zenon DEF Relisted, Sold, ItemRows, ItemStatus

\* ReleaseItem keeps the type of items.
LEMMA TypeReleaseItem ==
  ASSUME TypeOK, NEW o \in Orders, NEW change, ReleaseItem(o, change),
         change \in {Relisted(o), Sold(o)}
  PROVE  items' \in [Items -> ItemRows \cup {NoItem}]
BY ReleasedRows, IdentityAssumption DEF ReleaseItem, TypeOK

\* Refunds withdraw the item of an order.
LEMMA TypeWithdrawn ==
  ASSUME TypeOK, NEW i \in Items, items[i].status # None
  PROVE  Withdrawn(i) \in [Items -> ItemRows \cup {NoItem}]
<1>1. [[items[i] EXCEPT !.status = "withdrawn"] EXCEPT !.order = None] \in ItemRows
  BY RowsExist, Zenon DEF ItemRows, ItemStatus
<1> QED BY <1>1, Zenon DEF TypeOK, Withdrawn

\* The initial tables are well typed.
LEMMA TypeInit == Init => TypeOK
BY DEF Init, TypeOK, NoItem, NoOrder, NoPayment, NoDispute, NoSettlement, Idle, Calls

\* SaveCategory preserves TypeOK.
LEMMA TypeSaveCategory ==
  ASSUME TypeOK, NEW c \in Categories, NEW rate \in Rates, SaveCategory(c, rate)
  PROVE  TypeOK'
BY Zenon DEF TypeOK, SaveCategory, records, gateway

\* CreateItem preserves TypeOK.
LEMMA TypeCreateItem ==
  ASSUME TypeOK, NEW i \in Items, NEW c \in Categories, NEW price \in Prices,
         NEW status \in {"draft", "published"}, CreateItem(i, c, price, status)
  PROVE  TypeOK'
<1>1. [status |-> status, category |-> c, price |-> price, order |-> None] \in ItemRows
  BY Zenon DEF ItemRows, ItemStatus
<1> QED BY <1>1, Zenon DEF TypeOK, CreateItem, records, gateway

\* UpdateItem preserves TypeOK.
LEMMA TypeUpdateItem ==
  ASSUME TypeOK, NEW w \in Workers, NEW i \in Items, NEW c \in Categories,
         NEW price \in Prices, NEW requested \in {"draft", "published", None},
         UpdateItem(w, i, c, price, requested)
  PROVE  TypeOK'
<1> DEFINE status == IF requested = None THEN items[i].status ELSE requested
           call == [op |-> "updateItem", item |-> i, category |-> c,
                    price |-> price, status |-> status]
<1>1. items[i] \in ItemRows
  BY RowsExist, Zenon DEF UpdateItem
<1>2. status \in ItemStatus
  BY <1>1, Zenon DEF ItemRows, ItemStatus
<1>3. call \in Calls
  BY <1>2, CallForms, Zenon DEF UpdateItemCalls
<1>4. calls' \in [Workers -> Calls]
  BY <1>3, StoreCall, Zenon DEF UpdateItem
<1> QED BY <1>4, Zenon DEF TypeOK, UpdateItem, listing, records, gateway

\* WriteItem preserves TypeOK.
LEMMA TypeWriteItem ==
  ASSUME TypeOK, NEW w \in Workers, WriteItem(w)
  PROVE  TypeOK'
<1> DEFINE call == calls[w]
           i == call.item
<1>1. call \in Calls /\ call.op = "updateItem"
  BY Zenon DEF TypeOK, WriteItem
<1>2. call \in UpdateItemCalls
  BY <1>1, CallKinds, Zenon
<1>3. i \in Items /\ call.category \in Categories /\ call.price \in Prices
        /\ call.status \in ItemStatus
  BY <1>2, Zenon DEF UpdateItemCalls
<1>4. ASSUME items[i].status \in {"draft", "published"}
      PROVE  [[[items[i] EXCEPT !.category = call.category]
                EXCEPT !.price = call.price] EXCEPT !.status = call.status] \in ItemRows
  <2>1. items[i] \in ItemRows
    BY <1>3, <1>4, RowsExist, NoneAssumption, Zenon
  <2> QED BY <1>3, <2>1, Zenon DEF ItemRows
<1>5. items' \in [Items -> ItemRows \cup {NoItem}]
  BY <1>3, <1>4, Zenon DEF TypeOK, WriteItem
<1>6. calls' \in [Workers -> Calls]
  BY CallForms, StoreCall, Zenon DEF WriteItem
<1> QED BY <1>5, <1>6, Zenon DEF TypeOK, WriteItem, records, gateway

\* WithdrawItem preserves TypeOK.
LEMMA TypeWithdrawItem ==
  ASSUME TypeOK, NEW i \in Items, WithdrawItem(i)
  PROVE  TypeOK'
<1>1. items[i] \in ItemRows
  BY RowsExist, NoneAssumption, Zenon DEF WithdrawItem
<1>2. [items[i] EXCEPT !.status = "withdrawn"] \in ItemRows
  BY <1>1, Zenon DEF ItemRows, ItemStatus
<1> QED BY <1>2, Zenon DEF TypeOK, WithdrawItem, records, gateway

\* HideItem preserves TypeOK.
LEMMA TypeHideItem ==
  ASSUME TypeOK, NEW i \in Items, HideItem(i)
  PROVE  TypeOK'
<1>1. items[i] \in ItemRows
  BY RowsExist, Zenon DEF HideItem
<1>2. [[items[i] EXCEPT !.status = "hidden"] EXCEPT !.order = None] \in ItemRows
  BY <1>1, Zenon DEF ItemRows, ItemStatus
<1>3. items' \in [Items -> ItemRows \cup {NoItem}]
  BY <1>2, Zenon DEF TypeOK, HideItem
<1>4. items[i].order \in Orders \cup {None}
  BY <1>1, Zenon DEF ItemRows
<1>5. orders' \in [Orders -> OrderRows \cup {NoOrder}]
  BY <1>4, StoreOrderStatus, NoneAssumption, Zenon DEF TypeOK, HideItem, OrderStatus
<1> QED BY <1>3, <1>5, Zenon DEF TypeOK, HideItem, records, gateway

\* CreateOrder preserves TypeOK.
LEMMA TypeCreateOrder ==
  ASSUME TypeOK, NEW o \in Orders, CreateOrder(o)
  PROVE  TypeOK'
<1> DEFINE i == ItemOf[o]
           price == items[i].price
           rate == rates[items[i].category]
           fee == commissionFee(price, rate)
           row == [status |-> "pendingPayment", price |-> price, rate |-> rate,
                   fee |-> fee, net |-> price - fee,
                   expiresAt |-> now + PaymentWindow, deliveredAt |-> None]
<1>1. i \in Items
  BY IdentityAssumption, Zenon
<1>2. items[i] \in ItemRows
  BY <1>1, RowsExist, NoneAssumption, Zenon DEF CreateOrder
<1>3. price \in Prices /\ items[i].category \in Categories
  BY <1>2, Zenon DEF ItemRows
<1>4. rate \in Rates
  BY <1>3, Zenon DEF TypeOK, CreateOrder
<1>5. price \in Nat /\ rate \in Nat /\ rate <= 10000
  BY <1>3, <1>4, AmountTypes
<1>6. fee \in 0..price
  <2> HIDE DEF price, rate
  <2> QED BY <1>5, CommissionFeeIsExact
<1>7. fee \in Nat /\ price - fee \in Nat
  <2> HIDE DEF price, fee
  <2> QED BY <1>5, <1>6
<1>8. now + PaymentWindow \in Nat
  BY TimeAssumption DEF TypeOK
<1>9. row \in OrderRows
  <2> HIDE DEF price, rate, fee
  <2> QED BY <1>3, <1>4, <1>7, <1>8, Zenon DEF OrderRows, OrderStatus
<1>10. orders' = [orders EXCEPT ![o] = row]
  BY Zenon DEF CreateOrder
<1>11. orders' \in [Orders -> OrderRows \cup {NoOrder}]
  <2> HIDE DEF row
  <2> QED BY <1>9, <1>10, Zenon DEF TypeOK
<1>12. [[items[i] EXCEPT !.status = "reserved"] EXCEPT !.order = o] \in ItemRows
  BY <1>2, Zenon DEF ItemRows, ItemStatus
<1>13. items' \in [Items -> ItemRows \cup {NoItem}]
  BY <1>1, <1>12, Zenon DEF TypeOK, CreateOrder
<1> QED BY <1>11, <1>13, Zenon DEF TypeOK, CreateOrder, records, gateway

\* CancelOrder preserves TypeOK.
LEMMA TypeCancelOrder ==
  ASSUME TypeOK, NEW o \in Orders, CancelOrder(o)
  PROVE  TypeOK'
<1>1. orders' \in [Orders -> OrderRows \cup {NoOrder}]
  BY StoreOrderStatus, NoneAssumption, Zenon DEF CancelOrder, OrderStatus
<1>2. items' \in [Items -> ItemRows \cup {NoItem}]
  BY TypeReleaseItem, Zenon DEF CancelOrder
<1> QED BY <1>1, <1>2, Zenon DEF TypeOK, CancelOrder, records, gateway

\* ExpireOrder preserves TypeOK.
LEMMA TypeExpireOrder ==
  ASSUME TypeOK, NEW o \in Orders, ExpireOrder(o)
  PROVE  TypeOK'
<1>1. orders' \in [Orders -> OrderRows \cup {NoOrder}]
  BY StoreOrderStatus, NoneAssumption, Zenon DEF ExpireOrder, OrderStatus
<1>2. items' \in [Items -> ItemRows \cup {NoItem}]
  BY TypeReleaseItem, Zenon DEF ExpireOrder
<1> QED BY <1>1, <1>2, Zenon DEF TypeOK, ExpireOrder, records, gateway

\* MarkDelivered preserves TypeOK.
LEMMA TypeMarkDelivered ==
  ASSUME TypeOK, NEW o \in Orders, MarkDelivered(o)
  PROVE  TypeOK'
<1>1. orders[o] \in OrderRows
  BY RowsExist, NoneAssumption, Zenon DEF MarkDelivered
<1>2. [[orders[o] EXCEPT !.status = "delivered"] EXCEPT !.deliveredAt = now] \in OrderRows
  BY <1>1, Zenon DEF TypeOK, OrderRows, OrderStatus
<1>3. orders' \in [Orders -> OrderRows \cup {NoOrder}]
  BY <1>2, Zenon DEF TypeOK, MarkDelivered
<1> QED BY <1>3, Zenon DEF TypeOK, MarkDelivered, listing, records, gateway

\* The transaction both kinds of completion share.
LEMMA TypeCompleteOrder ==
  ASSUME TypeOK, NEW o \in Orders, CompleteOrder(o)
  PROVE  /\ orders' \in [Orders -> OrderRows \cup {NoOrder}]
         /\ items' \in [Items -> ItemRows \cup {NoItem}]
         /\ settlements' \in [Orders -> SettlementRows \cup {NoSettlement}]
<1>1. orders[o].status = "delivered"
  BY Zenon DEF CompleteOrder, Completable
<1>2. orders' \in [Orders -> OrderRows \cup {NoOrder}]
  BY <1>1, StoreOrderStatus, NoneAssumption, Zenon DEF CompleteOrder, OrderStatus
<1>3. items' \in [Items -> ItemRows \cup {NoItem}]
  BY TypeReleaseItem, Zenon DEF CompleteOrder
<1>4. orders[o].net \in Nat
  BY <1>1, RowsExist, NoneAssumption, Zenon DEF OrderRows
<1>5. [status |-> "pending", amount |-> orders[o].net] \in SettlementRows
  BY <1>4, Zenon DEF SettlementRows
<1>6. settlements' \in [Orders -> SettlementRows \cup {NoSettlement}]
  BY <1>5, Zenon DEF TypeOK, CompleteOrder
<1> QED BY <1>2, <1>3, <1>6, Zenon

\* ConfirmReceived preserves TypeOK.
LEMMA TypeConfirmReceived ==
  ASSUME TypeOK, NEW w \in Workers, NEW o \in Orders,
         ConfirmReceived(w, o) \/ AutoCompleteOrder(w, o)
  PROVE  TypeOK'
<1>1. [op |-> "findSettlement", order |-> o] \in Calls
  BY CallForms, Zenon DEF SettlementCalls
<1>2. calls' \in [Workers -> Calls]
  BY <1>1, StoreCall, Zenon DEF ConfirmReceived, AutoCompleteOrder
<1>3. CompleteOrder(o)
  BY Zenon DEF ConfirmReceived, AutoCompleteOrder
<1> QED BY <1>2, <1>3, TypeCompleteOrder, Zenon
        DEF TypeOK, ConfirmReceived, AutoCompleteOrder, gateway

\* StartPayment preserves TypeOK.
LEMMA TypeStartPayment ==
  ASSUME TypeOK, NEW w \in Workers, NEW o \in Orders, NEW r \in Requests,
         StartPayment(w, o, r)
  PROVE  TypeOK'
<1>1. orders[o].price \in Prices
  BY RowsExist, Zenon DEF StartPayment, OrderRows
<1>2. [op |-> "startPayment", order |-> o, request |-> r,
       amount |-> orders[o].price, at |-> now] \in Calls
  BY <1>1, CallForms, Zenon DEF StartPaymentCalls, TypeOK
<1>3. calls' \in [Workers -> Calls]
  BY <1>2, StoreCall, Zenon DEF StartPayment
<1> QED BY <1>3, Zenon DEF TypeOK, StartPayment, listing, records, gateway

\* CreateOrFindPayment preserves TypeOK.
LEMMA TypeCreateOrFindPayment ==
  ASSUME TypeOK, NEW w \in Workers, CreateOrFindPayment(w)
  PROVE  TypeOK'
<1> DEFINE call == calls[w]
           row == [status |-> "pending", order |-> call.order,
                   amount |-> call.amount, txn |-> FALSE]
<1>1. call \in Calls /\ call.op = "startPayment"
  BY Zenon DEF TypeOK, CreateOrFindPayment
<1>2. call \in StartPaymentCalls
  BY <1>1, CallKinds, Zenon
<1>3. call.request \in Requests /\ row \in PaymentRows
  BY <1>2, Zenon DEF StartPaymentCalls, PaymentRows
<1>4. [op |-> "createPayment", request |-> call.request] \in Calls /\ Idle \in Calls
  BY <1>3, CallForms, Zenon DEF PaymentCalls
<1>5. calls' \in [Workers -> Calls]
  BY <1>4, Zenon DEF TypeOK, CreateOrFindPayment
<1>6. payments' = [payments EXCEPT ![call.request] = row] \/ payments' = payments
  BY Zenon DEF CreateOrFindPayment
<1>7. payments' \in [Requests -> PaymentRows \cup {NoPayment}]
  <2> HIDE DEF row
  <2> QED BY <1>3, <1>6, Zenon DEF TypeOK
<1> QED BY <1>5, <1>7, Zenon DEF TypeOK, CreateOrFindPayment, listing, gateway

\* GatewayCreatePayment preserves TypeOK.
LEMMA TypeGatewayCreatePayment ==
  ASSUME TypeOK, NEW w \in Workers, GatewayCreatePayment(w)
  PROVE  TypeOK'
<1>1. calls[w] \in Calls /\ calls[w].op = "createPayment"
  BY Zenon DEF TypeOK, GatewayCreatePayment
<1>2. calls[w] \in PaymentCalls
  BY <1>1, CallKinds, Zenon
<1>3. calls[w].request \in Requests /\ [calls[w] EXCEPT !.op = "attachPayment"] \in PaymentCalls
  BY <1>2, Zenon DEF PaymentCalls
<1>4. calls' \in [Workers -> Calls]
  BY <1>3, CallForms, Zenon DEF TypeOK, GatewayCreatePayment
<1> QED BY <1>3, <1>4, Zenon DEF TypeOK, GatewayCreatePayment, listing, records

\* A payment stays one when it gets its transaction.
LEMMA Attached ==
  ASSUME NEW row \in PaymentRows
  PROVE  [row EXCEPT !.txn = TRUE] \in PaymentRows
BY Zenon DEF PaymentRows

\* AttachPayment preserves TypeOK.
LEMMA TypeAttachPayment ==
  ASSUME TypeOK, NEW w \in Workers, AttachPaymentTransaction(w),
         payments[calls[w].request].status # None
  PROVE  TypeOK'
<1>1. calls[w] \in Calls /\ calls[w].op = "attachPayment"
  BY Zenon DEF TypeOK, AttachPaymentTransaction
<1>2. calls[w] \in PaymentCalls
  BY <1>1, CallKinds, Zenon
<1>3. calls[w].request \in Requests
  BY <1>2, Zenon DEF PaymentCalls
<1>4. [payments[calls[w].request] EXCEPT !.txn = TRUE] \in PaymentRows
  <2>1. PICK row \in PaymentRows : row = payments[calls[w].request]
    BY <1>3, RowsExist, Zenon
  <2> QED BY <2>1, Attached, Zenon
<1>5. payments' \in [Requests -> PaymentRows \cup {NoPayment}]
  BY <1>3, <1>4, Zenon DEF TypeOK, AttachPaymentTransaction
<1>6. calls' \in [Workers -> Calls]
  BY CallForms, StoreCall, Zenon DEF AttachPaymentTransaction
<1> QED BY <1>5, <1>6, Zenon DEF TypeOK, AttachPaymentTransaction, listing, gateway

\* ApplyPaymentCallback preserves TypeOK.
LEMMA TypeApplyPaymentCallback ==
  ASSUME TypeOK, NEW r \in Requests, ApplyPaymentCallback(r)
  PROVE  TypeOK'
<1>1. payments[r] \in PaymentRows
  BY RowsExist, NoneAssumption, Zenon DEF ApplyPaymentCallback
<1>2. [[payments[r] EXCEPT !.status = "succeeded"] EXCEPT !.txn = TRUE] \in PaymentRows
  BY <1>1, Zenon DEF PaymentRows
<1>3. payments' \in [Requests -> PaymentRows \cup {NoPayment}]
  BY <1>2, Zenon DEF TypeOK, ApplyPaymentCallback
<1>4. payments[r].order \in Orders
  BY <1>1, Zenon DEF PaymentRows
<1>5. orders' \in [Orders -> OrderRows \cup {NoOrder}]
  BY <1>4, StoreOrderStatus, NoneAssumption, Zenon DEF ApplyPaymentCallback, Payable, OrderStatus
<1> QED BY <1>3, <1>5, Zenon DEF TypeOK, ApplyPaymentCallback, listing, gateway

\* CreateRefund preserves TypeOK.
LEMMA TypeCreateRefund ==
  ASSUME TypeOK, NEW o \in Orders, CreateRefund(o)
  PROVE  TypeOK'
BY Zenon DEF TypeOK, CreateRefund, listing, gateway

\* DecideRefund preserves TypeOK.
LEMMA TypeDecideRefund ==
  ASSUME TypeOK, NEW w \in Workers, NEW o \in Orders, NEW approved \in BOOLEAN,
         DecideRefund(w, o, approved)
  PROVE  TypeOK'
<1> DEFINE call == [op |-> IF approved THEN "payRefund" ELSE "decideRefund",
                    order |-> o, approved |-> approved]
<1>1. call \in RefundCalls
  BY Zenon DEF RefundCalls
<1>2. calls' \in [Workers -> Calls]
  BY <1>1, CallForms, StoreCall, Zenon DEF DecideRefund
<1> QED BY <1>2, Zenon DEF TypeOK, DecideRefund, listing, records, gateway

\* GatewayRefund preserves TypeOK.
LEMMA TypeGatewayRefund ==
  ASSUME TypeOK, NEW w \in Workers, GatewayRefund(w)
  PROVE  TypeOK'
<1>1. calls[w] \in Calls /\ calls[w].op = "payRefund"
  BY Zenon DEF TypeOK, GatewayRefund
<1>2. calls[w] \in RefundCalls
  BY <1>1, CallKinds, Zenon
<1>3. calls[w].order \in Orders /\ [calls[w] EXCEPT !.op = "decideRefund"] \in RefundCalls
  BY <1>2, Zenon DEF RefundCalls
<1>4. calls' \in [Workers -> Calls]
  BY <1>3, CallForms, Zenon DEF TypeOK, GatewayRefund
<1> QED BY <1>3, <1>4 DEF TypeOK, GatewayRefund, listing, records

\* RecordRefund preserves TypeOK.
LEMMA TypeRecordRefund ==
  ASSUME TypeOK, NEW w \in Workers, RecordRefund(w),
         \A o \in Orders : orders[o].status # None => items[ItemOf[o]].status # None,
         \A o \in Orders : refunds[o] = "pending" => orders[o].status # None
  PROVE  TypeOK'
<1> DEFINE o == calls[w].order
<1>1. calls[w] \in Calls /\ calls[w].op = "decideRefund"
  BY Zenon DEF TypeOK, RecordRefund
<1>2. calls[w] \in RefundCalls
  BY <1>1, CallKinds, Zenon
<1>3. o \in Orders /\ ItemOf[o] \in Items
  BY <1>2, IdentityAssumption, Zenon DEF RefundCalls
<1>4. calls' \in [Workers -> Calls]
  BY CallForms, StoreCall, Zenon DEF RecordRefund
<1>5. refunds' \in [Orders -> {None, "pending", "succeeded", "rejected"}]
  BY DEF TypeOK, RecordRefund
<1>6. orders' \in [Orders -> OrderRows \cup {NoOrder}]
  <2>1. orders[o].status \in {"paid", "delivered", "disputed"} =>
          [orders EXCEPT ![o].status = "refunded"] \in [Orders -> OrderRows \cup {NoOrder}]
    BY <1>3, StoreOrderStatus, NoneAssumption, Zenon DEF OrderStatus
  <2> QED BY <2>1, Zenon DEF TypeOK, RecordRefund
<1>7. items' \in [Items -> ItemRows \cup {NoItem}]
  <2>1. refunds[o] = "pending" => Withdrawn(ItemOf[o]) \in [Items -> ItemRows \cup {NoItem}]
    BY <1>3, TypeWithdrawn, Zenon
  <2> QED BY <2>1, Zenon DEF TypeOK, RecordRefund
<1> QED BY <1>4, <1>5, <1>6, <1>7, Zenon DEF TypeOK, RecordRefund, gateway

\* CreateDispute preserves TypeOK.
LEMMA TypeCreateDispute ==
  ASSUME TypeOK, NEW o \in Orders, CreateDispute(o)
  PROVE  TypeOK'
<1>1. [status |-> "pending", previous |-> orders[o].status] \in DisputeRows
  BY Zenon DEF CreateDispute, DisputeRows
<1>2. disputes' \in [Orders -> DisputeRows \cup {NoDispute}]
  BY <1>1, Zenon DEF TypeOK, CreateDispute
<1>3. orders' \in [Orders -> OrderRows \cup {NoOrder}]
  BY StoreOrderStatus, NoneAssumption, Zenon DEF CreateDispute, OrderStatus
<1> QED BY <1>2, <1>3, Zenon DEF TypeOK, CreateDispute, listing, gateway

\* ResolveDispute preserves TypeOK.
LEMMA TypeResolveDispute ==
  ASSUME TypeOK, NEW w \in Workers, NEW o \in Orders, NEW refund \in BOOLEAN,
         ResolveDispute(w, o, refund)
  PROVE  TypeOK'
<1> DEFINE call == [op |-> IF refund THEN "payDispute" ELSE "resolveDispute",
                    order |-> o, refund |-> refund]
<1>1. call \in DisputeCalls
  BY Zenon DEF DisputeCalls
<1>2. calls' \in [Workers -> Calls]
  BY <1>1, CallForms, StoreCall, Zenon DEF ResolveDispute
<1> QED BY <1>2, Zenon DEF TypeOK, ResolveDispute, listing, records, gateway

\* GatewayDisputeRefund preserves TypeOK.
LEMMA TypeGatewayDisputeRefund ==
  ASSUME TypeOK, NEW w \in Workers, GatewayDisputeRefund(w)
  PROVE  TypeOK'
<1>1. calls[w] \in Calls /\ calls[w].op = "payDispute"
  BY Zenon DEF TypeOK, GatewayDisputeRefund
<1>2. calls[w] \in DisputeCalls
  BY <1>1, CallKinds, Zenon
<1>3. calls[w].order \in Orders /\ [calls[w] EXCEPT !.op = "resolveDispute"] \in DisputeCalls
  BY <1>2, Zenon DEF DisputeCalls
<1>4. calls' \in [Workers -> Calls]
  BY <1>3, CallForms, Zenon DEF TypeOK, GatewayDisputeRefund
<1> QED BY <1>3, <1>4 DEF TypeOK, GatewayDisputeRefund, listing, records

\* RecordResolution preserves TypeOK.
LEMMA TypeRecordResolution ==
  ASSUME TypeOK, NEW w \in Workers, RecordResolution(w),
         \A o \in Orders : orders[o].status # None => items[ItemOf[o]].status # None
  PROVE  TypeOK'
<1> DEFINE o == calls[w].order
<1>1. calls[w] \in Calls /\ calls[w].op = "resolveDispute"
  BY Zenon DEF TypeOK, RecordResolution
<1>2. calls[w] \in DisputeCalls
  BY <1>1, CallKinds, Zenon
<1>3. o \in Orders /\ ItemOf[o] \in Items
  BY <1>2, IdentityAssumption, Zenon DEF DisputeCalls
<1>4. calls' \in [Workers -> Calls]
  BY CallForms, StoreCall, Zenon DEF RecordResolution
<1>5. refunds' \in [Orders -> {None, "pending", "succeeded", "rejected"}]
  BY Zenon DEF TypeOK, RecordResolution
<1>6. ASSUME disputes[o].status = "pending"
      PROVE  /\ disputes[o].previous \in OrderStatus
             /\ [disputes[o] EXCEPT !.status = "resolved"] \in DisputeRows
             /\ [disputes[o] EXCEPT !.status = "rejected"] \in DisputeRows
  BY <1>3, <1>6, RowsExist, NoneAssumption, Zenon DEF DisputeRows, OrderStatus
<1>7. disputes' \in [Orders -> DisputeRows \cup {NoDispute}]
  BY <1>3, <1>6, Zenon DEF TypeOK, RecordResolution
<1>8. orders' \in [Orders -> OrderRows \cup {NoOrder}]
  <2>1. orders[o].status = "disputed" => \A s \in OrderStatus :
          [orders EXCEPT ![o].status = s] \in [Orders -> OrderRows \cup {NoOrder}]
    BY <1>3, StoreOrderStatus, NoneAssumption, Zenon
  <2>2. orders[o].status = "disputed" =>
          [orders EXCEPT ![o].status = "refunded"] \in [Orders -> OrderRows \cup {NoOrder}]
    BY <2>1, Zenon DEF OrderStatus
  <2>3. disputes[o].status = "pending" /\ orders[o].status = "disputed" =>
          [orders EXCEPT ![o].status = disputes[o].previous]
            \in [Orders -> OrderRows \cup {NoOrder}]
    BY <1>6, <2>1, Zenon
  <2> QED BY <2>2, <2>3, Zenon DEF TypeOK, RecordResolution
<1>9. items' \in [Items -> ItemRows \cup {NoItem}]
  <2>1. orders[o].status = "disputed" =>
          Withdrawn(ItemOf[o]) \in [Items -> ItemRows \cup {NoItem}]
    BY <1>3, TypeWithdrawn, NoneAssumption, Zenon
  <2> QED BY <2>1, Zenon DEF TypeOK, RecordResolution
<1> QED BY <1>4, <1>5, <1>7, <1>8, <1>9, Zenon DEF TypeOK, RecordResolution, gateway

\* RetrySettlement preserves TypeOK.
LEMMA TypeRetrySettlement ==
  ASSUME TypeOK, NEW w \in Workers, NEW o \in Orders, RetrySettlement(w, o)
  PROVE  TypeOK'
<1>1. [op |-> "findSettlement", order |-> o] \in Calls
  BY CallForms, Zenon DEF SettlementCalls
<1>2. calls' \in [Workers -> Calls]
  BY <1>1, StoreCall, Zenon DEF RetrySettlement
<1> QED BY <1>2, Zenon DEF TypeOK, RetrySettlement, listing, records, gateway

\* The steps of processSettlement between its lookup and its update.
LEMMA TypeSettleSteps ==
  ASSUME TypeOK, NEW w \in Workers,
         FindSettlement(w) \/ GatewaySettle(w) \/ GatewaySettleFails(w)
  PROVE  TypeOK'
<1>1. calls[w] \in Calls /\ calls[w].op \in {"findSettlement", "settle"}
  BY Zenon DEF TypeOK, FindSettlement, GatewaySettle, GatewaySettleFails
<1>2. calls[w] \in SettlementCalls
  BY <1>1, CallKinds, Zenon
<1>3. /\ calls[w].order \in Orders
      /\ [calls[w] EXCEPT !.op = "settle"] \in Calls
      /\ [calls[w] EXCEPT !.op = "settleDone"] \in Calls
      /\ [calls[w] EXCEPT !.op = "settleFailed"] \in Calls
  BY <1>2, CallForms, Zenon DEF SettlementCalls
<1>4. calls' \in [Workers -> Calls]
  BY <1>3, CallForms, Zenon DEF TypeOK, FindSettlement, GatewaySettle, GatewaySettleFails
<1> QED BY <1>3, <1>4, Zenon
        DEF TypeOK, FindSettlement, GatewaySettle, GatewaySettleFails, listing, records, gateway

\* UpdateSettlement preserves TypeOK.
LEMMA TypeUpdateSettlement ==
  ASSUME TypeOK, NEW w \in Workers, UpdateSettlement(w)
  PROVE  TypeOK'
<1> DEFINE o == calls[w].order
           status == IF calls[w].op = "settleDone" THEN "succeeded" ELSE "failed"
<1>1. calls[w] \in Calls /\ calls[w].op \in {"settleDone", "settleFailed"}
  BY Zenon DEF TypeOK, UpdateSettlement
<1>2. calls[w] \in SettlementCalls
  BY <1>1, CallKinds, Zenon
<1>3. o \in Orders
  BY <1>2, Zenon DEF SettlementCalls
<1>4. Unsettled(o) => [settlements[o] EXCEPT !.status = status] \in SettlementRows
  BY <1>3, RowsExist, NoneAssumption, Zenon DEF Unsettled, SettlementRows
<1>5. settlements' \in [Orders -> SettlementRows \cup {NoSettlement}]
  BY <1>3, <1>4, Zenon DEF TypeOK, UpdateSettlement
<1>6. calls' \in [Workers -> Calls]
  BY CallForms, StoreCall, Zenon DEF UpdateSettlement
<1> QED BY <1>5, <1>6, Zenon DEF TypeOK, UpdateSettlement, listing, gateway

\* Every step keeps every table within its schema.
LEMMA TypeStep ==
  ASSUME IInv, [Next]_vars
  PROVE  TypeOK'
<1>0. /\ TypeOK
      /\ \A o \in Orders : orders[o].status # None => items[ItemOf[o]].status # None
      /\ \A o \in Orders : refunds[o] = "pending" => orders[o].status # None
      /\ \A w \in Workers : calls[w].op = "attachPayment" =>
           payments[calls[w].request].status # None
  BY NoneAssumption, Zenon DEF IInv, Sale, OnSaleUnsold, RefundAndDisputeFreeze, Paying
<1>1. CASE \E c \in Categories, rate \in Rates : SaveCategory(c, rate)
  BY <1>0, <1>1, TypeSaveCategory, Zenon
<1>2. CASE \E i \in Items, c \in Categories, price \in Prices,
              status \in {"draft", "published"} : CreateItem(i, c, price, status)
  BY <1>0, <1>2, TypeCreateItem, Zenon
<1>3. CASE \E i \in Items, c \in Categories, price \in Prices, w \in Workers,
              requested \in {"draft", "published", None} :
                UpdateItem(w, i, c, price, requested)
  BY <1>0, <1>3, TypeUpdateItem, Zenon
<1>4. CASE \E i \in Items : WithdrawItem(i) \/ HideItem(i)
  BY <1>0, <1>4, TypeWithdrawItem, TypeHideItem, Zenon
<1>5. CASE \E o \in Orders : \/ CreateOrder(o) \/ CancelOrder(o) \/ ExpireOrder(o)
                             \/ MarkDelivered(o) \/ CreateRefund(o) \/ CreateDispute(o)
  BY <1>0, <1>5, TypeCreateOrder, TypeCancelOrder, TypeExpireOrder,
     TypeMarkDelivered, TypeCreateRefund, TypeCreateDispute, Zenon
<1>6. CASE \E r \in Requests : ApplyPaymentCallback(r)
  BY <1>0, <1>6, TypeApplyPaymentCallback, Zenon
<1>7. CASE \E w \in Workers, o \in Orders :
             \/ ConfirmReceived(w, o) \/ AutoCompleteOrder(w, o) \/ RetrySettlement(w, o)
  BY <1>0, <1>7, TypeConfirmReceived, TypeRetrySettlement, Zenon
<1>8. CASE \E w \in Workers, o \in Orders, r \in Requests : StartPayment(w, o, r)
  BY <1>0, <1>8, TypeStartPayment, Zenon
<1>9. CASE \E w \in Workers, o \in Orders, answer \in BOOLEAN :
             DecideRefund(w, o, answer) \/ ResolveDispute(w, o, answer)
  BY <1>0, <1>9, TypeDecideRefund, TypeResolveDispute, Zenon
<1>10. CASE \E w \in Workers : CallStep(w)
  <2> SUFFICES ASSUME NEW w \in Workers, CallStep(w)
               PROVE  TypeOK'
    BY <1>10, Zenon
  <2>1. CASE WriteItem(w) \/ CreateOrFindPayment(w) \/ GatewayCreatePayment(w)
    BY <1>0, <2>1, TypeWriteItem, TypeCreateOrFindPayment, TypeGatewayCreatePayment, Zenon
  <2>2. CASE AttachPaymentTransaction(w)
    <3>1. payments[calls[w].request].status # None
      BY <1>0, <2>2, Zenon DEF AttachPaymentTransaction
    <3> QED BY <1>0, <2>2, <3>1, TypeAttachPayment, Zenon
  <2>3. CASE GatewayRefund(w) \/ RecordRefund(w) \/ GatewayDisputeRefund(w)
               \/ RecordResolution(w)
    BY <1>0, <2>3, TypeGatewayRefund, TypeRecordRefund, TypeGatewayDisputeRefund,
       TypeRecordResolution, Zenon
  <2>4. CASE FindSettlement(w) \/ GatewaySettle(w) \/ GatewaySettleFails(w)
    BY <1>0, <2>4, TypeSettleSteps, Zenon
  <2>5. CASE UpdateSettlement(w)
    BY <1>0, <2>5, TypeUpdateSettlement, Zenon
  <2> QED BY <2>1, <2>2, <2>3, <2>4, <2>5, Zenon DEF CallStep
<1>11. CASE Restart
  BY <1>0, <1>11, CallForms, Zenon DEF TypeOK, Restart, listing, records, gateway
<1>12. CASE Tick
  BY <1>0, <1>12 DEF TypeOK, Tick, listing, records, gateway
<1>13. CASE UNCHANGED vars
  BY <1>0, <1>13, Zenon DEF TypeOK, vars
<1> QED BY <1>1, <1>2, <1>3, <1>4, <1>5, <1>6, <1>7, <1>8, <1>9, <1>10, <1>11,
           <1>12, <1>13, Zenon DEF Next

----------------------------------------------------------------------------
(* Sales *)

\* A step that changes neither listings nor orders.
LEMMA SaleQuiet ==
  ASSUME Sale, UNCHANGED <<items, orders>>
  PROVE  Sale'
BY DEF Sale, OnSaleUnsold, ReservationAgrees, HoldsOwnOrder, SoldOnce

\* A step that moves one live order to another live status and leaves the
\* listings alone.
LEMMA SaleLiveMove ==
  ASSUME TypeOK, Sale, NEW o \in Orders, UNCHANGED items,
         orders[o].status \in Live,
         orders'[o].status \in {"paid", "delivered", "disputed"},
         \A p \in Orders : p # o => orders'[p] = orders[p]
  PROVE  Sale'
<1>1. OnSaleUnsold'
  BY NoneAssumption, Zenon DEF Sale, OnSaleUnsold, Live
<1>2. SoldOnce'
  BY NoneAssumption, Zenon DEF Sale, SoldOnce, Live
<1>3. \A i \in Items : items[i].order # None => items[i].order \in Orders
  BY DEF TypeOK, NoItem, ItemRows
<1>4. ReservationAgrees'
  BY <1>3 DEF Sale, ReservationAgrees, HoldsOwnOrder, Live
<1> QED BY <1>1, <1>2, <1>4, Zenon DEF Sale

\* A step that edits a listing no order stands for.
LEMMA SaleItemEdit ==
  ASSUME TypeOK, Sale, NEW i \in Items, UNCHANGED orders,
         \A o \in Orders : ItemOf[o] = i => orders[o].status \in {None, "cancelled"},
         \A j \in Items : j # i => items'[j] = items[j],
         items'[i].order = None, items'[i].status # None
  PROVE  Sale'
<1>1. OnSaleUnsold'
  BY IdentityAssumption, Zenon DEF Sale, OnSaleUnsold
<1>2. SoldOnce'
  BY Zenon DEF Sale, SoldOnce
<1>4. ReservationAgrees'
  BY IdentityAssumption, NoneAssumption DEF Sale, ReservationAgrees, HoldsOwnOrder
<1> QED BY <1>1, <1>2, <1>4, Zenon DEF Sale

\* CreateItem preserves what is known of listings and their orders.
LEMMA SaleCreateItem ==
  ASSUME TypeOK, Sale, NEW i \in Items, NEW c \in Categories, NEW price \in Prices,
         NEW status \in {"draft", "published"}, CreateItem(i, c, price, status)
  PROVE  Sale'
<1>1. \A o \in Orders : ItemOf[o] = i => orders[o].status \in {None, "cancelled"}
  BY Zenon DEF CreateItem, Sale, OnSaleUnsold
<1>2. \A j \in Items : j # i => items'[j] = items[j]
  BY Zenon DEF TypeOK, CreateItem
<1>3. items'[i].order = None /\ items'[i].status # None
  BY NoneAssumption, Zenon DEF TypeOK, CreateItem
<1> QED BY <1>1, <1>2, <1>3, SaleItemEdit, Zenon DEF CreateItem

\* WriteItem preserves what is known of listings and their orders.
LEMMA SaleWriteItem ==
  ASSUME TypeOK, Sale, NEW w \in Workers, WriteItem(w)
  PROVE  Sale'
<1> DEFINE i == calls[w].item
<1>1. calls[w] \in Calls /\ calls[w].op = "updateItem"
  BY Zenon DEF TypeOK, WriteItem
<1>2. calls[w] \in UpdateItemCalls
  BY <1>1, CallKinds, Zenon
<1>3. i \in Items /\ calls[w].status \in ItemStatus
  BY <1>2, Zenon DEF UpdateItemCalls
<1>4. CASE items[i].status \in {"draft", "published"}
  <2>1. \A o \in Orders : ItemOf[o] = i => orders[o].status \in {None, "cancelled"}
    BY <1>4, Zenon DEF Sale, OnSaleUnsold
  <2>2. \A j \in Items : j # i => items'[j] = items[j]
    BY <1>4, Zenon DEF TypeOK, WriteItem
  <2>3. items[i] \in ItemRows
    BY <1>3, <1>4, RowsExist, NoneAssumption, Zenon
  <2>4. items[i].order = None
    BY <1>3, <1>4, Zenon DEF Sale, ReservationAgrees, HoldsOwnOrder
  <2>5. items'[i].order = None /\ items'[i].status = calls[w].status
    BY <1>3, <1>4, <2>3, <2>4, Zenon DEF TypeOK, WriteItem, ItemRows
  <2>6. items'[i].status # None
    BY <1>3, <2>5, NoneAssumption, Zenon DEF ItemStatus
  <2> QED BY <1>3, <2>1, <2>2, <2>5, <2>6, SaleItemEdit, Zenon DEF WriteItem
<1>5. CASE items[i].status \notin {"draft", "published"}
  BY <1>5, SaleQuiet, Zenon DEF WriteItem
<1> QED BY <1>4, <1>5, Zenon

\* WithdrawItem preserves what is known of listings and their orders.
LEMMA SaleWithdrawItem ==
  ASSUME TypeOK, Sale, NEW i \in Items, WithdrawItem(i)
  PROVE  Sale'
<1>1. items[i] \in ItemRows
  BY RowsExist, NoneAssumption, Zenon DEF WithdrawItem
<1>2. items[i].order = None
  BY Zenon DEF WithdrawItem, Sale, ReservationAgrees, HoldsOwnOrder
<1>3. /\ \A j \in Items : j # i => items'[j] = items[j]
      /\ items'[i].order = None
      /\ items'[i].status = "withdrawn"
  BY <1>1, <1>2, Zenon DEF TypeOK, WithdrawItem, ItemRows
<1>4. UNCHANGED orders
  BY Zenon DEF WithdrawItem
<1>5. OnSaleUnsold'
  BY <1>3, <1>4, IdentityAssumption, NoneAssumption, Zenon DEF Sale, OnSaleUnsold
<1>6. SoldOnce'
  BY <1>4, Zenon DEF Sale, SoldOnce
<1>7. ReservationAgrees'
  BY <1>2, <1>3, <1>4, IdentityAssumption, NoneAssumption DEF Sale, ReservationAgrees, HoldsOwnOrder
<1> QED BY <1>5, <1>6, <1>7, Zenon DEF Sale

\* HideItem preserves what is known of listings and their orders.
LEMMA SaleHideItem ==
  ASSUME TypeOK, Sale, NEW i \in Items, HideItem(i)
  PROVE  Sale'
<1>1. items[i] \in ItemRows
  BY RowsExist, Zenon DEF HideItem
<1>2. /\ \A j \in Items : j # i => items'[j] = items[j]
      /\ items'[i].order = None
      /\ items'[i].status = "hidden"
  BY <1>1, Zenon DEF TypeOK, HideItem, ItemRows
<1>3. \A o \in Orders : \/ orders'[o].status = orders[o].status
                        \/ /\ orders[o].status = "pendingPayment"
                           /\ orders'[o].status = "cancelled"
  BY DEF TypeOK, HideItem, OrderRows, NoOrder
<1>4. \A o \in Orders : ItemOf[o] = i => orders'[o].status # "pendingPayment"
  <2> SUFFICES ASSUME NEW o \in Orders, ItemOf[o] = i, orders[o].status = "pendingPayment"
               PROVE  orders'[o].status = "cancelled"
    BY <1>3, Zenon
  <2>1. items[i].order = o
    BY Zenon DEF Sale, ReservationAgrees, HoldsOwnOrder
  <2>2. items[i].status = "reserved" /\ o # None
    BY <2>1, NoneAssumption DEF Sale, ReservationAgrees, HoldsOwnOrder
  <2>3. orders[o] \in OrderRows
    BY RowsExist, NoneAssumption, Zenon
  <2> QED BY <2>1, <2>2, <2>3, Zenon DEF TypeOK, HideItem, OrderRows
<1>5. OnSaleUnsold'
  BY <1>2, <1>3, IdentityAssumption, NoneAssumption DEF Sale, OnSaleUnsold
<1>6. SoldOnce'
  BY <1>3, NoneAssumption, Zenon DEF Sale, SoldOnce
<1>7. \A j \in Items : j # i /\ items[j].order # None =>
         /\ items[j].order \in Orders
         /\ orders'[items[j].order] = orders[items[j].order]
  <2> SUFFICES ASSUME NEW j \in Items, j # i, items[j].order # None
               PROVE  /\ items[j].order \in Orders
                      /\ orders'[items[j].order] = orders[items[j].order]
    OBVIOUS
  <2>1. items[j].order \in Orders
    BY DEF TypeOK, NoItem, ItemRows
  <2>2. items[j].order # items[i].order
    BY DEF Sale, ReservationAgrees, HoldsOwnOrder
  <2> QED BY <2>1, <2>2, Zenon DEF TypeOK, HideItem
<1>8. ReservationAgrees'
  <2>1. ASSUME NEW j \in Items
        PROVE  HoldsOwnOrder(j)'
    BY <1>2, <1>7 DEF Sale, ReservationAgrees, HoldsOwnOrder
  <2>2. ASSUME NEW o \in Orders, orders'[o].status = "pendingPayment"
        PROVE  items'[ItemOf[o]].order = o
    BY <2>2, <1>2, <1>3, <1>4, IdentityAssumption DEF Sale, ReservationAgrees, HoldsOwnOrder
  <2> QED BY <2>1, <2>2, Zenon DEF ReservationAgrees
<1> QED BY <1>5, <1>6, <1>8, Zenon DEF Sale

\* CreateOrder preserves what is known of listings and their orders.
LEMMA SaleCreateOrder ==
  ASSUME TypeOK, Sale, NEW o \in Orders, CreateOrder(o)
  PROVE  Sale'
<1> DEFINE i == ItemOf[o]
<1>1. i \in Items /\ items[i] \in ItemRows
  BY RowsExist, IdentityAssumption, NoneAssumption, Zenon DEF CreateOrder
<1>2. /\ \A j \in Items : j # i => items'[j] = items[j]
      /\ items'[i].order = o
      /\ items'[i].status = "reserved"
  BY <1>1, Zenon DEF TypeOK, CreateOrder, ItemRows
<1>3. /\ \A p \in Orders : p # o => orders'[p] = orders[p]
      /\ orders'[o].status = "pendingPayment"
  BY Zenon DEF TypeOK, CreateOrder
<1>4. \A p \in Orders : ItemOf[p] = i => orders[p].status \in {None, "cancelled"}
  BY Zenon DEF CreateOrder, Sale, OnSaleUnsold
<1>5. \A j \in Items : items[j].order # None =>
        items[j].order \in Orders /\ items[j].order # o
  BY NoneAssumption DEF TypeOK, NoItem, ItemRows, CreateOrder, Sale, ReservationAgrees, HoldsOwnOrder, Live
<1>6. OnSaleUnsold'
  BY <1>1, <1>2, <1>3, IdentityAssumption, NoneAssumption, Zenon DEF Sale, OnSaleUnsold
<1>7. SoldOnce'
  BY <1>3, <1>4, Zenon DEF Sale, SoldOnce
<1>8. ReservationAgrees'
  <2>1. ASSUME NEW j \in Items
        PROVE  HoldsOwnOrder(j)'
    BY <1>2, <1>3, <1>5 DEF Sale, ReservationAgrees, HoldsOwnOrder, Live
  <2>2. ASSUME NEW p \in Orders, orders'[p].status = "pendingPayment"
        PROVE  items'[ItemOf[p]].order = p
    BY <2>2, <1>2, <1>3, <1>4, IdentityAssumption, NoneAssumption
       DEF Sale, ReservationAgrees, HoldsOwnOrder
  <2> QED BY <2>1, <2>2, Zenon DEF ReservationAgrees
<1> QED BY <1>6, <1>7, <1>8, Zenon DEF Sale

\* CancelOrder preserves what is known of listings and their orders.
LEMMA SaleCancelOrder ==
  ASSUME TypeOK, Sale, NEW o \in Orders, CancelOrder(o) \/ ExpireOrder(o)
  PROVE  Sale'
<1> DEFINE i == ItemOf[o]
<1>1. orders[o].status = "pendingPayment" /\ items[i].order = o
  BY Zenon DEF CancelOrder, ExpireOrder, Sale, ReservationAgrees, HoldsOwnOrder
<1>2. i \in Items /\ items[i] \in ItemRows
  BY <1>1, IdentityAssumption, NoneAssumption DEF TypeOK, NoItem
<1>3. orders[o] \in OrderRows
  BY <1>1, RowsExist, NoneAssumption, Zenon
<1>4. /\ \A j \in Items : j # i => items'[j] = items[j]
      /\ items'[i].order = None
      /\ items'[i].status = "published"
  <2>1. items' = [items EXCEPT ![i] = Relisted(o)]
    BY <1>1, Zenon DEF CancelOrder, ExpireOrder, ReleaseItem
  <2> QED BY <1>2, <2>1, Zenon DEF TypeOK, Relisted, ItemRows
<1>5. /\ \A p \in Orders : p # o => orders'[p] = orders[p]
      /\ orders'[o].status = "cancelled"
  BY <1>3 DEF TypeOK, CancelOrder, ExpireOrder, OrderRows
<1>6. \A p \in Orders : ItemOf[p] = i => orders'[p].status \in {None, "cancelled"}
  BY <1>1, <1>5, NoneAssumption, Zenon DEF Sale, SoldOnce
<1>7. OnSaleUnsold'
  BY <1>1, <1>2, <1>4, <1>5, <1>6, IdentityAssumption, NoneAssumption
     DEF Sale, OnSaleUnsold
<1>8. SoldOnce'
  BY <1>5, Zenon DEF Sale, SoldOnce
<1>9. \A j \in Items : j # i /\ items[j].order # None =>
        items[j].order \in Orders /\ items[j].order # o
  BY <1>1 DEF TypeOK, NoItem, ItemRows, Sale, ReservationAgrees, HoldsOwnOrder
<1>10. ReservationAgrees'
  <2>1. ASSUME NEW j \in Items
        PROVE  HoldsOwnOrder(j)'
    BY <1>4, <1>5, <1>9 DEF Sale, ReservationAgrees, HoldsOwnOrder
  <2>2. ASSUME NEW p \in Orders, orders'[p].status = "pendingPayment"
        PROVE  items'[ItemOf[p]].order = p
    BY <2>2, <1>4, <1>5, <1>6, IdentityAssumption, NoneAssumption
       DEF Sale, ReservationAgrees, HoldsOwnOrder
  <2> QED BY <2>1, <2>2, Zenon DEF ReservationAgrees
<1> QED BY <1>7, <1>8, <1>10, Zenon DEF Sale

\* CompleteOrder preserves what is known of listings and their orders.
LEMMA SaleCompleteOrder ==
  ASSUME TypeOK, Sale, NEW o \in Orders, CompleteOrder(o)
  PROVE  Sale'
<1> DEFINE i == ItemOf[o]
<1>1. orders[o].status = "delivered" /\ i \in Items
  BY IdentityAssumption, Zenon DEF CompleteOrder, Completable
<1>2. orders[o] \in OrderRows
  BY <1>1, RowsExist, NoneAssumption, Zenon
<1>3. /\ \A p \in Orders : p # o => orders'[p] = orders[p]
      /\ orders'[o].status = "completed"
  BY <1>2, Zenon DEF TypeOK, CompleteOrder, OrderRows
<1>4. /\ \A j \in Items : j # i \/ items[i].order # o => items'[j] = items[j]
      /\ items[i].order = o => items'[i].order = o /\ items'[i].status = "sold"
  <2>1. items[i].order = o => items[i] \in ItemRows
    BY <1>1, NoneAssumption DEF TypeOK, NoItem
  <2> QED BY <1>1, <2>1, Zenon DEF TypeOK, CompleteOrder, ReleaseItem, Sold, ItemRows
<1>5. \A j \in Items : items[j].order # None => items[j].order \in Orders
  BY DEF TypeOK, NoItem, ItemRows
<1>6. OnSaleUnsold'
  BY <1>1, <1>3, <1>4, IdentityAssumption, NoneAssumption DEF Sale, OnSaleUnsold
<1>7. SoldOnce'
  BY <1>1, <1>3, NoneAssumption, Zenon DEF Sale, SoldOnce
<1>8. ReservationAgrees'
  <2>1. ASSUME NEW j \in Items
        PROVE  HoldsOwnOrder(j)'
    BY <1>3, <1>4, <1>5 DEF Sale, ReservationAgrees, HoldsOwnOrder
  <2>2. ASSUME NEW p \in Orders, orders'[p].status = "pendingPayment"
        PROVE  items'[ItemOf[p]].order = p
    BY <2>2, <1>1, <1>3, <1>4, IdentityAssumption DEF Sale, ReservationAgrees, HoldsOwnOrder
  <2> QED BY <2>1, <2>2, Zenon DEF ReservationAgrees
<1> QED BY <1>6, <1>7, <1>8, Zenon DEF Sale

\* A refund: the order is refunded and its item leaves the market.
LEMMA SaleRefunded ==
  ASSUME TypeOK, Sale, NEW o \in Orders,
         orders[o].status \in {"paid", "delivered", "disputed"},
         orders' = [orders EXCEPT ![o].status = "refunded"],
         items' = Withdrawn(ItemOf[o])
  PROVE  Sale'
<1> DEFINE i == ItemOf[o]
<1>1. i \in Items /\ items[i] \in ItemRows
  BY RowsExist, IdentityAssumption, NoneAssumption, Zenon DEF Sale, OnSaleUnsold
<1>2. orders[o] \in OrderRows
  BY RowsExist, NoneAssumption, Zenon
<1>3. /\ \A p \in Orders : p # o => orders'[p] = orders[p]
      /\ orders'[o].status = "refunded"
  BY <1>2, Zenon DEF TypeOK, OrderRows
<1>4. /\ \A j \in Items : j # i => items'[j] = items[j]
      /\ items'[i].order = None
      /\ items'[i].status = "withdrawn"
  BY <1>1, Zenon DEF TypeOK, Withdrawn, ItemRows
<1>5. \A p \in Orders : ItemOf[p] = i => orders'[p].status # "pendingPayment"
  BY <1>3, NoneAssumption, Zenon DEF Sale, SoldOnce
<1>6. \A j \in Items : j # i /\ items[j].order # None =>
        items[j].order \in Orders /\ items[j].order # o
  BY DEF TypeOK, NoItem, ItemRows, Sale, ReservationAgrees, HoldsOwnOrder
<1>7. OnSaleUnsold'
  BY <1>1, <1>3, <1>4, IdentityAssumption, NoneAssumption DEF Sale, OnSaleUnsold
<1>8. SoldOnce'
  BY <1>3, NoneAssumption DEF Sale, SoldOnce
<1>9. ReservationAgrees'
  <2>1. ASSUME NEW j \in Items
        PROVE  HoldsOwnOrder(j)'
    BY <1>3, <1>4, <1>6 DEF Sale, ReservationAgrees, HoldsOwnOrder
  <2>2. ASSUME NEW p \in Orders, orders'[p].status = "pendingPayment"
        PROVE  items'[ItemOf[p]].order = p
    BY <2>2, <1>3, <1>4, <1>5, IdentityAssumption DEF Sale, ReservationAgrees, HoldsOwnOrder
  <2> QED BY <2>1, <2>2, Zenon DEF ReservationAgrees
<1> QED BY <1>7, <1>8, <1>9, Zenon DEF Sale

\* The steps that touch listings or orders.
SaleMove ==
  \/ \E i \in Items, c \in Categories, price \in Prices,
        status \in {"draft", "published"} : CreateItem(i, c, price, status)
  \/ \E i \in Items : WithdrawItem(i) \/ HideItem(i)
  \/ \E o \in Orders : \/ CreateOrder(o) \/ CancelOrder(o) \/ ExpireOrder(o)
                       \/ MarkDelivered(o) \/ CreateDispute(o)
  \/ \E r \in Requests : ApplyPaymentCallback(r)
  \/ \E w \in Workers, o \in Orders : ConfirmReceived(w, o) \/ AutoCompleteOrder(w, o)
  \/ \E w \in Workers : WriteItem(w) \/ RecordRefund(w) \/ RecordResolution(w)

\* Steps that are neither sales nor refund requests leave these tables alone.
LEMMA OtherSteps ==
  ASSUME [Next]_vars
  PROVE  \/ SaleMove
         \/ \E o \in Orders : CreateRefund(o)
         \/ UNCHANGED <<items, orders, refunds, disputes>>
<1>1. CASE UNCHANGED vars \/ Tick \/ Restart
  BY <1>1, Zenon DEF vars, Tick, Restart, listing, records
<1>2. ASSUME NEW w \in Workers, CallStep(w)
      PROVE  SaleMove \/ UNCHANGED <<items, orders, refunds, disputes>>
  <2>1. CASE \/ CreateOrFindPayment(w) \/ GatewayCreatePayment(w)
             \/ AttachPaymentTransaction(w) \/ FindSettlement(w)
    BY <2>1, Zenon DEF CreateOrFindPayment, GatewayCreatePayment, AttachPaymentTransaction,
       FindSettlement, listing, records
  <2>2. CASE \/ GatewayRefund(w) \/ GatewayDisputeRefund(w) \/ GatewaySettle(w)
             \/ GatewaySettleFails(w) \/ UpdateSettlement(w)
    BY <2>2, Zenon DEF GatewayRefund, GatewayDisputeRefund, GatewaySettle, GatewaySettleFails,
       UpdateSettlement, listing, records
  <2> QED BY <1>2, <2>1, <2>2, Zenon DEF CallStep, SaleMove
<1>3. CASE \E w \in Workers, o \in Orders :
             \/ RetrySettlement(w, o)
             \/ \E r \in Requests : StartPayment(w, o, r)
             \/ \E answer \in BOOLEAN : \/ DecideRefund(w, o, answer)
                                        \/ ResolveDispute(w, o, answer)
  BY <1>3 DEF RetrySettlement, StartPayment, DecideRefund, ResolveDispute, listing, records
<1>4. CASE \E c \in Categories, rate \in Rates : SaveCategory(c, rate)
  BY <1>4, Zenon DEF SaveCategory, records
<1>5. CASE \E i \in Items, c \in Categories, price \in Prices, w \in Workers,
              requested \in {"draft", "published", None} :
                UpdateItem(w, i, c, price, requested)
  BY <1>5, Zenon DEF UpdateItem, listing, records
<1>6. CASE \E o \in Orders : CreateRefund(o)
  BY <1>6, Zenon
<1>7. CASE SaleMove
  BY <1>7, Zenon
<1> QED BY <1>1, <1>2, <1>3, <1>4, <1>5, <1>6, <1>7, Zenon DEF Next, SaleMove

\* The effect of recording a decision on a refund.
LEMMA RefundEffect ==
  ASSUME TypeOK, RefundAndDisputeFreeze, NEW w \in Workers, RecordRefund(w)
  PROVE  /\ calls[w] \in RefundCalls
         /\ calls[w].op = "decideRefund"
         /\ calls[w].order \in Orders
         /\ \/ UNCHANGED <<items, orders>>
            \/ /\ calls[w].approved
               /\ refunds[calls[w].order] = "pending"
               /\ orders[calls[w].order].status \in {"paid", "delivered"}
               /\ orders' = [orders EXCEPT ![calls[w].order].status = "refunded"]
               /\ items' = Withdrawn(ItemOf[calls[w].order])
               /\ refunds' = [refunds EXCEPT ![calls[w].order] = "succeeded"]
<1>1. calls[w] \in Calls /\ calls[w].op = "decideRefund"
  BY Zenon DEF TypeOK, RecordRefund
<1>2. calls[w] \in RefundCalls
  BY <1>1, CallKinds, Zenon
<1>3. calls[w].order \in Orders
  BY <1>2, Zenon DEF RefundCalls
<1> QED BY <1>1, <1>2, <1>3, Zenon DEF RecordRefund, RefundAndDisputeFreeze

\* The effect of recording a decision on a dispute.
LEMMA ResolutionEffect ==
  ASSUME TypeOK, RefundAndDisputeFreeze, NEW w \in Workers, RecordResolution(w)
  PROVE  /\ calls[w] \in DisputeCalls
         /\ calls[w].op = "resolveDispute"
         /\ calls[w].order \in Orders
         /\ \/ UNCHANGED <<items, orders, refunds, disputes>>
            \/ /\ calls[w].refund
               /\ disputes[calls[w].order].status = "pending"
               /\ disputes[calls[w].order] \in DisputeRows
               /\ orders[calls[w].order].status = "disputed"
               /\ orders' = [orders EXCEPT ![calls[w].order].status = "refunded"]
               /\ items' = Withdrawn(ItemOf[calls[w].order])
               /\ disputes' = [disputes EXCEPT ![calls[w].order].status = "resolved"]
               /\ refunds' = IF refunds[calls[w].order] = None
                             THEN [refunds EXCEPT ![calls[w].order] = "succeeded"]
                             ELSE refunds
            \/ /\ disputes[calls[w].order].status = "pending"
               /\ disputes[calls[w].order] \in DisputeRows
               /\ disputes[calls[w].order].previous \in {"paid", "delivered"}
               /\ orders[calls[w].order].status = "disputed"
               /\ orders' = [orders EXCEPT ![calls[w].order].status =
                                             disputes[calls[w].order].previous]
               /\ disputes' = [disputes EXCEPT ![calls[w].order].status = "rejected"]
               /\ UNCHANGED <<items, refunds>>
<1>1. calls[w] \in Calls /\ calls[w].op = "resolveDispute"
  BY Zenon DEF TypeOK, RecordResolution
<1>2. calls[w] \in DisputeCalls
  BY <1>1, CallKinds, Zenon
<1>3. calls[w].order \in Orders
  BY <1>2, Zenon DEF DisputeCalls
<1>4. disputes[calls[w].order].status = "pending" =>
        /\ disputes[calls[w].order] \in DisputeRows
        /\ disputes[calls[w].order].previous \in {"paid", "delivered"}
  BY <1>3, RowsExist, NoneAssumption, Zenon DEF DisputeRows
<1> QED BY <1>1, <1>2, <1>3, <1>4, Zenon DEF RecordResolution

\* Every step keeps Sale.
LEMMA SaleStep ==
  ASSUME IInv, [Next]_vars
  PROVE  Sale'
<1>0. TypeOK /\ Sale /\ RefundAndDisputeFreeze
  BY Zenon DEF IInv
<1>1. CASE \/ \E o \in Orders : CreateRefund(o)
           \/ UNCHANGED <<items, orders, refunds, disputes>>
  BY <1>0, <1>1, SaleQuiet, Zenon DEF CreateRefund, listing
<1>2. CASE \E i \in Items, c \in Categories, price \in Prices,
              status \in {"draft", "published"} : CreateItem(i, c, price, status)
  BY <1>0, <1>2, SaleCreateItem, Zenon
<1>3. CASE \E i \in Items : WithdrawItem(i) \/ HideItem(i)
  BY <1>0, <1>3, SaleWithdrawItem, SaleHideItem, Zenon
<1>4. CASE \E o \in Orders : CreateOrder(o) \/ CancelOrder(o) \/ ExpireOrder(o)
  BY <1>0, <1>4, SaleCreateOrder, SaleCancelOrder, Zenon
<1>5. ASSUME NEW o \in Orders, MarkDelivered(o) \/ CreateDispute(o)
      PROVE  Sale'
  <2>1. orders[o].status \in Live /\ UNCHANGED items
    BY <1>5, Zenon DEF MarkDelivered, CreateDispute, Live, listing
  <2>2. orders[o] \in OrderRows
    BY <1>0, <2>1, RowsExist, NoneAssumption, Zenon DEF Live
  <2>3. /\ orders'[o].status \in {"paid", "delivered", "disputed"}
        /\ \A p \in Orders : p # o => orders'[p] = orders[p]
    BY <1>0, <1>5, <2>2 DEF TypeOK, MarkDelivered, CreateDispute, OrderRows
  <2> QED BY <1>0, <2>1, <2>3, SaleLiveMove, Zenon
<1>6. ASSUME NEW r \in Requests, ApplyPaymentCallback(r)
      PROVE  Sale'
  <2> DEFINE o == payments[r].order
  <2>1. payments[r] \in PaymentRows
    BY <1>0, <1>6, RowsExist, NoneAssumption, Zenon DEF ApplyPaymentCallback
  <2>2. o \in Orders
    BY <2>1, Zenon DEF PaymentRows
  <2>3. orders[o].status \in Live /\ UNCHANGED items
    BY <1>6, Zenon DEF ApplyPaymentCallback, Payable, Live, listing
  <2>4. orders[o] \in OrderRows
    BY <1>0, <2>2, <2>3, RowsExist, NoneAssumption, Zenon DEF Live
  <2>5. /\ orders'[o].status = "paid"
        /\ \A p \in Orders : p # o => orders'[p] = orders[p]
    BY <1>0, <1>6, <2>2, <2>4, Zenon DEF TypeOK, ApplyPaymentCallback, OrderRows
  <2> QED BY <1>0, <2>2, <2>3, <2>5, SaleLiveMove, Zenon
<1>7. CASE \E w \in Workers, o \in Orders : ConfirmReceived(w, o) \/ AutoCompleteOrder(w, o)
  BY <1>0, <1>7, SaleCompleteOrder, Zenon DEF ConfirmReceived, AutoCompleteOrder
<1>8. CASE \E w \in Workers : WriteItem(w)
  BY <1>0, <1>8, SaleWriteItem, Zenon
<1>9. ASSUME NEW w \in Workers, RecordRefund(w)
      PROVE  Sale'
  BY <1>0, <1>9, RefundEffect, SaleRefunded, SaleQuiet, Zenon
<1>10. ASSUME NEW w \in Workers, RecordResolution(w)
       PROVE  Sale'
  <2> DEFINE o == calls[w].order
  <2>1. CASE UNCHANGED <<items, orders>>
    BY <1>0, <2>1, SaleQuiet, Zenon
  <2>2. CASE /\ orders[o].status = "disputed"
             /\ orders' = [orders EXCEPT ![o].status = "refunded"]
             /\ items' = Withdrawn(ItemOf[o])
    BY <1>0, <1>10, <2>2, ResolutionEffect, SaleRefunded, Zenon
  <2>3. CASE /\ disputes[o].previous \in {"paid", "delivered"}
             /\ orders[o].status = "disputed"
             /\ orders' = [orders EXCEPT ![o].status = disputes[o].previous]
             /\ UNCHANGED items
    <3>1. o \in Orders
      BY <1>0, <1>10, ResolutionEffect, Zenon
    <3>2. orders[o] \in OrderRows
      BY <1>0, <2>3, <3>1, RowsExist, NoneAssumption, Zenon
    <3>3. /\ orders'[o].status \in {"paid", "delivered", "disputed"}
          /\ \A p \in Orders : p # o => orders'[p] = orders[p]
      BY <1>0, <2>3, <3>1, <3>2, Zenon DEF TypeOK, OrderRows
    <3> QED BY <1>0, <2>3, <3>1, <3>3, SaleLiveMove, Zenon DEF Live
  <2> QED BY <1>0, <1>10, <2>1, <2>2, <2>3, ResolutionEffect, Zenon
<1> QED BY <1>1, <1>2, <1>3, <1>4, <1>5, <1>6, <1>7, <1>8, <1>9, <1>10, OtherSteps, Zenon
        DEF SaleMove

(* Orders, one at a time *)

\* The amounts of an order are what they were.
SameAmounts(o) ==
  /\ orders'[o].price = orders[o].price
  /\ orders'[o].rate = orders[o].rate
  /\ orders'[o].fee = orders[o].fee
  /\ orders'[o].net = orders[o].net

Completes(o) == \E w \in Workers : ConfirmReceived(w, o) \/ AutoCompleteOrder(w, o)
RefundsPaid(o) ==
  \E w \in Workers : calls[w].op = "decideRefund" /\ calls[w].approved /\ calls[w].order = o
DisputePaid(o) ==
  \E w \in Workers : calls[w].op = "resolveDispute" /\ calls[w].refund /\ calls[w].order = o
Pays(o) == \E r \in Requests : payments[r].order = o /\ ApplyPaymentCallback(r)

\* What a step does to one order, its refund and its dispute.
ToCancelled(o) ==
  /\ orders[o].status = "pendingPayment"
  /\ orders'[o].status = "cancelled"
  /\ UNCHANGED <<orders[o].deliveredAt, refunds[o], disputes[o]>>

ToPaid(o) ==
  /\ Pays(o)
  /\ orders[o].status = "pendingPayment"
  /\ orders'[o].status = "paid"
  /\ UNCHANGED <<orders[o].deliveredAt, refunds[o], disputes[o]>>

ToDelivered(o) ==
  /\ orders[o].status = "paid"
  /\ orders'[o].status = "delivered"
  /\ UNCHANGED <<refunds[o], disputes[o]>>

ToCompleted(o) ==
  /\ Completes(o)
  /\ orders[o].status = "delivered"
  /\ orders'[o].status = "completed"
  /\ refunds[o] # "pending"
  /\ UNCHANGED <<orders[o].deliveredAt, refunds[o], disputes[o]>>

ToRefunded(o) ==
  /\ orders[o].status \in {"paid", "delivered"}
  /\ orders'[o].status = "refunded"
  /\ RefundsPaid(o)
  /\ refunds[o] = "pending"
  /\ refunds'[o] = "succeeded"
  /\ UNCHANGED <<orders[o].deliveredAt, disputes[o]>>

ToDisputed(o) ==
  /\ orders[o].status \in {"paid", "delivered"}
  /\ orders'[o].status = "disputed"
  /\ refunds[o] # "pending"
  /\ disputes[o].status = None
  /\ disputes'[o].status = "pending"
  /\ disputes'[o].previous = orders[o].status
  /\ UNCHANGED <<orders[o].deliveredAt, refunds[o]>>

DisputeToRefunded(o) ==
  /\ orders[o].status = "disputed"
  /\ orders'[o].status = "refunded"
  /\ DisputePaid(o)
  /\ disputes[o].status = "pending"
  /\ disputes'[o].status = "resolved"
  /\ refunds'[o] \in {"succeeded", refunds[o]}
  /\ refunds[o] # None => refunds'[o] = refunds[o]
  /\ UNCHANGED orders[o].deliveredAt

DisputeToPrevious(o) ==
  /\ orders[o].status = "disputed"
  /\ orders'[o].status = disputes[o].previous
  /\ disputes[o].previous \in {"paid", "delivered"}
  /\ disputes[o].status = "pending"
  /\ disputes'[o].status = "rejected"
  /\ UNCHANGED <<orders[o].deliveredAt, refunds[o]>>

StatusMove(o) ==
  \/ ToCancelled(o) \/ ToPaid(o) \/ ToDelivered(o) \/ ToCompleted(o) \/ ToRefunded(o)
  \/ ToDisputed(o) \/ DisputeToRefunded(o) \/ DisputeToPrevious(o)

Untouched(o) == UNCHANGED <<orders[o], refunds[o], disputes[o]>>

Places(o) ==
  /\ CreateOrder(o)
  /\ orders[o] = NoOrder
  /\ orders'[o].status = "pendingPayment"
  /\ orders'[o].deliveredAt = None
  /\ orders'[o].fee = commissionFee(orders'[o].price, orders'[o].rate)
  /\ orders'[o].net = orders'[o].price - orders'[o].fee
  /\ UNCHANGED <<refunds[o], disputes[o]>>

RefundMove(o) ==
  /\ UNCHANGED <<orders[o], disputes[o]>>
  /\ \/ /\ CreateRefund(o)
        /\ orders[o].status \in {"paid", "delivered"}
        /\ refunds[o] = None
        /\ refunds'[o] = "pending"
     \/ /\ refunds[o] = "pending"
        /\ refunds'[o] = "rejected"

OrderMove(o) ==
  \/ Untouched(o)
  \/ Places(o)
  \/ orders[o].status # None /\ SameAmounts(o) /\ StatusMove(o)
  \/ RefundMove(o)

\* The fields of an order that does not exist.
LEMMA NoOrderFields == NoOrder.status = None /\ NoOrder.deliveredAt = None
BY Zenon DEF NoOrder

\* None is not the status of an order or a request.
LEMMA NoneStatus ==
  /\ None # "pendingPayment" /\ None # "paid" /\ None # "delivered"
  /\ None # "completed" /\ None # "disputed" /\ None # "pending"
  /\ None # "cancelled" /\ None # "refunded"
BY NoneAssumption, Zenon

\* Setting the status of an order leaves its amounts, its delivery date and the
\* other orders alone.
LEMMA StatusOnly ==
  ASSUME TypeOK, NEW o \in Orders, orders[o].status # None, NEW s,
         orders' = [orders EXCEPT ![o].status = s]
  PROVE  /\ SameAmounts(o)
         /\ orders'[o].status = s
         /\ orders'[o].deliveredAt = orders[o].deliveredAt
         /\ \A p \in Orders : p # o => orders'[p] = orders[p]
<1>1. orders[o] \in OrderRows
  BY RowsExist, Zenon
<1> QED BY <1>1, Zenon DEF TypeOK, OrderRows, SameAmounts

\* HideItem moves an order only as OrderMove allows.
LEMMA MoveHideItem ==
  ASSUME TypeOK, Sale, NEW i \in Items, HideItem(i), NEW o \in Orders
  PROVE  OrderMove(o)
<1>1. UNCHANGED <<refunds[o], disputes[o]>>
  BY Zenon DEF HideItem, records
<1>2. CASE o = items[i].order /\ orders' = [orders EXCEPT ![o].status = "cancelled"]
           /\ orders[o].status = "pendingPayment"
  BY <1>1, <1>2, StatusOnly, NoneAssumption, Zenon DEF OrderMove, Untouched, StatusMove, ToCancelled
<1>3. CASE orders'[o] = orders[o]
  BY <1>1, <1>3, Zenon DEF OrderMove, Untouched, StatusMove, ToCancelled
<1>4. items[i].order # None => items[i].order \in Orders
  <2>1. items[i] \in ItemRows \cup {NoItem}
    BY Zenon DEF TypeOK
  <2> QED BY <2>1 DEF NoItem, ItemRows
<1> QED BY <1>2, <1>3, <1>4, Zenon DEF HideItem, TypeOK

\* CreateOrder moves an order only as OrderMove allows.
LEMMA MoveCreateOrder ==
  ASSUME TypeOK, Sale, NEW p \in Orders, CreateOrder(p), NEW o \in Orders
  PROVE  OrderMove(o)
<1>1. UNCHANGED <<refunds[o], disputes[o]>>
  BY Zenon DEF CreateOrder, records
<1>2. CASE o = p
  <2>1. orders[o] = NoOrder
    BY <1>2, NoneAssumption, Zenon DEF TypeOK, CreateOrder, OrderRows, OrderStatus
  <2> QED BY <1>1, <1>2, <2>1, Zenon DEF OrderMove, Untouched, Places, RefundMove, CreateOrder, TypeOK
<1>3. CASE o # p
  BY <1>1, <1>3, Zenon DEF OrderMove, Untouched, Places, RefundMove, CreateOrder, TypeOK
<1> QED BY <1>2, <1>3, Zenon

\* CancelOrder moves an order only as OrderMove allows.
LEMMA MoveCancelOrder ==
  ASSUME TypeOK, NEW p \in Orders, CancelOrder(p) \/ ExpireOrder(p), NEW o \in Orders
  PROVE  OrderMove(o)
<1>1. UNCHANGED <<refunds[o], disputes[o]>>
  BY Zenon DEF CancelOrder, ExpireOrder, records
<1>2. /\ orders[p].status = "pendingPayment"
      /\ orders' = [orders EXCEPT ![p].status = "cancelled"]
  BY Zenon DEF CancelOrder, ExpireOrder
<1> QED BY <1>1, <1>2, StatusOnly, NoneAssumption, Zenon DEF OrderMove, Untouched, StatusMove, ToCancelled

\* MarkDelivered moves an order only as OrderMove allows.
LEMMA MoveMarkDelivered ==
  ASSUME TypeOK, NEW p \in Orders, MarkDelivered(p), NEW o \in Orders
  PROVE  OrderMove(o)
<1>1. UNCHANGED <<refunds[o], disputes[o]>>
  BY Zenon DEF MarkDelivered, records
<1>2. orders[p] \in OrderRows /\ orders[p].status # None
  BY RowsExist, NoneAssumption, Zenon DEF MarkDelivered
<1>3. /\ SameAmounts(p) /\ orders'[p].status = "delivered"
      /\ o # p => orders'[o] = orders[o]
  BY <1>2, Zenon DEF TypeOK, MarkDelivered, OrderRows, SameAmounts
<1> QED BY <1>1, <1>2, <1>3, Zenon DEF OrderMove, Untouched, StatusMove, ToDelivered, MarkDelivered

\* Complete moves an order only as OrderMove allows.
LEMMA MoveComplete ==
  ASSUME TypeOK, NEW w \in Workers, NEW p \in Orders,
         ConfirmReceived(w, p) \/ AutoCompleteOrder(w, p), NEW o \in Orders
  PROVE  OrderMove(o)
<1>1. UNCHANGED <<refunds[o], disputes[o]>>
  BY Zenon DEF ConfirmReceived, AutoCompleteOrder
<1>2. /\ orders[p].status = "delivered" /\ refunds[p] # "pending"
      /\ orders' = [orders EXCEPT ![p].status = "completed"]
      /\ Completes(p)
  BY Zenon DEF ConfirmReceived, AutoCompleteOrder, CompleteOrder, Completable, Completes
<1> QED BY <1>1, <1>2, StatusOnly, NoneAssumption, Zenon DEF OrderMove, Untouched, StatusMove, ToCompleted

\* Payment moves an order only as OrderMove allows.
LEMMA MovePayment ==
  ASSUME TypeOK, NEW r \in Requests, ApplyPaymentCallback(r), NEW o \in Orders
  PROVE  OrderMove(o)
<1> DEFINE p == payments[r].order
<1>1. UNCHANGED <<refunds[o], disputes[o]>>
  BY Zenon DEF ApplyPaymentCallback
<1>2. payments[r] \in PaymentRows
  BY RowsExist, NoneAssumption, Zenon DEF ApplyPaymentCallback
<1>3. p \in Orders
  BY <1>2, Zenon DEF PaymentRows
<1>4. /\ orders[p].status = "pendingPayment"
      /\ orders' = [orders EXCEPT ![p].status = "paid"]
      /\ Pays(p)
  BY Zenon DEF ApplyPaymentCallback, Payable, Pays
<1>5. orders[p].status # None
  BY <1>4, NoneStatus, Zenon
<1>6. /\ SameAmounts(p)
      /\ orders'[p].status = "paid"
      /\ orders'[p].deliveredAt = orders[p].deliveredAt
      /\ \A q \in Orders : q # p => orders'[q] = orders[q]
  BY <1>3, <1>4, <1>5, StatusOnly, Zenon
<1>7. CASE o = p
  BY <1>1, <1>4, <1>5, <1>6, <1>7, Zenon DEF OrderMove, StatusMove, ToPaid
<1>8. CASE o # p
  BY <1>1, <1>6, <1>8, Zenon DEF OrderMove, Untouched
<1> QED BY <1>7, <1>8, Zenon

\* CreateDispute moves an order only as OrderMove allows.
LEMMA MoveCreateDispute ==
  ASSUME TypeOK, NEW p \in Orders, CreateDispute(p), NEW o \in Orders
  PROVE  OrderMove(o)
<1>1. UNCHANGED refunds[o]
  BY Zenon DEF CreateDispute
<1>2. /\ orders[p].status \in {"paid", "delivered"}
      /\ orders' = [orders EXCEPT ![p].status = "disputed"]
      /\ disputes[p].status = None /\ refunds[p] # "pending"
  BY Zenon DEF CreateDispute
<1>3. /\ disputes'[p] = [status |-> "pending", previous |-> orders[p].status]
      /\ o # p => disputes'[o] = disputes[o]
  BY Zenon DEF CreateDispute, TypeOK
<1>4. orders[p].status # None
  BY <1>2, NoneAssumption, Zenon
<1>5. /\ SameAmounts(p)
      /\ orders'[p].status = "disputed"
      /\ orders'[p].deliveredAt = orders[p].deliveredAt
      /\ o # p => orders'[o] = orders[o]
  BY <1>2, <1>4, StatusOnly, Zenon
<1>6. CASE o = p
  BY <1>1, <1>2, <1>3, <1>4, <1>5, <1>6 DEF OrderMove, Untouched, StatusMove, ToDisputed
<1>7. CASE o # p
  BY <1>1, <1>3, <1>5, <1>7, Zenon DEF OrderMove, Untouched, StatusMove, ToDisputed
<1> QED BY <1>6, <1>7, Zenon

\* RecordRefund moves an order only as OrderMove allows.
LEMMA MoveRecordRefund ==
  ASSUME TypeOK, RefundAndDisputeFreeze, NEW w \in Workers, RecordRefund(w), NEW o \in Orders
  PROVE  OrderMove(o)
<1> DEFINE p == calls[w].order
<1>1. p \in Orders /\ UNCHANGED disputes[o]
  BY RefundEffect, Zenon DEF RecordRefund
<1>2. CASE /\ calls[w].op = "decideRefund" /\ calls[w].approved
           /\ refunds[p] = "pending"
           /\ orders[p].status \in {"paid", "delivered"}
           /\ orders' = [orders EXCEPT ![p].status = "refunded"]
           /\ refunds' = [refunds EXCEPT ![p] = "succeeded"]
  <2>1. refunds'[p] = "succeeded" /\ (o # p => refunds'[o] = refunds[o])
    BY <1>1, <1>2, Zenon DEF TypeOK
  <2>2. orders[p].status # None
    BY <1>2, NoneAssumption, Zenon
  <2>3. /\ SameAmounts(p)
        /\ orders'[p].status = "refunded"
        /\ orders'[p].deliveredAt = orders[p].deliveredAt
        /\ o # p => orders'[o] = orders[o]
    BY <1>1, <1>2, <2>2, StatusOnly, Zenon
  <2>4. CASE o = p
    BY <1>1, <1>2, <2>1, <2>2, <2>3, <2>4, Zenon DEF OrderMove, Untouched, StatusMove, ToRefunded, RefundMove, RefundsPaid
  <2>5. CASE o # p
    BY <1>1, <1>2, <2>1, <2>3, <2>5, Zenon DEF OrderMove, Untouched, StatusMove, ToRefunded, RefundMove
  <2> QED BY <2>4, <2>5, Zenon
<1>3. CASE UNCHANGED <<items, orders>>
  <2>1. UNCHANGED refunds \/ (refunds[p] = "pending" /\ refunds' = [refunds EXCEPT ![p] = "rejected"])
    <3>1. refunds[p] = "pending" => orders[p].status \in {"paid", "delivered"}
      BY <1>1, Zenon DEF RefundAndDisputeFreeze
    <3>2. orders[p].status \in {"paid", "delivered"} =>
            [orders EXCEPT ![p].status = "refunded"] # orders
      <4>1. orders[p].status \in {"paid", "delivered"} => orders[p] \in OrderRows
        BY <1>1, RowsExist, NoneAssumption, Zenon
      <4> QED BY <1>1, <4>1 DEF TypeOK, OrderRows
    <3> QED BY <1>3, <3>1, <3>2, Zenon DEF RecordRefund
  <2>2. \/ refunds'[o] = refunds[o]
        \/ refunds[o] = "pending" /\ refunds'[o] = "rejected"
    BY <1>1, <2>1, Zenon DEF TypeOK
  <2> QED BY <1>1, <1>3, <2>2, Zenon DEF OrderMove, Untouched, StatusMove, ToRefunded, RefundMove
<1> QED BY <1>2, <1>3, RefundEffect, Zenon

\* RecordResolution moves an order only as OrderMove allows.
LEMMA MoveRecordResolution ==
  ASSUME TypeOK, RefundAndDisputeFreeze, NEW w \in Workers, RecordResolution(w), NEW o \in Orders
  PROVE  OrderMove(o)
<1> DEFINE p == calls[w].order
<1>1. p \in Orders
  BY ResolutionEffect, Zenon
<1>2. CASE UNCHANGED <<items, orders, refunds, disputes>>
  BY <1>2, Zenon DEF OrderMove, Untouched, StatusMove, DisputeToRefunded, DisputeToPrevious
<1>3. CASE /\ calls[w].op = "resolveDispute" /\ calls[w].refund
           /\ disputes[p] \in DisputeRows
           /\ disputes[p].status = "pending"
           /\ orders[p].status = "disputed"
           /\ orders' = [orders EXCEPT ![p].status = "refunded"]
           /\ disputes' = [disputes EXCEPT ![p].status = "resolved"]
           /\ refunds' = IF refunds[p] = None
                         THEN [refunds EXCEPT ![p] = "succeeded"]
                         ELSE refunds
  <2>1. /\ disputes'[p].status = "resolved"
        /\ o # p => disputes'[o] = disputes[o] /\ refunds'[o] = refunds[o]
        /\ refunds'[p] = IF refunds[p] = None THEN "succeeded" ELSE refunds[p]
    BY <1>1, <1>3, Zenon DEF TypeOK, DisputeRows
  <2>2. orders[p].status # None
    BY <1>3, NoneAssumption, Zenon
  <2>3. /\ SameAmounts(p)
        /\ orders'[p].status = "refunded"
        /\ orders'[p].deliveredAt = orders[p].deliveredAt
        /\ o # p => orders'[o] = orders[o]
    BY <1>1, <1>3, <2>2, StatusOnly, Zenon
  <2>4. CASE o = p
    BY <1>1, <1>3, <2>1, <2>2, <2>3, <2>4, Zenon DEF OrderMove, Untouched, StatusMove, DisputeToRefunded, DisputeToPrevious, DisputePaid
  <2>5. CASE o # p
    BY <1>1, <1>3, <2>1, <2>3, <2>5, Zenon DEF OrderMove, Untouched, StatusMove, DisputeToRefunded, DisputeToPrevious
  <2> QED BY <2>4, <2>5, Zenon
<1>4. CASE /\ disputes[p] \in DisputeRows
           /\ disputes[p].status = "pending"
           /\ disputes[p].previous \in {"paid", "delivered"}
           /\ orders[p].status = "disputed"
           /\ orders' = [orders EXCEPT ![p].status = disputes[p].previous]
           /\ disputes' = [disputes EXCEPT ![p].status = "rejected"]
           /\ UNCHANGED <<items, refunds>>
  <2>1. /\ disputes'[p].status = "rejected"
        /\ o # p => disputes'[o] = disputes[o]
    BY <1>1, <1>4, Zenon DEF TypeOK, DisputeRows
  <2>2. orders[p].status # None
    BY <1>4, NoneAssumption, Zenon
  <2>3. /\ SameAmounts(p)
        /\ orders'[p].status = disputes[p].previous
        /\ orders'[p].deliveredAt = orders[p].deliveredAt
        /\ o # p => orders'[o] = orders[o]
    BY <1>1, <1>4, <2>2, StatusOnly, Zenon
  <2>4. CASE o = p
    BY <1>1, <1>4, <2>1, <2>2, <2>3, <2>4, Zenon DEF OrderMove, Untouched, StatusMove, DisputeToRefunded, DisputeToPrevious
  <2>5. CASE o # p
    BY <1>1, <1>4, <2>1, <2>3, <2>5, Zenon DEF OrderMove, Untouched, StatusMove, DisputeToRefunded, DisputeToPrevious
  <2> QED BY <2>4, <2>5, Zenon
<1> QED BY <1>2, <1>3, <1>4, ResolutionEffect, Zenon

\* Every step treats every order in one of these ways.
LEMMA OrderStep ==
  ASSUME IInv, [Next]_vars, NEW o \in Orders
  PROVE  OrderMove(o)
<1>0. TypeOK /\ Sale /\ RefundAndDisputeFreeze
  BY Zenon DEF IInv
<1>1. CASE UNCHANGED <<items, orders, refunds, disputes>>
  BY <1>1, Zenon DEF OrderMove, Untouched, Places, RefundMove
<1>2. ASSUME NEW p \in Orders, CreateRefund(p)
      PROVE  OrderMove(o)
  BY <1>0, <1>2, Zenon DEF OrderMove, Untouched, Places, RefundMove, CreateRefund, TypeOK
<1>3. CASE \/ \E i \in Items, c \in Categories, price \in Prices,
                 status \in {"draft", "published"} : CreateItem(i, c, price, status)
           \/ \E i \in Items : WithdrawItem(i)
           \/ \E w \in Workers : WriteItem(w)
  BY <1>3, Zenon DEF OrderMove, Untouched, Places, RefundMove, CreateItem, WithdrawItem, WriteItem, records
<1> QED BY <1>0, <1>1, <1>2, <1>3, OtherSteps, MoveHideItem, MoveCreateOrder, MoveCancelOrder,
           MoveMarkDelivered, MoveComplete, MovePayment, MoveCreateDispute,
           MoveRecordRefund, MoveRecordResolution, Zenon DEF SaleMove

\* A step preserves RefundAndDisputeFreeze.
LEMMA FreezeStep ==
  ASSUME IInv, [Next]_vars
  PROVE  RefundAndDisputeFreeze'
<1> SUFFICES ASSUME NEW o \in Orders
             PROVE  /\ refunds'[o] = "pending" => orders'[o].status \in {"paid", "delivered"}
                    /\ disputes'[o].status = "pending" <=> orders'[o].status = "disputed"
  BY Zenon DEF RefundAndDisputeFreeze
<1>1. /\ refunds[o] = "pending" => orders[o].status \in {"paid", "delivered"}
      /\ disputes[o].status = "pending" <=> orders[o].status = "disputed"
  BY Zenon DEF IInv, RefundAndDisputeFreeze
<1>2. OrderMove(o)
  BY OrderStep, Zenon
<1>3. CASE Untouched(o)
  BY <1>1, <1>3, Zenon DEF Untouched
<1>4. CASE Places(o)
  BY <1>1, <1>4, NoOrderFields, NoneStatus, Zenon DEF Places
<1>5. CASE RefundMove(o)
  BY <1>1, <1>5, NoneStatus, Zenon DEF RefundMove
<1>6. CASE StatusMove(o)
  <2>1. CASE ToCancelled(o) \/ ToPaid(o)
    BY <1>1, <2>1, NoneStatus, Zenon DEF ToCancelled, ToPaid
  <2>2. CASE ToDelivered(o) \/ ToCompleted(o)
    BY <1>1, <2>2, NoneStatus, Zenon DEF ToDelivered, ToCompleted
  <2>3. CASE ToRefunded(o) \/ ToDisputed(o)
    BY <1>1, <2>3, NoneStatus, Zenon DEF ToRefunded, ToDisputed
  <2>4. CASE DisputeToRefunded(o)
    BY <1>1, <2>4, NoneStatus, Zenon DEF DisputeToRefunded
  <2>5. CASE DisputeToPrevious(o)
    BY <1>1, <2>5, NoneStatus, Zenon DEF DisputeToPrevious
  <2> QED BY <1>6, <2>1, <2>2, <2>3, <2>4, <2>5, Zenon DEF StatusMove
<1> QED BY <1>2, <1>3, <1>4, <1>5, <1>6, Zenon DEF OrderMove

\* A step preserves Amounts.
LEMMA AmountsStep ==
  ASSUME IInv, [Next]_vars
  PROVE  Amounts'
<1> SUFFICES ASSUME NEW o \in Orders, orders'[o].status # None
             PROVE  /\ orders'[o].fee = commissionFee(orders'[o].price, orders'[o].rate)
                    /\ orders'[o].net = orders'[o].price - orders'[o].fee
  BY Zenon DEF Amounts
<1>1. orders[o].status # None =>
        /\ orders[o].fee = commissionFee(orders[o].price, orders[o].rate)
        /\ orders[o].net = orders[o].price - orders[o].fee
  BY Zenon DEF IInv, Amounts
<1>2. OrderMove(o)
  BY OrderStep, Zenon
<1> QED BY <1>1, <1>2, Zenon DEF OrderMove, Untouched, Places, StatusMove, RefundMove, ToCancelled, ToPaid,
     ToDelivered, ToCompleted, ToRefunded, ToDisputed, DisputeToRefunded, DisputeToPrevious, SameAmounts

\* A step preserves Dated.
LEMMA DatedStep ==
  ASSUME IInv, [Next]_vars
  PROVE  Dated'
<1> SUFFICES ASSUME NEW o \in Orders,
                    \/ orders'[o].status \in {None, "pendingPayment", "paid"}
                    \/ orders'[o].status = "disputed" /\ disputes'[o].previous = "paid"
             PROVE  orders'[o].deliveredAt = None
  BY Zenon DEF Dated
<1>1. \/ orders[o].status \in {None, "pendingPayment", "paid"}
      \/ orders[o].status = "disputed" /\ disputes[o].previous = "paid"
      => orders[o].deliveredAt = None
  BY Zenon DEF IInv, Dated
<1>2. OrderMove(o)
  BY OrderStep, Zenon
<1>3. CASE Untouched(o)
  BY <1>1, <1>3, Zenon DEF Untouched
<1>4. CASE Places(o)
  BY <1>4, Zenon DEF Places
<1>5. CASE RefundMove(o)
  BY <1>1, <1>5, Zenon DEF RefundMove
<1>6. CASE StatusMove(o)
  <2>1. CASE ToCancelled(o) \/ ToPaid(o)
    BY <1>1, <2>1, NoneStatus, Zenon DEF ToCancelled, ToPaid
  <2>2. CASE ToDelivered(o) \/ ToCompleted(o)
    BY <1>1, <2>2, NoneStatus, Zenon DEF ToDelivered, ToCompleted
  <2>3. CASE ToRefunded(o) \/ ToDisputed(o)
    BY <1>1, <2>3, NoneStatus, Zenon DEF ToRefunded, ToDisputed
  <2>4. CASE DisputeToRefunded(o)
    BY <1>1, <2>4, NoneStatus, Zenon DEF DisputeToRefunded
  <2>5. CASE DisputeToPrevious(o)
    BY <1>1, <2>5, NoneStatus, Zenon DEF DisputeToPrevious
  <2> QED BY <1>6, <2>1, <2>2, <2>3, <2>4, <2>5, Zenon DEF StatusMove
<1> QED BY <1>2, <1>3, <1>4, <1>5, <1>6, Zenon DEF OrderMove

\* An order's status changes along the documented machine and its delivery date
\* is set once.
LEMMA OrderMachineStep ==
  ASSUME IInv, [Next]_vars, NEW o \in Orders
  PROVE  /\ orders[o].status # orders'[o].status =>
              <<orders[o].status, orders'[o].status>> \in OrderMoves
         /\ orders[o].deliveredAt # None =>
              orders'[o].deliveredAt = orders[o].deliveredAt
<1>1. \/ orders[o].status \in {None, "pendingPayment", "paid"}
      \/ orders[o].status = "disputed" /\ disputes[o].previous = "paid"
      => orders[o].deliveredAt = None
  BY Zenon DEF IInv, Dated
<1>2. OrderMove(o)
  BY OrderStep, Zenon
<1>3. orders[o] = NoOrder => orders[o].status = None /\ orders[o].deliveredAt = None
  BY NoOrderFields, Zenon
<1>4. orders[o].status # orders'[o].status =>
        <<orders[o].status, orders'[o].status>> \in OrderMoves
  BY <1>2, <1>3, Zenon DEF OrderMove, Untouched, Places, StatusMove, RefundMove, ToCancelled, ToPaid,
     ToDelivered, ToCompleted, ToRefunded, ToDisputed, DisputeToRefunded, DisputeToPrevious, OrderMoves
<1>5. orders[o].deliveredAt # None => orders'[o].deliveredAt = orders[o].deliveredAt
  BY <1>1, <1>2, <1>3, Zenon DEF OrderMove, Untouched, Places, StatusMove, RefundMove, ToCancelled, ToPaid,
     ToDelivered, ToCompleted, ToRefunded, ToDisputed, DisputeToRefunded, DisputeToPrevious
<1> QED BY <1>4, <1>5, Zenon

\* A completed order stays completed, and only completion completes one.
LEMMA CompletedStep ==
  ASSUME IInv, [Next]_vars, NEW o \in Orders
  PROVE  /\ orders[o].status # None => orders'[o].status # None /\ SameAmounts(o)
         /\ orders[o].status = "completed" => orders'[o].status = "completed"
         /\ orders'[o].status = "completed" => orders[o].status = "completed" \/ Completes(o)
<1>2. OrderMove(o)
  BY OrderStep, Zenon
<1>3. orders[o] = NoOrder => orders[o].status = None
  BY NoOrderFields, Zenon
<1>4. CASE UNCHANGED orders[o]
  BY <1>4, Zenon DEF SameAmounts
<1>5. CASE Places(o)
  BY <1>3, <1>5, NoneStatus, Zenon DEF Places
<1>6. CASE orders[o].status # None /\ SameAmounts(o) /\ StatusMove(o)
  BY <1>6, NoneStatus, Zenon DEF StatusMove, ToCancelled, ToPaid, ToDelivered, ToCompleted,
     ToRefunded, ToDisputed, DisputeToRefunded, DisputeToPrevious
<1> QED BY <1>2, <1>4, <1>5, <1>6, Zenon DEF OrderMove, Untouched, RefundMove

----------------------------------------------------------------------------
(* Calls, one worker at a time *)

\* What a step does to the call a worker is in.
CallMove(v) ==
  \/ calls'[v] = calls[v]
  \/ calls'[v] = Idle
  \/ calls'[v].op = "updateItem"
  \/ /\ calls'[v].op = "payRefund"
     /\ calls'[v].order \in Orders
     /\ refunds[calls'[v].order] \notin {None, "succeeded"}
  \/ /\ calls'[v].op = "payDispute"
     /\ calls'[v].order \in Orders
     /\ disputes[calls'[v].order].status # None
  \/ /\ calls'[v].op = "startPayment"
     /\ calls'[v].order \in Orders
     /\ orders[calls'[v].order].status # None
     /\ calls'[v].amount = orders[calls'[v].order].price
  \/ /\ calls'[v].op = "createPayment"
     /\ payments'[calls'[v].request].status # None
  \/ /\ calls[v].op = "createPayment"
     /\ calls'[v].op = "attachPayment"
     /\ calls'[v].request = calls[v].request
  \/ /\ calls'[v].op = "decideRefund"
     /\ calls'[v].approved => <<calls'[v].order, "refund">> \in refunded'
     /\ \/ calls'[v].order \in Orders /\ refunds[calls'[v].order] # None
        \/ calls[v].op = "payRefund" /\ calls'[v].order = calls[v].order
  \/ /\ calls'[v].op = "resolveDispute"
     /\ calls'[v].refund => <<calls'[v].order, "dispute">> \in refunded'
     /\ \/ calls'[v].order \in Orders /\ disputes[calls'[v].order].status # None
        \/ calls[v].op = "payDispute" /\ calls'[v].order = calls[v].order
  \/ /\ calls'[v].op = "findSettlement"
     /\ calls'[v].order \in Orders
     /\ Unsettled(calls'[v].order) \/ Completes(calls'[v].order)
  \/ /\ calls[v].op \in {"findSettlement", "settle"}
     /\ calls'[v].op \in {"settle", "settleDone", "settleFailed"}
     /\ calls'[v].order = calls[v].order
     /\ calls'[v].op = "settleDone" => calls'[v].order \in settled'

\* The idle call does nothing.
LEMMA IdleCall == Idle.op = "idle"
BY Zenon DEF Idle

\* Beginning a call is a move of the calls.
LEMMA CallStart ==
  ASSUME TypeOK, NEW w \in Workers, NEW v \in Workers, NEW o \in Orders,
         \/ \E r \in Requests : StartPayment(w, o, r)
         \/ \E answer \in BOOLEAN : DecideRefund(w, o, answer) \/ ResolveDispute(w, o, answer)
         \/ RetrySettlement(w, o) \/ ConfirmReceived(w, o) \/ AutoCompleteOrder(w, o)
  PROVE  CallMove(v)
<1>1. CASE v # w
  <2>1. calls'[v] = calls[v]
    BY <1>1, Zenon DEF TypeOK, StartPayment, DecideRefund, ResolveDispute,
       RetrySettlement, ConfirmReceived, AutoCompleteOrder
  <2> QED BY <2>1, Zenon DEF CallMove
<1>2. ASSUME v = w, NEW r \in Requests, StartPayment(w, o, r)
      PROVE  CallMove(v)
  BY <1>2, Zenon DEF CallMove, TypeOK, StartPayment
<1>3. ASSUME v = w, NEW answer \in BOOLEAN, DecideRefund(w, o, answer)
      PROVE  CallMove(v)
  <2>1. /\ calls'[v] = [op |-> IF answer THEN "payRefund" ELSE "decideRefund", order |-> o,
                          approved |-> answer]
        /\ refunds[o] # None /\ ~(refunds[o] = "succeeded" /\ answer)
    BY <1>3, Zenon DEF TypeOK, DecideRefund
  <2>2. /\ calls'[v].op = IF answer THEN "payRefund" ELSE "decideRefund"
        /\ calls'[v].order = o /\ calls'[v].approved = answer
    BY <2>1
  <2>3. CASE answer
    BY <2>1, <2>2, <2>3, Zenon DEF CallMove
  <2>4. CASE ~answer
    BY <2>1, <2>2, <2>4, Zenon DEF CallMove
  <2> QED BY <2>3, <2>4, Zenon
<1>4. ASSUME v = w, NEW answer \in BOOLEAN, ResolveDispute(w, o, answer)
      PROVE  CallMove(v)
  <2>1. /\ calls'[v] = [op |-> IF answer THEN "payDispute" ELSE "resolveDispute", order |-> o,
                          refund |-> answer]
        /\ disputes[o].status # None
    BY <1>4, NoneAssumption, Zenon DEF TypeOK, ResolveDispute
  <2>2. /\ calls'[v].op = IF answer THEN "payDispute" ELSE "resolveDispute"
        /\ calls'[v].order = o /\ calls'[v].refund = answer
    BY <2>1
  <2>3. CASE answer
    BY <2>1, <2>2, <2>3, Zenon DEF CallMove
  <2>4. CASE ~answer
    BY <2>1, <2>2, <2>4, Zenon DEF CallMove
  <2> QED BY <2>3, <2>4, Zenon
<1>5. CASE v = w /\ (RetrySettlement(w, o) \/ ConfirmReceived(w, o) \/ AutoCompleteOrder(w, o))
  <2>1. calls'[v] = [op |-> "findSettlement", order |-> o]
    BY <1>5, Zenon DEF TypeOK, RetrySettlement, ConfirmReceived, AutoCompleteOrder
  <2>2. Unsettled(o) \/ Completes(o)
    BY <1>5, Zenon DEF RetrySettlement, Completes
  <2> QED BY <2>1, <2>2 DEF CallMove
<1> QED BY <1>1, <1>2, <1>3, <1>4, <1>5, Zenon

\* A step of a call is a move of the calls.
LEMMA CallProgress ==
  ASSUME TypeOK, NEW w \in Workers, NEW v \in Workers, CallStep(w)
  PROVE  CallMove(v)
<1>1. CASE v # w
  <2>1. calls'[v] = calls[v]
    BY <1>1, Zenon DEF CallStep, TypeOK, WriteItem, CreateOrFindPayment, GatewayCreatePayment,
       AttachPaymentTransaction, GatewayRefund, RecordRefund, GatewayDisputeRefund,
       RecordResolution, FindSettlement, GatewaySettle, GatewaySettleFails, UpdateSettlement
  <2> QED BY <2>1, Zenon DEF CallMove
<1>2. CASE v = w /\ (WriteItem(w) \/ AttachPaymentTransaction(w) \/ RecordRefund(w)
                       \/ RecordResolution(w) \/ UpdateSettlement(w))
  BY <1>2, Zenon DEF CallMove, TypeOK, WriteItem, AttachPaymentTransaction, RecordRefund,
     RecordResolution, UpdateSettlement
<1>3. CASE v = w /\ CreateOrFindPayment(w)
  <2>1. calls[w] \in Calls /\ calls[w].op = "startPayment"
    BY <1>3, Zenon DEF TypeOK, CreateOrFindPayment
  <2>2. calls[w] \in StartPaymentCalls
    BY <2>1, CallKinds, Zenon
  <2>3. calls[w].request \in Requests /\ calls[w].order \in Orders
    BY <2>2, Zenon DEF StartPaymentCalls
  <2>4. payments[calls[w].request].order = calls[w].order =>
          payments[calls[w].request].status # None
    BY <2>3, NoneAssumption DEF TypeOK, PaymentRows, NoPayment
  <2>5. \/ calls'[w] = Idle
        \/ /\ calls'[w].op = "createPayment"
           /\ calls'[w].request = calls[w].request
           /\ payments'[calls[w].request].status # None
    BY <1>3, <2>3, <2>4, NoneAssumption DEF TypeOK, CreateOrFindPayment
  <2> QED BY <1>3, <2>5, Zenon DEF CallMove
<1>4. CASE v = w /\ GatewayCreatePayment(w)
  <2>1. calls[w] \in Calls /\ calls[w].op = "createPayment"
    BY <1>4, Zenon DEF TypeOK, GatewayCreatePayment
  <2>2. calls[w] \in PaymentCalls
    BY <2>1, CallKinds, Zenon
  <2> QED BY <1>4, <2>2 DEF CallMove, TypeOK, GatewayCreatePayment, PaymentCalls
<1>5. CASE v = w /\ GatewayRefund(w)
  <2>1. calls[w] \in Calls /\ calls[w].op = "payRefund"
    BY <1>5, Zenon DEF TypeOK, GatewayRefund
  <2>2. calls[w] \in RefundCalls
    BY <2>1, CallKinds, Zenon
  <2> QED BY <1>5, <2>2 DEF CallMove, TypeOK, GatewayRefund, RefundCalls
<1>6. CASE v = w /\ GatewayDisputeRefund(w)
  <2>1. calls[w] \in Calls /\ calls[w].op = "payDispute"
    BY <1>6, Zenon DEF TypeOK, GatewayDisputeRefund
  <2>2. calls[w] \in DisputeCalls
    BY <2>1, CallKinds, Zenon
  <2> QED BY <1>6, <2>2 DEF CallMove, TypeOK, GatewayDisputeRefund, DisputeCalls
<1>7. CASE v = w /\ (FindSettlement(w) \/ GatewaySettle(w) \/ GatewaySettleFails(w))
  <2>1. calls[w] \in Calls /\ calls[w].op \in {"findSettlement", "settle"}
    BY <1>7, Zenon DEF TypeOK, FindSettlement, GatewaySettle, GatewaySettleFails
  <2>2. calls[w] \in SettlementCalls
    BY <2>1, CallKinds, Zenon
  <2> QED BY <1>7, <2>2
          DEF CallMove, TypeOK, FindSettlement, GatewaySettle, GatewaySettleFails, SettlementCalls
<1> QED BY <1>1, <1>2, <1>3, <1>4, <1>5, <1>6, <1>7, Zenon DEF CallStep

\* Every step treats every worker's call in one of these ways.
LEMMA CallsStep ==
  ASSUME TypeOK, [Next]_vars, NEW v \in Workers
  PROVE  CallMove(v)
<1>1. CASE \/ UNCHANGED vars \/ Tick
           \/ \E c \in Categories, rate \in Rates : SaveCategory(c, rate)
           \/ \E i \in Items, c \in Categories, price \in Prices,
                 status \in {"draft", "published"} : CreateItem(i, c, price, status)
           \/ \E i \in Items : WithdrawItem(i) \/ HideItem(i)
           \/ \E o \in Orders : \/ CreateOrder(o) \/ CancelOrder(o) \/ ExpireOrder(o)
                                \/ MarkDelivered(o) \/ CreateRefund(o) \/ CreateDispute(o)
           \/ \E r \in Requests : ApplyPaymentCallback(r)
  <2>1. UNCHANGED calls
    BY <1>1, Zenon DEF vars, Tick, SaveCategory, CreateItem, WithdrawItem, HideItem, CreateOrder,
       CancelOrder, ExpireOrder, MarkDelivered, CreateRefund, CreateDispute,
       ApplyPaymentCallback
  <2> QED BY <2>1, Zenon DEF CallMove
<1>2. CASE Restart
  BY <1>2, Zenon DEF CallMove, Restart
<1>3. CASE \E i \in Items, c \in Categories, price \in Prices, w \in Workers,
              requested \in {"draft", "published", None} :
                UpdateItem(w, i, c, price, requested)
  <2>0. PICK w \in Workers :
          \E call : call.op = "updateItem" /\ calls' = [calls EXCEPT ![w] = call]
    BY <1>3, Zenon DEF UpdateItem
  <2>1. PICK call : call.op = "updateItem" /\ calls' = [calls EXCEPT ![w] = call]
    BY <2>0, Zenon
  <2>2. calls'[v] = calls[v] \/ calls'[v] = call
    BY <2>1, Zenon DEF TypeOK
  <2> QED BY <2>1, <2>2, Zenon DEF CallMove
<1> QED BY <1>1, <1>2, <1>3, CallStart, CallProgress, Zenon DEF Next

(* Records and the gateway *)

\* Which steps touch settlements, payments and the gateway.
LEMMA RecordSteps ==
  ASSUME [Next]_vars
  PROVE  /\ refunded \subseteq refunded' /\ settled \subseteq settled'
         /\ \/ UNCHANGED refunded
            \/ \E w \in Workers : GatewayRefund(w) \/ GatewayDisputeRefund(w)
         /\ \/ UNCHANGED <<settlements, settled>>
            \/ \E p \in Orders : Completes(p)
            \/ \E w \in Workers : GatewaySettle(w) \/ UpdateSettlement(w)
         /\ \/ UNCHANGED <<payments, opened>>
            \/ \E r \in Requests : ApplyPaymentCallback(r)
            \/ \E w \in Workers : \/ CreateOrFindPayment(w) \/ GatewayCreatePayment(w)
                                  \/ AttachPaymentTransaction(w)
<1>1. CASE \/ UNCHANGED vars \/ Tick \/ Restart
           \/ \E c \in Categories, rate \in Rates : SaveCategory(c, rate)
           \/ \E i \in Items, c \in Categories, price \in Prices,
                 status \in {"draft", "published"} : CreateItem(i, c, price, status)
           \/ \E i \in Items : WithdrawItem(i) \/ HideItem(i)
           \/ \E o \in Orders : \/ CreateOrder(o) \/ CancelOrder(o) \/ ExpireOrder(o)
                                \/ MarkDelivered(o) \/ CreateRefund(o) \/ CreateDispute(o)
  BY <1>1, Zenon DEF vars, Tick, Restart, SaveCategory, CreateItem, WithdrawItem, HideItem,
     CreateOrder, CancelOrder, ExpireOrder, MarkDelivered, CreateRefund, CreateDispute,
     records, gateway
<1>2. CASE \/ \E i \in Items, c \in Categories, price \in Prices, w \in Workers,
                 requested \in {"draft", "published", None} :
                   UpdateItem(w, i, c, price, requested)
           \/ \E w \in Workers, o \in Orders :
                \/ RetrySettlement(w, o)
                \/ \E r \in Requests : StartPayment(w, o, r)
                \/ \E answer \in BOOLEAN : \/ DecideRefund(w, o, answer)
                                           \/ ResolveDispute(w, o, answer)
  <2>1. UNCHANGED <<records, gateway>>
    <3>1. CASE \E i \in Items, c \in Categories, price \in Prices, w \in Workers,
                  requested \in {"draft", "published", None} :
                    UpdateItem(w, i, c, price, requested)
      BY <3>1, Zenon DEF UpdateItem
    <3>2. CASE \E w \in Workers, o \in Orders :
                 RetrySettlement(w, o) \/ \E r \in Requests : StartPayment(w, o, r)
      BY <3>2, Zenon DEF RetrySettlement, StartPayment
    <3>3. CASE \E w \in Workers, o \in Orders, answer \in BOOLEAN :
                 DecideRefund(w, o, answer) \/ ResolveDispute(w, o, answer)
      BY <3>3, Zenon DEF DecideRefund, ResolveDispute
    <3> QED BY <1>2, <3>1, <3>2, <3>3, Zenon
  <2> QED BY <2>1, Zenon DEF records, gateway
<1>3. CASE \E r \in Requests : ApplyPaymentCallback(r)
  BY <1>3, Zenon DEF ApplyPaymentCallback, gateway
<1>4. CASE \E w \in Workers, o \in Orders : ConfirmReceived(w, o) \/ AutoCompleteOrder(w, o)
  BY <1>4, Zenon DEF ConfirmReceived, AutoCompleteOrder, Completes, gateway
<1>5. CASE \E w \in Workers : \/ WriteItem(w) \/ RecordRefund(w) \/ RecordResolution(w)
                               \/ FindSettlement(w) \/ GatewaySettleFails(w)
  BY <1>5, Zenon DEF WriteItem, RecordRefund, RecordResolution, FindSettlement,
     GatewaySettleFails, records, gateway
<1>6. CASE \E w \in Workers : \/ CreateOrFindPayment(w) \/ GatewayCreatePayment(w)
                               \/ AttachPaymentTransaction(w)
  BY <1>6, Zenon DEF CreateOrFindPayment, GatewayCreatePayment, AttachPaymentTransaction,
     records, gateway
<1>7. CASE \E w \in Workers : \/ GatewayRefund(w) \/ GatewayDisputeRefund(w)
                               \/ GatewaySettle(w) \/ UpdateSettlement(w)
  BY <1>7, Zenon DEF GatewayRefund, GatewayDisputeRefund, GatewaySettle, UpdateSettlement,
     records, gateway
<1>8. CASE \E w \in Workers : CallStep(w)
  BY <1>5, <1>6, <1>7, <1>8, Zenon DEF CallStep
<1> QED BY <1>1, <1>2, <1>3, <1>4, <1>8, Zenon DEF Next

\* A settlement call names an order.
LEMMA SettlementCallOrder ==
  ASSUME TypeOK, NEW w \in Workers,
         calls[w].op \in {"findSettlement", "settle", "settleDone", "settleFailed"}
  PROVE  calls[w].order \in Orders
<1>1. calls[w] \in Calls
  BY Zenon DEF TypeOK
<1>2. calls[w] \in SettlementCalls
  BY <1>1, CallKinds, Zenon
<1> QED BY <1>2, Zenon DEF SettlementCalls

\* A step preserves what is known of settlements and settlement calls.
LEMMA SettlingStep ==
  ASSUME IInv, [Next]_vars
  PROVE  Settling'
<1>0. TypeOK /\ Settling
  BY Zenon DEF IInv
<1>1. ASSUME NEW o \in Orders
      PROVE  /\ settlements'[o].status # None <=> orders'[o].status = "completed"
             /\ settlements'[o].status # None => settlements'[o].amount = orders'[o].net
             /\ o \in settled' => orders'[o].status = "completed"
             /\ settlements'[o].status = "succeeded" => o \in settled'
  <2>0. /\ settlements[o].status # None <=> orders[o].status = "completed"
        /\ settlements[o].status # None => settlements[o].amount = orders[o].net
        /\ o \in settled => orders[o].status = "completed"
        /\ settlements[o].status = "succeeded" => o \in settled
    BY <1>0, Zenon DEF Settling
  <2>1. /\ orders[o].status # None => orders'[o].status # None /\ SameAmounts(o)
        /\ orders[o].status = "completed" => orders'[o].status = "completed"
        /\ orders'[o].status = "completed" => orders[o].status = "completed" \/ Completes(o)
    BY CompletedStep, Zenon
  <2>2. CASE UNCHANGED <<settlements, settled>> /\ ~Completes(o)
    BY <2>0, <2>1, <2>2, NoneAssumption, Zenon DEF SameAmounts
  <2>3. CASE Completes(o)
    <3>1. /\ orders[o].status = "delivered"
          /\ orders' = [orders EXCEPT ![o].status = "completed"]
          /\ settlements' = IF settlements[o].status = None
                            THEN [settlements EXCEPT ![o] = [status |-> "pending",
                                                             amount |-> orders[o].net]]
                            ELSE settlements
          /\ UNCHANGED settled
      BY <2>3, Zenon DEF Completes, ConfirmReceived, AutoCompleteOrder, CompleteOrder,
         Completable, gateway
    <3>2. settlements'[o] = [status |-> "pending", amount |-> orders[o].net]
      BY <1>0, <2>0, <3>1, Zenon DEF TypeOK
    <3>3. SameAmounts(o) /\ orders'[o].status = "completed"
      BY <1>0, <3>1, StatusOnly, NoneAssumption, Zenon
    <3> QED BY <2>0, <3>1, <3>2, <3>3, NoneAssumption DEF SameAmounts
  <2>4. ASSUME NEW p \in Orders, p # o, Completes(p)
        PROVE  UNCHANGED <<settlements[o], settled>> /\ ~Completes(o)
    <3>1. /\ orders' = [orders EXCEPT ![p].status = "completed"]
          /\ settlements' = IF settlements[p].status = None
                            THEN [settlements EXCEPT ![p] = [status |-> "pending",
                                                             amount |-> orders[p].net]]
                            ELSE settlements
          /\ UNCHANGED settled
      BY <2>4, Zenon DEF Completes, ConfirmReceived, AutoCompleteOrder, CompleteOrder, gateway
    <3>2. orders'[o] = orders[o]
      BY <1>0, <2>4, <3>1, Zenon DEF TypeOK
    <3>3. ASSUME Completes(o)
          PROVE  FALSE
      <4>1. /\ orders[o].status = "delivered"
            /\ orders' = [orders EXCEPT ![o].status = "completed"]
        BY <3>3, Zenon DEF Completes, ConfirmReceived, AutoCompleteOrder, CompleteOrder, Completable
      <4>2. orders'[o].status = "completed"
        BY <1>0, <4>1, StatusOnly, NoneAssumption, Zenon
      <4> QED BY <3>2, <4>1, <4>2, Zenon
    <3> QED BY <1>0, <2>4, <3>1, <3>3, Zenon DEF TypeOK
  <2>5. ASSUME NEW p \in Orders, p # o, Completes(p)
        PROVE  /\ settlements'[o].status # None <=> orders'[o].status = "completed"
               /\ settlements'[o].status # None => settlements'[o].amount = orders'[o].net
               /\ o \in settled' => orders'[o].status = "completed"
               /\ settlements'[o].status = "succeeded" => o \in settled'
    BY <2>0, <2>1, <2>4, <2>5, NoneAssumption, Zenon DEF SameAmounts
  <2>6. ASSUME NEW w \in Workers, GatewaySettle(w)
        PROVE  /\ settlements'[o].status # None <=> orders'[o].status = "completed"
               /\ settlements'[o].status # None => settlements'[o].amount = orders'[o].net
               /\ o \in settled' => orders'[o].status = "completed"
               /\ settlements'[o].status = "succeeded" => o \in settled'
    <3>1. orders[calls[w].order].status = "completed"
      BY <1>0, <2>6, Zenon DEF Settling, GatewaySettle
    <3> QED BY <2>0, <2>6, <3>1, Zenon DEF GatewaySettle, records
  <2>7. ASSUME NEW w \in Workers, UpdateSettlement(w)
        PROVE  /\ settlements'[o].status # None <=> orders'[o].status = "completed"
               /\ settlements'[o].status # None => settlements'[o].amount = orders'[o].net
               /\ o \in settled' => orders'[o].status = "completed"
               /\ settlements'[o].status = "succeeded" => o \in settled'
    <3>1. UNCHANGED <<orders, settled>>
      BY <2>7, Zenon DEF UpdateSettlement, gateway
    <3>2. calls[w].order \in Orders
      BY <1>0, <2>7, SettlementCallOrder, Zenon DEF UpdateSettlement
    <3>3. CASE UNCHANGED settlements[o]
      BY <2>0, <3>1, <3>3, Zenon
    <3>4. CASE o = calls[w].order /\ Unsettled(o)
      <4>1. settlements[o] \in SettlementRows
        BY <1>0, <3>4, RowsExist, NoneAssumption, Zenon DEF Unsettled
      <4>2. /\ settlements'[o].status = IF calls[w].op = "settleDone"
                                        THEN "succeeded" ELSE "failed"
            /\ settlements'[o].amount = settlements[o].amount
        BY <1>0, <2>7, <3>4, <4>1, Zenon DEF UpdateSettlement, TypeOK, SettlementRows
      <4>3. calls[w].op = "settleDone" => o \in settled
        BY <1>0, <3>4, Zenon DEF Settling
      <4> QED BY <2>0, <3>1, <3>4, <4>2, <4>3, NoneAssumption, Zenon DEF Unsettled
    <3> QED BY <1>0, <2>7, <3>2, <3>3, <3>4, Zenon DEF UpdateSettlement, TypeOK
  <2> QED BY <2>2, <2>3, <2>5, <2>6, <2>7, RecordSteps, Zenon
<1>2. ASSUME NEW w \in Workers,
             calls'[w].op \in {"findSettlement", "settle", "settleDone", "settleFailed"}
      PROVE  /\ orders'[calls'[w].order].status = "completed"
             /\ calls'[w].op = "settleDone" => calls'[w].order \in settled'
  <2>1. CallMove(w) /\ settled \subseteq settled'
    BY <1>0, CallsStep, RecordSteps, Zenon
  <2>2. \A o \in Orders : orders[o].status = "completed" => orders'[o].status = "completed"
    BY CompletedStep, Zenon
  <2>3. calls[w].op \in {"findSettlement", "settle", "settleDone", "settleFailed"} =>
          /\ calls[w].order \in Orders
          /\ orders[calls[w].order].status = "completed"
          /\ calls[w].op = "settleDone" => calls[w].order \in settled
    BY <1>0, SettlementCallOrder, Zenon DEF Settling
  <2>4. \A o \in Orders : Unsettled(o) => orders[o].status = "completed"
    BY <1>0, NoneAssumption, Zenon DEF Settling, Unsettled
  <2>5. \A o \in Orders : Completes(o) => orders'[o].status = "completed"
    <3> SUFFICES ASSUME NEW o \in Orders, Completes(o)
                 PROVE  orders'[o].status = "completed"
      OBVIOUS
    <3>1. /\ orders[o].status = "delivered"
          /\ orders' = [orders EXCEPT ![o].status = "completed"]
      BY Zenon DEF Completes, ConfirmReceived, AutoCompleteOrder, CompleteOrder, Completable
    <3> QED BY <1>0, <3>1, StatusOnly, NoneAssumption, Zenon
  <2> QED BY <1>2, <2>1, <2>2, <2>3, <2>4, <2>5, IdleCall, Zenon DEF CallMove
<1> QED BY <1>1, <1>2, Zenon DEF Settling

\* A step preserves what is known of refunds and refund calls.
LEMMA RefundingStep ==
  ASSUME IInv, [Next]_vars
  PROVE  Refunding'
<1>0. TypeOK /\ Refunding /\ RefundAndDisputeFreeze /\ refunded \subseteq refunded'
  BY RecordSteps, Zenon DEF IInv
<1>1. ASSUME NEW o \in Orders, orders'[o].status = "refunded"
      PROVE  <<o, "refund">> \in refunded' \/ <<o, "dispute">> \in refunded'
  <2>1. orders[o].status = "refunded" =>
          <<o, "refund">> \in refunded \/ <<o, "dispute">> \in refunded
    BY <1>0, Zenon DEF Refunding, RefundsAreBacked
  <2>2. RefundsPaid(o) => <<o, "refund">> \in refunded
    BY <1>0, Zenon DEF Refunding, RefundsPaid
  <2>3. DisputePaid(o) => <<o, "dispute">> \in refunded
    BY <1>0, Zenon DEF Refunding, DisputePaid
  <2>4. OrderMove(o)
    BY OrderStep, Zenon
  <2>5. CASE StatusMove(o)
    <3>1. CASE ToCancelled(o) \/ ToPaid(o)
      BY <1>0, <1>1, <2>2, <2>3, <3>1, NoneStatus, Zenon DEF ToCancelled, ToPaid
    <3>2. CASE ToDelivered(o) \/ ToCompleted(o)
      BY <1>0, <1>1, <2>2, <2>3, <3>2, NoneStatus, Zenon DEF ToDelivered, ToCompleted
    <3>3. CASE ToRefunded(o) \/ ToDisputed(o)
      BY <1>0, <1>1, <2>2, <2>3, <3>3, NoneStatus, Zenon DEF ToRefunded, ToDisputed
    <3>4. CASE DisputeToRefunded(o)
      BY <1>0, <1>1, <2>2, <2>3, <3>4, NoneStatus, Zenon DEF DisputeToRefunded
    <3>5. CASE DisputeToPrevious(o)
      BY <1>0, <1>1, <2>2, <2>3, <3>5, NoneStatus, Zenon DEF DisputeToPrevious
    <3> QED BY <2>5, <3>1, <3>2, <3>3, <3>4, <3>5, Zenon DEF StatusMove
  <2> QED BY <1>0, <1>1, <2>1, <2>4, <2>5, Zenon DEF OrderMove, Untouched, Places, RefundMove
<1>2. ASSUME NEW o \in Orders, refunds'[o] = "succeeded"
      PROVE  orders'[o].status = "refunded"
  <2>1. refunds[o] = "succeeded" => orders[o].status = "refunded"
    BY <1>0, Zenon DEF Refunding, RefundsAreBacked
  <2>2. OrderMove(o)
    BY OrderStep, Zenon
  <2>3. orders[o] = NoOrder => orders[o].status = None
    BY NoOrderFields, Zenon
  <2>4. CASE StatusMove(o)
    <3>1. CASE ToCancelled(o) \/ ToPaid(o)
      BY <1>2, <2>1, <3>1, NoneStatus, Zenon DEF ToCancelled, ToPaid
    <3>2. CASE ToDelivered(o) \/ ToCompleted(o)
      BY <1>2, <2>1, <3>2, NoneStatus, Zenon DEF ToDelivered, ToCompleted
    <3>3. CASE ToRefunded(o) \/ ToDisputed(o)
      BY <1>2, <2>1, <3>3, NoneStatus, Zenon DEF ToRefunded, ToDisputed
    <3>4. CASE DisputeToRefunded(o)
      BY <1>2, <2>1, <3>4, NoneStatus, Zenon DEF DisputeToRefunded
    <3>5. CASE DisputeToPrevious(o)
      BY <1>2, <2>1, <3>5, NoneStatus, Zenon DEF DisputeToPrevious
    <3> QED BY <2>4, <3>1, <3>2, <3>3, <3>4, <3>5, Zenon DEF StatusMove
  <2> QED BY <1>2, <2>1, <2>2, <2>3, <2>4, NoneStatus, Zenon DEF OrderMove, Untouched, Places, RefundMove
<1>3. ASSUME NEW w \in Workers
      PROVE  /\ calls'[w].op = "decideRefund" /\ calls'[w].approved =>
                  <<calls'[w].order, "refund">> \in refunded'
             /\ calls'[w].op = "resolveDispute" /\ calls'[w].refund =>
                  <<calls'[w].order, "dispute">> \in refunded'
  <2>1. CallMove(w)
    BY <1>0, CallsStep, Zenon
  <2>2. /\ calls[w].op = "decideRefund" /\ calls[w].approved =>
             <<calls[w].order, "refund">> \in refunded
        /\ calls[w].op = "resolveDispute" /\ calls[w].refund =>
             <<calls[w].order, "dispute">> \in refunded
    BY <1>0, Zenon DEF Refunding
  <2> QED BY <1>0, <2>1, <2>2, IdleCall, Zenon DEF CallMove
<1>4. RefundsAreBacked'
  BY <1>1, <1>2, Zenon DEF RefundsAreBacked
<1> QED BY <1>3, <1>4, Zenon DEF Refunding

\* A refund or dispute call names an order.
LEMMA ClaimCallOrder ==
  ASSUME TypeOK, NEW w \in Workers,
         calls[w].op \in {"payRefund", "decideRefund", "payDispute", "resolveDispute"}
  PROVE  calls[w].order \in Orders
<1>1. calls[w] \in Calls
  BY Zenon DEF TypeOK
<1>2. calls[w] \in RefundCalls \cup DisputeCalls
  BY <1>1, CallKinds, Zenon
<1> QED BY <1>2, Zenon DEF RefundCalls, DisputeCalls

\* Refunds and disputes stay on record, and so do their results.
LEMMA ClaimsStay ==
  ASSUME IInv, [Next]_vars, NEW o \in Orders
  PROVE  /\ refunds[o] # None => refunds'[o] # None
         /\ disputes[o].status # None => disputes'[o].status # None
         /\ refunds'[o] = "succeeded" /\ refunds[o] # "succeeded" =>
              refunds[o] = None \/ RefundsPaid(o)
         /\ disputes'[o].status = "resolved" =>
              \/ disputes[o].status = "resolved" /\ UNCHANGED orders[o]
              \/ orders'[o].status = "refunded" /\ DisputePaid(o)
         /\ refunds'[o] = "succeeded" /\ disputes'[o].status = "resolved" =>
              \/ refunds[o] = None
              \/ refunds[o] = "succeeded" /\ disputes[o].status = "resolved"
<1>0. /\ disputes[o].status = "resolved" => orders[o].status = "refunded"
      /\ refunds[o] \in {None, "pending", "succeeded", "rejected"}
      /\ refunds[o] = "succeeded" => orders[o].status = "refunded"
  BY Zenon DEF IInv, Claiming, TypeOK, Refunding, RefundsAreBacked
<1>1. OrderMove(o)
  BY OrderStep, Zenon
<1>2. orders[o] = NoOrder => orders[o].status = None
  BY NoOrderFields, Zenon
<1>3. CASE StatusMove(o)
  <2>1. CASE ToCancelled(o) \/ ToPaid(o)
    BY <1>0, <2>1, NoneAssumption, Zenon DEF ToCancelled, ToPaid
  <2>2. CASE ToDelivered(o) \/ ToCompleted(o)
    BY <1>0, <2>2, NoneAssumption, Zenon DEF ToDelivered, ToCompleted
  <2>3. CASE ToRefunded(o)
    BY <1>0, <2>3, NoneAssumption, Zenon DEF ToRefunded
  <2>4. CASE ToDisputed(o)
    BY <1>0, <2>4, NoneAssumption, Zenon DEF ToDisputed
  <2>5. CASE DisputeToRefunded(o)
    <3>1. /\ orders[o].status = "disputed" /\ disputes'[o].status = "resolved"
          /\ orders'[o].status = "refunded" /\ DisputePaid(o)
          /\ refunds[o] # None => refunds'[o] = refunds[o]
          /\ refunds'[o] = "succeeded" \/ refunds'[o] = refunds[o]
      BY <2>5, Zenon DEF DisputeToRefunded
    <3>2. refunds[o] # "succeeded"
      BY <1>0, <3>1
    <3>3. None # "succeeded" /\ None # "resolved"
      BY NoneAssumption, Zenon
    <3> QED BY <3>1, <3>2, <3>3, Zenon
  <2>6. CASE DisputeToPrevious(o)
    BY <1>0, <2>6, NoneAssumption, Zenon DEF DisputeToPrevious
  <2> QED BY <1>3, <2>1, <2>2, <2>3, <2>4, <2>5, <2>6, Zenon DEF StatusMove
<1>4. CASE Untouched(o)
  BY <1>4, Zenon DEF Untouched
<1>5. CASE Places(o)
  BY <1>0, <1>2, <1>5, NoneAssumption, Zenon DEF Places
<1>6. CASE RefundMove(o)
  BY <1>0, <1>6, NoneAssumption, Zenon DEF RefundMove
<1> QED BY <1>1, <1>3, <1>4, <1>5, <1>6, Zenon DEF OrderMove

\* A step preserves what is known of claims.
LEMMA ClaimingStep ==
  ASSUME IInv, [Next]_vars
  PROVE  Claiming'
<1>0. TypeOK /\ Claiming /\ Refunding /\ refunded \subseteq refunded'
  BY RecordSteps, Zenon DEF IInv
<1>1. ASSUME NEW o \in Orders, NEW c \in {"refund", "dispute"}, <<o, c>> \in refunded'
      PROVE  IF c = "refund" THEN refunds[o] # None ELSE disputes[o].status # None
  <2>1. CASE <<o, c>> \in refunded
    BY <1>0, <2>1, Zenon DEF Claiming
  <2>2. ASSUME NEW w \in Workers, GatewayRefund(w), <<o, c>> \notin refunded
        PROVE  IF c = "refund" THEN refunds[o] # None ELSE disputes[o].status # None
    <3>1. <<o, c>> = <<calls[w].order, "refund">> /\ calls[w].op = "payRefund"
      BY <1>1, <2>2, Zenon DEF GatewayRefund
    <3>2. o = calls[w].order /\ c = "refund"
      BY <3>1
    <3> QED BY <1>0, <3>1, <3>2, Zenon DEF Claiming
  <2>3. ASSUME NEW w \in Workers, GatewayDisputeRefund(w), <<o, c>> \notin refunded
        PROVE  IF c = "refund" THEN refunds[o] # None ELSE disputes[o].status # None
    <3>1. <<o, c>> = <<calls[w].order, "dispute">> /\ calls[w].op = "payDispute"
      BY <1>1, <2>3, Zenon DEF GatewayDisputeRefund
    <3>2. o = calls[w].order /\ c = "dispute"
      BY <3>1
    <3> QED BY <1>0, <3>1, <3>2, Zenon DEF Claiming
  <2> QED BY <1>1, <2>1, <2>2, <2>3, RecordSteps, Zenon
<1>2. ASSUME NEW o \in Orders
      PROVE  /\ <<o, "refund">> \in refunded' => refunds'[o] # None
             /\ <<o, "dispute">> \in refunded' => disputes'[o].status # None
             /\ disputes'[o].status = "resolved" =>
                  orders'[o].status = "refunded" /\ <<o, "dispute">> \in refunded'
             /\ disputes'[o].status = "resolved" /\ refunds'[o] = "succeeded" =>
                  <<o, "refund">> \notin refunded'
  <2>1. /\ <<o, "refund">> \in refunded' => refunds[o] # None
        /\ <<o, "dispute">> \in refunded' => disputes[o].status # None
    BY <1>1, Zenon
  <2>2. /\ DisputePaid(o) => <<o, "dispute">> \in refunded
        /\ disputes[o].status = "resolved" =>
             orders[o].status = "refunded" /\ <<o, "dispute">> \in refunded
    BY <1>0, Zenon DEF Refunding, DisputePaid, Claiming
  <2>3. ASSUME refunds[o] = "succeeded", disputes[o].status = "resolved"
        PROVE  <<o, "refund">> \notin refunded'
    <3>1. <<o, "refund">> \notin refunded
      BY <1>0, <2>3, Zenon DEF Claiming
    <3>2. ASSUME NEW w \in Workers, GatewayRefund(w), <<o, "refund">> \in refunded'
          PROVE  FALSE
      <4>1. <<o, "refund">> = <<calls[w].order, "refund">> /\ calls[w].op = "payRefund"
        BY <3>1, <3>2, Zenon DEF GatewayRefund
      <4>2. o = calls[w].order
        BY <4>1
      <4> QED BY <1>0, <2>3, <3>1, <4>1, <4>2, Zenon DEF Claiming
    <3>3. ASSUME NEW w \in Workers, GatewayDisputeRefund(w), <<o, "refund">> \in refunded'
          PROVE  FALSE
      <4>1. <<o, "refund">> = <<calls[w].order, "dispute">>
        BY <3>1, <3>3, Zenon DEF GatewayDisputeRefund
      <4> QED BY <4>1
    <3> QED BY <3>1, <3>2, <3>3, RecordSteps, Zenon
  <2> QED BY <1>0, <2>1, <2>2, <2>3, ClaimsStay, Zenon
<1>3. ASSUME NEW w \in Workers
      PROVE  /\ calls'[w].op \in {"payRefund", "decideRefund"} =>
                  refunds'[calls'[w].order] # None
             /\ calls'[w].op = "payRefund" /\ refunds'[calls'[w].order] = "succeeded" =>
                  <<calls'[w].order, "refund">> \in refunded'
             /\ calls'[w].op \in {"payDispute", "resolveDispute"} =>
                  disputes'[calls'[w].order].status # None
  <2>1. CallMove(w)
    BY <1>0, CallsStep, Zenon
  <2>2. /\ calls[w].op \in {"payRefund", "decideRefund"} =>
             calls[w].order \in Orders /\ refunds[calls[w].order] # None
        /\ calls[w].op \in {"payDispute", "resolveDispute"} =>
             calls[w].order \in Orders /\ disputes[calls[w].order].status # None
        /\ calls[w].op = "payRefund" /\ refunds[calls[w].order] = "succeeded" =>
             <<calls[w].order, "refund">> \in refunded
    BY <1>0, ClaimCallOrder, Zenon DEF Claiming
  <2>3. \A o \in Orders : /\ refunds[o] # None => refunds'[o] # None
                          /\ disputes[o].status # None => disputes'[o].status # None
    BY ClaimsStay, Zenon
  <2>4. \A o \in Orders :
          refunds'[o] = "succeeded" /\ refunds[o] \notin {None, "succeeded"} =>
            <<o, "refund">> \in refunded'
    <3>1. \A o \in Orders : refunds'[o] = "succeeded" /\ refunds[o] # "succeeded" =>
            refunds[o] = None \/ RefundsPaid(o)
      BY ClaimsStay, Zenon
    <3>2. \A o \in Orders : RefundsPaid(o) => <<o, "refund">> \in refunded'
      BY <1>0, Zenon DEF Refunding, RefundsPaid
    <3> QED BY <3>1, <3>2, Zenon
  <2>5. calls'[w].op \in {"payRefund", "decideRefund"} => refunds'[calls'[w].order] # None
    BY <2>1, <2>2, <2>3, IdleCall, Zenon DEF CallMove
  <2>6. calls'[w].op = "payRefund" /\ refunds'[calls'[w].order] = "succeeded" =>
          <<calls'[w].order, "refund">> \in refunded'
    BY <1>0, <2>1, <2>2, <2>4, IdleCall, Zenon DEF CallMove
  <2>7. calls'[w].op \in {"payDispute", "resolveDispute"} =>
          disputes'[calls'[w].order].status # None
    BY <2>1, <2>2, <2>3, IdleCall, Zenon DEF CallMove
  <2> QED BY <2>5, <2>6, <2>7, Zenon
<1> QED BY <1>2, <1>3, Zenon DEF Claiming

\* What a step does to a payment.
PaymentMove(r) ==
  \/ UNCHANGED payments[r]
  \/ /\ payments[r].status = None
     /\ payments'[r].status = "pending"
     /\ payments'[r].order \in Orders
     /\ orders[payments'[r].order].status # None
     /\ payments'[r].amount = orders[payments'[r].order].price
  \/ /\ payments[r].status # None
     /\ payments'[r].status = payments[r].status
     /\ payments'[r].order = payments[r].order
     /\ payments'[r].amount = payments[r].amount
     /\ payments[r].txn => payments'[r] = payments[r]
  \/ /\ ApplyPaymentCallback(r)
     /\ payments[r].status = "pending"
     /\ payments'[r].status = "succeeded"
     /\ payments'[r].txn
     /\ payments[r].order \in Orders
     /\ payments'[r].order = payments[r].order
     /\ payments'[r].amount = payments[r].amount

\* The fields of a payment row as it is inserted.
LEMMA PendingPayment ==
  ASSUME NEW order, NEW amount, NEW payment,
         payment = [status |-> "pending", order |-> order, amount |-> amount, txn |-> FALSE]
  PROVE  payment.status = "pending" /\ payment.order = order /\ payment.amount = amount
OBVIOUS

\* A step moves a payment row only as PaymentMove allows.
LEMMA PaymentStep ==
  ASSUME IInv, [Next]_vars, NEW r \in Requests
  PROVE  PaymentMove(r)
<1>0. TypeOK /\ Paying
  BY Zenon DEF IInv
<1>1. CASE UNCHANGED <<payments, opened>>
  BY <1>1, Zenon DEF PaymentMove
<1>2. ASSUME NEW q \in Requests, ApplyPaymentCallback(q)
      PROVE  PaymentMove(r)
  <2>1. payments[q] \in PaymentRows
    BY <1>0, <1>2, RowsExist, NoneAssumption, Zenon DEF ApplyPaymentCallback
  <2>2. CASE r = q
    BY <1>0, <1>2, <2>1, <2>2, Zenon DEF PaymentMove, ApplyPaymentCallback, TypeOK, PaymentRows
  <2>3. CASE r # q
    BY <1>0, <1>2, <2>3, Zenon DEF PaymentMove, ApplyPaymentCallback, TypeOK
  <2> QED BY <2>2, <2>3, Zenon
<1>3. ASSUME NEW w \in Workers, CreateOrFindPayment(w)
      PROVE  PaymentMove(r)
  <2>1. calls[w] \in Calls /\ calls[w].op = "startPayment"
    BY <1>0, <1>3, Zenon DEF TypeOK, CreateOrFindPayment
  <2>2. calls[w] \in StartPaymentCalls
    BY <2>1, CallKinds, Zenon
  <2>3. calls[w].request \in Requests /\ calls[w].order \in Orders
    BY <2>2, Zenon DEF StartPaymentCalls
  <2>4. /\ orders[calls[w].order].status # None
        /\ calls[w].amount = orders[calls[w].order].price
    BY <1>0, <2>1, Zenon DEF Paying
  <2>5. \/ UNCHANGED payments
        \/ /\ payments[calls[w].request].status = None
           /\ payments' = [payments EXCEPT ![calls[w].request] =
                [status |-> "pending", order |-> calls[w].order,
                 amount |-> calls[w].amount, txn |-> FALSE]]
    BY <1>3, Zenon DEF CreateOrFindPayment
  <2>6. CASE UNCHANGED payments \/ r # calls[w].request
    BY <1>0, <2>5, <2>6, Zenon DEF PaymentMove, TypeOK
  <2>7. CASE ~UNCHANGED payments /\ r = calls[w].request
    <3>1. payments'[r] = [status |-> "pending", order |-> calls[w].order,
                          amount |-> calls[w].amount, txn |-> FALSE]
      BY <1>0, <2>3, <2>5, <2>7, Zenon DEF TypeOK
    <3>2. /\ payments'[r].status = "pending"
          /\ payments'[r].order = calls[w].order
          /\ payments'[r].amount = calls[w].amount
      BY <3>1, PendingPayment
    <3> QED BY <2>3, <2>4, <2>5, <2>7, <3>2, Zenon DEF PaymentMove
  <2> QED BY <2>6, <2>7, Zenon
<1>4. ASSUME NEW w \in Workers, GatewayCreatePayment(w)
      PROVE  PaymentMove(r)
  BY <1>4, Zenon DEF PaymentMove, GatewayCreatePayment, records
<1>5. ASSUME NEW w \in Workers, AttachPaymentTransaction(w)
      PROVE  PaymentMove(r)
  <2>1. calls[w] \in Calls /\ calls[w].op = "attachPayment"
    BY <1>0, <1>5, Zenon DEF TypeOK, AttachPaymentTransaction
  <2>2. calls[w] \in PaymentCalls
    BY <2>1, CallKinds, Zenon
  <2>3. calls[w].request \in Requests
    BY <2>2, Zenon DEF PaymentCalls
  <2>4. payments[calls[w].request].status # None
    BY <1>0, <2>1, Zenon DEF Paying
  <2>5. payments[calls[w].request] \in PaymentRows
    BY <1>0, <2>3, <2>4, RowsExist, Zenon
  <2>6. payments' = [payments EXCEPT ![calls[w].request].txn = TRUE]
    BY <1>5, Zenon DEF AttachPaymentTransaction
  <2>7. CASE r = calls[w].request
    <3>1. PICK old \in PaymentRows : old = payments[r]
      BY <2>5, <2>7, Zenon
    <3>2. PICK row \in PaymentRows : row = [old EXCEPT !.txn = TRUE]
      BY <3>1, Zenon DEF PaymentRows
    <3>3. row.status = old.status /\ row.order = old.order /\ row.amount = old.amount
      BY <3>2, Zenon DEF PaymentRows
    <3>4. payments'[r] = row
      BY <1>0, <2>6, <2>7, <3>1, <3>2, Zenon DEF TypeOK
    <3>5. old.txn => row = old
      BY <3>2 DEF PaymentRows
    <3> QED BY <2>4, <2>7, <3>1, <3>3, <3>4, <3>5, Zenon DEF PaymentMove
  <2>8. CASE r # calls[w].request
    BY <1>0, <2>6, <2>8, Zenon DEF PaymentMove, TypeOK
  <2> QED BY <2>7, <2>8, Zenon
<1> QED BY <1>1, <1>2, <1>3, <1>4, <1>5, RecordSteps, Zenon

\* An order becomes funded exactly by a payment callback.
LEMMA FundedStep ==
  ASSUME IInv, [Next]_vars, NEW o \in Orders
  PROVE  /\ orders[o].status \in Funded => orders'[o].status \in Funded /\ ~Pays(o)
         /\ orders'[o].status \in Funded => orders[o].status \in Funded \/ Pays(o)
         /\ Pays(o) => orders'[o].status \in Funded
<1>1. OrderMove(o)
  BY OrderStep, Zenon
<1>2. Pays(o) => /\ orders[o].status = "pendingPayment"
                 /\ orders' = [orders EXCEPT ![o].status = "paid"]
  BY Zenon DEF Pays, ApplyPaymentCallback, Payable
<1>3. Pays(o) => orders'[o].status = "paid"
  BY <1>2, StatusOnly, NoneAssumption, Zenon DEF IInv
<1>4. orders[o] = NoOrder => orders[o].status = None
  BY NoOrderFields, Zenon
<1>5. orders[o].status \in Funded => orders'[o].status \in Funded
  BY OrderMachineStep, NoneStatus, Zenon DEF OrderMoves, Funded
<1>6. orders'[o].status \in Funded => orders[o].status \in Funded \/ Pays(o)
  <2>1. CASE StatusMove(o)
    <3>1. CASE ToCancelled(o) \/ ToPaid(o)
      BY <3>1, NoneStatus, Zenon DEF ToCancelled, ToPaid, Funded
    <3>2. CASE ToDelivered(o) \/ ToCompleted(o)
      BY <3>2, NoneStatus, Zenon DEF ToDelivered, ToCompleted, Funded
    <3>3. CASE ToRefunded(o) \/ ToDisputed(o)
      BY <3>3, NoneStatus, Zenon DEF ToRefunded, ToDisputed, Funded
    <3>4. CASE DisputeToRefunded(o)
      BY <3>4, NoneStatus, Zenon DEF DisputeToRefunded, Funded
    <3>5. CASE DisputeToPrevious(o)
      BY <3>5, NoneStatus, Zenon DEF DisputeToPrevious, Funded
    <3> QED BY <2>1, <3>1, <3>2, <3>3, <3>4, <3>5, Zenon DEF StatusMove
  <2> QED BY <1>1, <1>4, <2>1, NoneStatus, Zenon DEF OrderMove, Untouched, Places, RefundMove, Funded
<1> QED BY <1>2, <1>3, <1>5, <1>6, Zenon DEF Funded

\* PaidOnce without its set of payments.
LEMMA PaidOnceUnfolded ==
  PaidOnce <=>
    \A o \in Orders :
      /\ orders[o].status \in Funded <=>
           \E r \in Requests : payments[r].order = o /\ payments[r].status = "succeeded"
      /\ \A r1, r2 \in Requests :
           /\ payments[r1].order = o /\ payments[r1].status = "succeeded"
           /\ payments[r2].order = o /\ payments[r2].status = "succeeded"
           => r1 = r2
      /\ \A r \in Requests :
           payments[r].order = o /\ payments[r].status = "succeeded" =>
             payments[r].amount = orders[o].price
BY DEF PaidOnce

\* A step preserves what is known of payments and payment calls.
LEMMA PayingStep ==
  ASSUME IInv, [Next]_vars
  PROVE  Paying'
<1>0. TypeOK /\ Paying
  BY Zenon DEF IInv
<1>1. \A r \in Requests : PaymentMove(r)
  BY PaymentStep, Zenon
<1>2. \A r \in Requests : payments[r].status # None =>
        /\ payments[r].order \in Orders
        /\ orders[payments[r].order].status # None
        /\ payments[r].amount = orders[payments[r].order].price
        /\ payments[r].status = "succeeded" => payments[r].txn
  BY <1>0, RowsExist, Zenon DEF Paying, PaymentRows
<1>3. \A o \in Orders : orders[o].status # None =>
        orders'[o].status # None /\ orders'[o].price = orders[o].price
  BY CompletedStep, Zenon DEF SameAmounts
<1>4. ASSUME NEW r \in Requests, payments'[r].status # None
      PROVE  /\ payments'[r].order \in Orders
             /\ orders'[payments'[r].order].status # None
             /\ payments'[r].amount = orders'[payments'[r].order].price
             /\ payments'[r].status = "succeeded" => payments'[r].txn
  <2>1. PaymentMove(r)
    BY <1>1, Zenon
  <2>2. CASE payments[r].status # None
    BY <1>2, <1>3, <1>4, <2>1, <2>2 DEF PaymentMove
  <2>3. CASE payments[r].status = None
    BY <1>3, <1>4, <2>1, <2>3, NoneAssumption, Zenon DEF PaymentMove
  <2> QED BY <2>2, <2>3, Zenon
<1>5. PaidOnce'
  <2>0. PaidOnce
    BY <1>0, Zenon DEF Paying
  <2>1. ASSUME NEW r \in Requests, payments'[r].status = "succeeded",
               payments[r].status # "succeeded"
        PROVE  /\ payments'[r].order = payments[r].order
               /\ payments[r].order \in Orders
               /\ ApplyPaymentCallback(r)
    BY <1>1, <2>1, Zenon DEF PaymentMove
  <2>2. ASSUME NEW r \in Requests, payments[r].status = "succeeded"
        PROVE  payments'[r] = payments[r]
    BY <1>1, <1>2, <2>2, NoneAssumption, Zenon DEF PaymentMove
  <2>3. ASSUME NEW r \in Requests, ApplyPaymentCallback(r)
        PROVE  /\ payments'[r].status = "succeeded"
               /\ payments'[r].order = payments[r].order
               /\ orders[payments[r].order].status = "pendingPayment"
               /\ \A q \in Requests : q # r => payments'[q] = payments[q]
    <3>1. payments[r] \in PaymentRows
      BY <1>0, <2>3, RowsExist, NoneAssumption, Zenon DEF ApplyPaymentCallback
    <3> QED BY <1>0, <2>3, <3>1, Zenon DEF ApplyPaymentCallback, Payable, TypeOK, PaymentRows
  <2>4. ASSUME NEW o \in Orders
        PROVE  orders'[o].status \in Funded <=>
                 \E r \in Requests : payments'[r].order = o /\ payments'[r].status = "succeeded"
    <3>1. orders[o].status \in Funded <=>
            \E r \in Requests : payments[r].order = o /\ payments[r].status = "succeeded"
      BY <2>0, PaidOnceUnfolded, Zenon
    <3>2. ASSUME orders'[o].status \in Funded
          PROVE  \E r \in Requests : payments'[r].order = o /\ payments'[r].status = "succeeded"
      <4>1. CASE orders[o].status \in Funded
        BY <2>2, <3>1, <4>1, Zenon
      <4>2. CASE Pays(o)
        BY <2>3, <4>2, Zenon DEF Pays
      <4> QED BY <3>2, <4>1, <4>2, FundedStep, Zenon
    <3>3. ASSUME NEW r \in Requests, payments'[r].order = o, payments'[r].status = "succeeded"
          PROVE  orders'[o].status \in Funded
      <4>1. CASE payments[r].status = "succeeded"
        BY <2>2, <3>1, <3>3, <4>1, FundedStep, Zenon
      <4>2. CASE payments[r].status # "succeeded"
        <5>1. Pays(o)
          BY <2>1, <3>3, <4>2, Zenon DEF Pays
        <5> QED BY <5>1, FundedStep, Zenon
      <4> QED BY <4>1, <4>2, Zenon
    <3> QED BY <3>2, <3>3, Zenon
  <2>5. ASSUME NEW o \in Orders, NEW r1 \in Requests, NEW r2 \in Requests,
               payments'[r1].order = o, payments'[r1].status = "succeeded",
               payments'[r2].order = o, payments'[r2].status = "succeeded",
               payments[r1].status # "succeeded"
        PROVE  r1 = r2
    <3>1. ApplyPaymentCallback(r1) /\ payments[r1].order = o
      BY <2>1, <2>5, Zenon
    <3>2. orders[o].status \notin Funded
      BY <2>3, <3>1, Zenon DEF Funded
    <3>3. ~(payments[r2].order = o /\ payments[r2].status = "succeeded")
      BY <2>0, <3>2, PaidOnceUnfolded, Zenon
    <3> QED BY <2>3, <2>5, <3>1, <3>3, Zenon
  <2>6. ASSUME NEW o \in Orders, NEW r1 \in Requests, NEW r2 \in Requests,
               payments'[r1].order = o, payments'[r1].status = "succeeded",
               payments'[r2].order = o, payments'[r2].status = "succeeded"
        PROVE  r1 = r2
    <3>1. CASE payments[r1].status # "succeeded" \/ payments[r2].status # "succeeded"
      BY <2>5, <2>6, <3>1, Zenon
    <3>2. CASE payments[r1].status = "succeeded" /\ payments[r2].status = "succeeded"
      BY <2>0, <2>2, <2>6, <3>2, PaidOnceUnfolded
    <3> QED BY <3>1, <3>2, Zenon
  <2>7. ASSUME NEW o \in Orders, NEW r \in Requests,
               payments'[r].order = o, payments'[r].status = "succeeded"
        PROVE  payments'[r].amount = orders'[o].price
    BY <1>4, <2>7, NoneAssumption, Zenon
  <2> QED BY <2>4, <2>6, <2>7 DEF PaidOnce
<1>6. ASSUME NEW r \in opened'
      PROVE  payments'[r].status # None
  <2>1. \A q \in Requests : payments[q].status # None => payments'[q].status # None
    BY <1>1, NoneAssumption, Zenon DEF PaymentMove
  <2>2. CASE r \in opened
    BY <1>0, <2>1, <2>2, Zenon DEF Paying, TypeOK
  <2>3. ASSUME NEW w \in Workers, GatewayCreatePayment(w), r \notin opened
        PROVE  payments'[r].status # None
    <3>1. calls[w] \in Calls /\ calls[w].op = "createPayment"
      BY <1>0, <2>3, Zenon DEF TypeOK, GatewayCreatePayment
    <3>2. calls[w] \in PaymentCalls
      BY <3>1, CallKinds, Zenon
    <3>3. calls[w].request \in Requests /\ r = calls[w].request
      BY <1>6, <2>3, <3>2, Zenon DEF PaymentCalls, GatewayCreatePayment
    <3> QED BY <1>0, <2>1, <3>1, <3>3, Zenon DEF Paying
  <2>4. CASE UNCHANGED opened
    BY <1>6, <2>2, <2>4, Zenon
  <2> QED BY <2>2, <2>3, <2>4, RecordSteps, Zenon
          DEF ApplyPaymentCallback, CreateOrFindPayment, AttachPaymentTransaction, gateway
<1>7. ASSUME NEW w \in Workers
      PROVE  /\ calls'[w].op = "startPayment" =>
                  /\ orders'[calls'[w].order].status # None
                  /\ calls'[w].amount = orders'[calls'[w].order].price
             /\ calls'[w].op \in {"createPayment", "attachPayment"} =>
                  payments'[calls'[w].request].status # None
  <2>1. CallMove(w)
    BY <1>0, CallsStep, Zenon
  <2>2. \A q \in Requests : payments[q].status # None => payments'[q].status # None
    BY <1>1, NoneAssumption, Zenon DEF PaymentMove
  <2>3. calls[w].op = "startPayment" =>
          /\ calls[w].order \in Orders
          /\ orders[calls[w].order].status # None
          /\ calls[w].amount = orders[calls[w].order].price
    <3>1. calls[w] \in Calls
      BY <1>0, Zenon DEF TypeOK
    <3>2. calls[w].op = "startPayment" => calls[w] \in StartPaymentCalls
      BY <3>1, CallKinds, Zenon
    <3> QED BY <1>0, <3>2, Zenon DEF Paying, StartPaymentCalls
  <2>4. calls[w].op \in {"createPayment", "attachPayment"} =>
          /\ calls[w].request \in Requests
          /\ payments[calls[w].request].status # None
    <3>1. calls[w] \in Calls
      BY <1>0, Zenon DEF TypeOK
    <3>2. calls[w].op \in {"createPayment", "attachPayment"} => calls[w] \in PaymentCalls
      BY <3>1, CallKinds, Zenon
    <3> QED BY <1>0, <3>2, Zenon DEF Paying, PaymentCalls
  <2>5. calls'[w].op = "startPayment" =>
          /\ orders'[calls'[w].order].status # None
          /\ calls'[w].amount = orders'[calls'[w].order].price
    <3>1. CASE calls'[w] = calls[w]
      BY <1>3, <2>3, <3>1, Zenon
    <3>2. CASE /\ calls'[w].order \in Orders
               /\ orders[calls'[w].order].status # None
               /\ calls'[w].amount = orders[calls'[w].order].price
      BY <1>3, <3>2, Zenon
    <3> QED BY <2>1, <3>1, <3>2, IdleCall, Zenon DEF CallMove
  <2>6. calls'[w].op \in {"createPayment", "attachPayment"} =>
          payments'[calls'[w].request].status # None
    <3>1. CASE calls'[w] = calls[w]
      BY <2>2, <2>4, <3>1, Zenon
    <3>2. CASE calls[w].op = "createPayment" /\ calls'[w].request = calls[w].request
      BY <2>2, <2>4, <3>2, Zenon
    <3> QED BY <2>1, <3>1, <3>2, IdleCall, Zenon DEF CallMove
  <2> QED BY <2>5, <2>6, Zenon
<1> QED BY <1>4, <1>5, <1>6, <1>7, Zenon DEF Paying

----------------------------------------------------------------------------
(* The theorems *)

\* The inductive invariant holds initially.
LEMMA InitIInv == Init => IInv
<1> SUFFICES ASSUME Init
             PROVE  IInv
  OBVIOUS
<1>1. TypeOK
  BY TypeInit, Zenon
<1>2. /\ \A i \in Items : items[i].status = None /\ items[i].order = None
      /\ \A o \in Orders : /\ orders[o].status = None /\ orders[o].deliveredAt = None
                           /\ refunds[o] = None
                           /\ disputes[o].status = None /\ settlements[o].status = None
      /\ \A r \in Requests : payments[r].status = None
      /\ \A w \in Workers : calls[w].op = "idle"
      /\ opened = {} /\ settled = {} /\ refunded = {}
  BY Zenon DEF Init, NoItem, NoOrder, NoPayment, NoDispute, NoSettlement, Idle
<1>3. Sale
  BY <1>2, IdentityAssumption, NoneAssumption, Zenon
     DEF Sale, OnSaleUnsold, ReservationAgrees, HoldsOwnOrder, SoldOnce
<1>4. RefundAndDisputeFreeze /\ Amounts /\ Dated
  BY <1>2, NoneAssumption, Zenon DEF RefundAndDisputeFreeze, Amounts, Dated
<1>5. Settling
  BY <1>2, NoneAssumption, Zenon DEF Settling
<1>6. PaidOnce
  BY <1>2, NoneAssumption, PaidOnceUnfolded, Zenon DEF Funded
<1>7. Paying
  BY <1>2, <1>6, Zenon DEF Paying
<1>8. Refunding
  BY <1>2, NoneAssumption, Zenon DEF Refunding, RefundsAreBacked
<1>9. Claiming
  BY <1>2, NoneAssumption, Zenon DEF Claiming
<1> QED BY <1>1, <1>3, <1>4, <1>5, <1>7, <1>8, <1>9, Zenon DEF IInv

\* Every step preserves the inductive invariant.
LEMMA NextIInv == IInv /\ [Next]_vars => IInv'
BY TypeStep, SaleStep, FreezeStep, AmountsStep, DatedStep, SettlingStep, PayingStep,
   RefundingStep, ClaimingStep, Zenon DEF IInv

\* The inductive invariant: listings, orders, payments, refunds, disputes,
\* settlements, the gateway and the calls in flight agree in every reachable
\* state, however transactions, gateway calls, jobs, callbacks and restarts
\* interleave.
THEOREM Invariance == Spec => []IInv
BY InitIInv, NextIInv, PTL DEF Spec

\* Every table keeps to its schema.
THEOREM TypeCorrect == Spec => []TypeOK
<1>1. IInv => TypeOK
  BY Zenon DEF IInv
<1> QED BY <1>1, Invariance, PTL

\* No interleaving sells an item twice.
THEOREM NeverSoldTwice == Spec => []SoldOnce
<1>1. IInv => SoldOnce
  BY Zenon DEF IInv, Sale
<1> QED BY <1>1, Invariance, PTL

\* reserved_order_id and the order's status never disagree.
THEOREM ReservationsAgree == Spec => []ReservationAgrees
<1>1. IInv => ReservationAgrees
  BY Zenon DEF IInv, Sale
<1> QED BY <1>1, Invariance, PTL

\* No combination of requests, callbacks, cancellation and expiry pays an order
\* twice or pays a cancelled one.
THEOREM NeverPaidTwice == Spec => []PaidOnce
<1>1. IInv => PaidOnce
  BY Zenon DEF IInv, Paying
<1> QED BY <1>1, Invariance, PTL

\* Pending refunds and disputes freeze their orders.
THEOREM Freezes == Spec => []RefundAndDisputeFreeze
<1>1. IInv => RefundAndDisputeFreeze
  BY Zenon DEF IInv
<1> QED BY <1>1, Invariance, PTL

\* Sellers are settled for completed orders only, at the price less the exact
\* commission of the rate the order was placed under.
THEOREM SettlementsMatch == Spec => []SettlementsMatchOrders
<1>1. IInv => SettlementsMatchOrders
  <2> SUFFICES ASSUME IInv, NEW o \in Orders, settlements[o].status # None
               PROVE  settlements[o].amount =
                        orders[o].price - (orders[o].price * orders[o].rate) \div 10000
    BY DEF SettlementsMatchOrders, IInv, Settling
  <2>1. /\ orders[o].status = "completed"
        /\ settlements[o].amount = orders[o].net
    BY Zenon DEF IInv, Settling
  <2>2. /\ orders[o].fee = commissionFee(orders[o].price, orders[o].rate)
        /\ orders[o].net = orders[o].price - orders[o].fee
    BY <2>1, NoneAssumption, Zenon DEF IInv, Amounts
  <2>3. orders[o].price \in Prices /\ orders[o].rate \in Rates
    BY <2>1, RowsExist, NoneAssumption, Zenon DEF IInv, OrderRows
  <2>4. orders[o].price \in Nat /\ orders[o].rate \in Nat /\ orders[o].rate <= 10000
    BY <2>3, AmountTypes
  <2> DEFINE exact(price, rate) == (price * rate) \div 10000
  <2>5. \A price \in Nat, rate \in Nat : rate <= 10000 =>
          commissionFee(price, rate) = exact(price, rate)
    BY CommissionFeeIsExact
  <2> HIDE DEF exact
  <2>6. commissionFee(orders[o].price, orders[o].rate) = exact(orders[o].price, orders[o].rate)
    BY <2>4, <2>5
  <2>7. settlements[o].amount = orders[o].price - exact(orders[o].price, orders[o].rate)
    BY <2>1, <2>2, <2>6, Zenon
  <2> QED BY <2>7 DEF exact
<1> QED BY <1>1, Invariance, PTL

\* A claim is turned down when its row says so.
LEMMA RejectedRows ==
  ASSUME NEW o \in Orders
  PROVE  /\ <<o, "refund">> \in Rejected <=> refunds[o] = "rejected"
         /\ <<o, "dispute">> \in Rejected <=> disputes[o].status = "rejected"
BY DEF Rejected

\* A claim that was paid, but not turned down, is open, and its order held, or it
\* succeeded, and its order is refunded.
LEMMA PaidClaims ==
  ASSUME IInv, NEW o \in Orders
  PROVE  /\ refunds[o] \in {None, "pending", "succeeded", "rejected"}
         /\ disputes[o].status \in {None, "pending", "resolved", "rejected"}
         /\ refunds[o] = "pending" => orders[o].status \in {"paid", "delivered"}
         /\ refunds[o] = "succeeded" => orders[o].status = "refunded"
         /\ disputes[o].status = "pending" <=> orders[o].status = "disputed"
         /\ disputes[o].status = "resolved" => orders[o].status = "refunded"
         /\ <<o, "refund">> \in refunded => refunds[o] # None
         /\ <<o, "dispute">> \in refunded => disputes[o].status # None
         /\ disputes[o].status = "resolved" =>
              <<o, "dispute">> \in refunded /\ ~(refunds[o] = "succeeded" /\ <<o, "refund">> \in refunded)
         /\ o \in settled => orders[o].status = "completed"
<1>1. TypeOK
  BY Zenon DEF IInv
<1>2. disputes[o].status # None => disputes[o] \in DisputeRows
  BY <1>1, RowsExist, Zenon
<1>3. disputes[o].status \in {None, "pending", "resolved", "rejected"}
  BY <1>2, Zenon DEF DisputeRows
<1>4. refunds[o] \in {None, "pending", "succeeded", "rejected"}
  BY <1>1, Zenon DEF TypeOK
<1> QED BY <1>3, <1>4, Zenon DEF IInv, RefundAndDisputeFreeze, Refunding, RefundsAreBacked, Claiming, Settling

\* A refunded order has been paid back by the gateway, and what the gateway pays
\* for an order goes one way, except for claims that were turned down.
THEOREM PayoutsAgreeAlways == Spec => []PayoutsAgree
<1>1. ASSUME IInv PROVE PaidOutOnce
  <2>1. ASSUME NEW o \in Orders, o \in settled, NEW c \in {"refund", "dispute"},
               <<o, c>> \in refunded
        PROVE  <<o, c>> \in Rejected
    BY <1>1, <2>1, PaidClaims, RejectedRows, NoneAssumption, Zenon
  <2>2. ASSUME NEW o \in Orders, <<o, "refund">> \in refunded, <<o, "dispute">> \in refunded
        PROVE  <<o, "refund">> \in Rejected \/ <<o, "dispute">> \in Rejected
    BY <1>1, <2>2, PaidClaims, RejectedRows, NoneAssumption, Zenon
  <2> QED BY <2>1, <2>2, Zenon DEF PaidOutOnce
<1>2. IInv => PayoutsAgree
  BY <1>1, Zenon DEF PayoutsAgree, IInv, Refunding
<1> QED BY <1>2, Invariance, PTL

\* Orders follow the documented state machine.
THEOREM OrdersFollowTheMachine == Spec => OrderMachine
<1>1. IInv /\ [Next]_vars =>
        [\A o \in Orders :
           /\ orders[o].status # orders'[o].status =>
                <<orders[o].status, orders'[o].status>> \in OrderMoves
           /\ orders[o].deliveredAt # None =>
                orders'[o].deliveredAt = orders[o].deliveredAt]_vars
  BY OrderMachineStep, Zenon
<1> QED BY <1>1, Invariance, PTL DEF Spec, OrderMachine

\* Settlements recorded as succeeded are not touched again.
LEMMA SettledIsFinal ==
  ASSUME IInv, [Next]_vars, NEW o \in Orders, settlements[o].status = "succeeded"
  PROVE  settlements'[o] = settlements[o]
<1>0. TypeOK /\ Settling
  BY Zenon DEF IInv
<1>1. orders[o].status = "completed"
  BY <1>0, NoneAssumption, Zenon DEF Settling
<1>2. ASSUME NEW p \in Orders, Completes(p)
      PROVE  settlements'[o] = settlements[o]
  <2>1. /\ orders[p].status = "delivered"
        /\ settlements' = IF settlements[p].status = None
                          THEN [settlements EXCEPT ![p] = [status |-> "pending",
                                                           amount |-> orders[p].net]]
                          ELSE settlements
    BY <1>2, Zenon DEF Completes, ConfirmReceived, AutoCompleteOrder, CompleteOrder, Completable
  <2> QED BY <1>0, <1>1, <2>1, Zenon DEF TypeOK
<1>3. ASSUME NEW w \in Workers, GatewaySettle(w)
      PROVE  settlements'[o] = settlements[o]
  BY <1>3, Zenon DEF GatewaySettle, records
<1>4. ASSUME NEW w \in Workers, UpdateSettlement(w)
      PROVE  settlements'[o] = settlements[o]
  BY <1>0, <1>4, Zenon DEF UpdateSettlement, Unsettled, TypeOK
<1> QED BY <1>2, <1>3, <1>4, RecordSteps, Zenon

\* Decisions are final.
THEOREM DecisionsStand == Spec => DecisionsAreFinal
<1>1. ASSUME IInv, [Next]_vars, NEW r \in Requests, payments[r].status = "succeeded"
      PROVE  payments'[r] = payments[r]
  <2>1. PaymentMove(r) /\ payments[r].txn
    BY <1>1, PaymentStep, NoneAssumption, Zenon DEF IInv, Paying
  <2> QED BY <1>1, <2>1, NoneAssumption, Zenon DEF PaymentMove
<1>2. ASSUME IInv, [Next]_vars, NEW o \in Orders
      PROVE  /\ refunds[o] \in {"succeeded", "rejected"} => refunds'[o] = refunds[o]
             /\ disputes[o].status \in {"resolved", "rejected"} => disputes'[o] = disputes[o]
  <2>1. OrderMove(o)
    BY <1>2, OrderStep, Zenon
  <2>2. refunds[o] = "succeeded" \/ refunds[o] = "rejected" => refunds[o] # "pending"
    OBVIOUS
  <2>3. CASE StatusMove(o)
    <3>1. CASE ToCancelled(o) \/ ToPaid(o)
      BY NoneAssumption, <3>1, Zenon DEF ToCancelled, ToPaid
    <3>2. CASE ToDelivered(o) \/ ToCompleted(o)
      BY NoneAssumption, <3>2, Zenon DEF ToDelivered, ToCompleted
    <3>3. CASE ToRefunded(o) \/ ToDisputed(o)
      BY NoneAssumption, <3>3, Zenon DEF ToRefunded, ToDisputed
    <3>4. CASE DisputeToRefunded(o)
      BY NoneAssumption, <3>4, Zenon DEF DisputeToRefunded
    <3>5. CASE DisputeToPrevious(o)
      BY NoneAssumption, <3>5, Zenon DEF DisputeToPrevious
    <3> QED BY <2>3, <3>1, <3>2, <3>3, <3>4, <3>5, Zenon DEF StatusMove
  <2> QED BY <2>1, <2>3, NoneAssumption, Zenon DEF OrderMove, Untouched, Places, RefundMove
<1>3. IInv /\ [Next]_vars =>
        [/\ \A r \in Requests : payments[r].status = "succeeded" =>
              payments'[r] = payments[r]
         /\ \A o \in Orders :
              /\ refunds[o] \in {"succeeded", "rejected"} => refunds'[o] = refunds[o]
              /\ disputes[o].status \in {"resolved", "rejected"} =>
                   disputes'[o] = disputes[o]
              /\ settlements[o].status = "succeeded" =>
                   settlements'[o] = settlements[o]]_vars
  BY <1>1, <1>2, SettledIsFinal, Zenon
<1> QED BY <1>3, Invariance, PTL DEF Spec, DecisionsAreFinal

\* Where the money of an order is, by its status.
LEMMA FundsByStatus ==
  /\ FundsAt(None) = "absent"
  /\ FundsAt("pendingPayment") = "unpaid"
  /\ FundsAt("cancelled") = "void"
  /\ \A s \in {"paid", "delivered", "disputed"} : FundsAt(s) = "held"
  /\ FundsAt("completed") = "released"
  /\ FundsAt("refunded") = "returned"
BY NoneAssumption, Zenon DEF FundsAt

\* A step changes at most one order, with its refund and its dispute.
LEMMA OneOrder ==
  ASSUME IInv, [Next]_vars
  PROVE  \/ UNCHANGED <<orders, refunds, disputes>>
         \/ \E o \in Orders : \A p \in Orders : p # o => Untouched(p)
<1> DEFINE One == \E o \in Orders : \A p \in Orders : p # o => Untouched(p)
<1>0. TypeOK /\ RefundAndDisputeFreeze
  BY Zenon DEF IInv
<1>1. CASE \E o \in Orders : CreateOrder(o) \/ CancelOrder(o) \/ ExpireOrder(o) \/ MarkDelivered(o)
  BY <1>0, <1>1, Zenon DEF TypeOK, CreateOrder, CancelOrder, ExpireOrder, MarkDelivered,
     records, Untouched
<1>2. CASE \E o \in Orders : CreateDispute(o) \/ CreateRefund(o)
  BY <1>0, <1>2, Zenon DEF TypeOK, CreateDispute, CreateRefund, records, Untouched
<1>3. CASE \E w \in Workers, o \in Orders : ConfirmReceived(w, o) \/ AutoCompleteOrder(w, o)
  BY <1>0, <1>3, Zenon DEF TypeOK, ConfirmReceived, AutoCompleteOrder, CompleteOrder, Untouched
<1>4. ASSUME NEW r \in Requests, ApplyPaymentCallback(r)
      PROVE  One
  <2>1. payments[r] \in PaymentRows
    BY <1>0, <1>4, RowsExist, NoneAssumption, Zenon DEF ApplyPaymentCallback
  <2>2. payments[r].order \in Orders
    BY <2>1, Zenon DEF PaymentRows
  <2> QED BY <1>0, <1>4, <2>2, Zenon DEF TypeOK, ApplyPaymentCallback, Untouched
<1>5. ASSUME NEW i \in Items, HideItem(i)
      PROVE  One \/ UNCHANGED <<orders, refunds, disputes>>
  <2>1. items[i].order # None => items[i].order \in Orders
    BY <1>0 DEF TypeOK, NoItem, ItemRows
  <2> QED BY <1>0, <1>5, <2>1, Zenon DEF TypeOK, HideItem, records, Untouched
<1>6. ASSUME NEW w \in Workers, RecordRefund(w)
      PROVE  One
  <2>1. calls[w].order \in Orders
    BY <1>0, <1>6, RefundEffect, Zenon
  <2>2. /\ orders' = orders \/ orders' = [orders EXCEPT ![calls[w].order].status = "refunded"]
        /\ UNCHANGED disputes
    BY <1>0, <1>6, RefundEffect, Zenon DEF RecordRefund
  <2>3. refunds' = refunds \/ \E st : refunds' = [refunds EXCEPT ![calls[w].order] = st]
    BY <1>6, Zenon DEF RecordRefund, records
  <2> QED BY <1>0, <2>1, <2>2, <2>3, Zenon DEF TypeOK, Untouched
<1>7. ASSUME NEW w \in Workers, RecordResolution(w)
      PROVE  One \/ UNCHANGED <<orders, refunds, disputes>>
  <2>1. calls[w].order \in Orders
    BY <1>0, <1>7, ResolutionEffect, Zenon
  <2>2. \/ UNCHANGED <<orders, refunds, disputes>>
        \/ /\ \E st : orders' = [orders EXCEPT ![calls[w].order].status = st]
           /\ \E st : disputes' = [disputes EXCEPT ![calls[w].order].status = st]
           /\ UNCHANGED refunds \/ \E st : refunds' = [refunds EXCEPT ![calls[w].order] = st]
    BY <1>0, <1>7, ResolutionEffect, Zenon
  <2> QED BY <1>0, <2>1, <2>2, Zenon DEF TypeOK, Untouched
<1>8. CASE \/ \E i \in Items, c \in Categories, price \in Prices,
                 status \in {"draft", "published"} : CreateItem(i, c, price, status)
           \/ \E i \in Items : WithdrawItem(i)
           \/ \E w \in Workers : WriteItem(w)
  BY <1>8, Zenon DEF CreateItem, WithdrawItem, WriteItem, records
<1> QED BY <1>1, <1>2, <1>3, <1>4, <1>5, <1>6, <1>7, <1>8, OtherSteps, Zenon DEF SaleMove

\* The claims that were turned down are those whose rows say so.
LEMMA SameRejected ==
  ASSUME \A p \in Orders :
           /\ refunds'[p] = "rejected" <=> refunds[p] = "rejected"
           /\ disputes'[p].status = "rejected" <=> disputes[p].status = "rejected"
  PROVE  Rejected' = Rejected
<1>1. {o \in Orders : refunds'[o] = "rejected"} = {o \in Orders : refunds[o] = "rejected"}
  BY Zenon
<1>2. {o \in Orders : disputes'[o].status = "rejected"} =
        {o \in Orders : disputes[o].status = "rejected"}
  BY Zenon
<1> QED BY <1>1, <1>2, Zenon DEF Rejected

\* A claim that is turned down joins them.
LEMMA MoreRejected ==
  ASSUME NEW o \in Orders, \A p \in Orders : p # o => Untouched(p)
  PROVE  /\ refunds'[o] = "rejected" /\ UNCHANGED disputes[o] =>
              Rejected' = Rejected \cup {<<o, "refund">>}
         /\ disputes'[o].status = "rejected" /\ UNCHANGED refunds[o] =>
              Rejected' = Rejected \cup {<<o, "dispute">>}
<1> DEFINE R == {p \in Orders : refunds[p] = "rejected"}
           D == {p \in Orders : disputes[p].status = "rejected"}
<1>0. Rejected = R \X {"refund"} \cup D \X {"dispute"} /\ Rejected' = R' \X {"refund"} \cup D' \X {"dispute"}
  BY Zenon DEF Rejected
<1>1. refunds'[o] = "rejected" => R' = R \cup {o}
  BY Zenon DEF Untouched
<1>2. disputes'[o].status = "rejected" => D' = D \cup {o}
  BY Zenon DEF Untouched
<1>3. UNCHANGED disputes[o] => D' = D
  BY Zenon DEF Untouched
<1>4. UNCHANGED refunds[o] => R' = R
  BY Zenon DEF Untouched
<1> HIDE DEF R, D
<1>5. (R \cup {o}) \X {"refund"} \cup D \X {"dispute"} =
        (R \X {"refund"} \cup D \X {"dispute"}) \cup {<<o, "refund">>}
  OBVIOUS
<1>6. R \X {"refund"} \cup (D \cup {o}) \X {"dispute"} =
        (R \X {"refund"} \cup D \X {"dispute"}) \cup {<<o, "dispute">>}
  OBVIOUS
<1> QED BY <1>0, <1>1, <1>2, <1>3, <1>4, <1>5, <1>6, Zenon

\* What the gateway paid for a claim.
LEMMA PaidClaim ==
  ASSUME NEW o, NEW c \in {"refund", "dispute"}
  PROVE  <<o, c>> \in Payouts <=> <<o, c>> \in refunded
BY DEF Payouts

\* A step that pays nothing out moves the money of one order as Escrow does.
LEMMA BookStep ==
  ASSUME IInv, [Next]_vars, UNCHANGED <<refunded, settled>>,
         NEW o \in Orders, \A p \in Orders : p # o => Untouched(p)
  PROVE  [Ledger!Next]_(Ledger!books)
<1>1. OrderMove(o)
  BY OrderStep, Zenon
<1>2. /\ \A p \in Orders : Funds[p] = FundsAt(orders[p].status)
      /\ Funds'[o] = FundsAt(orders'[o].status)
  BY Zenon DEF Funds
<1>3. \A p \in Orders : p # o => Funds'[p] = Funds[p]
  BY Zenon DEF Funds, Untouched
<1>4. Funds' = [Funds EXCEPT ![o] = Funds'[o]]
  BY <1>3, Zenon DEF Funds
<1>5. Funds'[o] = Funds[o] => Funds' = Funds
  BY <1>4, Zenon DEF Funds
<1>6. Payouts' = Payouts
  BY Zenon DEF Payouts
<1>7. /\ refunds'[o] = "rejected" <=> refunds[o] = "rejected"
      /\ disputes'[o].status = "rejected" <=> disputes[o].status = "rejected"
      => Rejected' = Rejected
  BY SameRejected, Zenon DEF Untouched
<1> HIDE DEF Funds, Payouts, Rejected
<1>8. ASSUME Funds'[o] = Funds[o], Rejected' = Rejected
      PROVE  [Ledger!Next]_(Ledger!books)
  BY <1>5, <1>6, <1>8, Zenon DEF Ledger!books
<1>9. CASE Untouched(o)
  BY <1>2, <1>7, <1>8, <1>9, Zenon DEF Untouched
<1>10. CASE Places(o)
  <2>1. \A p \in Orders : ItemOf[p] = ItemOf[o] => orders[p].status \in {None, "cancelled"}
    BY <1>10, Zenon DEF IInv, Sale, OnSaleUnsold, CreateOrder, Places
  <2>2. orders[o].status = None /\ orders'[o].status = "pendingPayment" /\ Rejected' = Rejected
    BY <1>7, <1>10, NoOrderFields, Zenon DEF Places
  <2>3. \A p \in Orders : ItemOf[p] = ItemOf[o] => Funds[p] \in {"absent", "void"}
    BY <1>2, <2>1, FundsByStatus, Zenon
  <2>4. Funds[o] = "absent" /\ Funds'[o] = "unpaid"
    BY <1>2, <2>2, FundsByStatus, Zenon
  <2>5. Ledger!Reserve(o)
    BY <1>4, <1>6, <2>2, <2>3, <2>4, Zenon DEF Ledger!Reserve, Ledger!Move
  <2> QED BY <2>5, Zenon DEF Ledger!Next
<1>11. CASE RefundMove(o)
  <2>1. Funds'[o] = Funds[o] /\ UNCHANGED disputes[o]
    BY <1>2, <1>11, Zenon DEF RefundMove
  <2>2. CASE refunds'[o] = "rejected"
    <3>1. Rejected' = Rejected \cup {<<o, "refund">>}
      BY <2>1, <2>2, MoreRejected, Zenon
    <3>2. refunds[o] = "pending"
      BY <1>11, <2>2 DEF RefundMove
    <3>3. Funds[o] = "held"
      <4>1. orders[o].status \in {"paid", "delivered", "disputed"}
        BY <3>2, PaidClaims, Zenon
      <4> QED BY <1>2, <4>1, FundsByStatus, Zenon
    <3>4. Ledger!Reject(o, "refund")
      BY <1>5, <1>6, <2>1, <3>1, <3>3, Zenon DEF Ledger!Reject
    <3> QED BY <3>4, Zenon DEF Ledger!Next, Ledger!Claims
  <2>3. CASE refunds'[o] # "rejected"
    <3>1. refunds[o] # "rejected"
      BY <1>11, NoneAssumption, Zenon DEF RefundMove
    <3>2. Rejected' = Rejected
      BY <1>7, <2>1, <2>3, <3>1, Zenon
    <3> QED BY <1>8, <2>1, <3>2, Zenon
  <2> QED BY <2>2, <2>3, Zenon
<1>12. CASE ToCancelled(o) \/ ToPaid(o)
  <2>1. /\ Funds[o] = "unpaid" /\ Rejected' = Rejected
        /\ Funds'[o] = "void" \/ Funds'[o] = "held"
    BY <1>2, <1>7, <1>12, FundsByStatus, Zenon DEF ToCancelled, ToPaid
  <2>2. Ledger!Void(o) \/ Ledger!Hold(o)
    BY <1>4, <1>6, <2>1, Zenon DEF Ledger!Void, Ledger!Hold, Ledger!Move
  <2> QED BY <2>2, Zenon DEF Ledger!Next
<1>13. CASE ToDelivered(o)
  <2>1. Funds'[o] = Funds[o] /\ Rejected' = Rejected
    BY <1>2, <1>7, <1>13, FundsByStatus, Zenon DEF ToDelivered
  <2> QED BY <1>8, <2>1, Zenon
<1>14. CASE ToDisputed(o)
  <2>0. /\ orders[o].status = "paid" \/ orders[o].status = "delivered"
        /\ orders'[o].status = "disputed" /\ UNCHANGED refunds[o]
        /\ disputes[o].status # "rejected" /\ disputes'[o].status # "rejected"
    BY <1>14, NoneAssumption, Zenon DEF ToDisputed
  <2>1. Funds'[o] = Funds[o] /\ Rejected' = Rejected
    BY <1>2, <1>7, <2>0, FundsByStatus, Zenon
  <2> QED BY <1>8, <2>1, Zenon
<1>15. CASE ToCompleted(o)
  <2>1. Funds[o] = "held" /\ Funds'[o] = "released" /\ Rejected' = Rejected
    BY <1>2, <1>7, <1>15, FundsByStatus, Zenon DEF ToCompleted
  <2>2. orders[o].status = "delivered" /\ refunds[o] # "pending"
    BY <1>15, Zenon DEF ToCompleted
  <2>3. /\ <<o, "refund">> \in refunded => <<o, "refund">> \in Rejected
        /\ <<o, "dispute">> \in refunded => <<o, "dispute">> \in Rejected
    BY <2>2, PaidClaims, RejectedRows, Zenon
  <2>4. Ledger!NothingPaid(o, "none")
    BY <2>3, PaidClaim, Zenon DEF Ledger!NothingPaid, Ledger!Claims
  <2>5. Ledger!Release(o)
    BY <1>4, <1>6, <2>1, <2>4, Zenon DEF Ledger!Release, Ledger!Move
  <2> QED BY <2>5, Zenon DEF Ledger!Next
<1>16. CASE ToRefunded(o)
  <2>1. Funds[o] = "held" /\ Funds'[o] = "returned" /\ Rejected' = Rejected
    BY <1>2, <1>7, <1>16, FundsByStatus, Zenon DEF ToRefunded
  <2>2. <<o, "refund">> \in refunded
    BY <1>16, Zenon DEF ToRefunded, RefundsPaid, IInv, Refunding
  <2>3. \E c \in Ledger!Claims : <<o, c>> \in Payouts
    BY <2>2, PaidClaim, Zenon DEF Ledger!Claims
  <2>4. Ledger!Return(o)
    BY <1>4, <1>6, <2>1, <2>3, Zenon DEF Ledger!Return, Ledger!Move
  <2> QED BY <2>4, Zenon DEF Ledger!Next
<1>17. CASE DisputeToRefunded(o)
  <2>0. /\ orders[o].status = "disputed" /\ orders'[o].status = "refunded" /\ DisputePaid(o)
        /\ disputes[o].status = "pending" /\ disputes'[o].status = "resolved"
        /\ refunds'[o] = "succeeded" \/ refunds'[o] = refunds[o]
        /\ refunds[o] # None => refunds'[o] = refunds[o]
    BY <1>17, Zenon DEF DisputeToRefunded
  <2>1. Funds[o] = "held" /\ Funds'[o] = "returned"
    BY <1>2, <2>0, FundsByStatus, Zenon
  <2>2. <<o, "dispute">> \in refunded
    BY <2>0, Zenon DEF DisputePaid, IInv, Refunding
  <2>3. \E c \in Ledger!Claims : <<o, c>> \in Payouts
    BY <2>2, PaidClaim, Zenon DEF Ledger!Claims
  <2>4. Rejected' = Rejected
    BY <1>7, <2>0, NoneAssumption, Zenon
  <2>5. Ledger!Return(o)
    BY <1>4, <1>6, <2>1, <2>3, <2>4, Zenon DEF Ledger!Return, Ledger!Move
  <2> QED BY <2>5, Zenon DEF Ledger!Next
<1>18. CASE DisputeToPrevious(o)
  <2>1. Funds[o] = "held" /\ Funds'[o] = "held"
    BY <1>2, <1>18, FundsByStatus, Zenon DEF DisputeToPrevious
  <2>2. Rejected' = Rejected \cup {<<o, "dispute">>}
    BY <1>18, MoreRejected, Zenon DEF DisputeToPrevious
  <2>3. Ledger!Reject(o, "dispute")
    BY <1>5, <1>6, <2>1, <2>2, Zenon DEF Ledger!Reject
  <2> QED BY <2>3, Zenon DEF Ledger!Next, Ledger!Claims
<1> QED BY <1>1, <1>9, <1>10, <1>11, <1>12, <1>13, <1>14, <1>15, <1>16, <1>17, <1>18, Zenon
        DEF OrderMove, StatusMove

\* A step that pays a buyer does so as Escrow does, or repeats a payout.
LEMMA BuyerStep ==
  ASSUME IInv, NEW w \in Workers, GatewayRefund(w) \/ GatewayDisputeRefund(w)
  PROVE  [Ledger!Next]_(Ledger!books)
<1> DEFINE o == calls[w].order
           c == IF calls[w].op = "payRefund" THEN "refund" ELSE "dispute"
<1>1. /\ calls[w].op \in {"payRefund", "payDispute"}
      /\ refunded' = refunded \cup {<<o, c>>} \/ UNCHANGED refunded
      /\ UNCHANGED <<settled, orders, refunds, disputes>>
  <2>1. CASE GatewayRefund(w)
    <3>1. calls[w].op = "payRefund" /\ c = "refund"
      BY <2>1 DEF GatewayRefund
    <3> QED BY <2>1, <3>1, Zenon DEF GatewayRefund, records
  <2>2. CASE GatewayDisputeRefund(w)
    <3>1. calls[w].op = "payDispute" /\ c = "dispute"
      BY <2>2 DEF GatewayDisputeRefund
    <3> QED BY <2>2, <3>1, Zenon DEF GatewayDisputeRefund, records
  <2> QED BY <2>1, <2>2, Zenon
<1>2. o \in Orders
  BY <1>1, ClaimCallOrder, Zenon DEF IInv
<1>3. Funds' = Funds /\ Rejected' = Rejected
  BY <1>1, Zenon DEF Funds, Rejected
<1>4. Payouts' = Payouts \cup {<<o, c>>} \/ Payouts' = Payouts
  BY <1>1, Zenon DEF Payouts
<1>5. Funds[o] = FundsAt(orders[o].status)
  BY <1>2, Zenon DEF Funds
<1> HIDE DEF Funds, Payouts, Rejected, o
<1>6. Payouts' = Payouts => [Ledger!Next]_(Ledger!books)
  BY <1>3, Zenon DEF Ledger!books
<1>7. CASE calls[w].op = "payRefund"
  <2>1. c = "refund"
    BY <1>7
  <2>2. refunds[o] # None /\ (refunds[o] = "succeeded" => <<o, "refund">> \in refunded)
    BY <1>7, Zenon DEF IInv, Claiming, o
  <2>3. CASE refunds[o] = "rejected"
    <3>1. <<o, "refund">> \in Rejected
      BY <1>2, <2>3, RejectedRows, Zenon
    <3>2. Payouts' # Payouts => Ledger!PayBuyer(o, "refund")
      BY <1>3, <1>4, <2>1, <3>1, Zenon DEF Ledger!PayBuyer
    <3> QED BY <1>2, <1>6, <3>2, Zenon DEF Ledger!Next, Ledger!Claims
  <2>4. CASE refunds[o] = "succeeded"
    <3>1. <<o, "refund">> \in Payouts
      BY <1>2, <2>2, <2>4, PaidClaim, Zenon
    <3>2. Payouts' = Payouts
      BY <1>4, <2>1, <3>1, Zenon
    <3> QED BY <1>6, <3>2, Zenon
  <2>5. CASE refunds[o] = "pending"
    <3>1. orders[o].status \in {"paid", "delivered"}
      BY <1>2, <2>5, PaidClaims, Zenon
    <3>2. <<o, "dispute">> \in refunded => <<o, "dispute">> \in Rejected
      BY <1>2, <3>1, PaidClaims, RejectedRows, Zenon
    <3>3. Ledger!NothingPaid(o, "refund")
      BY <3>2, PaidClaim, Zenon DEF Ledger!NothingPaid, Ledger!Claims
    <3>4. Funds[o] = "held"
      BY <1>5, <3>1, FundsByStatus, Zenon
    <3>5. Payouts' # Payouts => Ledger!PayBuyer(o, "refund")
      BY <1>3, <1>4, <2>1, <3>3, <3>4, Zenon DEF Ledger!PayBuyer
    <3> QED BY <1>2, <1>6, <3>5, Zenon DEF Ledger!Next, Ledger!Claims
  <2> QED BY <1>2, <2>2, <2>3, <2>4, <2>5, PaidClaims, Zenon
<1>8. CASE calls[w].op = "payDispute"
  <2>1. c = "dispute"
    BY <1>8
  <2>2. disputes[o].status # None
    BY <1>8, Zenon DEF IInv, Claiming, o
  <2>3. CASE disputes[o].status = "rejected"
    <3>1. <<o, "dispute">> \in Rejected
      BY <1>2, <2>3, RejectedRows, Zenon
    <3>2. Payouts' # Payouts => Ledger!PayBuyer(o, "dispute")
      BY <1>3, <1>4, <2>1, <3>1, Zenon DEF Ledger!PayBuyer
    <3> QED BY <1>2, <1>6, <3>2, Zenon DEF Ledger!Next, Ledger!Claims
  <2>4. CASE disputes[o].status = "resolved"
    <3>1. <<o, "dispute">> \in Payouts
      BY <1>2, <2>4, PaidClaims, PaidClaim, Zenon
    <3>2. Payouts' = Payouts
      BY <1>4, <2>1, <3>1, Zenon
    <3> QED BY <1>6, <3>2, Zenon
  <2>5. CASE disputes[o].status = "pending"
    <3>1. orders[o].status = "disputed"
      BY <1>2, <2>5, PaidClaims, Zenon
    <3>2. <<o, "refund">> \in refunded => <<o, "refund">> \in Rejected
      BY <1>2, <3>1, PaidClaims, RejectedRows, Zenon
    <3>3. Ledger!NothingPaid(o, "dispute")
      BY <3>2, PaidClaim, Zenon DEF Ledger!NothingPaid, Ledger!Claims
    <3>4. Funds[o] = "held"
      BY <1>5, <3>1, FundsByStatus, Zenon
    <3>5. Payouts' # Payouts => Ledger!PayBuyer(o, "dispute")
      BY <1>3, <1>4, <2>1, <3>3, <3>4, Zenon DEF Ledger!PayBuyer
    <3> QED BY <1>2, <1>6, <3>5, Zenon DEF Ledger!Next, Ledger!Claims
  <2> QED BY <1>2, <2>2, <2>3, <2>4, <2>5, PaidClaims, Zenon
<1> QED BY <1>1, <1>7, <1>8, Zenon

\* A step that pays a seller does so as Escrow does.
LEMMA SellerStep ==
  ASSUME IInv, NEW w \in Workers, GatewaySettle(w)
  PROVE  [Ledger!Next]_(Ledger!books)
<1> DEFINE o == calls[w].order
<1>1. /\ calls[w].op = "settle"
      /\ settled' = settled \cup {o}
      /\ UNCHANGED <<refunded, orders, refunds, disputes>>
  BY Zenon DEF GatewaySettle, records
<1>2. o \in Orders
  BY <1>1, SettlementCallOrder, Zenon DEF IInv
<1>3. Funds' = Funds /\ Rejected' = Rejected
  BY <1>1, Zenon DEF Funds, Rejected
<1>4. Payouts' = Payouts \cup {<<o, "seller">>}
  BY <1>1 DEF Payouts
<1>5. Funds[o] = "released"
  BY <1>1, <1>2, FundsByStatus, Zenon DEF Funds, IInv, Settling
<1> HIDE DEF Funds, Payouts, Rejected, o
<1>6. Ledger!PaySeller(o)
  BY <1>3, <1>4, <1>5, Zenon DEF Ledger!PaySeller
<1> QED BY <1>2, <1>6, Zenon DEF Ledger!Next

\* The marketplace implements Escrow: the money of an order is held once and
\* then released or returned, an item is promised to one order at a time, and
\* the gateway pays the seller of released money, or the buyer of held money, or
\* for a claim that was turned down.
THEOREM Refinement == Spec => ImplementsEscrow
<1>1. Init => Ledger!Init
  <2>1. Init => Funds = [o \in Orders |-> "absent"]
    BY FundsByStatus DEF Init, Funds, NoOrder
  <2>2. Init => Payouts = {}
    BY DEF Init, Payouts
  <2>3. ASSUME Init PROVE Rejected = {}
    <3>1. \A o \in Orders : refunds[o] # "rejected" /\ disputes[o].status # "rejected"
      BY <2>3, NoneAssumption DEF Init, NoDispute
    <3> QED BY <3>1 DEF Rejected
  <2> QED BY <2>1, <2>2, <2>3, Zenon DEF Ledger!Init
<1>2. ASSUME IInv, [Next]_vars
      PROVE  [Ledger!Next]_(Ledger!books)
  <2>1. CASE \E w \in Workers : GatewayRefund(w) \/ GatewayDisputeRefund(w)
    BY <1>2, <2>1, BuyerStep, Zenon
  <2>2. CASE \E w \in Workers : GatewaySettle(w)
    BY <1>2, <2>2, SellerStep, Zenon
  <2>3. CASE UNCHANGED <<refunded, settled>>
    <3>1. CASE UNCHANGED <<orders, refunds, disputes>>
      BY <2>3, <3>1, Zenon DEF Ledger!books, Funds, Payouts, Rejected
    <3>2. ASSUME NEW o \in Orders, \A p \in Orders : p # o => Untouched(p)
          PROVE  [Ledger!Next]_(Ledger!books)
      BY <1>2, <2>3, <3>2, BookStep, Zenon
    <3> QED BY <1>2, <3>1, <3>2, OneOrder, Zenon
  <2>4. ASSUME NEW p \in Orders, Completes(p)
        PROVE  UNCHANGED <<refunded, settled>>
    BY <2>4, Zenon DEF Completes, ConfirmReceived, AutoCompleteOrder, CompleteOrder, gateway
  <2>5. ASSUME NEW w \in Workers, UpdateSettlement(w)
        PROVE  UNCHANGED <<refunded, settled>>
    BY <2>5, Zenon DEF UpdateSettlement, gateway
  <2> QED BY <1>2, <2>1, <2>2, <2>3, <2>4, <2>5, RecordSteps, Zenon
<1> QED BY <1>1, <1>2, Invariance, PTL DEF Spec, ImplementsEscrow, Ledger!Spec
=============================================================================
