SPECIFICATION Spec
CONSTANTS
  Items = {i1}
  Orders = {o1}
  seller = seller
  buyer = buyer
  first = o1
  Users = {seller, buyer}
  Requests = {r1, r2}
  Workers = {w1, w2}
  Categories = {c1}
  Prices = {999}
  Rates = {500}
  Seller <- MCSeller
  ItemOf <- MCItemOf
  BuyerOf <- MCBuyerOf
  PaymentWindow = 1
  AutoCompleteDelay = 1
  MaxTime = 1
  None = None
SYMMETRY Symmetry
INVARIANTS PaidOnce SettlementsMatchOrders PayoutsAgree
