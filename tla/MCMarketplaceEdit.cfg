SPECIFICATION Spec
CONSTANTS
  Items = {i1}
  Orders = {o1}
  seller = seller
  buyer = buyer
  first = o1
  Users = {seller, buyer}
  Requests = {r1}
  Workers = {w1}
  Categories = {c1}
  Prices = {999}
  Rates = {500}
  Seller <- MCSeller
  ItemOf <- MCItemOf
  BuyerOf <- MCBuyerOf
  PaymentWindow = 1
  AutoCompleteDelay = 1
  MaxTime = 2
  None = None
INVARIANTS
  ReservedHasOrder
