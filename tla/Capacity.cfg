SPECIFICATION Spec
CONSTANTS
  A = A
  B = B
  Std = Std
  Orders = {A, B}
  TicketTypes = {Std}
  Items <- LastPlaceItems
  Tickets <- LastPlaceTickets
  ItemOrder <- MCItemOrder
  ItemType <- MCItemType
  TicketItem <- MCTicketItem
  Total <- LastPlaceTotal
  Totals = {1, 2}
  CounterEdits = {}
  StaffMoves <- NoSaleMoves
  Reconciles = FALSE
INVARIANTS
  NoOversell
  SoldIsBacked
  LiveTicketsBacked
  EndedOrdersHoldNothing
  StampsAgree
  CountersCover
PROPERTIES
  CheckInIsFinal
  PlacesKept
SYMMETRY OrderSymmetry
CHECK_DEADLOCK FALSE
CONSTRAINT FewUnderWay
