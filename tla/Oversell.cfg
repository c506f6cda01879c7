SPECIFICATION Spec
CONSTANTS
  A = A
  B = B
  Std = Std
  Orders = {A, B}
  TicketTypes = {Std}
  Items <- LastPlaceItems
  Tickets <- LastPlaceTickets
  ItemOrder <- MCItemOrder
  ItemType <- MCItemType
  TicketItem <- MCTicketItem
  Total <- LastPlaceTotal
  Totals = {}
  CounterEdits = {}
  StaffMoves <- AnyMoves
  Reconciles = FALSE
INVARIANTS
  NoOversell
SYMMETRY OrderSymmetry
CHECK_DEADLOCK FALSE
