SPECIFICATION FairSpec
CONSTANTS
  A = A
  B = B
  Std = Std
  Orders = {A, B}
  TicketTypes = {Std}
  Items <- LastPlaceItems
  Tickets <- LastPlaceTickets
  ItemOrder <- MCItemOrder
  ItemType <- MCItemType
  TicketItem <- MCTicketItem
  Total <- LastPlaceTotal
  Totals = {}
  CounterEdits = {0}
  StaffMoves =  {}
  Reconciles = TRUE
INVARIANTS
  TypeOK
  OnlyOverdueOversell
PROPERTIES
  LapsedHoldsSwept
CHECK_DEADLOCK FALSE
CONSTRAINT QuietDesk
