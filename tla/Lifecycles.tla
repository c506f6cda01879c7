----------------------------- MODULE Lifecycles -----------------------------
(***************************************************************************)
(* The status tables of the booking backend: which statuses an inventory   *)
(* reservation, a booking order and an issued ticket can have, and between *)
(* which of them the code allows a row to move.                            *)
(***************************************************************************)

\* "none" stands for a row that does not exist (or was soft-deleted).
ReservationStatus ==
  {"active", "converted", "expired", "released", "cancelled", "created",
   "locking_inventory", "reserved", "payment_pending", "payment_started",
   "payment_processing", "payment_verified", "converting", "booked",
   "failed", "force_released", "refund_pending", "refunded"}

OrderStatus ==
  {"draft", "pending", "confirmed", "paid", "completed", "cancelled",
   "expired", "refunded", "partially_refunded"}

TicketStatus ==
  {"issued", "checked_in", "cancelled", "transferred", "refunded",
   "invalidated"}

-----------------------------------------------------------------------------
\* Inventory reservations.

ReservationSuccessors(s) ==
  CASE s = "created"            -> {"locking_inventory", "failed", "active"}
    [] s = "locking_inventory"  -> {"reserved", "failed"}
    [] s = "reserved"           -> {"payment_pending", "expired", "cancelled"}
    [] s = "payment_pending"    -> {"payment_started", "expired", "cancelled"}
    [] s = "payment_started"    -> {"payment_processing", "expired", "cancelled"}
    [] s = "payment_processing" -> {"payment_verified", "expired", "failed"}
    [] s = "payment_verified"   -> {"converting", "refund_pending"}
    [] s = "converting"         -> {"booked", "failed", "converted"}
    [] s \in {"booked", "converted"} -> {"released"}
    [] s = "expired"            -> {"refund_pending"}
    [] s = "refund_pending"     -> {"refunded", "failed"}
    [] s = "active" ->
         {"locking_inventory", "reserved", "payment_pending",
          "payment_started", "payment_processing", "payment_verified",
          "converting", "booked", "converted", "expired", "cancelled",
          "released"}
    [] OTHER -> {}

ReservationMayMove(from, to) == from = to \/ to \in ReservationSuccessors(from)

\* The statuses under which a reservation holds capacity.
HoldingStatus ==
  {"active", "created", "locking_inventory", "reserved", "payment_pending",
   "payment_started", "payment_processing", "payment_verified", "converting"}

\* Mutant: the worker overlooks the status reservations are created in.
ExpirableOnceStarted == HoldingStatus \ {"active", "payment_verified", "converting"}

\* The statuses from which the expiry worker picks up a due reservation.
ExpirableStatus == HoldingStatus \ {"payment_verified", "converting"}

\* Reservations a release leaves as they are.
ReleasedStatus == {"released", "expired", "cancelled", "failed", "force_released"}

-----------------------------------------------------------------------------
\* Booking orders.

OrderSuccessors(s) ==
  CASE s = "draft"     -> {"pending", "confirmed", "paid", "completed",
                           "cancelled", "expired"}
    [] s = "pending"   -> {"confirmed", "paid", "cancelled", "expired"}
    [] s = "confirmed" -> {"paid", "completed", "cancelled", "refunded",
                           "partially_refunded"}
    [] s = "paid"      -> {"confirmed", "completed", "cancelled", "expired"}
    [] s = "completed" -> {"refunded", "partially_refunded"}
    [] s = "refunded"  -> {"partially_refunded"}
    [] OTHER -> {}

TerminalOrder == {"cancelled", "expired", "refunded", "partially_refunded"}

\* The order statuses whose items count as sold.
SoldOrder == {"confirmed", "paid", "completed"}

-----------------------------------------------------------------------------
\* Issued tickets.

TicketSuccessors(s) ==
  CASE s = "issued"      -> {"checked_in", "cancelled", "transferred",
                             "refunded", "invalidated"}
    [] s = "transferred" -> {"checked_in", "cancelled", "refunded", "invalidated"}
    [] OTHER -> {}

TicketMayMove(from, to) == from = to \/ to \in TicketSuccessors(from)

\* The status the tickets of an order take when the order takes status s;
\* "none" where the code leaves them alone.
TicketStatusFor(s) ==
  CASE s \in SoldOrder -> "issued"
    [] s = "cancelled" -> "cancelled"
    [] s = "expired"   -> "invalidated"
    [] s \in {"refunded", "partially_refunded"} -> "refunded"
    [] OTHER -> "none"

\* A ticket its holder can still enter with, or has entered with.
LiveTicket == {"issued", "transferred", "checked_in"}
=============================================================================
