--------------------------- MODULE BookingsRouter ---------------------------
(***************************************************************************)
(* routers/bookings.py: selling a seat and cancelling a booking, statement *)
(* by statement, against the tables and row locks of Database.             *)
(*                                                                         *)
(* Each buyer is one POST /bookings request, and the booking it makes has  *)
(* the buyer's name; its owner is Passenger[b].                            *)
(***************************************************************************)
EXTENDS Database

CONSTANTS
    RefPool,        \* what generate_booking_reference may draw, per request
    MaxAttempts     \* _REFERENCE_ATTEMPTS

ASSUME BookingsAssumption ==
    /\ RefPool \in [Buyers -> SUBSET References]
    /\ MaxAttempts \in Nat \ {0}

VARIABLES
    order,          \* what each buyer asks for
    revoke,         \* the booking each canceller names
    chosen,         \* the seat row create_booking has selected, 0 for none
    attempt,        \* passes through the reference loop so far
    drawn           \* booking.booking_reference of the pending Booking object

bookingVars == <<order, revoke, chosen, attempt, drawn>>

(* A passenger leaves the seat to the airline (seat_number absent: SKIP     *)
(* LOCKED), sends it empty (any seat, but not SKIP LOCKED, which tests for  *)
(* None and not for falsity), or names one, which another flight may have.  *)
OrdersFor(f) ==
    [flight : {f}, wanted : {SeatsOf(f)}, skipLocked : BOOLEAN] \cup
    [flight : {f}, wanted : {{s} \cap SeatsOf(f) : s \in Seats}, skipLocked : {FALSE}]

Orders == UNION {OrdersFor(f) : f \in Flights}

BookingsInit ==
    /\ order \in [Buyers -> Orders]
    /\ revoke \in [Cancellers -> Buyers]
    /\ chosen = [b \in Buyers |-> 0]
    /\ attempt = [b \in Buyers |-> 0]
    /\ drawn = [b \in Buyers |-> NoReference]

-----------------------------------------------------------------------------
(* create_booking *)

(* The flight is read without a lock. *)
ReadFlight(b) ==
    /\ pc[b] = "start"
    /\ flights[order[b].flight].status = "scheduled"
    /\ loaded' = [loaded EXCEPT ![b] = flights[order[b].flight]]
    /\ Goto(b, "searching")
    /\ UNCHANGED <<tables, locks, answer, todo, bookingVars>>

FlightNotBookable(b) ==
    /\ pc[b] = "start"
    /\ flights[order[b].flight].status # "scheduled"
    /\ Refuse(b, IF flights[order[b].flight].status = "absent" THEN "404" ELSE "409")
    /\ UNCHANGED bookingVars

(* Fare classes never change while the server runs: an unknown code is the *)
(* client's doing.                                                         *)
UnknownFareClass(b) ==
    /\ pc[b] = "searching"
    /\ Refuse(b, "404")
    /\ UNCHANGED bookingVars

(* Mutant: the LIMIT applies to the snapshot, before any row is locked.     *)
SearchFirstSeat(b) ==
    /\ pc[b] = "searching"
    /\ LET free == {s \in order[b].wanted : seats[s].status = "available"}
       IN  todo' = [todo EXCEPT ![b] = {s \in free : \A t \in free : s <= t}]
    /\ Goto(b, "locking")
    /\ UNCHANGED <<tables, locks, answer, loaded, bookingVars>>

(* The seat query takes its snapshot ...                                   *)
SearchSeats(b) ==
    /\ pc[b] = "searching"
    /\ todo' = [todo EXCEPT ![b] =
                   {s \in order[b].wanted : seats[s].status = "available"}]
    /\ Goto(b, "locking")
    /\ UNCHANGED <<tables, locks, answer, loaded, bookingVars>>

(* Mutant: the seat query has no FOR UPDATE.                                *)
SelectSeat(b) ==
    /\ pc[b] = "locking"
    /\ \E s \in todo[b] :
          /\ NextSeat(b, s)
          /\ seats[s].status = "available"
          /\ chosen' = [chosen EXCEPT ![b] = s]
    /\ Goto(b, "drawing")
    /\ UNCHANGED <<tables, locks, answer, todo, loaded, order, revoke, attempt, drawn>>

(* ... and locks the first row that is still available once it has the     *)
(* lock: PostgreSQL re-checks a row it had to wait for.                    *)
LockSeat(b) ==
    /\ pc[b] = "locking"
    /\ \E s \in todo[b] :
          /\ NextSeat(b, s)
          /\ Lockable(seatLock, s, b)
          /\ seats[s].status = "available"
          /\ seatLock' = [seatLock EXCEPT ![s] = b]
          /\ chosen' = [chosen EXCEPT ![b] = s]
    /\ Goto(b, "drawing")
    /\ UNCHANGED <<tables, flightLock, flightShare, bookingLock, answer, todo, loaded,
                   order, revoke, attempt, drawn>>

(* The re-check comes after the lock: a row that has been sold meanwhile    *)
(* is not returned, and stays locked; one that was deleted is passed over. *)
PassSeat(b) ==
    /\ pc[b] = "locking"
    /\ \E s \in todo[b] :
          /\ NextSeat(b, s)
          /\ Lockable(seatLock, s, b)
          /\ seats[s].status # "available"
          /\ seatLock' = [seatLock EXCEPT ![s] =
                              IF seats[s].status = "booked" THEN b ELSE @]
          /\ todo' = [todo EXCEPT ![b] = @ \ {s}]
    /\ UNCHANGED <<tables, flightLock, flightShare, bookingLock, pc, answer, loaded, bookingVars>>

SkipLockedSeat(b) ==
    /\ pc[b] = "locking"
    /\ order[b].skipLocked
    /\ \E s \in todo[b] :
          /\ NextSeat(b, s)
          /\ ~Lockable(seatLock, s, b)
          /\ todo' = [todo EXCEPT ![b] = @ \ {s}]
    /\ UNCHANGED <<tables, locks, pc, answer, loaded, bookingVars>>

SeatNotAvailable(b) ==
    /\ pc[b] = "locking"
    /\ todo[b] = {}
    /\ Refuse(b, "409")
    /\ UNCHANGED bookingVars

(* Mutant: nothing counts the attempts.                                     *)
DrawUncounted(b) ==
    /\ pc[b] = "drawing"
    /\ \E r \in RefPool[b] : drawn' = [drawn EXCEPT ![b] = r]
    /\ Goto(b, "inserting")
    /\ UNCHANGED <<tables, locks, answer, todo, loaded, order, revoke, chosen, attempt>>

DrawReference(b) ==
    /\ pc[b] = "drawing"
    /\ \E r \in RefPool[b] : drawn' = [drawn EXCEPT ![b] = r]
    /\ attempt' = [attempt EXCEPT ![b] = @ + 1]
    /\ Goto(b, "inserting")
    /\ UNCHANGED <<tables, locks, answer, todo, loaded, order, revoke, chosen>>

(* The INSERT has put its reference into the unique index ...              *)
Inserted == {"checking", "inserted", "committing"}
ReferencePending(r, b) ==
    \E x \in Buyers \ {b} : pc[x] \in Inserted /\ drawn[x] = r
ReferenceTaken(r) ==
    \E x \in Buyers : bookings[x].status # "absent" /\ bookings[x].reference = r

(* Mutant: a SELECT for the reference in the place of the unique index.     *)
InsertIfUnused(b) ==
    /\ pc[b] = "inserting"
    /\ ~ReferenceTaken(drawn[b])
    /\ Goto(b, "checking")
    /\ UNCHANGED <<tables, locks, answer, todo, loaded, bookingVars>>

InsertBooking(b) ==
    /\ pc[b] = "inserting"
    /\ ~ReferencePending(drawn[b], b)
    /\ ~ReferenceTaken(drawn[b])
    /\ Goto(b, "checking")
    /\ UNCHANGED <<tables, locks, answer, todo, loaded, bookingVars>>

(* ... and its foreign key check share-locks the flight row: it waits for  *)
(* a DELETE of the flight, not for an UPDATE.                              *)
CheckFlight(b) ==
    /\ pc[b] = "checking"
    /\ flightLock[order[b].flight] \notin Deleters
    /\ flights[order[b].flight].status # "absent"
    /\ flightShare' = [flightShare EXCEPT ![order[b].flight] = @ \cup {b}]
    /\ Goto(b, "inserted")
    /\ UNCHANGED <<tables, flightLock, seatLock, bookingLock, answer, todo, loaded, bookingVars>>

IntegrityError(b) ==
    \/ pc[b] = "inserting" /\ ReferenceTaken(drawn[b])
    \/ /\ pc[b] = "checking"
       /\ flightLock[order[b].flight] \notin Deleters
       /\ flights[order[b].flight].status = "absent"

(* Mutant: the last attempt is retried like the others.                     *)
RetryOnceMore(b) ==
    /\ IntegrityError(b)
    /\ attempt[b] <= MaxAttempts
    /\ Unlock(b)
    /\ Goto(b, "drawing")
    /\ UNCHANGED <<tables, answer, todo, loaded, bookingVars>>

(* session.rollback() ends the transaction: the seat is no longer locked.  *)
RetryReference(b) ==
    /\ IntegrityError(b)
    /\ attempt[b] < MaxAttempts
    /\ Unlock(b)
    /\ Goto(b, "drawing")
    /\ UNCHANGED <<tables, answer, todo, loaded, bookingVars>>

GiveUpReference(b) ==
    /\ IntegrityError(b)
    /\ attempt[b] = MaxAttempts
    /\ Refuse(b, "500")
    /\ UNCHANGED bookingVars

(* UPDATE flight_seats by primary key, whatever the row holds by now.  The *)
(* row is there: the share lock on its flight keeps a DELETE from          *)
(* committing.  The response is sent before get_session commits.           *)
MarkSeat(b) ==
    /\ pc[b] = "inserted"
    /\ Lockable(seatLock, chosen[b], b)
    /\ seatLock' = [seatLock EXCEPT ![chosen[b]] = b]
    /\ Goto(b, "committing")
    /\ Send(b, "201")
    /\ UNCHANGED <<tables, flightLock, flightShare, bookingLock, todo, loaded, bookingVars>>

(* Mutant: every seat the query matches is marked, not the one it locked.   *)
CommitSaleOfAll(b) ==
    /\ pc[b] = "committing"
    /\ bookings' = [bookings EXCEPT ![b] =
          [status |-> "confirmed", reference |-> drawn[b],
           flight |-> order[b].flight, fare |-> loaded[b].fare]]
    /\ seats' = [s \in Seats |-> IF s \in todo[b] THEN [status |-> "booked", booking |-> b]
                                                  ELSE seats[s]]
    /\ Commit(b)
    /\ UNCHANGED <<flights, bookingVars>>

CommitSale(b) ==
    /\ pc[b] = "committing"
    /\ bookings' = [bookings EXCEPT ![b] =
          [status |-> "confirmed", reference |-> drawn[b],
           flight |-> order[b].flight, fare |-> loaded[b].fare]]
    /\ seats' = [seats EXCEPT ![chosen[b]] = [status |-> "booked", booking |-> b]]
    /\ Commit(b)
    /\ UNCHANGED <<flights, bookingVars>>

-----------------------------------------------------------------------------
(* cancel_booking *)

FindsBooking(c) ==
    /\ bookings[revoke[c]].status # "absent"
    /\ Passenger[revoke[c]] = Passenger[c]

BookingNotFound(c) ==
    /\ pc[c] = "start"
    /\ ~FindsBooking(c)
    /\ Refuse(c, "404")
    /\ UNCHANGED bookingVars

(* Mutant: the booking is read without FOR UPDATE.                          *)
ReadBooking(c) ==
    /\ pc[c] = "start"
    /\ FindsBooking(c)
    /\ Goto(c, "loading")
    /\ UNCHANGED <<tables, locks, answer, todo, loaded, bookingVars>>

LockBooking(c) ==
    /\ pc[c] = "start"
    /\ FindsBooking(c)
    /\ Lockable(bookingLock, revoke[c], c)
    /\ bookingLock' = [bookingLock EXCEPT ![revoke[c]] = c]
    /\ Goto(c, "loading")
    /\ UNCHANGED <<tables, flightLock, flightShare, seatLock, answer, todo, loaded, bookingVars>>

(* selectinload(Booking.seats) is a second SELECT, with a snapshot of its own. *)
LoadSeats(c) ==
    /\ pc[c] = "loading"
    /\ bookings[revoke[c]].status = "confirmed"
    /\ todo' = [todo EXCEPT ![c] = {s \in Seats : seats[s].booking = revoke[c]}]
    /\ Goto(c, "freeing")
    /\ UNCHANGED <<tables, locks, answer, loaded, bookingVars>>

AlreadyCancelled(c) ==
    /\ pc[c] = "loading"
    /\ bookings[revoke[c]].status = "cancelled"
    /\ Refuse(c, "409")
    /\ UNCHANGED bookingVars

(* UPDATE flight_seats by primary key, one row after the other.  The row   *)
(* is there, since a flight with a booking is never deleted.               *)
FreeSeatRow(c) ==
    /\ pc[c] = "freeing"
    /\ \E s \in todo[c] :
          /\ NextRow(c, s)
          /\ Lockable(seatLock, s, c)
          /\ seatLock' = [seatLock EXCEPT ![s] = c]
          /\ todo' = [todo EXCEPT ![c] = @ \ {s}]
    /\ UNCHANGED <<tables, flightLock, flightShare, bookingLock, pc, answer, loaded, bookingVars>>

SendCancelled(c) ==
    /\ pc[c] = "freeing"
    /\ todo[c] = {}
    /\ Goto(c, "committing")
    /\ Send(c, "204")
    /\ UNCHANGED <<tables, locks, todo, loaded, bookingVars>>

(* Mutant: only the booking is written.                                     *)
CommitCancelOnly(c) ==
    /\ pc[c] = "committing"
    /\ bookings' = [bookings EXCEPT ![revoke[c]].status = "cancelled"]
    /\ Commit(c)
    /\ UNCHANGED <<flights, seats, bookingVars>>

CommitCancel(c) ==
    /\ pc[c] = "committing"
    /\ bookings' = [bookings EXCEPT ![revoke[c]].status = "cancelled"]
    /\ seats' = [s \in Seats |-> IF seatLock[s] = c THEN FreeSeat ELSE seats[s]]
    /\ Commit(c)
    /\ UNCHANGED <<flights, bookingVars>>

-----------------------------------------------------------------------------

Buy(b) ==
    \/ ReadFlight(b) \/ FlightNotBookable(b) \/ UnknownFareClass(b)
    \/ SearchSeats(b) \/ LockSeat(b) \/ PassSeat(b) \/ SkipLockedSeat(b) \/ SeatNotAvailable(b)
    \/ DrawReference(b) \/ InsertBooking(b) \/ CheckFlight(b)
    \/ RetryReference(b) \/ GiveUpReference(b)
    \/ MarkSeat(b) \/ CommitSale(b)

Cancel(c) ==
    \/ BookingNotFound(c) \/ LockBooking(c) \/ LoadSeats(c) \/ AlreadyCancelled(c)
    \/ FreeSeatRow(c) \/ SendCancelled(c) \/ CommitCancel(c)

BookingsTypeOK ==
    /\ order \in [Buyers -> Orders]
    /\ revoke \in [Cancellers -> Buyers]
    /\ chosen \in [Buyers -> Seats \cup {0}]
    /\ attempt \in [Buyers -> 0 .. MaxAttempts]
    /\ drawn \in [Buyers -> References \cup {NoReference}]

=============================================================================
