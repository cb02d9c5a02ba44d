------------------------------ MODULE Database ------------------------------
(***************************************************************************)
(* The PostgreSQL tables the booking back end keeps its inventory in, the  *)
(* row locks of the transactions that read and write them, and what every  *)
(* HTTP request has in common: one session, one transaction, one answer.   *)
(*                                                                         *)
(* The tables hold COMMITTED rows only (isolation level READ COMMITTED).   *)
(* What a transaction has written and not committed is implied by its pc   *)
(* and its locals, and reaches the tables in one step when it commits.     *)
(***************************************************************************)
EXTENDS Integers, FiniteSets

CONSTANTS
    Flights,        \* flights that exist when the model starts
    Seats,          \* seat rows, numbered in the order of their seat_number
    FlightOf,       \* the flight each seat row belongs to
    RowKey,         \* its primary key, a random UUID: another order altogether
    Fares,          \* base fares, positive numbers
    References,     \* booking references
    NoReference,    \* "no reference drawn"
    Nobody,         \* NULL, as a lock's holder or a seat's booking_id
    Users,          \* passengers
    Passenger,      \* the signed-in user behind each buy or cancel request
    Buyers,         \* POST /bookings requests; a booking is named after its buyer
    Cancellers,     \* DELETE /bookings/{id} requests
    Updaters,       \* PATCH /flights/{id} requests
    Deleters        \* DELETE /flights/{id} requests

Procs == Buyers \cup Cancellers \cup Updaters \cup Deleters

ASSUME SchemaAssumption ==
    /\ Seats \subseteq Nat \ {0}
    /\ FlightOf \in [Seats -> Flights]
    /\ RowKey \in [Seats -> Nat]
    /\ \A s, t \in Seats : RowKey[s] = RowKey[t] => s = t
    /\ Fares \subseteq Nat \ {0}
    /\ NoReference \notin References
    /\ Nobody \notin Procs \cup Flights
    /\ Passenger \in [Buyers \cup Cancellers -> Users]

(* A table has finitely many rows. *)
ASSUME FiniteTables ==
    /\ IsFiniteSet(Seats)
    /\ IsFiniteSet(Buyers)

ASSUME RequestsAreDistinct ==
    /\ Buyers \cap (Cancellers \cup Updaters \cup Deleters) = {}
    /\ Cancellers \cap (Updaters \cup Deleters) = {}
    /\ Updaters \cap Deleters = {}

VARIABLES
    flights,        \* table flights: status and base_fare_eur
    seats,          \* table flight_seats: status and booking_id
    bookings,       \* table bookings: status, reference, flight_id and amount_eur
    flightLock,     \* the transaction that has updated or deleted the row, if any
    flightShare,    \* transactions that have inserted a booking on the flight
    seatLock,       \* the transaction that holds the seat row, if any
    bookingLock,    \* the transaction that holds the booking row, if any
    pc,             \* where each request's handler is
    answer,         \* the HTTP status the client has been sent
    todo,           \* seat rows a statement has still to visit
    loaded          \* the flight row as the handler's ORM object holds it

tables == <<flights, seats, bookings>>
locks  == <<flightLock, flightShare, seatLock, bookingLock>>

FlightStatuses == {"scheduled", "departed", "cancelled"}

(* A row that is not in its table has status "absent". *)
FlightRow  == [status : FlightStatuses \cup {"absent"}, fare : Fares \cup {0}]
SeatRow    == [status : {"available", "booked", "absent"},
               booking : Buyers \cup {Nobody}]
BookingRow == [status : {"absent", "confirmed", "cancelled"},
               reference : References \cup {NoReference},
               flight : Flights \cup {Nobody},
               fare : Fares \cup {0}]

SeatsOf(f) == {s \in Seats : FlightOf[s] = f}
NoBooking  == [status |-> "absent", reference |-> NoReference,
               flight |-> Nobody, fare |-> 0]
NoFlight   == [status |-> "absent", fare |-> 0]
FreeSeat   == [status |-> "available", booking |-> Nobody]
BookingsOn(f) ==
    {b \in Buyers : bookings[b].status # "absent" /\ bookings[b].flight = f}
Labels     == {"start", "searching", "locking", "drawing", "inserting", "checking",
               "inserted", "committing", "loading", "freeing", "counting",
               "patching", "emptying", "restricting", "done"}
Answers    == {"none", "200", "201", "204", "404", "409", "422", "500", "lost"}

-----------------------------------------------------------------------------
(* Row locks.  A transaction keeps them until it commits or rolls back.    *)

Lockable(lock, row, p) == lock[row] \in {Nobody, p}
Released(lock, p) ==
    [row \in DOMAIN lock |-> IF lock[row] = p THEN Nobody ELSE lock[row]]

Unlock(p) ==
    /\ flightLock'  = Released(flightLock, p)
    /\ flightShare' = [f \in Flights |-> flightShare[f] \ {p}]
    /\ seatLock'    = Released(seatLock, p)
    /\ bookingLock' = Released(bookingLock, p)

(* The row a query ordered by seat_number comes to next, and the one a flush *)
(* does, which goes through the rows it writes by primary key.             *)
NextSeat(p, s) == s \in todo[p] /\ \A t \in todo[p] : s <= t
NextRow(p, s)  == s \in todo[p] /\ \A t \in todo[p] : RowKey[s] <= RowKey[t]

Goto(p, label) == pc' = [pc EXCEPT ![p] = label]
Send(p, status) == answer' = [answer EXCEPT ![p] = status]

(* An HTTPException leaves the handler: get_session rolls back, and then   *)
(* the error is sent.                                                      *)
Refuse(p, status) ==
    /\ Unlock(p)
    /\ Goto(p, "done")
    /\ Send(p, status)
    /\ UNCHANGED <<tables, todo, loaded>>

(* The handler's return value has been sent; get_session commits.          *)
Commit(p) ==
    /\ Unlock(p)
    /\ Goto(p, "done")
    /\ UNCHANGED <<answer, todo, loaded>>

(* The connection to the database, or the server process, is lost: the     *)
(* transaction rolls back.  A client that has had no answer gets none.     *)
Abort(p, status) ==
    /\ pc[p] # "done"
    /\ Unlock(p)
    /\ Goto(p, "done")
    /\ answer' = [answer EXCEPT ![p] = IF @ = "none" THEN status ELSE @]
    /\ UNCHANGED <<tables, todo, loaded>>

-----------------------------------------------------------------------------

DatabaseInit ==
    /\ flights \in [Flights -> [status : {"scheduled"}, fare : Fares]]
    /\ seats = [s \in Seats |-> FreeSeat]
    /\ bookings = [b \in Buyers |-> NoBooking]
    /\ flightLock = [f \in Flights |-> Nobody]
    /\ flightShare = [f \in Flights |-> {}]
    /\ seatLock = [s \in Seats |-> Nobody]
    /\ bookingLock = [b \in Buyers |-> Nobody]
    /\ pc = [p \in Procs |-> "start"]
    /\ answer = [p \in Procs |-> "none"]
    /\ todo = [p \in Procs |-> {}]
    /\ loaded = [p \in Buyers \cup Updaters |-> NoFlight]

DatabaseTypeOK ==
    /\ flights \in [Flights -> FlightRow]
    /\ seats \in [Seats -> SeatRow]
    /\ bookings \in [Buyers -> BookingRow]
    /\ flightLock \in [Flights -> Updaters \cup Deleters \cup {Nobody}]
    /\ flightShare \in [Flights -> SUBSET Buyers]
    /\ seatLock \in [Seats -> Buyers \cup Cancellers \cup Deleters \cup {Nobody}]
    /\ bookingLock \in [Buyers -> Cancellers \cup {Nobody}]
    /\ pc \in [Procs -> Labels]
    /\ answer \in [Procs -> Answers]
    /\ todo \in [Procs -> SUBSET Seats]
    /\ loaded \in [Buyers \cup Updaters -> FlightRow]

=============================================================================
