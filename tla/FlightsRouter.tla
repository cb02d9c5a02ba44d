---------------------------- MODULE FlightsRouter ----------------------------
(***************************************************************************)
(* routers/flights.py: the two operations that change a published flight,  *)
(* repricing or restatusing it (update_flight) and withdrawing it          *)
(* (delete_flight), against the tables and row locks of Database.          *)
(***************************************************************************)
EXTENDS Database

VARIABLES
    change,         \* what each updater sends: a flight, a fare, a status
    target          \* the flight each deleter names

flightVars == <<change, target>>

(* A fare that passes the schema's check, and is 0.00 in the table.         *)
RoundsToZero == -1

(* 0 and "unset" stand for a field the PATCH leaves out, "invalid" for a    *)
(* status that names no FlightStatus.                                       *)
Changes == [flight : Flights, fare : Fares \cup {0, RoundsToZero},
            status : FlightStatuses \cup {"unset", "invalid"}]

FlightsInit ==
    /\ change \in [Updaters -> Changes]
    /\ target \in [Deleters -> Flights]

-----------------------------------------------------------------------------
(* update_flight *)

ReadForUpdate(u) ==
    /\ pc[u] = "start"
    /\ flights[change[u].flight].status # "absent"
    /\ loaded' = [loaded EXCEPT ![u] = flights[change[u].flight]]
    /\ Goto(u, IF change[u].fare # 0 THEN "counting" ELSE "patching")
    /\ UNCHANGED <<tables, locks, answer, todo, flightVars>>

UpdateNotFound(u) ==
    /\ pc[u] = "start"
    /\ flights[change[u].flight].status = "absent"
    /\ Refuse(u, "404")
    /\ UNCHANGED flightVars

SoldSeats(f) == {s \in SeatsOf(f) : seats[s].status = "booked"}

(* The count takes no lock: nothing it has read need be true afterwards.   *)
CountSold(u) ==
    /\ pc[u] = "counting"
    /\ SoldSeats(change[u].flight) = {}
    /\ Goto(u, "patching")
    /\ UNCHANGED <<tables, locks, answer, todo, loaded, flightVars>>

CannotReprice(u) ==
    /\ pc[u] = "counting"
    /\ SoldSeats(change[u].flight) # {}
    /\ Refuse(u, "409")
    /\ UNCHANGED flightVars

InvalidStatus(u) ==
    /\ pc[u] = "patching"
    /\ change[u].status = "invalid"
    /\ Refuse(u, "422")
    /\ UNCHANGED flightVars

(* The UPDATE sets only the columns whose value differs from the one the   *)
(* ORM object was loaded with, and is not sent when there is none.         *)
NewFare(u)   == change[u].fare \in Fares \ {loaded[u].fare}
NewStatus(u) == change[u].status \notin {"unset", loaded[u].status}
Storable(u)  == change[u].status # "invalid" /\ change[u].fare # RoundsToZero

(* ck_flight_fare_positive is checked before the row is locked, and        *)
(* nothing handles its IntegrityError here.                                *)
FareTooSmall(u) ==
    /\ pc[u] = "patching"
    /\ change[u].status # "invalid"
    /\ change[u].fare = RoundsToZero
    /\ Refuse(u, "500")
    /\ UNCHANGED flightVars

PatchFlight(u) ==
    /\ pc[u] = "patching"
    /\ Storable(u)
    /\ NewFare(u) \/ NewStatus(u)
    /\ Lockable(flightLock, change[u].flight, u)
    /\ flights[change[u].flight].status # "absent"
    /\ flightLock' = [flightLock EXCEPT ![change[u].flight] = u]
    /\ Goto(u, "committing")
    /\ Send(u, "200")
    /\ UNCHANGED <<tables, flightShare, seatLock, bookingLock, todo, loaded, flightVars>>

PatchNothing(u) ==
    /\ pc[u] = "patching"
    /\ Storable(u)
    /\ ~NewFare(u) /\ ~NewStatus(u)
    /\ Goto(u, "committing")
    /\ Send(u, "200")
    /\ UNCHANGED <<tables, locks, todo, loaded, flightVars>>

(* The row matched no longer: StaleDataError, which nothing handles.       *)
FlightGone(u) ==
    /\ pc[u] = "patching"
    /\ Storable(u)
    /\ NewFare(u) \/ NewStatus(u)
    /\ Lockable(flightLock, change[u].flight, u)
    /\ flights[change[u].flight].status = "absent"
    /\ Refuse(u, "500")
    /\ UNCHANGED flightVars

(* Mutant: the whole row is written, as it was loaded and then changed.     *)
CommitWholeRow(u) ==
    /\ pc[u] = "committing"
    /\ flights' = [flights EXCEPT ![change[u].flight] =
          [status |-> IF NewStatus(u) THEN change[u].status ELSE loaded[u].status,
           fare   |-> IF NewFare(u) THEN change[u].fare ELSE loaded[u].fare]]
    /\ Commit(u)
    /\ UNCHANGED <<seats, bookings, flightVars>>

CommitPatch(u) ==
    /\ pc[u] = "committing"
    /\ flights' = [flights EXCEPT ![change[u].flight] =
          [status |-> IF NewStatus(u) THEN change[u].status ELSE @.status,
           fare   |-> IF NewFare(u) THEN change[u].fare ELSE @.fare]]
    /\ Commit(u)
    /\ UNCHANGED <<seats, bookings, flightVars>>

-----------------------------------------------------------------------------
(* delete_flight *)

FindForDelete(d) ==
    /\ pc[d] = "start"
    /\ flights[target[d]].status # "absent"
    /\ Goto(d, "loading")
    /\ UNCHANGED <<tables, locks, answer, todo, loaded, flightVars>>

DeleteNotFound(d) ==
    /\ pc[d] = "start"
    /\ flights[target[d]].status = "absent"
    /\ Refuse(d, "404")
    /\ UNCHANGED flightVars

(* session.delete loads the relationships of the flight.  The flush sets    *)
(* flight_id of every booking it has loaded to NULL, which the column does  *)
(* not allow, and would then delete the seats the delete cascades to.       *)
LoadCabin(d) ==
    /\ pc[d] = "loading"
    /\ BookingsOn(target[d]) = {}
    /\ todo' = [todo EXCEPT ![d] =
                   {s \in SeatsOf(target[d]) : seats[s].status # "absent"}]
    /\ Goto(d, "emptying")
    /\ UNCHANGED <<tables, locks, answer, loaded, flightVars>>

CannotDelete(d) ==
    /\ pc[d] = "loading"
    /\ BookingsOn(target[d]) # {}
    /\ Refuse(d, "409")
    /\ UNCHANGED flightVars

(* Mutant: the flight row is locked first, and the seats by its cascade.    *)
CascadeSeat(d) ==
    /\ pc[d] = "emptying"
    /\ \E s \in todo[d] :
          /\ NextRow(d, s)
          /\ Lockable(seatLock, s, d)
          /\ Lockable(flightLock, target[d], d)
          /\ seatLock' = [seatLock EXCEPT ![s] = d]
          /\ flightLock' = [flightLock EXCEPT ![target[d]] = d]
          /\ todo' = [todo EXCEPT ![d] = @ \ {s}]
    /\ UNCHANGED <<tables, flightShare, bookingLock, pc, answer, loaded, flightVars>>

DeleteSeat(d) ==
    /\ pc[d] = "emptying"
    /\ \E s \in todo[d] :
          /\ NextRow(d, s)
          /\ Lockable(seatLock, s, d)
          /\ seatLock' = [seatLock EXCEPT ![s] = d]
          /\ todo' = [todo EXCEPT ![d] = @ \ {s}]
    /\ UNCHANGED <<tables, flightLock, flightShare, bookingLock, pc, answer, loaded, flightVars>>

(* The DELETE of the flight waits for every share lock on its row.         *)
(* Deleting a row that is already gone is only a warning.                  *)
DeleteRow(d) ==
    /\ pc[d] = "emptying"
    /\ todo[d] = {}
    /\ Lockable(flightLock, target[d], d)
    /\ flightShare[target[d]] = {}
    /\ flightLock' = [flightLock EXCEPT ![target[d]] = d]
    /\ Goto(d, "restricting")
    /\ UNCHANGED <<tables, flightShare, seatLock, bookingLock, answer, todo, loaded, flightVars>>

(* ON DELETE RESTRICT then looks for a committed booking, to share-lock it: *)
(* it waits for a cancellation, but a cancelled booking is a booking still. *)
Restricted(d) ==
    /\ pc[d] = "restricting"
    /\ \E x \in BookingsOn(target[d]) : Lockable(bookingLock, x, d)
    /\ Refuse(d, "409")
    /\ UNCHANGED flightVars

(* Mutant: no foreign key; the bookings were looked for when it was loaded. *)
SendDeletedAnyway(d) ==
    /\ pc[d] = "restricting"
    /\ Goto(d, "committing")
    /\ Send(d, "204")
    /\ UNCHANGED <<tables, locks, todo, loaded, flightVars>>

SendDeleted(d) ==
    /\ pc[d] = "restricting"
    /\ BookingsOn(target[d]) = {}
    /\ Goto(d, "committing")
    /\ Send(d, "204")
    /\ UNCHANGED <<tables, locks, todo, loaded, flightVars>>

(* Mutant: nothing cascades to the seats.                                   *)
CommitRowOnly(d) ==
    /\ pc[d] = "committing"
    /\ flights' = [flights EXCEPT ![target[d]].status = "absent"]
    /\ Commit(d)
    /\ UNCHANGED <<seats, bookings, flightVars>>

CommitDelete(d) ==
    /\ pc[d] = "committing"
    /\ flights' = [flights EXCEPT ![target[d]].status = "absent"]
    /\ seats' = [s \in Seats |-> IF seatLock[s] = d
                                    THEN [status |-> "absent", booking |-> Nobody]
                                    ELSE seats[s]]
    /\ Commit(d)
    /\ UNCHANGED <<bookings, flightVars>>

-----------------------------------------------------------------------------

Update(u) ==
    \/ ReadForUpdate(u) \/ UpdateNotFound(u) \/ CountSold(u) \/ CannotReprice(u)
    \/ InvalidStatus(u) \/ FareTooSmall(u) \/ PatchFlight(u) \/ PatchNothing(u)
    \/ FlightGone(u) \/ CommitPatch(u)

Delete(d) ==
    \/ FindForDelete(d) \/ DeleteNotFound(d) \/ LoadCabin(d) \/ CannotDelete(d)
    \/ DeleteSeat(d) \/ DeleteRow(d) \/ Restricted(d) \/ SendDeleted(d) \/ CommitDelete(d)

FlightsTypeOK ==
    /\ change \in [Updaters -> Changes]
    /\ target \in [Deleters -> Flights]

=============================================================================
