--------------------------- MODULE BookingSystem ---------------------------
(***************************************************************************)
(* The booking back end at work: concurrent buyers, cancellers, updaters   *)
(* and deleters over one database, each request a transaction of its own,  *)
(* any of which may lose its connection or be chosen as the victim of a    *)
(* lock cycle.                                                             *)
(***************************************************************************)
EXTENDS BookingsRouter, FlightsRouter

CONSTANT MayFail    \* requests whose connection may be lost, or server die

ASSUME FaultsAssumption == MayFail \subseteq Procs

vars == <<tables, locks, pc, answer, todo, loaded, bookingVars, flightVars>>

Init == DatabaseInit /\ BookingsInit /\ FlightsInit

-----------------------------------------------------------------------------
(* Who waits for whom, and the lock cycles PostgreSQL breaks.              *)

Holder(lock, row, p) == {lock[row]} \ {Nobody, p}
HolderOfNextSeat(p) == UNION {Holder(seatLock, s, p) : s \in {t \in todo[p] : NextSeat(p, t)}}
HolderOfNextRow(p)  == UNION {Holder(seatLock, s, p) : s \in {t \in todo[p] : NextRow(p, t)}}

BuyerWaitsFor(b) ==
    CASE pc[b] = "locking"   -> IF order[b].skipLocked THEN {} ELSE HolderOfNextSeat(b)
      [] pc[b] = "inserting" -> {x \in Buyers \ {b} : pc[x] \in Inserted /\ drawn[x] = drawn[b]}
      [] pc[b] = "checking"  -> {flightLock[order[b].flight]} \cap Deleters
      [] pc[b] = "inserted"  -> Holder(seatLock, chosen[b], b)
      [] OTHER -> {}

CancellerWaitsFor(c) ==
    CASE pc[c] = "start"   -> IF FindsBooking(c) THEN Holder(bookingLock, revoke[c], c) ELSE {}
      [] pc[c] = "freeing" -> HolderOfNextRow(c)
      [] OTHER -> {}

UpdaterWaitsFor(u) ==
    IF pc[u] = "patching" /\ Storable(u) THEN Holder(flightLock, change[u].flight, u) ELSE {}

DeleterWaitsFor(d) ==
    CASE pc[d] = "emptying" ->
             IF todo[d] # {} THEN HolderOfNextRow(d)
             ELSE Holder(flightLock, target[d], d) \cup flightShare[target[d]]
      [] pc[d] = "restricting" ->
             LET blocked == {bookingLock[x] : x \in BookingsOn(target[d])}
             IN  IF Nobody \in blocked THEN {} ELSE blocked
      [] OTHER -> {}

WaitsFor(p) ==
    CASE p \in Buyers     -> BuyerWaitsFor(p)
      [] p \in Cancellers -> CancellerWaitsFor(p)
      [] p \in Updaters   -> UpdaterWaitsFor(p)
      [] p \in Deleters   -> DeleterWaitsFor(p)

(* Those a request waits for, directly or not, are in every set that holds *)
(* the ones it waits for and, with a request, the ones that one waits for. *)
LockCycle(p) ==
    /\ WaitsFor(p) # {}
    /\ \A waiting \in SUBSET Procs :
          /\ WaitsFor(p) \subseteq waiting
          /\ \A q \in waiting : WaitsFor(q) \subseteq waiting
          => p \in waiting

-----------------------------------------------------------------------------

Fail(p) ==
    /\ Abort(p, "lost")
    /\ UNCHANGED <<bookingVars, flightVars>>

DeadlockVictim(p) ==
    /\ LockCycle(p)
    /\ Abort(p, "500")
    /\ UNCHANGED <<bookingVars, flightVars>>

Finished ==
    /\ \A p \in Procs : pc[p] = "done"
    /\ UNCHANGED vars

BuyStep(b)    == Buy(b)    /\ UNCHANGED flightVars
CancelStep(c) == Cancel(c) /\ UNCHANGED flightVars
UpdateStep(u) == Update(u) /\ UNCHANGED bookingVars
DeleteStep(d) == Delete(d) /\ UNCHANGED bookingVars

Next ==
    \/ \E b \in Buyers : BuyStep(b)
    \/ \E c \in Cancellers : CancelStep(c)
    \/ \E u \in Updaters : UpdateStep(u)
    \/ \E d \in Deleters : DeleteStep(d)
    \/ \E p \in MayFail : Fail(p)
    \/ \E p \in Procs : DeadlockVictim(p)
    \/ Finished

Spec == Init /\ [][Next]_vars

(* A handler runs until it answers unless a lock stops it, and a lock      *)
(* cycle is broken after deadlock_timeout.  No request need ever fail.     *)
FairSpec ==
    /\ Spec
    /\ \A b \in Buyers : WF_vars(BuyStep(b))
    /\ \A c \in Cancellers : WF_vars(CancelStep(c))
    /\ \A u \in Updaters : WF_vars(UpdateStep(u))
    /\ \A d \in Deleters : WF_vars(DeleteStep(d))
    /\ WF_vars(\E p \in Procs : DeadlockVictim(p))

-----------------------------------------------------------------------------
(* Every row of every table, every lock and every local is of its type.    *)
TypeOK == DatabaseTypeOK /\ BookingsTypeOK /\ FlightsTypeOK

(* A booked seat names a booking that is confirmed, and of its own flight: *)
(* cancelling frees every seat of the booking however the statements of    *)
(* other requests fall between its own (bookings.py cancel_booking).       *)
BookedSeatIsSold ==
    \A s \in Seats : seats[s].status = "booked" =>
        \E b \in Buyers :
            /\ seats[s].booking = b
            /\ bookings[b].status = "confirmed"
            /\ bookings[b].flight = FlightOf[s]

(* However often it draws a reference, a sale consumes at most one seat.   *)
OneSeatPerBooking ==
    \A s, t \in Seats :
        seats[s].status = "booked" /\ seats[s].booking = seats[t].booking => s = t

(* Every confirmed booking holds a seat: no seat is sold twice, and no     *)
(* cancellation frees a seat that another booking has since been given     *)
(* (create_booking, "There is no interleaving in which a seat is consumed  *)
(* without a booking against it").                                         *)
ConfirmedHoldsSeat ==
    \A b \in Buyers : bookings[b].status = "confirmed" =>
        \E s \in Seats : seats[s].status = "booked" /\ seats[s].booking = b

(* No two bookings, cancelled ones included, have the same reference, even *)
(* when both drew it before either was committed.                          *)
ReferencesUnique ==
    \A a, b \in Buyers :
        /\ a # b
        /\ bookings[a].status # "absent"
        /\ bookings[b].status # "absent"
        => bookings[a].reference # bookings[b].reference

(* A sale that happened is a record the airline keeps: its flight is never *)
(* deleted, whether the booking committed before, while or after           *)
(* delete_flight looked for it.                                            *)
BookingsKeepFlight ==
    \A b \in Buyers : bookings[b].status # "absent" =>
        flights[bookings[b].flight].status # "absent"

(* A deleted flight leaves no seat behind, and no other loses one.         *)
CabinGoesWithFlight ==
    \A s \in Seats :
        seats[s].status = "absent" <=> flights[FlightOf[s]].status = "absent"

(* A passenger is told that a seat is taken or the flight full only while  *)
(* every seat that would have done is booked or being bought.  It needs    *)
(* every request to run to its end and nobody to cancel.                   *)
RefusedOnlyWhenTaken ==
    \A b \in Buyers : answer[b] = "409" =>
        \A s \in order[b].wanted : seats[s].status = "booked" \/ seatLock[s] \in Buyers

(* A sale of a named seat, or of whichever the airline picks, is never the *)
(* victim of a lock cycle: it locks its seat before anything that another  *)
(* request could be waiting for.  An empty seat number is another matter:  *)
(* that buyer waits for one seat with those it has passed over locked.     *)
OrdinarySaleNeverDeadlocks ==
    \A b \in Buyers :
        order[b].skipLocked \/ Cardinality(order[b].wanted) <= 1 => ~LockCycle(b)

(* A confirmed booking cost what its flight advertises (flights.py         *)
(* update_flight, "must not drift away from it silently").                 *)
SoldAtAdvertisedFare ==
    \A b \in Buyers : bookings[b].status = "confirmed" =>
        bookings[b].fare = flights[bookings[b].flight].fare

(* The tables change only as SeatSales allows: a sale commits on a seat     *)
(* that nobody holds, a cancellation happens once and frees its own seat   *)
(* alone, a withdrawn flight has never been sold.                          *)
Sales == INSTANCE SeatSales WITH
    Bookings <- Buyers,
    holder <- [s \in Seats |-> seats[s].booking],
    sale <- [b \in Buyers |-> bookings[b].status],
    soldOn <- [b \in Buyers |-> bookings[b].flight],
    flying <- {f \in Flights : flights[f].status # "absent"}

SeatSalesImplemented == Sales!Spec

(* An accepted change to one field of a flight is not undone by a request  *)
(* that changes the other: with nobody else setting that field, it still   *)
(* holds when the request is over (update_flight flushes changed columns,  *)
(* not the row).                                                           *)
NoLostUpdate ==
    \A u \in Updaters :
        LET row == flights[change[u].flight]
            others == {v \in Updaters \ {u} : change[v].flight = change[u].flight}
        IN  pc[u] = "done" /\ answer[u] = "200" /\ row.status # "absent" =>
                /\ change[u].fare \in {0, row.fare}
                   \/ \E v \in others : change[v].fare \in Fares
                /\ change[u].status \in {"unset", row.status}
                   \/ \E v \in others : change[v].status # "unset"

(* Every request is answered: a lock is never waited for in vain.          *)
EveryRequestAnswered ==
    \A p \in Procs : <>(pc[p] = "done")

=============================================================================
