---------------------------- MODULE BookingProofs ----------------------------
(***************************************************************************)
(* What BookingSystem keeps true whichever references are drawn, and       *)
(* however requests interleave, fail or are aborted: every table and lock  *)
(* is of its type; a booked seat is sold, once; a reference names one      *)
(* booking; a booking keeps its flight, a deleted flight no seat; and no   *)
(* update of a flight is lost.                                             *)
(***************************************************************************)
EXTENDS BookingSystem, TLAPS

-----------------------------------------------------------------------------
(* Types. *)

(* What every request that a step of the system serves leaves typed: the   *)
(* part of the tables it writes is dealt with step by step below.          *)
LEMMA OrderType ==
    ASSUME NEW o \in Orders
    PROVE  o.flight \in Flights /\ o.wanted \subseteq SeatsOf(o.flight)
  <1>1. PICK f \in Flights : o \in OrdersFor(f)
    BY DEF Orders
  <1>2. o.flight = f
    BY <1>1 DEF OrdersFor
  <1>3. o.wanted = SeatsOf(f) \/ \E s \in Seats : o.wanted = {s} \cap SeatsOf(f)
    BY <1>1 DEF OrdersFor
  <1>4. QED
    BY <1>2, <1>3

LEMMA ReleasedType ==
    ASSUME NEW D, NEW S, NEW lock \in [D -> S \cup {Nobody}], NEW p
    PROVE  Released(lock, p) \in [D -> S \cup {Nobody}]
  BY DEF Released

LEMMA UnlockType ==
    ASSUME DatabaseTypeOK, NEW p, Unlock(p)
    PROVE  /\ flightLock' \in [Flights -> Updaters \cup Deleters \cup {Nobody}]
           /\ flightShare' \in [Flights -> SUBSET Buyers]
           /\ seatLock' \in [Seats -> Buyers \cup Cancellers \cup Deleters \cup {Nobody}]
           /\ bookingLock' \in [Buyers -> Cancellers \cup {Nobody}]
  BY DEF DatabaseTypeOK, Unlock, Released

(* An early return, and a lost connection, change no table.                *)
LEMMA RefuseType ==
    ASSUME DatabaseTypeOK, NEW p \in Procs, NEW status \in Answers, Refuse(p, status)
    PROVE  DatabaseTypeOK'
  <1>1. pc' \in [Procs -> Labels] /\ answer' \in [Procs -> Answers]
    BY DEF DatabaseTypeOK, Refuse, Goto, Send, Labels
  <1>2. QED
    BY <1>1, UnlockType DEF DatabaseTypeOK, Refuse, tables

LEMMA AbortType ==
    ASSUME DatabaseTypeOK, NEW p \in Procs, NEW status \in Answers, Abort(p, status)
    PROVE  DatabaseTypeOK'
  <1>1. pc' \in [Procs -> Labels] /\ answer' \in [Procs -> Answers]
    BY DEF DatabaseTypeOK, Abort, Goto, Labels
  <1>2. QED
    BY <1>1, UnlockType DEF DatabaseTypeOK, Abort, tables

LEMMA CommitType ==
    ASSUME DatabaseTypeOK, NEW p \in Procs, Commit(p),
           flights' \in [Flights -> FlightRow],
           seats' \in [Seats -> SeatRow],
           bookings' \in [Buyers -> BookingRow]
    PROVE  DatabaseTypeOK'
  <1>1. pc' \in [Procs -> Labels]
    BY DEF DatabaseTypeOK, Commit, Goto, Labels
  <1>2. QED
    BY <1>1, UnlockType DEF DatabaseTypeOK, Commit

(* A request that has yet to draw a reference has an attempt left: without *)
(* it the bound on attempt, and with it TypeOK, is not inductive.          *)
AttemptsLeft ==
    \A b \in Buyers :
        pc[b] \in {"start", "searching", "locking", "drawing"} => attempt[b] < MaxAttempts

(* A PATCH that is about to commit has passed the check of its status.     *)
PatchesValid ==
    \A u \in Updaters : pc[u] = "committing" => change[u].status # "invalid"

(* A step of a buyer keeps the type of everything it writes.               *)
LEMMA BuyType ==
    ASSUME DatabaseTypeOK, BookingsTypeOK, AttemptsLeft, NEW b \in Buyers, Buy(b)
    PROVE  DatabaseTypeOK' /\ BookingsTypeOK'
  <1> b \in Procs
    BY DEF Procs
  <1> USE DEF bookingVars, Goto, Send
  <1>0. order[b] \in Orders /\ order[b].flight \in Flights /\ order[b].wanted \subseteq Seats
    BY OrderType DEF BookingsTypeOK, SeatsOf
  <1>1. CASE ReadFlight(b)
    BY <1>0, <1>1 DEF ReadFlight, DatabaseTypeOK, BookingsTypeOK, tables, locks, Labels
  <1>2. CASE FlightNotBookable(b)
    BY <1>2, RefuseType DEF FlightNotBookable, Answers, BookingsTypeOK
  <1>3. CASE UnknownFareClass(b)
    BY <1>3, RefuseType DEF UnknownFareClass, Answers, BookingsTypeOK
  <1>4. CASE SearchSeats(b)
    BY <1>0, <1>4 DEF SearchSeats, DatabaseTypeOK, BookingsTypeOK, tables, locks, Labels
  <1>5. CASE LockSeat(b)
    BY <1>5 DEF LockSeat, DatabaseTypeOK, BookingsTypeOK, tables, Labels
  <1>6. CASE PassSeat(b)
    BY <1>6 DEF PassSeat, DatabaseTypeOK, BookingsTypeOK, tables
  <1>7. CASE SeatNotAvailable(b)
    BY <1>7, RefuseType DEF SeatNotAvailable, Answers, BookingsTypeOK
  <1>8. CASE DrawReference(b)
    <2>1. attempt[b] + 1 \in 0 .. MaxAttempts
      BY <1>8, BookingsAssumption DEF DrawReference, BookingsTypeOK, AttemptsLeft
    <2>2. PICK r \in RefPool[b] : drawn' = [drawn EXCEPT ![b] = r]
      BY <1>8 DEF DrawReference
    <2>3. r \in References
      BY BookingsAssumption
    <2>4. DatabaseTypeOK'
      BY <1>8 DEF DrawReference, DatabaseTypeOK, tables, locks, Labels
    <2>5. QED
      BY <1>8, <2>1, <2>2, <2>3, <2>4 DEF DrawReference, BookingsTypeOK
  <1>9. CASE InsertBooking(b)
    BY <1>9 DEF InsertBooking, DatabaseTypeOK, BookingsTypeOK, tables, locks, Labels
  <1>10. CASE CheckFlight(b)
    BY <1>0, <1>10 DEF CheckFlight, DatabaseTypeOK, BookingsTypeOK, tables, Labels
  <1>11. CASE RetryReference(b)
    BY <1>11, UnlockType DEF RetryReference, DatabaseTypeOK, BookingsTypeOK, tables, Labels
  <1>12. CASE GiveUpReference(b)
    BY <1>12, RefuseType DEF GiveUpReference, Answers, BookingsTypeOK
  <1>13. CASE MarkSeat(b)
    BY <1>13 DEF MarkSeat, DatabaseTypeOK, BookingsTypeOK, tables, Labels, Answers
  <1>14. CASE CommitSale(b)
    <2>1. bookings' \in [Buyers -> BookingRow]
      BY <1>0, <1>14 DEF CommitSale, DatabaseTypeOK, BookingsTypeOK, BookingRow, FlightRow
    <2>2. seats' \in [Seats -> SeatRow]
      BY <1>14 DEF CommitSale, DatabaseTypeOK, SeatRow
    <2>3. flights' \in [Flights -> FlightRow]
      BY <1>14 DEF CommitSale, DatabaseTypeOK
    <2>4. DatabaseTypeOK'
      BY <1>14, <2>1, <2>2, <2>3, CommitType DEF CommitSale
    <2>5. QED
      BY <1>14, <2>4 DEF CommitSale, BookingsTypeOK
  <1>15. CASE SkipLockedSeat(b)
    BY <1>15 DEF SkipLockedSeat, DatabaseTypeOK, BookingsTypeOK, tables, locks
  <1>16. QED
    BY <1>1, <1>2, <1>3, <1>4, <1>5, <1>6, <1>7, <1>8, <1>9, <1>10, <1>11,
       <1>12, <1>13, <1>14, <1>15 DEF Buy

LEMMA CancelType ==
    ASSUME DatabaseTypeOK, BookingsTypeOK, NEW c \in Cancellers, Cancel(c)
    PROVE  DatabaseTypeOK' /\ BookingsTypeOK'
  <1> c \in Procs
    BY DEF Procs
  <1> USE DEF bookingVars, Goto, Send
  <1>1. CASE BookingNotFound(c)
    BY <1>1, RefuseType DEF BookingNotFound, Answers, BookingsTypeOK
  <1>2. CASE LockBooking(c)
    BY <1>2 DEF LockBooking, DatabaseTypeOK, BookingsTypeOK, tables, Labels
  <1>3. CASE LoadSeats(c)
    BY <1>3 DEF LoadSeats, DatabaseTypeOK, BookingsTypeOK, tables, locks, Labels
  <1>4. CASE AlreadyCancelled(c)
    BY <1>4, RefuseType DEF AlreadyCancelled, Answers, BookingsTypeOK
  <1>5. CASE FreeSeatRow(c)
    BY <1>5 DEF FreeSeatRow, DatabaseTypeOK, BookingsTypeOK, tables, Labels
  <1>6. CASE SendCancelled(c)
    BY <1>6 DEF SendCancelled, DatabaseTypeOK, BookingsTypeOK, tables, locks, Labels, Answers
  <1>7. CASE CommitCancel(c)
    <2>1. bookings' \in [Buyers -> BookingRow]
      BY <1>7 DEF CommitCancel, DatabaseTypeOK, BookingsTypeOK, BookingRow
    <2>2. seats' \in [Seats -> SeatRow]
      BY <1>7 DEF CommitCancel, DatabaseTypeOK, SeatRow, FreeSeat
    <2>3. DatabaseTypeOK'
      BY <1>7, <2>1, <2>2, CommitType DEF CommitCancel, DatabaseTypeOK
    <2>4. QED
      BY <1>7, <2>3 DEF CommitCancel, BookingsTypeOK
  <1>8. QED
    BY <1>1, <1>2, <1>3, <1>4, <1>5, <1>6, <1>7 DEF Cancel

LEMMA UpdateType ==
    ASSUME DatabaseTypeOK, FlightsTypeOK, PatchesValid, NEW u \in Updaters, Update(u)
    PROVE  DatabaseTypeOK' /\ FlightsTypeOK'
  <1> u \in Procs
    BY DEF Procs
  <1> USE DEF flightVars, Goto, Send
  <1>0. /\ change[u].flight \in Flights
        /\ change[u].status \in FlightStatuses \cup {"unset", "invalid"}
    BY DEF FlightsTypeOK, Changes
  <1>1. CASE ReadForUpdate(u)
    BY <1>0, <1>1 DEF ReadForUpdate, DatabaseTypeOK, FlightsTypeOK, tables, locks, Labels
  <1>2. CASE UpdateNotFound(u)
    BY <1>2, RefuseType DEF UpdateNotFound, Answers, FlightsTypeOK
  <1>3. CASE CountSold(u)
    BY <1>3 DEF CountSold, DatabaseTypeOK, FlightsTypeOK, tables, locks, Labels
  <1>4. CASE CannotReprice(u)
    BY <1>4, RefuseType DEF CannotReprice, Answers, FlightsTypeOK
  <1>5. CASE InvalidStatus(u) \/ FareTooSmall(u)
    BY <1>5, RefuseType DEF InvalidStatus, FareTooSmall, Answers, FlightsTypeOK
  <1>6. CASE PatchFlight(u)
    BY <1>0, <1>6 DEF PatchFlight, DatabaseTypeOK, FlightsTypeOK, tables, Labels, Answers
  <1>7. CASE PatchNothing(u)
    BY <1>7 DEF PatchNothing, DatabaseTypeOK, FlightsTypeOK, tables, locks, Labels, Answers
  <1>8. CASE FlightGone(u)
    BY <1>8, RefuseType DEF FlightGone, Answers, FlightsTypeOK
  <1>9. CASE CommitPatch(u)
    <2>1. PICK f \in Flights : f = change[u].flight
      BY <1>0
    <2>2. /\ flights[f].status \in FlightStatuses \cup {"absent"}
          /\ flights[f].fare \in Fares \cup {0}
      BY DEF DatabaseTypeOK, FlightRow
    <2>3. flights' \in [Flights -> FlightRow]
      <3>1. change[u].status # "invalid"
        BY <1>9 DEF CommitPatch, PatchesValid
      <3>2. (IF NewStatus(u) THEN change[u].status ELSE flights[f].status)
               \in FlightStatuses \cup {"absent"}
        BY <1>0, <2>2, <3>1 DEF NewStatus
      <3>3. (IF NewFare(u) THEN change[u].fare ELSE flights[f].fare) \in Fares \cup {0}
        BY <1>0, <2>2 DEF NewFare
      <3>4. flights' = [flights EXCEPT ![f] =
                           [status |-> IF NewStatus(u) THEN change[u].status
                                       ELSE flights[f].status,
                            fare   |-> IF NewFare(u) THEN change[u].fare
                                       ELSE flights[f].fare]]
        BY <1>9, <2>1 DEF CommitPatch
      <3>5. QED
        BY <3>2, <3>3, <3>4 DEF DatabaseTypeOK, FlightRow
    <2>4. DatabaseTypeOK'
      BY <1>9, <2>3, CommitType DEF CommitPatch, DatabaseTypeOK
    <2>5. QED
      BY <1>9, <2>4 DEF CommitPatch, FlightsTypeOK
  <1>10. QED
    BY <1>1, <1>2, <1>3, <1>4, <1>5, <1>6, <1>7, <1>8, <1>9 DEF Update

LEMMA DeleteType ==
    ASSUME DatabaseTypeOK, FlightsTypeOK, NEW d \in Deleters, Delete(d)
    PROVE  DatabaseTypeOK' /\ FlightsTypeOK'
  <1> d \in Procs
    BY DEF Procs
  <1> USE DEF flightVars, Goto, Send
  <1>0. target[d] \in Flights
    BY DEF FlightsTypeOK
  <1>1. CASE FindForDelete(d)
    BY <1>1 DEF FindForDelete, DatabaseTypeOK, FlightsTypeOK, tables, locks, Labels
  <1>2. CASE DeleteNotFound(d)
    BY <1>2, RefuseType DEF DeleteNotFound, Answers, FlightsTypeOK
  <1>3. CASE LoadCabin(d)
    BY <1>3 DEF LoadCabin, DatabaseTypeOK, FlightsTypeOK, tables, locks, Labels, SeatsOf
  <1>4. CASE CannotDelete(d)
    BY <1>4, RefuseType DEF CannotDelete, Answers, FlightsTypeOK
  <1>5. CASE DeleteSeat(d)
    BY <1>5 DEF DeleteSeat, DatabaseTypeOK, FlightsTypeOK, tables
  <1>6. CASE DeleteRow(d)
    BY <1>0, <1>6 DEF DeleteRow, DatabaseTypeOK, FlightsTypeOK, tables, Labels
  <1>7. CASE Restricted(d)
    BY <1>7, RefuseType DEF Restricted, Answers, FlightsTypeOK
  <1>8. CASE CommitDelete(d)
    <2>1. flights' \in [Flights -> FlightRow]
      BY <1>0, <1>8 DEF CommitDelete, DatabaseTypeOK, FlightRow
    <2>2. seats' \in [Seats -> SeatRow]
      BY <1>8 DEF CommitDelete, DatabaseTypeOK, SeatRow
    <2>3. DatabaseTypeOK'
      BY <1>8, <2>1, <2>2, CommitType DEF CommitDelete, DatabaseTypeOK
    <2>4. QED
      BY <1>8, <2>3 DEF CommitDelete, FlightsTypeOK
  <1>9. CASE SendDeleted(d)
    BY <1>9 DEF SendDeleted, DatabaseTypeOK, FlightsTypeOK, tables, locks, Labels, Answers
  <1>10. QED
    BY <1>1, <1>2, <1>3, <1>4, <1>5, <1>6, <1>7, <1>8, <1>9 DEF Delete

-----------------------------------------------------------------------------
(* A step of one request leaves the place of every other where it is.      *)
Elsewhere(p) == \A q \in Procs : q # p => pc'[q] = pc[q]

LEMMA BuyElsewhere ==
    ASSUME DatabaseTypeOK, BookingsTypeOK, NEW b \in Buyers, Buy(b)
    PROVE  Elsewhere(b) /\ \A x \in Buyers : x # b => attempt'[x] = attempt[x]
  <1> USE DEF Elsewhere, DatabaseTypeOK, Goto, bookingVars
  <1>1. CASE ReadFlight(b)
    BY <1>1 DEF ReadFlight
  <1>2. CASE FlightNotBookable(b) \/ UnknownFareClass(b) \/ SeatNotAvailable(b) \/ GiveUpReference(b)
    BY <1>2 DEF FlightNotBookable, UnknownFareClass, SeatNotAvailable, GiveUpReference, Refuse
  <1>3. CASE SearchSeats(b) \/ LockSeat(b) \/ PassSeat(b) \/ SkipLockedSeat(b)
    BY <1>3 DEF SearchSeats, LockSeat, PassSeat, SkipLockedSeat
  <1>4. CASE DrawReference(b)
    <2>1. attempt \in [Buyers -> 0 .. MaxAttempts]
      BY DEF BookingsTypeOK
    <2>2. attempt' = [attempt EXCEPT ![b] = @ + 1] /\ pc' = [pc EXCEPT ![b] = "inserting"]
      BY <1>4 DEF DrawReference
    <2>3. QED
      BY <2>1, <2>2
  <1>5. CASE InsertBooking(b) \/ CheckFlight(b) \/ RetryReference(b)
    BY <1>5 DEF InsertBooking, CheckFlight, RetryReference
  <1>6. CASE MarkSeat(b) \/ CommitSale(b)
    BY <1>6 DEF MarkSeat, CommitSale, Commit
  <1>7. QED
    BY <1>1, <1>2, <1>3, <1>4, <1>5, <1>6 DEF Buy

LEMMA CancelElsewhere ==
    ASSUME DatabaseTypeOK, NEW c \in Cancellers, Cancel(c)
    PROVE  Elsewhere(c) /\ attempt' = attempt
  BY DEF Cancel, BookingNotFound, LockBooking, LoadSeats, AlreadyCancelled, FreeSeatRow,
         SendCancelled, CommitCancel, Refuse, Commit, Elsewhere, DatabaseTypeOK, Goto, bookingVars

LEMMA UpdateElsewhere ==
    ASSUME DatabaseTypeOK, NEW u \in Updaters, Update(u)
    PROVE  Elsewhere(u) /\ change' = change
  BY DEF Update, ReadForUpdate, UpdateNotFound, CountSold, CannotReprice, InvalidStatus,
         FareTooSmall, PatchFlight, PatchNothing, FlightGone, CommitPatch, Refuse, Commit, Elsewhere,
         DatabaseTypeOK, Goto, flightVars

LEMMA DeleteElsewhere ==
    ASSUME DatabaseTypeOK, NEW d \in Deleters, Delete(d)
    PROVE  Elsewhere(d) /\ change' = change
  BY DEF Delete, FindForDelete, DeleteNotFound, LoadCabin, CannotDelete, DeleteSeat,
         DeleteRow, Restricted, SendDeleted, CommitDelete, Refuse, Commit, Elsewhere, DatabaseTypeOK,
         Goto, flightVars

LEMMA AttemptsStep ==
    ASSUME DatabaseTypeOK, BookingsTypeOK, AttemptsLeft, NEW b \in Buyers, Buy(b)
    PROVE  pc'[b] \in {"start", "searching", "locking", "drawing"} => attempt'[b] < MaxAttempts
  <1> b \in Procs
    BY DEF Procs
  <1> USE DEF AttemptsLeft, DatabaseTypeOK, BookingsTypeOK, Goto, bookingVars
  <1>1. CASE ReadFlight(b)
    BY <1>1 DEF ReadFlight
  <1>2. CASE FlightNotBookable(b) \/ UnknownFareClass(b) \/ SeatNotAvailable(b) \/ GiveUpReference(b)
    BY <1>2 DEF FlightNotBookable, UnknownFareClass, SeatNotAvailable, GiveUpReference, Refuse
  <1>3. CASE SearchSeats(b) \/ LockSeat(b) \/ PassSeat(b) \/ SkipLockedSeat(b)
    BY <1>3 DEF SearchSeats, LockSeat, PassSeat, SkipLockedSeat
  <1>4. CASE DrawReference(b) \/ InsertBooking(b) \/ CheckFlight(b) \/ RetryReference(b)
    BY <1>4 DEF DrawReference, InsertBooking, CheckFlight, RetryReference
  <1>5. CASE MarkSeat(b) \/ CommitSale(b)
    BY <1>5 DEF MarkSeat, CommitSale, Commit
  <1>6. QED
    BY <1>1, <1>2, <1>3, <1>4, <1>5 DEF Buy

LEMMA PatchStep ==
    ASSUME DatabaseTypeOK, PatchesValid, NEW u \in Updaters, Update(u)
    PROVE  pc'[u] = "committing" => change'[u].status # "invalid"
  <1> u \in Procs
    BY DEF Procs
  <1> USE DEF PatchesValid, DatabaseTypeOK, Goto, flightVars
  <1>1. CASE PatchFlight(u) \/ PatchNothing(u)
    BY <1>1 DEF PatchFlight, PatchNothing, Storable
  <1>2. CASE ReadForUpdate(u) \/ CountSold(u)
    BY <1>2 DEF ReadForUpdate, CountSold
  <1>3. CASE UpdateNotFound(u) \/ CannotReprice(u) \/ InvalidStatus(u) \/ FareTooSmall(u)
             \/ FlightGone(u) \/ CommitPatch(u)
    BY <1>3
    DEF UpdateNotFound, CannotReprice, InvalidStatus, FareTooSmall, FlightGone, CommitPatch, Refuse,
        Commit
  <1>4. QED
    BY <1>1, <1>2, <1>3 DEF Update

-----------------------------------------------------------------------------

TypeInv == TypeOK /\ AttemptsLeft /\ PatchesValid

LEMMA TypeInit == Init => TypeInv
  <1> SUFFICES ASSUME Init PROVE TypeInv
    OBVIOUS
  <1> USE DEF Init, DatabaseInit, BookingsInit, FlightsInit
  <1>1. DatabaseTypeOK
    BY DEF DatabaseTypeOK, FlightRow, SeatRow, BookingRow, FreeSeat, NoBooking, NoFlight,
           Labels, Answers, FlightStatuses
  <1>2. BookingsTypeOK
    BY BookingsAssumption DEF BookingsTypeOK
  <1>3. FlightsTypeOK
    BY DEF FlightsTypeOK
  <1>4. AttemptsLeft
    BY BookingsAssumption DEF AttemptsLeft
  <1>5. PatchesValid
    BY DEF PatchesValid, Procs
  <1>6. QED
    BY <1>1, <1>2, <1>3, <1>4, <1>5 DEF TypeInv, TypeOK

LEMMA AbortStep ==
    ASSUME TypeInv, NEW p \in Procs, NEW status \in Answers, Abort(p, status),
           UNCHANGED <<bookingVars, flightVars>>
    PROVE  TypeInv'
  <1>1. TypeOK'
    BY AbortType DEF TypeInv, TypeOK, BookingsTypeOK, FlightsTypeOK, bookingVars, flightVars
  <1>2. AttemptsLeft'
    BY DEF TypeInv, TypeOK, DatabaseTypeOK, AttemptsLeft, Abort, Goto, bookingVars, Procs
  <1>3. PatchesValid'
    BY DEF TypeInv, TypeOK, DatabaseTypeOK, PatchesValid, Abort, Goto, flightVars, Procs
  <1>4. QED
    BY <1>1, <1>2, <1>3 DEF TypeInv

LEMMA TypeStep == TypeInv /\ [Next]_vars => TypeInv'
  <1> SUFFICES ASSUME TypeInv, [Next]_vars PROVE TypeInv'
    OBVIOUS
  <1> USE DEF TypeInv, TypeOK
  <1>1. ASSUME NEW b \in Buyers, BuyStep(b) PROVE TypeInv'
    <2>1. TypeOK'
      BY <1>1, BuyType DEF BuyStep, FlightsTypeOK, flightVars
    <2>2. AttemptsLeft'
      BY <1>1, BuyElsewhere, AttemptsStep DEF BuyStep, AttemptsLeft, Elsewhere, Procs
    <2>3. PatchesValid'
      BY <1>1, BuyElsewhere, RequestsAreDistinct
         DEF BuyStep, PatchesValid, Elsewhere, Procs, flightVars
    <2>4. QED
      BY <2>1, <2>2, <2>3
  <1>2. ASSUME NEW c \in Cancellers, CancelStep(c) PROVE TypeInv'
    <2>1. TypeOK'
      BY <1>2, CancelType DEF CancelStep, FlightsTypeOK, flightVars
    <2>2. AttemptsLeft'
      BY <1>2, CancelElsewhere, RequestsAreDistinct
         DEF CancelStep, AttemptsLeft, Elsewhere, Procs
    <2>3. PatchesValid'
      BY <1>2, CancelElsewhere, RequestsAreDistinct
         DEF CancelStep, PatchesValid, Elsewhere, Procs, flightVars
    <2>4. QED
      BY <2>1, <2>2, <2>3
  <1>3. ASSUME NEW u \in Updaters, UpdateStep(u) PROVE TypeInv'
    <2>1. TypeOK'
      BY <1>3, UpdateType DEF UpdateStep, BookingsTypeOK, bookingVars
    <2>2. AttemptsLeft'
      BY <1>3, UpdateElsewhere, RequestsAreDistinct
         DEF UpdateStep, AttemptsLeft, Elsewhere, Procs, bookingVars
    <2>3. PatchesValid'
      BY <1>3, UpdateElsewhere, PatchStep DEF UpdateStep, PatchesValid, Elsewhere, Procs
    <2>4. QED
      BY <2>1, <2>2, <2>3
  <1>4. ASSUME NEW d \in Deleters, DeleteStep(d) PROVE TypeInv'
    <2>1. TypeOK'
      BY <1>4, DeleteType DEF DeleteStep, BookingsTypeOK, bookingVars
    <2>2. AttemptsLeft'
      BY <1>4, DeleteElsewhere, RequestsAreDistinct
         DEF DeleteStep, AttemptsLeft, Elsewhere, Procs, bookingVars
    <2>3. PatchesValid'
      BY <1>4, DeleteElsewhere, RequestsAreDistinct
         DEF DeleteStep, PatchesValid, Elsewhere, Procs
    <2>4. QED
      BY <2>1, <2>2, <2>3
  <1>5. ASSUME NEW p \in MayFail, Fail(p) PROVE TypeInv'
    <2>1. p \in Procs /\ "lost" \in Answers
      BY FaultsAssumption DEF Answers
    <2>2. QED
      BY <1>5, <2>1, AbortStep DEF Fail
  <1>6. ASSUME NEW p \in Procs, DeadlockVictim(p) PROVE TypeInv'
    <2>1. "500" \in Answers
      BY DEF Answers
    <2>2. QED
      BY <1>6, <2>1, AbortStep DEF DeadlockVictim
  <1>7. CASE UNCHANGED vars
    BY <1>7 DEF vars, tables, locks, bookingVars, flightVars, DatabaseTypeOK, BookingsTypeOK,
            FlightsTypeOK, AttemptsLeft, PatchesValid
  <1>8. QED
    BY <1>1, <1>2, <1>3, <1>4, <1>5, <1>6, <1>7 DEF Next, Finished

(* In every reachable state each table, lock and local of the booking back *)
(* end is of its type, whatever requests run and however they fail.        *)
THEOREM TypeCorrect == Spec => []TypeOK
  <1>1. TypeInv => TypeOK
    BY DEF TypeInv
  <1>2. QED
    BY <1>1, TypeInit, TypeStep, PTL DEF Spec

(* The stronger invariant TypeCorrect is proved from, for other proofs to   *)
(* build on: the locals of a handler fit the place it is at (routers).     *)
THEOREM TypeInvariance == Spec => []TypeInv
  BY TypeInit, TypeStep, PTL DEF Spec

-----------------------------------------------------------------------------
(* The inductive invariants: SaleInv says of the seats, and FlightInv of    *)
(* references and flights, what the properties need to carry over a step.  *)

(* A buyer has chosen, and chooses among, seats of the flight it asked for. *)
ChoosesOnFlight(b) ==
    /\ pc[b] = "locking" => todo[b] \subseteq SeatsOf(order[b].flight)
    /\ pc[b] \in {"drawing", "inserting", "checking", "inserted", "committing"} =>
          chosen[b] \in SeatsOf(order[b].flight)

(* A booking reaches its table in the last step of its request. *)
StoredWhenDone(b) == bookings[b].status # "absent" => pc[b] = "done"

(* A seat that names a booking is the one its buyer chose.  This says more  *)
(* than BookedSeatIsSold and OneSeatPerBooking, which follow.              *)
NamesItsSale(s) ==
    /\ seats[s].status = "booked" => seats[s].booking # Nobody
    /\ \A b \in Buyers : seats[s].booking = b =>
          /\ bookings[b].status = "confirmed"
          /\ bookings[b].flight = FlightOf[s]
          /\ chosen[b] = s

(* A canceller has its booking's row to itself from the time it has read   *)
(* it, and locks every seat that names the booking before it commits.      *)
HoldsBooking(c) ==
    /\ pc[c] \in {"loading", "freeing", "committing"} =>
          bookingLock[revoke[c]] = c /\ bookings[revoke[c]].status # "absent"
    /\ pc[c] \in {"freeing", "committing"} =>
          \A s \in Seats : seats[s].booking = revoke[c] => s \in todo[c] \/ seatLock[s] = c
    /\ pc[c] = "committing" => todo[c] = {}

SaleInv ==
    /\ \A b \in Buyers : ChoosesOnFlight(b) /\ StoredWhenDone(b)
    /\ \A s \in Seats : NamesItsSale(s)
    /\ \A c \in Cancellers : HoldsBooking(c)

(* The unique index holds the references of the pending bookings as well.  *)
PendingUnique(b) ==
    pc[b] \in Inserted => ~ReferencePending(drawn[b], b) /\ ~ReferenceTaken(drawn[b])

(* The flight of a pending booking is share-locked, and there. *)
SharesFlight(b) ==
    pc[b] \in {"inserted", "committing"} =>
        /\ b \in flightShare[order[b].flight]
        /\ flights[order[b].flight].status # "absent"

(* A flight that is about to be deleted has no pending booking, and when it *)
(* is, no stored one.                                                      *)
HoldsFlight(d) ==
    /\ pc[d] \in {"restricting", "committing"} =>
          flightLock[target[d]] = d /\ flightShare[target[d]] = {}
    /\ pc[d] = "committing" => BookingsOn(target[d]) = {}

KeepsFlight(b) ==
    bookings[b].status # "absent" =>
        bookings[b].flight \in Flights /\ flights[bookings[b].flight].status # "absent"

FlightInv ==
    /\ \A b \in Buyers : PendingUnique(b) /\ SharesFlight(b) /\ KeepsFlight(b)
    /\ \A d \in Deleters : HoldsFlight(d)
    /\ ReferencesUnique

-----------------------------------------------------------------------------
(* What a step of one request leaves to the others: their places, locals   *)
(* and locks.                                                              *)

Frame(p) ==
    /\ \A q \in Procs : q # p => pc'[q] = pc[q] /\ todo'[q] = todo[q]
    /\ \A s \in Seats : seatLock[s] \notin {Nobody, p} => seatLock'[s] = seatLock[s]
    /\ \A s \in Seats : seatLock'[s] \in {seatLock[s], p, Nobody}
    /\ \A b \in Buyers : bookingLock[b] \notin {Nobody, p} => bookingLock'[b] = bookingLock[b]
    /\ \A f \in Flights : flightLock[f] \notin {Nobody, p} => flightLock'[f] = flightLock[f]
    /\ \A f \in Flights : flightLock'[f] \in {flightLock[f], p, Nobody}
    /\ \A f \in Flights : flightShare'[f] \ {p} = flightShare[f] \ {p}
    /\ \A b \in Buyers : b # p => chosen'[b] = chosen[b] /\ drawn'[b] = drawn[b]
    /\ \A u \in Updaters : u # p => loaded'[u] = loaded[u]
    /\ order' = order /\ revoke' = revoke /\ change' = change /\ target' = target

LEMMA UnlockFrame ==
    ASSUME DatabaseTypeOK, NEW p \in Procs, Unlock(p), NEW label,
           pc' = [pc EXCEPT ![p] = label], todo' = todo, loaded' = loaded,
           UNCHANGED <<bookingVars, flightVars>>
    PROVE  Frame(p)
  BY DEF Frame, Unlock, Released, DatabaseTypeOK, bookingVars, flightVars

LEMMA RefuseFrame ==
    ASSUME DatabaseTypeOK, NEW p \in Procs, NEW status, Refuse(p, status),
           UNCHANGED <<bookingVars, flightVars>>
    PROVE  Frame(p) /\ UNCHANGED tables
  BY UnlockFrame DEF Refuse, Goto

LEMMA CommitFrame ==
    ASSUME DatabaseTypeOK, NEW p \in Procs, Commit(p), UNCHANGED <<bookingVars, flightVars>>
    PROVE  Frame(p)
  BY UnlockFrame DEF Commit, Goto

LEMMA AbortFrame ==
    ASSUME DatabaseTypeOK, NEW p \in Procs, NEW status, Abort(p, status),
           UNCHANGED <<bookingVars, flightVars>>
    PROVE  Frame(p) /\ UNCHANGED tables
  BY UnlockFrame DEF Abort, Goto

LEMMA BuyFrame ==
    ASSUME TypeOK, NEW b \in Buyers, BuyStep(b)
    PROVE  Frame(b) /\ pc[b] # "done" /\ (CommitSale(b) \/ UNCHANGED tables)
  <1> b \in Procs
    BY DEF Procs
  <1> USE DEF TypeOK, BuyStep
  <1>1. CASE FlightNotBookable(b) \/ UnknownFareClass(b) \/ SeatNotAvailable(b) \/ GiveUpReference(b)
    <2>1. \E status : Refuse(b, status)
      BY <1>1 DEF FlightNotBookable, UnknownFareClass, SeatNotAvailable, GiveUpReference
    <2>2. UNCHANGED bookingVars
      BY <1>1 DEF FlightNotBookable, UnknownFareClass, SeatNotAvailable, GiveUpReference
    <2>3. pc[b] # "done"
      BY <1>1 DEF FlightNotBookable, UnknownFareClass, SeatNotAvailable, GiveUpReference,
                  IntegrityError
    <2>4. QED
      BY <2>1, <2>2, <2>3, RefuseFrame
  <1>2. CASE RetryReference(b)
    BY <1>2, UnlockFrame DEF RetryReference, IntegrityError, Goto
  <1>3. CASE CommitSale(b)
    BY <1>3, CommitFrame DEF CommitSale
  <1>4. CASE ReadFlight(b) \/ SearchSeats(b) \/ SkipLockedSeat(b)
    BY <1>4 DEF ReadFlight, SearchSeats, SkipLockedSeat, Frame, Goto, DatabaseTypeOK,
                locks, bookingVars, flightVars
  <1>5. CASE LockSeat(b) \/ PassSeat(b)
    BY <1>5 DEF LockSeat, PassSeat, Lockable, Frame, Goto, DatabaseTypeOK, BookingsTypeOK,
                bookingVars, flightVars
  <1>6. CASE DrawReference(b)
    BY <1>6 DEF DrawReference, Frame, Goto, DatabaseTypeOK, BookingsTypeOK, locks, flightVars
  <1>7. CASE InsertBooking(b)
    BY <1>7 DEF InsertBooking, Frame, Goto, DatabaseTypeOK, locks, bookingVars, flightVars
  <1>8. CASE CheckFlight(b) \/ MarkSeat(b)
    BY <1>8 DEF CheckFlight, MarkSeat, Lockable, Frame, Goto, DatabaseTypeOK, BookingsTypeOK,
                bookingVars, flightVars
  <1>9. QED
    BY <1>1, <1>2, <1>3, <1>4, <1>5, <1>6, <1>7, <1>8 DEF Buy

LEMMA CancelFrame ==
    ASSUME TypeOK, NEW c \in Cancellers, CancelStep(c)
    PROVE  Frame(c) /\ (CommitCancel(c) \/ UNCHANGED tables)
  <1> c \in Procs
    BY DEF Procs
  <1> USE DEF TypeOK, CancelStep
  <1>1. CASE BookingNotFound(c) \/ AlreadyCancelled(c)
    BY <1>1, RefuseFrame DEF BookingNotFound, AlreadyCancelled
  <1>2. CASE CommitCancel(c)
    BY <1>2, CommitFrame DEF CommitCancel
  <1>3. CASE LockBooking(c) \/ LoadSeats(c)
    BY <1>3 DEF LockBooking, LoadSeats, Lockable, Frame, Goto, DatabaseTypeOK, locks,
                bookingVars, flightVars
  <1>4. CASE FreeSeatRow(c) \/ SendCancelled(c)
    BY <1>4 DEF FreeSeatRow, SendCancelled, Lockable, Frame, Goto, DatabaseTypeOK, locks,
                bookingVars, flightVars
  <1>5. QED
    BY <1>1, <1>2, <1>3, <1>4 DEF Cancel

LEMMA UpdateFrame ==
    ASSUME TypeOK, NEW u \in Updaters, UpdateStep(u)
    PROVE  Frame(u) /\ (CommitPatch(u) \/ UNCHANGED tables)
  <1> u \in Procs
    BY DEF Procs
  <1> USE DEF TypeOK, UpdateStep
  <1>1. CASE UpdateNotFound(u) \/ CannotReprice(u) \/ InvalidStatus(u) \/ FareTooSmall(u)
             \/ FlightGone(u)
    BY <1>1, RefuseFrame DEF UpdateNotFound, CannotReprice, InvalidStatus, FareTooSmall, FlightGone
  <1>2. CASE CommitPatch(u)
    BY <1>2, CommitFrame DEF CommitPatch
  <1>3. CASE ReadForUpdate(u) \/ CountSold(u) \/ PatchNothing(u)
    BY <1>3 DEF ReadForUpdate, CountSold, PatchNothing, Frame, Goto, DatabaseTypeOK, locks,
                bookingVars, flightVars
  <1>4. CASE PatchFlight(u)
    BY <1>4 DEF PatchFlight, Lockable, Frame, Goto, DatabaseTypeOK, bookingVars, flightVars
  <1>5. QED
    BY <1>1, <1>2, <1>3, <1>4 DEF Update

LEMMA DeleteFrame ==
    ASSUME TypeOK, NEW d \in Deleters, DeleteStep(d)
    PROVE  Frame(d) /\ (CommitDelete(d) \/ UNCHANGED tables)
  <1> d \in Procs
    BY DEF Procs
  <1> USE DEF TypeOK, DeleteStep
  <1>1. CASE DeleteNotFound(d) \/ CannotDelete(d) \/ Restricted(d)
    BY <1>1, RefuseFrame DEF DeleteNotFound, CannotDelete, Restricted
  <1>2. CASE CommitDelete(d)
    BY <1>2, CommitFrame DEF CommitDelete
  <1>3. CASE FindForDelete(d) \/ LoadCabin(d) \/ SendDeleted(d)
    BY <1>3 DEF FindForDelete, LoadCabin, SendDeleted, Frame, Goto, DatabaseTypeOK, locks,
                bookingVars, flightVars
  <1>4. CASE DeleteSeat(d) \/ DeleteRow(d)
    BY <1>4 DEF DeleteSeat, DeleteRow, Lockable, Frame, Goto, DatabaseTypeOK, bookingVars,
                flightVars
  <1>5. QED
    BY <1>1, <1>2, <1>3, <1>4 DEF Delete

-----------------------------------------------------------------------------
(* SaleInv is inductive. *)

(* A step that writes no table disturbs the part of its own request alone. *)
LEMMA SaleOthers ==
    ASSUME TypeOK, SaleInv, NEW p \in Procs, Frame(p), UNCHANGED tables,
           p \in Buyers => pc[p] # "done"
    PROVE  /\ \A b \in Buyers : b # p => ChoosesOnFlight(b)' /\ StoredWhenDone(b)'
           /\ \A s \in Seats : NamesItsSale(s)'
           /\ \A c \in Cancellers : c # p => HoldsBooking(c)'
  <1> USE DEF SaleInv
  <1>1. ASSUME NEW b \in Buyers, b # p PROVE ChoosesOnFlight(b)' /\ StoredWhenDone(b)'
    BY <1>1 DEF Frame, tables, ChoosesOnFlight, StoredWhenDone, SeatsOf, Procs
  <1>2. ASSUME NEW s \in Seats PROVE NamesItsSale(s)'
    <2>1. ASSUME NEW b \in Buyers, seats[s].booking = b PROVE chosen'[b] = chosen[b]
      <3>1. bookings[b].status = "confirmed"
        BY <2>1 DEF NamesItsSale
      <3>2. pc[b] = "done"
        BY <3>1 DEF StoredWhenDone
      <3>3. QED
        BY <3>2 DEF Frame
    <2>2. QED
      BY <2>1 DEF tables, NamesItsSale
  <1>3. ASSUME NEW c \in Cancellers, c # p PROVE HoldsBooking(c)'
    <2>1. revoke[c] \in Buyers /\ c \in Procs /\ c # Nobody
      BY SchemaAssumption DEF TypeOK, BookingsTypeOK, Procs
    <2>2. QED
      BY <1>3, <2>1 DEF Frame, tables, HoldsBooking
  <1>4. QED
    BY <1>1, <1>2, <1>3

LEMMA BuySale ==
    ASSUME TypeOK, SaleInv, NEW b \in Buyers, BuyStep(b)
    PROVE  SaleInv'
  <1>1. b \in Procs /\ b \notin Cancellers /\ b # Nobody
    BY RequestsAreDistinct, SchemaAssumption DEF Procs
  <1>2. Frame(b) /\ pc[b] # "done" /\ (CommitSale(b) \/ UNCHANGED tables)
    BY BuyFrame
  <1>3. bookings[b].status = "absent" /\ \A s \in Seats : seats[s].booking # b
    BY <1>2 DEF SaleInv, StoredWhenDone, NamesItsSale
  <1>4. order[b].wanted \subseteq SeatsOf(order[b].flight)
    BY OrderType DEF TypeOK, BookingsTypeOK
  <1>5. CASE UNCHANGED tables
    <2>1. StoredWhenDone(b)'
      BY <1>3, <1>5 DEF StoredWhenDone, tables
    <2>2. ChoosesOnFlight(b)'
      <3> USE <1>1 DEF ChoosesOnFlight, SaleInv, TypeOK, DatabaseTypeOK, BookingsTypeOK, Goto,
                      BuyStep, bookingVars
      <3>0. ChoosesOnFlight(b)
        OBVIOUS
      <3>1. CASE FlightNotBookable(b) \/ UnknownFareClass(b) \/ SeatNotAvailable(b) \/ GiveUpReference(b)
        BY <3>1 DEF FlightNotBookable, UnknownFareClass, SeatNotAvailable, GiveUpReference, Refuse
      <3>2. CASE SearchSeats(b)
        BY <3>2, <1>4 DEF SearchSeats, SeatsOf
      <3>3. CASE LockSeat(b)
        BY <3>3, <3>0 DEF LockSeat, NextSeat, SeatsOf
      <3>4. CASE PassSeat(b) \/ SkipLockedSeat(b)
        BY <3>4, <3>0 DEF PassSeat, SkipLockedSeat, SeatsOf
      <3>5. CASE DrawReference(b) \/ InsertBooking(b) \/ CheckFlight(b) \/ MarkSeat(b)
        BY <3>5, <3>0 DEF DrawReference, InsertBooking, CheckFlight, MarkSeat, SeatsOf
      <3>6. CASE RetryReference(b)
        BY <3>6, <3>0 DEF RetryReference, IntegrityError, SeatsOf
      <3>7. CASE ReadFlight(b) \/ CommitSale(b)
        BY <3>7 DEF ReadFlight, CommitSale, Commit
      <3>8. QED
        BY <3>1, <3>2, <3>3, <3>4, <3>5, <3>6, <3>7 DEF Buy
    <2>3. QED
      BY <1>1, <1>2, <1>5, <2>1, <2>2, SaleOthers DEF SaleInv
  <1>6. CASE CommitSale(b)
    <2>1. chosen[b] \in Seats /\ FlightOf[chosen[b]] = order[b].flight
      BY <1>6 DEF SaleInv, ChoosesOnFlight, CommitSale, SeatsOf
    <2>2. /\ bookings' = [bookings EXCEPT ![b] =
                [status |-> "confirmed", reference |-> drawn[b],
                 flight |-> order[b].flight, fare |-> loaded[b].fare]]
          /\ seats' = [seats EXCEPT ![chosen[b]] = [status |-> "booked", booking |-> b]]
          /\ pc'[b] = "done" /\ chosen' = chosen
      BY <1>1, <1>6 DEF CommitSale, Commit, Goto, bookingVars, TypeOK, DatabaseTypeOK
    <2>3. ASSUME NEW x \in Buyers PROVE ChoosesOnFlight(x)' /\ StoredWhenDone(x)'
      BY <1>2, <2>2 DEF SaleInv, ChoosesOnFlight, StoredWhenDone, SeatsOf, Frame, Procs,
                        TypeOK, DatabaseTypeOK
    <2>4. ASSUME NEW s \in Seats PROVE NamesItsSale(s)'
      BY <1>1, <1>3, <2>1, <2>2 DEF SaleInv, NamesItsSale, TypeOK, DatabaseTypeOK
    <2>5. ASSUME NEW c \in Cancellers PROVE HoldsBooking(c)'
      <3>1. revoke[c] \in Buyers /\ c \in Procs /\ c # Nobody /\ c # b
        BY <1>1, SchemaAssumption DEF TypeOK, BookingsTypeOK, Procs
      <3>2. HoldsBooking(c)
        BY DEF SaleInv
      <3>3. pc[c] \in {"loading", "freeing", "committing"} => revoke[c] # b
        BY <1>3, <3>2 DEF HoldsBooking
      <3>4. QED
        BY <1>2, <2>1, <2>2, <3>1, <3>2, <3>3
           DEF HoldsBooking, Frame, TypeOK, DatabaseTypeOK
    <2>6. QED
      BY <2>3, <2>4, <2>5 DEF SaleInv
  <1>7. QED
    BY <1>2, <1>5, <1>6

LEMMA CancelSale ==
    ASSUME TypeOK, SaleInv, NEW c \in Cancellers, CancelStep(c)
    PROVE  SaleInv'
  <1>1. /\ c \in Procs /\ c \notin Buyers /\ c # Nobody
        /\ revoke[c] \in Buyers /\ revoke[c] \in Procs /\ revoke[c] # Nobody
    BY RequestsAreDistinct, SchemaAssumption DEF Procs, TypeOK, BookingsTypeOK
  <1>2. Frame(c) /\ (CommitCancel(c) \/ UNCHANGED tables)
    BY CancelFrame
  <1>3. HoldsBooking(c)
    BY DEF SaleInv
  <1>4. CASE UNCHANGED tables
    <2>1. HoldsBooking(c)'
      <3> USE <1>1, <1>4 DEF HoldsBooking, TypeOK, DatabaseTypeOK, BookingsTypeOK, Goto,
                             CancelStep, bookingVars, tables
      <3>1. CASE BookingNotFound(c) \/ AlreadyCancelled(c)
        BY <3>1 DEF BookingNotFound, AlreadyCancelled, Refuse
      <3>2. CASE LockBooking(c)
        BY <3>2 DEF LockBooking, FindsBooking
      <3>3. CASE LoadSeats(c)
        BY <3>3, <1>3 DEF LoadSeats, locks
      <3>4. CASE FreeSeatRow(c)
        BY <3>4, <1>3 DEF FreeSeatRow
      <3>5. CASE SendCancelled(c)
        BY <3>5, <1>3 DEF SendCancelled, locks
      <3>6. CASE CommitCancel(c)
        BY <3>6 DEF CommitCancel, Commit
      <3>7. QED
        BY <3>1, <3>2, <3>3, <3>4, <3>5, <3>6 DEF Cancel
    <2>2. QED
      BY <1>1, <1>2, <1>4, <2>1, SaleOthers DEF SaleInv
  <1>5. CASE CommitCancel(c)
    <2>1. /\ bookings' = [bookings EXCEPT ![revoke[c]] = [@ EXCEPT !.status = "cancelled"]]
          /\ seats' = [s \in Seats |-> IF seatLock[s] = c THEN FreeSeat ELSE seats[s]]
          /\ pc' = [pc EXCEPT ![c] = "done"]
          /\ chosen' = chosen /\ todo' = todo
      BY <1>5 DEF CommitCancel, Commit, Goto, bookingVars
    <2>2. /\ bookingLock[revoke[c]] = c /\ bookings[revoke[c]].status # "absent"
          /\ \A s \in Seats : seats[s].booking = revoke[c] => seatLock[s] = c
      BY <1>3, <1>5 DEF HoldsBooking, CommitCancel
    <2>3. /\ bookings' \in [Buyers -> BookingRow]
          /\ bookings'[revoke[c]].status = "cancelled"
          /\ \A b \in Buyers : b # revoke[c] => bookings'[b] = bookings[b]
      BY <1>1, <2>1 DEF TypeOK, DatabaseTypeOK, BookingRow
    <2>4. ASSUME NEW b \in Buyers PROVE ChoosesOnFlight(b)' /\ StoredWhenDone(b)'
      <3>1. ChoosesOnFlight(b) /\ StoredWhenDone(b) /\ StoredWhenDone(revoke[c])
        BY <1>1 DEF SaleInv
      <3>2. pc'[b] = pc[b] /\ order' = order
        BY <1>1, <1>2 DEF Frame, Procs
      <3>3. QED
        BY <2>1, <2>2, <2>3, <3>1, <3>2 DEF ChoosesOnFlight, StoredWhenDone, SeatsOf
    <2>5. ASSUME NEW s \in Seats PROVE NamesItsSale(s)'
      <3>1. NamesItsSale(s)
        BY DEF SaleInv
      <3>2. CASE seatLock[s] = c
        BY <2>1, <3>2, SchemaAssumption DEF NamesItsSale, FreeSeat, Procs
      <3>3. CASE seatLock[s] # c
        BY <2>1, <2>2, <2>3, <3>1, <3>3 DEF NamesItsSale
      <3>4. QED
        BY <3>2, <3>3
    <2>6. ASSUME NEW x \in Cancellers PROVE HoldsBooking(x)'
      <3>1. /\ revoke[x] \in Buyers /\ x \in Procs /\ x # Nobody
            /\ revoke[x] \in Procs /\ revoke[x] # Nobody
        BY SchemaAssumption DEF TypeOK, BookingsTypeOK, Procs
      <3>2. CASE x = c
        BY <1>1, <2>1, <3>2 DEF HoldsBooking, TypeOK, DatabaseTypeOK
      <3>3. CASE x # c
        <4>1. HoldsBooking(x)
          BY DEF SaleInv
        <4>2. /\ pc'[x] = pc[x] /\ revoke' = revoke
              /\ bookingLock[revoke[x]] = x => bookingLock'[revoke[x]] = x
              /\ \A s \in Seats : seatLock[s] = x => seatLock'[s] = x
          BY <1>2, <3>1, <3>3 DEF Frame
        <4>3. pc[x] \in {"loading", "freeing", "committing"} => revoke[x] # revoke[c]
          BY <2>2, <3>3, <4>1 DEF HoldsBooking
        <4>4. \A s \in Seats : seats'[s].booking = revoke[x] => seats[s].booking = revoke[x]
          BY <2>1, <3>1 DEF FreeSeat
        <4>5. QED
          BY <2>1, <2>3, <3>1, <4>1, <4>2, <4>3, <4>4 DEF HoldsBooking
      <3>4. QED
        BY <3>2, <3>3
    <2>7. QED
      BY <2>4, <2>5, <2>6 DEF SaleInv
  <1>6. QED
    BY <1>2, <1>4, <1>5

LEMMA UpdateSale ==
    ASSUME TypeOK, SaleInv, NEW u \in Updaters, UpdateStep(u)
    PROVE  SaleInv'
  <1>1. u \in Procs /\ u \notin Buyers /\ u \notin Cancellers
    BY RequestsAreDistinct DEF Procs
  <1>2. Frame(u) /\ (CommitPatch(u) \/ UNCHANGED tables)
    BY UpdateFrame
  <1>3. seats' = seats /\ bookings' = bookings /\ chosen' = chosen
    BY <1>2 DEF CommitPatch, tables, UpdateStep, bookingVars
  <1>4. ASSUME NEW b \in Buyers PROVE ChoosesOnFlight(b)' /\ StoredWhenDone(b)'
    BY <1>1, <1>2, <1>3 DEF SaleInv, Frame, ChoosesOnFlight, StoredWhenDone, SeatsOf, Procs
  <1>5. ASSUME NEW s \in Seats PROVE NamesItsSale(s)'
    BY <1>3 DEF SaleInv, NamesItsSale
  <1>6. ASSUME NEW c \in Cancellers PROVE HoldsBooking(c)'
    <2>1. revoke[c] \in Buyers /\ c \in Procs /\ c # Nobody /\ c # u
      BY <1>1, SchemaAssumption DEF TypeOK, BookingsTypeOK, Procs
    <2>2. QED
      BY <1>2, <1>3, <2>1 DEF SaleInv, Frame, HoldsBooking
  <1>7. QED
    BY <1>4, <1>5, <1>6 DEF SaleInv

LEMMA DeleteSale ==
    ASSUME TypeOK, SaleInv, NEW d \in Deleters, DeleteStep(d)
    PROVE  SaleInv'
  <1>1. d \in Procs /\ d \notin Buyers /\ d \notin Cancellers
    BY RequestsAreDistinct DEF Procs
  <1>2. Frame(d) /\ (CommitDelete(d) \/ UNCHANGED tables)
    BY DeleteFrame
  <1>3. bookings' = bookings /\ chosen' = chosen
    BY <1>2 DEF CommitDelete, tables, DeleteStep, bookingVars
  <1>4. \A s \in Seats : seats'[s] = seats[s] \/ seats'[s] = [status |-> "absent", booking |-> Nobody]
    BY <1>2 DEF CommitDelete, tables
  <1>5. ASSUME NEW b \in Buyers PROVE ChoosesOnFlight(b)' /\ StoredWhenDone(b)'
    BY <1>1, <1>2, <1>3 DEF SaleInv, Frame, ChoosesOnFlight, StoredWhenDone, SeatsOf, Procs
  <1>6. ASSUME NEW s \in Seats PROVE NamesItsSale(s)'
    BY <1>3, <1>4, SchemaAssumption DEF SaleInv, NamesItsSale, Procs
  <1>7. ASSUME NEW c \in Cancellers PROVE HoldsBooking(c)'
    <2>1. /\ revoke[c] \in Buyers /\ c \in Procs /\ c # Nobody /\ c # d
          /\ revoke[c] # Nobody
      BY <1>1, SchemaAssumption DEF TypeOK, BookingsTypeOK, Procs
    <2>2. \A s \in Seats : seats'[s].booking = revoke[c] => seats[s].booking = revoke[c]
      BY <1>4, <2>1
    <2>3. QED
      BY <1>2, <1>3, <2>1, <2>2 DEF SaleInv, Frame, HoldsBooking
  <1>8. QED
    BY <1>5, <1>6, <1>7 DEF SaleInv

LEMMA AbortSale ==
    ASSUME TypeOK, SaleInv, NEW p \in Procs, NEW status, Abort(p, status),
           UNCHANGED <<bookingVars, flightVars>>
    PROVE  SaleInv'
  <1>1. Frame(p) /\ UNCHANGED tables /\ pc[p] # "done" /\ pc'[p] = "done"
    BY AbortFrame DEF Abort, Goto, TypeOK, DatabaseTypeOK
  <1>2. p \in Buyers => ChoosesOnFlight(p)' /\ StoredWhenDone(p)'
    BY <1>1 DEF ChoosesOnFlight, StoredWhenDone
  <1>3. p \in Cancellers => HoldsBooking(p)'
    BY <1>1 DEF HoldsBooking
  <1>4. QED
    BY <1>1, <1>2, <1>3, SaleOthers DEF SaleInv

LEMMA SaleInit == Init => SaleInv
  <1> SUFFICES ASSUME Init PROVE SaleInv
    OBVIOUS
  <1> USE DEF Init, DatabaseInit, BookingsInit
  <1>1. ASSUME NEW b \in Buyers PROVE ChoosesOnFlight(b) /\ StoredWhenDone(b)
    BY DEF ChoosesOnFlight, StoredWhenDone, NoBooking, Procs
  <1>2. ASSUME NEW s \in Seats PROVE NamesItsSale(s)
    BY SchemaAssumption DEF NamesItsSale, FreeSeat, Procs
  <1>3. ASSUME NEW c \in Cancellers PROVE HoldsBooking(c)
    BY DEF HoldsBooking, Procs
  <1>4. QED
    BY <1>1, <1>2, <1>3 DEF SaleInv

LEMMA SaleStep == TypeOK /\ SaleInv /\ [Next]_vars => SaleInv'
  <1> SUFFICES ASSUME TypeOK, SaleInv, [Next]_vars PROVE SaleInv'
    OBVIOUS
  <1>1. ASSUME NEW b \in Buyers, BuyStep(b) PROVE SaleInv'
    BY <1>1, BuySale
  <1>2. ASSUME NEW c \in Cancellers, CancelStep(c) PROVE SaleInv'
    BY <1>2, CancelSale
  <1>3. ASSUME NEW u \in Updaters, UpdateStep(u) PROVE SaleInv'
    BY <1>3, UpdateSale
  <1>4. ASSUME NEW d \in Deleters, DeleteStep(d) PROVE SaleInv'
    BY <1>4, DeleteSale
  <1>5. ASSUME NEW p \in MayFail, Fail(p) PROVE SaleInv'
    BY <1>5, AbortSale, FaultsAssumption DEF Fail
  <1>6. ASSUME NEW p \in Procs, DeadlockVictim(p) PROVE SaleInv'
    BY <1>6, AbortSale DEF DeadlockVictim
  <1>7. CASE UNCHANGED vars
    BY <1>7 DEF vars, tables, locks, bookingVars, SaleInv, ChoosesOnFlight, StoredWhenDone,
                NamesItsSale, HoldsBooking, SeatsOf
  <1>8. QED
    BY <1>1, <1>2, <1>3, <1>4, <1>5, <1>6, <1>7 DEF Next, Finished

(* A booked seat names a confirmed booking of its own flight, however many *)
(* buyers, cancellers and administrators are at work, whatever references  *)
(* they draw and whichever of them fail.                                   *)
THEOREM BookedSeatIsAlwaysSold == Spec => []BookedSeatIsSold
  <1>1. TypeOK /\ SaleInv => BookedSeatIsSold
    BY DEF SaleInv, NamesItsSale, BookedSeatIsSold, TypeOK, DatabaseTypeOK, SeatRow
  <1>2. QED
    BY <1>1, TypeCorrect, SaleInit, SaleStep, PTL DEF Spec

(* No booking ever holds two seats, however often its sale started over.   *)
THEOREM OneSeatPerBookingAlways == Spec => []OneSeatPerBooking
  <1>1. TypeOK /\ SaleInv => OneSeatPerBooking
    <2> SUFFICES ASSUME TypeOK, SaleInv, NEW s \in Seats, NEW t \in Seats,
                        seats[s].status = "booked", seats[s].booking = seats[t].booking
                 PROVE  s = t
      BY DEF OneSeatPerBooking
    <2>1. PICK b \in Buyers : seats[s].booking = b
      BY DEF SaleInv, NamesItsSale, TypeOK, DatabaseTypeOK, SeatRow
    <2>2. chosen[b] = s /\ chosen[b] = t
      BY <2>1 DEF SaleInv, NamesItsSale
    <2>3. QED
      BY <2>2
  <1>2. QED
    BY <1>1, TypeCorrect, SaleInit, SaleStep, PTL DEF Spec

-----------------------------------------------------------------------------
(* FlightInv is inductive. *)

SameSales ==
    \A b \in Buyers :
        /\ bookings'[b].status = "absent" <=> bookings[b].status = "absent"
        /\ bookings'[b].reference = bookings[b].reference
        /\ bookings'[b].flight = bookings[b].flight

(* Nothing but a purchase or the deletion of a flight bears on it. *)
LEMMA FlightOthers ==
    ASSUME TypeOK, TypeOK', FlightInv, NEW p \in Procs \ Buyers, Frame(p), SameSales,
           \A f \in Flights : flights'[f].status = "absent" => flights[f].status = "absent"
    PROVE  /\ \A b \in Buyers : PendingUnique(b)' /\ SharesFlight(b)' /\ KeepsFlight(b)'
           /\ \A d \in Deleters : d # p => HoldsFlight(d)'
           /\ ReferencesUnique'
  <1>1. \A f \in Flights : flightShare'[f] = flightShare[f]
    <2>1. ASSUME NEW f \in Flights PROVE flightShare'[f] = flightShare[f]
      <3>1. p \notin flightShare[f] /\ p \notin flightShare'[f]
        BY DEF TypeOK, DatabaseTypeOK
      <3>2. flightShare'[f] \ {p} = flightShare[f] \ {p}
        BY DEF Frame
      <3>3. \A b : b \in flightShare'[f] <=> b \in flightShare[f]
        BY <3>1, <3>2
      <3>4. QED
        BY <3>3
    <2>2. QED
      BY <2>1
  <1>2. \A b \in Buyers : pc'[b] = pc[b] /\ drawn'[b] = drawn[b]
    BY DEF Frame, Procs
  <1>3. ASSUME NEW b \in Buyers PROVE PendingUnique(b)' /\ SharesFlight(b)'
    <2>1. PendingUnique(b)'
      <3>1. PendingUnique(b)
        BY DEF FlightInv
      <3>2. ReferencePending(drawn[b], b)' = ReferencePending(drawn[b], b)
        BY <1>2 DEF ReferencePending, Inserted
      <3>3. ReferenceTaken(drawn[b])' = ReferenceTaken(drawn[b])
        BY <1>2 DEF ReferenceTaken, SameSales
      <3>4. QED
        BY <1>2, <3>1, <3>2, <3>3 DEF PendingUnique, Inserted
    <2>2. order[b].flight \in Flights /\ order' = order
      BY OrderType DEF Frame, TypeOK, BookingsTypeOK
    <2>3. SharesFlight(b)'
      BY <1>1, <1>2, <2>2 DEF FlightInv, SharesFlight
    <2>4. QED
      BY <2>1, <2>3
  <1>4. ASSUME NEW d \in Deleters, d # p PROVE HoldsFlight(d)'
    <2>1. d \in Procs /\ d # Nobody /\ target[d] \in Flights
      BY SchemaAssumption DEF Procs, TypeOK, FlightsTypeOK
    <2>2. BookingsOn(target[d])' = BookingsOn(target[d])
      BY DEF SameSales, BookingsOn, Frame
    <2>3. QED
      BY <1>1, <1>4, <2>1, <2>2 DEF FlightInv, HoldsFlight, Frame
  <1>5. ReferencesUnique'
    BY DEF FlightInv, ReferencesUnique, SameSales
  <1>6. ASSUME NEW b \in Buyers PROVE KeepsFlight(b)'
    BY DEF FlightInv, KeepsFlight, SameSales
  <1>7. QED
    BY <1>3, <1>4, <1>5, <1>6

LEMMA BuyPending ==
    ASSUME TypeOK, NEW b \in Buyers, BuyStep(b)
    PROVE  /\ pc'[b] \in Inserted =>
                 \/ pc[b] \in Inserted /\ drawn' = drawn
                 \/ InsertBooking(b)
           /\ pc'[b] \in {"inserted", "committing"} =>
                 \/ pc[b] \in {"inserted", "committing"} /\ flightShare' = flightShare
                 \/ CheckFlight(b)
           /\ \A f \in Flights :
                 \/ flightShare'[f] \subseteq flightShare[f]
                 \/ f = order[b].flight /\ flightLock[f] \notin Deleters
  <1> b \in Procs
    BY DEF Procs
  <1> USE DEF TypeOK, DatabaseTypeOK, BookingsTypeOK, BuyStep, Inserted, Goto, bookingVars
  <1>1. CASE FlightNotBookable(b) \/ UnknownFareClass(b) \/ SeatNotAvailable(b) \/ GiveUpReference(b)
    BY <1>1 DEF FlightNotBookable, UnknownFareClass, SeatNotAvailable, GiveUpReference, Refuse,
                Unlock
  <1>2. CASE ReadFlight(b) \/ SearchSeats(b) \/ SkipLockedSeat(b)
    BY <1>2 DEF ReadFlight, SearchSeats, SkipLockedSeat, locks
  <1>3. CASE LockSeat(b) \/ PassSeat(b)
    BY <1>3 DEF LockSeat, PassSeat
  <1>4. CASE DrawReference(b)
    BY <1>4 DEF DrawReference, locks
  <1>5. CASE InsertBooking(b)
    BY <1>5 DEF InsertBooking, locks
  <1>6. CASE CheckFlight(b)
    BY <1>6 DEF CheckFlight
  <1>7. CASE RetryReference(b)
    BY <1>7 DEF RetryReference, Unlock
  <1>8. CASE MarkSeat(b)
    BY <1>8 DEF MarkSeat
  <1>9. CASE CommitSale(b)
    BY <1>9 DEF CommitSale, Commit, Unlock
  <1>10. QED
    BY <1>1, <1>2, <1>3, <1>4, <1>5, <1>6, <1>7, <1>8, <1>9 DEF Buy

LEMMA BuyFlight ==
    ASSUME TypeOK, TypeOK', SaleInv, FlightInv, NEW b \in Buyers, BuyStep(b)
    PROVE  FlightInv'
  <1>1. b \in Procs /\ b \notin Deleters /\ b # Nobody
    BY RequestsAreDistinct, SchemaAssumption DEF Procs
  <1>2. Frame(b) /\ pc[b] # "done" /\ (CommitSale(b) \/ UNCHANGED tables)
    BY BuyFrame
  <1>3. bookings[b].status = "absent" /\ bookings'[b].status # "absent" => CommitSale(b)
    BY <1>2 DEF tables
  <1>4. order[b].flight \in Flights
    BY OrderType DEF TypeOK, BookingsTypeOK
  <1>5. \A x \in Buyers \ {b} : bookings'[x] = bookings[x] /\ pc'[x] = pc[x] /\ drawn'[x] = drawn[x]
    BY <1>2 DEF CommitSale, tables, Frame, Procs, TypeOK, DatabaseTypeOK
  <1>6. flights' = flights /\ order' = order
    BY <1>2 DEF CommitSale, tables, Frame
  <1>7. CommitSale(b) => /\ pc[b] = "committing" /\ pc'[b] = "done"
                         /\ bookings'[b].reference = drawn[b]
                         /\ bookings'[b].flight = order[b].flight
    BY <1>1 DEF CommitSale, Commit, Goto, TypeOK, DatabaseTypeOK
  <1>8. ASSUME NEW x \in Buyers PROVE PendingUnique(x)'
    <2> SUFFICES ASSUME pc'[x] \in Inserted
                 PROVE  ~ReferencePending(drawn[x], x)' /\ ~ReferenceTaken(drawn[x])'
      BY DEF PendingUnique
    <2>1. CASE InsertBooking(b)
      <3>1. /\ ~ReferencePending(drawn[b], b) /\ ~ReferenceTaken(drawn[b])
            /\ bookings' = bookings /\ drawn' = drawn /\ pc[b] = "inserting"
        BY <2>1 DEF InsertBooking, tables, bookingVars
      <3>2. x # b => ~ReferencePending(drawn[x], x) /\ ~ReferenceTaken(drawn[x])
        BY <1>5 DEF FlightInv, PendingUnique
      <3>3. x # b => drawn[x] # drawn[b]
        BY <1>5, <3>1 DEF ReferencePending
      <3>4. \A y \in Buyers \ {b} : pc'[y] = pc[y]
        BY <1>5
      <3>5. QED
        BY <3>1, <3>2, <3>3, <3>4 DEF ReferencePending, ReferenceTaken
    <2>2. CASE ~InsertBooking(b)
      <3>1. \A y \in Buyers : pc'[y] \in Inserted => pc[y] \in Inserted /\ drawn'[y] = drawn[y]
        BY <1>5, <2>2, BuyPending
      <3>2. ~ReferencePending(drawn[x], x) /\ ~ReferenceTaken(drawn[x])
        BY <3>1 DEF FlightInv, PendingUnique
      <3>3. drawn'[x] = drawn[x]
        BY <3>1
      <3>4. ~ReferencePending(drawn[x], x)'
        BY <3>1, <3>2, <3>3 DEF ReferencePending
      <3>5. ~ReferenceTaken(drawn[x])'
        <4>1. CASE CommitSale(b)
          <5>1. x # b /\ pc[b] \in Inserted
            BY <1>7, <4>1 DEF Inserted
          <5>2. drawn[b] # drawn[x]
            BY <3>2, <5>1 DEF ReferencePending
          <5>3. QED
            BY <1>5, <1>7, <3>2, <3>3, <4>1, <5>2 DEF ReferenceTaken
        <4>2. CASE UNCHANGED tables
          BY <3>2, <3>3, <4>2 DEF ReferenceTaken, tables
        <4>3. QED
          BY <1>2, <4>1, <4>2
      <3>6. QED
        BY <3>4, <3>5
    <2>3. QED
      BY <2>1, <2>2
  <1>9. ASSUME NEW x \in Buyers PROVE SharesFlight(x)'
    <2>1. SharesFlight(x) /\ order[x].flight \in Flights
      BY OrderType DEF FlightInv, TypeOK, BookingsTypeOK
    <2>2. CASE x # b
      <3>1. pc'[x] = pc[x] /\ flightShare'[order[x].flight] \ {b} = flightShare[order[x].flight] \ {b}
        BY <1>2, <1>5, <2>1, <2>2 DEF Frame
      <3>2. QED
        BY <1>6, <2>1, <2>2, <3>1 DEF SharesFlight
    <2>3. CASE x = b
      <3>1. CASE CheckFlight(b)
        BY <1>4, <1>6, <2>3, <3>1 DEF CheckFlight, SharesFlight, TypeOK, DatabaseTypeOK
      <3>2. CASE ~CheckFlight(b)
        BY <1>6, <2>1, <2>3, <3>2, BuyPending DEF SharesFlight
      <3>3. QED
        BY <3>1, <3>2
    <2>4. QED
      BY <2>2, <2>3
  <1>10. ASSUME NEW x \in Buyers PROVE KeepsFlight(x)'
    <2>1. KeepsFlight(x)
      BY DEF FlightInv
    <2>2. CASE x = b /\ CommitSale(b)
      BY <1>4, <1>6, <1>7, <2>2 DEF FlightInv, SharesFlight, KeepsFlight
    <2>3. CASE ~(x = b /\ CommitSale(b))
      <3>1. bookings'[x] = bookings[x]
        BY <1>2, <1>5, <2>3 DEF tables
      <3>2. QED
        BY <1>6, <2>1, <3>1 DEF KeepsFlight
    <2>4. QED
      BY <2>2, <2>3
  <1>11. ASSUME NEW d \in Deleters PROVE HoldsFlight(d)'
    <2>1. /\ d \in Procs /\ d # b /\ d # Nobody /\ target[d] \in Flights
          /\ HoldsFlight(d)
      BY <1>1, SchemaAssumption DEF Procs, TypeOK, FlightsTypeOK, FlightInv
    <2>2. /\ pc'[d] = pc[d] /\ target' = target
          /\ flightLock[target[d]] = d => flightLock'[target[d]] = d
      BY <1>2, <2>1 DEF Frame
    <2>3. SUFFICES ASSUME pc[d] \in {"restricting", "committing"}
                   PROVE  /\ flightShare'[target[d]] = {}
                          /\ pc[d] = "committing" => BookingsOn(target[d])' = {}
      BY <2>1, <2>2 DEF HoldsFlight, BookingsOn
    <2>4. flightLock[target[d]] = d /\ flightShare[target[d]] = {}
      BY <2>1, <2>3 DEF HoldsFlight
    <2>5. flightShare'[target[d]] = {}
      BY <2>1, <2>4, BuyPending
    <2>6. ASSUME pc[d] = "committing" PROVE BookingsOn(target[d])' = {}
      <3>1. BookingsOn(target[d]) = {}
        BY <2>1, <2>6 DEF HoldsFlight
      <3>2. CommitSale(b) => order[b].flight # target[d]
        BY <1>7, <2>4 DEF FlightInv, SharesFlight
      <3>3. QED
        BY <1>2, <1>5, <1>7, <2>2, <3>1, <3>2 DEF BookingsOn, tables
    <2>7. QED
      BY <2>5, <2>6
  <1>12. ReferencesUnique'
    <2>1. CASE UNCHANGED tables
      BY <2>1 DEF tables, FlightInv, ReferencesUnique
    <2>2. CASE CommitSale(b)
      <3>1. ~ReferenceTaken(drawn[b])
        BY <1>7, <2>2 DEF FlightInv, PendingUnique, Inserted
      <3>2. ReferencesUnique
        BY DEF FlightInv
      <3>3. QED
        BY <1>5, <1>7, <2>2, <3>1, <3>2 DEF ReferenceTaken, ReferencesUnique
    <2>3. QED
      BY <1>2, <2>1, <2>2
  <1>13. QED
    BY <1>8, <1>9, <1>10, <1>11, <1>12 DEF FlightInv

LEMMA CancelFlight ==
    ASSUME TypeOK, TypeOK', SaleInv, FlightInv, NEW c \in Cancellers, CancelStep(c)
    PROVE  FlightInv'
  <1>1. c \in Procs \ Buyers /\ c \notin Deleters /\ revoke[c] \in Buyers
    BY RequestsAreDistinct DEF Procs, TypeOK, BookingsTypeOK
  <1>2. Frame(c) /\ (CommitCancel(c) \/ UNCHANGED tables)
    BY CancelFrame
  <1>3. flights' = flights
    BY <1>2 DEF CommitCancel, tables
  <1>4. SameSales
    <2>1. CASE CommitCancel(c)
      <3>1. bookings[revoke[c]].status # "absent"
        BY <2>1 DEF SaleInv, HoldsBooking, CommitCancel
      <3>2. bookings' = [bookings EXCEPT ![revoke[c]] = [@ EXCEPT !.status = "cancelled"]]
        BY <2>1 DEF CommitCancel
      <3>3. bookings \in [Buyers -> BookingRow]
        BY DEF TypeOK, DatabaseTypeOK
      <3>4. QED
        BY <1>1, <3>1, <3>2, <3>3 DEF SameSales, BookingRow
    <2>2. QED
      BY <1>2, <2>1 DEF SameSales, tables
  <1>5. QED
    BY <1>1, <1>2, <1>3, <1>4, FlightOthers DEF FlightInv

LEMMA UpdateFlight ==
    ASSUME TypeOK, TypeOK', FlightInv, NEW u \in Updaters, UpdateStep(u)
    PROVE  FlightInv'
  <1>1. u \in Procs \ Buyers /\ u \notin Deleters
    BY RequestsAreDistinct DEF Procs
  <1>2. Frame(u) /\ (CommitPatch(u) \/ UNCHANGED tables)
    BY UpdateFrame
  <1>3. SameSales
    BY <1>2 DEF SameSales, CommitPatch, tables
  <1>4. ASSUME NEW f \in Flights, flights'[f].status = "absent" PROVE flights[f].status = "absent"
    <2>1. CASE CommitPatch(u)
      <3>1. flights'[f].status \in {flights[f].status, change[u].status}
        BY <2>1 DEF CommitPatch, TypeOK, DatabaseTypeOK
      <3>2. change[u].status # "absent"
        BY DEF TypeOK, FlightsTypeOK, Changes, FlightStatuses
      <3>3. QED
        BY <1>4, <3>1, <3>2
    <2>2. QED
      BY <1>2, <1>4, <2>1 DEF tables
  <1>5. QED
    BY <1>1, <1>2, <1>3, <1>4, FlightOthers DEF FlightInv

LEMMA DeleteFlight ==
    ASSUME TypeOK, TypeOK', FlightInv, NEW d \in Deleters, DeleteStep(d)
    PROVE  FlightInv'
  <1>1. d \in Procs \ Buyers /\ d # Nobody /\ target[d] \in Flights
    BY RequestsAreDistinct, SchemaAssumption DEF Procs, TypeOK, FlightsTypeOK
  <1>2. Frame(d) /\ (CommitDelete(d) \/ UNCHANGED tables)
    BY DeleteFrame
  <1>3. SameSales
    BY <1>2 DEF SameSales, CommitDelete, tables
  <1>4. HoldsFlight(d)
    BY DEF FlightInv
  <1>5. CASE UNCHANGED tables
    <2>1. HoldsFlight(d)'
      <3> USE <1>1, <1>5 DEF HoldsFlight, TypeOK, DatabaseTypeOK, Goto, DeleteStep, flightVars,
                             tables
      <3>1. CASE DeleteNotFound(d) \/ CannotDelete(d) \/ Restricted(d)
        BY <3>1 DEF DeleteNotFound, CannotDelete, Restricted, Refuse
      <3>2. CASE FindForDelete(d) \/ LoadCabin(d) \/ DeleteSeat(d)
        BY <3>2 DEF FindForDelete, LoadCabin, DeleteSeat
      <3>3. CASE DeleteRow(d)
        BY <3>3 DEF DeleteRow
      <3>4. CASE SendDeleted(d)
        BY <1>4, <3>4 DEF SendDeleted, BookingsOn, locks
      <3>5. CASE CommitDelete(d)
        BY <3>5 DEF CommitDelete, Commit
      <3>6. QED
        BY <3>1, <3>2, <3>3, <3>4, <3>5 DEF Delete
    <2>2. QED
      BY <1>1, <1>2, <1>3, <1>5, <2>1, FlightOthers DEF FlightInv, tables
  <1>6. CASE CommitDelete(d)
    <2>1. /\ pc[d] = "committing" /\ pc'[d] = "done" /\ bookings' = bookings
          /\ flights' = [flights EXCEPT ![target[d]] = [@ EXCEPT !.status = "absent"]]
      BY <1>1, <1>6 DEF CommitDelete, Commit, Goto, TypeOK, DatabaseTypeOK
    <2>2. \A f \in Flights : f # target[d] => flights'[f] = flights[f]
      BY <2>1 DEF TypeOK, DatabaseTypeOK
    <2>3. flightLock[target[d]] = d /\ flightShare[target[d]] = {} /\ BookingsOn(target[d]) = {}
      BY <1>4, <2>1 DEF HoldsFlight
    <2>4. \A f \in Flights : flightShare'[f] \ {d} = flightShare[f] \ {d}
      BY <1>2 DEF Frame
    <2>5. ASSUME NEW b \in Buyers PROVE PendingUnique(b)' /\ SharesFlight(b)' /\ KeepsFlight(b)'
      <3>1. \A x \in Buyers : pc'[x] = pc[x] /\ drawn'[x] = drawn[x]
        BY <1>1, <1>2 DEF Frame, Procs
      <3>2. PendingUnique(b)'
        BY <2>1, <3>1 DEF FlightInv, PendingUnique, ReferencePending, ReferenceTaken, Inserted
      <3>3. order[b].flight \in Flights /\ order' = order /\ SharesFlight(b) /\ KeepsFlight(b)
        BY <1>2, OrderType DEF Frame, TypeOK, BookingsTypeOK, FlightInv
      <3>4. SharesFlight(b)'
        BY <1>1, <2>2, <2>3, <2>4, <3>1, <3>3 DEF SharesFlight
      <3>5. KeepsFlight(b)'
        BY <2>1, <2>2, <2>3, <3>3 DEF KeepsFlight, BookingsOn
      <3>6. QED
        BY <3>2, <3>4, <3>5
    <2>6. ASSUME NEW x \in Deleters PROVE HoldsFlight(x)'
      <3>1. CASE x = d
        BY <2>1, <3>1 DEF HoldsFlight
      <3>2. CASE x # d
        <4>1. /\ x \in Procs /\ x # Nobody /\ target[x] \in Flights /\ HoldsFlight(x)
          BY SchemaAssumption DEF Procs, TypeOK, FlightsTypeOK, FlightInv
        <4>2. /\ pc'[x] = pc[x] /\ target' = target
              /\ flightLock[target[x]] = x => flightLock'[target[x]] = x
              /\ flightShare'[target[x]] \ {d} = flightShare[target[x]] \ {d}
          BY <1>2, <3>2, <4>1 DEF Frame
        <4>3. d \notin flightShare'[target[x]]
          BY <1>1, <4>1 DEF TypeOK, DatabaseTypeOK
        <4>4. QED
          BY <2>1, <4>1, <4>2, <4>3 DEF HoldsFlight, BookingsOn
      <3>3. QED
        BY <3>1, <3>2
    <2>7. ReferencesUnique'
      BY <2>1 DEF FlightInv, ReferencesUnique
    <2>8. QED
      BY <2>5, <2>6, <2>7 DEF FlightInv
  <1>7. QED
    BY <1>2, <1>5, <1>6

LEMMA AbortFlight ==
    ASSUME TypeOK, TypeOK', FlightInv, NEW p \in Procs, NEW status, Abort(p, status),
           UNCHANGED <<bookingVars, flightVars>>
    PROVE  FlightInv'
  <1>1. Frame(p) /\ UNCHANGED tables /\ pc'[p] = "done"
    BY AbortFrame DEF Abort, Goto, TypeOK, DatabaseTypeOK
  <1>2. \A f \in Flights : flightShare'[f] = flightShare[f] \ {p}
    BY DEF Abort, Unlock
  <1>3. ASSUME NEW b \in Buyers PROVE PendingUnique(b)' /\ SharesFlight(b)' /\ KeepsFlight(b)'
    <2>1. \A x \in Buyers : x # p => pc'[x] = pc[x] /\ drawn'[x] = drawn[x]
      BY <1>1 DEF Frame, Procs
    <2>2. PendingUnique(b)'
      BY <1>1, <2>1
         DEF FlightInv, PendingUnique, ReferencePending, ReferenceTaken, Inserted, tables
    <2>3. order[b].flight \in Flights /\ order' = order
      BY <1>1, OrderType DEF Frame, TypeOK, BookingsTypeOK
    <2>4. SharesFlight(b)'
      BY <1>1, <1>2, <2>1, <2>3 DEF FlightInv, SharesFlight, tables
    <2>5. KeepsFlight(b)'
      BY <1>1 DEF FlightInv, KeepsFlight, tables
    <2>6. QED
      BY <2>2, <2>4, <2>5
  <1>4. ASSUME NEW d \in Deleters PROVE HoldsFlight(d)'
    <2>1. d \in Procs /\ d # Nobody /\ target[d] \in Flights /\ HoldsFlight(d)
      BY SchemaAssumption DEF Procs, TypeOK, FlightsTypeOK, FlightInv
    <2>2. CASE d = p
      BY <1>1, <2>2 DEF HoldsFlight
    <2>3. CASE d # p
      BY <1>1, <1>2, <2>1, <2>3 DEF Frame, HoldsFlight, BookingsOn, tables
    <2>4. QED
      BY <2>2, <2>3
  <1>5. ReferencesUnique'
    BY <1>1 DEF FlightInv, ReferencesUnique, tables
  <1>6. QED
    BY <1>3, <1>4, <1>5 DEF FlightInv

LEMMA FlightInit == Init => FlightInv
  <1> SUFFICES ASSUME Init PROVE FlightInv
    OBVIOUS
  <1> USE DEF Init, DatabaseInit
  <1>1. ASSUME NEW b \in Buyers PROVE PendingUnique(b) /\ SharesFlight(b) /\ KeepsFlight(b)
    BY DEF PendingUnique, SharesFlight, KeepsFlight, NoBooking, Procs, Inserted
  <1>2. ASSUME NEW d \in Deleters PROVE HoldsFlight(d)
    BY DEF HoldsFlight, Procs
  <1>3. ReferencesUnique
    BY DEF ReferencesUnique, NoBooking
  <1>4. QED
    BY <1>1, <1>2, <1>3 DEF FlightInv

LEMMA FlightStep == TypeOK /\ TypeOK' /\ SaleInv /\ FlightInv /\ [Next]_vars => FlightInv'
  <1> SUFFICES ASSUME TypeOK, TypeOK', SaleInv, FlightInv, [Next]_vars PROVE FlightInv'
    OBVIOUS
  <1>1. ASSUME NEW b \in Buyers, BuyStep(b) PROVE FlightInv'
    BY <1>1, BuyFlight
  <1>2. ASSUME NEW c \in Cancellers, CancelStep(c) PROVE FlightInv'
    BY <1>2, CancelFlight
  <1>3. ASSUME NEW u \in Updaters, UpdateStep(u) PROVE FlightInv'
    BY <1>3, UpdateFlight
  <1>4. ASSUME NEW d \in Deleters, DeleteStep(d) PROVE FlightInv'
    BY <1>4, DeleteFlight
  <1>5. ASSUME NEW p \in MayFail, Fail(p) PROVE FlightInv'
    BY <1>5, AbortFlight, FaultsAssumption DEF Fail
  <1>6. ASSUME NEW p \in Procs, DeadlockVictim(p) PROVE FlightInv'
    BY <1>6, AbortFlight DEF DeadlockVictim
  <1>7. CASE UNCHANGED vars
    BY <1>7 DEF vars, tables, locks, bookingVars, flightVars, FlightInv, PendingUnique,
                SharesFlight, KeepsFlight, HoldsFlight, ReferencesUnique, ReferencePending,
                ReferenceTaken, BookingsOn
  <1>8. QED
    BY <1>1, <1>2, <1>3, <1>4, <1>5, <1>6, <1>7 DEF Next, Finished

LEMMA FlightInvariance == Spec => []FlightInv
  <1>1. TypeOK /\ SaleInv /\ FlightInv /\ TypeOK' /\ [Next]_vars => FlightInv'
    BY FlightStep
  <1>2. QED
    BY <1>1, TypeCorrect, SaleInit, SaleStep, FlightInit, PTL DEF Spec

(* Two bookings never share a reference: the unique index sees the pending *)
(* INSERT of the one that drew it first, and the loop draws again.         *)
THEOREM ReferencesAlwaysUnique == Spec => []ReferencesUnique
  <1>1. FlightInv => ReferencesUnique
    BY DEF FlightInv
  <1>2. QED
    BY <1>1, FlightInvariance, PTL

(* No flight with a booking is ever deleted, at whatever point of the      *)
(* deletion the booking is made.                                           *)
THEOREM BookingsAlwaysKeepFlight == Spec => []BookingsKeepFlight
  <1>1. FlightInv => BookingsKeepFlight
    BY DEF FlightInv, KeepsFlight, BookingsKeepFlight
  <1>2. QED
    BY <1>1, FlightInvariance, PTL

-----------------------------------------------------------------------------
(* The seats of a flight are in their table as long as the flight is.      *)

(* A deleter has every seat of its flight on its list or locked, and locks *)
(* no other.                                                               *)
HoldsCabin(d) ==
    /\ pc[d] \in {"emptying", "restricting", "committing"} =>
          \A s \in SeatsOf(target[d]) :
              \/ seats[s].status = "absent"
              \/ pc[d] = "emptying" /\ s \in todo[d]
              \/ seatLock[s] = d
    /\ pc[d] = "emptying" => todo[d] \subseteq SeatsOf(target[d])
    /\ \A s \in Seats : seatLock[s] = d => FlightOf[s] = target[d]

(* A canceller locks, and is about to lock, only seats of its booking's     *)
(* flight.                                                                 *)
KeepsToFlight(c) ==
    \A s \in Seats :
        seatLock[s] = c \/ (pc[c] = "freeing" /\ s \in todo[c]) =>
            /\ pc[c] \in {"freeing", "committing"}
            /\ FlightOf[s] = bookings[revoke[c]].flight

(* An updater that has a column to write holds the row it writes, and the   *)
(* row is there.                                                           *)
HoldsRow(u) ==
    pc[u] = "committing" =>
        \/ ~NewFare(u) /\ ~NewStatus(u)
        \/ /\ flightLock[change[u].flight] = u
           /\ flights[change[u].flight].status # "absent"

CabinInv ==
    /\ CabinGoesWithFlight
    /\ \A d \in Deleters : HoldsCabin(d)
    /\ \A c \in Cancellers : KeepsToFlight(c)
    /\ \A u \in Updaters : HoldsRow(u)

SystemInv == TypeOK /\ SaleInv /\ FlightInv /\ CabinInv

(* Which rows there are, as everyone but a deleter leaves them.             *)
SameRows ==
    /\ \A s \in Seats : seats'[s].status = "absent" <=> seats[s].status = "absent"
    /\ \A f \in Flights : flights'[f].status = "absent" <=> flights[f].status = "absent"
    /\ \A b \in Buyers : bookings[b].status # "absent" => bookings'[b].flight = bookings[b].flight

(* Nobody but a deleter adds or removes a row: a sale has its flight, and   *)
(* with it the seat, share-locked, a cancellation writes seats of a flight  *)
(* that has a booking, and an update holds the row whose status it writes. *)
LEMMA BuySameRows ==
    ASSUME SystemInv, NEW b \in Buyers, BuyStep(b)
    PROVE  SameRows
  <1> USE DEF SystemInv
  <1>1. pc[b] # "done" /\ (CommitSale(b) \/ UNCHANGED tables)
    BY BuyFrame
  <1>2. CASE CommitSale(b)
    <2>1. chosen[b] \in SeatsOf(order[b].flight) /\ flights[order[b].flight].status # "absent"
      BY <1>2 DEF CommitSale, SaleInv, ChoosesOnFlight, FlightInv, SharesFlight
    <2>2. chosen[b] \in Seats /\ seats[chosen[b]].status # "absent"
      BY <2>1 DEF SeatsOf, CabinInv, CabinGoesWithFlight
    <2>3. seats' = [seats EXCEPT ![chosen[b]] = [status |-> "booked", booking |-> b]]
          /\ flights' = flights /\ \A x \in Buyers : x # b => bookings'[x] = bookings[x]
      BY <1>2 DEF CommitSale, TypeOK, DatabaseTypeOK
    <2>4. bookings[b].status = "absent"
      BY <1>1 DEF SaleInv, StoredWhenDone
    <2>5. QED
      BY <2>2, <2>3, <2>4 DEF SameRows, TypeOK, DatabaseTypeOK
  <1>3. QED
    BY <1>1, <1>2 DEF SameRows, tables

LEMMA CancelSameRows ==
    ASSUME SystemInv, NEW c \in Cancellers, CancelStep(c)
    PROVE  SameRows
  <1> USE DEF SystemInv
  <1>1. CommitCancel(c) \/ UNCHANGED tables
    BY CancelFrame
  <1>2. CASE CommitCancel(c)
    <2>1. revoke[c] \in Buyers /\ KeepsToFlight(c) /\ HoldsBooking(c)
      BY DEF TypeOK, BookingsTypeOK, CabinInv, SaleInv
    <2>2. pc[c] = "committing" /\ bookings[revoke[c]].status # "absent"
      BY <1>2, <2>1 DEF CommitCancel, HoldsBooking
    <2>3. flights[bookings[revoke[c]].flight].status # "absent"
      BY <2>1, <2>2 DEF FlightInv, KeepsFlight
    <2>4. \A s \in Seats : seatLock[s] = c => seats[s].status # "absent"
      BY <2>1, <2>3 DEF KeepsToFlight, CabinInv, CabinGoesWithFlight
    <2>5. \A s \in Seats : seats'[s].status = "absent" <=> seats[s].status = "absent"
      BY <1>2, <2>4 DEF CommitCancel, FreeSeat
    <2>6. \A x \in Buyers : bookings'[x].flight = bookings[x].flight
      BY <1>2 DEF CommitCancel, TypeOK, DatabaseTypeOK, BookingRow
    <2>7. QED
      BY <1>2, <2>5, <2>6 DEF SameRows, CommitCancel
  <1>3. QED
    BY <1>1, <1>2 DEF SameRows, tables

LEMMA UpdateSameRows ==
    ASSUME SystemInv, NEW u \in Updaters, UpdateStep(u)
    PROVE  SameRows
  <1> USE DEF SystemInv
  <1>1. CommitPatch(u) \/ UNCHANGED tables
    BY UpdateFrame
  <1>2. CASE CommitPatch(u)
    <2>1. change[u].status # "absent" /\ change[u].flight \in Flights /\ HoldsRow(u)
      BY DEF TypeOK, FlightsTypeOK, Changes, FlightStatuses, CabinInv
    <2>2. \A f \in Flights : flights'[f].status = "absent" <=> flights[f].status = "absent"
      <3>1. CASE ~NewStatus(u)
        BY <1>2, <2>1, <3>1 DEF CommitPatch, TypeOK, DatabaseTypeOK
      <3>2. CASE NewStatus(u)
        <4>1. flights[change[u].flight].status # "absent"
          BY <1>2, <2>1, <3>2 DEF HoldsRow, CommitPatch
        <4>2. QED
          BY <1>2, <2>1, <3>2, <4>1 DEF CommitPatch, TypeOK, DatabaseTypeOK
      <3>3. QED
        BY <3>1, <3>2
    <2>3. QED
      BY <1>2, <2>2 DEF SameRows, CommitPatch
  <1>3. QED
    BY <1>1, <1>2 DEF SameRows, tables

LEMMA CabinOthers ==
    ASSUME SystemInv, NEW p \in Procs, Frame(p),
           \A s \in Seats : seats[s].status = "absent" => seats'[s].status = "absent",
           \A b \in Buyers : bookings[b].status # "absent" =>
               bookings'[b].flight = bookings[b].flight,
           \A f \in Flights : flightLock[f] \in Updaters \ {p} =>
               (flights'[f].status = "absent" => flights[f].status = "absent")
    PROVE  /\ \A d \in Deleters : d # p => HoldsCabin(d)'
           /\ \A c \in Cancellers : c # p => KeepsToFlight(c)'
           /\ \A u \in Updaters : u # p => HoldsRow(u)'
  <1> USE DEF SystemInv
  <1>1. ASSUME NEW d \in Deleters, d # p PROVE HoldsCabin(d)'
    <2>1. d \in Procs /\ d # Nobody /\ HoldsCabin(d)
      BY SchemaAssumption DEF Procs, CabinInv
    <2>2. \A s \in Seats : seatLock'[s] = d <=> seatLock[s] = d
      BY <1>1, <2>1 DEF Frame
    <2>3. QED
      BY <1>1, <2>1, <2>2 DEF HoldsCabin, Frame, SeatsOf
  <1>2. ASSUME NEW c \in Cancellers, c # p PROVE KeepsToFlight(c)'
    <2>1. c \in Procs /\ c # Nobody /\ KeepsToFlight(c) /\ HoldsBooking(c) /\ revoke[c] \in Buyers
      BY SchemaAssumption DEF Procs, CabinInv, SaleInv, TypeOK, BookingsTypeOK
    <2>2. \A s \in Seats : seatLock'[s] = c <=> seatLock[s] = c
      BY <1>2, <2>1 DEF Frame
    <2>3. pc'[c] = pc[c] /\ todo'[c] = todo[c] /\ revoke' = revoke
      BY <1>2, <2>1 DEF Frame
    <2>4. pc[c] \in {"freeing", "committing"} =>
              bookings'[revoke[c]].flight = bookings[revoke[c]].flight
      BY <2>1 DEF HoldsBooking
    <2>5. QED
      BY <2>1, <2>2, <2>3, <2>4 DEF KeepsToFlight
  <1>3. ASSUME NEW u \in Updaters, u # p PROVE HoldsRow(u)'
    <2>1. u \in Procs /\ u # Nobody /\ HoldsRow(u) /\ change[u].flight \in Flights
      BY SchemaAssumption DEF Procs, CabinInv, TypeOK, FlightsTypeOK, Changes
    <2>2. QED
      BY <1>3, <2>1 DEF HoldsRow, Frame, NewFare, NewStatus
  <1>4. QED
    BY <1>1, <1>2, <1>3

LEMMA SameRowsKeepCabin ==
    ASSUME SystemInv, NEW p \in Procs, Frame(p), SameRows
    PROVE  /\ CabinGoesWithFlight'
           /\ \A d \in Deleters : d # p => HoldsCabin(d)'
           /\ \A c \in Cancellers : c # p => KeepsToFlight(c)'
           /\ \A u \in Updaters : u # p => HoldsRow(u)'
  <1>1. CabinGoesWithFlight'
    BY SchemaAssumption DEF SystemInv, CabinInv, CabinGoesWithFlight, SameRows
  <1>2. QED
    BY <1>1, CabinOthers DEF SameRows

LEMMA BuyCabin ==
    ASSUME SystemInv, NEW b \in Buyers, BuyStep(b)
    PROVE  CabinInv'
  <1> USE DEF SystemInv
  <1>1. b \in Procs /\ b \notin Deleters /\ b \notin Cancellers /\ b \notin Updaters
    BY RequestsAreDistinct DEF Procs
  <1>2. Frame(b) /\ pc[b] # "done" /\ (CommitSale(b) \/ UNCHANGED tables)
    BY BuyFrame
  <1>3. SameRows
    BY BuySameRows
  <1>4. QED
    BY <1>1, <1>2, <1>3, SameRowsKeepCabin DEF CabinInv

LEMMA CancelCabin ==
    ASSUME SystemInv, NEW c \in Cancellers, CancelStep(c)
    PROVE  CabinInv'
  <1> USE DEF SystemInv
  <1>1. /\ c \in Procs /\ c \notin Deleters /\ c \notin Buyers /\ c \notin Updaters /\ c # Nobody
        /\ revoke[c] \in Buyers /\ KeepsToFlight(c) /\ HoldsBooking(c)
    BY RequestsAreDistinct, SchemaAssumption
    DEF Procs, TypeOK, BookingsTypeOK, CabinInv, SaleInv
  <1>2. Frame(c) /\ (CommitCancel(c) \/ UNCHANGED tables)
    BY CancelFrame
  <1>3. SameRows
    BY CancelSameRows
  <1>4. KeepsToFlight(c)'
    <2> seatLock \in [Seats -> Buyers \cup Cancellers \cup Deleters \cup {Nobody}]
        /\ pc \in [Procs -> Labels] /\ todo \in [Procs -> SUBSET Seats]
      BY DEF TypeOK, DatabaseTypeOK
    <2> USE <1>1 DEF Goto, tables, locks, bookingVars
    <2>1. CASE BookingNotFound(c) \/ AlreadyCancelled(c)
      BY <2>1 DEF BookingNotFound, AlreadyCancelled, Refuse, Unlock, Released, KeepsToFlight
    <2>2. CASE LockBooking(c)
      BY <2>2 DEF LockBooking, KeepsToFlight
    <2>3. CASE LoadSeats(c)
      <3>1. \A s \in Seats : seats[s].booking = revoke[c] =>
                FlightOf[s] = bookings[revoke[c]].flight
        BY DEF SaleInv, NamesItsSale
      <3>2. QED
        BY <2>3, <3>1 DEF LoadSeats, KeepsToFlight
    <2>4. CASE FreeSeatRow(c)
      BY <2>4 DEF FreeSeatRow, KeepsToFlight
    <2>5. CASE SendCancelled(c)
      BY <2>5 DEF SendCancelled, KeepsToFlight
    <2>6. CASE CommitCancel(c)
      BY <2>6 DEF CommitCancel, Commit, Unlock, Released, KeepsToFlight
    <2>7. QED
      BY <2>1, <2>2, <2>3, <2>4, <2>5, <2>6 DEF CancelStep, Cancel
  <1>5. QED
    BY <1>1, <1>2, <1>3, <1>4, SameRowsKeepCabin DEF CabinInv

LEMMA UpdateCabin ==
    ASSUME SystemInv, NEW u \in Updaters, UpdateStep(u)
    PROVE  CabinInv'
  <1> USE DEF SystemInv
  <1>1. /\ u \in Procs /\ u \notin Deleters /\ u \notin Buyers /\ u \notin Cancellers
        /\ change[u].flight \in Flights /\ HoldsRow(u)
    BY RequestsAreDistinct DEF Procs, TypeOK, FlightsTypeOK, Changes, CabinInv
  <1>2. Frame(u) /\ (CommitPatch(u) \/ UNCHANGED tables)
    BY UpdateFrame
  <1>3. SameRows
    BY UpdateSameRows
  <1>4. HoldsRow(u)'
    <2> /\ flightLock \in [Flights -> Updaters \cup Deleters \cup {Nobody}]
        /\ pc \in [Procs -> Labels]
      BY DEF TypeOK, DatabaseTypeOK
    <2> USE <1>1 DEF Goto, tables, locks, flightVars, HoldsRow, NewFare, NewStatus
    <2>1. CASE ReadForUpdate(u)
      BY <2>1 DEF ReadForUpdate
    <2>2. CASE UpdateNotFound(u) \/ CannotReprice(u) \/ InvalidStatus(u) \/ FareTooSmall(u)
               \/ FlightGone(u)
      BY <2>2 DEF UpdateNotFound, CannotReprice, InvalidStatus, FareTooSmall, FlightGone, Refuse
    <2>3. CASE CountSold(u)
      BY <2>3 DEF CountSold
    <2>4. CASE PatchFlight(u)
      BY <2>4 DEF PatchFlight
    <2>5. CASE PatchNothing(u)
      BY <2>5 DEF PatchNothing
    <2>6. CASE CommitPatch(u)
      BY <2>6 DEF CommitPatch, Commit
    <2>7. QED
      BY <2>1, <2>2, <2>3, <2>4, <2>5, <2>6 DEF UpdateStep, Update
  <1>5. QED
    BY <1>1, <1>2, <1>3, <1>4, SameRowsKeepCabin DEF CabinInv

LEMMA DeleteCabin ==
    ASSUME SystemInv, NEW d \in Deleters, DeleteStep(d)
    PROVE  CabinInv'
  <1> USE DEF SystemInv
  <1>1. /\ d \in Procs /\ d \notin Updaters /\ d \notin Buyers /\ d \notin Cancellers /\ d # Nobody
        /\ target[d] \in Flights /\ HoldsCabin(d)
    BY RequestsAreDistinct, SchemaAssumption DEF Procs, TypeOK, FlightsTypeOK, CabinInv
  <1>2. Frame(d) /\ (CommitDelete(d) \/ UNCHANGED tables)
    BY DeleteFrame
  <1> /\ seatLock \in [Seats -> Buyers \cup Cancellers \cup Deleters \cup {Nobody}]
      /\ pc \in [Procs -> Labels] /\ todo \in [Procs -> SUBSET Seats]
    BY DEF TypeOK, DatabaseTypeOK
  <1>3. CASE UNCHANGED tables
    <2>1. HoldsCabin(d)'
      <3> USE <1>1, <1>3 DEF Goto, tables, locks, flightVars, HoldsCabin, SeatsOf
      <3>1. CASE DeleteNotFound(d) \/ CannotDelete(d) \/ Restricted(d)
        BY <3>1 DEF DeleteNotFound, CannotDelete, Restricted, Refuse, Unlock, Released
      <3>2. CASE FindForDelete(d)
        BY <3>2 DEF FindForDelete
      <3>3. CASE LoadCabin(d)
        BY <3>3 DEF LoadCabin
      <3>4. CASE DeleteSeat(d)
        BY <3>4 DEF DeleteSeat
      <3>5. CASE DeleteRow(d)
        BY <3>5 DEF DeleteRow
      <3>6. CASE SendDeleted(d)
        BY <3>6 DEF SendDeleted
      <3>7. CASE CommitDelete(d)
        BY <3>7 DEF CommitDelete, Commit, Unlock, Released
      <3>8. QED
        BY <3>1, <3>2, <3>3, <3>4, <3>5, <3>6, <3>7 DEF DeleteStep, Delete
    <2>2. SameRows
      BY <1>3 DEF SameRows, tables
    <2>3. QED
      BY <1>1, <1>2, <2>1, <2>2, SameRowsKeepCabin DEF CabinInv
  <1>4. CASE CommitDelete(d)
    <2>1. pc[d] = "committing" /\ pc'[d] = "done" /\ target' = target /\ bookings' = bookings
      BY <1>1, <1>4 DEF CommitDelete, Commit, Goto, flightVars
    <2>2. \A s \in Seats : seats'[s].status = "absent" <=>
              seats[s].status = "absent" \/ FlightOf[s] = target[d]
      BY <1>1, <1>4, <2>1 DEF CommitDelete, HoldsCabin, SeatsOf
    <2>3. \A f \in Flights : flights'[f].status = "absent" <=>
              flights[f].status = "absent" \/ f = target[d]
      BY <1>1, <1>4 DEF CommitDelete, TypeOK, DatabaseTypeOK, FlightRow
    <2>4. CabinGoesWithFlight'
      BY <2>2, <2>3, SchemaAssumption DEF CabinInv, CabinGoesWithFlight
    <2>5. HoldsCabin(d)'
      BY <1>1, <1>4, <2>1 DEF HoldsCabin, CommitDelete, Commit, Unlock, Released
    <2>6. flightLock[target[d]] = d
      BY <2>1 DEF FlightInv, HoldsFlight
    <2>7. QED
      BY <1>1, <1>2, <2>1, <2>2, <2>3, <2>4, <2>5, <2>6, CabinOthers DEF CabinInv
  <1>5. QED
    BY <1>2, <1>3, <1>4

LEMMA AbortCabin ==
    ASSUME SystemInv, NEW p \in Procs, NEW status, Abort(p, status),
           UNCHANGED <<bookingVars, flightVars>>
    PROVE  CabinInv'
  <1> USE DEF SystemInv
  <1>1. Frame(p) /\ UNCHANGED tables /\ pc'[p] = "done"
    BY AbortFrame DEF Abort, Goto, TypeOK, DatabaseTypeOK
  <1>2. p # Nobody /\ \A s \in Seats : seatLock'[s] # p
    BY SchemaAssumption DEF Abort, Unlock, Released, TypeOK, DatabaseTypeOK
  <1>3. p \in Deleters => HoldsCabin(p)'
    BY <1>1, <1>2 DEF HoldsCabin
  <1>4. p \in Cancellers => KeepsToFlight(p)'
    BY <1>1, <1>2 DEF KeepsToFlight
  <1>5. p \in Updaters => HoldsRow(p)'
    BY <1>1 DEF HoldsRow
  <1>6. SameRows
    BY <1>1 DEF SameRows, tables
  <1>7. QED
    BY <1>1, <1>3, <1>4, <1>5, <1>6, SameRowsKeepCabin DEF CabinInv

LEMMA CabinInit == Init => CabinInv
  <1> SUFFICES ASSUME Init PROVE CabinInv
    OBVIOUS
  <1> USE DEF Init, DatabaseInit
  <1>1. CabinGoesWithFlight
    BY SchemaAssumption DEF CabinGoesWithFlight, FreeSeat
  <1>2. ASSUME NEW d \in Deleters PROVE HoldsCabin(d)
    BY SchemaAssumption DEF HoldsCabin, Procs
  <1>3. ASSUME NEW c \in Cancellers PROVE KeepsToFlight(c)
    BY SchemaAssumption DEF KeepsToFlight, Procs
  <1>4. ASSUME NEW u \in Updaters PROVE HoldsRow(u)
    BY DEF HoldsRow, Procs
  <1>5. QED
    BY <1>1, <1>2, <1>3, <1>4 DEF CabinInv

LEMMA CabinStep == SystemInv /\ [Next]_vars => CabinInv'
  <1> SUFFICES ASSUME SystemInv, [Next]_vars PROVE CabinInv'
    OBVIOUS
  <1>1. ASSUME NEW b \in Buyers, BuyStep(b) PROVE CabinInv'
    BY <1>1, BuyCabin
  <1>2. ASSUME NEW c \in Cancellers, CancelStep(c) PROVE CabinInv'
    BY <1>2, CancelCabin
  <1>3. ASSUME NEW u \in Updaters, UpdateStep(u) PROVE CabinInv'
    BY <1>3, UpdateCabin
  <1>4. ASSUME NEW d \in Deleters, DeleteStep(d) PROVE CabinInv'
    BY <1>4, DeleteCabin
  <1>5. ASSUME NEW p \in MayFail, Fail(p) PROVE CabinInv'
    BY <1>5, AbortCabin, FaultsAssumption DEF Fail
  <1>6. ASSUME NEW p \in Procs, DeadlockVictim(p) PROVE CabinInv'
    BY <1>6, AbortCabin DEF DeadlockVictim
  <1>7. CASE UNCHANGED vars
    BY <1>7 DEF vars, tables, locks, bookingVars, flightVars, SystemInv, CabinInv,
                CabinGoesWithFlight, HoldsCabin, KeepsToFlight, HoldsRow, NewFare, NewStatus, SeatsOf
  <1>8. QED
    BY <1>1, <1>2, <1>3, <1>4, <1>5, <1>6, <1>7 DEF Next, Finished

LEMMA SystemInvariance == Spec => []SystemInv
  <1>1. SystemInv <=> TypeOK /\ SaleInv /\ FlightInv /\ CabinInv
    BY DEF SystemInv
  <1>2. SystemInv /\ [Next]_vars => CabinInv'
    BY CabinStep
  <1>3. QED
    BY <1>1, <1>2, TypeCorrect, SaleInit, SaleStep, FlightInvariance, CabinInit, PTL DEF Spec

(* A deleted flight leaves no seat behind, and no other flight loses one:  *)
(* nobody brings a row back, since a sale has its flight share-locked, a   *)
(* cancellation keeps to the flight of its booking, which is never deleted, *)
(* and an update holds the row it writes.                                  *)
THEOREM CabinAlwaysGoesWithFlight == Spec => []CabinGoesWithFlight
  <1>1. SystemInv => CabinGoesWithFlight
    BY DEF SystemInv, CabinInv
  <1>2. QED
    BY <1>1, SystemInvariance, PTL

-----------------------------------------------------------------------------
(* What an updater sets stays set.                                         *)

Rivals(u) == {v \in Updaters \ {u} : change[v].flight = change[u].flight}

(* Unless someone else sets it, a field is as the updater has loaded it    *)
(* until it commits, and as it has set it from then on.                    *)
FareStays(u) ==
    (\A v \in Rivals(u) : change[v].fare \notin Fares) =>
        /\ pc[u] \in {"counting", "patching", "committing"} =>
              flights[change[u].flight].fare = loaded[u].fare
        /\ pc[u] = "done" /\ answer[u] = "200" =>
              change[u].fare \in {0, flights[change[u].flight].fare}

StatusStays(u) ==
    (\A v \in Rivals(u) : change[v].status = "unset") =>
        /\ pc[u] \in {"counting", "patching", "committing"} =>
              flights[change[u].flight].status \in {"absent", loaded[u].status}
        /\ pc[u] = "done" /\ answer[u] = "200" =>
              \/ flights[change[u].flight].status = "absent"
              \/ change[u].status \in {"unset", flights[change[u].flight].status}

AnsweredLast(u) ==
    /\ answer[u] = "200" => pc[u] \in {"committing", "done"}
    /\ answer[u] = "200" \/ pc[u] = "committing" => change[u].fare # RoundsToZero

UpdateInv == \A u \in Updaters : FareStays(u) /\ StatusStays(u) /\ AnsweredLast(u)

(* A step of someone else than u leaves the fields it sets to it.          *)
LEMMA OthersLeaveFields ==
    ASSUME TypeOK, UpdateInv, NEW p \in Procs, NEW u \in Updaters, u # p, Frame(p),
           answer'[u] = answer[u],
           \/ UNCHANGED flights
           \/ p \in Updaters /\ CommitPatch(p)
           \/ p \in Deleters /\ CommitDelete(p)
    PROVE  FareStays(u)' /\ StatusStays(u)' /\ AnsweredLast(u)'
  <1> u \in Procs /\ change[u] \in Changes /\ change[u].flight \in Flights
    BY DEF Procs, TypeOK, FlightsTypeOK, Changes
  <1> flights \in [Flights -> FlightRow]
    BY DEF TypeOK, DatabaseTypeOK
  <1>1. /\ pc'[u] = pc[u] /\ loaded'[u] = loaded[u] /\ change' = change
        /\ FareStays(u) /\ StatusStays(u) /\ AnsweredLast(u)
    BY DEF Frame, UpdateInv
  <1>2. CASE UNCHANGED flights
    BY <1>1, <1>2 DEF FareStays, StatusStays, AnsweredLast, Rivals
  <1>3. CASE p \in Updaters /\ CommitPatch(p)
    <2>1. CASE change[p].flight # change[u].flight
      <3>1. flights'[change[u].flight] = flights[change[u].flight]
        BY <1>3, <2>1 DEF CommitPatch
      <3>2. QED
        BY <1>1, <3>1 DEF FareStays, StatusStays, AnsweredLast, Rivals
    <2>2. CASE change[p].flight = change[u].flight
      <3>1. p \in Rivals(u)
        BY <1>3, <2>2 DEF Rivals
      <3>2. /\ change[p].fare \notin Fares =>
                 flights'[change[u].flight].fare = flights[change[u].flight].fare
            /\ change[p].status = "unset" =>
                 flights'[change[u].flight].status = flights[change[u].flight].status
        BY <1>3, <2>2 DEF CommitPatch, NewFare, NewStatus, FlightRow
      <3>3. QED
        BY <1>1, <3>1, <3>2 DEF FareStays, StatusStays, AnsweredLast, Rivals
    <2>3. QED
      BY <2>1, <2>2
  <1>4. CASE p \in Deleters /\ CommitDelete(p)
    <2>1. /\ flights'[change[u].flight].fare = flights[change[u].flight].fare
          /\ flights'[change[u].flight].status \in {"absent", flights[change[u].flight].status}
      BY <1>4 DEF CommitDelete, FlightRow
    <2>2. QED
      BY <1>1, <2>1 DEF FareStays, StatusStays, AnsweredLast, Rivals
  <1>5. QED
    BY <1>2, <1>3, <1>4

LEMMA UpdaterSetsFields ==
    ASSUME TypeOK, UpdateInv, NEW u \in Updaters, UpdateStep(u)
    PROVE  FareStays(u)' /\ StatusStays(u)' /\ AnsweredLast(u)'
  <1> /\ u \in Procs /\ change[u] \in Changes /\ change[u].flight \in Flights
      /\ u \in Buyers \cup Updaters
      /\ FareStays(u) /\ StatusStays(u) /\ AnsweredLast(u)
    BY DEF Procs, TypeOK, FlightsTypeOK, Changes, UpdateInv
  <1> /\ flights \in [Flights -> FlightRow] /\ pc \in [Procs -> Labels]
      /\ answer \in [Procs -> Answers] /\ loaded \in [Buyers \cup Updaters -> FlightRow]
    BY DEF TypeOK, DatabaseTypeOK
  <1> USE DEF FareStays, StatusStays, AnsweredLast, Rivals, Goto, Send, tables, flightVars
  <1>1. CASE ReadForUpdate(u)
    BY <1>1 DEF ReadForUpdate
  <1>2. CASE UpdateNotFound(u) \/ CannotReprice(u) \/ InvalidStatus(u) \/ FareTooSmall(u)
             \/ FlightGone(u)
    BY <1>2 DEF UpdateNotFound, CannotReprice, InvalidStatus, FareTooSmall, FlightGone, Refuse
  <1>3. CASE CountSold(u)
    BY <1>3 DEF CountSold
  <1>4. CASE PatchFlight(u)
    BY <1>4 DEF PatchFlight, Storable
  <1>5. CASE PatchNothing(u)
    BY <1>5 DEF PatchNothing, Storable
  <1>6. CASE CommitPatch(u)
    <2>1. /\ pc'[u] = "done" /\ answer' = answer /\ change' = change
          /\ flights' = [flights EXCEPT ![change[u].flight] =
                [status |-> IF NewStatus(u) THEN change[u].status ELSE @.status,
                 fare   |-> IF NewFare(u) THEN change[u].fare ELSE @.fare]]
          /\ pc[u] = "committing"
      BY <1>6 DEF CommitPatch, Commit
    <2>2. FareStays(u)'
      BY <2>1 DEF NewFare, Storable, Changes, FlightRow
    <2>3. StatusStays(u)'
      BY <2>1 DEF NewStatus
    <2>4. QED
      BY <2>1, <2>2, <2>3
  <1>7. QED
    BY <1>1, <1>2, <1>3, <1>4, <1>5, <1>6 DEF UpdateStep, Update

(* An updater is the victim of no lock cycle once it has its answer, and   *)
(* only the connections of MayFail are lost.                               *)
LEMMA AbortLeavesFields ==
    ASSUME TypeOK, UpdateInv, MayFail \cap Updaters = {}, NEW p \in Procs,
           (p \in MayFail /\ Fail(p)) \/ DeadlockVictim(p)
    PROVE  UpdateInv'
  <1> /\ answer \in [Procs -> Answers] /\ pc \in [Procs -> Labels]
      /\ flights \in [Flights -> FlightRow]
    BY DEF TypeOK, DatabaseTypeOK
  <1>1. Frame(p) /\ UNCHANGED tables /\ pc'[p] = "done"
    BY AbortFrame DEF Fail, DeadlockVictim, Abort, Goto, TypeOK
  <1>2. \A q \in Procs : q # p => answer'[q] = answer[q]
    BY DEF Fail, DeadlockVictim, Abort
  <1>3. ASSUME NEW u \in Updaters, u # p
        PROVE  FareStays(u)' /\ StatusStays(u)' /\ AnsweredLast(u)'
    BY <1>1, <1>2, <1>3, OthersLeaveFields DEF Procs, tables
  <1>4. ASSUME p \in Updaters
        PROVE  FareStays(p)' /\ StatusStays(p)' /\ AnsweredLast(p)'
    <2>1. DeadlockVictim(p) /\ WaitsFor(p) # {}
      BY <1>4 DEF DeadlockVictim, LockCycle
    <2>2. pc[p] = "patching"
      BY <1>4, <2>1, RequestsAreDistinct DEF WaitsFor, UpdaterWaitsFor
    <2>3. answer[p] # "200"
      BY <1>4, <2>2 DEF UpdateInv, AnsweredLast
    <2>4. answer'[p] # "200"
      BY <2>1, <2>3 DEF DeadlockVictim, Abort
    <2>5. QED
      BY <1>1, <2>4 DEF FareStays, StatusStays, AnsweredLast
  <1>5. QED
    BY <1>3, <1>4 DEF UpdateInv

LEMMA UpdateInvStep ==
    ASSUME TypeOK, UpdateInv, MayFail \cap Updaters = {}, [Next]_vars
    PROVE  UpdateInv'
  <1> /\ answer \in [Procs -> Answers] /\ pc \in [Procs -> Labels]
    BY DEF TypeOK, DatabaseTypeOK
  <1>1. ASSUME NEW b \in Buyers, BuyStep(b) PROVE UpdateInv'
    <2>1. b \in Procs /\ b \notin Updaters
      BY RequestsAreDistinct DEF Procs
    <2>2. Frame(b) /\ flights' = flights
      BY <1>1, BuyFrame DEF CommitSale, tables
    <2>3. \A u \in Updaters : answer'[u] = answer[u]
      BY <1>1, <2>1
      DEF BuyStep, Buy, ReadFlight, FlightNotBookable, UnknownFareClass, SearchSeats, LockSeat,
          PassSeat, SkipLockedSeat, SeatNotAvailable, DrawReference, InsertBooking, CheckFlight,
          RetryReference, GiveUpReference, MarkSeat, CommitSale, Refuse, Commit, Send, Procs
    <2>4. QED
      BY <2>1, <2>2, <2>3, OthersLeaveFields DEF UpdateInv
  <1>2. ASSUME NEW c \in Cancellers, CancelStep(c) PROVE UpdateInv'
    <2>1. c \in Procs /\ c \notin Updaters
      BY RequestsAreDistinct DEF Procs
    <2>2. Frame(c) /\ flights' = flights
      BY <1>2, CancelFrame DEF CommitCancel, tables
    <2>3. \A u \in Updaters : answer'[u] = answer[u]
      BY <1>2, <2>1
      DEF CancelStep, Cancel, BookingNotFound, LockBooking, LoadSeats, AlreadyCancelled,
          FreeSeatRow, SendCancelled, CommitCancel, Refuse, Commit, Send, Procs
    <2>4. QED
      BY <2>1, <2>2, <2>3, OthersLeaveFields DEF UpdateInv
  <1>3. ASSUME NEW d \in Deleters, DeleteStep(d) PROVE UpdateInv'
    <2>1. d \in Procs /\ d \notin Updaters
      BY RequestsAreDistinct DEF Procs
    <2>2. Frame(d) /\ (CommitDelete(d) \/ UNCHANGED flights)
      BY <1>3, DeleteFrame DEF tables
    <2>3. \A u \in Updaters : answer'[u] = answer[u]
      BY <1>3, <2>1
      DEF DeleteStep, Delete, FindForDelete, DeleteNotFound, LoadCabin, CannotDelete, DeleteSeat,
          DeleteRow, Restricted, SendDeleted, CommitDelete, Refuse, Commit, Send, Procs
    <2>4. QED
      BY <2>1, <2>2, <2>3, OthersLeaveFields DEF UpdateInv
  <1>4. ASSUME NEW v \in Updaters, UpdateStep(v) PROVE UpdateInv'
    <2>1. v \in Procs
      BY DEF Procs
    <2>2. Frame(v) /\ (CommitPatch(v) \/ UNCHANGED flights)
      BY <1>4, UpdateFrame DEF tables
    <2>3. \A u \in Updaters : u # v => answer'[u] = answer[u]
      BY <1>4, <2>1
      DEF UpdateStep, Update, ReadForUpdate, UpdateNotFound, CountSold, CannotReprice,
          InvalidStatus, FareTooSmall, PatchFlight, PatchNothing, FlightGone, CommitPatch, Refuse,
          Commit, Send,
          Procs
    <2>4. QED
      BY <1>4, <2>1, <2>2, <2>3, OthersLeaveFields, UpdaterSetsFields DEF UpdateInv
  <1>5. ASSUME NEW p \in Procs, (p \in MayFail /\ Fail(p)) \/ DeadlockVictim(p) PROVE UpdateInv'
    BY <1>5, AbortLeavesFields
  <1>6. CASE UNCHANGED vars
    BY <1>6 DEF vars, tables, flightVars, UpdateInv, FareStays, StatusStays, AnsweredLast, Rivals
  <1>7. QED
    BY <1>1, <1>2, <1>3, <1>4, <1>5, <1>6, FaultsAssumption DEF Next, Finished

(* An accepted change to one field of a flight is not undone by a request  *)
(* that changes the other, as long as the updates themselves are not lost: *)
(* an UPDATE sets only columns whose value has changed.                    *)
THEOREM NoUpdateIsLost ==
    ASSUME MayFail \cap Updaters = {}
    PROVE  Spec => []NoLostUpdate
  <1>1. Init => UpdateInv
    BY DEF Init, DatabaseInit, UpdateInv, FareStays, StatusStays, AnsweredLast, Procs
  <1>2. TypeOK /\ UpdateInv /\ [Next]_vars => UpdateInv'
    BY UpdateInvStep
  <1>3. TypeOK /\ UpdateInv => NoLostUpdate
    <2> SUFFICES ASSUME TypeOK, UpdateInv, NEW u \in Updaters, pc[u] = "done", answer[u] = "200",
                        flights[change[u].flight].status # "absent"
                 PROVE  /\ \/ change[u].fare \in {0, flights[change[u].flight].fare}
                           \/ \E v \in Rivals(u) : change[v].fare \in Fares
                        /\ \/ change[u].status \in {"unset", flights[change[u].flight].status}
                           \/ \E v \in Rivals(u) : change[v].status # "unset"
      BY DEF NoLostUpdate, Rivals
    <2>1. QED
      BY DEF UpdateInv, FareStays, StatusStays
  <1>4. QED
    BY <1>1, <1>2, <1>3, TypeCorrect, PTL DEF Spec

=============================================================================
