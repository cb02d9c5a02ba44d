----------------------------- MODULE SaleProofs -----------------------------
(***************************************************************************)
(* What BookingSystem promises its passengers as long as no INSERT meets a *)
(* reference that is taken: every confirmed booking holds its seat, the    *)
(* tables change only as SeatSales allows, an ordinary sale is never the   *)
(* victim of a lock cycle, and a passenger is refused only a seat that is  *)
(* taken.  The violation of ConfirmedHoldsSeat shows what a collision      *)
(* does: the rollback of create_booking's retry gives up the lock on the   *)
(* seat, and the sale goes on without it.                                  *)
(***************************************************************************)
EXTENDS BookingProofs, FiniteSetTheorems

(* No INSERT of a booking meets a reference that a stored booking has. *)
NoCollision == \A b \in Buyers : pc[b] = "inserting" => ~ReferenceTaken(drawn[b])

(* No two requests can draw the same reference. *)
DistinctReferences == \A a, b \in Buyers : a # b => RefPool[a] \cap RefPool[b] = {}

-----------------------------------------------------------------------------
(* The inductive invariant: who holds a seat, and what its row says.       *)

Pending == {"drawing", "inserting", "checking", "inserted", "committing"}

(* From the time it has locked a seat a buyer has it, and it is free, unless *)
(* the flight is gone: then the foreign key check makes the sale fail.     *)
HoldsSeat(b) ==
    pc[b] \in Pending =>
        \/ flights[order[b].flight].status = "absent"
        \/ seatLock[chosen[b]] = b /\ seats[chosen[b]].status = "available"

(* A seat that is not booked names nobody, a booking that is not made no    *)
(* flight.                                                                 *)
RowsAgree ==
    /\ \A s \in Seats : seats[s].status # "booked" => seats[s].booking = Nobody
    /\ \A b \in Buyers : bookings[b].status = "absent" => bookings[b].flight = Nobody

(* A canceller locks, and is about to lock, only seats of its own booking.  *)
FreesOwnSeats(c) ==
    pc[c] \in {"freeing", "committing"} =>
        /\ bookings[revoke[c]].status = "confirmed"
        /\ \A s \in Seats : seatLock[s] = c \/ s \in todo[c] => seats[s].booking = revoke[c]

(* A confirmed booking has the seat its buyer chose. *)
SitsOnChosen(b) ==
    bookings[b].status = "confirmed" =>
        /\ chosen[b] \in Seats
        /\ seats[chosen[b]].status = "booked"
        /\ seats[chosen[b]].booking = b

HoldInv ==
    /\ RowsAgree
    /\ \A b \in Buyers : HoldsSeat(b) /\ SitsOnChosen(b)
    /\ \A c \in Cancellers : FreesOwnSeats(c)

(* A step that writes no table disturbs the part of its own request alone.  *)
LEMMA HoldOthers ==
    ASSUME SystemInv, HoldInv, NEW p \in Procs, Frame(p), UNCHANGED tables,
           p \in Buyers => pc[p] # "done"
    PROVE  /\ RowsAgree'
           /\ \A b \in Buyers : SitsOnChosen(b)' /\ (b # p => HoldsSeat(b)')
           /\ \A c \in Cancellers : c # p => FreesOwnSeats(c)'
  <1> USE DEF SystemInv, HoldInv
  <1>1. RowsAgree'
    BY DEF tables, RowsAgree
  <1>2. ASSUME NEW b \in Buyers PROVE SitsOnChosen(b)'
    <2>1. bookings[b].status = "confirmed" => chosen'[b] = chosen[b]
      BY DEF SaleInv, StoredWhenDone, Frame
    <2>2. QED
      BY <2>1 DEF SitsOnChosen, tables
  <1>3. ASSUME NEW b \in Buyers, b # p PROVE HoldsSeat(b)'
    <2>1. b \in Procs /\ b # Nobody /\ HoldsSeat(b) /\ ChoosesOnFlight(b)
      BY SchemaAssumption DEF Procs, SaleInv
    <2>2. pc'[b] = pc[b] /\ chosen'[b] = chosen[b] /\ order' = order
      BY <1>3, <2>1 DEF Frame
    <2>3. pc[b] \in Pending => chosen[b] \in Seats
      BY <2>1 DEF ChoosesOnFlight, Pending, SeatsOf
    <2>4. \A s \in Seats : seatLock[s] = b => seatLock'[s] = b
      BY <1>3, <2>1 DEF Frame
    <2>5. QED
      BY <2>1, <2>2, <2>3, <2>4 DEF HoldsSeat, tables
  <1>4. ASSUME NEW c \in Cancellers, c # p PROVE FreesOwnSeats(c)'
    <2>1. c \in Procs /\ c # Nobody /\ FreesOwnSeats(c)
      BY SchemaAssumption DEF Procs
    <2>2. pc'[c] = pc[c] /\ todo'[c] = todo[c] /\ revoke' = revoke
      BY <1>4, <2>1 DEF Frame
    <2>3. \A s \in Seats : seatLock'[s] = c => seatLock[s] = c
      BY <1>4, <2>1 DEF Frame
    <2>4. QED
      BY <2>1, <2>2, <2>3 DEF FreesOwnSeats, tables
  <1>5. QED
    BY <1>1, <1>2, <1>3, <1>4

(* With the flight there and no collision, nothing makes an INSERT fail. *)
LEMMA OnlyDeletionBreaksSale ==
    ASSUME NoCollision, NEW b \in Buyers, IntegrityError(b)
    PROVE  pc[b] = "checking" /\ flights[order[b].flight].status = "absent"
  BY DEF NoCollision, IntegrityError

LEMMA BuyHold ==
    ASSUME SystemInv, HoldInv, NoCollision, NEW b \in Buyers, BuyStep(b)
    PROVE  HoldInv'
  <1> USE DEF SystemInv, HoldInv
  <1>1. b \in Procs /\ b \notin Cancellers /\ b # Nobody
    BY RequestsAreDistinct, SchemaAssumption DEF Procs
  <1>2. Frame(b) /\ pc[b] # "done" /\ (CommitSale(b) \/ UNCHANGED tables)
    BY BuyFrame
  <1>3. bookings[b].status = "absent" /\ HoldsSeat(b)
    BY <1>2 DEF SaleInv, StoredWhenDone
  <1>4. CASE UNCHANGED tables
    <2>1. HoldsSeat(b)'
      <3> pc \in [Procs -> Labels] /\ order' = order
          /\ seatLock \in [Seats -> Buyers \cup Cancellers \cup Deleters \cup {Nobody}]
          /\ chosen \in [Buyers -> Seats \cup {0}]
        BY <1>2 DEF TypeOK, DatabaseTypeOK, BookingsTypeOK, Frame
      <3> USE <1>1, <1>4 DEF HoldsSeat, Pending, Goto, tables, bookingVars
      <3>1. CASE FlightNotBookable(b) \/ UnknownFareClass(b) \/ SeatNotAvailable(b) \/ GiveUpReference(b)
        BY <3>1 DEF FlightNotBookable, UnknownFareClass, SeatNotAvailable, GiveUpReference, Refuse
      <3>2. CASE ReadFlight(b) \/ SearchSeats(b) \/ PassSeat(b) \/ SkipLockedSeat(b)
        BY <3>2 DEF ReadFlight, SearchSeats, PassSeat, SkipLockedSeat
      <3>3. CASE LockSeat(b)
        BY <3>3 DEF LockSeat, NextSeat, TypeOK, DatabaseTypeOK
      <3>4. CASE DrawReference(b) \/ InsertBooking(b) \/ CheckFlight(b)
        BY <1>3, <3>4 DEF DrawReference, InsertBooking, CheckFlight, locks
      <3>5. CASE RetryReference(b)
        BY <3>5, OnlyDeletionBreaksSale DEF RetryReference
      <3>6. CASE MarkSeat(b)
        BY <1>3, <3>6 DEF MarkSeat, SaleInv, ChoosesOnFlight, SeatsOf
      <3>7. CASE CommitSale(b)
        BY <3>7 DEF CommitSale, Commit
      <3>8. QED
        BY <3>1, <3>2, <3>3, <3>4, <3>5, <3>6, <3>7 DEF BuyStep, Buy
    <2>2. QED
      BY <1>1, <1>2, <1>4, <2>1, HoldOthers
  <1>5. CASE CommitSale(b)
    <2>1. /\ pc[b] = "committing" /\ chosen[b] \in Seats
          /\ seatLock[chosen[b]] = b /\ seats[chosen[b]].status = "available"
      BY <1>3, <1>5 DEF CommitSale, HoldsSeat, Pending, SaleInv, ChoosesOnFlight, SeatsOf,
                        FlightInv, SharesFlight
    <2>2. /\ bookings' = [bookings EXCEPT ![b] =
                [status |-> "confirmed", reference |-> drawn[b],
                 flight |-> order[b].flight, fare |-> loaded[b].fare]]
          /\ seats' = [seats EXCEPT ![chosen[b]] = [status |-> "booked", booking |-> b]]
          /\ pc'[b] = "done" /\ chosen' = chosen /\ flights' = flights /\ order' = order
      BY <1>1, <1>5 DEF CommitSale, Commit, Goto, bookingVars, TypeOK, DatabaseTypeOK
    <2> seats \in [Seats -> SeatRow] /\ bookings \in [Buyers -> BookingRow]
      BY DEF TypeOK, DatabaseTypeOK
    <2>3. /\ seats'[chosen[b]] = [status |-> "booked", booking |-> b]
          /\ \A s \in Seats : s # chosen[b] => seats'[s] = seats[s]
          /\ bookings'[b].status = "confirmed"
          /\ \A x \in Buyers : x # b => bookings'[x] = bookings[x]
      BY <2>1, <2>2
    <2>4. RowsAgree'
      BY <2>3 DEF RowsAgree
    <2>5. ASSUME NEW x \in Buyers PROVE SitsOnChosen(x)'
      BY <2>1, <2>2, <2>3 DEF SitsOnChosen
    <2>6. ASSUME NEW x \in Buyers PROVE HoldsSeat(x)'
      <3>1. CASE x = b
        BY <2>2, <3>1 DEF HoldsSeat, Pending
      <3>2. CASE x # b
        <4>1. x \in Procs /\ x # Nobody /\ HoldsSeat(x) /\ ChoosesOnFlight(x)
          BY SchemaAssumption DEF Procs, SaleInv
        <4>2. pc'[x] = pc[x] /\ \A s \in Seats : seatLock[s] = x => seatLock'[s] = x
          BY <1>2, <3>2, <4>1 DEF Frame
        <4>3. pc[x] \in Pending => chosen[x] \in Seats
          BY <4>1 DEF ChoosesOnFlight, Pending, SeatsOf
        <4>4. QED
          BY <2>1, <2>2, <2>3, <3>2, <4>1, <4>2, <4>3 DEF HoldsSeat
      <3>3. QED
        BY <3>1, <3>2
    <2>7. ASSUME NEW c \in Cancellers PROVE FreesOwnSeats(c)'
      <3>1. c \in Procs /\ c # Nobody /\ c # b /\ FreesOwnSeats(c) /\ revoke[c] \in Buyers
            /\ revoke[c] # Nobody
        BY <1>1, SchemaAssumption DEF Procs, TypeOK, BookingsTypeOK
      <3>2. pc'[c] = pc[c] /\ todo'[c] = todo[c] /\ revoke' = revoke
            /\ \A s \in Seats : seatLock'[s] = c => seatLock[s] = c
        BY <1>2, <3>1 DEF Frame
      <3>3. seats[chosen[b]].booking = Nobody
        BY <2>1 DEF RowsAgree
      <3>4. QED
        BY <1>3, <2>1, <2>3, <3>1, <3>2, <3>3 DEF FreesOwnSeats
    <2>8. QED
      BY <2>4, <2>5, <2>6, <2>7
  <1>6. QED
    BY <1>2, <1>4, <1>5

LEMMA CancelHold ==
    ASSUME SystemInv, HoldInv, NEW c \in Cancellers, CancelStep(c)
    PROVE  HoldInv'
  <1> USE DEF SystemInv, HoldInv
  <1>1. /\ c \in Procs /\ c \notin Buyers /\ c # Nobody
        /\ revoke[c] \in Buyers /\ revoke[c] # Nobody
    BY RequestsAreDistinct, SchemaAssumption DEF Procs, TypeOK, BookingsTypeOK
  <1>2. Frame(c) /\ (CommitCancel(c) \/ UNCHANGED tables)
    BY CancelFrame
  <1>3. FreesOwnSeats(c) /\ HoldsBooking(c) /\ KeepsToFlight(c)
    BY DEF SaleInv, CabinInv
  <1>4. CASE UNCHANGED tables
    <2>1. FreesOwnSeats(c)'
      <3> pc \in [Procs -> Labels] /\ revoke' = revoke /\ todo \in [Procs -> SUBSET Seats]
          /\ seatLock \in [Seats -> Buyers \cup Cancellers \cup Deleters \cup {Nobody}]
        BY <1>2 DEF TypeOK, DatabaseTypeOK, Frame
      <3> USE <1>1, <1>4 DEF FreesOwnSeats, Goto, tables, bookingVars
      <3>1. CASE BookingNotFound(c) \/ AlreadyCancelled(c)
        BY <3>1 DEF BookingNotFound, AlreadyCancelled, Refuse
      <3>2. CASE LockBooking(c)
        BY <3>2 DEF LockBooking
      <3>3. CASE LoadSeats(c)
        BY <1>3, <3>3 DEF LoadSeats, KeepsToFlight, locks
      <3>4. CASE FreeSeatRow(c)
        BY <1>3, <3>4 DEF FreeSeatRow
      <3>5. CASE SendCancelled(c)
        BY <1>3, <3>5 DEF SendCancelled, locks
      <3>6. CASE CommitCancel(c)
        BY <3>6 DEF CommitCancel, Commit
      <3>7. QED
        BY <3>1, <3>2, <3>3, <3>4, <3>5, <3>6 DEF CancelStep, Cancel
    <2>2. QED
      BY <1>1, <1>2, <1>4, <2>1, HoldOthers
  <1>5. CASE CommitCancel(c)
    <2>1. /\ bookings' = [bookings EXCEPT ![revoke[c]] = [@ EXCEPT !.status = "cancelled"]]
          /\ seats' = [s \in Seats |-> IF seatLock[s] = c THEN FreeSeat ELSE seats[s]]
          /\ pc' = [pc EXCEPT ![c] = "done"] /\ pc[c] = "committing"
          /\ chosen' = chosen /\ flights' = flights /\ order' = order
      BY <1>5 DEF CommitCancel, Commit, Goto, bookingVars
    <2>2. /\ bookingLock[revoke[c]] = c /\ bookings[revoke[c]].status = "confirmed"
          /\ \A s \in Seats : seatLock[s] = c => seats[s].booking = revoke[c]
      BY <1>3, <2>1 DEF HoldsBooking, FreesOwnSeats
    <2>3. /\ bookings'[revoke[c]].status = "cancelled"
          /\ \A b \in Buyers : b # revoke[c] => bookings'[b] = bookings[b]
          /\ \A s \in Seats : seats'[s] = IF seatLock[s] = c THEN FreeSeat ELSE seats[s]
      BY <1>1, <2>1 DEF TypeOK, DatabaseTypeOK, BookingRow
    <2>4. RowsAgree'
      BY <2>3 DEF RowsAgree, FreeSeat
    <2>5. ASSUME NEW b \in Buyers PROVE SitsOnChosen(b)'
      BY <2>1, <2>2, <2>3 DEF SitsOnChosen
    <2>6. ASSUME NEW b \in Buyers PROVE HoldsSeat(b)'
      <3>1. b \in Procs /\ b # Nobody /\ b # c /\ HoldsSeat(b) /\ ChoosesOnFlight(b)
        BY <1>1, SchemaAssumption DEF Procs, SaleInv
      <3>2. pc'[b] = pc[b] /\ \A s \in Seats : seatLock[s] = b => seatLock'[s] = b
        BY <1>2, <3>1 DEF Frame
      <3>3. pc[b] \in Pending => chosen[b] \in Seats
        BY <3>1 DEF ChoosesOnFlight, Pending, SeatsOf
      <3>4. QED
        BY <2>1, <2>3, <3>1, <3>2, <3>3 DEF HoldsSeat
    <2>7. ASSUME NEW x \in Cancellers PROVE FreesOwnSeats(x)'
      <3>1. CASE x = c
        BY <1>1, <2>1, <3>1 DEF FreesOwnSeats, TypeOK, DatabaseTypeOK
      <3>2. CASE x # c
        <4>1. /\ x \in Procs /\ x # Nobody /\ revoke[x] \in Buyers
              /\ FreesOwnSeats(x) /\ HoldsBooking(x)
          BY SchemaAssumption DEF Procs, TypeOK, BookingsTypeOK, SaleInv
        <4>2. pc'[x] = pc[x] /\ todo'[x] = todo[x] /\ revoke' = revoke
              /\ \A s \in Seats : seatLock'[s] = x => seatLock[s] = x
          BY <1>2, <3>2, <4>1 DEF Frame
        <4>3. pc[x] \in {"freeing", "committing"} => revoke[x] # revoke[c]
          BY <2>2, <3>2, <4>1 DEF HoldsBooking
        <4>4. QED
          BY <2>2, <2>3, <4>1, <4>2, <4>3 DEF FreesOwnSeats
      <3>3. QED
        BY <3>1, <3>2
    <2>8. QED
      BY <2>4, <2>5, <2>6, <2>7
  <1>6. QED
    BY <1>2, <1>4, <1>5

LEMMA UpdateHold ==
    ASSUME SystemInv, HoldInv, NEW u \in Updaters, UpdateStep(u)
    PROVE  HoldInv'
  <1> USE DEF SystemInv, HoldInv
  <1>1. u \in Procs /\ u \notin Buyers /\ u \notin Cancellers
    BY RequestsAreDistinct DEF Procs
  <1>2. Frame(u) /\ (CommitPatch(u) \/ UNCHANGED tables) /\ SameRows
    BY UpdateFrame, UpdateSameRows
  <1>3. seats' = seats /\ bookings' = bookings /\ chosen' = chosen
    BY <1>2 DEF CommitPatch, tables, UpdateStep, bookingVars
  <1>4. RowsAgree' /\ \A b \in Buyers : SitsOnChosen(b)'
    BY <1>3 DEF RowsAgree, SitsOnChosen
  <1>5. ASSUME NEW b \in Buyers PROVE HoldsSeat(b)'
    <2>1. /\ b \in Procs /\ b # Nobody /\ b # u /\ HoldsSeat(b) /\ ChoosesOnFlight(b)
          /\ order[b].flight \in Flights
      BY <1>1, SchemaAssumption, OrderType DEF Procs, SaleInv, TypeOK, BookingsTypeOK
    <2>2. /\ pc'[b] = pc[b] /\ order' = order
          /\ \A s \in Seats : seatLock[s] = b => seatLock'[s] = b
      BY <1>2, <2>1 DEF Frame
    <2>3. pc[b] \in Pending => chosen[b] \in Seats
      BY <2>1 DEF ChoosesOnFlight, Pending, SeatsOf
    <2>4. QED
      BY <1>2, <1>3, <2>1, <2>2, <2>3 DEF HoldsSeat, SameRows
  <1>6. ASSUME NEW c \in Cancellers PROVE FreesOwnSeats(c)'
    <2>1. c \in Procs /\ c # Nobody /\ c # u /\ FreesOwnSeats(c)
      BY <1>1, SchemaAssumption DEF Procs
    <2>2. QED
      BY <1>2, <1>3, <2>1 DEF FreesOwnSeats, Frame
  <1>7. QED
    BY <1>4, <1>5, <1>6

(* A deleter that commits has locked seats of its flight alone, and none of *)
(* them has ever been sold.                                                *)
LEMMA DeletesUnsoldSeats ==
    ASSUME SystemInv, NEW d \in Deleters, pc[d] = "committing"
    PROVE  /\ \A b \in Buyers : bookings[b].status # "absent" => bookings[b].flight # target[d]
           /\ \A s \in Seats : seatLock[s] = d =>
                 FlightOf[s] = target[d] /\ \A b \in Buyers : seats[s].booking # b
  <1>1. HoldsFlight(d) /\ HoldsCabin(d)
    BY DEF SystemInv, FlightInv, CabinInv
  <1>2. \A b \in Buyers : bookings[b].status # "absent" => bookings[b].flight # target[d]
    BY <1>1 DEF HoldsFlight, BookingsOn
  <1>3. \A s \in Seats : seatLock[s] = d => FlightOf[s] = target[d]
    BY <1>1 DEF HoldsCabin
  <1>4. QED
    BY <1>2, <1>3 DEF SystemInv, SaleInv, NamesItsSale

LEMMA DeleteHold ==
    ASSUME SystemInv, HoldInv, NEW d \in Deleters, DeleteStep(d)
    PROVE  HoldInv'
  <1> USE DEF SystemInv, HoldInv
  <1>1. d \in Procs /\ d \notin Buyers /\ d \notin Cancellers
    BY RequestsAreDistinct DEF Procs
  <1>2. Frame(d) /\ (CommitDelete(d) \/ UNCHANGED tables)
    BY DeleteFrame
  <1>3. CASE UNCHANGED tables
    BY <1>1, <1>2, <1>3, HoldOthers
  <1>4. CASE CommitDelete(d)
    <2>1. /\ pc[d] = "committing" /\ bookings' = bookings /\ chosen' = chosen
          /\ \A s \in Seats : seats'[s] = IF seatLock[s] = d
                                             THEN [status |-> "absent", booking |-> Nobody]
                                             ELSE seats[s]
          /\ \A f \in Flights : flights[f].status = "absent" => flights'[f].status = "absent"
      BY <1>4 DEF CommitDelete, DeleteStep, bookingVars, TypeOK, DatabaseTypeOK, FlightRow
    <2>2. \A s \in Seats : seatLock[s] = d => \A b \in Buyers : seats[s].booking # b
      BY <2>1, DeletesUnsoldSeats
    <2>3. RowsAgree'
      BY <2>1 DEF RowsAgree
    <2>4. ASSUME NEW b \in Buyers PROVE SitsOnChosen(b)'
      BY <2>1, <2>2 DEF SitsOnChosen
    <2>5. ASSUME NEW b \in Buyers PROVE HoldsSeat(b)'
      <3>1. /\ b \in Procs /\ b # Nobody /\ b # d /\ HoldsSeat(b) /\ ChoosesOnFlight(b)
            /\ order[b].flight \in Flights
        BY <1>1, SchemaAssumption, OrderType DEF Procs, SaleInv, TypeOK, BookingsTypeOK
      <3>2. /\ pc'[b] = pc[b] /\ order' = order
            /\ \A s \in Seats : seatLock[s] = b => seatLock'[s] = b
        BY <1>2, <3>1 DEF Frame
      <3>3. pc[b] \in Pending => chosen[b] \in Seats
        BY <3>1 DEF ChoosesOnFlight, Pending, SeatsOf
      <3>4. QED
        BY <2>1, <3>1, <3>2, <3>3 DEF HoldsSeat
    <2>6. ASSUME NEW c \in Cancellers PROVE FreesOwnSeats(c)'
      <3>1. c \in Procs /\ c # Nobody /\ c # d /\ FreesOwnSeats(c) /\ revoke[c] \in Buyers
        BY <1>1, SchemaAssumption DEF Procs, TypeOK, BookingsTypeOK
      <3>2. /\ pc'[c] = pc[c] /\ todo'[c] = todo[c] /\ revoke' = revoke
            /\ \A s \in Seats : seatLock'[s] = c => seatLock[s] = c
        BY <1>2, <3>1 DEF Frame
      <3>3. todo[c] \subseteq Seats
        BY <3>1 DEF TypeOK, DatabaseTypeOK
      <3>4. QED
        BY <2>1, <2>2, <3>1, <3>2, <3>3 DEF FreesOwnSeats
    <2>7. QED
      BY <2>3, <2>4, <2>5, <2>6
  <1>5. QED
    BY <1>2, <1>3, <1>4

LEMMA AbortHold ==
    ASSUME SystemInv, HoldInv, NEW p \in Procs, NEW status, Abort(p, status),
           UNCHANGED <<bookingVars, flightVars>>
    PROVE  HoldInv'
  <1>1. Frame(p) /\ UNCHANGED tables /\ pc[p] # "done" /\ pc'[p] = "done"
    BY AbortFrame DEF SystemInv, Abort, Goto, TypeOK, DatabaseTypeOK
  <1>2. p \in Buyers => HoldsSeat(p)'
    BY <1>1 DEF HoldsSeat, Pending
  <1>3. p \in Cancellers => FreesOwnSeats(p)'
    BY <1>1 DEF FreesOwnSeats
  <1>4. QED
    BY <1>1, <1>2, <1>3, HoldOthers DEF HoldInv

LEMMA HoldInit == Init => HoldInv
  <1> SUFFICES ASSUME Init PROVE HoldInv
    OBVIOUS
  <1> USE DEF Init, DatabaseInit
  <1>1. RowsAgree
    BY DEF RowsAgree, FreeSeat, NoBooking
  <1>2. ASSUME NEW b \in Buyers PROVE HoldsSeat(b) /\ SitsOnChosen(b)
    BY DEF HoldsSeat, SitsOnChosen, Pending, NoBooking, Procs
  <1>3. ASSUME NEW c \in Cancellers PROVE FreesOwnSeats(c)
    BY DEF FreesOwnSeats, Procs
  <1>4. QED
    BY <1>1, <1>2, <1>3 DEF HoldInv

LEMMA HoldStep == SystemInv /\ HoldInv /\ NoCollision /\ [Next]_vars => HoldInv'
  <1> SUFFICES ASSUME SystemInv, HoldInv, NoCollision, [Next]_vars PROVE HoldInv'
    OBVIOUS
  <1>1. ASSUME NEW b \in Buyers, BuyStep(b) PROVE HoldInv'
    BY <1>1, BuyHold
  <1>2. ASSUME NEW c \in Cancellers, CancelStep(c) PROVE HoldInv'
    BY <1>2, CancelHold
  <1>3. ASSUME NEW u \in Updaters, UpdateStep(u) PROVE HoldInv'
    BY <1>3, UpdateHold
  <1>4. ASSUME NEW d \in Deleters, DeleteStep(d) PROVE HoldInv'
    BY <1>4, DeleteHold
  <1>5. ASSUME NEW p \in MayFail, Fail(p) PROVE HoldInv'
    BY <1>5, AbortHold, FaultsAssumption DEF Fail
  <1>6. ASSUME NEW p \in Procs, DeadlockVictim(p) PROVE HoldInv'
    BY <1>6, AbortHold DEF DeadlockVictim
  <1>7. CASE UNCHANGED vars
    BY <1>7 DEF vars, tables, locks, bookingVars, HoldInv, RowsAgree, HoldsSeat, SitsOnChosen,
                FreesOwnSeats
  <1>8. QED
    BY <1>1, <1>2, <1>3, <1>4, <1>5, <1>6, <1>7 DEF Next, Finished

LEMMA HoldInvariance == Spec /\ []NoCollision => []HoldInv
  BY SystemInvariance, HoldInit, HoldStep, PTL DEF Spec

(* Every confirmed booking holds a seat of its own, whatever interleaving   *)
(* of sales, cancellations and deletions, as long as no INSERT meets a     *)
(* taken reference (create_booking locks the seat row FOR UPDATE, and      *)
(* cancel_booking frees only rows that name the booking it has locked).    *)
THEOREM ConfirmedAlwaysHoldsSeat == Spec /\ []NoCollision => []ConfirmedHoldsSeat
  <1>1. HoldInv => ConfirmedHoldsSeat
    BY DEF HoldInv, SitsOnChosen, ConfirmedHoldsSeat
  <1>2. QED
    BY <1>1, HoldInvariance, PTL

-----------------------------------------------------------------------------
(* BookingSystem implements SeatSales: what a commit does to the tables is  *)
(* one event of the promise, and nothing else touches them.                *)

LEMMA SaleSells ==
    ASSUME SystemInv, HoldInv, NEW b \in Buyers, CommitSale(b)
    PROVE  \E s \in Seats : Sales!Sell(b, s)
  <1> USE DEF SystemInv, HoldInv
  <1>0. PICK s \in Seats : s = chosen[b] /\ FlightOf[s] = order[b].flight
    BY DEF CommitSale, SaleInv, ChoosesOnFlight, SeatsOf
  <1>1. /\ pc[b] = "committing" /\ bookings[b].status = "absent"
        /\ order[b].flight \in Flights
    BY OrderType DEF CommitSale, SaleInv, StoredWhenDone, TypeOK, BookingsTypeOK
  <1>2. /\ flights[order[b].flight].status # "absent"
        /\ seats[s].booking = Nobody
    BY <1>0, <1>1 DEF FlightInv, SharesFlight, HoldsSeat, Pending, RowsAgree
  <1>3. /\ flights' = flights
        /\ seats' = [seats EXCEPT ![s] = [status |-> "booked", booking |-> b]]
        /\ bookings' = [bookings EXCEPT ![b] =
              [status |-> "confirmed", reference |-> drawn[b],
               flight |-> order[b].flight, fare |-> loaded[b].fare]]
    BY <1>0 DEF CommitSale
  <1>4. seats \in [Seats -> SeatRow] /\ bookings \in [Buyers -> BookingRow]
    BY DEF TypeOK, DatabaseTypeOK
  <1>5. [t \in Seats |-> seats'[t].booking] = [[t \in Seats |-> seats[t].booking] EXCEPT ![s] = b]
    BY <1>0, <1>1, <1>3, <1>4
  <1>6. [x \in Buyers |-> bookings'[x].status] =
            [[x \in Buyers |-> bookings[x].status] EXCEPT ![b] = "confirmed"]
    BY <1>3, <1>4
  <1>7. [x \in Buyers |-> bookings'[x].flight] =
            [[x \in Buyers |-> bookings[x].flight] EXCEPT ![b] = FlightOf[s]]
    BY <1>0, <1>1, <1>3, <1>4
  <1>8. QED
    BY <1>0, <1>1, <1>2, <1>3, <1>5, <1>6, <1>7 DEF Sales!Sell

LEMMA CancellationCancels ==
    ASSUME SystemInv, HoldInv, NEW c \in Cancellers, CommitCancel(c)
    PROVE  \E b \in Buyers : Sales!CancelSale(b)
  <1> USE DEF SystemInv, HoldInv
  <1>0. PICK b \in Buyers : b = revoke[c]
    BY DEF TypeOK, BookingsTypeOK
  <1>1. pc[c] = "committing" /\ HoldsBooking(c) /\ FreesOwnSeats(c)
    BY DEF CommitCancel, SaleInv
  <1>2. /\ bookings[b].status = "confirmed"
        /\ \A s \in Seats : seatLock[s] = c <=> seats[s].booking = b
    BY <1>0, <1>1 DEF HoldsBooking, FreesOwnSeats
  <1>3. /\ flights' = flights
        /\ seats' = [s \in Seats |-> IF seatLock[s] = c THEN FreeSeat ELSE seats[s]]
        /\ bookings' = [bookings EXCEPT ![b] = [@ EXCEPT !.status = "cancelled"]]
    BY <1>0 DEF CommitCancel
  <1>4. bookings \in [Buyers -> BookingRow]
    BY DEF TypeOK, DatabaseTypeOK
  <1>5. [s \in Seats |-> seats'[s].booking] =
            [s \in Seats |-> IF [t \in Seats |-> seats[t].booking][s] = b
                                THEN Nobody ELSE [t \in Seats |-> seats[t].booking][s]]
    BY <1>2, <1>3 DEF FreeSeat
  <1>6. [x \in Buyers |-> bookings'[x].status] =
            [[x \in Buyers |-> bookings[x].status] EXCEPT ![b] = "cancelled"]
    BY <1>3, <1>4 DEF BookingRow
  <1>7. [x \in Buyers |-> bookings'[x].flight] = [x \in Buyers |-> bookings[x].flight]
    BY <1>3, <1>4 DEF BookingRow
  <1>8. QED
    BY <1>2, <1>3, <1>5, <1>6, <1>7 DEF Sales!CancelSale

LEMMA DeletionWithdraws ==
    ASSUME SystemInv, HoldInv, NEW d \in Deleters, CommitDelete(d)
    PROVE  (\E f \in Flights : Sales!Withdraw(f)) \/ UNCHANGED Sales!vars
  <1> USE DEF SystemInv, HoldInv
  <1>0. PICK f \in Flights : f = target[d]
    BY DEF TypeOK, FlightsTypeOK
  <1>1. pc[d] = "committing" /\ f # Nobody
    BY SchemaAssumption DEF CommitDelete
  <1>2. /\ \A b \in Buyers : bookings[b].status # "absent" => bookings[b].flight # f
        /\ \A s \in Seats : seatLock[s] = d => \A b \in Buyers : seats[s].booking # b
    BY <1>0, <1>1, DeletesUnsoldSeats
  <1>3. seats \in [Seats -> SeatRow]
    BY DEF TypeOK, DatabaseTypeOK
  <1>4. /\ bookings' = bookings
        /\ seats' = [s \in Seats |-> IF seatLock[s] = d
                                        THEN [status |-> "absent", booking |-> Nobody]
                                        ELSE seats[s]]
        /\ \A g \in Flights : flights'[g].status # "absent" <=>
              flights[g].status # "absent" /\ g # f
    BY <1>0 DEF CommitDelete, TypeOK, DatabaseTypeOK, FlightRow
  <1>5. \A s \in Seats : seatLock[s] = d => seats[s].booking = Nobody
    BY <1>2, <1>3 DEF SeatRow
  <1>6. [s \in Seats |-> seats'[s].booking] = [s \in Seats |-> seats[s].booking]
    BY <1>4, <1>5
  <1>7. \A b \in Buyers : bookings[b].flight # f
    BY <1>1, <1>2 DEF RowsAgree
  <1>8. {g \in Flights : flights'[g].status # "absent"} =
            {g \in Flights : flights[g].status # "absent"} \ {f}
    BY <1>4
  <1>9. QED
    BY <1>1, <1>4, <1>6, <1>7, <1>8 DEF Sales!Withdraw, Sales!vars

(* A step that leaves the bookings, the seats' bookings and the set of      *)
(* flights alone is no event of SeatSales.                                 *)
LEMMA SameTablesStutter ==
    ASSUME seats' = seats, bookings' = bookings,
           \A f \in Flights : flights'[f].status = "absent" <=> flights[f].status = "absent"
    PROVE  UNCHANGED Sales!vars
  BY DEF Sales!vars

LEMMA SalesInit == Init => Sales!Init
  BY DEF Init, DatabaseInit, Sales!Init, FreeSeat, NoBooking

LEMMA SalesStep == SystemInv /\ HoldInv /\ [Next]_vars => [Sales!Next]_(Sales!vars)
  <1> SUFFICES ASSUME SystemInv, HoldInv, [Next]_vars PROVE Sales!Next \/ UNCHANGED Sales!vars
    OBVIOUS
  <1>0. UNCHANGED tables => UNCHANGED Sales!vars
    BY DEF tables, Sales!vars
  <1>1. ASSUME NEW b \in Buyers, BuyStep(b) PROVE Sales!Next \/ UNCHANGED Sales!vars
    <2>1. CommitSale(b) \/ UNCHANGED tables
      BY <1>1, BuyFrame DEF SystemInv
    <2>2. CommitSale(b) => Sales!Next
      BY SaleSells DEF Sales!Next
    <2>3. QED
      BY <1>0, <2>1, <2>2
  <1>2. ASSUME NEW c \in Cancellers, CancelStep(c) PROVE Sales!Next \/ UNCHANGED Sales!vars
    <2>1. CommitCancel(c) \/ UNCHANGED tables
      BY <1>2, CancelFrame DEF SystemInv
    <2>2. CommitCancel(c) => Sales!Next
      BY CancellationCancels DEF Sales!Next
    <2>3. QED
      BY <1>0, <2>1, <2>2
  <1>3. ASSUME NEW u \in Updaters, UpdateStep(u) PROVE UNCHANGED Sales!vars
    <2>1. CommitPatch(u) \/ UNCHANGED tables
      BY <1>3, UpdateFrame DEF SystemInv
    <2>2. seats' = seats /\ bookings' = bookings /\ SameRows
      BY <1>3, <2>1, UpdateSameRows DEF CommitPatch, tables
    <2>3. QED
      BY <2>2, SameTablesStutter DEF SameRows
  <1>4. ASSUME NEW d \in Deleters, DeleteStep(d) PROVE Sales!Next \/ UNCHANGED Sales!vars
    <2>1. CommitDelete(d) \/ UNCHANGED tables
      BY <1>4, DeleteFrame DEF SystemInv
    <2>2. CommitDelete(d) => Sales!Next \/ UNCHANGED Sales!vars
      BY DeletionWithdraws DEF Sales!Next
    <2>3. QED
      BY <1>0, <2>1, <2>2
  <1>5. ASSUME NEW p \in Procs, NEW status, Abort(p, status) PROVE UNCHANGED Sales!vars
    BY <1>0, <1>5 DEF Abort
  <1>6. CASE UNCHANGED vars
    BY <1>0, <1>6 DEF vars
  <1>7. QED
    BY <1>1, <1>2, <1>3, <1>4, <1>5, <1>6, FaultsAssumption DEF Next, Finished, Fail, DeadlockVictim

(* The promise is kept: every behaviour of the back end in which no INSERT  *)
(* meets a taken reference is, at its tables, a behaviour of SeatSales.    *)
THEOREM SalesAlwaysImplemented == Spec /\ []NoCollision => SeatSalesImplemented
  BY SystemInvariance, HoldInvariance, SalesInit, SalesStep, PTL
  DEF Spec, SeatSalesImplemented, Sales!Spec

-----------------------------------------------------------------------------
(* Two requests that cannot draw the same reference never collide.         *)

DrawsOwn(b) ==
    /\ pc[b] \in {"inserting"} \cup Inserted => drawn[b] \in RefPool[b]
    /\ bookings[b].status # "absent" => bookings[b].reference \in RefPool[b]

LEMMA BuyDrawsOwn ==
    ASSUME TypeOK, NEW b \in Buyers, DrawsOwn(b), BuyStep(b)
    PROVE  DrawsOwn(b)'
  <1> b \in Procs /\ pc \in [Procs -> Labels] /\ drawn \in [Buyers -> References \cup {NoReference}]
      /\ bookings \in [Buyers -> BookingRow]
    BY DEF Procs, TypeOK, DatabaseTypeOK, BookingsTypeOK
  <1> USE DEF DrawsOwn, Inserted, Goto, tables, bookingVars
  <1>1. CASE FlightNotBookable(b) \/ UnknownFareClass(b) \/ SeatNotAvailable(b) \/ GiveUpReference(b)
    BY <1>1 DEF FlightNotBookable, UnknownFareClass, SeatNotAvailable, GiveUpReference, Refuse
  <1>2. CASE ReadFlight(b) \/ SearchSeats(b) \/ LockSeat(b) \/ PassSeat(b) \/ SkipLockedSeat(b)
    BY <1>2 DEF ReadFlight, SearchSeats, LockSeat, PassSeat, SkipLockedSeat
  <1>3. CASE DrawReference(b)
    BY <1>3 DEF DrawReference
  <1>4. CASE InsertBooking(b) \/ CheckFlight(b) \/ RetryReference(b) \/ MarkSeat(b)
    BY <1>4 DEF InsertBooking, CheckFlight, RetryReference, MarkSeat
  <1>5. CASE CommitSale(b)
    BY <1>5 DEF CommitSale, Commit
  <1>6. QED
    BY <1>1, <1>2, <1>3, <1>4, <1>5 DEF BuyStep, Buy

LEMMA DrawsOwnStep ==
    ASSUME SystemInv, \A b \in Buyers : DrawsOwn(b), [Next]_vars
    PROVE  \A b \in Buyers : DrawsOwn(b)'
  <1>1. ASSUME NEW p \in Procs, Frame(p), NEW b \in Buyers, b # p,
               bookings'[b].status # "absent" => bookings[b].status # "absent",
               bookings'[b].reference = bookings[b].reference
        PROVE  DrawsOwn(b)'
    BY <1>1 DEF Frame, DrawsOwn, Inserted, Procs
  <1>2. ASSUME NEW b \in Buyers, NEW x \in Buyers, BuyStep(x) PROVE DrawsOwn(b)'
    <2>1. CASE b = x
      BY <1>2, <2>1, BuyDrawsOwn DEF SystemInv
    <2>2. CASE b # x
      <3>1. Frame(x) /\ x \in Procs /\ bookings'[b] = bookings[b]
        BY <1>2, <2>2, BuyFrame DEF SystemInv, CommitSale, tables, TypeOK, DatabaseTypeOK, Procs
      <3>2. QED
        BY <1>1, <2>2, <3>1
    <2>3. QED
      BY <2>1, <2>2
  <1>3. ASSUME NEW b \in Buyers, NEW c \in Cancellers, CancelStep(c) PROVE DrawsOwn(b)'
    <2>1. /\ c \in Procs /\ c # b /\ Frame(c) /\ revoke[c] \in Buyers
          /\ CommitCancel(c) \/ UNCHANGED tables
      BY <1>3, CancelFrame, RequestsAreDistinct DEF SystemInv, Procs, TypeOK, BookingsTypeOK
    <2>2. CommitCancel(c) => bookings[revoke[c]].status # "absent"
      BY DEF SystemInv, SaleInv, HoldsBooking, CommitCancel
    <2>3. /\ bookings'[b].status # "absent" => bookings[b].status # "absent"
          /\ bookings'[b].reference = bookings[b].reference
      BY <2>1, <2>2 DEF CommitCancel, tables, SystemInv, TypeOK, DatabaseTypeOK, BookingRow
    <2>4. QED
      BY <1>1, <2>1, <2>3
  <1>4. ASSUME NEW b \in Buyers, NEW p \in Procs \ Buyers, Frame(p), bookings' = bookings
        PROVE  DrawsOwn(b)'
    BY <1>1, <1>4
  <1>5. ASSUME NEW u \in Updaters, UpdateStep(u)
        PROVE  u \in Procs \ Buyers /\ Frame(u) /\ bookings' = bookings
    BY <1>5, UpdateFrame, RequestsAreDistinct DEF SystemInv, Procs, CommitPatch, tables
  <1>6. ASSUME NEW d \in Deleters, DeleteStep(d)
        PROVE  d \in Procs \ Buyers /\ Frame(d) /\ bookings' = bookings
    BY <1>6, DeleteFrame, RequestsAreDistinct DEF SystemInv, Procs, CommitDelete, tables
  <1>7. ASSUME NEW b \in Buyers, NEW p \in Procs, NEW status, Abort(p, status),
               UNCHANGED <<bookingVars, flightVars>>
        PROVE  DrawsOwn(b)'
    <2>1. Frame(p) /\ bookings' = bookings /\ pc'[p] = "done"
      BY <1>7, AbortFrame DEF SystemInv, Abort, Goto, TypeOK, DatabaseTypeOK, tables
    <2>2. CASE b = p
      BY <2>1, <2>2 DEF DrawsOwn, Inserted
    <2>3. QED
      BY <1>1, <2>1, <2>2
  <1>8. CASE UNCHANGED vars
    BY <1>8 DEF vars, tables, bookingVars, DrawsOwn
  <1>9. QED
    BY <1>2, <1>3, <1>4, <1>5, <1>6, <1>7, <1>8, FaultsAssumption
    DEF Next, Finished, Fail, DeadlockVictim

(* References come from a pool so large that no two requests draw the same  *)
(* one (generate_booking_reference: 32 to the power of 6): then no INSERT  *)
(* ever meets a taken one, and the theorems above hold of the back end     *)
(* without that condition.                                                 *)
THEOREM DistinctReferencesNeverCollide ==
    ASSUME DistinctReferences
    PROVE  Spec => []NoCollision
  <1>1. Init => \A b \in Buyers : DrawsOwn(b)
    BY DEF Init, DatabaseInit, DrawsOwn, Inserted, NoBooking, Procs
  <1>2. SystemInv /\ (\A b \in Buyers : DrawsOwn(b)) /\ [Next]_vars => (\A b \in Buyers : DrawsOwn(b))'
    BY DrawsOwnStep
  <1>3. SystemInv /\ (\A b \in Buyers : DrawsOwn(b)) => NoCollision
    BY DEF SystemInv, SaleInv, StoredWhenDone, DrawsOwn, NoCollision, ReferenceTaken,
           DistinctReferences
  <1>4. QED
    BY <1>1, <1>2, <1>3, SystemInvariance, PTL DEF Spec

-----------------------------------------------------------------------------
(* Who waits for whom. *)

LEMMA BuyerWaits ==
    ASSUME NEW b \in Buyers
    PROVE  /\ WaitsFor(b) = BuyerWaitsFor(b)
           /\ pc[b] = "locking" =>
                 BuyerWaitsFor(b) = IF order[b].skipLocked THEN {} ELSE HolderOfNextSeat(b)
           /\ pc[b] = "inserting" =>
                 BuyerWaitsFor(b) = {x \in Buyers \ {b} : pc[x] \in Inserted /\ drawn[x] = drawn[b]}
           /\ pc[b] = "checking" => BuyerWaitsFor(b) = {flightLock[order[b].flight]} \cap Deleters
           /\ pc[b] = "inserted" => BuyerWaitsFor(b) = Holder(seatLock, chosen[b], b)
           /\ pc[b] \notin {"locking", "inserting", "checking", "inserted"} => BuyerWaitsFor(b) = {}
  <1>1. WaitsFor(b) = BuyerWaitsFor(b)
    BY RequestsAreDistinct DEF WaitsFor
  <1>2. pc[b] = "locking" =>
            BuyerWaitsFor(b) = IF order[b].skipLocked THEN {} ELSE HolderOfNextSeat(b)
    BY DEF BuyerWaitsFor
  <1>3. pc[b] = "inserting" =>
            BuyerWaitsFor(b) = {x \in Buyers \ {b} : pc[x] \in Inserted /\ drawn[x] = drawn[b]}
    BY DEF BuyerWaitsFor
  <1>4. pc[b] = "checking" => BuyerWaitsFor(b) = {flightLock[order[b].flight]} \cap Deleters
    BY DEF BuyerWaitsFor
  <1>5. pc[b] = "inserted" => BuyerWaitsFor(b) = Holder(seatLock, chosen[b], b)
    BY DEF BuyerWaitsFor
  <1>6. pc[b] \notin {"locking", "inserting", "checking", "inserted"} => BuyerWaitsFor(b) = {}
    BY DEF BuyerWaitsFor
  <1>7. QED
    BY <1>1, <1>2, <1>3, <1>4, <1>5, <1>6

LEMMA CancellerWaits ==
    ASSUME NEW c \in Cancellers
    PROVE  /\ WaitsFor(c) = CancellerWaitsFor(c)
           /\ pc[c] = "start" => CancellerWaitsFor(c) \subseteq Holder(bookingLock, revoke[c], c)
           /\ pc[c] = "freeing" => CancellerWaitsFor(c) = HolderOfNextRow(c)
           /\ pc[c] \notin {"start", "freeing"} => CancellerWaitsFor(c) = {}
  <1>1. WaitsFor(c) = CancellerWaitsFor(c)
    BY RequestsAreDistinct DEF WaitsFor
  <1>2. pc[c] = "start" =>
           CancellerWaitsFor(c) = IF FindsBooking(c) THEN Holder(bookingLock, revoke[c], c) ELSE {}
    BY DEF CancellerWaitsFor
  <1>3. pc[c] = "freeing" => CancellerWaitsFor(c) = HolderOfNextRow(c)
    BY DEF CancellerWaitsFor
  <1>4. pc[c] \notin {"start", "freeing"} => CancellerWaitsFor(c) = {}
    BY DEF CancellerWaitsFor
  <1>5. QED
    BY <1>1, <1>2, <1>3, <1>4

LEMMA DeleterWaits ==
    ASSUME NEW d \in Deleters
    PROVE  /\ WaitsFor(d) = DeleterWaitsFor(d)
           /\ pc[d] = "emptying" /\ todo[d] # {} => DeleterWaitsFor(d) = HolderOfNextRow(d)
           /\ pc[d] = "emptying" /\ todo[d] = {} =>
                 DeleterWaitsFor(d) = Holder(flightLock, target[d], d) \cup flightShare[target[d]]
           /\ pc[d] = "restricting" =>
                 DeleterWaitsFor(d) \subseteq {bookingLock[x] : x \in BookingsOn(target[d])} \ {Nobody}
           /\ pc[d] \notin {"emptying", "restricting"} => DeleterWaitsFor(d) = {}
  <1>1. WaitsFor(d) = DeleterWaitsFor(d)
    BY RequestsAreDistinct DEF WaitsFor
  <1>2. pc[d] = "emptying" =>
            DeleterWaitsFor(d) = IF todo[d] # {} THEN HolderOfNextRow(d)
                                 ELSE Holder(flightLock, target[d], d) \cup flightShare[target[d]]
    BY DEF DeleterWaitsFor
  <1>3. pc[d] = "restricting" =>
            DeleterWaitsFor(d) =
                IF Nobody \in {bookingLock[x] : x \in BookingsOn(target[d])} THEN {}
                ELSE {bookingLock[x] : x \in BookingsOn(target[d])}
    BY DEF DeleterWaitsFor
  <1>4. pc[d] \notin {"emptying", "restricting"} => DeleterWaitsFor(d) = {}
    BY DEF DeleterWaitsFor
  <1>5. QED
    BY <1>1, <1>2, <1>3, <1>4

LEMMA UpdaterWaits ==
    ASSUME NEW u \in Updaters
    PROVE  WaitsFor(u) \subseteq Holder(flightLock, change[u].flight, u)
  <1>1. WaitsFor(u) = UpdaterWaitsFor(u)
    BY RequestsAreDistinct DEF WaitsFor
  <1>2. QED
    BY <1>1 DEF UpdaterWaitsFor

-----------------------------------------------------------------------------
(* Which locks a request may hold at all. *)

(* Before its seat query a buyer has no seat, and during it those it has    *)
(* passed over; it share-locks its flight from the check on.               *)
LocksWanted(b) ==
    /\ pc[b] \in {"start", "searching"} => \A s \in Seats : seatLock[s] # b
    /\ pc[b] = "locking" =>
          /\ todo[b] \subseteq order[b].wanted
          /\ \A s \in Seats : seatLock[s] = b => s \in order[b].wanted \ todo[b]
    /\ \A f \in Flights : b \in flightShare[f] => pc[b] \in {"inserted", "committing"}

(* A deleter locks the flight it names, once it has emptied its cabin. *)
LocksTarget(d) ==
    \A f \in Flights : flightLock[f] = d =>
        pc[d] \in {"restricting", "committing"} /\ target[d] = f

LockInv ==
    /\ \A b \in Buyers : LocksWanted(b)
    /\ \A d \in Deleters : LocksTarget(d)

LEMMA LockOthers ==
    ASSUME TypeOK, LockInv, NEW p \in Procs, Frame(p)
    PROVE  /\ \A b \in Buyers : b # p => LocksWanted(b)'
           /\ \A d \in Deleters : d # p => LocksTarget(d)'
  <1>1. ASSUME NEW b \in Buyers, b # p PROVE LocksWanted(b)'
    <2>1. b \in Procs /\ b # Nobody /\ LocksWanted(b)
      BY SchemaAssumption DEF Procs, LockInv
    <2>2. /\ pc'[b] = pc[b] /\ todo'[b] = todo[b] /\ order' = order
          /\ \A s \in Seats : seatLock'[s] = b => seatLock[s] = b
      BY <1>1, <2>1 DEF Frame
    <2>3. ASSUME NEW f \in Flights, b \in flightShare'[f] PROVE b \in flightShare[f]
      <3>1. b \in flightShare'[f] \ {p}
        BY <1>1, <2>3
      <3>2. QED
        BY <3>1 DEF Frame
    <2>4. QED
      BY <2>1, <2>2, <2>3 DEF LocksWanted
  <1>2. ASSUME NEW d \in Deleters, d # p PROVE LocksTarget(d)'
    <2>1. d \in Procs /\ d # Nobody /\ LocksTarget(d)
      BY SchemaAssumption DEF Procs, LockInv
    <2>2. QED
      BY <1>2, <2>1 DEF Frame, LocksTarget
  <1>3. QED
    BY <1>1, <1>2

(* What a request that is over, or starts over, leaves behind: no lock. *)
LEMMA UnlockedHoldsNothing ==
    ASSUME TypeOK, NEW p \in Procs, Unlock(p)
    PROVE  /\ \A s \in Seats : seatLock'[s] # p
           /\ \A f \in Flights : flightLock'[f] # p /\ p \notin flightShare'[f]
  <1>1. p # Nobody
    BY SchemaAssumption
  <1>2. QED
    BY <1>1 DEF Unlock, Released, TypeOK, DatabaseTypeOK

LEMMA BuyLocks ==
    ASSUME TypeOK, LockInv, NEW b \in Buyers, BuyStep(b)
    PROVE  LocksWanted(b)'
  <1> b \in Procs /\ LocksWanted(b) /\ order' = order
    BY BuyFrame DEF Procs, LockInv, Frame
  <1> /\ pc \in [Procs -> Labels] /\ todo \in [Procs -> SUBSET Seats]
      /\ seatLock \in [Seats -> Buyers \cup Cancellers \cup Deleters \cup {Nobody}]
      /\ flightShare \in [Flights -> SUBSET Buyers] /\ order[b].flight \in Flights
    BY OrderType DEF TypeOK, DatabaseTypeOK, BookingsTypeOK
  <1> USE DEF LocksWanted, Goto, tables, locks, bookingVars
  <1>1. CASE FlightNotBookable(b) \/ UnknownFareClass(b) \/ SeatNotAvailable(b) \/ GiveUpReference(b)
    <2>1. Unlock(b) /\ pc'[b] = "done"
      BY <1>1 DEF FlightNotBookable, UnknownFareClass, SeatNotAvailable, GiveUpReference, Refuse
    <2>2. QED
      BY <2>1, UnlockedHoldsNothing
  <1>2. CASE RetryReference(b)
    <2>1. Unlock(b) /\ pc'[b] = "drawing"
      BY <1>2 DEF RetryReference
    <2>2. QED
      BY <2>1, UnlockedHoldsNothing
  <1>3. CASE CommitSale(b)
    <2>1. Unlock(b) /\ pc'[b] = "done"
      BY <1>3 DEF CommitSale, Commit
    <2>2. QED
      BY <2>1, UnlockedHoldsNothing
  <1>4. CASE ReadFlight(b)
    BY <1>4 DEF ReadFlight
  <1>5. CASE SearchSeats(b)
    BY <1>5 DEF SearchSeats
  <1>6. CASE LockSeat(b)
    BY <1>6 DEF LockSeat
  <1>7. CASE PassSeat(b)
    BY <1>7 DEF PassSeat, NextSeat
  <1>8. CASE SkipLockedSeat(b)
    BY <1>8 DEF SkipLockedSeat
  <1>9. CASE DrawReference(b) \/ InsertBooking(b)
    BY <1>9 DEF DrawReference, InsertBooking
  <1>10. CASE CheckFlight(b) \/ MarkSeat(b)
    BY <1>10 DEF CheckFlight, MarkSeat
  <1>11. QED
    BY <1>1, <1>2, <1>3, <1>4, <1>5, <1>6, <1>7, <1>8, <1>9, <1>10 DEF BuyStep, Buy

LEMMA DeleteLocks ==
    ASSUME TypeOK, LockInv, NEW d \in Deleters, DeleteStep(d)
    PROVE  LocksTarget(d)'
  <1> d \in Procs /\ LocksTarget(d) /\ target' = target
    BY DeleteFrame DEF Procs, LockInv, Frame
  <1> /\ pc \in [Procs -> Labels] /\ target[d] \in Flights
      /\ flightLock \in [Flights -> Updaters \cup Deleters \cup {Nobody}]
    BY DEF TypeOK, DatabaseTypeOK, FlightsTypeOK
  <1> USE DEF LocksTarget, Goto, locks
  <1>1. CASE DeleteNotFound(d) \/ CannotDelete(d) \/ Restricted(d) \/ CommitDelete(d)
    <2>1. Unlock(d)
      BY <1>1 DEF DeleteNotFound, CannotDelete, Restricted, CommitDelete, Refuse, Commit
    <2>2. QED
      BY <2>1, UnlockedHoldsNothing
  <1>2. CASE FindForDelete(d) \/ LoadCabin(d)
    BY <1>2 DEF FindForDelete, LoadCabin
  <1>3. CASE DeleteSeat(d)
    BY <1>3 DEF DeleteSeat
  <1>4. CASE DeleteRow(d)
    BY <1>4 DEF DeleteRow
  <1>5. CASE SendDeleted(d)
    BY <1>5 DEF SendDeleted
  <1>6. QED
    BY <1>1, <1>2, <1>3, <1>4, <1>5 DEF DeleteStep, Delete

LEMMA LockStep == TypeOK /\ LockInv /\ [Next]_vars => LockInv'
  <1> SUFFICES ASSUME TypeOK, LockInv, [Next]_vars PROVE LockInv'
    OBVIOUS
  <1>1. ASSUME NEW b \in Buyers, BuyStep(b) PROVE LockInv'
    BY <1>1, BuyFrame, BuyLocks, LockOthers, RequestsAreDistinct DEF LockInv, Procs
  <1>2. ASSUME NEW c \in Cancellers, CancelStep(c) PROVE LockInv'
    BY <1>2, CancelFrame, LockOthers, RequestsAreDistinct DEF LockInv, Procs
  <1>3. ASSUME NEW u \in Updaters, UpdateStep(u) PROVE LockInv'
    BY <1>3, UpdateFrame, LockOthers, RequestsAreDistinct DEF LockInv, Procs
  <1>4. ASSUME NEW d \in Deleters, DeleteStep(d) PROVE LockInv'
    BY <1>4, DeleteFrame, DeleteLocks, LockOthers, RequestsAreDistinct DEF LockInv, Procs
  <1>5. ASSUME NEW p \in Procs, NEW status, Abort(p, status), UNCHANGED <<bookingVars, flightVars>>
        PROVE  LockInv'
    <2>1. Frame(p) /\ Unlock(p) /\ pc'[p] = "done"
      BY <1>5, AbortFrame DEF Abort, Goto, TypeOK, DatabaseTypeOK
    <2>2. LocksTarget(p)' /\ LocksWanted(p)'
      BY <2>1, UnlockedHoldsNothing DEF LocksTarget, LocksWanted
    <2>3. QED
      BY <2>1, <2>2, LockOthers DEF LockInv
  <1>6. CASE UNCHANGED vars
    BY <1>6 DEF vars, locks, bookingVars, flightVars, LockInv, LocksWanted, LocksTarget
  <1>7. QED
    BY <1>1, <1>2, <1>3, <1>4, <1>5, <1>6, FaultsAssumption
    DEF Next, Finished, Fail, DeadlockVictim

LEMMA LockInvariance == Spec => []LockInv
  <1>1. Init => LockInv
    BY SchemaAssumption
    DEF Init, DatabaseInit, LockInv, LocksWanted, LocksTarget, Procs
  <1>2. QED
    BY <1>1, LockStep, TypeCorrect, PTL DEF Spec

-----------------------------------------------------------------------------
(* Lock cycles. *)

(* A request that is outside some set of requests which holds those it      *)
(* waits for, and with each of its own those that one waits for, is in no  *)
(* lock cycle.                                                             *)
LEMMA OutsideClosedSet ==
    ASSUME NEW p, NEW waiting \in SUBSET Procs, p \notin waiting,
           WaitsFor(p) \subseteq waiting, \A q \in waiting : WaitsFor(q) \subseteq waiting
    PROVE  ~LockCycle(p)
  BY DEF LockCycle

(* Who waits for a seat waits for a request that has locked one. *)
LEMMA SeatHolders ==
    ASSUME TypeOK, NEW p \in Procs, NEW b,
           \A s \in Seats : seatLock[s] # b
    PROVE  HolderOfNextSeat(p) \subseteq Procs \ {b} /\ HolderOfNextRow(p) \subseteq Procs \ {b}
  <1>1. ASSUME NEW s \in Seats PROVE Holder(seatLock, s, p) \subseteq Procs \ {b}
    BY DEF Holder, TypeOK, DatabaseTypeOK, Procs
  <1>2. todo[p] \subseteq Seats
    BY DEF TypeOK, DatabaseTypeOK
  <1>3. QED
    BY <1>1, <1>2 DEF HolderOfNextSeat, HolderOfNextRow

(* Nobody waits for a buyer that holds no seat and has no booking pending. *)
LEMMA NobodyWaitsForSearcher ==
    ASSUME SystemInv, LockInv, NEW b \in Buyers, pc[b] = "locking",
           \A s \in Seats : seatLock[s] # b,
           NEW q \in Procs
    PROVE  WaitsFor(q) \subseteq Procs \ {b}
  <1> USE DEF SystemInv
  <1>1. HolderOfNextSeat(q) \subseteq Procs \ {b} /\ HolderOfNextRow(q) \subseteq Procs \ {b}
    BY SeatHolders
  <1>2. b \notin Cancellers /\ b \notin Deleters /\ b \notin Updaters
    BY RequestsAreDistinct
  <1>3. CASE q \in Buyers
    <2>1. CASE pc[q] = "locking"
      BY <1>1, <1>3, <2>1, BuyerWaits
    <2>2. CASE pc[q] = "inserting"
      BY <1>3, <2>2, BuyerWaits DEF Procs, Inserted
    <2>3. CASE pc[q] = "checking"
      BY <1>2, <1>3, <2>3, BuyerWaits DEF Procs
    <2>4. CASE pc[q] = "inserted"
      <3>1. chosen[q] \in Seats
        BY <1>3, <2>4 DEF SaleInv, ChoosesOnFlight, SeatsOf
      <3>2. Holder(seatLock, chosen[q], q) \subseteq Procs \ {b}
        BY <3>1 DEF Holder, TypeOK, DatabaseTypeOK, Procs
      <3>3. QED
        BY <1>3, <2>4, <3>2, BuyerWaits
    <2>5. QED
      BY <1>3, <2>1, <2>2, <2>3, <2>4, BuyerWaits
  <1>4. CASE q \in Cancellers
    <2>1. Holder(bookingLock, revoke[q], q) \subseteq Procs \ {b}
      BY <1>2, <1>4 DEF Holder, TypeOK, DatabaseTypeOK, BookingsTypeOK, Procs
    <2>2. QED
      BY <1>1, <1>4, <2>1, CancellerWaits
  <1>5. CASE q \in Updaters
    <2>1. Holder(flightLock, change[q].flight, q) \subseteq Procs \ {b}
      BY <1>2, <1>5 DEF Holder, TypeOK, DatabaseTypeOK, FlightsTypeOK, Changes, Procs
    <2>2. QED
      BY <1>5, <2>1, UpdaterWaits
  <1>6. CASE q \in Deleters
    <2>1. Holder(flightLock, target[q], q) \subseteq Procs \ {b}
      BY <1>2, <1>6 DEF Holder, TypeOK, DatabaseTypeOK, FlightsTypeOK, Procs
    <2>2. flightShare[target[q]] \subseteq Procs \ {b}
      BY <1>6 DEF LockInv, LocksWanted, TypeOK, DatabaseTypeOK, FlightsTypeOK, Procs
    <2>3. {bookingLock[x] : x \in BookingsOn(target[q])} \ {Nobody} \subseteq Procs \ {b}
      BY <1>2 DEF BookingsOn, TypeOK, DatabaseTypeOK, Procs
    <2>4. QED
      BY <1>1, <1>6, <2>1, <2>2, <2>3, DeleterWaits
  <1>7. QED
    BY <1>3, <1>4, <1>5, <1>6 DEF Procs

(* A buyer that waits for its one seat has none, so nobody waits for it. *)
LEMMA SearchNeverDeadlocks ==
    ASSUME SystemInv, LockInv, NEW b \in Buyers, pc[b] = "locking",
           order[b].skipLocked \/ Cardinality(order[b].wanted) <= 1
    PROVE  ~LockCycle(b)
  <1>1. b \in Procs /\ LocksWanted(b) /\ order[b].wanted \subseteq Seats
    BY OrderType DEF Procs, LockInv, SystemInv, TypeOK, BookingsTypeOK, SeatsOf
  <1>2. CASE order[b].skipLocked
    BY <1>2, BuyerWaits DEF LockCycle
  <1>3. CASE todo[b] = {}
    <2>1. HolderOfNextSeat(b) = {}
      BY <1>3 DEF HolderOfNextSeat
    <2>2. QED
      BY <2>1, BuyerWaits DEF LockCycle
  <1>4. CASE ~order[b].skipLocked /\ todo[b] # {}
    <2>1. ASSUME NEW s \in order[b].wanted, NEW t \in order[b].wanted PROVE s = t
      <3>1. IsFiniteSet(order[b].wanted) /\ IsFiniteSet({s, t}) /\ {s, t} \subseteq order[b].wanted
        BY <1>1, FiniteTables, FS_Subset
      <3>2. Cardinality({s, t}) <= 1
        <4>1. Cardinality({s, t}) <= Cardinality(order[b].wanted)
          BY <3>1, FS_Subset
        <4>2. Cardinality({s, t}) \in Nat /\ Cardinality(order[b].wanted) \in Nat
          BY <3>1, FS_CardinalityType
        <4>3. QED
          BY <1>4, <4>1, <4>2
      <3>3. ASSUME s # t PROVE Cardinality({s, t}) = 2
        <4>1. IsFiniteSet({s}) /\ Cardinality({s}) = 1
          BY FS_Singleton
        <4>2. Cardinality({s} \cup {t}) = IF t \in {s} THEN Cardinality({s}) ELSE Cardinality({s}) + 1
          BY <4>1, FS_AddElement
        <4>3. {s, t} = {s} \cup {t}
          OBVIOUS
        <4>4. QED
          BY <3>3, <4>1, <4>2, <4>3
      <3>4. QED
        BY <3>2, <3>3
    <2>2. \A s \in Seats : seatLock[s] # b
      BY <1>1, <1>4, <2>1 DEF LocksWanted
    <2>3. \A q \in Procs : WaitsFor(q) \subseteq Procs \ {b}
      BY <2>2, NobodyWaitsForSearcher
    <2>4. QED
      BY <1>1, <2>3, OutsideClosedSet
  <1>5. QED
    BY <1>2, <1>3, <1>4

(* Deleters that find their flight gone already: they wait for nobody.     *)
TooLate == {d \in Deleters : /\ pc[d] \in {"restricting", "committing"}
                             /\ flights[target[d]].status = "absent"}

LEMMA TooLateWaitsForNobody ==
    ASSUME SystemInv, NEW d \in TooLate
    PROVE  WaitsFor(d) = {}
  <1>1. d \in Deleters /\ pc[d] \in {"restricting", "committing"}
    BY DEF TooLate
  <1>2. BookingsOn(target[d]) = {}
    BY DEF TooLate, BookingsOn, SystemInv, FlightInv, KeepsFlight
  <1>3. QED
    BY <1>1, <1>2, DeleterWaits

(* A buyer whose foreign key check waits has its seat, so the deletion it   *)
(* waits for has locked no seat: the flight was gone before it began.      *)
LEMMA CheckWaitsForTooLate ==
    ASSUME SystemInv, HoldInv, LockInv, NEW b \in Buyers, pc[b] = "checking"
    PROVE  WaitsFor(b) \subseteq TooLate
  <1> USE DEF SystemInv
  <1> SUFFICES ASSUME flightLock[order[b].flight] \in Deleters
               PROVE  flightLock[order[b].flight] \in TooLate
    BY BuyerWaits
  <1> DEFINE d == flightLock[order[b].flight]
  <1>1. /\ d \in Deleters /\ order[b].flight \in Flights /\ b # d
    BY OrderType, RequestsAreDistinct DEF TypeOK, BookingsTypeOK
  <1>2. pc[d] \in {"restricting", "committing"} /\ target[d] = order[b].flight
    BY <1>1 DEF LockInv, LocksTarget
  <1>3. chosen[b] \in SeatsOf(target[d])
    BY <1>2 DEF SaleInv, ChoosesOnFlight
  <1>4. seats[chosen[b]].status = "absent" \/ seatLock[chosen[b]] = d
    BY <1>1, <1>2, <1>3 DEF CabinInv, HoldsCabin
  <1>5. flights[target[d]].status = "absent"
    BY <1>1, <1>2, <1>4 DEF HoldInv, HoldsSeat, Pending
  <1>6. QED
    BY <1>1, <1>2, <1>5 DEF TooLate

LEMMA InsertedWaitsForNobody ==
    ASSUME SystemInv, HoldInv, NEW b \in Buyers, pc[b] \in {"inserted", "committing"}
    PROVE  WaitsFor(b) = {}
  <1>1. seatLock[chosen[b]] = b
    BY DEF SystemInv, FlightInv, SharesFlight, HoldInv, HoldsSeat, Pending
  <1>2. Holder(seatLock, chosen[b], b) = {}
    BY <1>1 DEF Holder
  <1>3. QED
    BY <1>2, BuyerWaits

(* Once it has its seat a sale is in no lock cycle: those it may wait for,  *)
(* the holder of the reference it has drawn and a deletion that comes too  *)
(* late, wait for nobody else.                                             *)
LEMMA SaleNeverDeadlocks ==
    ASSUME SystemInv, HoldInv, LockInv, NEW b \in Buyers, pc[b] # "locking"
    PROVE  ~LockCycle(b)
  <1>1. b \notin TooLate /\ TooLate \subseteq Procs
    BY RequestsAreDistinct DEF TooLate, Procs
  <1>2. CASE pc[b] = "inserting"
    <2> DEFINE waiting == {x \in Buyers : pc[x] \in Inserted} \cup TooLate
    <2>1. b \notin waiting /\ waiting \in SUBSET Procs
      BY <1>1, <1>2 DEF Inserted, Procs
    <2>2. WaitsFor(b) \subseteq waiting
      BY <1>2, BuyerWaits
    <2>3. ASSUME NEW q \in waiting PROVE WaitsFor(q) \subseteq waiting
      <3>1. CASE q \in TooLate
        BY <3>1, TooLateWaitsForNobody
      <3>2. CASE q \in Buyers /\ pc[q] = "checking"
        BY <3>2, CheckWaitsForTooLate
      <3>3. CASE q \in Buyers /\ pc[q] \in {"inserted", "committing"}
        BY <3>3, InsertedWaitsForNobody
      <3>4. QED
        BY <3>1, <3>2, <3>3 DEF Inserted
    <2>4. QED
      BY <2>1, <2>2, <2>3, OutsideClosedSet
  <1>3. CASE pc[b] = "checking"
    BY <1>1, <1>3, CheckWaitsForTooLate, TooLateWaitsForNobody, OutsideClosedSet
  <1>4. CASE pc[b] = "inserted"
    BY <1>4, InsertedWaitsForNobody DEF LockCycle
  <1>5. QED
    BY <1>2, <1>3, <1>4, BuyerWaits DEF LockCycle

(* PostgreSQL never picks an ordinary sale as a deadlock victim: while it   *)
(* looks for its seat nobody can be waiting for it, and once it has it the *)
(* requests it waits for run into nothing that it holds.                   *)
THEOREM OrdinarySalesNeverDeadlock == Spec /\ []NoCollision => []OrdinarySaleNeverDeadlocks
  <1>1. SystemInv /\ HoldInv /\ LockInv => OrdinarySaleNeverDeadlocks
    BY SearchNeverDeadlocks, SaleNeverDeadlocks DEF OrdinarySaleNeverDeadlocks
  <1>2. QED
    BY <1>1, SystemInvariance, HoldInvariance, LockInvariance, PTL

-----------------------------------------------------------------------------
(* When a passenger is refused. *)

(* No request gives a seat back: nobody cancels or deletes, and no buyer's  *)
(* connection is lost.                                                     *)
NothingGivenBack == Cancellers = {} /\ Deleters = {} /\ MayFail \cap Buyers = {}

(* Updates there may be, as long as they leave every flight on sale. *)
EveryFlightOnSale == \A f \in Flights : flights[f].status = "scheduled"

Taken(s) == seats[s].status = "booked" \/ seatLock[s] \in Buyers

(* A seat that a buyer has locked is booked, or the buyer's own choice. *)
LockedForSale(s) ==
    seatLock[s] \in Buyers =>
        \/ seats[s].status = "booked"
        \/ pc[seatLock[s]] \in Pending /\ chosen[seatLock[s]] = s

(* Every seat that would do and is not to be visited any more is taken. *)
SearchesAll(b) ==
    /\ pc[b] = "locking" => \A s \in order[b].wanted : s \in todo[b] \/ Taken(s)
    /\ answer[b] = "409" => \A s \in order[b].wanted : Taken(s)

TakenInv ==
    /\ \A s \in Seats : LockedForSale(s)
    /\ \A b \in Buyers : SearchesAll(b)

LEMMA BuyAnswers ==
    ASSUME TypeOK, NEW b \in Buyers, BuyStep(b), NEW x \in Procs, x # b
    PROVE  answer'[x] = answer[x]
  BY DEF TypeOK, DatabaseTypeOK, BuyStep, Buy, ReadFlight, FlightNotBookable, UnknownFareClass,
         SearchSeats, LockSeat, PassSeat, SkipLockedSeat, SeatNotAvailable, DrawReference,
         InsertBooking, CheckFlight, RetryReference, GiveUpReference, MarkSeat, CommitSale, Refuse,
         Commit, Send

LEMMA UpdateAnswers ==
    ASSUME TypeOK, NEW u \in Updaters, UpdateStep(u), NEW x \in Procs, x # u
    PROVE  answer'[x] = answer[x]
  BY DEF TypeOK, DatabaseTypeOK, UpdateStep, Update, ReadForUpdate, UpdateNotFound, CountSold,
         CannotReprice, InvalidStatus, FareTooSmall, PatchFlight, PatchNothing, FlightGone,
         CommitPatch, Refuse, Commit, Send

(* A step of b disturbs the searches of the others only by a seat that was *)
(* taken and is no longer.                                                 *)
LEMMA SearchOthers ==
    ASSUME TypeOK, NEW p \in Procs, Frame(p), \A x \in Procs : x # p => answer'[x] = answer[x],
           \A s \in Seats : Taken(s) => Taken(s)',
           NEW b \in Buyers, b # p, SearchesAll(b)
    PROVE  SearchesAll(b)'
  <1>1. b \in Procs /\ order[b].wanted \subseteq Seats
    BY OrderType DEF Procs, TypeOK, BookingsTypeOK, SeatsOf
  <1>2. pc'[b] = pc[b] /\ todo'[b] = todo[b] /\ order' = order /\ answer'[b] = answer[b]
    BY <1>1 DEF Frame
  <1>3. QED
    BY <1>1, <1>2 DEF SearchesAll

(* Nobody but b has its locks, or its place and choice, changed. *)
LEMMA LockedOthers ==
    ASSUME TypeOK, NEW p \in Procs, Frame(p), NEW s \in Seats, LockedForSale(s),
           seatLock'[s] # p, seats[s].status = "booked" => seats'[s].status = "booked"
    PROVE  LockedForSale(s)'
  <1> SUFFICES ASSUME seatLock'[s] \in Buyers
               PROVE  \/ seats'[s].status = "booked"
                      \/ pc'[seatLock'[s]] \in Pending /\ chosen'[seatLock'[s]] = s
    BY DEF LockedForSale
  <1>1. seatLock'[s] = seatLock[s] /\ seatLock[s] # p /\ seatLock[s] \in Procs
    BY SchemaAssumption DEF Frame, Procs
  <1>2. QED
    BY <1>1 DEF LockedForSale, Frame

(* What b has locked when it gives up its locks stays taken if it is booked *)
(* by then.                                                                *)
LEMMA UnlockKeepsTaken ==
    ASSUME TypeOK, NEW p \in Procs, Unlock(p),
           \A s \in Seats : seats[s].status = "booked" => seats'[s].status = "booked",
           \A s \in Seats : seatLock[s] = p => seats'[s].status = "booked"
    PROVE  \A s \in Seats : Taken(s) => Taken(s)'
  BY DEF Unlock, Released, Taken, TypeOK, DatabaseTypeOK

LEMMA BuyTaken ==
    ASSUME NothingGivenBack, SystemInv, HoldInv, NoCollision, EveryFlightOnSale, TakenInv,
           NEW b \in Buyers, BuyStep(b)
    PROVE  TakenInv'
  <1> USE DEF SystemInv
  <1>1. /\ b \in Procs /\ b # Nobody /\ order' = order /\ Frame(b) /\ pc[b] # "done"
        /\ order[b].flight \in Flights /\ order[b].wanted \subseteq SeatsOf(order[b].flight)
        /\ SearchesAll(b) /\ HoldsSeat(b)
    BY BuyFrame, OrderType, SchemaAssumption
    DEF Frame, Procs, TypeOK, BookingsTypeOK, TakenInv, HoldInv
  <1>2. flights[order[b].flight].status = "scheduled"
        /\ \A s \in order[b].wanted : seats[s].status # "absent"
    BY <1>1 DEF EveryFlightOnSale, CabinInv, CabinGoesWithFlight, SeatsOf
  <1>3. ~IntegrityError(b)
    BY <1>2, OnlyDeletionBreaksSale
  <1> /\ pc \in [Procs -> Labels] /\ todo \in [Procs -> SUBSET Seats]
      /\ answer \in [Procs -> Answers] /\ chosen \in [Buyers -> Seats \cup {0}]
      /\ seats \in [Seats -> SeatRow]
      /\ seatLock \in [Seats -> Buyers \cup Cancellers \cup Deleters \cup {Nobody}]
    BY DEF TypeOK, DatabaseTypeOK, BookingsTypeOK
  <1>4. SUFFICES /\ \A s \in Seats : Taken(s) => Taken(s)'
                 /\ \A s \in Seats : seatLock'[s] = b => LockedForSale(s)'
                 /\ SearchesAll(b)'
                 /\ \A s \in Seats : seats[s].status = "booked" => seats'[s].status = "booked"
    <2>1. \A x \in Buyers : SearchesAll(x)'
      BY <1>1, <1>4, SearchOthers, BuyAnswers DEF TakenInv
    <2>2. \A s \in Seats : LockedForSale(s)'
      BY <1>1, <1>4, LockedOthers DEF TakenInv
    <2>3. QED
      BY <2>1, <2>2 DEF TakenInv
  <1>5. \A s \in Seats : LockedForSale(s)
    BY DEF TakenInv
  <1> USE <1>1 DEF Goto, Send, tables, locks, bookingVars
  <1>6. CASE ReadFlight(b) \/ SearchSeats(b) \/ SkipLockedSeat(b)
    <2>1. seats' = seats /\ seatLock' = seatLock /\ chosen' = chosen /\ answer' = answer
      BY <1>6 DEF ReadFlight, SearchSeats, SkipLockedSeat
    <2>2. \A s \in Seats : seatLock[s] = b => LockedForSale(s)'
      BY <1>5, <1>6, <2>1 DEF LockedForSale, ReadFlight, SearchSeats, SkipLockedSeat, Pending
    <2>3. SearchesAll(b)'
      <3>1. CASE ReadFlight(b)
        BY <2>1, <3>1 DEF ReadFlight, SearchesAll, Taken
      <3>2. CASE SearchSeats(b)
        BY <1>2, <2>1, <3>2 DEF SearchSeats, SearchesAll, Taken, SeatRow, SeatsOf
      <3>3. CASE SkipLockedSeat(b)
        <4>1. \A s \in Seats : ~Lockable(seatLock, s, b) => Taken(s)
          BY DEF Lockable, Taken, NothingGivenBack
        <4>2. PICK s \in todo[b] : Taken(s) /\ todo' = [todo EXCEPT ![b] = @ \ {s}]
          BY <3>3, <4>1 DEF SkipLockedSeat
        <4>3. pc' = pc /\ pc[b] = "locking"
          BY <3>3 DEF SkipLockedSeat
        <4>4. QED
          BY <2>1, <4>2, <4>3 DEF SearchesAll, Taken
      <3>4. QED
        BY <1>6, <3>1, <3>2, <3>3
    <2>4. QED
      BY <2>1, <2>2, <2>3 DEF Taken
  <1>7. CASE DrawReference(b) \/ InsertBooking(b) \/ CheckFlight(b)
    <2>1. /\ seats' = seats /\ seatLock' = seatLock /\ chosen' = chosen /\ answer' = answer
          /\ pc[b] \in Pending /\ pc'[b] \in Pending
      BY <1>7 DEF DrawReference, InsertBooking, CheckFlight, Pending
    <2>2. \A s \in Seats : seatLock[s] = b => LockedForSale(s)'
      BY <1>5, <2>1 DEF LockedForSale
    <2>3. SearchesAll(b)'
      BY <2>1 DEF SearchesAll, Taken, Pending
    <2>4. QED
      BY <2>1, <2>2, <2>3 DEF Taken
  <1>8. CASE LockSeat(b)
    <2>1. PICK t \in todo[b] : /\ Lockable(seatLock, t, b)
                               /\ seatLock' = [seatLock EXCEPT ![t] = b]
                               /\ chosen' = [chosen EXCEPT ![b] = t]
      BY <1>8 DEF LockSeat
    <2>2. /\ t \in Seats /\ seats' = seats /\ answer' = answer
          /\ pc[b] = "locking" /\ pc'[b] = "drawing"
      BY <1>8 DEF LockSeat
    <2>3. \A s \in Seats : seatLock'[s] = b => LockedForSale(s)'
      BY <1>5, <2>1, <2>2 DEF LockedForSale, Pending
    <2>4. \A s \in Seats : Taken(s) => Taken(s)'
      BY <2>1, <2>2 DEF Taken
    <2>5. SearchesAll(b)'
      BY <2>2, <2>4 DEF SearchesAll, SeatsOf
    <2>6. QED
      BY <2>2, <2>3, <2>4, <2>5
  <1>9. CASE PassSeat(b)
    <2>1. PICK t \in todo[b] : /\ Lockable(seatLock, t, b) /\ seats[t].status # "available"
                               /\ seatLock' = [seatLock EXCEPT ![t] =
                                      IF seats[t].status = "booked" THEN b ELSE @]
                               /\ todo' = [todo EXCEPT ![b] = @ \ {t}]
      BY <1>9 DEF PassSeat
    <2>2. /\ t \in Seats /\ seats' = seats /\ answer' = answer /\ chosen' = chosen
          /\ pc[b] = "locking" /\ pc' = pc
      BY <1>9 DEF PassSeat
    <2>3. \A s \in Seats : seatLock'[s] = b => LockedForSale(s)'
      BY <1>5, <2>1, <2>2 DEF LockedForSale
    <2>4. \A s \in Seats : Taken(s) => Taken(s)'
      BY <2>1, <2>2 DEF Taken
    <2>5. t \in order[b].wanted => Taken(t)
      BY <1>2, <2>1 DEF Taken, SeatRow
    <2>6. SearchesAll(b)'
      BY <2>1, <2>2, <2>4, <2>5 DEF SearchesAll, SeatsOf
    <2>7. QED
      BY <2>2, <2>3, <2>4, <2>6
  <1>10. CASE FlightNotBookable(b)
    BY <1>2, <1>10 DEF FlightNotBookable
  <1>11. CASE UnknownFareClass(b) \/ SeatNotAvailable(b)
    <2>1. /\ Unlock(b) /\ seats' = seats /\ pc[b] \in {"searching", "locking"} /\ pc'[b] = "done"
          /\ answer'[b] = "404" \/ (pc[b] = "locking" /\ todo[b] = {})
      BY <1>11 DEF UnknownFareClass, SeatNotAvailable, Refuse
    <2>2. \A s \in Seats : seatLock[s] = b => seats[s].status = "booked"
      BY <1>5, <2>1 DEF LockedForSale, Pending
    <2>3. \A s \in Seats : Taken(s) => Taken(s)'
      BY <2>1, <2>2, UnlockKeepsTaken
    <2>4. \A s \in Seats : seatLock'[s] # b
      BY <2>1, UnlockedHoldsNothing
    <2>5. SearchesAll(b)'
      BY <2>1, <2>3 DEF SearchesAll, SeatsOf
    <2>6. QED
      BY <2>1, <2>3, <2>4, <2>5
  <1>12. CASE MarkSeat(b)
    <2>1. pc[b] = "inserted" /\ seatLock[chosen[b]] = b /\ chosen[b] \in Seats
      BY <1>2, <1>12 DEF MarkSeat, HoldsSeat, Pending, SaleInv, ChoosesOnFlight, SeatsOf
    <2>2. /\ seats' = seats /\ seatLock' = seatLock /\ chosen' = chosen
          /\ answer'[b] = "201" /\ pc'[b] = "committing"
      BY <1>12, <2>1 DEF MarkSeat
    <2>3. \A s \in Seats : seatLock[s] = b => LockedForSale(s)'
      BY <1>5, <2>1, <2>2 DEF LockedForSale, Pending
    <2>4. SearchesAll(b)'
      BY <2>2 DEF SearchesAll
    <2>5. QED
      BY <2>2, <2>3, <2>4 DEF Taken
  <1>13. CASE CommitSale(b)
    <2>1. /\ Unlock(b) /\ pc[b] = "committing" /\ pc'[b] = "done" /\ answer' = answer
          /\ seats' = [seats EXCEPT ![chosen[b]] = [status |-> "booked", booking |-> b]]
      BY <1>13 DEF CommitSale, Commit
    <2>2. \A s \in Seats : seatLock[s] = b => s = chosen[b] \/ seats[s].status = "booked"
      BY <1>5 DEF LockedForSale
    <2>3. \A s \in Seats : seats[s].status = "booked" => seats'[s].status = "booked"
      BY <2>1
    <2>4. \A s \in Seats : seatLock[s] = b => seats'[s].status = "booked"
      BY <2>1, <2>2, <2>3
    <2>5. \A s \in Seats : Taken(s) => Taken(s)'
      BY <2>1, <2>3, <2>4, UnlockKeepsTaken
    <2>6. \A s \in Seats : seatLock'[s] # b
      BY <2>1, UnlockedHoldsNothing
    <2>7. SearchesAll(b)'
      BY <2>1, <2>5 DEF SearchesAll, SeatsOf
    <2>8. QED
      BY <2>3, <2>5, <2>6, <2>7
  <1>14. CASE RetryReference(b) \/ GiveUpReference(b)
    BY <1>3, <1>14 DEF RetryReference, GiveUpReference
  <1>15. QED
    BY <1>6, <1>7, <1>8, <1>9, <1>10, <1>11, <1>12, <1>13, <1>14 DEF BuyStep, Buy

(* Requests that sell nothing hold no seat. *)
LEMMA UpdateTaken ==
    ASSUME SystemInv, SystemInv', TakenInv, NEW u \in Updaters, UpdateStep(u)
    PROVE  TakenInv'
  <1> USE DEF SystemInv
  <1>1. Frame(u) /\ u \in Procs /\ u \notin Buyers
    BY UpdateFrame, RequestsAreDistinct DEF Procs
  <1>2. seats' = seats
    BY UpdateFrame DEF CommitPatch, tables
  <1>3. \A s \in Seats : seatLock'[s] # u
    BY RequestsAreDistinct, SchemaAssumption DEF TypeOK, DatabaseTypeOK, Procs
  <1>4. \A s \in Seats : Taken(s) => Taken(s)'
    BY <1>1, <1>2, RequestsAreDistinct, SchemaAssumption DEF Frame, Taken, Procs
  <1>5. \A b \in Buyers : SearchesAll(b)'
    BY <1>1, <1>4, SearchOthers, UpdateAnswers DEF TakenInv
  <1>6. QED
    BY <1>1, <1>2, <1>3, <1>5, LockedOthers DEF TakenInv

(* A buyer is only lost while it looks for a seat, when the rows it has     *)
(* locked are booked.                                                      *)
LEMMA AbortTaken ==
    ASSUME SystemInv, SystemInv', TakenInv, NEW p \in Procs, NEW status, Abort(p, status),
           status # "409", UNCHANGED <<bookingVars, flightVars>>,
           p \in Buyers => pc[p] = "locking"
    PROVE  TakenInv'
  <1> USE DEF SystemInv
  <1>1. Frame(p) /\ Unlock(p) /\ seats' = seats /\ pc'[p] = "done"
    BY AbortFrame DEF Abort, Goto, TypeOK, DatabaseTypeOK, tables
  <1>2. \A s \in Seats : p \in Buyers /\ seatLock[s] = p => seats[s].status = "booked"
    BY DEF TakenInv, LockedForSale, Pending
  <1>3. \A s \in Seats : seatLock'[s] # p
    BY <1>1, UnlockedHoldsNothing
  <1>4. \A s \in Seats : Taken(s) => Taken(s)'
    BY <1>1, <1>2, SchemaAssumption DEF Taken, Frame, Procs
  <1>5. /\ \A x \in Procs : x # p => answer'[x] = answer[x]
        /\ answer'[p] = "409" => answer[p] = "409"
    BY DEF Abort, TypeOK, DatabaseTypeOK
  <1>6. \A b \in Buyers : b # p => SearchesAll(b)'
    BY <1>1, <1>4, <1>5, SearchOthers DEF TakenInv
  <1>7. p \in Buyers => SearchesAll(p)'
    BY <1>1, <1>4, <1>5, OrderType
    DEF TakenInv, SearchesAll, Frame, TypeOK, BookingsTypeOK, SeatsOf
  <1>8. QED
    BY <1>1, <1>3, <1>6, <1>7, LockedOthers DEF TakenInv

LEMMA TakenStep ==
    ASSUME NothingGivenBack
    PROVE  SystemInv /\ SystemInv' /\ HoldInv /\ LockInv /\ NoCollision /\ EveryFlightOnSale
              /\ TakenInv /\ [Next]_vars => TakenInv'
  <1> SUFFICES ASSUME SystemInv, SystemInv', HoldInv, LockInv, NoCollision, EveryFlightOnSale,
                      TakenInv, [Next]_vars
               PROVE  TakenInv'
    OBVIOUS
  <1>1. ASSUME NEW b \in Buyers, BuyStep(b) PROVE TakenInv'
    BY <1>1, BuyTaken
  <1>2. ASSUME NEW u \in Updaters, UpdateStep(u) PROVE TakenInv'
    BY <1>2, UpdateTaken
  <1>3. ASSUME NEW p \in MayFail, Fail(p) PROVE TakenInv'
    <2>1. p \in Procs /\ p \notin Buyers
      BY <1>3, FaultsAssumption DEF NothingGivenBack
    <2>2. Abort(p, "lost") /\ UNCHANGED <<bookingVars, flightVars>>
      BY <1>3 DEF Fail
    <2>3. QED
      BY <2>1, <2>2, AbortTaken
  <1>4. ASSUME NEW p \in Procs, DeadlockVictim(p) PROVE TakenInv'
    <2>1. p \in Buyers => pc[p] = "locking"
      BY <1>4, SaleNeverDeadlocks DEF DeadlockVictim
    <2>2. Abort(p, "500") /\ UNCHANGED <<bookingVars, flightVars>>
      BY <1>4 DEF DeadlockVictim
    <2>3. QED
      BY <2>1, <2>2, AbortTaken
  <1>5. CASE UNCHANGED vars
    BY <1>5 DEF vars, tables, locks, bookingVars, TakenInv, LockedForSale, SearchesAll, Taken
  <1>6. QED
    BY <1>1, <1>2, <1>3, <1>4, <1>5 DEF Next, Finished, NothingGivenBack

LEMMA TakenInit == Init => TakenInv
  BY SchemaAssumption
  DEF Init, DatabaseInit, TakenInv, LockedForSale, SearchesAll, Procs

(* With no cancellation, deletion or lost connection, and every flight left *)
(* on sale, a 409 is always just: whatever the interleaving of sales with  *)
(* each other, with lock cycles and with updates, a seat that a search has *)
(* passed over is sold by then or being sold (create_booking, "seat is not *)
(* available").                                                            *)
THEOREM RefusalsAreJust ==
    ASSUME NothingGivenBack
    PROVE  Spec /\ []NoCollision /\ []EveryFlightOnSale => []RefusedOnlyWhenTaken
  <1>1. TakenInv => RefusedOnlyWhenTaken
    BY DEF TakenInv, SearchesAll, RefusedOnlyWhenTaken, Taken
  <1>2. QED
    BY <1>1, TakenInit, TakenStep, SystemInvariance, HoldInvariance, LockInvariance, PTL DEF Spec

-----------------------------------------------------------------------------
(* With references that two requests cannot both draw, the conditions are   *)
(* met.                                                                    *)

(* What a passenger may rely on: a confirmed booking keeps its seat, an     *)
(* ordinary sale is in no lock cycle, the tables implement SeatSales, and  *)
(* with it its promise of one seat for each sale.                          *)
COROLLARY PassengersAreServed ==
    ASSUME DistinctReferences
    PROVE  Spec => /\ []ConfirmedHoldsSeat
                   /\ []OrdinarySaleNeverDeadlocks
                   /\ SeatSalesImplemented
                   /\ []Sales!OneSeatEach
  <1>1. Sales!SalesAssumption
    BY SchemaAssumption DEF Sales!SalesAssumption, Procs
  <1>2. SeatSalesImplemented => []Sales!OneSeatEach
    BY <1>1, Sales!OneSeatForEachSale DEF SeatSalesImplemented
  <1>3. QED
    BY <1>2, DistinctReferencesNeverCollide, ConfirmedAlwaysHoldsSeat, OrdinarySalesNeverDeadlock,
       SalesAlwaysImplemented, PTL

(* Sales alone never take a flight off sale.                               *)
LEMMA FlightsStayOnSale ==
    ASSUME Updaters = {}, Deleters = {}
    PROVE  Spec => []EveryFlightOnSale
  <1>1. Init => EveryFlightOnSale
    BY DEF Init, DatabaseInit, EveryFlightOnSale
  <1>2. TypeOK /\ EveryFlightOnSale /\ [Next]_vars => EveryFlightOnSale'
    <2> SUFFICES ASSUME TypeOK, EveryFlightOnSale, [Next]_vars PROVE EveryFlightOnSale'
      OBVIOUS
    <2>1. ASSUME NEW b \in Buyers, BuyStep(b) PROVE flights' = flights
      BY <2>1, BuyFrame DEF CommitSale, tables
    <2>2. ASSUME NEW c \in Cancellers, CancelStep(c) PROVE flights' = flights
      BY <2>2, CancelFrame DEF CommitCancel, tables
    <2>3. ASSUME NEW p \in Procs, NEW status, Abort(p, status) PROVE flights' = flights
      BY <2>3 DEF Abort, tables
    <2>4. CASE UNCHANGED vars
      BY <2>4 DEF vars, tables, EveryFlightOnSale
    <2>5. QED
      BY <2>1, <2>2, <2>3, <2>4, FaultsAssumption
      DEF Next, Finished, Fail, DeadlockVictim, EveryFlightOnSale
  <1>3. QED
    BY <1>1, <1>2, TypeCorrect, PTL DEF Spec

(* Sales that only meet each other refuse nobody a seat that is to be had.  *)
COROLLARY SalesRefuseJustly ==
    ASSUME DistinctReferences, NothingGivenBack, Updaters = {}
    PROVE  Spec => []RefusedOnlyWhenTaken
  BY DistinctReferencesNeverCollide, FlightsStayOnSale, RefusalsAreJust, PTL DEF NothingGivenBack

=============================================================================
