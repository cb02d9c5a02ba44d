----------------------------- MODULE SeatSales -----------------------------
(***************************************************************************)
(* What the booking back end promises, with no requests, locks or          *)
(* transactions in sight: selling a seat, cancelling a sale and            *)
(* withdrawing an unsold flight are single, indivisible events.            *)
(***************************************************************************)
EXTENDS Naturals, TLAPS

CONSTANTS Seats, Flights, FlightOf, Bookings, Nobody

(* What the parameters must be for the promise to make sense. *)
SalesAssumption ==
    /\ FlightOf \in [Seats -> Flights]
    /\ Nobody \notin Bookings \cup Flights

VARIABLES
    holder,     \* the booking each seat is sold to
    sale,       \* what has become of each booking
    soldOn,     \* the flight each booking was sold on
    flying      \* the flights that have not been withdrawn

vars == <<holder, sale, soldOn, flying>>

TypeOK ==
    /\ holder \in [Seats -> Bookings \cup {Nobody}]
    /\ sale \in [Bookings -> {"absent", "confirmed", "cancelled"}]
    /\ soldOn \in [Bookings -> Flights \cup {Nobody}]
    /\ flying \subseteq Flights

Init ==
    /\ holder = [s \in Seats |-> Nobody]
    /\ sale = [b \in Bookings |-> "absent"]
    /\ soldOn = [b \in Bookings |-> Nobody]
    /\ flying = Flights

(* A sale takes one seat that nobody holds, on a flight that exists.       *)
Sell(b, s) ==
    /\ sale[b] = "absent"
    /\ holder[s] = Nobody
    /\ FlightOf[s] \in flying
    /\ holder' = [holder EXCEPT ![s] = b]
    /\ sale' = [sale EXCEPT ![b] = "confirmed"]
    /\ soldOn' = [soldOn EXCEPT ![b] = FlightOf[s]]
    /\ UNCHANGED flying

(* A cancellation is final, and gives back what the booking holds and      *)
(* nothing else.                                                           *)
CancelSale(b) ==
    /\ sale[b] = "confirmed"
    /\ sale' = [sale EXCEPT ![b] = "cancelled"]
    /\ holder' = [s \in Seats |-> IF holder[s] = b THEN Nobody ELSE holder[s]]
    /\ UNCHANGED <<soldOn, flying>>

(* Only a flight on which nothing was ever sold can be withdrawn.          *)
Withdraw(f) ==
    /\ f \in flying
    /\ \A b \in Bookings : soldOn[b] # f
    /\ flying' = flying \ {f}
    /\ UNCHANGED <<holder, sale, soldOn>>

Next ==
    \/ \E b \in Bookings, s \in Seats : Sell(b, s)
    \/ \E b \in Bookings : CancelSale(b)
    \/ \E f \in Flights : Withdraw(f)

Spec == Init /\ [][Next]_vars

(* A booking is confirmed exactly while it holds a seat, and then holds    *)
(* one seat, of the flight it was sold on.                                 *)
OneSeatEach ==
    \A b \in Bookings :
        IF sale[b] = "confirmed"
           THEN \E s \in Seats : /\ holder[s] = b /\ FlightOf[s] = soldOn[b]
                                 /\ \A t \in Seats : holder[t] = b => t = s
           ELSE \A s \in Seats : holder[s] # b

-----------------------------------------------------------------------------
(* The promise is worth keeping. *)

(* A sale gives its booking the one seat it takes; that seat was nobody's,  *)
(* so every other booking keeps what it holds.                             *)
LEMMA SellKeepsOneSeat ==
    ASSUME SalesAssumption, TypeOK, OneSeatEach,
           NEW b \in Bookings, NEW s \in Seats, Sell(b, s)
    PROVE  TypeOK' /\ OneSeatEach'
<1>1. TypeOK'
  BY DEF TypeOK, Sell, SalesAssumption
<1>2. OneSeatEach'
  <2> SUFFICES ASSUME NEW x \in Bookings
               PROVE  IF sale'[x] = "confirmed"
                         THEN \E t \in Seats :
                                 /\ holder'[t] = x /\ FlightOf[t] = soldOn'[x]
                                 /\ \A u \in Seats : holder'[u] = x => u = t
                         ELSE \A t \in Seats : holder'[t] # x
    BY DEF OneSeatEach
  <2>1. CASE x = b
    <3>1. \A t \in Seats : holder[t] # b
      BY DEF Sell, OneSeatEach
    <3>2. holder'[s] = b /\ FlightOf[s] = soldOn'[b] /\ sale'[b] = "confirmed"
      BY DEF Sell, TypeOK
    <3>3. \A u \in Seats : holder'[u] = b => u = s
      BY <3>1 DEF Sell, TypeOK
    <3> QED
      BY <2>1, <3>2, <3>3
  <2>2. CASE x # b
    <3>1. \A t \in Seats : holder'[t] = x <=> holder[t] = x
      BY <2>2 DEF Sell, TypeOK, SalesAssumption
    <3>2. sale'[x] = sale[x] /\ soldOn'[x] = soldOn[x]
      BY <2>2 DEF Sell, TypeOK
    <3> QED
      BY <3>1, <3>2 DEF OneSeatEach
  <2> QED
    BY <2>1, <2>2
<1> QED
  BY <1>1, <1>2

(* A cancellation takes from its booking all that it holds, and nothing     *)
(* from any other.                                                         *)
LEMMA CancelKeepsOneSeat ==
    ASSUME SalesAssumption, TypeOK, OneSeatEach, NEW b \in Bookings, CancelSale(b)
    PROVE  TypeOK' /\ OneSeatEach'
<1>1. TypeOK'
  BY DEF TypeOK, CancelSale
<1>2. \A t \in Seats : holder'[t] # b
  BY DEF CancelSale, SalesAssumption
<1>3. \A x \in Bookings \ {b}, t \in Seats : holder'[t] = x <=> holder[t] = x
  BY DEF CancelSale, SalesAssumption
<1>4. sale'[b] # "confirmed" /\ \A x \in Bookings \ {b} : sale'[x] = sale[x]
  BY DEF CancelSale, TypeOK
<1>5. soldOn' = soldOn
  BY DEF CancelSale
<1>6. OneSeatEach'
  BY <1>2, <1>3, <1>4, <1>5 DEF OneSeatEach
<1> QED
  BY <1>1, <1>6

(* Every confirmed booking holds exactly one seat, of the flight it was     *)
(* sold on; a cancelled booking, and one that was never made, hold none    *)
(* (create_booking and cancel_booking as a passenger may rely on them).    *)
THEOREM OneSeatForEachSale ==
    ASSUME SalesAssumption
    PROVE  Spec => []OneSeatEach
<1>1. Init => TypeOK /\ OneSeatEach
  BY SalesAssumption DEF Init, TypeOK, OneSeatEach, SalesAssumption
<1>2. TypeOK /\ OneSeatEach /\ [Next]_vars => (TypeOK /\ OneSeatEach)'
  <2> SUFFICES ASSUME TypeOK, OneSeatEach, [Next]_vars
               PROVE  TypeOK' /\ OneSeatEach'
    OBVIOUS
  <2>1. ASSUME NEW b \in Bookings, NEW s \in Seats, Sell(b, s)
        PROVE  TypeOK' /\ OneSeatEach'
    BY <2>1, SalesAssumption, SellKeepsOneSeat
  <2>2. ASSUME NEW b \in Bookings, CancelSale(b)
        PROVE  TypeOK' /\ OneSeatEach'
    BY <2>2, SalesAssumption, CancelKeepsOneSeat
  <2>3. ASSUME NEW f \in Flights, Withdraw(f)
        PROVE  TypeOK' /\ OneSeatEach'
    BY <2>3 DEF Withdraw, TypeOK, OneSeatEach
  <2>4. CASE UNCHANGED vars
    BY <2>4 DEF vars, TypeOK, OneSeatEach
  <2> QED
    BY <2>1, <2>2, <2>3, <2>4 DEF Next
<1> QED
  BY <1>1, <1>2, PTL DEF Spec

=============================================================================
