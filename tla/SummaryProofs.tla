--------------------------- MODULE SummaryProofs ---------------------------
(***************************************************************************)
(* The figures of the administrator's summary are of different moments.    *)
(* Each is bounded by what the tables held when it was read, and while     *)
(* nobody cancels the tables only ever sell more.                          *)
(***************************************************************************)
EXTENDS SaleProofs, OperationsSummary

-----------------------------------------------------------------------------
(* The sum behind revenue_eur.                                             *)

(* What revenue_eur adds up, for any table of rows and any set of them.    *)
AmountOf(rows, S) == MapThenSumSet(LAMBDA b : rows[b].fare, S)

AnyOf(S) == CHOOSE x \in S : TRUE

(* sum is the fold over the subsets of S. *)
Adds(sum, rows, S) ==
    sum = [T \in SUBSET S |-> IF T = {} THEN 0
                              ELSE rows[AnyOf(T)].fare + sum[T \ {AnyOf(T)}]]

(* The fold of the community modules is a function on the subsets of S ... *)
LEMMA AmountUnfolded ==
    ASSUME NEW rows, NEW S
    PROVE  AmountOf(rows, S) = (CHOOSE sum : Adds(sum, rows, S))[S]
  BY DEF AmountOf, MapThenSumSet, MapThenFoldSet, Adds, AnyOf

LEMMA SmallestSubset ==
    ASSUME NEW S, IsFiniteSet(S), NEW Ts \in SUBSET (SUBSET S), Ts # {}
    PROVE  \E T \in Ts : \A U \in Ts : U \subseteq T => U = T
  <1>1. IsWellFoundedOn(StrictSubsetOrdering(S), SUBSET S)
    BY FS_StrictSubsetOrderingWellFounded, FS_FiniteSubsetsOfFinite
  <1>2. PICK T \in Ts : \A U \in Ts : <<U, T>> \notin StrictSubsetOrdering(S)
    BY <1>1, WFMin
  <1>3. QED
    BY <1>2 DEF StrictSubsetOrdering

LEMMA Removed ==
    ASSUME NEW T, T # {}
    PROVE  AnyOf(T) \in T /\ T \ {AnyOf(T)} \subseteq T /\ T \ {AnyOf(T)} # T
  BY DEF AnyOf

(* ... which is determined by what it adds up ...                          *)
LEMMA AddsUnique ==
    ASSUME NEW rows, NEW S, IsFiniteSet(S), NEW T \in SUBSET S, NEW f, NEW g, Adds(f, rows, S),
           Adds(g, rows, T), NEW U \in SUBSET T
    PROVE  f[U] = g[U]
  <1> DEFINE differ == {V \in SUBSET T : f[V] # g[V]}
  <1> SUFFICES ASSUME differ # {} PROVE FALSE
    OBVIOUS
  <1>1. PICK V \in differ : \A W \in differ : W \subseteq V => W = V
    BY FS_Subset, SmallestSubset
  <1>2. V # {}
    BY DEF Adds
  <1>3. f[V \ {AnyOf(V)}] = g[V \ {AnyOf(V)}]
    BY <1>1, <1>2, Removed
  <1>4. QED
    BY <1>2, <1>3 DEF Adds

(* ... and which exists: every finite set is reached by adding elements.   *)
LEMMA AddsExists ==
    ASSUME NEW rows, NEW S, IsFiniteSet(S)
    PROVE  \E sum : Adds(sum, rows, S)
  <1> DEFINE none == {T \in SUBSET S : ~ \E sum : Adds(sum, rows, T)}
  <1> SUFFICES ASSUME none # {} PROVE FALSE
    OBVIOUS
  <1>1. PICK T \in none : \A U \in none : U \subseteq T => U = T
    <2>1. none \in SUBSET (SUBSET S)
      OBVIOUS
    <2> HIDE DEF none
    <2>2. QED
      BY <2>1, SmallestSubset
  <1> DEFINE Sum(U) == CHOOSE sum : Adds(sum, rows, U)
             Rest(U) == U \ {AnyOf(U)}
             sum == [U \in SUBSET T |-> IF U = {} THEN 0
                                        ELSE rows[AnyOf(U)].fare + Sum(Rest(U))[Rest(U)]]
  <1>2. \A U \in SUBSET T : U # T => Adds(Sum(U), rows, U)
    <2> SUFFICES ASSUME NEW U \in SUBSET T, U # T PROVE Adds(Sum(U), rows, U)
      OBVIOUS
    <2>1. \E f : Adds(f, rows, U)
      BY <1>1
    <2>2. QED
      BY <2>1
  <1>3. ASSUME NEW U \in SUBSET T, U # T PROVE sum[U] = Sum(U)[U]
    <2>1. CASE U = {}
      <3>1. Adds(Sum(U), rows, U)
        BY <1>2, <1>3
      <3> HIDE DEF Sum
      <3>2. Sum(U)[U] = 0
        BY <2>1, <3>1 DEF Adds
      <3>3. QED
        BY <2>1, <3>2
    <2>2. CASE U # {}
      <3>1. Adds(Sum(U), rows, U) /\ Rest(U) \in SUBSET U
        BY <1>2, <1>3
      <3>2. Rest(U) \in SUBSET T /\ Rest(U) # T
        BY <1>3, <2>2, Removed
      <3>3. Adds(Sum(Rest(U)), rows, Rest(U))
        BY <1>2, <3>2
      <3>4. IsFiniteSet(U)
        BY FS_Subset
      <3>5. Sum(U)[Rest(U)] = Sum(Rest(U))[Rest(U)]
        <4> HIDE DEF Sum, Rest
        <4>1. QED
          BY <3>1, <3>3, <3>4, AddsUnique
      <3>6. Sum(U)[U] = rows[AnyOf(U)].fare + Sum(U)[Rest(U)]
        <4> HIDE DEF Sum
        <4>1. QED
          BY <2>2, <3>1 DEF Adds
      <3>7. QED
        BY <2>2, <3>5, <3>6
    <2>3. QED
      BY <2>1, <2>2
  <1>4. \A U \in SUBSET T : U # {} => Rest(U) \in SUBSET T /\ Rest(U) # T
    BY Removed
  <1>5. \A U \in SUBSET T : U # {} => sum[Rest(U)] = Sum(Rest(U))[Rest(U)]
    BY <1>3, <1>4
  <1>6. Adds(sum, rows, T)
    <2>1. sum = [U \in SUBSET T |-> IF U = {} THEN 0 ELSE rows[AnyOf(U)].fare + sum[Rest(U)]]
      <3> HIDE DEF Rest, Sum
      <3>1. QED
        BY <1>5
    <2>2. QED
      BY <2>1 DEF Adds
  <1>7. QED
    BY <1>6

(* A sum of so many amounts, each of at least so much.                     *)
LEMMA AmountBound ==
    ASSUME NEW rows, NEW S, IsFiniteSet(S), NEW least \in Nat,
           \A b \in S : rows[b].fare \in Nat /\ rows[b].fare >= least
    PROVE  AmountOf(rows, S) \in Nat /\ AmountOf(rows, S) >= Cardinality(S) * least
  <1> DEFINE sum == CHOOSE sum : Adds(sum, rows, S)
             Bounded(T) == sum[T] \in Nat /\ sum[T] >= Cardinality(T) * least
             bad == {T \in SUBSET S : ~Bounded(T)}
  <1>1. Adds(sum, rows, S)
    BY AddsExists
  <1> HIDE DEF sum
  <1>2. SUFFICES ASSUME bad # {} PROVE FALSE
    <2>1. Bounded(S)
      BY <1>2
    <2>2. QED
      BY <2>1, AmountUnfolded DEF sum
  <1>3. PICK T \in bad : \A U \in bad : U \subseteq T => U = T
    <2>1. bad \in SUBSET (SUBSET S)
      OBVIOUS
    <2> HIDE DEF bad
    <2>2. QED
      BY <1>2, <2>1, SmallestSubset
  <1>4. T # {}
    <2> SUFFICES ASSUME T = {} PROVE FALSE
      OBVIOUS
    <2>1. sum[T] = 0 /\ Cardinality(T) = 0
      BY <1>1, FS_EmptySet DEF Adds
    <2>2. QED
      BY <2>1
  <1> DEFINE b == AnyOf(T)
             rest == T \ {b}
  <1>5. Bounded(rest) /\ b \in S /\ b \in T
    BY <1>3, <1>4, Removed
  <1>6. IsFiniteSet(T)
    BY FS_Subset
  <1>7. Cardinality(rest) = Cardinality(T) - 1 /\ Cardinality(T) \in Nat /\ Cardinality(rest) \in Nat
    BY <1>5, <1>6, FS_RemoveElement, FS_CardinalityType
  <1>8. sum[T] = rows[b].fare + sum[rest]
    BY <1>1, <1>4 DEF Adds
  <1>9. Cardinality(T) * least = Cardinality(rest) * least + least
    <2> HIDE DEF rest
    <2>1. QED
      BY <1>7
  <1>10. Bounded(T)
    <2> DEFINE c == Cardinality(rest) * least
    <2>1. sum[rest] \in Nat /\ sum[rest] >= c /\ c \in Nat
      BY <1>5, <1>7
    <2>2. rows[b].fare \in Nat /\ rows[b].fare >= least
      BY <1>5
    <2>3. Cardinality(T) * least = c + least
      BY <1>9
    <2> HIDE DEF b, rest, c
    <2>4. QED
      BY <1>8, <2>1, <2>2, <2>3
  <1>11. QED
    BY <1>10

-----------------------------------------------------------------------------
(* A booking costs a fare that the airline has published.                  *)

Reads == {"searching", "locking"} \cup Pending

CostsAFare(b) ==
    /\ pc[b] \in Reads => loaded[b].fare \in Fares
    /\ bookings[b].status = "confirmed" => bookings[b].fare \in Fares

FareInv ==
    /\ \A f \in Flights : flights[f].fare \in Fares
    /\ \A b \in Buyers : CostsAFare(b)

LEMMA BuyFare ==
    ASSUME SystemInv, FareInv, NEW b \in Buyers, BuyStep(b)
    PROVE  FareInv'
  <1> /\ pc \in [Procs -> Labels] /\ b \in Procs /\ order[b].flight \in Flights
      /\ loaded \in [Buyers \cup Updaters -> FlightRow] /\ bookings \in [Buyers -> BookingRow]
    BY OrderType DEF SystemInv, TypeOK, DatabaseTypeOK, BookingsTypeOK, Procs
  <1>1. flights' = flights
    BY BuyFrame DEF SystemInv, CommitSale, tables
  <1>2. ASSUME NEW x \in Buyers, x # b PROVE CostsAFare(x)'
    <2>1. pc'[x] = pc[x] /\ loaded'[x] = loaded[x] /\ bookings'[x] = bookings[x]
      BY <1>2
      DEF BuyStep, Buy, ReadFlight, FlightNotBookable, UnknownFareClass,
          SearchSeats, LockSeat, PassSeat, SkipLockedSeat, SeatNotAvailable, DrawReference,
          InsertBooking, CheckFlight, RetryReference, GiveUpReference, MarkSeat, CommitSale,
          Refuse, Commit, Goto, tables, Procs
    <2>2. QED
      BY <2>1 DEF FareInv, CostsAFare
  <1> USE DEF Goto, tables, FareInv, CostsAFare, Reads, Pending
  <1>3. CASE FlightNotBookable(b) \/ UnknownFareClass(b) \/ SeatNotAvailable(b) \/ GiveUpReference(b)
    <2>1. CostsAFare(b)'
      BY <1>3
      DEF FlightNotBookable, UnknownFareClass, SeatNotAvailable, GiveUpReference, Refuse
    <2>2. QED
      BY <1>1, <1>2, <2>1
  <1>4. CASE ReadFlight(b)
    <2>1. CostsAFare(b)'
      BY <1>4 DEF ReadFlight
    <2>2. QED
      BY <1>1, <1>2, <2>1
  <1>5. CASE \/ SearchSeats(b) \/ LockSeat(b) \/ PassSeat(b) \/ SkipLockedSeat(b)
             \/ DrawReference(b) \/ InsertBooking(b) \/ CheckFlight(b) \/ RetryReference(b)
             \/ MarkSeat(b)
    <2>1. CostsAFare(b)'
      BY <1>5
      DEF SearchSeats, LockSeat, PassSeat, SkipLockedSeat, DrawReference, InsertBooking, CheckFlight,
          RetryReference, IntegrityError, MarkSeat
    <2>2. QED
      BY <1>1, <1>2, <2>1
  <1>6. CASE CommitSale(b)
    <2>1. CostsAFare(b)'
      BY <1>6 DEF CommitSale, Commit
    <2>2. QED
      BY <1>1, <1>2, <2>1
  <1>7. QED
    BY <1>3, <1>4, <1>5, <1>6 DEF BuyStep, Buy

LEMMA UpdateFare ==
    ASSUME SystemInv, FareInv, NEW u \in Updaters, UpdateStep(u)
    PROVE  FareInv'
  <1> USE DEF SystemInv
  <1>1. /\ u \notin Buyers /\ u \in Procs
        /\ Frame(u) /\ (CommitPatch(u) \/ UNCHANGED tables)
    BY UpdateFrame, RequestsAreDistinct DEF Procs, TypeOK, FlightsTypeOK, Changes
  <1>2. \A f \in Flights : flights'[f].fare \in Fares
    <2>1. CASE CommitPatch(u)
      BY <1>1, <2>1 DEF CommitPatch, NewFare, FareInv, TypeOK, DatabaseTypeOK
    <2>2. CASE UNCHANGED tables
      BY <2>2 DEF tables, FareInv
    <2>3. QED
      BY <1>1, <2>1, <2>2
  <1>3. ASSUME NEW b \in Buyers PROVE CostsAFare(b)'
    <2>1. pc'[b] = pc[b] /\ bookings'[b] = bookings[b]
      BY <1>1 DEF Frame, Procs, CommitPatch, tables
    <2>2. loaded'[b] = loaded[b]
      BY <1>1
      DEF UpdateStep, Update, ReadForUpdate, UpdateNotFound, CountSold, CannotReprice, InvalidStatus,
          FareTooSmall, PatchFlight, PatchNothing, FlightGone, CommitPatch, Refuse, Commit, TypeOK, DatabaseTypeOK
    <2>3. QED
      BY <2>1, <2>2 DEF FareInv, CostsAFare
  <1>4. QED
    BY <1>2, <1>3 DEF FareInv

LEMMA DeleteFare ==
    ASSUME SystemInv, FareInv, NEW d \in Deleters, DeleteStep(d)
    PROVE  FareInv'
  <1> USE DEF SystemInv
  <1>1. /\ d \notin Buyers /\ d \in Procs
        /\ Frame(d) /\ (CommitDelete(d) \/ UNCHANGED tables)
    BY DeleteFrame, RequestsAreDistinct DEF Procs
  <1>2. \A f \in Flights : flights'[f].fare \in Fares
    BY <1>1 DEF CommitDelete, FareInv, TypeOK, DatabaseTypeOK, FlightRow, tables
  <1>3. ASSUME NEW b \in Buyers PROVE CostsAFare(b)'
    <2>1. pc'[b] = pc[b] /\ bookings'[b] = bookings[b]
      BY <1>1 DEF Frame, Procs, CommitDelete, tables
    <2>2. loaded'[b] = loaded[b]
      BY DEF DeleteStep, Delete, FindForDelete, DeleteNotFound, LoadCabin, CannotDelete, DeleteSeat,
             DeleteRow, Restricted, SendDeleted, CommitDelete, Refuse, Commit
    <2>3. QED
      BY <2>1, <2>2 DEF FareInv, CostsAFare
  <1>4. QED
    BY <1>2, <1>3 DEF FareInv

LEMMA AbortFare ==
    ASSUME SystemInv, FareInv, NEW p \in Procs, NEW status, Abort(p, status)
    PROVE  FareInv'
  <1>1. /\ flights' = flights /\ bookings' = bookings /\ loaded' = loaded
        /\ \A b \in Buyers : pc'[b] \in {pc[b], "done"}
    BY DEF SystemInv, TypeOK, DatabaseTypeOK, Abort, Goto, tables, Procs
  <1>2. QED
    BY <1>1 DEF FareInv, CostsAFare, Reads, Pending

-----------------------------------------------------------------------------
(* While nobody cancels, what is sold stays sold. *)

Booked == {s \in Seats : seats[s].status = "booked"}

LEMMA FiniteFigures ==
    /\ IsFiniteSet(Confirmed) /\ Cardinality(Confirmed) \in Nat
    /\ IsFiniteSet(Booked) /\ Cardinality(Booked) \in Nat
  BY FiniteTables, FS_Subset, FS_CardinalityType DEF Confirmed, Booked

(* The seats of two bookings are two seats.                                *)
LEMMA ConfirmedAreSeated ==
    ASSUME HoldInv
    PROVE  Cardinality(Confirmed) <= Cardinality(Booked)
  <1> DEFINE seat == [b \in Confirmed |-> chosen[b]]
  <1>1. \A b \in Confirmed : seat[b] \in Booked /\ seats[seat[b]].booking = b
    BY DEF Confirmed, Booked, HoldInv, SitsOnChosen
  <1>2. seat \in Injection(Confirmed, Booked)
    BY <1>1 DEF Injection, IsInjective
  <1>3. QED
    BY <1>2, FiniteFigures, FS_Injection

LEMMA SoldStaysSold ==
    ASSUME Cancellers = {}, SystemInv, HoldInv, [Next]_vars
    PROVE  Confirmed \subseteq Confirmed' /\ Booked \subseteq Booked'
  <1> USE DEF SystemInv
  <1>1. ASSUME NEW b \in Buyers, BuyStep(b)
        PROVE  Confirmed \subseteq Confirmed' /\ Booked \subseteq Booked'
    <2>1. CommitSale(b) \/ UNCHANGED tables
      BY <1>1, BuyFrame
    <2>2. QED
      BY <2>1 DEF CommitSale, tables, Confirmed, Booked, TypeOK, DatabaseTypeOK
  <1>2. ASSUME NEW u \in Updaters, UpdateStep(u)
        PROVE  Confirmed \subseteq Confirmed' /\ Booked \subseteq Booked'
    BY <1>2, UpdateFrame DEF CommitPatch, tables, Confirmed, Booked
  <1>3. ASSUME NEW d \in Deleters, DeleteStep(d)
        PROVE  Confirmed \subseteq Confirmed' /\ Booked \subseteq Booked'
    <2>1. CommitDelete(d) \/ UNCHANGED tables
      BY <1>3, DeleteFrame
    <2>2. CommitDelete(d) => \A s \in Seats : seatLock[s] = d => seats[s].status # "booked"
      <3>1. \A s \in Seats : seats[s].status = "booked" => seats[s].booking \in Buyers
        BY DEF SaleInv, NamesItsSale, TypeOK, DatabaseTypeOK, SeatRow
      <3>2. CommitDelete(d) => pc[d] = "committing"
        BY DEF CommitDelete
      <3>3. QED
        BY <1>3, <3>1, <3>2, DeletesUnsoldSeats
    <2>3. QED
      BY <2>1, <2>2 DEF CommitDelete, tables, Confirmed, Booked, TypeOK, DatabaseTypeOK
  <1>4. ASSUME NEW p \in Procs, NEW status, Abort(p, status)
        PROVE  Confirmed \subseteq Confirmed' /\ Booked \subseteq Booked'
    BY <1>4 DEF Abort, tables, Confirmed, Booked
  <1>5. CASE UNCHANGED vars
    BY <1>5 DEF vars, tables, Confirmed, Booked
  <1>6. QED
    BY <1>1, <1>2, <1>3, <1>4, <1>5, FaultsAssumption DEF Next, Finished, Fail, DeadlockVictim

-----------------------------------------------------------------------------
(* The inductive invariant: each figure against the tables, or against one  *)
(* that was read before it.                                                *)

SummaryInv ==
    /\ "confirmed_bookings" \in DOMAIN summary =>
          /\ summary["confirmed_bookings"] \in Nat
          /\ summary["confirmed_bookings"] <= Cardinality(Confirmed)
    /\ "revenue_eur" \in DOMAIN summary =>
          /\ "confirmed_bookings" \in DOMAIN summary
          /\ \E fare \in Fares :
                summary["revenue_eur"] >= summary["confirmed_bookings"] * fare
    /\ "seats_sold" \in DOMAIN summary =>
          /\ "confirmed_bookings" \in DOMAIN summary
          /\ summary["seats_sold"] \in Nat
          /\ summary["confirmed_bookings"] <= summary["seats_sold"]
          /\ summary["seats_sold"] <= Cardinality(Booked)
    /\ "seats_total" \in DOMAIN summary =>
          /\ "seats_sold" \in DOMAIN summary
          /\ summary["seats_sold"] <= summary["seats_total"]

LEMMA LeastFare ==
    ASSUME Fares # {}
    PROVE  \E least \in Fares : \A fare \in Fares : fare >= least
  <1>1. Fares \subseteq Nat
    BY SchemaAssumption
  <1>2. PICK least \in Fares : \A fare \in Fares : <<fare, least>> \notin OpToRel(<, Nat)
    BY <1>1, NatLessThanWellFounded, WFMin
  <1>3. ASSUME NEW fare \in Fares PROVE fare >= least
    <2>1. ~(fare < least)
      <3>1. fare \in Nat /\ least \in Nat /\ <<fare, least>> \notin OpToRel(<, Nat)
        BY <1>1, <1>2
      <3>2. QED
        BY <3>1 DEF OpToRel
    <2>2. QED
      BY <1>1, <2>1
  <1>4. QED
    BY <1>3

(* Every confirmed booking is paid for. *)
LEMMA RevenueBound ==
    ASSUME FareInv, NEW least \in Fares, \A fare \in Fares : fare >= least
    PROVE  /\ Figures.revenue_eur \in Nat
           /\ Figures.revenue_eur >= Cardinality(Confirmed) * least
  <1>1. Figures.revenue_eur = AmountOf(bookings, Confirmed)
    BY DEF Figures, AmountOf, MapThenSumSet, MapThenFoldSet
  <1>2. \A b \in Confirmed : bookings[b].fare \in Nat /\ bookings[b].fare >= least
    BY SchemaAssumption DEF FareInv, CostsAFare, Confirmed
  <1>3. IsFiniteSet(Confirmed) /\ least \in Nat
    BY FiniteFigures, SchemaAssumption
  <1>4. QED
    BY <1>1, <1>2, <1>3, AmountBound

(* The bookings are counted before the other figures that depend on them.  *)
LEMMA ReadInOrder ==
    ASSUME ReadFigure
    PROVE  \E name \in DOMAIN Figures :
              /\ name \notin DOMAIN summary
              /\ summary' = [x \in DOMAIN summary \cup {name} |->
                                IF x \in DOMAIN summary THEN summary[x] ELSE Figures[x]]
              /\ name \in {"revenue_eur", "seats_sold"} => "confirmed_bookings" \in DOMAIN summary
              /\ name = "seats_total" => "seats_sold" \in DOMAIN summary
  <1>1. PICK n \in DOMAIN Statements :
              /\ DOMAIN summary = {Statements[m] : m \in 1 .. n - 1}
              /\ summary' = [x \in DOMAIN summary \cup {Statements[n]} |->
                                IF x \in DOMAIN summary THEN summary[x] ELSE Figures[x]]
    BY DEF ReadFigure
  <1>2. /\ DOMAIN Statements = 1 .. 5
        /\ Statements[1] = "flights" /\ Statements[2] = "confirmed_bookings"
        /\ Statements[3] = "revenue_eur" /\ Statements[4] = "seats_sold"
        /\ Statements[5] = "seats_total"
    BY DEF Statements
  <1>3. DOMAIN Figures = {"flights", "confirmed_bookings", "revenue_eur", "seats_sold", "seats_total"}
    BY DEF Figures
  <1>4. n \in 1 .. 5 /\ Statements[n] \in DOMAIN Figures
    BY <1>2, <1>3
  <1>5. Statements[n] \notin DOMAIN summary
    BY <1>1, <1>2, <1>4
  <1>6. /\ Statements[n] \in {"revenue_eur", "seats_sold"} => "confirmed_bookings" \in DOMAIN summary
        /\ Statements[n] = "seats_total" => "seats_sold" \in DOMAIN summary
    BY <1>1, <1>2, <1>4
  <1>7. QED
    BY <1>1, <1>4, <1>5, <1>6

(* What is read bears out what has been read. *)
LEMMA ReadSummary ==
    ASSUME Fares # {}, HoldInv, FareInv, SummaryInv, ReadFigure
    PROVE  SummaryInv'
  <1>1. PICK name \in DOMAIN Figures :
              /\ name \notin DOMAIN summary
              /\ summary' = [x \in DOMAIN summary \cup {name} |->
                                IF x \in DOMAIN summary THEN summary[x] ELSE Figures[x]]
              /\ name \in {"revenue_eur", "seats_sold"} => "confirmed_bookings" \in DOMAIN summary
              /\ name = "seats_total" => "seats_sold" \in DOMAIN summary
    BY ReadInOrder
  <1>2. /\ DOMAIN summary' = DOMAIN summary \cup {name}
        /\ \A x \in DOMAIN summary : summary'[x] = summary[x]
        /\ summary'[name] = Figures[name]
    BY <1>1
  <1>3. Confirmed' = Confirmed /\ Booked' = Booked
    BY DEF ReadFigure, vars, tables, Confirmed, Booked
  <1>4. CASE name = "flights"
    BY <1>1, <1>2, <1>3, <1>4 DEF SummaryInv
  <1>5. CASE name = "confirmed_bookings"
    <2>1. summary'["confirmed_bookings"] = Cardinality(Confirmed)
      BY <1>2, <1>5 DEF Figures
    <2>2. DOMAIN summary \cap {"revenue_eur", "seats_sold", "seats_total"} = {}
      BY <1>1, <1>5 DEF SummaryInv
    <2>3. QED
      BY <1>2, <1>3, <1>5, <2>1, <2>2, FiniteFigures DEF SummaryInv
  <1>6. CASE name = "revenue_eur"
    <2>1. PICK least \in Fares : \A fare \in Fares : fare >= least
      BY LeastFare
    <2>2. summary'["revenue_eur"] = Figures.revenue_eur
      BY <1>2, <1>6
    <2>3. Figures.revenue_eur \in Nat /\ Figures.revenue_eur >= Cardinality(Confirmed) * least
      BY <2>1, RevenueBound
    <2>4. /\ summary["confirmed_bookings"] \in Nat
          /\ summary["confirmed_bookings"] <= Cardinality(Confirmed)
      BY <1>1, <1>6 DEF SummaryInv
    <2>5. Cardinality(Confirmed) * least >= summary["confirmed_bookings"] * least
      BY <2>4, FiniteFigures, SchemaAssumption
    <2>6. summary["confirmed_bookings"] * least \in Nat /\ Cardinality(Confirmed) * least \in Nat
      BY <2>4, FiniteFigures, SchemaAssumption
    <2>7. Figures.revenue_eur >= summary["confirmed_bookings"] * least
      BY <2>3, <2>5, <2>6
    <2>8. \E fare \in Fares : summary'["revenue_eur"] >= summary'["confirmed_bookings"] * fare
      BY <1>1, <1>2, <1>6, <2>2, <2>7
    <2>9. QED
      BY <1>1, <1>2, <1>3, <1>6, <2>8 DEF SummaryInv
  <1>7. CASE name = "seats_sold"
    <2>1. summary'["seats_sold"] = Cardinality(Booked)
      BY <1>2, <1>7 DEF Figures, Booked
    <2>2. /\ summary["confirmed_bookings"] \in Nat
          /\ summary["confirmed_bookings"] <= Cardinality(Confirmed)
      BY <1>1, <1>7 DEF SummaryInv
    <2>3. summary["confirmed_bookings"] <= Cardinality(Booked)
      BY <2>2, FiniteFigures, ConfirmedAreSeated
    <2>4. DOMAIN summary \cap {"seats_total"} = {}
      BY <1>1, <1>7 DEF SummaryInv
    <2>5. QED
      BY <1>1, <1>2, <1>3, <1>7, <2>1, <2>3, <2>4, FiniteFigures DEF SummaryInv
  <1>8. CASE name = "seats_total"
    <2> DEFINE present == {s \in Seats : seats[s].status # "absent"}
    <2>1. summary'["seats_total"] = Cardinality(present)
      BY <1>2, <1>8 DEF Figures
    <2>2. Cardinality(Booked) <= Cardinality(present) /\ Cardinality(present) \in Nat
      <3>1. IsFiniteSet(present) /\ Booked \in SUBSET present
        BY FiniteTables, FS_Subset DEF Booked
      <3>2. QED
        BY <3>1, FS_Subset, FS_CardinalityType
    <2>3. summary["seats_sold"] \in Nat /\ summary["seats_sold"] <= Cardinality(Booked)
      BY <1>1, <1>8 DEF SummaryInv
    <2> HIDE DEF present
    <2>4. summary["seats_sold"] <= Cardinality(present)
      BY <2>2, <2>3, FiniteFigures
    <2>5. QED
      BY <1>1, <1>2, <1>3, <1>8, <2>1, <2>4 DEF SummaryInv
  <1>9. QED
    BY <1>4, <1>5, <1>6, <1>7, <1>8 DEF Figures

(* What is sold later leaves the figures that were read as they are.       *)
LEMMA SalesKeepSummary ==
    ASSUME Cancellers = {}, SystemInv, HoldInv, SummaryInv, [Next]_vars, summary' = summary
    PROVE  SummaryInv'
  <1>1. Confirmed \subseteq Confirmed' /\ Booked \subseteq Booked'
    BY SoldStaysSold
  <1>2. /\ IsFiniteSet(Confirmed') /\ Cardinality(Confirmed') \in Nat
        /\ IsFiniteSet(Booked') /\ Cardinality(Booked') \in Nat
    BY FiniteTables, FS_Subset, FS_CardinalityType DEF Confirmed, Booked
  <1>3. Cardinality(Confirmed) <= Cardinality(Confirmed') /\ Cardinality(Booked) <= Cardinality(Booked')
    BY <1>1, <1>2, FS_Subset
  <1>4. Cardinality(Confirmed)' = Cardinality(Confirmed') /\ Cardinality(Booked)' = Cardinality(Booked')
    OBVIOUS
  <1>5. QED
    BY <1>2, <1>3, <1>4, FiniteFigures DEF SummaryInv

LEMMA FareStep ==
    ASSUME Cancellers = {}, SystemInv, FareInv, [Next]_vars
    PROVE  FareInv'
  <1>1. CASE UNCHANGED vars
    BY <1>1 DEF vars, tables, FareInv, CostsAFare
  <1>2. QED
    BY <1>1, BuyFare, UpdateFare, DeleteFare, AbortFare, FaultsAssumption
    DEF Next, Finished, Fail, DeadlockVictim

LEMMA SummaryStarts == SummaryInit => Init /\ FareInv /\ SummaryInv
  <1> SUFFICES ASSUME SummaryInit PROVE Init /\ FareInv /\ SummaryInv
    OBVIOUS
  <1>1. DOMAIN summary = {}
    BY DEF SummaryInit
  <1>2. FareInv
    BY DEF SummaryInit, Init, DatabaseInit, FareInv, CostsAFare, Reads, Pending, NoBooking, Procs
  <1>3. QED
    BY <1>1, <1>2 DEF SummaryInit, SummaryInv

LEMMA BookingsGoOn == SummarySpec => Spec
  <1>1. [SummaryNext]_summaryVars => [Next]_vars
    BY DEF SummaryNext, ReadFigure, summaryVars
  <1>2. QED
    BY <1>1, SummaryStarts, PTL DEF SummarySpec, Spec

(* While nobody cancels and no INSERT meets a taken reference, a summary    *)
(* taken amid sales, updates and deletions is consistent all the same: the *)
(* bookings it counts are paid for and seated (admin.py dashboard, whose   *)
(* five statements each see another moment).                               *)
THEOREM SummaryIsAlwaysConsistent ==
    ASSUME Cancellers = {}, Fares # {}
    PROVE  SummarySpec /\ []NoCollision => []SummaryIsConsistent
  <1>1. [SummaryNext]_summaryVars => [Next]_vars
    BY DEF SummaryNext, ReadFigure, summaryVars
  <1>2. SystemInv /\ HoldInv /\ FareInv /\ SummaryInv /\ [SummaryNext]_summaryVars
           => FareInv' /\ SummaryInv'
    <2> SUFFICES ASSUME SystemInv, HoldInv, FareInv, SummaryInv, [SummaryNext]_summaryVars
                 PROVE  FareInv' /\ SummaryInv'
      OBVIOUS
    <2>1. FareInv'
      BY <1>1, FareStep
    <2>2. ReadFigure => SummaryInv'
      BY ReadSummary
    <2>3. summary' = summary => SummaryInv'
      BY <1>1, SalesKeepSummary
    <2>4. QED
      BY <2>1, <2>2, <2>3 DEF SummaryNext, summaryVars
  <1>3. SummaryInv => SummaryIsConsistent
    BY DEF SummaryInv, SummaryIsConsistent, Figures
  <1>4. QED
    BY <1>2, <1>3, BookingsGoOn, SummaryStarts, SystemInvariance, HoldInvariance, PTL
    DEF SummarySpec

(* Without a condition, as references are drawn.                           *)
COROLLARY DistinctReferencesMakeSummariesConsistent ==
    ASSUME DistinctReferences, Cancellers = {}, Fares # {}
    PROVE  SummarySpec => []SummaryIsConsistent
  BY BookingsGoOn, DistinctReferencesNeverCollide, SummaryIsAlwaysConsistent, PTL

=============================================================================
