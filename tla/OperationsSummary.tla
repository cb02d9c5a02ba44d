------------------------- MODULE OperationsSummary -------------------------
(***************************************************************************)
(* routers/admin.py dashboard: the administrator's summary, taken while    *)
(* the booking back end is at work.  It is one transaction, and still each *)
(* of its statements sees the tables as they are when it starts.           *)
(***************************************************************************)
EXTENDS BookingSystem, Sequences, FiniteSetsExt

VARIABLE summary    \* the figures read so far, by name

summaryVars == <<vars, summary>>

(* Mutant: the seats are counted first.                                     *)
SeatsFirst == <<"seats_total", "seats_sold", "flights", "confirmed_bookings", "revenue_eur">>

Statements == <<"flights", "confirmed_bookings", "revenue_eur", "seats_sold", "seats_total">>

Confirmed == {b \in Buyers : bookings[b].status = "confirmed"}

(* What each statement would return now.                                   *)
Figures ==
    [flights            |-> Cardinality({f \in Flights : flights[f].status # "absent"}),
     confirmed_bookings |-> Cardinality(Confirmed),
     revenue_eur        |-> MapThenSumSet(LAMBDA b : bookings[b].fare, Confirmed),
     seats_sold         |-> Cardinality({s \in Seats : seats[s].status = "booked"}),
     seats_total        |-> Cardinality({s \in Seats : seats[s].status # "absent"})]

(* The statement after those that have been read.                          *)
ReadFigure ==
    \E n \in DOMAIN Statements :
        /\ DOMAIN summary = {Statements[m] : m \in 1 .. n - 1}
        /\ summary' = [name \in DOMAIN summary \cup {Statements[n]} |->
                           IF name \in DOMAIN summary THEN summary[name] ELSE Figures[name]]
        /\ UNCHANGED vars

SummaryInit == Init /\ summary = <<>>

SummaryNext == (Next /\ UNCHANGED summary) \/ ReadFigure

SummarySpec == SummaryInit /\ [][SummaryNext]_summaryVars

(* The figures of a summary are of different moments.  While nobody        *)
(* cancels they are consistent in one direction all the same: a booking    *)
(* that is counted is paid for and sits on a seat that is counted.         *)
SummaryIsConsistent ==
    DOMAIN summary = DOMAIN Figures =>
        /\ \E fare \in Fares : summary.revenue_eur >= summary.confirmed_bookings * fare
        /\ summary.confirmed_bookings <= summary.seats_sold
        /\ summary.seats_sold <= summary.seats_total

=============================================================================
