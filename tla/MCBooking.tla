----------------------------- MODULE MCBooking -----------------------------
(***************************************************************************)
(* Instances of BookingSystem for TLC.  All passengers are ann, except the *)
(* stranger, who is bob and books or cancels beside her.                   *)
(***************************************************************************)
EXTENDS BookingSystem, TLC

CONSTANTS ann, bob, stranger, firstFlight, lastSeat

MCPassenger == [p \in Buyers \cup Cancellers |-> IF p = stranger THEN bob ELSE ann]

(* Every seat is on the first flight but the last, which may be elsewhere. *)
MCFlightOf == [s \in Seats |-> IF s # lastSeat THEN firstFlight
                               ELSE CHOOSE f \in Flights : Cardinality(Flights) = 1 \/ f # firstFlight]

(* The primary keys run against the seat numbers. *)
MCRowKey == [s \in Seats |-> Cardinality(Seats) - s]

(* References are 32^6 many: two requests never draw the same one ...      *)
Distinct == CHOOSE pool \in [Buyers -> {{r} : r \in References}] :
                \A a, b \in Buyers : a # b => pool[a] # pool[b]

(* ... or all draw from a pool so small that they do.                      *)
Shared == [b \in Buyers |-> References]

(* Requests that ask for the same are interchangeable.                     *)
Interchangeable == Permutations(Updaters) \cup Permutations(Deleters)

(* A departed flight is to every handler what a cancelled one is, and one   *)
(* update that cannot be stored is enough.                                 *)
MCOperationsInit ==
    /\ Init
    /\ \A u \in Updaters : change[u].status # "departed"
    /\ Cardinality({u \in Updaters : ~Storable(u)}) <= 1

MCOperationsSpec == MCOperationsInit /\ [][Next]_vars
=============================================================================
