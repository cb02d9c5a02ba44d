----------------------------- MODULE Publishing -----------------------------
(***************************************************************************)
(* routers/flights.py create_flight: a flight and the seats of its cabin.  *)
(***************************************************************************)
EXTENDS AccountsRouter

VARIABLES
    flight,         \* the number and date each request publishes
    roundsToZero    \* its fare passes the schema's check, and is 0.00 in the table

publishVars == <<flight, roundsToZero>>

PublishingInit ==
    /\ flight \in [Publishers -> FlightKeys]
    /\ roundsToZero \in [Publishers -> BOOLEAN]

-----------------------------------------------------------------------------

(* A request may name a route or an aircraft that does not exist.          *)
NoSuchRoute(p) ==
    /\ pc[p] = "finding"
    /\ Refuse(p, "404")
    /\ UNCHANGED <<accountVars, publishVars>>

FindRoute(p) ==
    /\ pc[p] = "finding"
    /\ Stored("routes")
    /\ Goto(p, "choosing")
    /\ UNCHANGED <<records, work, answer, accountVars, publishVars>>

NoSuchAircraft(p) ==
    /\ pc[p] = "choosing"
    /\ Refuse(p, "404")
    /\ UNCHANGED <<accountVars, publishVars>>

FindAircraft(p) ==
    /\ pc[p] = "choosing"
    /\ Stored("aircraft")
    /\ Goto(p, "inserting")
    /\ UNCHANGED <<records, work, answer, accountVars, publishVars>>

(* The time matches \d\d:\d\d and is none, as 24:00: time(hour, minute)     *)
(* raises, and nothing handles it.                                         *)
NoSuchTime(p) ==
    /\ pc[p] = "choosing"
    /\ Stored("aircraft")
    /\ Refuse(p, "500")
    /\ UNCHANGED <<accountVars, publishVars>>

InsertFlight(p) ==
    /\ pc[p] = "inserting"
    /\ ~roundsToZero[p]
    /\ Insert(p, {flight[p]})
    /\ Goto(p, "seating")
    /\ UNCHANGED <<records, seated, answer, accountVars, publishVars>>

(* Every IntegrityError is taken for a number in use: that of the index,   *)
(* and that of ck_flight_fare_positive, which is checked before.           *)
NumberInUse(p) ==
    /\ pc[p] = "inserting"
    /\ roundsToZero[p] \/ Clashes(p, {flight[p]})
    /\ Refuse(p, "409")
    /\ UNCHANGED <<accountVars, publishVars>>

(* Mutant: the rows of the cabin are left to the first search.              *)
SendWithoutCabin(p) ==
    /\ pc[p] = "seating"
    /\ Stored("seat_map_entries")
    /\ Goto(p, "committing")
    /\ Send(p, "201")
    /\ UNCHANGED <<records, held, seated, accountVars, publishVars>>

(* Inventory is rows: one for each seat of the map.  The answer for a type *)
(* that has no map is never given: the aircraft was stored with its map.   *)
MaterialiseCabin(p) ==
    /\ pc[p] = "seating"
    /\ Stored("seat_map_entries")
    /\ seated' = [seated EXCEPT ![p] = @ \cup {flight[p]}]
    /\ Goto(p, "committing")
    /\ Send(p, "201")
    /\ UNCHANGED <<records, held, accountVars, publishVars>>

CommitFlight(p) == Commit(p) /\ UNCHANGED <<accountVars, publishVars>>

Publish(p) ==
    \/ Authorise(p) /\ UNCHANGED publishVars
    \/ NotAuthorised(p) /\ UNCHANGED publishVars
    \/ NoSuchRoute(p) \/ FindRoute(p) \/ NoSuchAircraft(p) \/ FindAircraft(p)
    \/ NoSuchTime(p) \/ InsertFlight(p) \/ NumberInUse(p) \/ MaterialiseCabin(p) \/ CommitFlight(p)

PublishingTypeOK ==
    /\ flight \in [Publishers -> FlightKeys]
    /\ roundsToZero \in [Publishers -> BOOLEAN]

=============================================================================
