------------------------------ MODULE MCSetup ------------------------------
(***************************************************************************)
(* An instance of AirlineSetup for TLC: one server that may be cut off, or *)
(* killed, and started again, one run of the script, and a request of each *)
(* kind.                                                                   *)
(***************************************************************************)
EXTENDS AirlineSetup

CONSTANTS ops, opsName, ann, annName, script, promotion, publisher, firstFlight

(* The script is run without an administrator, the server with one.        *)
MCAdminEmail    == [w \in Seeders |-> IF w = script THEN Nothing ELSE ops]
MCAdminUsername == [w \in Seeders |-> opsName]

MCDemo == [i \in 1 .. Demos |->
              IF i = 1 THEN firstFlight ELSE CHOOSE k \in FlightKeys : k # firstFlight]

MCMaxStarts == [w \in Seeders |-> IF w = script THEN 1 ELSE 2]

(* The database is empty, or was seeded and had its flights deleted.       *)
MCInitially == {{}, Tables \cup {ops, opsName}}

(* Ann may be made an administrator or just register; she tries to publish *)
(* one of the demo flights, or the other one for next to nothing.  Whoever *)
(* registers asks for any address and name in an empty database, and for   *)
(* Ann's in one that was seeded.                                           *)
MCInit ==
    /\ Init
    /\ form[promotion] = [email |-> ann, username |-> annName]
    /\ rows = {} \/ \A p \in Registrations : form[p] = form[promotion]
    /\ token = [p \in Promotions \cup Publishers |-> IF p = publisher THEN ann ELSE ops]
    /\ roundsToZero[publisher] <=> flight[publisher] # firstFlight

MCSpec == MCInit /\ [][Next]_vars /\ Fairness
=============================================================================
