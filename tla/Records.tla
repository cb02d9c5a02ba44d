------------------------------ MODULE Records ------------------------------
(***************************************************************************)
(* What the requests and processes that fill the database have in common:  *)
(* rows under unique keys, each inserted in a transaction of its own that  *)
(* commits as a whole or not at all.  READ COMMITTED: a query sees the     *)
(* rows committed when it starts, and those of its own transaction.        *)
(***************************************************************************)
EXTENDS Integers, FiniteSets

CONSTANTS
    Emails,         \* lower(email): what uq_user_email_lower compares
    Usernames,      \* lower(username): what uq_user_username_lower compares
    FlightKeys,     \* a flight number and the date it departs on
    Columns,        \* seats abreast
    Capacity,       \* seat_capacity of the aircraft type
    Registrations,  \* POST /auth/register requests
    Promotions,     \* POST /admin/admins requests
    Publishers,     \* POST /flights requests
    Servers,        \* processes that start the application
    Scripts,        \* runs of scripts/seed.py
    Earlier,        \* whoever filled the database before
    Initially       \* the sets of keys it may hold from then

Seeders  == Servers \cup Scripts
Requests == Registrations \cup Promotions \cup Publishers
Procs    == Seeders \cup Requests

(* The rows seed.py puts into a table go in together, so a table's name     *)
(* stands for their keys.                                                  *)
FirstTables == {"airports", "aircraft_types"}
OtherTables == {"seat_map_entries", "aircraft", "routes", "fare_classes"}
Tables      == FirstTables \cup OtherTables
Keys        == Tables \cup Emails \cup Usernames \cup FlightKeys

ASSUME KeysAreDistinct ==
    /\ Tables \cap (Emails \cup Usernames \cup FlightKeys) = {}
    /\ Emails \cap (Usernames \cup FlightKeys) = {}
    /\ Usernames \cap FlightKeys = {}

ASSUME ProcessesAreDistinct ==
    /\ Seeders \cap Requests = {}
    /\ Registrations \cap (Promotions \cup Publishers) = {}
    /\ Promotions \cap Publishers = {}
    /\ Servers \cap Scripts = {}
    /\ Earlier \notin Procs

(* No flights from then: they have been deleted, if there were any.        *)
ASSUME InitiallyAssumption ==
    \A stored \in Initially :
        /\ stored \subseteq Keys \ FlightKeys
        /\ stored \cap Tables \in {{}, Tables}

ASSUME CabinAssumption == Columns \in Nat \ {0} /\ Capacity \in Nat \ {0}

VARIABLES
    rows,           \* committed rows: their key, and who inserted them
    cabin,          \* the seats of each flight, as far as they are committed
    held,           \* the keys each transaction has inserted and not committed
    seated,         \* the flights each transaction has inserted the seats of
    pc,
    answer          \* a request's HTTP status, or how a seeding ended

records == <<rows, cabin>>
work    == <<held, seated>>

Row == [key : Keys, by : Procs \cup {Earlier}]

(* Mutant: the places are counted from 0.                                   *)
PlacesFromZero(capacity) ==
    {seat \in (1 .. capacity) \X (0 .. Columns - 1) :
        (seat[1] - 1) * Columns + seat[2] < capacity}

(* A seat is its row and its place in it, counted from the left.  The      *)
(* cabin is filled row by row until the type's capacity is there.          *)
SeatMap(capacity) ==
    {seat \in (1 .. capacity) \X (1 .. Columns) :
        (seat[1] - 1) * Columns + seat[2] <= capacity}

-----------------------------------------------------------------------------

Stored(k)    == \E r \in rows : r.key = k
Sees(p, k)   == Stored(k) \/ k \in held[p]
Waits(p, ks) == \E q \in Procs \ {p} : held[q] \cap ks # {}

Goto(p, label) == pc' = [pc EXCEPT ![p] = label]
Send(p, status) == answer' = [answer EXCEPT ![p] = status]

(* Mutant: a look instead of a unique index.                                *)
InsertIfAbsent(p, ks) ==
    /\ \A k \in ks : ~Stored(k)
    /\ held' = [held EXCEPT ![p] = @ \cup ks]

(* An INSERT waits for whoever has inserted an equal key and not committed *)
(* yet, and violates the index if it finds the key committed.              *)
Insert(p, ks) ==
    /\ ~Waits(p, ks)
    /\ \A k \in ks : ~Stored(k)
    /\ held' = [held EXCEPT ![p] = @ \cup ks]

(* Mutant: an equal key that is not committed is reason enough.             *)
ClashesAlready(p, ks) == \E k \in ks : Stored(k) \/ Waits(p, {k})

Clashes(p, ks) == ~Waits(p, ks) /\ \E k \in ks : Stored(k)

Release(p) ==
    /\ held' = [held EXCEPT ![p] = {}]
    /\ seated' = [seated EXCEPT ![p] = {}]

(* Everything the transaction has written, at once.                        *)
CommitRows(p) ==
    /\ rows' = rows \cup [key : held[p], by : {p}]
    /\ cabin' = [k \in FlightKeys |-> IF k \in seated[p] THEN SeatMap(Capacity) ELSE cabin[k]]
    /\ Release(p)

(* Mutant: the error is sent, and nothing rolls back.                       *)
RefuseHolding(p, status) ==
    /\ Goto(p, "done")
    /\ Send(p, status)
    /\ UNCHANGED <<records, work>>

(* An exception leaves the handler: get_session rolls back, then the error *)
(* is sent.                                                                *)
Refuse(p, status) ==
    /\ Release(p)
    /\ Goto(p, "done")
    /\ Send(p, status)
    /\ UNCHANGED records

(* The return value has been sent; get_session commits.                    *)
Commit(p) ==
    /\ pc[p] = "committing"
    /\ CommitRows(p)
    /\ Goto(p, "done")
    /\ UNCHANGED answer

(* The connection, or the process, is lost under a request.                *)
Lose(p) ==
    /\ pc[p] \notin {"start", "done"}
    /\ Release(p)
    /\ Goto(p, "done")
    /\ answer' = [answer EXCEPT ![p] = IF @ = "none" THEN "lost" ELSE @]
    /\ UNCHANGED records

(* Mutant: any account will do.                                             *)
AnyAccount(e) == Stored(e)

(* get_current_admin looks the caller up by the address in the token, and   *)
(* takes the privilege from the row.                                       *)
Administrator(e) ==
    \E r \in rows : r.key = e /\ r.by \in Seeders \cup Promotions \cup {Earlier}

-----------------------------------------------------------------------------

RecordsInit ==
    /\ rows \in {[key : stored, by : {Earlier}] : stored \in Initially}
    /\ cabin = [k \in FlightKeys |-> {}]
    /\ held = [p \in Procs |-> {}]
    /\ seated = [p \in Procs |-> {}]
    /\ pc = [p \in Procs |-> IF p \in Seeders THEN "down" ELSE "start"]
    /\ answer = [p \in Procs |-> "none"]

Labels == {"down", "start", "counting", "tables", "maps", "administrator", "adding",
           "naming", "flights", "flying", "finding", "choosing", "inserting", "seating",
           "committing", "serving", "done"}

Answers == {"none", "201", "400", "401", "403", "404", "409", "500", "lost", "seeded",
            "failed", "disconnected"}

RecordsTypeOK ==
    /\ rows \subseteq Row
    /\ cabin \in [FlightKeys -> SUBSET ((1 .. Capacity) \X (1 .. Columns))]
    /\ held \in [Procs -> SUBSET Keys]
    /\ seated \in [Procs -> SUBSET FlightKeys]
    /\ pc \in [Procs -> Labels]
    /\ answer \in [Procs -> Answers]

=============================================================================
