------------------------------ MODULE Seeding ------------------------------
(***************************************************************************)
(* seed.py, as main.py runs it when the application starts and scripts/     *)
(* seed.py by hand: one transaction that loads the reference data, the      *)
(* administrator and the demo flights, each if there is none yet.          *)
(***************************************************************************)
EXTENDS Records

CONSTANTS
    Demos,          \* how many demo flights there are ...
    Demo,           \* ... and which, in order
    AdminEmail,     \* SEED_ADMIN_EMAIL of each process
    AdminUsername,  \* the part of it before the @
    Nothing,        \* an administrator that is not configured
    MaxStarts       \* how often each process is started, at most

ASSUME SeedingAssumption ==
    /\ Demo \in [1 .. Demos -> FlightKeys]
    /\ \A i, j \in 1 .. Demos : Demo[i] = Demo[j] => i = j
    /\ Demos \in Nat
    /\ AdminEmail \in [Seeders -> Emails \cup {Nothing}]
    /\ AdminUsername \in [Seeders -> Usernames]
    /\ Nothing \notin Emails
    /\ MaxStarts \in [Seeders -> Nat]

VARIABLES
    starts,         \* how often each process has been started
    next,           \* the demo flight each process is at
    unfit           \* the processes whose administrator the table cannot hold

seedVars == <<starts, next, unfit>>

Configured == {w \in Seeders : AdminEmail[w] # Nothing}

(* What a process inserts if it is not there.                              *)
SeedKeys(w) ==
    Tables \cup {AdminEmail[w], AdminUsername[w]} \cup {Demo[i] : i \in 1 .. Demos}

SeedingInit ==
    /\ starts = [w \in Seeders |-> 0]
    /\ next = [w \in Seeders |-> 1]
    /\ unfit = {}

-----------------------------------------------------------------------------

(* The flag SEED_ON_STARTUP is set.  Each start reads the administrator's  *)
(* password anew, and nothing has checked that or the address before.      *)
Start(w) ==
    /\ pc[w] \in {"down", "serving", "done"}
    /\ starts[w] < MaxStarts[w]
    /\ starts' = [starts EXCEPT ![w] = @ + 1]
    /\ next' = [next EXCEPT ![w] = 1]
    /\ unfit' \in {unfit \ {w}, unfit \cup ({w} \cap Configured)}
    /\ Goto(w, "counting")
    /\ Send(w, "none")
    /\ UNCHANGED <<records, work>>

(* lifespan catches whatever seeding raises, so that the application comes  *)
(* up; a script ends in a traceback.                                       *)
Ended(w) == IF w \in Servers THEN "serving" ELSE "done"

(* Mutant: the exception is not caught.                                     *)
LeaveSeedingDown(w) ==
    /\ Release(w)
    /\ Goto(w, "down")
    /\ Send(w, "failed")
    /\ UNCHANGED <<records, seedVars>>

LeaveSeeding(w) ==
    /\ Release(w)
    /\ Goto(w, Ended(w))
    /\ Send(w, "failed")
    /\ UNCHANGED <<records, seedVars>>

-----------------------------------------------------------------------------
(* _seed_reference_data *)

CountAirports(w) ==
    /\ pc[w] = "counting"
    /\ Goto(w, IF Stored("airports") THEN "administrator" ELSE "tables")
    /\ UNCHANGED <<records, work, answer, seedVars>>

AddFirstTables(w) ==
    /\ pc[w] = "tables"
    /\ Insert(w, FirstTables)
    /\ Goto(w, "maps")
    /\ UNCHANGED <<records, seated, answer, seedVars>>

SeededMeanwhile(w) ==
    /\ pc[w] = "tables"
    /\ Clashes(w, FirstTables)
    /\ LeaveSeeding(w)

(* Mutant: what has been flushed is committed.                              *)
CommitFirstTables(w) ==
    /\ pc[w] = "maps"
    /\ rows' = rows \cup [key : held[w], by : {w}]
    /\ held' = [held EXCEPT ![w] = OtherTables]
    /\ Goto(w, "administrator")
    /\ UNCHANGED <<cabin, seated, answer, seedVars>>

AddOtherTables(w) ==
    /\ pc[w] = "maps"
    /\ Insert(w, OtherTables)
    /\ Goto(w, "administrator")
    /\ UNCHANGED <<records, seated, answer, seedVars>>

-----------------------------------------------------------------------------
(* _seed_admin: looked for by address, and unique by name as well.         *)

SkipAdministrator(w) ==
    /\ pc[w] = "administrator"
    /\ AdminEmail[w] = Nothing \/ Stored(AdminEmail[w])
    /\ Goto(w, "flights")
    /\ UNCHANGED <<records, work, answer, seedVars>>

(* Mutant: the administrator is inserted without a look.                    *)
NeedAdministratorAnyway(w) ==
    /\ pc[w] = "administrator"
    /\ AdminEmail[w] # Nothing
    /\ Goto(w, "adding")
    /\ UNCHANGED <<records, work, answer, seedVars>>

NeedAdministrator(w) ==
    /\ pc[w] = "administrator"
    /\ AdminEmail[w] # Nothing /\ ~Stored(AdminEmail[w])
    /\ Goto(w, "adding")
    /\ UNCHANGED <<records, work, answer, seedVars>>

(* A password of more than 72 bytes cannot be hashed, nor a name of more    *)
(* than 32 characters or an address of more than 254 stored.  This comes   *)
(* before the indexes are asked, and as any exception does it takes the     *)
(* reference data of the transaction with it.                              *)
AdministratorUnfit(w) ==
    /\ pc[w] = "adding"
    /\ w \in unfit
    /\ LeaveSeeding(w)

AddAdministrator(w) ==
    /\ pc[w] = "adding"
    /\ w \notin unfit
    /\ Insert(w, {AdminEmail[w]})
    /\ Goto(w, "naming")
    /\ UNCHANGED <<records, seated, answer, seedVars>>

NameAdministrator(w) ==
    /\ pc[w] = "naming"
    /\ Insert(w, {AdminUsername[w]})
    /\ Goto(w, "flights")
    /\ UNCHANGED <<records, seated, answer, seedVars>>

AdministratorTaken(w) ==
    /\ \/ pc[w] = "adding" /\ w \notin unfit /\ Clashes(w, {AdminEmail[w]})
       \/ pc[w] = "naming" /\ Clashes(w, {AdminUsername[w]})
    /\ LeaveSeeding(w)

-----------------------------------------------------------------------------
(* _seed_flights *)

(* Nothing to do if there is a flight, or no aircraft to fly one.          *)
CountFlights(w) ==
    /\ pc[w] = "flights"
    /\ Goto(w, IF (\E k \in FlightKeys : Stored(k)) \/ ~Sees(w, "aircraft")
               THEN "committing" ELSE "flying")
    /\ UNCHANGED <<records, work, answer, seedVars>>

(* The seats of a flight are flushed with the next flight, or after all.   *)
AddDemoFlight(w) ==
    /\ pc[w] = "flying"
    /\ next[w] <= Demos
    /\ Insert(w, {Demo[next[w]]})
    /\ seated' = [seated EXCEPT ![w] = held[w] \cap FlightKeys]
    /\ next' = [next EXCEPT ![w] = @ + 1]
    /\ UNCHANGED <<records, pc, answer, starts, unfit>>

DemoFlightTaken(w) ==
    /\ pc[w] = "flying"
    /\ next[w] <= Demos
    /\ Clashes(w, {Demo[next[w]]})
    /\ LeaveSeeding(w)

SeatLastFlight(w) ==
    /\ pc[w] = "flying"
    /\ next[w] > Demos
    /\ seated' = [seated EXCEPT ![w] = held[w] \cap FlightKeys]
    /\ Goto(w, "committing")
    /\ UNCHANGED <<records, held, answer, seedVars>>

CommitSeed(w) ==
    /\ pc[w] = "committing"
    /\ CommitRows(w)
    /\ Goto(w, Ended(w))
    /\ Send(w, "seeded")
    /\ UNCHANGED seedVars

-----------------------------------------------------------------------------

Seeds(w) == pc[w] \notin {"down", "serving", "done"}

(* What becomes of a transaction that is cut off: nothing of it is stored,  *)
(* or all of it, if COMMIT was on its way.                                 *)
CutOff(w) ==
    \/ Release(w) /\ UNCHANGED records
    \/ pc[w] = "committing" /\ CommitRows(w)

(* The connection is lost, or has never come about: an exception, to        *)
(* lifespan, like any other.                                               *)
Disconnect(w) ==
    /\ Seeds(w)
    /\ CutOff(w)
    /\ Goto(w, Ended(w))
    /\ Send(w, "disconnected")
    /\ UNCHANGED seedVars

(* The process is killed while it seeds, as --reload does to a server.      *)
Kill(w) ==
    /\ Seeds(w)
    /\ CutOff(w)
    /\ Goto(w, "down")
    /\ Send(w, "lost")
    /\ UNCHANGED seedVars

SeedStep(w) ==
    \/ CountAirports(w) \/ AddFirstTables(w) \/ SeededMeanwhile(w) \/ AddOtherTables(w)
    \/ SkipAdministrator(w) \/ NeedAdministrator(w) \/ AdministratorUnfit(w)
    \/ AddAdministrator(w) \/ NameAdministrator(w) \/ AdministratorTaken(w) \/ CountFlights(w)
    \/ AddDemoFlight(w) \/ DemoFlightTaken(w) \/ SeatLastFlight(w) \/ CommitSeed(w)

SeedingTypeOK ==
    /\ starts \in [Seeders -> Nat]
    /\ \A w \in Seeders : starts[w] <= MaxStarts[w]
    /\ next \in [Seeders -> 1 .. Demos + 1]
    /\ unfit \subseteq Configured

=============================================================================
