---------------------------- MODULE AirlineSetup ----------------------------
(***************************************************************************)
(* How an empty database comes to be an airline: servers and scripts that  *)
(* seed it, passengers who register, administrators who make others and    *)
(* publish flights, all at once.  Whoever seeds may be killed, and anyone   *)
(* may lose the connection to the database.                                *)
(***************************************************************************)
EXTENDS Seeding, Publishing

CONSTANT MayFail    \* processes that may be killed or cut off, requests that may be lost

ASSUME FaultsAssumption == MayFail \subseteq Procs

requestVars == <<accountVars, publishVars>>

vars == <<records, work, pc, answer, seedVars, requestVars>>

Init == RecordsInit /\ SeedingInit /\ AccountsInit /\ PublishingInit

-----------------------------------------------------------------------------

StartStep(w)    == Start(w) /\ UNCHANGED requestVars
SeedingStep(w)  == SeedStep(w) /\ UNCHANGED requestVars
RegisterStep(p) == Register(p) /\ UNCHANGED <<publishVars, seedVars>>
PromoteStep(p)  == CreateAdmin(p) /\ UNCHANGED <<publishVars, seedVars>>
PublishStep(p)  == Publish(p) /\ UNCHANGED seedVars
CutStep(w)      == (Disconnect(w) \/ Kill(w)) /\ UNCHANGED requestVars
LoseStep(p)     == Lose(p) /\ UNCHANGED <<requestVars, seedVars>>

Finished ==
    /\ \A p \in Procs : pc[p] \in {"down", "serving", "done"}
    /\ UNCHANGED vars

Next ==
    \/ \E w \in Seeders : StartStep(w)
    \/ \E w \in Seeders : SeedingStep(w)
    \/ \E p \in Registrations : RegisterStep(p)
    \/ \E p \in Promotions : PromoteStep(p)
    \/ \E p \in Publishers : PublishStep(p)
    \/ \E w \in Seeders \cap MayFail : CutStep(w)
    \/ \E p \in Requests \cap MayFail : LoseStep(p)
    \/ Finished

Spec == Init /\ [][Next]_vars

(* Whoever can take its next step does: the event loop comes round to it.  *)
(* Nothing need ever be started, be killed, be cut off or fail.            *)
Fairness ==
    /\ \A w \in Seeders : WF_vars(SeedingStep(w))
    /\ \A p \in Registrations : WF_vars(RegisterStep(p))
    /\ \A p \in Promotions : WF_vars(PromoteStep(p))
    /\ \A p \in Publishers : WF_vars(PublishStep(p))

FairSpec == Spec /\ Fairness

-----------------------------------------------------------------------------
(* Every row, transaction, label, status and request is of its type.       *)
TypeOK == RecordsTypeOK /\ SeedingTypeOK /\ AccountsTypeOK /\ PublishingTypeOK

(* No two accounts have one address or one name, no two flights one number *)
(* on one day, and the reference data is there once, however the           *)
(* requests, restarts and scripts that insert them meet: none of them      *)
(* looks first, or what it has looked at may have changed since.           *)
KeysUnique == \A r, s \in rows : r.key = s.key => r = s

(* _seed_reference_data takes one airport for all of the reference data.   *)
(* That is safe because it is never stored in part: a server killed        *)
(* between two flushes leaves none of it.                                  *)
SeededWhole == Stored("airports") => \A t \in Tables : Stored(t)

(* A flight that can be found has the seats of its whole cabin, as many as *)
(* its type has, and no seat is there without its flight, whether it was   *)
(* published or seeded and whatever was interrupted.                       *)
CabinIsWhole ==
    \A k \in FlightKeys :
        Cardinality(cabin[k]) = IF Stored(k) THEN Capacity ELSE 0

(* Whoever is told that a name, an address or a flight number is in use    *)
(* can find it in use: a request that only meets another under way waits   *)
(* for how that one ends.  The one exception is a fare that rounds to      *)
(* 0.00, for which create_flight has the same answer.                      *)
RefusedOnlyIfTaken ==
    \A p \in Requests : answer[p] = "409" =>
        IF p \in Publishers THEN roundsToZero[p] \/ Stored(flight[p])
        ELSE Stored(form[p].email) \/ Stored(form[p].username)

(* Administrators are made by administrators, and the first one by seeding *)
(* alone: registering, under whatever name, never leads to one.            *)
AdministratorsComeFromSeeding ==
    (\E r \in rows : r.by \in Promotions \cup Publishers) =>
        \E r \in rows : r.key \in Emails /\ r.by \in Seeders \cup {Earlier}

(* A seeding that is not cut off fails only over an administrator the       *)
(* table cannot hold, over someone else's account of that name, or over    *)
(* what others store while it is under way: never over what it has stored  *)
(* itself at an earlier start, nor over a database it found seeded, as     *)
(* _seed_reference_data, _seed_admin and _seed_flights look first.         *)
FailsOnlyForCause ==
    \A w \in Seeders : answer[w] = "failed" =>
        \/ w \in unfit
        \/ \E r \in rows : r.key = AdminUsername[w] /\ r.by # w
        \/ \E r \in rows : r.key \in SeedKeys(w) /\ r.by \notin {w, Earlier}

(* Every request is answered: nobody waits for ever on a key that another  *)
(* has inserted.                                                           *)
EveryRequestAnswered == \A p \in Requests : <>(pc[p] = "done")

(* A server that is started comes to serve, whatever became of its         *)
(* seeding, unless it is killed (main.py lifespan, "Startup continues").   *)
StartedServes ==
    \A w \in Servers :
        pc[w] = "counting" ~> pc[w] = "serving" \/ answer[w] = "lost"

=============================================================================
