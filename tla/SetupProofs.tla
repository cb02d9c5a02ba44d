---------------------------- MODULE SetupProofs ----------------------------
(***************************************************************************)
(* Safety of AirlineSetup, for any number of servers, scripts, requests,   *)
(* addresses, names and flights, and any sequence of kills and restarts:   *)
(* its types, the keys of its tables, and then that what it stores is      *)
(* whole, the reference data, the cabins of the flights, and the chain of  *)
(* administrators.                                                         *)
(***************************************************************************)
EXTENDS AirlineSetup, FiniteSetTheorems, TLAPS

-----------------------------------------------------------------------------
(* The four kinds of step a transaction takes, as far as types go.         *)

(* Whoever is storing an administrator has one configured.                 *)
AdminConfigured ==
    \A w \in Seeders : pc[w] \in {"adding", "naming"} => AdminEmail[w] \in Emails

LEMMA GotoType ==
    ASSUME RecordsTypeOK, NEW p \in Procs, NEW l \in Labels, Goto(p, l)
    PROVE  pc' \in [Procs -> Labels]
  BY DEF RecordsTypeOK, Goto

LEMMA SendType ==
    ASSUME RecordsTypeOK, NEW p \in Procs, NEW s \in Answers, Send(p, s)
    PROVE  answer' \in [Procs -> Answers]
  BY DEF RecordsTypeOK, Send

LEMMA InsertType ==
    ASSUME RecordsTypeOK, NEW p \in Procs, NEW ks \in SUBSET Keys, Insert(p, ks)
    PROVE  held' \in [Procs -> SUBSET Keys]
  BY DEF RecordsTypeOK, Insert

LEMMA ReleaseType ==
    ASSUME RecordsTypeOK, NEW p \in Procs, Release(p)
    PROVE  held' \in [Procs -> SUBSET Keys] /\ seated' \in [Procs -> SUBSET FlightKeys]
  BY DEF RecordsTypeOK, Release

LEMMA CommitRowsType ==
    ASSUME RecordsTypeOK, NEW p \in Procs, CommitRows(p)
    PROVE  /\ rows' \subseteq Row
           /\ cabin' \in [FlightKeys -> SUBSET ((1 .. Capacity) \X (1 .. Columns))]
           /\ held' \in [Procs -> SUBSET Keys]
           /\ seated' \in [Procs -> SUBSET FlightKeys]
  <1>1. held[p] \subseteq Keys
    BY DEF RecordsTypeOK
  <1>2. rows' \subseteq Row
    BY <1>1 DEF RecordsTypeOK, CommitRows, Row
  <1>3. cabin' \in [FlightKeys -> SUBSET ((1 .. Capacity) \X (1 .. Columns))]
    BY DEF RecordsTypeOK, CommitRows, SeatMap
  <1>4. QED
    BY <1>2, <1>3, ReleaseType DEF CommitRows

LEMMA RefuseType ==
    ASSUME RecordsTypeOK, NEW p \in Procs, NEW s \in Answers, Refuse(p, s)
    PROVE  RecordsTypeOK'
  <1>1. "done" \in Labels
    BY DEF Labels
  <1>2. pc' \in [Procs -> Labels] /\ answer' \in [Procs -> Answers]
    BY <1>1, GotoType, SendType DEF Refuse
  <1>3. QED
    BY <1>2, ReleaseType DEF RecordsTypeOK, Refuse, records

-----------------------------------------------------------------------------
(* Types. *)

LEMMA SeedingType ==
    ASSUME RecordsTypeOK, SeedingTypeOK, AdminConfigured, NEW w \in Seeders, SeedStep(w)
    PROVE  RecordsTypeOK' /\ SeedingTypeOK' /\ AdminConfigured'
  <1> w \in Procs
    BY DEF Procs
  <1> USE DEF records, work, seedVars
  <1>0. Tables \subseteq Keys /\ FirstTables \subseteq Keys /\ OtherTables \subseteq Keys
    BY DEF Keys, Tables
  <1>1. CASE CountAirports(w)
    <2>1. RecordsTypeOK'
      BY <1>1 DEF CountAirports, RecordsTypeOK, Goto, Labels
    <2>2. QED
      BY <1>1, <2>1 DEF CountAirports, SeedingTypeOK, AdminConfigured, RecordsTypeOK, Goto
  <1>2. CASE AddFirstTables(w)
    <2>1. held' \in [Procs -> SUBSET Keys]
      BY <1>2, <1>0, InsertType DEF AddFirstTables
    <2>2. RecordsTypeOK'
      BY <1>2, <2>1 DEF AddFirstTables, RecordsTypeOK, Goto, Labels
    <2>3. QED
      BY <1>2, <2>2 DEF AddFirstTables, SeedingTypeOK, AdminConfigured, RecordsTypeOK, Goto
  <1>3. CASE LeaveSeeding(w)
    <2>1. RecordsTypeOK'
      BY <1>3, ReleaseType
      DEF LeaveSeeding, Ended, RecordsTypeOK, Goto, Send, Labels, Answers
    <2>2. QED
      BY <1>3, <2>1
      DEF LeaveSeeding, Ended, SeedingTypeOK, AdminConfigured, RecordsTypeOK, Goto
  <1>4. CASE AddOtherTables(w)
    <2>1. held' \in [Procs -> SUBSET Keys]
      BY <1>4, <1>0, InsertType DEF AddOtherTables
    <2>2. RecordsTypeOK'
      BY <1>4, <2>1 DEF AddOtherTables, RecordsTypeOK, Goto, Labels
    <2>3. QED
      BY <1>4, <2>2 DEF AddOtherTables, SeedingTypeOK, AdminConfigured, RecordsTypeOK, Goto
  <1>5. CASE SkipAdministrator(w)
    BY <1>5 DEF SkipAdministrator, SeedingTypeOK, AdminConfigured, RecordsTypeOK, Goto, Labels
  <1>6. CASE NeedAdministrator(w)
    BY <1>6, SeedingAssumption
    DEF NeedAdministrator, SeedingTypeOK, AdminConfigured, RecordsTypeOK, Goto, Labels
  <1>7. CASE AddAdministrator(w)
    <2>1. AdminEmail[w] \in Emails /\ {AdminEmail[w]} \subseteq Keys
      BY <1>7 DEF AddAdministrator, AdminConfigured, Keys
    <2>2. held' \in [Procs -> SUBSET Keys]
      BY <1>7, <2>1, InsertType DEF AddAdministrator
    <2>3. RecordsTypeOK'
      BY <1>7, <2>2 DEF AddAdministrator, RecordsTypeOK, Goto, Labels
    <2>4. QED
      BY <1>7, <2>1, <2>3
      DEF AddAdministrator, SeedingTypeOK, AdminConfigured, RecordsTypeOK, Goto
  <1>8. CASE NameAdministrator(w)
    <2>1. {AdminUsername[w]} \subseteq Keys
      BY SeedingAssumption DEF Keys
    <2>2. held' \in [Procs -> SUBSET Keys]
      BY <1>8, <2>1, InsertType DEF NameAdministrator
    <2>3. RecordsTypeOK'
      BY <1>8, <2>2 DEF NameAdministrator, RecordsTypeOK, Goto, Labels
    <2>4. QED
      BY <1>8, <2>3 DEF NameAdministrator, SeedingTypeOK, AdminConfigured, RecordsTypeOK, Goto
  <1>9. CASE CountFlights(w)
    <2>1. RecordsTypeOK'
      BY <1>9 DEF CountFlights, RecordsTypeOK, Goto, Labels
    <2>2. QED
      BY <1>9, <2>1 DEF CountFlights, SeedingTypeOK, AdminConfigured, RecordsTypeOK, Goto
  <1>10. CASE AddDemoFlight(w)
    <2>1. next[w] \in 1 .. Demos /\ next[w] + 1 \in 1 .. Demos + 1
      BY <1>10, SeedingAssumption DEF AddDemoFlight, SeedingTypeOK
    <2>2. {Demo[next[w]]} \subseteq Keys
      BY <2>1, SeedingAssumption DEF Keys
    <2>3. held' \in [Procs -> SUBSET Keys]
      BY <1>10, <2>2, InsertType DEF AddDemoFlight
    <2>4. seated' \in [Procs -> SUBSET FlightKeys]
      BY <1>10 DEF AddDemoFlight, RecordsTypeOK
    <2>5. RecordsTypeOK'
      BY <1>10, <2>3, <2>4 DEF AddDemoFlight, RecordsTypeOK
    <2>6. SeedingTypeOK'
      BY <1>10, <2>1 DEF AddDemoFlight, SeedingTypeOK
    <2>7. QED
      BY <1>10, <2>5, <2>6 DEF AddDemoFlight, AdminConfigured
  <1>11. CASE SeatLastFlight(w)
    BY <1>11 DEF SeatLastFlight, SeedingTypeOK, AdminConfigured, RecordsTypeOK, Goto, Labels
  <1>12. CASE CommitSeed(w)
    <2>1. RecordsTypeOK'
      BY <1>12, CommitRowsType
      DEF CommitSeed, Ended, RecordsTypeOK, Goto, Send, Labels, Answers
    <2>2. QED
      BY <1>12, <2>1 DEF CommitSeed, Ended, SeedingTypeOK, AdminConfigured, RecordsTypeOK, Goto
  <1>13. QED
    BY <1>1, <1>2, <1>3, <1>4, <1>5, <1>6, <1>7, <1>8, <1>9, <1>10, <1>11, <1>12
    DEF SeedStep, SeededMeanwhile, AdministratorUnfit, AdministratorTaken, DemoFlightTaken

LEMMA StartType ==
    ASSUME RecordsTypeOK, SeedingTypeOK, AdminConfigured, NEW w \in Seeders, Start(w)
    PROVE  RecordsTypeOK' /\ SeedingTypeOK' /\ AdminConfigured'
  <1> w \in Procs
    BY DEF Procs
  <1>0. starts[w] \in Nat /\ MaxStarts[w] \in Nat
    BY SeedingAssumption DEF SeedingTypeOK
  <1>1. starts[w] + 1 \in Nat /\ starts[w] + 1 <= MaxStarts[w]
    BY <1>0 DEF Start
  <1>2. SeedingTypeOK'
    <2>1. 1 \in 1 .. Demos + 1
      BY SeedingAssumption
    <2>2. QED
      BY <1>1, <2>1 DEF Start, SeedingTypeOK
  <1>3. RecordsTypeOK'
    BY DEF Start, RecordsTypeOK, Goto, Send, Labels, Answers, records, work
  <1>4. QED
    BY <1>2, <1>3 DEF Start, AdminConfigured, RecordsTypeOK, Goto

LEMMA CutType ==
    ASSUME RecordsTypeOK, SeedingTypeOK, AdminConfigured, NEW w \in Seeders,
           Disconnect(w) \/ Kill(w)
    PROVE  RecordsTypeOK' /\ SeedingTypeOK' /\ AdminConfigured'
  <1> w \in Procs
    BY DEF Procs
  <1>1. CutOff(w) /\ UNCHANGED seedVars
    BY DEF Disconnect, Kill
  <1>2. pc' \in [Procs -> Labels] /\ answer' \in [Procs -> Answers]
    BY DEF Disconnect, Kill, Ended, RecordsTypeOK, Goto, Send, Labels, Answers
  <1>3. RecordsTypeOK'
    BY <1>1, <1>2, ReleaseType, CommitRowsType DEF CutOff, RecordsTypeOK, records
  <1>4. AdminConfigured'
    <2>1. pc \in [Procs -> Labels] /\ Seeders \subseteq Procs
      BY DEF RecordsTypeOK, Procs
    <2>2. PICK l \in {"down", "serving", "done"} : pc' = [pc EXCEPT ![w] = l]
      BY DEF Disconnect, Kill, Ended, Goto
    <2>3. QED
      BY <2>1, <2>2 DEF AdminConfigured
  <1>5. QED
    BY <1>1, <1>3, <1>4 DEF SeedingTypeOK, seedVars

LEMMA LoseType ==
    ASSUME RecordsTypeOK, NEW p \in Procs, Lose(p)
    PROVE  RecordsTypeOK'
  <1>1. pc' \in [Procs -> Labels]
    BY GotoType DEF Lose, Labels
  <1>2. answer' \in [Procs -> Answers]
    BY DEF Lose, RecordsTypeOK, Answers
  <1>3. QED
    BY <1>1, <1>2, ReleaseType DEF Lose, RecordsTypeOK, records

LEMMA CommitType ==
    ASSUME RecordsTypeOK, NEW p \in Procs, Commit(p)
    PROVE  RecordsTypeOK'
  <1>1. pc' \in [Procs -> Labels]
    BY GotoType DEF Commit, Labels
  <1>2. QED
    BY <1>1, CommitRowsType DEF Commit, RecordsTypeOK

LEMMA AdmissionType ==
    ASSUME RecordsTypeOK, NEW p \in Procs, Authorise(p) \/ NotAuthorised(p)
    PROVE  RecordsTypeOK'
  <1>1. CASE Authorise(p)
    BY <1>1 DEF Authorise, RecordsTypeOK, Goto, Labels, records, work
  <1>2. CASE NotAuthorised(p)
    <2>1. (IF Stored(token[p]) THEN "403" ELSE "401") \in Answers
      BY DEF Answers
    <2>2. QED
      BY <1>2, <2>1, RefuseType DEF NotAuthorised
  <1>3. QED
    BY <1>1, <1>2

LEMMA AccountType ==
    ASSUME RecordsTypeOK, AccountsTypeOK, NEW p \in Registrations \cup Promotions, Account(p)
    PROVE  RecordsTypeOK'
  <1> p \in Procs
    BY DEF Procs, Requests
  <1>0. {form[p].email} \subseteq Keys /\ {form[p].username} \subseteq Keys
    BY DEF AccountsTypeOK, Forms, Keys
  <1>1. CASE PasswordTooLong(p)
    BY <1>1, RefuseType DEF PasswordTooLong, Answers
  <1>2. CASE AddAccount(p)
    <2>1. held' \in [Procs -> SUBSET Keys]
      BY <1>2, <1>0, InsertType DEF AddAccount
    <2>2. QED
      BY <1>2, <2>1 DEF AddAccount, RecordsTypeOK, Goto, Labels, records
  <1>3. CASE NameAccount(p)
    <2>1. held' \in [Procs -> SUBSET Keys]
      BY <1>3, <1>0, InsertType DEF NameAccount
    <2>2. QED
      BY <1>3, <2>1 DEF NameAccount, RecordsTypeOK, Goto, Send, Labels, Answers, records
  <1>4. CASE AlreadyRegistered(p)
    BY <1>4, RefuseType DEF AlreadyRegistered, Answers
  <1>5. CASE CommitAccount(p)
    BY <1>5, CommitType DEF CommitAccount
  <1>6. QED
    BY <1>1, <1>2, <1>3, <1>4, <1>5 DEF Account

LEMMA PublishType ==
    ASSUME RecordsTypeOK, PublishingTypeOK, NEW p \in Publishers, Publish(p)
    PROVE  RecordsTypeOK'
  <1> p \in Procs
    BY DEF Procs, Requests
  <1> USE DEF records, work
  <1>0. flight[p] \in FlightKeys /\ {flight[p]} \subseteq Keys
    BY DEF PublishingTypeOK, Keys
  <1>1. CASE Authorise(p) \/ NotAuthorised(p)
    BY <1>1, AdmissionType
  <1>2. CASE NoSuchRoute(p) \/ NoSuchAircraft(p)
    BY <1>2, RefuseType DEF NoSuchRoute, NoSuchAircraft, Answers
  <1>3. CASE FindRoute(p)
    BY <1>3 DEF FindRoute, RecordsTypeOK, Goto, Labels
  <1>4. CASE FindAircraft(p)
    BY <1>4 DEF FindAircraft, RecordsTypeOK, Goto, Labels
  <1>5. CASE NoSuchTime(p)
    BY <1>5, RefuseType DEF NoSuchTime, Answers
  <1>6. CASE InsertFlight(p)
    <2>1. held' \in [Procs -> SUBSET Keys]
      BY <1>6, <1>0, InsertType DEF InsertFlight
    <2>2. QED
      BY <1>6, <2>1 DEF InsertFlight, RecordsTypeOK, Goto, Labels
  <1>7. CASE NumberInUse(p)
    BY <1>7, RefuseType DEF NumberInUse, Answers
  <1>8. CASE MaterialiseCabin(p)
    BY <1>8, <1>0 DEF MaterialiseCabin, RecordsTypeOK, Goto, Send, Labels, Answers
  <1>9. CASE CommitFlight(p)
    BY <1>9, CommitType DEF CommitFlight
  <1>10. QED
    BY <1>1, <1>2, <1>3, <1>4, <1>5, <1>6, <1>7, <1>8, <1>9 DEF Publish

TypeInv == TypeOK /\ AdminConfigured

(* Requests are not processes that seed, so that their steps leave the      *)
(* administrators alone.                                                   *)
LEMMA RequestsKeepConfigured ==
    ASSUME RecordsTypeOK, AdminConfigured, NEW p \in Requests,
           \A q \in Procs \ {p} : pc'[q] = pc[q]
    PROVE  AdminConfigured'
  BY ProcessesAreDistinct DEF AdminConfigured, Procs, Requests

LEMMA RequestStepsAreTheirOwn ==
    ASSUME RecordsTypeOK, NEW p \in Procs,
           Register(p) \/ CreateAdmin(p) \/ Publish(p) \/ Lose(p)
    PROVE  /\ \A q \in Procs \ {p} : pc'[q] = pc[q]
           /\ \A q \in Procs \ {p} : answer'[q] = answer[q]
           /\ \A q \in Procs \ {p} : held'[q] = held[q]
           /\ \A q \in Procs \ {p} : seated'[q] = seated[q]
  <1> USE DEF RecordsTypeOK, Goto, Send, Insert, Release, Refuse, Commit, CommitRows, records, work
  <1>1. CASE Register(p) \/ CreateAdmin(p)
    BY <1>1
    DEF Register, CreateAdmin, Account, Authorise, NotAuthorised, ReceiveRegistration,
        PasswordTooLong, AddAccount, NameAccount, AlreadyRegistered, CommitAccount
  <1>2. CASE Publish(p)
    BY <1>2
    DEF Publish, Authorise, NotAuthorised, NoSuchRoute, FindRoute, NoSuchAircraft, FindAircraft,
        NoSuchTime, InsertFlight, NumberInUse, MaterialiseCabin, CommitFlight
  <1>3. CASE Lose(p)
    BY <1>3 DEF Lose
  <1>4. QED
    BY <1>1, <1>2, <1>3

LEMMA TypeInit == Init => TypeInv
  <1> SUFFICES ASSUME Init PROVE TypeInv
    OBVIOUS
  <1>1. RecordsTypeOK
    <2>1. rows \subseteq Row
      <3>1. PICK stored \in Initially : rows = [key : stored, by : {Earlier}]
        BY DEF Init, RecordsInit
      <3>2. stored \subseteq Keys
        BY InitiallyAssumption
      <3>3. QED
        BY <3>1, <3>2 DEF Row
    <2>2. QED
      BY <2>1 DEF Init, RecordsInit, RecordsTypeOK, Labels, Answers
  <1>2. SeedingTypeOK
    <2>1. 1 \in 1 .. Demos + 1
      BY SeedingAssumption
    <2>2. QED
      BY <2>1, SeedingAssumption DEF Init, SeedingInit, SeedingTypeOK
  <1>3. AdminConfigured
    BY DEF Init, RecordsInit, AdminConfigured, Procs
  <1>4. QED
    BY <1>1, <1>2, <1>3
    DEF Init, TypeInv, TypeOK, AccountsInit, AccountsTypeOK, PublishingInit, PublishingTypeOK

LEMMA TypeStep == TypeInv /\ [Next]_vars => TypeInv'
  <1> SUFFICES ASSUME TypeInv, [Next]_vars PROVE TypeInv'
    OBVIOUS
  <1> USE DEF TypeInv, TypeOK, requestVars, accountVars, publishVars, seedVars
  <1>1. ASSUME NEW w \in Seeders, StartStep(w) \/ SeedingStep(w) \/ CutStep(w)
        PROVE  TypeInv'
    BY <1>1, StartType, SeedingType, CutType
    DEF StartStep, SeedingStep, CutStep, AccountsTypeOK, PublishingTypeOK
  <1>2. ASSUME NEW p \in Registrations \cup Promotions, RegisterStep(p) \/ PromoteStep(p)
        PROVE  TypeInv'
    <2> p \in Requests /\ p \in Procs
      BY DEF Requests, Procs
    <2>1. RecordsTypeOK'
      <3>1. CASE ReceiveRegistration(p)
        BY <3>1 DEF ReceiveRegistration, RecordsTypeOK, Goto, Labels, records, work
      <3>2. QED
        BY <1>2, <3>1, AccountType, AdmissionType
        DEF RegisterStep, PromoteStep, Register, CreateAdmin
    <2>2. AdminConfigured'
      BY <1>2, RequestsKeepConfigured, RequestStepsAreTheirOwn DEF RegisterStep, PromoteStep
    <2>3. UNCHANGED accountVars /\ UNCHANGED <<publishVars, seedVars>>
      BY <1>2
      DEF RegisterStep, PromoteStep, Register, CreateAdmin, Account, Authorise, NotAuthorised,
          ReceiveRegistration, PasswordTooLong, AddAccount, NameAccount, AlreadyRegistered,
          CommitAccount
    <2>4. QED
      BY <2>1, <2>2, <2>3 DEF AccountsTypeOK, PublishingTypeOK, SeedingTypeOK
  <1>3. ASSUME NEW p \in Publishers, PublishStep(p)
        PROVE  TypeInv'
    <2> p \in Requests /\ p \in Procs
      BY DEF Requests, Procs
    <2>1. RecordsTypeOK'
      BY <1>3, PublishType DEF PublishStep
    <2>2. AdminConfigured'
      BY <1>3, RequestsKeepConfigured, RequestStepsAreTheirOwn DEF PublishStep
    <2>3. UNCHANGED <<accountVars, publishVars, seedVars>>
      BY <1>3
      DEF PublishStep, Publish, Authorise, NotAuthorised, NoSuchRoute, FindRoute, NoSuchAircraft,
          FindAircraft, NoSuchTime, InsertFlight, NumberInUse, MaterialiseCabin, CommitFlight
    <2>4. QED
      BY <2>1, <2>2, <2>3 DEF AccountsTypeOK, PublishingTypeOK, SeedingTypeOK
  <1>4. ASSUME NEW p \in Requests, LoseStep(p)
        PROVE  TypeInv'
    <2> p \in Procs
      BY DEF Procs
    <2>1. RecordsTypeOK'
      BY <1>4, LoseType DEF LoseStep
    <2>2. AdminConfigured'
      BY <1>4, RequestsKeepConfigured, RequestStepsAreTheirOwn DEF LoseStep
    <2>3. QED
      BY <1>4, <2>1, <2>2 DEF LoseStep, AccountsTypeOK, PublishingTypeOK, SeedingTypeOK
  <1>5. CASE UNCHANGED vars
    BY <1>5
    DEF vars, records, work, RecordsTypeOK, AdminConfigured, AccountsTypeOK, PublishingTypeOK,
        SeedingTypeOK
  <1>6. QED
    BY <1>1, <1>2, <1>3, <1>4, <1>5 DEF Next, Finished

(* Every row, transaction, label, status and request is of its type, and   *)
(* so is every key that is inserted: an administrator's address is only    *)
(* read by a process that has one.                                         *)
THEOREM SetupTypeCorrect == Spec => []TypeOK
  <1>1. TypeInv => TypeOK
    BY DEF TypeInv
  <1>2. QED
    BY TypeInit, TypeStep, <1>1, PTL DEF Spec

-----------------------------------------------------------------------------
(* What a step of anyone does to the rows, the cabins and the keys held:   *)
(* one of four things, for one transaction.                                *)

Looks(p)    == UNCHANGED <<rows, cabin, held>>
Inserts(p)  == \E ks \in SUBSET Keys : Insert(p, ks) /\ UNCHANGED records
Ends(p)     == held' = [held EXCEPT ![p] = {}] /\ UNCHANGED records
Commits(p)  == pc[p] = "committing" /\ CommitRows(p)
Transacts(p) == Looks(p) \/ Inserts(p) \/ Ends(p) \/ Commits(p)

LEMMA SeederTransacts ==
    ASSUME TypeInv, NEW w \in Seeders,
           Start(w) \/ SeedStep(w) \/ Disconnect(w) \/ Kill(w)
    PROVE  Transacts(w)
  <1> USE DEF Transacts, records, work
  <1>1. CASE Start(w) \/ CountAirports(w) \/ SkipAdministrator(w) \/ NeedAdministrator(w)
             \/ CountFlights(w) \/ SeatLastFlight(w)
    BY <1>1
    DEF Start, CountAirports, SkipAdministrator, NeedAdministrator, CountFlights, SeatLastFlight,
        Looks
  <1>2. CASE AddFirstTables(w) \/ AddOtherTables(w)
    <2>1. FirstTables \in SUBSET Keys /\ OtherTables \in SUBSET Keys
      BY DEF Keys, Tables
    <2>2. QED
      BY <1>2, <2>1 DEF AddFirstTables, AddOtherTables, Inserts
  <1>3. CASE AddAdministrator(w)
    <2>1. {AdminEmail[w]} \in SUBSET Keys
      BY <1>3 DEF AddAdministrator, TypeInv, AdminConfigured, Keys
    <2>2. QED
      BY <1>3, <2>1 DEF AddAdministrator, Inserts
  <1>4. CASE NameAdministrator(w)
    <2>1. {AdminUsername[w]} \in SUBSET Keys
      BY SeedingAssumption DEF Keys
    <2>2. QED
      BY <1>4, <2>1 DEF NameAdministrator, Inserts
  <1>5. CASE AddDemoFlight(w)
    <2>1. next[w] \in 1 .. Demos
      BY <1>5, SeedingAssumption DEF AddDemoFlight, TypeInv, TypeOK, SeedingTypeOK
    <2>2. {Demo[next[w]]} \in SUBSET Keys
      BY <2>1, SeedingAssumption DEF Keys
    <2>3. QED
      BY <1>5, <2>2 DEF AddDemoFlight, Inserts
  <1>6. CASE LeaveSeeding(w) \/ Disconnect(w) \/ Kill(w)
    BY <1>6 DEF LeaveSeeding, Disconnect, Kill, CutOff, Release, Ends, Commits
  <1>7. CASE CommitSeed(w)
    BY <1>7 DEF CommitSeed, Commits
  <1>8. QED
    BY <1>1, <1>2, <1>3, <1>4, <1>5, <1>6, <1>7
    DEF SeedStep, SeededMeanwhile, AdministratorUnfit, AdministratorTaken, DemoFlightTaken

LEMMA RequestTransacts ==
    ASSUME TypeInv, NEW p \in Requests,
           \/ p \in Registrations \cup Promotions /\ (Register(p) \/ CreateAdmin(p))
           \/ p \in Publishers /\ Publish(p)
           \/ Lose(p)
    PROVE  Transacts(p)
  <1> USE DEF Transacts, records, work
  <1>1. CASE Authorise(p) \/ ReceiveRegistration(p) \/ FindRoute(p) \/ FindAircraft(p)
             \/ MaterialiseCabin(p)
    BY <1>1 DEF Authorise, ReceiveRegistration, FindRoute, FindAircraft, MaterialiseCabin, Looks
  <1>2. CASE \E s \in Answers : Refuse(p, s)
    BY <1>2 DEF Refuse, Release, Ends
  <1>3. CASE p \in Registrations \cup Promotions /\ (AddAccount(p) \/ NameAccount(p))
    <2>1. {form[p].email} \in SUBSET Keys /\ {form[p].username} \in SUBSET Keys
      BY <1>3 DEF TypeInv, TypeOK, AccountsTypeOK, Forms, Keys
    <2>2. QED
      BY <1>3, <2>1 DEF AddAccount, NameAccount, Inserts
  <1>4. CASE p \in Publishers /\ InsertFlight(p)
    <2>1. {flight[p]} \in SUBSET Keys
      BY <1>4 DEF TypeInv, TypeOK, PublishingTypeOK, Keys
    <2>2. QED
      BY <1>4, <2>1 DEF InsertFlight, Inserts
  <1>5. CASE CommitAccount(p) \/ CommitFlight(p)
    BY <1>5 DEF CommitAccount, CommitFlight, Commit, Commits
  <1>6. CASE Lose(p)
    BY <1>6 DEF Lose, Release, Ends
  <1>7. CASE NotAuthorised(p) \/ PasswordTooLong(p) \/ AlreadyRegistered(p) \/ NoSuchRoute(p)
             \/ NoSuchAircraft(p) \/ NoSuchTime(p) \/ NumberInUse(p)
    <2>1. \A s : Refuse(p, s) => Ends(p)
      BY DEF Refuse, Release, Ends
    <2>2. QED
      BY <1>7, <2>1
      DEF NotAuthorised, PasswordTooLong, AlreadyRegistered, NoSuchRoute, NoSuchAircraft,
          NoSuchTime, NumberInUse
  <1>8. QED
    BY <1>1, <1>2, <1>3, <1>4, <1>5, <1>6, <1>7 DEF Register, CreateAdmin, Account, Publish

LEMMA StepTransacts ==
    ASSUME TypeInv, [Next]_vars
    PROVE  UNCHANGED <<rows, cabin, held>> \/ \E p \in Procs : Transacts(p)
  <1>1. ASSUME NEW w \in Seeders, StartStep(w) \/ SeedingStep(w) \/ CutStep(w)
        PROVE  \E p \in Procs : Transacts(p)
    BY <1>1, SeederTransacts DEF StartStep, SeedingStep, CutStep, Procs
  <1>2. ASSUME NEW p \in Requests,
               \/ p \in Registrations \cup Promotions /\ (RegisterStep(p) \/ PromoteStep(p))
               \/ p \in Publishers /\ PublishStep(p)
               \/ LoseStep(p)
        PROVE  \E q \in Procs : Transacts(q)
    BY <1>2, RequestTransacts DEF RegisterStep, PromoteStep, PublishStep, LoseStep, Procs
  <1>3. CASE UNCHANGED vars
    BY <1>3 DEF vars, records, work
  <1>4. QED
    BY <1>1, <1>2, <1>3 DEF Next, Finished, Requests

(* A commit stores what the transaction holds, and nothing else changes    *)
(* what is stored.                                                         *)
LEMMA CommitStores ==
    ASSUME NEW p, CommitRows(p)
    PROVE  \A k : Stored(k)' <=> Stored(k) \/ k \in held[p]
  <1>1. rows' = rows \cup [key : held[p], by : {p}]
    BY DEF CommitRows
  <1>2. ASSUME NEW k, k \in held[p] PROVE Stored(k)'
    <2>1. [key |-> k, by |-> p] \in rows' /\ [key |-> k, by |-> p].key = k
      BY <1>1, <1>2
    <2>2. QED
      BY <2>1 DEF Stored
  <1>3. ASSUME NEW k, Stored(k)' PROVE Stored(k) \/ k \in held[p]
    BY <1>1, <1>3 DEF Stored
  <1>4. QED
    BY <1>1, <1>2, <1>3 DEF Stored

LEMMA RowsStay ==
    ASSUME TypeInv, [Next]_vars
    PROVE  rows \subseteq rows' /\ \A k : Stored(k) => Stored(k)'
  <1>1. rows \subseteq rows'
    BY StepTransacts DEF Transacts, Looks, Inserts, Ends, Commits, CommitRows, records
  <1>2. QED
    BY <1>1 DEF Stored

-----------------------------------------------------------------------------
(* Keys are unique. *)

(* What a transaction has inserted nobody else has, committed or not.      *)
HeldIsPrivate == \A p, q \in Procs : p # q => held[p] \cap held[q] = {}
HeldIsNew     == \A p \in Procs : \A k \in held[p] : ~Stored(k)

KeysInv == TypeInv /\ HeldIsPrivate /\ HeldIsNew /\ KeysUnique

LEMMA KeysInit == Init => KeysInv
  <1> SUFFICES ASSUME Init PROVE KeysInv
    OBVIOUS
  <1>1. PICK stored \in Initially : rows = [key : stored, by : {Earlier}]
    BY DEF Init, RecordsInit
  <1>2. KeysUnique
    BY <1>1 DEF KeysUnique
  <1>3. QED
    BY <1>2, TypeInit DEF KeysInv, HeldIsPrivate, HeldIsNew, Init, RecordsInit

LEMMA KeysStep == KeysInv /\ [Next]_vars => KeysInv'
  <1> SUFFICES ASSUME KeysInv, [Next]_vars PROVE KeysInv'
    OBVIOUS
  <1> USE DEF KeysInv
  <1>0. TypeInv'
    BY TypeStep
  <1> held \in [Procs -> SUBSET Keys]
    BY DEF TypeInv, TypeOK, RecordsTypeOK
  <1>1. CASE UNCHANGED <<rows, cabin, held>>
    BY <1>0, <1>1 DEF HeldIsPrivate, HeldIsNew, KeysUnique, Stored
  <1>2. ASSUME NEW p \in Procs, Inserts(p)
        PROVE  HeldIsPrivate' /\ HeldIsNew' /\ KeysUnique'
    <2>1. PICK ks \in SUBSET Keys : Insert(p, ks) /\ UNCHANGED records
      BY <1>2 DEF Inserts
    <2>2. HeldIsPrivate'
      BY <2>1 DEF HeldIsPrivate, Insert, Waits
    <2>3. HeldIsNew'
      BY <2>1 DEF HeldIsNew, Insert, Stored, records
    <2>4. QED
      BY <2>1, <2>2, <2>3 DEF KeysUnique, records
  <1>3. ASSUME NEW p \in Procs, Ends(p)
        PROVE  HeldIsPrivate' /\ HeldIsNew' /\ KeysUnique'
    BY <1>3 DEF Ends, HeldIsPrivate, HeldIsNew, KeysUnique, Stored, records
  <1>4. ASSUME NEW p \in Procs, CommitRows(p)
        PROVE  HeldIsPrivate' /\ HeldIsNew' /\ KeysUnique'
    <2>1. held' = [held EXCEPT ![p] = {}] /\ rows' = rows \cup [key : held[p], by : {p}]
      BY <1>4 DEF CommitRows, Release
    <2>2. HeldIsPrivate'
      BY <2>1 DEF HeldIsPrivate
    <2>3. HeldIsNew'
      BY <1>4, <2>1, CommitStores DEF HeldIsNew, HeldIsPrivate
    <2>4. KeysUnique'
      <3> SUFFICES ASSUME NEW r \in rows', NEW s \in rows', r.key = s.key PROVE r = s
        BY DEF KeysUnique
      <3>1. CASE r \in rows /\ s \in rows
        BY <3>1 DEF KeysUnique
      <3>2. CASE r \in [key : held[p], by : {p}] /\ s \in [key : held[p], by : {p}]
        BY <3>2
      <3>3. ~(r \in rows /\ s \in [key : held[p], by : {p}])
        BY DEF HeldIsNew, Stored
      <3>4. ~(s \in rows /\ r \in [key : held[p], by : {p}])
        BY DEF HeldIsNew, Stored
      <3>5. QED
        BY <2>1, <3>1, <3>2, <3>3, <3>4
    <2>5. QED
      BY <2>2, <2>3, <2>4
  <1>5. QED
    BY <1>0, <1>1, <1>2, <1>3, <1>4, StepTransacts DEF Transacts, Looks, Commits

(* No two accounts have one address or one name, no two flights one number *)
(* on one day, and the reference data is there once: an INSERT checks what *)
(* is committed and waits for what is not, so that a key in one            *)
(* transaction is in no other and in no row.                               *)
THEOREM SetupKeysUnique == Spec => []KeysUnique
  <1>1. KeysInv => KeysUnique
    BY DEF KeysInv
  <1>2. QED
    BY KeysInit, KeysStep, <1>1, PTL DEF Spec

-----------------------------------------------------------------------------
(* Each transaction holds what its handler has inserted so far.            *)

SeederInOrder(w) ==
    /\ pc[w] \in {"down", "counting", "tables", "maps", "administrator", "adding", "naming",
                  "flights", "flying", "committing", "serving", "done"}
    /\ pc[w] \in {"down", "counting", "tables", "serving", "done"} => held[w] = {}
    /\ pc[w] = "maps" => held[w] \cap Tables = FirstTables
    /\ pc[w] # "maps" => held[w] \cap Tables \in {{}, Tables}
    /\ pc[w] \notin {"flying", "committing"} => held[w] \cap FlightKeys = {} /\ seated[w] = {}
    /\ pc[w] = "flying" \/ held[w] \cap FlightKeys # {} => Sees(w, "aircraft")
    /\ pc[w] = "committing" => seated[w] = held[w] \cap FlightKeys

AccountInOrder(p) ==
    /\ pc[p] \in {"start", "adding", "naming", "committing", "done"}
    /\ held[p] \subseteq Emails \cup Usernames
    /\ seated[p] = {}

PublisherInOrder(p) ==
    /\ pc[p] \in {"start", "finding", "choosing", "inserting", "seating", "committing", "done"}
    /\ pc[p] \in {"start", "finding", "choosing", "inserting", "done"} =>
          held[p] = {} /\ seated[p] = {}
    /\ pc[p] = "seating" => held[p] = {flight[p]} /\ seated[p] = {}
    /\ pc[p] = "committing" => held[p] = {flight[p]} /\ seated[p] = {flight[p]}
    /\ pc[p] \in {"inserting", "seating", "committing"} => Stored("aircraft")

InOrder ==
    /\ \A w \in Seeders : SeederInOrder(w)
    /\ \A p \in Registrations \cup Promotions : AccountInOrder(p)
    /\ \A p \in Publishers : PublisherInOrder(p)

LEMMA KeyKinds ==
    /\ Tables \cap FlightKeys = {}
    /\ \A k \in Emails \cup Usernames : k \notin Tables /\ k \notin FlightKeys
    /\ FirstTables \subseteq Tables /\ Tables \cap OtherTables = OtherTables
    /\ FirstTables \cup OtherTables = Tables
    /\ "aircraft" \in OtherTables /\ "aircraft" \in Tables
    /\ "airports" \in FirstTables /\ "airports" \in Tables
  BY KeysAreDistinct DEF Tables, FirstTables, OtherTables

LEMMA SeederStaysInOrder ==
    ASSUME KeysInv, NEW w \in Seeders, SeederInOrder(w), SeedStep(w)
    PROVE  SeederInOrder(w)'
  <1> w \in Procs
    BY DEF Procs
  <1> /\ held \in [Procs -> SUBSET Keys] /\ seated \in [Procs -> SUBSET FlightKeys]
      /\ pc \in [Procs -> Labels]
    BY DEF KeysInv, TypeInv, TypeOK, RecordsTypeOK
  <1> USE KeyKinds DEF SeederInOrder, Goto, records, work, seedVars, Sees
  <1>1. CASE CountAirports(w)
    BY <1>1 DEF CountAirports, Stored
  <1>2. CASE AddFirstTables(w)
    <2>1. held'[w] = FirstTables /\ pc'[w] = "maps" /\ seated'[w] = seated[w]
      BY <1>2 DEF AddFirstTables, Insert
    <2>2. QED
      BY <1>2, <2>1 DEF AddFirstTables
  <1>3. CASE LeaveSeeding(w)
    BY <1>3 DEF LeaveSeeding, Ended, Release
  <1>4. CASE AddOtherTables(w)
    <2>1. /\ held'[w] = held[w] \cup OtherTables /\ pc'[w] = "administrator"
          /\ seated'[w] = seated[w] /\ pc[w] = "maps"
      BY <1>4 DEF AddOtherTables, Insert
    <2>2. held'[w] \cap Tables = Tables /\ held'[w] \cap FlightKeys = {}
      BY <2>1
    <2>3. QED
      BY <2>1, <2>2
  <1>5. CASE SkipAdministrator(w) \/ NeedAdministrator(w)
    BY <1>5 DEF SkipAdministrator, NeedAdministrator, Stored
  <1>6. CASE AddAdministrator(w)
    <2>1. /\ held'[w] = held[w] \cup {AdminEmail[w]} /\ pc'[w] = "naming"
          /\ seated'[w] = seated[w] /\ pc[w] = "adding"
      BY <1>6 DEF AddAdministrator, Insert
    <2>2. AdminEmail[w] \in Emails
      BY <2>1 DEF KeysInv, TypeInv, AdminConfigured
    <2>3. held'[w] \cap Tables = held[w] \cap Tables /\ held'[w] \cap FlightKeys = {}
      BY <2>1, <2>2
    <2>4. QED
      BY <2>1, <2>3
  <1>7. CASE NameAdministrator(w)
    <2>1. /\ held'[w] = held[w] \cup {AdminUsername[w]} /\ pc'[w] = "flights"
          /\ seated'[w] = seated[w] /\ pc[w] = "naming"
      BY <1>7 DEF NameAdministrator, Insert
    <2>2. AdminUsername[w] \in Usernames
      BY SeedingAssumption
    <2>3. held'[w] \cap Tables = held[w] \cap Tables /\ held'[w] \cap FlightKeys = {}
      BY <2>1, <2>2
    <2>4. QED
      BY <2>1, <2>3
  <1>8. CASE CountFlights(w)
    BY <1>8 DEF CountFlights, Stored
  <1>9. CASE AddDemoFlight(w)
    <2>1. next[w] \in 1 .. Demos
      BY <1>9, SeedingAssumption DEF AddDemoFlight, KeysInv, TypeInv, TypeOK, SeedingTypeOK
    <2>2. Demo[next[w]] \in FlightKeys
      BY <2>1, SeedingAssumption
    <2>3. held'[w] = held[w] \cup {Demo[next[w]]} /\ pc' = pc /\ pc[w] = "flying" /\ rows' = rows
      BY <1>9 DEF AddDemoFlight, Insert
    <2>4. held'[w] \cap Tables = held[w] \cap Tables
      BY <2>2, <2>3
    <2>5. QED
      BY <2>3, <2>4 DEF Stored
  <1>10. CASE SeatLastFlight(w)
    BY <1>10 DEF SeatLastFlight, Stored
  <1>11. CASE CommitSeed(w)
    BY <1>11 DEF CommitSeed, Ended, CommitRows, Release
  <1>12. QED
    BY <1>1, <1>2, <1>3, <1>4, <1>5, <1>6, <1>7, <1>8, <1>9, <1>10, <1>11
    DEF SeedStep, SeededMeanwhile, AdministratorUnfit, AdministratorTaken, DemoFlightTaken

LEMMA SeederStartsInOrder ==
    ASSUME KeysInv, NEW w \in Seeders, SeederInOrder(w), Start(w) \/ Disconnect(w) \/ Kill(w)
    PROVE  SeederInOrder(w)'
  <1> w \in Procs
    BY DEF Procs
  <1> /\ held \in [Procs -> SUBSET Keys] /\ seated \in [Procs -> SUBSET FlightKeys]
      /\ pc \in [Procs -> Labels]
    BY DEF KeysInv, TypeInv, TypeOK, RecordsTypeOK
  <1>1. CASE Start(w)
    BY <1>1, KeyKinds DEF Start, SeederInOrder, Goto, records, work, Sees
  <1>2. CASE Disconnect(w) \/ Kill(w)
    BY <1>2, KeyKinds
    DEF Disconnect, Kill, CutOff, Ended, CommitRows, SeederInOrder, Goto, Release, Sees
  <1>3. QED
    BY <1>1, <1>2

LEMMA AccountStaysInOrder ==
    ASSUME KeysInv, NEW p \in Registrations \cup Promotions, AccountInOrder(p),
           \/ Register(p)
           \/ p \in Promotions /\ CreateAdmin(p)
           \/ Lose(p)
    PROVE  AccountInOrder(p)'
  <1> p \in Procs
    BY DEF Procs, Requests
  <1> /\ held \in [Procs -> SUBSET Keys] /\ seated \in [Procs -> SUBSET FlightKeys]
      /\ pc \in [Procs -> Labels]
    BY DEF KeysInv, TypeInv, TypeOK, RecordsTypeOK
  <1> form[p].email \in Emails /\ form[p].username \in Usernames
    BY DEF KeysInv, TypeInv, TypeOK, AccountsTypeOK, Forms
  <1> USE DEF AccountInOrder, Goto, records, work
  <1>1. CASE ReceiveRegistration(p)
    BY <1>1 DEF ReceiveRegistration
  <1>2. CASE Authorise(p) /\ p \in Promotions
    BY <1>2 DEF Authorise
  <1>3. CASE AddAccount(p) \/ NameAccount(p)
    BY <1>3 DEF AddAccount, NameAccount, Insert
  <1>4. CASE \E s : Refuse(p, s)
    BY <1>4 DEF Refuse, Release
  <1>5. CASE CommitAccount(p)
    BY <1>5 DEF CommitAccount, Commit, CommitRows, Release
  <1>6. CASE Lose(p)
    BY <1>6 DEF Lose, Release
  <1>7. QED
    BY <1>1, <1>2, <1>3, <1>4, <1>5, <1>6
    DEF Register, CreateAdmin, Account, NotAuthorised, PasswordTooLong, AlreadyRegistered

LEMMA PublisherStaysInOrder ==
    ASSUME KeysInv, \A t, u \in Tables : Stored(t) => Stored(u), NEW p \in Publishers,
           PublisherInOrder(p), Publish(p) \/ Lose(p)
    PROVE  PublisherInOrder(p)'
  <1> p \in Procs /\ p \notin Promotions
    BY ProcessesAreDistinct DEF Procs, Requests
  <1> /\ held \in [Procs -> SUBSET Keys] /\ seated \in [Procs -> SUBSET FlightKeys]
      /\ pc \in [Procs -> Labels]
    BY DEF KeysInv, TypeInv, TypeOK, RecordsTypeOK
  <1> USE DEF PublisherInOrder, Goto, records, work
  <1>1. CASE Authorise(p)
    BY <1>1 DEF Authorise
  <1>2. CASE FindRoute(p) \/ FindAircraft(p)
    BY <1>2 DEF FindRoute, FindAircraft, Stored
  <1>3. CASE InsertFlight(p)
    BY <1>3 DEF InsertFlight, Insert, Stored, publishVars
  <1>4. CASE MaterialiseCabin(p)
    BY <1>4 DEF MaterialiseCabin, Stored, publishVars
  <1>5. CASE \E s : Refuse(p, s)
    BY <1>5 DEF Refuse, Release
  <1>6. CASE CommitFlight(p)
    BY <1>6 DEF CommitFlight, Commit, CommitRows, Release
  <1>7. CASE Lose(p)
    BY <1>7 DEF Lose, Release
  <1>8. QED
    BY <1>1, <1>2, <1>3, <1>4, <1>5, <1>6, <1>7
    DEF Publish, NotAuthorised, NoSuchRoute, NoSuchAircraft, NoSuchTime, NumberInUse

-----------------------------------------------------------------------------
(* The reference data is stored as a whole, no flight is stored without an *)
(* aircraft to fly it, and each flight with its cabin.                     *)

TablesTogether == \A t, u \in Tables : Stored(t) => Stored(u)

FlightsHaveAircraft == \A k \in FlightKeys : Stored(k) => Stored("aircraft")

CabinMatches ==
    \A k \in FlightKeys : cabin[k] = IF Stored(k) THEN SeatMap(Capacity) ELSE {}

WholeInv ==
    /\ KeysInv
    /\ InOrder
    /\ TablesTogether
    /\ FlightsHaveAircraft
    /\ CabinMatches

(* What is in order for a process stays so while another one takes a step. *)
LEMMA OthersStayInOrder ==
    ASSUME InOrder, rows \subseteq rows', UNCHANGED flight, NEW q \in Procs,
           pc'[q] = pc[q], held'[q] = held[q], seated'[q] = seated[q]
    PROVE  /\ q \in Seeders => SeederInOrder(q)'
           /\ q \in Registrations \cup Promotions => AccountInOrder(q)'
           /\ q \in Publishers => PublisherInOrder(q)'
  <1>1. Stored("aircraft") => Stored("aircraft")'
    BY DEF Stored
  <1>2. q \in Seeders => SeederInOrder(q)'
    BY <1>1 DEF InOrder, SeederInOrder, Sees
  <1>3. q \in Registrations \cup Promotions => AccountInOrder(q)'
    BY DEF InOrder, AccountInOrder
  <1>4. q \in Publishers => PublisherInOrder(q)'
    BY <1>1 DEF InOrder, PublisherInOrder
  <1>5. QED
    BY <1>2, <1>3, <1>4

LEMMA SeederStepsAreTheirOwn ==
    ASSUME TypeInv, NEW w \in Seeders,
           Start(w) \/ SeedStep(w) \/ Disconnect(w) \/ Kill(w)
    PROVE  /\ \A q \in Procs \ {w} : pc'[q] = pc[q]
           /\ \A q \in Procs \ {w} : answer'[q] = answer[q]
           /\ \A q \in Procs \ {w} : held'[q] = held[q]
           /\ \A q \in Procs \ {w} : seated'[q] = seated[q]
  <1> /\ held \in [Procs -> SUBSET Keys] /\ seated \in [Procs -> SUBSET FlightKeys]
      /\ pc \in [Procs -> Labels] /\ answer \in [Procs -> Answers]
    BY DEF TypeInv, TypeOK, RecordsTypeOK
  <1> USE DEF Goto, Send, Insert, Release, CommitRows, records, work
  <1>1. CASE Start(w) \/ Disconnect(w) \/ Kill(w)
    BY <1>1 DEF Start, Disconnect, Kill, CutOff
  <1>2. CASE SeedStep(w)
    BY <1>2
    DEF SeedStep, CountAirports, AddFirstTables, SeededMeanwhile, AddOtherTables,
        SkipAdministrator, NeedAdministrator, AdministratorUnfit, AddAdministrator,
        NameAdministrator, AdministratorTaken, CountFlights, AddDemoFlight, DemoFlightTaken, SeatLastFlight,
        CommitSeed, LeaveSeeding
  <1>3. QED
    BY <1>1, <1>2

LEMMA FormsStay ==
    ASSUME [Next]_vars
    PROVE  UNCHANGED <<form, token, flight, roundsToZero>>
  BY DEF Next, StartStep, SeedingStep, RegisterStep, PromoteStep, PublishStep, CutStep, LoseStep,
         Finished, vars, requestVars, accountVars, publishVars,
         Register, CreateAdmin, Account, Authorise, NotAuthorised, ReceiveRegistration,
         PasswordTooLong, AddAccount, NameAccount, AlreadyRegistered, CommitAccount,
         Publish, NoSuchRoute, FindRoute, NoSuchAircraft, FindAircraft, NoSuchTime, InsertFlight,
         NumberInUse, MaterialiseCabin, CommitFlight

LEMMA OrderStep ==
    ASSUME WholeInv, [Next]_vars
    PROVE  InOrder'
  <1> USE DEF WholeInv
  <1>0. TypeInv /\ RecordsTypeOK /\ rows \subseteq rows' /\ UNCHANGED flight
    BY RowsStay, FormsStay DEF KeysInv, TypeInv, TypeOK
  <1>1. ASSUME NEW w \in Seeders, StartStep(w) \/ SeedingStep(w) \/ CutStep(w)
        PROVE  InOrder'
    <2> w \in Procs /\ w \notin Requests
      BY ProcessesAreDistinct DEF Procs
    <2>1. Start(w) \/ SeedStep(w) \/ Disconnect(w) \/ Kill(w)
      BY <1>1 DEF StartStep, SeedingStep, CutStep
    <2>2. SeederInOrder(w)'
      BY <2>1, SeederStaysInOrder, SeederStartsInOrder DEF InOrder
    <2>3. \A q \in Procs \ {w} :
             /\ q \in Seeders => SeederInOrder(q)'
             /\ q \in Registrations \cup Promotions => AccountInOrder(q)'
             /\ q \in Publishers => PublisherInOrder(q)'
      BY <1>0, <2>1, SeederStepsAreTheirOwn, OthersStayInOrder
    <2>4. QED
      BY <2>2, <2>3 DEF InOrder, Procs, Requests
  <1>2. ASSUME NEW p \in Requests,
               \/ p \in Registrations /\ RegisterStep(p)
               \/ p \in Promotions /\ PromoteStep(p)
               \/ p \in Publishers /\ PublishStep(p)
               \/ LoseStep(p)
        PROVE  InOrder'
    <2> p \in Procs /\ p \notin Seeders
      BY ProcessesAreDistinct DEF Procs
    <2>1. Register(p) \/ CreateAdmin(p) \/ Publish(p) \/ Lose(p)
      BY <1>2 DEF RegisterStep, PromoteStep, PublishStep, LoseStep
    <2>2. \A q \in Procs \ {p} :
             /\ q \in Seeders => SeederInOrder(q)'
             /\ q \in Registrations \cup Promotions => AccountInOrder(q)'
             /\ q \in Publishers => PublisherInOrder(q)'
      BY <1>0, <2>1, RequestStepsAreTheirOwn, OthersStayInOrder
    <2>3. p \in Registrations \cup Promotions => AccountInOrder(p)'
      BY <1>2, AccountStaysInOrder, ProcessesAreDistinct
      DEF RegisterStep, PromoteStep, LoseStep, InOrder
    <2>4. p \in Publishers => PublisherInOrder(p)'
      BY <1>2, PublisherStaysInOrder, ProcessesAreDistinct
      DEF PublishStep, LoseStep, InOrder, TablesTogether
    <2>5. QED
      BY <2>2, <2>3, <2>4 DEF InOrder, Procs, Requests
  <1>3. CASE UNCHANGED vars
    BY <1>3
    DEF vars, records, work, publishVars, requestVars, InOrder, SeederInOrder, AccountInOrder,
        PublisherInOrder, Stored, Sees
  <1>4. QED
    BY <1>1, <1>2, <1>3 DEF Next, Finished, Requests

LEMMA CommitIsWhole ==
    ASSUME KeysInv, InOrder, NEW p \in Procs, pc[p] = "committing"
    PROVE  /\ held[p] \cap Tables \in {{}, Tables}
           /\ seated[p] = held[p] \cap FlightKeys
           /\ held[p] \cap FlightKeys # {} => Sees(p, "aircraft")
  <1>1. CASE p \in Seeders
    BY <1>1 DEF InOrder, SeederInOrder
  <1>2. CASE p \in Registrations \cup Promotions
    BY <1>2, KeyKinds DEF InOrder, AccountInOrder
  <1>3. CASE p \in Publishers
    <2>1. flight[p] \in FlightKeys /\ held[p] = {flight[p]} /\ seated[p] = {flight[p]}
      BY <1>3 DEF InOrder, PublisherInOrder, KeysInv, TypeInv, TypeOK, PublishingTypeOK
    <2>2. QED
      BY <1>3, <2>1, KeyKinds DEF InOrder, PublisherInOrder, Sees
  <1>4. QED
    BY <1>1, <1>2, <1>3 DEF Procs, Requests

LEMMA WholeInit == Init => WholeInv
  <1> SUFFICES ASSUME Init PROVE WholeInv
    OBVIOUS
  <1>1. PICK stored \in Initially : rows = [key : stored, by : {Earlier}]
    BY DEF Init, RecordsInit
  <1>2. stored \subseteq Keys \ FlightKeys /\ stored \cap Tables \in {{}, Tables}
    BY InitiallyAssumption
  <1>3. \A k : Stored(k) <=> k \in stored
    <2>1. ASSUME NEW k \in stored PROVE Stored(k)
      <3>1. [key |-> k, by |-> Earlier] \in rows /\ [key |-> k, by |-> Earlier].key = k
        BY <1>1
      <3>2. QED
        BY <3>1 DEF Stored
    <2>2. QED
      BY <1>1, <2>1 DEF Stored
  <1>4. TablesTogether
    BY <1>2, <1>3 DEF TablesTogether
  <1>5. FlightsHaveAircraft /\ CabinMatches
    BY <1>2, <1>3 DEF FlightsHaveAircraft, CabinMatches, Init, RecordsInit
  <1>6. InOrder
    BY KeyKinds, ProcessesAreDistinct
    DEF Init, RecordsInit, InOrder, SeederInOrder, AccountInOrder, PublisherInOrder, Procs, Requests
  <1>7. QED
    BY <1>4, <1>5, <1>6, KeysInit DEF WholeInv

LEMMA WholeStep == WholeInv /\ [Next]_vars => WholeInv'
  <1> SUFFICES ASSUME WholeInv, [Next]_vars PROVE WholeInv'
    OBVIOUS
  <1>0. KeysInv' /\ InOrder' /\ TypeInv
    BY KeysStep, OrderStep DEF WholeInv, KeysInv
  <1>1. CASE UNCHANGED <<rows, cabin>>
    BY <1>0, <1>1 DEF WholeInv, TablesTogether, FlightsHaveAircraft, CabinMatches, Stored
  <1>2. ASSUME NEW p \in Procs, Commits(p)
        PROVE  TablesTogether' /\ FlightsHaveAircraft' /\ CabinMatches'
    <2>1. \A k : Stored(k)' <=> Stored(k) \/ k \in held[p]
      BY <1>2, CommitStores DEF Commits
    <2>2. /\ held[p] \cap Tables \in {{}, Tables}
          /\ seated[p] = held[p] \cap FlightKeys
          /\ held[p] \cap FlightKeys # {} => Sees(p, "aircraft")
      BY <1>2, CommitIsWhole DEF Commits, WholeInv
    <2>3. TablesTogether'
      BY <2>1, <2>2 DEF TablesTogether, WholeInv
    <2>4. FlightsHaveAircraft'
      BY <2>1, <2>2 DEF FlightsHaveAircraft, WholeInv, Sees
    <2>5. CabinMatches'
      <3>1. cabin' = [k \in FlightKeys |->
                         IF k \in seated[p] THEN SeatMap(Capacity) ELSE cabin[k]]
        BY <1>2 DEF Commits, CommitRows
      <3>2. QED
        BY <2>1, <2>2, <3>1 DEF CabinMatches, WholeInv
    <2>6. QED
      BY <2>3, <2>4, <2>5
  <1>3. QED
    BY <1>0, <1>1, <1>2, StepTransacts
    DEF Transacts, Looks, Inserts, Ends, records, WholeInv

(* The reference data is never stored in part: what is flushed and not     *)
(* committed goes with the process, and every commit of seed.py has it all *)
(* or none of it.                                                          *)
THEOREM ReferenceDataIsWhole == Spec => []SeededWhole
  <1>1. WholeInv => SeededWhole
    BY KeyKinds DEF WholeInv, TablesTogether, SeededWhole
  <1>2. QED
    BY WholeInit, WholeStep, <1>1, PTL DEF Spec

-----------------------------------------------------------------------------
(* The seats of a cabin are numbered row by row, from 1 to the capacity.   *)

Number(seat) == (seat[1] - 1) * Columns + seat[2]

LEMMA TimesAtLeast ==
    ASSUME NEW C \in Nat \ {0}, NEW a \in Nat \ {0}
    PROVE  a * C >= C
  OBVIOUS

LEMMA Divided ==
    ASSUME NEW C \in Nat \ {0}, NEW n \in Nat
    PROVE  /\ n \div C \in 0 .. n
           /\ n % C \in 0 .. C - 1
           /\ n = (n \div C) * C + (n % C)
  OBVIOUS

LEMMA LaterRowIsHigher ==
    ASSUME NEW C \in Nat \ {0}, NEW r \in Nat \ {0}, NEW s \in Nat \ {0}, r < s,
           NEW c \in 1 .. C, NEW d \in 1 .. C
    PROVE  (r - 1) * C + c < (s - 1) * C + d
  <1>1. (s - r) * C >= C
    BY TimesAtLeast
  <1>2. (s - r) * C = (s - 1) * C - (r - 1) * C
    OBVIOUS
  <1>3. (s - 1) * C \in Int /\ (r - 1) * C \in Int
    OBVIOUS
  <1>4. QED
    BY <1>1, <1>2, <1>3

(* The map of a type has as many seats as its capacity says, whatever the   *)
(* number of seats abreast (_a321neo_seat_map, "220 seats, six abreast").  *)
LEMMA CabinSize ==
    ASSUME NEW n \in Nat
    PROVE  IsFiniteSet(SeatMap(n)) /\ Cardinality(SeatMap(n)) = n
  <1> DEFINE f == [seat \in SeatMap(n) |-> Number(seat)]
  <1>0. Columns \in Nat \ {0}
    BY CabinAssumption
  <1>1. ASSUME NEW seat \in SeatMap(n)
        PROVE  Number(seat) \in 1 .. n
    <2>1. seat[1] \in 1 .. n /\ seat[2] \in 1 .. Columns /\ Number(seat) <= n
      BY <1>1 DEF SeatMap, Number
    <2>2. (seat[1] - 1) * Columns \in Nat
      BY <1>0, <2>1
    <2>3. QED
      BY <2>1, <2>2 DEF Number
  <1>2. ASSUME NEW s \in SeatMap(n), NEW t \in SeatMap(n), Number(s) = Number(t)
        PROVE  s = t
    <2>1. /\ s \in (1 .. n) \X (1 .. Columns) /\ t \in (1 .. n) \X (1 .. Columns)
          /\ s[1] \in Nat \ {0} /\ t[1] \in Nat \ {0}
          /\ s[2] \in 1 .. Columns /\ t[2] \in 1 .. Columns
      BY DEF SeatMap
    <2>2. (s[1] - 1) * Columns \in Int /\ (t[1] - 1) * Columns \in Int
      BY <1>0, <2>1
    <2>3. ~(s[1] < t[1]) /\ ~(t[1] < s[1])
      <3>1. s[1] < t[1] => Number(s) < Number(t)
        BY <1>0, <2>1, LaterRowIsHigher DEF Number
      <3>2. t[1] < s[1] => Number(t) < Number(s)
        BY <1>0, <2>1, LaterRowIsHigher DEF Number
      <3>3. Number(s) \in Int
        BY <1>1
      <3>4. QED
        BY <1>2, <3>1, <3>2, <3>3
    <2>4. s[1] = t[1]
      BY <2>1, <2>3
    <2>5. s[2] = t[2]
      BY <1>2, <2>1, <2>2, <2>4 DEF Number
    <2>6. QED
      BY <2>1, <2>4, <2>5
  <1>3. ASSUME NEW m \in 1 .. n
        PROVE  \E seat \in SeatMap(n) : Number(seat) = m
    <2> DEFINE q == (m - 1) \div Columns
    <2> DEFINE e == (m - 1) % Columns
    <2>1. m - 1 \in Nat
      OBVIOUS
    <2>2. q \in 0 .. m - 1 /\ e \in 0 .. Columns - 1 /\ m - 1 = q * Columns + e
      BY <1>0, <2>1, Divided
    <2> HIDE DEF q, e
    <2>3. q + 1 \in 1 .. n /\ e + 1 \in 1 .. Columns /\ (q + 1) - 1 = q
      BY <1>0, <2>2
    <2>4. q * Columns \in Int
      BY <1>0, <2>2
    <2>5. Number(<<q + 1, e + 1>>) = m
      <3>1. Number(<<q + 1, e + 1>>) = q * Columns + (e + 1)
        BY <2>3 DEF Number
      <3>2. QED
        BY <2>2, <2>4, <3>1
    <2>6. <<q + 1, e + 1>> \in SeatMap(n)
      BY <2>3, <2>5 DEF SeatMap, Number
    <2>7. QED
      BY <2>5, <2>6
  <1>4. f \in Bijection(SeatMap(n), 1 .. n)
    <2>1. f \in [SeatMap(n) -> 1 .. n]
      BY <1>1
    <2>2. \A seat \in SeatMap(n) : f[seat] = Number(seat)
      OBVIOUS
    <2> HIDE DEF f
    <2>3. f \in Injection(SeatMap(n), 1 .. n)
      BY <1>2, <2>1, <2>2 DEF Injection, IsInjective
    <2>4. f \in Surjection(SeatMap(n), 1 .. n)
      BY <1>3, <2>1, <2>2 DEF Surjection
    <2>5. QED
      BY <2>3, <2>4 DEF Bijection
  <1>5. IsFiniteSet(1 .. n) /\ Cardinality(1 .. n) = n
    BY FS_Interval
  <1>6. IsFiniteSet(SeatMap(n))
    BY <1>4, <1>5, FS_Injection DEF Bijection
  <1>7. QED
    BY <1>4, <1>5, <1>6, FS_Bijection DEF ExistsBijection

(* A flight that can be found has as many seats as its type's capacity,    *)
(* and no seat is there without its flight: a commit that stores a flight  *)
(* stores its cabin, and the cabin is the whole map.                       *)
THEOREM CabinsAreWhole == Spec => []CabinIsWhole
  <1>1. WholeInv => CabinIsWhole
    <2>1. Cardinality(SeatMap(Capacity)) = Capacity /\ Cardinality({}) = 0
      BY CabinAssumption, CabinSize, FS_EmptySet
    <2>2. QED
      BY <2>1 DEF WholeInv, CabinMatches, CabinIsWhole
  <1>2. QED
    BY WholeInit, WholeStep, <1>1, PTL DEF Spec

-----------------------------------------------------------------------------
(* What a process looks for and does not find, it has not stored itself    *)
(* nor was it there from the first: only others may store it before the    *)
(* process does.                                                           *)

Absent(w, ks) == \A r \in rows : r.by \in {w, Earlier} => r.key \notin ks

Looked(w) ==
    /\ pc[w] = "tables" => Absent(w, Tables)
    /\ pc[w] = "adding" => Absent(w, {AdminEmail[w]})
    /\ pc[w] = "flying" => Absent(w, FlightKeys)

(* Its administrator's name it does not look for; but it stores the name    *)
(* with the address, which it does.                                        *)
Named(w) ==
    /\ pc[w] = "naming" \/ AdminUsername[w] \in held[w] => AdminEmail[w] \in held[w]
    /\ \A r \in rows : r.by = w /\ r.key = AdminUsername[w] =>
          \E s \in rows : s.by = w /\ s.key = AdminEmail[w]
    /\ pc[w] \in {"adding", "naming"} =>
          \A r \in rows : r.by = w => r.key # AdminUsername[w]

AllLooked == \A w \in Seeders : Looked(w) /\ Named(w)

LEMMA TransactsAddsOwn ==
    ASSUME NEW p, Transacts(p)
    PROVE  rows \subseteq rows' /\ \A r \in rows' : r \in rows \/ r.by = p
  BY DEF Transacts, Looks, Inserts, Ends, Commits, CommitRows, records

LEMMA SeederLooks ==
    ASSUME WholeInv, NEW w \in Seeders, Looked(w), Named(w),
           Start(w) \/ SeedStep(w) \/ Disconnect(w) \/ Kill(w)
    PROVE  Looked(w)' /\ Named(w)'
  <1> w \in Procs
    BY DEF Procs
  <1> /\ held \in [Procs -> SUBSET Keys] /\ pc \in [Procs -> Labels]
    BY DEF WholeInv, KeysInv, TypeInv, TypeOK, RecordsTypeOK
  <1> AdminUsername[w] \in Usernames /\ (pc[w] = "adding" => AdminEmail[w] \in Emails)
    BY SeedingAssumption DEF WholeInv, KeysInv, TypeInv, AdminConfigured
  <1> USE DEF Looked, Named, Goto, records, work
  <1>1. CASE CountAirports(w)
    <2>1. pc'[w] = "tables" => Absent(w, Tables)
      BY <1>1, KeyKinds DEF CountAirports, WholeInv, TablesTogether, Absent, Stored
    <2>2. QED
      BY <1>1, <2>1 DEF CountAirports, Absent
  <1>2. CASE NeedAdministrator(w)
    <2>1. Absent(w, {AdminEmail[w]}) /\ \A r \in rows : r.by = w => r.key # AdminUsername[w]
      BY <1>2 DEF NeedAdministrator, Absent, Stored
    <2>2. QED
      BY <1>2, <2>1 DEF NeedAdministrator, Absent
  <1>3. CASE CountFlights(w)
    <2>1. pc'[w] = "flying" => Absent(w, FlightKeys)
      BY <1>3 DEF CountFlights, Absent, Stored
    <2>2. QED
      BY <1>3, <2>1 DEF CountFlights, Absent
  <1>4. CASE Start(w) \/ SkipAdministrator(w) \/ SeatLastFlight(w)
    BY <1>4 DEF Start, SkipAdministrator, SeatLastFlight, Absent
  <1>5. CASE AddFirstTables(w) \/ AddOtherTables(w)
    <2>1. AdminUsername[w] \in held'[w] => AdminUsername[w] \in held[w]
      BY <1>5, KeyKinds DEF AddFirstTables, AddOtherTables, Insert
    <2>2. held[w] \subseteq held'[w]
      BY <1>5 DEF AddFirstTables, AddOtherTables, Insert
    <2>3. QED
      BY <1>5, <2>1, <2>2 DEF AddFirstTables, AddOtherTables, Absent
  <1>6. CASE AddAdministrator(w) \/ NameAdministrator(w)
    BY <1>6 DEF AddAdministrator, NameAdministrator, Insert, Absent
  <1>7. CASE AddDemoFlight(w)
    <2>1. next[w] \in 1 .. Demos
      BY <1>7, SeedingAssumption
      DEF AddDemoFlight, WholeInv, KeysInv, TypeInv, TypeOK, SeedingTypeOK
    <2>2. Demo[next[w]] \in FlightKeys
      BY <2>1, SeedingAssumption
    <2>3. /\ held'[w] = held[w] \cup {Demo[next[w]]} /\ pc' = pc /\ rows' = rows
      BY <1>7 DEF AddDemoFlight, Insert
    <2>4. AdminUsername[w] \in held'[w] => AdminUsername[w] \in held[w]
      BY <2>2, <2>3, KeyKinds
    <2>5. QED
      BY <1>7, <2>3, <2>4 DEF AddDemoFlight, Absent
  <1>8. ASSUME pc'[w] \in {"down", "serving", "done"}, held'[w] = {}, Ends(w) \/ Commits(w)
        PROVE  Looked(w)' /\ Named(w)'
    <2>1. CASE Ends(w)
      BY <1>8, <2>1 DEF Ends
    <2>2. CASE Commits(w)
      <3>1. rows' = rows \cup [key : held[w], by : {w}]
        BY <2>2 DEF Commits, CommitRows
      <3>2. ASSUME NEW r \in rows', r.by = w, r.key = AdminUsername[w]
            PROVE  \E s \in rows' : s.by = w /\ s.key = AdminEmail[w]
        <4>1. CASE r \in rows
          BY <3>1, <3>2, <4>1
        <4>2. CASE r \in [key : held[w], by : {w}]
          <5>1. [key |-> AdminEmail[w], by |-> w] \in rows'
            BY <3>1, <3>2, <4>2
          <5>2. QED
            BY <5>1
        <4>3. QED
          BY <3>1, <3>2, <4>1, <4>2
      <3>3. QED
        BY <1>8, <3>2
    <2>3. QED
      BY <1>8, <2>1, <2>2
  <1>9. CASE LeaveSeeding(w) \/ CommitSeed(w) \/ Disconnect(w) \/ Kill(w)
    <2>1. pc'[w] \in {"down", "serving", "done"}
      BY <1>9 DEF LeaveSeeding, CommitSeed, Disconnect, Kill, Ended
    <2>2. held'[w] = {} /\ (Ends(w) \/ Commits(w))
      BY <1>9
      DEF LeaveSeeding, CommitSeed, Disconnect, Kill, CutOff, CommitRows, Release, Ends, Commits
    <2>3. QED
      BY <1>8, <2>1, <2>2
  <1>10. QED
    BY <1>1, <1>2, <1>3, <1>4, <1>5, <1>6, <1>7, <1>9
    DEF SeedStep, SeededMeanwhile, AdministratorUnfit, AdministratorTaken, DemoFlightTaken

(* What others store is not the process's own, nor from the first.         *)
LEMMA LookedStays ==
    ASSUME NEW w \in Seeders, Looked(w), Named(w), NEW p \in Procs, p # w, Transacts(p),
           pc'[w] = pc[w], held'[w] = held[w]
    PROVE  Looked(w)' /\ Named(w)'
  <1>1. rows \subseteq rows' /\ \A r \in rows' : r.by \in {w, Earlier} => r \in rows
    BY TransactsAddsOwn, ProcessesAreDistinct
  <1>2. QED
    BY <1>1 DEF Looked, Named, Absent

LEMMA LookedStep ==
    ASSUME WholeInv, AllLooked, [Next]_vars
    PROVE  AllLooked'
  <1> USE DEF AllLooked
  <1>0. TypeInv /\ RecordsTypeOK
    BY DEF WholeInv, KeysInv, TypeInv, TypeOK
  <1>1. ASSUME NEW v \in Seeders, StartStep(v) \/ SeedingStep(v) \/ CutStep(v)
        PROVE  AllLooked'
    <2>1. v \in Procs /\ (Start(v) \/ SeedStep(v) \/ Disconnect(v) \/ Kill(v))
      BY <1>1 DEF StartStep, SeedingStep, CutStep, Procs
    <2>2. Looked(v)' /\ Named(v)'
      BY <2>1, SeederLooks
    <2>3. ASSUME NEW w \in Seeders, w # v PROVE Looked(w)' /\ Named(w)'
      <3>1. pc'[w] = pc[w] /\ held'[w] = held[w]
        BY <1>0, <2>1, <2>3, SeederStepsAreTheirOwn DEF Procs
      <3>2. QED
        BY <1>0, <2>1, <2>3, <3>1, SeederTransacts, LookedStays
    <2>4. QED
      BY <2>2, <2>3
  <1>2. ASSUME NEW p \in Requests,
               \/ p \in Registrations \cup Promotions /\ (RegisterStep(p) \/ PromoteStep(p))
               \/ p \in Publishers /\ PublishStep(p)
               \/ LoseStep(p)
        PROVE  AllLooked'
    <2>1. /\ p \in Procs
          /\ \/ p \in Registrations \cup Promotions /\ (Register(p) \/ CreateAdmin(p))
             \/ p \in Publishers /\ Publish(p)
             \/ Lose(p)
      BY <1>2 DEF RegisterStep, PromoteStep, PublishStep, LoseStep, Procs
    <2>2. Transacts(p)
      BY <1>0, <2>1, RequestTransacts
    <2>3. \A w \in Seeders : p # w /\ pc'[w] = pc[w] /\ held'[w] = held[w]
      BY <1>0, <2>1, RequestStepsAreTheirOwn, ProcessesAreDistinct DEF Procs
    <2>4. QED
      BY <2>1, <2>2, <2>3, LookedStays
  <1>3. CASE UNCHANGED vars
    BY <1>3 DEF vars, records, work, Looked, Named, Absent
  <1>4. QED
    BY <1>1, <1>2, <1>3 DEF Next, Finished, Requests

-----------------------------------------------------------------------------
(* Answers. *)

AnswersInv == WholeInv /\ AllLooked /\ RefusedOnlyIfTaken /\ FailsOnlyForCause

(* What a 409 says of its request, and a failure of its process.           *)
Taken(p) ==
    IF p \in Publishers THEN roundsToZero[p] \/ Stored(flight[p])
    ELSE Stored(form[p].email) \/ Stored(form[p].username)

NameTaken(w)       == \E r \in rows : r.key = AdminUsername[w] /\ r.by # w
StoredMeanwhile(w) == \E r \in rows : r.key \in SeedKeys(w) /\ r.by \notin {w, Earlier}
Cause(w)           == w \in unfit \/ NameTaken(w) \/ StoredMeanwhile(w)

LEMMA RefusalStep ==
    ASSUME AnswersInv, [Next]_vars
    PROVE  RefusedOnlyIfTaken'
  <1> USE DEF AnswersInv, WholeInv, KeysInv, TypeInv, TypeOK
  <1>0. /\ \A k : Stored(k) => Stored(k)'
        /\ UNCHANGED <<form, token, flight, roundsToZero>>
    BY RowsStay, FormsStay
  <1> answer \in [Procs -> Answers]
    BY DEF RecordsTypeOK
  <1> USE DEF Taken
  <1>1. \A p \in Requests : Taken(p) => Taken(p)'
    BY <1>0
  <1>2. ASSUME NEW p \in Requests, answer'[p] = answer[p]
        PROVE  answer'[p] = "409" => Taken(p)'
    BY <1>1, <1>2 DEF RefusedOnlyIfTaken
  <1>3. ASSUME NEW p \in Requests,
               \/ p \in Registrations /\ RegisterStep(p)
               \/ p \in Promotions /\ PromoteStep(p)
               \/ p \in Publishers /\ PublishStep(p)
               \/ LoseStep(p)
        PROVE  RefusedOnlyIfTaken'
    <2> p \in Procs
      BY DEF Procs
    <2>1. Register(p) \/ CreateAdmin(p) \/ Publish(p) \/ Lose(p)
      BY <1>3 DEF RegisterStep, PromoteStep, PublishStep, LoseStep
    <2>2. \A q \in Procs \ {p} : answer'[q] = answer[q]
      BY <2>1, RequestStepsAreTheirOwn
    <2>3. CASE Lose(p)
      <3>1. answer'[p] = answer[p] \/ answer'[p] # "409"
        BY <2>3 DEF Lose
      <3>2. QED
        BY <1>2, <2>2, <3>1 DEF RefusedOnlyIfTaken, Procs
    <2>4. CASE p \in Registrations \cup Promotions /\ (Register(p) \/ CreateAdmin(p))
      <3> p \notin Publishers
        BY <2>4, ProcessesAreDistinct
      <3>1. answer'[p] = answer[p] \/ answer'[p] # "409" \/ AlreadyRegistered(p)
        BY <2>4
        DEF Register, CreateAdmin, Account, Authorise, NotAuthorised, ReceiveRegistration,
            PasswordTooLong, AddAccount, NameAccount, CommitAccount, Refuse, Commit, Send
      <3>2. ASSUME AlreadyRegistered(p) PROVE Taken(p)'
        BY <1>0, <3>2 DEF AlreadyRegistered, Clashes
      <3>3. answer'[p] = "409" => Taken(p)'
        BY <1>2, <3>1, <3>2
      <3>4. QED
        BY <1>2, <2>2, <3>3 DEF RefusedOnlyIfTaken, Procs
    <2>5. CASE p \in Publishers /\ Publish(p)
      <3>1. answer'[p] = answer[p] \/ answer'[p] # "409" \/ NumberInUse(p)
        BY <2>5
        DEF Publish, Authorise, NotAuthorised, NoSuchRoute, FindRoute, NoSuchAircraft,
            FindAircraft, NoSuchTime, InsertFlight, MaterialiseCabin, CommitFlight, Refuse,
            Commit, Send
      <3>2. ASSUME NumberInUse(p) PROVE Taken(p)'
        BY <1>0, <2>5, <3>2 DEF NumberInUse, Clashes
      <3>3. answer'[p] = "409" => Taken(p)'
        BY <1>2, <3>1, <3>2
      <3>4. QED
        BY <1>2, <2>2, <3>3 DEF RefusedOnlyIfTaken, Procs
    <2>6. QED
      BY <1>3, <2>3, <2>4, <2>5 DEF RegisterStep, PromoteStep, PublishStep, LoseStep
  <1>4. ASSUME NEW w \in Seeders, StartStep(w) \/ SeedingStep(w) \/ CutStep(w)
        PROVE  RefusedOnlyIfTaken'
    <2>1. \A p \in Requests : answer'[p] = answer[p]
      BY <1>4, SeederStepsAreTheirOwn, ProcessesAreDistinct
      DEF StartStep, SeedingStep, CutStep, Procs
    <2>2. QED
      BY <1>2, <2>1 DEF RefusedOnlyIfTaken
  <1>5. CASE UNCHANGED vars
    BY <1>2, <1>5 DEF vars, RefusedOnlyIfTaken
  <1>6. QED
    BY <1>3, <1>4, <1>5 DEF Next, Finished, Requests

LEMMA CauseIsOther ==
    ASSUME WholeInv, NEW w \in Seeders, Looked(w), Named(w),
           SeededMeanwhile(w) \/ AdministratorTaken(w) \/ DemoFlightTaken(w)
    PROVE  NameTaken(w) \/ StoredMeanwhile(w)
  <1>1. CASE SeededMeanwhile(w)
    <2>1. PICK r \in rows : r.key \in FirstTables
      BY <1>1 DEF SeededMeanwhile, Clashes, Stored
    <2>2. r.by \notin {w, Earlier}
      BY <1>1, <2>1, KeyKinds DEF SeededMeanwhile, Looked, Absent
    <2>3. QED
      BY <2>1, <2>2, KeyKinds DEF StoredMeanwhile, SeedKeys
  <1>2. CASE AdministratorTaken(w)
    <2>1. CASE pc[w] = "adding" /\ Clashes(w, {AdminEmail[w]})
      BY <2>1 DEF Clashes, Stored, Looked, Absent, StoredMeanwhile, SeedKeys
    <2>2. CASE pc[w] = "naming" /\ Clashes(w, {AdminUsername[w]})
      BY <2>2 DEF Clashes, Stored, Named, NameTaken
    <2>3. QED
      BY <1>2, <2>1, <2>2 DEF AdministratorTaken
  <1>3. CASE DemoFlightTaken(w)
    <2>1. next[w] \in 1 .. Demos
      BY <1>3, SeedingAssumption
      DEF DemoFlightTaken, WholeInv, KeysInv, TypeInv, TypeOK, SeedingTypeOK
    <2>2. PICK r \in rows : r.key = Demo[next[w]]
      BY <1>3 DEF DemoFlightTaken, Clashes, Stored
    <2>3. r.key \in FlightKeys /\ r.key \in SeedKeys(w)
      BY <2>1, <2>2, SeedingAssumption DEF SeedKeys
    <2>4. r.by \notin {w, Earlier}
      BY <1>3, <2>3 DEF DemoFlightTaken, Looked, Absent
    <2>5. QED
      BY <2>3, <2>4 DEF StoredMeanwhile
  <1>4. QED
    BY <1>1, <1>2, <1>3

LEMMA FailureStep ==
    ASSUME AnswersInv, [Next]_vars
    PROVE  FailsOnlyForCause'
  <1> USE DEF AnswersInv, WholeInv, KeysInv, TypeInv, TypeOK
  <1>0. rows \subseteq rows'
    BY RowsStay
  <1> answer \in [Procs -> Answers]
    BY DEF RecordsTypeOK
  <1>1. FailsOnlyForCause <=> \A w \in Seeders : answer[w] = "failed" => Cause(w)
    BY DEF FailsOnlyForCause, Cause, NameTaken, StoredMeanwhile
  <1>2. FailsOnlyForCause' <=> \A w \in Seeders : answer'[w] = "failed" => Cause(w)'
    BY DEF FailsOnlyForCause, Cause, NameTaken, StoredMeanwhile
  <1>3. \A w : NameTaken(w) \/ StoredMeanwhile(w) => NameTaken(w)' \/ StoredMeanwhile(w)'
    BY <1>0 DEF NameTaken, StoredMeanwhile, SeedKeys
  <1>4. ASSUME NEW w \in Seeders, answer'[w] = answer[w], w \in unfit => w \in unfit'
        PROVE  answer'[w] = "failed" => Cause(w)'
    BY <1>1, <1>3, <1>4 DEF Cause
  <1>5. ASSUME NEW w \in Seeders, StartStep(w) \/ SeedingStep(w) \/ CutStep(w)
        PROVE  FailsOnlyForCause'
    <2> w \in Procs
      BY DEF Procs
    <2>0. Start(w) \/ SeedStep(w) \/ Disconnect(w) \/ Kill(w)
      BY <1>5 DEF StartStep, SeedingStep, CutStep
    <2>1. \A q \in Seeders \ {w} : answer'[q] = answer[q]
      BY <2>0, SeederStepsAreTheirOwn DEF Procs
    <2>2. Start(w) \/ UNCHANGED unfit
      BY <2>0
      DEF Disconnect, Kill, SeedStep, CountAirports, AddFirstTables, SeededMeanwhile,
          AddOtherTables, SkipAdministrator, NeedAdministrator, AdministratorUnfit,
          AddAdministrator, NameAdministrator, AdministratorTaken, CountFlights, AddDemoFlight,
          DemoFlightTaken, SeatLastFlight, CommitSeed, LeaveSeeding, seedVars
    <2>3. \A q \in Seeders \ {w} : q \in unfit => q \in unfit'
      BY <2>2 DEF Start
    <2>4. \/ answer'[w] = answer[w] /\ UNCHANGED unfit
          \/ answer'[w] # "failed"
          \/ SeededMeanwhile(w) \/ AdministratorTaken(w) \/ DemoFlightTaken(w)
          \/ AdministratorUnfit(w)
      BY <2>0, <2>2
      DEF Start, Disconnect, Kill, SeedStep, CountAirports, AddFirstTables,
          AddOtherTables, SkipAdministrator, NeedAdministrator, AddAdministrator,
          NameAdministrator, CountFlights, AddDemoFlight, SeatLastFlight, CommitSeed, Send
    <2>5. ASSUME AdministratorUnfit(w) PROVE Cause(w)'
      BY <2>5 DEF AdministratorUnfit, LeaveSeeding, seedVars, Cause
    <2>6. ASSUME SeededMeanwhile(w) \/ AdministratorTaken(w) \/ DemoFlightTaken(w)
          PROVE  Cause(w)'
      BY <1>3, <2>6, CauseIsOther DEF AllLooked, Cause
    <2>7. answer'[w] = "failed" => Cause(w)'
      BY <1>4, <2>4, <2>5, <2>6
    <2>8. QED
      BY <1>2, <1>4, <2>1, <2>3, <2>7
  <1>6. ASSUME NEW p \in Requests,
               RegisterStep(p) \/ PromoteStep(p) \/ PublishStep(p) \/ LoseStep(p)
        PROVE  FailsOnlyForCause'
    <2>1. \A w \in Seeders : answer'[w] = answer[w]
      BY <1>6, RequestStepsAreTheirOwn, ProcessesAreDistinct
      DEF RegisterStep, PromoteStep, PublishStep, LoseStep, Procs
    <2>2. UNCHANGED unfit
      BY <1>6 DEF RegisterStep, PromoteStep, PublishStep, LoseStep, seedVars
    <2>3. QED
      BY <1>2, <1>4, <2>1, <2>2
  <1>7. CASE UNCHANGED vars
    BY <1>2, <1>4, <1>7 DEF vars, seedVars
  <1>8. QED
    BY <1>5, <1>6, <1>7 DEF Next, Finished, Requests

LEMMA AnswersInit == Init => AnswersInv
  <1> SUFFICES ASSUME Init PROVE AnswersInv
    OBVIOUS
  <1>1. \A w \in Seeders : w \in Procs /\ pc[w] = "down" /\ held[w] = {}
    BY DEF Init, RecordsInit, Procs
  <1>2. \A r \in rows : r.by = Earlier
    <2>1. PICK stored \in Initially : rows = [key : stored, by : {Earlier}]
      BY DEF Init, RecordsInit
    <2>2. QED
      BY <2>1
  <1>3. AllLooked
    BY <1>1, <1>2, ProcessesAreDistinct DEF AllLooked, Looked, Named
  <1>4. RefusedOnlyIfTaken /\ FailsOnlyForCause
    BY DEF Init, RecordsInit, RefusedOnlyIfTaken, FailsOnlyForCause, Procs
  <1>5. QED
    BY <1>3, <1>4, WholeInit DEF AnswersInv

LEMMA AnswersStep == AnswersInv /\ [Next]_vars => AnswersInv'
  BY WholeStep, LookedStep, RefusalStep, FailureStep DEF AnswersInv

(* Whoever is told that a name, an address or a flight number is in use    *)
(* can find it in use, unless it is a fare that rounds to 0.00: keys are   *)
(* never given back, and nothing else ends in that answer.                 *)
THEOREM RefusalsAreTrue == Spec => []RefusedOnlyIfTaken
  <1>1. AnswersInv => RefusedOnlyIfTaken
    BY DEF AnswersInv
  <1>2. QED
    BY AnswersInit, AnswersStep, <1>1, PTL DEF Spec

(* A seeding that is not cut off fails only over an administrator the       *)
(* table cannot hold, over someone else's account of that name, or over    *)
(* what others store while it is under way: it inserts nothing it has      *)
(* stored itself, and the name only if it has not stored the address.      *)
THEOREM SeedingFailsOnlyForCause == Spec => []FailsOnlyForCause
  <1>1. AnswersInv => FailsOnlyForCause
    BY DEF AnswersInv
  <1>2. QED
    BY AnswersInit, AnswersStep, <1>1, PTL DEF Spec

-----------------------------------------------------------------------------
(* Administrators. *)

FirstAdministrator == \E r \in rows : r.key \in Emails /\ r.by \in Seeders \cup {Earlier}

(* An administrator was there when a request of one was let in.            *)
LetIn ==
    \A p \in Promotions \cup Publishers : pc[p] \notin {"start", "done"} => FirstAdministrator

AdministratorsInv == TypeInv /\ LetIn /\ AdministratorsComeFromSeeding

LEMMA AdministratorsInit == Init => AdministratorsInv
  <1> SUFFICES ASSUME Init PROVE AdministratorsInv
    OBVIOUS
  <1>1. LetIn
    BY ProcessesAreDistinct DEF Init, RecordsInit, LetIn, Procs, Requests
  <1>2. \A r \in rows : r.by = Earlier
    <2>1. PICK stored \in Initially : rows = [key : stored, by : {Earlier}]
      BY DEF Init, RecordsInit
    <2>2. QED
      BY <2>1
  <1>3. Earlier \notin Promotions \cup Publishers
    BY ProcessesAreDistinct DEF Procs, Requests
  <1>4. QED
    BY <1>1, <1>2, <1>3, TypeInit DEF AdministratorsInv, AdministratorsComeFromSeeding

LEMMA LetInStep ==
    ASSUME AdministratorsInv, [Next]_vars
    PROVE  LetIn'
  <1> USE DEF AdministratorsInv, TypeInv, TypeOK
  <1>0. FirstAdministrator => FirstAdministrator'
    BY RowsStay DEF FirstAdministrator
  <1> pc \in [Procs -> Labels]
    BY DEF RecordsTypeOK
  <1>1. ASSUME NEW p \in Promotions \cup Publishers, pc'[p] = pc[p]
        PROVE  pc'[p] \notin {"start", "done"} => FirstAdministrator'
    BY <1>0, <1>1 DEF LetIn
  <1>2. ASSUME NEW p \in Requests,
               \/ p \in Registrations /\ RegisterStep(p)
               \/ p \in Promotions /\ PromoteStep(p)
               \/ p \in Publishers /\ PublishStep(p)
               \/ LoseStep(p)
        PROVE  LetIn'
    <2> p \in Procs
      BY DEF Procs
    <2>1. Register(p) \/ CreateAdmin(p) \/ Publish(p) \/ Lose(p)
      BY <1>2 DEF RegisterStep, PromoteStep, PublishStep, LoseStep
    <2>2. \A q \in Procs \ {p} : pc'[q] = pc[q]
      BY <2>1, RequestStepsAreTheirOwn
    <2>3. ASSUME p \in Promotions \cup Publishers, Authorise(p)
          PROVE  FirstAdministrator
      <3>1. token[p] \in Emails
        BY <2>3 DEF AccountsTypeOK
      <3>2. PICK r \in rows : r.key = token[p] /\ r.by \in Seeders \cup Promotions \cup {Earlier}
        BY <2>3 DEF Authorise, Administrator
      <3>3. QED
        BY <3>1, <3>2 DEF FirstAdministrator, AdministratorsComeFromSeeding
    <2>4. ASSUME p \in Promotions \cup Publishers
          PROVE  \/ pc'[p] = "done"
                 \/ pc[p] \notin {"start", "done"}
                 \/ Authorise(p)
      BY <1>2, <2>4, ProcessesAreDistinct
      DEF RegisterStep, PromoteStep, PublishStep, LoseStep, Lose, CreateAdmin, Account,
          NotAuthorised, PasswordTooLong, AddAccount, NameAccount, AlreadyRegistered,
          CommitAccount, Publish, NoSuchRoute, FindRoute, NoSuchAircraft, FindAircraft,
          NoSuchTime, InsertFlight, NumberInUse, MaterialiseCabin, CommitFlight, Refuse, Commit,
          Goto
    <2>5. p \in Promotions \cup Publishers =>
             (pc'[p] \notin {"start", "done"} => FirstAdministrator')
      BY <1>0, <2>3, <2>4 DEF LetIn
    <2>6. QED
      BY <1>1, <2>2, <2>5 DEF LetIn, Procs, Requests
  <1>3. ASSUME NEW w \in Seeders, StartStep(w) \/ SeedingStep(w) \/ CutStep(w)
        PROVE  LetIn'
    <2>1. \A p \in Requests : pc'[p] = pc[p]
      BY <1>3, SeederStepsAreTheirOwn, ProcessesAreDistinct
      DEF StartStep, SeedingStep, CutStep, Procs
    <2>2. QED
      BY <1>1, <2>1 DEF LetIn, Requests
  <1>4. CASE UNCHANGED vars
    BY <1>1, <1>4 DEF vars, LetIn
  <1>5. QED
    BY <1>2, <1>3, <1>4 DEF Next, Finished, Requests

LEMMA AdministratorsStep == AdministratorsInv /\ [Next]_vars => AdministratorsInv'
  <1> SUFFICES ASSUME AdministratorsInv, [Next]_vars PROVE AdministratorsInv'
    OBVIOUS
  <1>1. TypeInv' /\ LetIn'
    BY TypeStep, LetInStep DEF AdministratorsInv
  <1>2. FirstAdministrator => FirstAdministrator'
    BY RowsStay DEF FirstAdministrator, AdministratorsInv
  <1>3. ASSUME UNCHANGED rows
        PROVE  AdministratorsComeFromSeeding'
    BY <1>3 DEF AdministratorsInv, AdministratorsComeFromSeeding
  <1>4. ASSUME NEW p \in Procs, Commits(p)
        PROVE  AdministratorsComeFromSeeding'
    <2>1. CASE p \in Promotions \cup Publishers
      BY <1>2, <1>4, <2>1
      DEF AdministratorsInv, Commits, LetIn, FirstAdministrator, AdministratorsComeFromSeeding
    <2>2. CASE p \notin Promotions \cup Publishers
      <3>1. \A r \in rows' : r.by \in Promotions \cup Publishers => r \in rows
        BY <1>4, <2>2 DEF Commits, CommitRows
      <3>2. QED
        BY <1>2, <3>1 DEF AdministratorsInv, FirstAdministrator, AdministratorsComeFromSeeding
    <2>3. QED
      BY <2>1, <2>2
  <1>5. AdministratorsComeFromSeeding'
    BY <1>3, <1>4, StepTransacts
    DEF AdministratorsInv, Transacts, Looks, Inserts, Ends, records
  <1>6. QED
    BY <1>1, <1>5 DEF AdministratorsInv

(* Administrators are made by administrators, and the first one by seeding *)
(* alone: whoever is let in has been found to be one in the table, and     *)
(* what registering stores is none.                                        *)
THEOREM NoAdministratorByRegistering == Spec => []AdministratorsComeFromSeeding
  <1>1. AdministratorsInv => AdministratorsComeFromSeeding
    BY DEF AdministratorsInv
  <1>2. QED
    BY AdministratorsInit, AdministratorsStep, <1>1, PTL DEF Spec
=============================================================================
