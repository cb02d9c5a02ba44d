# DS Airlines booking: verification project

TLA+ models of the DS Airlines booking application (FastAPI and SQLAlchemy over PostgreSQL in `src/backend`, React in
`src/frontend`), the TLC runs that check them on small instances, and TLAPS proofs for instances of any size.
`PROJECT.json` is the index: components, runs, mutants, the map from definitions to source lines, findings, hazards
and theorems.

Check a run with `tlc -workers 2 -config X.cfg M` and a proof with `tlapm M.tla`, M being the module named below.

- [1. The system](#1-the-system)
- [2. Modules](#2-modules)
- [3. What the models assume of the platform](#3-what-the-models-assume-of-the-platform)
- [4. Runs](#4-runs)
- [5. Findings](#5-findings)
- [6. Proofs](#6-proofs)
- [7. Not modelled](#7-not-modelled)
- [8. Plan](#8-plan)

## 1. The system

```
 browser                                server processes                          PostgreSQL
 ┌──────────────────────────────┐  HTTP ┌──────────────────────────────┐  SQL    ┌──────────────────┐
 │ App / AuthContext  (session) │──────▶│ auth.py, admin.py            │────────▶│ users            │
 │ Dashboard, BookingDialog     │──────▶│ bookings.py                  │────────▶│ bookings         │
 │  (lists, notice, dialog)     │──────▶│ flights.py                   │────────▶│ flights,         │
 │ useWeather, ThemeContext     │──────▶│ weather.py ── its _cache     │         │ flight_seats,    │
 └──────────────────────────────┘       │ db.py get_session: one       │         │ reference data   │
                                        │  transaction a request       │         └──────────────────┘
                                        │ main.py lifespan ── seed.py  │──▶ Open-Meteo (weather.py)
                                        └──────────────────────────────┘
```

Components never call each other's code except through these arrows: the browser calls the routers, the routers share
the database (and nothing else, `_cache` apart, which belongs to one process), and every router runs inside
`get_session`.

| Component | State | Operations | What is hard | What makes it correct |
|---|---|---|---|---|
| Bookings router (`routers/bookings.py`) | tables `bookings`, `flight_seats`; the handler's locals between statements | `create_booking`, `cancel_booking`, `list_my_bookings` | two sales of one seat, `SKIP LOCKED`, a retry loop that rolls the transaction back in the middle, a seat resold while its old booking is cancelled again | every confirmed booking holds its own seat, no booking holds two, references are unique, nobody is refused a seat that is free, everybody is answered |
| Flights router (`routers/flights.py`) | table `flights`, rows of `flight_seats` | `search_flights`, `get_flight`, `create_flight`, `update_flight`, `delete_flight` | a count without a lock before a repricing; a deletion against a sale; a flush that fails half way; two publications of one number | fares do not drift from what was sold, no update is lost, a flight with bookings stays, a cabin comes and goes whole |
| Relational schema (`models/domain.py`, migrations) | constraints | none | which constraint decides a race | uniqueness, RESTRICT, CASCADE, status together with `booking_id` |
| Sessions and transactions (`db.py`) | one transaction a request | commit, rollback | the commit comes after the response; connections break | a request applies whole or not at all |
| Weather cache (`routers/weather.py`) | `_cache`, the fetches of each request | `read_weather`, `_cached`, `_fetch` | requests interleave at the await; entries expire meanwhile; the provider fails or stalls | answers are recent and always come |
| Dashboard and dialog (`pages/Dashboard.tsx`, `components/BookingDialog.tsx`) | lists, notice, dialog, its error and submission | sell, cancel, reload, search, open and close | answers out of order, lost, or for a dialog that is gone; reloads that fail after the deed | the page never shows or says what is not so; one booking a dialog; no dialog stays stuck |
| Client session (`AuthContext.tsx`, `Login.tsx`, `App.tsx`) | token in `localStorage`, user, loading, route | boot, login, logout, profile | a profile request outlives the session it was sent for; tokens expire under it | the page shows whose token it sends, never stays at "Loading...", forgets a refused token |
| Accounts and tokens (`routers/auth.py`, `app/auth.py`) | table `users` | register, login, token, me, the dependencies that resolve a token | registrations, promotions and a seeding of one address or name at once | unique accounts, a refusal only for what is taken, no administrator by registering |
| Administration (`routers/admin.py`) | none of its own | summary, create an administrator | the summary's figures are read one by one | no booking is counted without its seat and its fare |
| Seeding and start-up (`seed.py`, `main.py`, `scripts/seed.py`) | reference tables, administrator, demo flights | `seed_data` at start or by hand | servers and scripts start on one empty database, are killed between two flushes, meet accounts and flights that are there or under way, lose the database, have an administrator that cannot be stored | seeded once, or not at all; the server comes up in any case |
| Theme, chips, carousel; formatting | presentation | | two effects of `ThemeContext` | |

The hazards this code has, each at its line and with the properties aimed at it, are in `PROJECT.json`.

## 2. Modules

```
Database ◀── BookingsRouter ◀─┐
   ▲                          ├── BookingSystem ◀── MCBooking ◀────────┐
   └──────── FlightsRouter  ◀─┘     │  ▲  ▲                            ├── MCSummary
                                    │  │  └──── OperationsSummary ◀────┤
                    INSTANCE … WITH │  │                               └── SummaryProofs
                                    ▼  └──── BookingProofs ◀── SaleProofs ◀──────┘
                                SeatSales

Records ◀── AccountsRouter ◀── Publishing ◀─┐
   ▲                                        ├── AirlineSetup ◀── MCSetup
   └─────── Seeding ◀───────────────────────┘        ▲
                                                     └── SetupProofs
WeatherCache  ◀── WeatherProofs
Dashboard     ◀── DashboardProofs
ClientSession ◀── SessionProofs
```

The arrows point from a module to the one that extends it. `BookingSystem` is the airline at work, `AirlineSetup` how it
comes to be there; they share tables in the program and no state here, for the rows one of them inserts the other only
reads (a flight that has been published is one of the flights `BookingSystem` begins with).

**`Database`** has the tables (`flights`, `seats`, `bookings`, committed rows only), the row locks, and for every request
`pc` (which statement its handler is at), `answer` (the status sent) and the locals several routers share. `Refuse`,
`Commit` and `Abort` are the three ways out of `get_session`.

**`BookingsRouter`** is `create_booking` and `cancel_booking`. One action is one database statement together with the
Python around it up to the next statement; a statement that visits several rows, and may wait at each, is an action a
row. A booking has the name of the request that makes it.

| Code (`bookings.py`) | Actions |
|---|---|
| flight lookup, 404, 409 (79-90); fare class (92-94) | `ReadFlight`, `FlightNotBookable`, `UnknownFareClass` |
| `SELECT … FOR UPDATE [SKIP LOCKED] LIMIT 1` (96-119) | `SearchSeats` (snapshot), `LockSeat`, `PassSeat`, `SkipLockedSeat` (row by row), `SeatNotAvailable` |
| reference loop (121-144) | `DrawReference`, `InsertBooking`, `CheckFlight`, `RetryReference`, `GiveUpReference` |
| seat update, response, commit (146-153) | `MarkSeat`, `CommitSale` |
| `cancel_booking` (175-210) | `BookingNotFound`, `LockBooking`, `LoadSeats`, `AlreadyCancelled`, `FreeSeatRow`, `SendCancelled`, `CommitCancel` |

**`FlightsRouter`** is `update_flight` (221-265: `ReadForUpdate` … `CommitPatch`) and `delete_flight` (268-289:
`FindForDelete` … `CommitDelete`), in the same way. An update the table refuses is answered 500 before any row is locked:
a status that is none (`InvalidStatus`), a fare that is 0.00 once rounded (`FareTooSmall`).

**`BookingSystem`** composes them: any number of each kind of request over one database, connections that break
(`Fail`), and PostgreSQL's deadlock detector (`WaitsFor`, `LockCycle`, `DeadlockVictim`). It states the properties.

**`SeatSales`** is the abstract specification: `Sell`, `CancelSale` and `Withdraw` as indivisible events on who holds
which seat, with no request, lock or transaction in sight. `BookingSystem!SeatSalesImplemented` says that the tables
change only as it allows, under the mapping `holder <- seats[s].booking`, `sale <- bookings[b].status`,
`soldOn <- bookings[b].flight`, `flying <-` the flights that are still there. It ends with the one theorem about it.

**`OperationsSummary`** puts the administrator's summary (`admin.py` 14-54) beside `BookingSystem`: five statements, each
of which sees the tables as they are by then.

**`Records`** is what the requests and processes that fill the database share. `rows` are the committed rows, known by
their unique key and by whoever inserted them; `held` are the keys a transaction has inserted and not committed, which
others with an equal key wait for (`Waits`); `cabin` and `seated` are the same for the seats of each flight. `Insert`,
`Clashes`, `CommitRows`, `Refuse`, `Lose` are the ways a transaction goes on or ends. The rows `seed.py` puts into one
table go in together, so the table's name stands for their keys.

| Module | Code | Actions |
|---|---|---|
| `AccountsRouter` | `get_current_admin` (`auth.py` 85-126) | `Authorise`, `NotAuthorised` |
| | `register` (`routers/auth.py` 25-49), `create_admin` (`admin.py` 57-90) | `ReceiveRegistration`, `PasswordTooLong`, `AddAccount` (address), `NameAccount` (name), `AlreadyRegistered`, `CommitAccount` |
| `Publishing` | `create_flight` (`flights.py` 143-218) | `NoSuchRoute`, `FindRoute`, `NoSuchAircraft`, `FindAircraft`, `NoSuchTime`, `InsertFlight`, `NumberInUse`, `MaterialiseCabin`, `CommitFlight` |
| `Seeding` | `lifespan` (`main.py` 20-38), `scripts/seed.py` | `Start`, `LeaveSeeding`, `CommitSeed`, `Disconnect`, `Kill` |
| | `_seed_reference_data` (105-175) | `CountAirports`, `AddFirstTables`, `SeededMeanwhile`, `AddOtherTables` |
| | `_seed_admin` (178-204) | `SkipAdministrator`, `NeedAdministrator`, `AdministratorUnfit`, `AddAdministrator`, `NameAdministrator`, `AdministratorTaken` |
| | `_seed_flights` (207-256) | `CountFlights`, `AddDemoFlight`, `DemoFlightTaken`, `SeatLastFlight` |

**`AirlineSetup`** composes them over one database: any number of servers and scripts, of passengers who register and of
administrators who make others and publish flights. Whoever seeds may be killed (`Kill`, which takes the process down) and
anyone may lose the database (`Disconnect`, after which a server serves with its seeding undone, and `Lose`); a COMMIT that
was on its way then may or may not have been made (`CutOff`). Each start of a process finds an administrator in its
environment that the table can hold or not (`unfit`): nothing checks `SEED_ADMIN_EMAIL` and `SEED_ADMIN_PASSWORD` before
`seed.py` uses them. It states the properties.

**`ClientSession`** is one browser tab: the token it keeps (`stored`), the profile it shows (`user`), `loading`, the route
(`page`), and for the page's first profile request and each submission of the sign-in form how far it is (`at`) and the
token it was sent with (`carried`). `Settle` is what every profile request ends in, together with the navigation of
`Login.handleSubmit` and the redirect of `PrivateRoute`. The back end behind it (`routers/auth.py` `login` and `me`) refuses
expired tokens and deactivated accounts, and may not answer at all.

**`WeatherCache`** is one server process: `now` is its monotonic clock, `cache` is `_cache`, and each request is between
its two looks at the cache, with the results `gather` has so far. A reading is known by the time the provider gave it.
Between awaits a handler is one step, as it is in an event loop.

**`Dashboard`** has the page's states (`list`, `notice`, `dialog`, `submitting`, `error`), what the back end has stored,
and for each sale or cancellation its request (`idle`, `sent`, `accepted` or `refused`, `reloading`, `done` or
`failed`) and the bookings list it has asked for. The back end is what `BookingSystem` shows it to be from outside: a
sale is answered, and then it is committed, or never is; so is a cancellation, and one whose commit is lost leaves the
booking confirmed and free to be cancelled again (`RollBack`).

Definitions under a comment that begins with *Mutant* are not part of a specification: each is a plausible bug in the
definition below it, which makes one of the properties fail (`PROJECT.json`, "mutants").

## 3. What the models assume of the platform

Everything here is about code outside the repository; it is what the repository's code relies on.

- **READ COMMITTED.** A statement sees the rows committed when it starts. A row it must lock and that changed while it
  waited is looked at again, and left out if it no longer matches (but stays locked). Writes reach the tables with
  their commit; meanwhile they are implied by `pc`, the locals and the locks.
- **Locks** last to the end of the transaction. `session.rollback()` in the reference loop is such an end: this is why
  `RetryReference` releases the seat. A booking's INSERT share-locks its flight, which a DELETE of the flight waits
  for and an UPDATE does not; `ON DELETE RESTRICT` locks the bookings it finds, so it waits for a cancellation.
- **The unique index** makes an INSERT wait for another transaction's uncommitted equal key, and fail if that one commits.
  A row goes into the indexes of its table in the order they were created: the address before the name of an account
  (`uq_user_email_lower`, `uq_user_username_lower`). CHECK constraints come before them. Reference tables, then address,
  then name, then flights, in the order the demo list has them, is the order of every transaction there is: this is why
  no two of them can wait for each other, and `EveryRequestAnswered` checks it.
- **The seeding processes** of one deployment are a server (one process of `uvicorn` in the image, restarted, or reloaded
  in development) and the script; more of each are allowed for in the module and in its proofs. A day's demo flights are
  the same for all of them: a seeding that runs over midnight is left out.
- **SQLAlchemy** writes only changed columns, flushes rows by primary key, loads a deleted flight's relationships, and
  raises `StaleDataError` for an UPDATE that matches no row.
- **FastAPI** at the pinned version runs the part of a dependency after its `yield` when the response has been sent.
- **Deadlock detection** aborts some request of a lock cycle, which is then answered 500.
- **`/auth/me`** is judged by the back end at one moment (`Grant`, `Deny`) and handled by the page at a later one.
- **A lost connection** rolls back; the client of a request not answered yet gets nothing.
- **Patience** in `WeatherCache` stands for the client timeouts (`_TIMEOUT`). They bound each read and not a whole
  fetch, so a provider that trickles bytes can exceed any given number; the results hold for whatever `Patience` is.

## 4. Runs

| Run | Configuration | Instance | Distinct states | Checks |
|---|---|---|---|---|
| `sales` | `BookingSales` | 2 buyers, 2 cancellers, 1 deleter, 2 seats, 2 users; a buyer, a canceller and the deleter may fail; references never collide | 873 thousand | `ConfirmedHoldsSeat`, `OrdinarySaleNeverDeadlocks`, `CabinGoesWithFlight`, `SeatSalesImplemented` |
| `last_seat` | `BookingLastSeat` | 3 buyers, 2 seats, one summary; nobody fails or cancels | 648 thousand | `RefusedOnlyWhenTaken`, `SummaryIsConsistent` |
| `collisions` | `BookingCollisions` | 2 buyers drawing from 2 references, 2 attempts, 1 canceller, 1 deleter | 133 thousand | `TypeOK`, `BookedSeatIsSold`, `OneSeatPerBooking`, `ReferencesUnique`, `BookingsKeepFlight`, `EveryRequestAnswered` |
| `operations` | `BookingOperations` | 2 updaters, 2 deleters that may fail, 1 buyer, 1 seat, 2 fares | 4.7 million | `NoLostUpdate`, `CabinGoesWithFlight` |
| `weather` | `Weather` | 3 requests, 2 stations, lifetime and patience 1, clock to 3 | 565 thousand | `TypeOK`, `AnswersAreRecent`, `ReadingsAreServed`, `WeatherAlwaysAnswers` |
| `dashboard` | `Dashboard` | 2 sales, 1 cancellation, 2 dialogs | 987 thousand | `TypeOK`, `ListIsNeverAhead`, `OneBookingPerDialog`, `GoodNewsIsTrue`, `ErrorsStayWithTheirDialog`, `DialogIsGivenBack` |
| `startup` | `Startup` | 1 server started twice, 1 run of the script, 1 registration, 1 promotion, 1 publication, 2 addresses, 2 names, 2 flights of 3 seats, 2 abreast; server and publication may fail | 336 thousand | `TypeOK`, `KeysUnique`, `SeededWhole`, `CabinIsWhole`, `RefusedOnlyIfTaken`, `AdministratorsComeFromSeeding`, `FailsOnlyForCause`, `EveryRequestAnswered`, `StartedServes` |
| `session` | `Session` | 2 sign-ins, the token of an earlier visit, 2 accounts, 1 reload | 148 thousand | `TypeOK`, `ShownIsSignedInUnlessOverlapped`, `SignedInIsAtDashboard`, `LoadingEnds`, `RejectedTokenIsForgotten` |
| `resold` | `BookingResold` | 3 buyers drawing from 3 references, 2 seats | (violated) | `ConfirmedHoldsSeat` |
| `repriced` | `BookingRepriced` | 1 buyer, 1 updater | (violated) | `SoldAtAdvertisedFare` |
| `unlisted` | `DashboardUnlisted` | as `dashboard` | (violated) | `BookedIsListed` |
| `signed_in` | `SessionSignedIn` | as `session` | (violated) | `ShownIsSignedIn` |

Booking runs use module `MCBooking` (`last_seat` its extension `MCSummary`), `startup` uses `MCSetup`, the others the
module of their component. Updaters among themselves and deleters among themselves are interchangeable in `operations`
(`Interchangeable`): no definition tells one from another, and the run checks no liveness. It begins
with at most one update that the table refuses, and with none that sets `departed`, which is to every handler what
`cancelled` is (`MCOperationsInit`). A flight's cabin is one seat there and two in `sales`, where a deleter may fail
between them: `CabinGoesWithFlight` is checked in both.

**Why these bounds.** A seat race needs two buyers and, for the wrong one to be favoured, a third; a resale during a
cancellation needs a canceller of each kind (the owner's and one that cancels twice or is not the owner: `stranger`
is a second user). Two seats are enough to hold one while waiting for the other, and to be passed over in an order
that differs from the primary keys (`MCRowKey` runs against the seat numbers). The reference loop is entered, retried
and exhausted with two attempts and a pool of two. A cache race needs a request that is overtaken, one that overtakes
and one that reads the result. Dialogs interfere in pairs. A database is filled
by a process that is killed, one that overtakes it and its own restart (`MaxStarts`), beside one request of each kind; 3
seats at 2 abreast leave the last row incomplete, as 220 at 6 do. `MCInit` leaves the publication free to ask for either
flight, and on an empty database the registration for any address and name (on a seeded one it competes with the
promotion); it fixes the promotion to one address and name and the callers'
tokens, and starts from an empty database or from a seeded one whose flights have been deleted. A session needs a
request that is overtaken and one that overtakes, a second sign-in to follow, and a reload (`MaxReloads`). The only other
counters are `attempt` (bounded by the code's own
`_REFERENCE_ATTEMPTS`, a constant here), the weather clock (`MaxTime`, long enough to store, expire and refetch) and
the dialogs opened (`MaxDialogs`).

**Deadlock** is checked in the booking runs: every lock cycle has its victim, and the only stop is `Finished`. The
weather clock stops at `MaxTime`, and a passenger may do no more, on the dashboard or at the sign-in form: their
configurations say `CHECK_DEADLOCK FALSE`. In `startup` deadlock is checked too, and the only stop is `Finished`.

**Fairness.** Each handler's steps are weakly fair, since uvicorn's event loop comes round to a handler that can run, and
so is the deadlock detector, which PostgreSQL starts after `deadlock_timeout`. Failures are never fair. In
`WeatherCache` a fetch ends, by its answer or its timeout. In `Dashboard` a request is answered or its connection
breaks, and the page handles what has come; a sale's commit is not fair, for the server may die before it, and the
passenger need not do anything. In `AirlineSetup` the steps of a seeding and of a request are fair, starting, killing,
cutting off and losing are not. In `ClientSession` a request is answered or breaks, and the page handles it.

**Restrictions that matter.** `ConfirmedHoldsSeat` and `SeatSalesImplemented` are checked with references that never
collide, because with collisions they are false (`resold`); what survives collisions is `BookedSeatIsSold` and
`OneSeatPerBooking`, checked in `collisions` and proved. `RefusedOnlyWhenTaken` needs every buyer to run to its end:
under `SKIP LOCKED` a buyer is told the flight is full when the last seat's buyer then fails, as not waiting implies
(`bookings.py:107`). `OrdinarySaleNeverDeadlocks` leaves out the empty `seat_number`: that sale searches every seat
without `SKIP LOCKED` (the code tests for `None`), keeps the ones it passed over locked, and can be a deadlock's victim. `SummaryIsConsistent` needs nobody to cancel between two
figures. `ShownIsSignedInUnlessOverlapped` and `SignedInIsAtDashboard` speak of sessions in which nobody signs in or out
while another request is in flight, since the page was loaded; `signed_in` shows what becomes of the others.
`NoLostUpdate` is about updates whose connection holds: one that is lost after its answer is lost (`unlisted` shows the
same of a sale).

## 5. Findings

Each is a run that TLC ends with a counterexample; `PROJECT.json` quotes the lines that promise otherwise.

1. **`resold`: a seat can be sold twice.** The rollback after a reference collision (`bookings.py:140`) releases the lock
   on the chosen seat; the loop goes on, and the seat is marked by primary key without another look. If it was sold
   meanwhile, the first booking stays confirmed without a seat. Selecting the seat again inside the loop, or a savepoint
   around the INSERT, would restore `ConfirmedHoldsSeat`.
2. **`repriced`: a fare can drift from what was sold.** `update_flight` counts sold seats without a lock (`flights.py:232`),
   and a sale reads the fare without one.
3. **`unlisted`: a confirmed booking can be missing from the list.** The response precedes the commit (`db.py:43`), and
   the reload the page sends on receiving it can read what was there before. The end-to-end tests' retry in CI is about
   this journey.
4. **`signed_in`: a sign-in can lose its token to the refusal of an old one.** The page still asks about the token of an
   earlier visit when the passenger signs in; the refusal of the old token removes whatever token is stored
   (`AuthContext.tsx:33`), and the new profile is then shown with no token behind it, so that every request fails. In the
   same way a profile that arrives after logging out is shown (line 31). Comparing the stored token with the one that
   was sent, before acting on the answer, would restore `ShownIsSignedIn`.

Smaller divergences, taken as a property's exception or by an action:

- **A 409 for a fare that rounds to 0.00.** `create_flight` takes every `IntegrityError` for a number in use
  (`flights.py:188`); `RefusedOnlyIfTaken` has the exception.
- **Reference data that is never seeded.** `seed.py:7-9` and `.env.example:34-35` have it seeded whenever it is missing. It shares
  a transaction with the administrator, and goes with it at every start when that cannot be stored: its password is over
  72 bytes (`seed.py:198`) or its local part over 32 characters (195, `AdministratorUnfit`), or its name is somebody's
  (`AdministratorTaken`). `FailsOnlyForCause` says that a seeding fails for no other reason but what others store while it
  runs. When an account has the address already no administrator is made, and it is left a passenger (`SkipAdministrator`).
- **"Nothing has changed."** is said of a cancellation that was stored, when its answer or the reload after it is lost:
  both are in one `try` (`Dashboard.tsx:128-135`). `GoodNewsIsTrue` is the half that holds.
- **A 500 for a PATCH** whose fare rounds to 0.00 (`flights.py:261`, `FareTooSmall`): only `create_flight` handles the
  `IntegrityError`.
- **A station can be missing though the provider was not asked** (`weather.py:174`, `186`; `schemas.py:235-236` says otherwise):
  its entry expires between two looks at the cache. `ReadingsAreServed` has it as the one exception.
- **A departure at 24:00** passes `FlightCreate` and is answered 500 (`NoSuchTime`, `flights.py:169-172`).
- **A profile that fails after a sign-in** leads back to the form without an error (`Login.tsx:21-25`): `loadProfile` catches
  it, so that `login` resolves.

## 6. Proofs

Proved by TLAPS for every value of the constants that meets the modules' named assumptions (`SchemaAssumption`,
`FiniteTables`, `RequestsAreDistinct`, `BookingsAssumption`, `FaultsAssumption`, `WeatherAssumption`, `DashboardAssumption`,
`KeysAreDistinct`, `ProcessesAreDistinct`, `InitiallyAssumption`, `CabinAssumption`, `SeedingAssumption`, `SessionAssumption`, all
evaluated by TLC in the runs; `SalesAssumption` is a hypothesis of its theorem).

**Booking back end** (`BookingProofs`): what holds whichever references are drawn.

- `TypeCorrect`: `Spec => []TypeOK`. `TypeOK` alone is not inductive: that `attempt` stays in bounds and that only a valid
  status is written depends on where the handler is. The invariant adds `AttemptsLeft` (a sale about to draw has an attempt
  left) and `PatchesValid` (an update about to commit has a status the column takes).
- `BookedSeatIsAlwaysSold`, `OneSeatPerBookingAlways`: a booked seat names a confirmed booking of its own flight, and no
  booking two. The invariant (`SaleInv`) describes the transactions under way: the seat a sale is about to mark is of the
  flight it sells; a booking is stored by the last step of its request; a seat that names a booking is the one that
  booking's request chose; a canceller has its booking's row to itself, and every seat that names the booking is in its
  `todo` or locked by it. It says nothing of the seat lock of a sale, which the reference loop may have lost: that is why
  it is inductive where `ConfirmedHoldsSeat` fails.
- `ReferencesAlwaysUnique`: no two requests past their INSERT, committed or not, share a reference (`PendingUnique`).
- `BookingsAlwaysKeepFlight`: a deleter that has locked the flight's row and a buyer past its foreign key check exclude
  each other.

- `CabinAlwaysGoesWithFlight`: `CabinInv` says that a deleter has every seat of its flight in its `todo` or locked, and locks no
  other (`HoldsCabin`), that a canceller locks only seats of its booking's flight (`KeepsToFlight`), and that an updater
  with a column to write holds a row that is there (`HoldsRow`): otherwise a deletion could be undone in part by a write
  that comes after it.
- `NoUpdateIsLost`, if no updater fails: `UpdateInv` follows a change from the answer to the commit, and says that the row
  keeps it while no rival for the same column has one.

**The promise** (`SeatSales`): `OneSeatForEachSale`, in `SeatSales` every confirmed booking holds exactly one seat, of its own
flight, and every other booking none.

**Sales** (`SaleProofs`): what a passenger is promised, and what a collision of references can break (finding 1). The
theorems have `[]NoCollision` as a hypothesis on the behaviour: no INSERT meets a reference that a stored booking has.
`DistinctReferencesNeverCollide` discharges it when no two requests can draw the same reference (`DistinctReferences`, as
in `sales` and `last_seat`); references are drawn from 32⁶, so collisions are rare, not impossible. The corollaries
`PassengersAreServed` and `SalesRefuseJustly` are the theorems with that condition met.

- `ConfirmedAlwaysHoldsSeat`: in `HoldInv` a sale past its search has its seat locked and available (`HoldsSeat`), unless the
  flight has been deleted under it, in which case its foreign key check fails; a canceller locks no seat but its own
  booking's, which is still confirmed (`FreesOwnSeats`); and a confirmed booking's seat is the one its request chose
  (`SitsOnChosen`). Losing the lock in the reference loop is exactly what breaks `HoldsSeat`.
- `SalesAlwaysImplemented`: `Spec` implements `SeatSales!Spec`. `CommitSale`, `CommitCancel` and `CommitDelete` map to `Sell`,
  `CancelSale` and `Withdraw` (`SaleSells`, `CancellationCancels`, `DeletionWithdraws`); a deletion that comes second to
  another of the same flight and all other steps change nothing that `SeatSales` sees. `PassengersAreServed` concludes
  `Sales!OneSeatEach` of the tables from the theorem about `SeatSales`.
- `OrdinarySalesNeverDeadlock`: a lock cycle through a request is refuted by a set of requests it is not in that holds
  whomever it waits for and is closed under waiting (`OutsideClosedSet`). A buyer that waits for its only seat holds
  nothing (`LocksWanted`), so everyone else is such a set. One that has its seat can wait for the holder of an equal
  reference and for a deletion; such a deletion finds the flight gone already (`TooLate`), for otherwise it would hold the
  seat the buyer has, and both wait for nobody who waits for the buyer. `Cardinality(wanted) <= 1` is the reason for
  `FiniteTables`.
- `RefusalsAreJust`: a seat is taken when it is booked or a buyer has it locked, and `TakenInv` says that a search has in
  its `todo` every seat it wants that is not taken (`SearchesAll`), and that a lock on a seat that is not booked belongs
  to a sale past its search (`LockedForSale`). A seat once taken stays so: a sale that ends has booked it, and the victim
  of a lock cycle, which by the previous theorem is still searching, has locked only booked rows. The hypotheses are
  those without which the property is not meant to hold: nobody cancels, deletes or loses its connection as a buyer
  (`NothingGivenBack`), and updates leave every flight on sale (`[]EveryFlightOnSale`, true of every behaviour without
  updaters: `FlightsStayOnSale`).

**The summary** (`SummaryProofs`): `SummaryIsAlwaysConsistent`, while nobody cancels, with any number of sales, updates,
deletions and failures beside it. `SummaryInv` holds each figure against the tables as they are now or against one read
earlier; what is sold stays sold (`SoldStaysSold`), and a booking is stored with a fare the airline has published
(`FareInv`). The bookings are no more than the booked seats because `chosen` is injective on them (`ConfirmedAreSeated`, from
`HoldInv`). `revenue_eur` is a fold of the community modules: that it exists, and is at least so many times the least
fare, is proved by looking at a smallest subset for which it would not be (`AddsExists`, `AmountBound`), since induction
over a predicate is out of the provers' reach. `Fares # {}` only excludes an airline without flights.

**Weather** (`WeatherProofs`): `AgesAreBounded` and from it `AnswersAreAlwaysRecent`. What has to be kept is that an entry
expires within a lifetime of now and that its reading was no older than `Patience` when it was stored; and that a
request still waiting has waited no longer than that. `ReadingsAreAlwaysServed` is of one step: what is stored when the
answer is put together is still cached when it is read back, at that same moment.

**Dashboard** (`DashboardProofs`): `ListIsAlwaysBehind`, `DialogsBookOnce`, `ErrorsAreAlwaysOwn`. A list that has been read
and has not landed must not be ahead either (`AnswersNotAhead`), which holds because a stored booking only moves
forward, but for the cancellation that is rolled back, which no list has shown. One booking a dialog needs that a live sale of the open dialog keeps its button disabled, and that nothing is
stored for a sale that was not sent. `GoodNewsIsAlwaysTrue` needs `NewsInv`: a click that was accepted stays among those the back end has
accepted for its booking until the notice is shown, also if its cancellation is rolled back and another click repeats it.

`WeatherTypeCorrect` and `PageTypeCorrect` are the type invariants of the two modules, parts of these invariants.

**Filling the database** (`SetupProofs`). Every step of anyone is one of four for one transaction: it
looks, it inserts, it ends, or it commits (`Transacts`); what follows is proved of those four.

- `SetupTypeCorrect`: `TypeInv` adds that whoever stores an administrator has one configured.
- `SetupKeysUnique`: `KeysInv` adds that what a transaction has inserted no other has (`HeldIsPrivate`) and no row has
  (`HeldIsNew`). The INSERT's waiting keeps the first, its check the second; a commit then keeps `KeysUnique`.
- `ReferenceDataIsWhole`, `CabinsAreWhole`: `WholeInv` says what each handler holds at each place (`InOrder`), that tables are
  stored together (`TablesTogether`), that a flight is only stored once there are aircraft (`FlightsHaveAircraft`) and
  that each stored flight has the whole seat map (`CabinMatches`). That the seat map of any capacity, at any number of
  seats abreast, has as many seats as the capacity is `CabinSize`, by a bijection with `1 .. Capacity`.
- `RefusalsAreTrue`: `AnswersInv`, since what is stored stays stored and every refusal has found its key in a row.
- `SeedingFailsOnlyForCause`: the part `AllLooked` of `AnswersInv` is about what a process has looked for. From its look at the
  airports to its insert of them (`Looked`), and likewise for the administrator's address and the flights, it has not
  stored them itself, nor were they there from the first (`Absent`); and it has stored the administrator's name only
  with the address (`Named`), or else someone else has. So whatever a flush then clashes with is of others. The
  assumption that no two demo flights have one number is what keeps a seeding from clashing with itself.
- `NoAdministratorByRegistering`: `AdministratorsInv`; a request that was let in found an administrator in the table, who is
  seeded or made by one who was let in.

**Session** (`SessionProofs`): `SessionTypeCorrect`, `ShownIsAlwaysSignedIn`, `SigningInEndsAtDashboard`, from `SessionInv`: while
nothing overlaps there is one request at a time (`OneAtATime`), it asks about the token that is stored
(`AsksAboutStored`), and when no profile is on its way what is shown is right (`ShownWhenQuiet`).

**Only model-checked:** liveness (`EveryRequestAnswered` twice, `WeatherAlwaysAnswers`, `DialogIsGivenBack`, `StartedServes`,
`LoadingEnds`, `RejectedTokenIsForgotten`), which the provers do not do. Every safety property that a passing run checks
is stated by a theorem, six of them under a condition the theorem names (`NoCollision` in `sales` and `last_seat`, updaters
that do not fail in `NoLostUpdate`).

## 7. Not modelled

- Reads that change nothing (`search_flights`, `get_flight`, `list_my_bookings`, the station list of `weather.py`), except where
  what they return matters (`Dashboard!ReadList`, `OperationsSummary`).
- Hashing and signing (bcrypt, JWT): a token is its address, or its sign-in; a password is right or wrong. What a check of
  the caller costs or reveals in time is no property here.
- Field formats, wording, money arithmetic, images, fonts, charts (`contrast_check.py`, the brand scripts): no state, and no
  property about them.
- The migrations: generated DDL, run once before the application. The constraints they create are modelled from the schema,
  and a start on a database that has not been migrated is left out.
- Searching on the page (`Dashboard.tsx:45-51`, `78-93`): the debounce, results that come in another order, reloads that
  closed over older filters. Listed as a hazard, planned below.
- Several flights of a dialog: in the model a dialog has none, so switching the flight of an open dialog (possible with
  the keyboard, since it does not trap the focus) is listed as a hazard without a property.
- The flights list, which is reloaded beside the bookings: only its failure matters here.
- In the session: the Register page (one POST, then the sign-in form), several tabs that share `localStorage`, the second
  mount of StrictMode in development, the text of the form's errors.
- The theme: two effects of one value, listed as a hazard.
- Deactivated accounts in `AirlineSetup`: no operation of the program deactivates one. `ClientSession` has them, for whoever
  edits the table.

## 8. Plan

Done: the booking back end, the weather cache, the dashboard; then publishing, seeding, accounts and administration, and
the client session, each with its proofs.

Next, by what it is worth:

1. **Searching** (`FlightSearch`): the debounce, searches in flight, the filters a reload closed over, and the flight of
   an open dialog. Expected: when all is quiet the list is of the filter on screen. It should fail where results come
   in another order.
2. **Composition of the page:** logging out while the dashboard's requests are in flight, over `ClientSession` and
   `Dashboard`.
