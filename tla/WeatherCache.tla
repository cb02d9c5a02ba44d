---------------------------- MODULE WeatherCache ----------------------------
(***************************************************************************)
(* routers/weather.py: one process's cache of station weather, and the     *)
(* requests that read and fill it.  The process is one asyncio event loop: *)
(* a request gives way to the others only where it awaits, which is while  *)
(* it has questions open at the forecast provider.                         *)
(*                                                                         *)
(* A reading is known by the time the provider gave it.                    *)
(***************************************************************************)
EXTENDS Integers

CONSTANTS
    Stations,       \* airports the network serves
    Requests,       \* GET /weather requests
    TTL,            \* _TTL_SECONDS
    Patience,       \* how long a request may be kept waiting by the provider
    MaxTime         \* the clock stops here

ASSUME WeatherAssumption ==
    /\ TTL \in Nat
    /\ Patience \in Nat
    /\ MaxTime \in Nat

VARIABLES
    now,            \* time.monotonic()
    cache,          \* _cache
    wanted,         \* the stations each waiting request asked about
    pc,             \* where each request's handler is
    started,        \* when it asked the provider
    gathered,       \* what asyncio.gather has so far, for the stations in fresh
    response        \* the readings each request was answered with

vars == <<now, cache, wanted, pc, started, gathered, response>>

Times     == 0 .. MaxTime
Nothing   == -1     \* no entry, no reading
Unasked   == -2     \* a station that is not in fresh
Awaited   == -3     \* a fetch that is still open

NoEntry == [expires |-> Nothing, reading |-> Nothing]
NothingAsked == [s \in Stations |-> Unasked]

Init ==
    /\ now = 0
    /\ cache = [s \in Stations |-> NoEntry]
    /\ wanted = [r \in Requests |-> {}]
    /\ pc = [r \in Requests |-> "start"]
    /\ started = [r \in Requests |-> 0]
    /\ gathered = [r \in Requests |-> NothingAsked]
    /\ response = [r \in Requests |-> [s \in Stations |-> Nothing]]

-----------------------------------------------------------------------------

(* Mutant: an entry never expires.                                          *)
StillCached(c, s) == c[s] # NoEntry

Cached(c, s) == c[s] # NoEntry /\ c[s].expires >= now

(* _cached deletes the expired entries it is asked about.                  *)
Swept(c, asked) ==
    [s \in Stations |-> IF s \in asked /\ ~Cached(c, s) THEN NoEntry ELSE c[s]]

(* The response holds what is cached when it is put together.              *)
Respond(r, asked, c) ==
    /\ response' = [response EXCEPT ![r] =
           [s \in Stations |-> IF s \in asked /\ Cached(c, s) THEN c[s].reading
                                                              ELSE Nothing]]
    /\ cache' = Swept(c, asked)
    /\ pc' = [pc EXCEPT ![r] = "answered"]

(* A request arrives, and the stations it names that the network serves    *)
(* are all cached: nothing is awaited between the two lookups.             *)
ServeFromCache(r) ==
    /\ pc[r] = "start"
    /\ \E asked \in SUBSET Stations :
          /\ \A s \in asked : Cached(cache, s)
          /\ Respond(r, asked, cache)
    /\ UNCHANGED <<now, wanted, started, gathered>>

AskProvider(r) ==
    /\ pc[r] = "start"
    /\ \E asked \in SUBSET Stations :
          LET fresh == {s \in asked : ~Cached(cache, s)}
          IN  /\ fresh # {}
              /\ wanted' = [wanted EXCEPT ![r] = asked]
              /\ gathered' = [gathered EXCEPT ![r] =
                     [s \in Stations |-> IF s \in fresh THEN Awaited ELSE Unasked]]
              /\ cache' = Swept(cache, asked)
    /\ started' = [started EXCEPT ![r] = now]
    /\ pc' = [pc EXCEPT ![r] = "fetching"]
    /\ UNCHANGED <<now, response>>

(* _fetch returns a reading, or None for an answer it cannot use; what it  *)
(* raises, gather returns as well.                                         *)
ProviderAnswers(r, s) ==
    /\ pc[r] = "fetching"
    /\ gathered[r][s] = Awaited
    /\ \E result \in {now, Nothing} : gathered' = [gathered EXCEPT ![r][s] = result]
    /\ UNCHANGED <<now, cache, wanted, pc, started, response>>

(* Mutant: what gather brought is stored without a look at its type.        *)
StoredAnyway(r) ==
    [s \in Stations |-> IF gathered[r][s] # Unasked
                           THEN [expires |-> now + TTL, reading |-> gathered[r][s]]
                           ELSE cache[s]]

Stored(r) ==
    [s \in Stations |-> IF gathered[r][s] \in Times
                           THEN [expires |-> now + TTL, reading |-> gathered[r][s]]
                           ELSE cache[s]]

LeaveHandler(r) ==
    /\ wanted' = [wanted EXCEPT ![r] = {}]
    /\ gathered' = [gathered EXCEPT ![r] = NothingAsked]
    /\ started' = [started EXCEPT ![r] = 0]

(* Mutant: gather raises what a fetch has raised.                           *)
AnswerUnlessOneFailed(r) ==
    /\ pc[r] = "fetching"
    /\ \A s \in Stations : gathered[r][s] \in Times \cup {Unasked}
    /\ Respond(r, wanted[r], Stored(r))
    /\ LeaveHandler(r)
    /\ UNCHANGED now

(* Mutant: the response is of what was cached before the fetches.           *)
AnswerFromFirstLook(r) ==
    /\ pc[r] = "fetching"
    /\ \A s \in Stations : gathered[r][s] # Awaited
    /\ Respond(r, wanted[r], cache)
    /\ LeaveHandler(r)
    /\ UNCHANGED now

(* All fetches are over: what they brought is stored, over whatever other  *)
(* requests have stored meanwhile, and the cache is read again.            *)
AnswerGathered(r) ==
    /\ pc[r] = "fetching"
    /\ \A s \in Stations : gathered[r][s] # Awaited
    /\ Respond(r, wanted[r], Stored(r))
    /\ LeaveHandler(r)
    /\ UNCHANGED now

(* The client's timeout ends every fetch.                                  *)
Tick ==
    /\ now < MaxTime
    /\ \A r \in Requests : pc[r] = "fetching" => now < started[r] + Patience
    /\ now' = now + 1
    /\ UNCHANGED <<cache, wanted, pc, started, gathered, response>>

ReadWeather(r) == ServeFromCache(r) \/ AskProvider(r) \/ AnswerGathered(r)

Next ==
    \/ \E r \in Requests : ReadWeather(r)
    \/ \E r \in Requests, s \in Stations : ProviderAnswers(r, s)
    \/ Tick

Spec == Init /\ [][Next]_vars

(* The event loop comes round to every handler, and a fetch ends: by its   *)
(* answer or by its timeout.                                               *)
FairSpec ==
    /\ Spec
    /\ \A r \in Requests : WF_vars(ReadWeather(r))
    /\ \A r \in Requests : WF_vars(\E s \in Stations : ProviderAnswers(r, s))

-----------------------------------------------------------------------------
Entry == [expires : Nat, reading : Times] \cup {NoEntry}

(* The cache, the gathered results and the responses are of their types: in *)
(* particular nothing but a reading is ever cached (read_weather).         *)
TypeOK ==
    /\ now \in Times
    /\ cache \in [Stations -> Entry]
    /\ wanted \in [Requests -> SUBSET Stations]
    /\ pc \in [Requests -> {"start", "fetching", "answered"}]
    /\ started \in [Requests -> Times]
    /\ gathered \in [Requests -> [Stations -> Times \cup {Nothing, Unasked, Awaited}]]
    /\ response \in [Requests -> [Stations -> Times \cup {Nothing}]]

(* No request is answered with a reading older than the time an entry may   *)
(* live and the time its fetch may have waited for others, even when a slow *)
(* request stores its early reading over another's later one (read_weather, *)
(* "cached for thirty minutes").                                           *)
AnswersRecently ==
    \A r \in Requests, s \in Stations :
        response'[r][s] # response[r][s] /\ response'[r][s] # Nothing =>
            now - response'[r][s] <= TTL + Patience

AnswersAreRecent == [][AnswersRecently]_vars

(* Whatever the provider does, a request ends in a response (test_weather:  *)
(* "it cannot take anything down when the provider misbehaves").           *)
WeatherAlwaysAnswers ==
    \A r \in Requests : <>(pc[r] = "answered")

(* A station is missing from a response only if the provider brought this   *)
(* request nothing for it, or was not asked: then its entry has expired    *)
(* between the two looks at the cache (read_weather), which WeatherResponse *)
(* does not say of a missing station.                                      *)
MissingOnlyIfNotBrought ==
    \A r \in Requests, s \in Stations :
        pc[r] = "fetching" /\ pc'[r] = "answered" /\ s \in wanted[r] =>
            \/ response'[r][s] # Nothing
            \/ gathered[r][s] = Nothing
            \/ gathered[r][s] = Unasked /\ ~Cached(cache, s)

ReadingsAreServed == [][MissingOnlyIfNotBrought]_vars

=============================================================================
