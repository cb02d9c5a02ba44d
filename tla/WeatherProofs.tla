--------------------------- MODULE WeatherProofs ---------------------------
(***************************************************************************)
(* No weather request is answered with a reading older than TTL + Patience *)
(* for any number of stations and requests.  What makes it inductive is    *)
(* the age that a cached entry can have by the time it expires, and the    *)
(* age that a gathered reading can have by the time it is stored.          *)
(***************************************************************************)
EXTENDS WeatherCache, TLAPS

(* An entry expires before its reading is too old to be served.            *)
ExpiresInTime(c) ==
    \A s \in Stations : c[s] # NoEntry => c[s].expires <= c[s].reading + TTL + Patience

(* A handler has waited no longer than the provider may keep it, and what  *)
(* it has gathered was given while it waited.                              *)
WaitIsBounded ==
    \A r \in Requests : pc[r] = "fetching" =>
        /\ started[r] <= now /\ now <= started[r] + Patience
        /\ \A s \in Stations : gathered[r][s] \in Times => started[r] <= gathered[r][s]

AgeInv == TypeOK /\ ExpiresInTime(cache) /\ WaitIsBounded

LEMMA TimesAreNumbers ==
    /\ Times \subseteq Nat
    /\ Nothing \notin Times /\ Unasked \notin Times /\ Awaited \notin Times
  BY WeatherAssumption, SMT DEF Times, Nothing, Unasked, Awaited

(* Sweeping a cache only takes entries out of it.                          *)
LEMMA SweepingKeeps ==
    ASSUME NEW c \in [Stations -> Entry], NEW asked \in SUBSET Stations, ExpiresInTime(c)
    PROVE  /\ Swept(c, asked) \in [Stations -> Entry]
           /\ ExpiresInTime(Swept(c, asked))
  BY DEF Swept, ExpiresInTime, Entry

(* What a request stores is in time as well: its readings are no older     *)
(* than its wait.                                                          *)
LEMMA StoringKeeps ==
    ASSUME AgeInv, NEW r \in Requests, pc[r] = "fetching"
    PROVE  Stored(r) \in [Stations -> Entry] /\ ExpiresInTime(Stored(r))
<1>1. ASSUME NEW s \in Stations, gathered[r][s] \in Times
      PROVE  /\ [expires |-> now + TTL, reading |-> gathered[r][s]] \in Entry
             /\ now + TTL <= gathered[r][s] + TTL + Patience
  <2>1. now \in Nat /\ started[r] \in Nat /\ gathered[r][s] \in Nat
    BY <1>1, TimesAreNumbers DEF AgeInv, TypeOK
  <2>2. now <= started[r] + Patience /\ started[r] <= gathered[r][s]
    BY <1>1 DEF AgeInv, WaitIsBounded
  <2> QED
    BY <1>1, <2>1, <2>2, WeatherAssumption DEF Entry
<1> QED
  BY <1>1 DEF Stored, AgeInv, TypeOK, ExpiresInTime

(* A response is typed, and recent, when the cache it is read from is.     *)
LEMMA RespondingKeeps ==
    ASSUME TypeOK, NEW r \in Requests, NEW asked \in SUBSET Stations,
           NEW c \in [Stations -> Entry], ExpiresInTime(c), Respond(r, asked, c)
    PROVE  /\ cache' \in [Stations -> Entry] /\ ExpiresInTime(cache')
           /\ response' \in [Requests -> [Stations -> Times \cup {Nothing}]]
           /\ pc' = [pc EXCEPT ![r] = "answered"]
           /\ AnswersRecently
<1> DEFINE shown == [s \in Stations |-> IF s \in asked /\ Cached(c, s) THEN c[s].reading
                                                                     ELSE Nothing]
<1>1. cache' = Swept(c, asked)
  BY DEF Respond
<1>2. cache' \in [Stations -> Entry] /\ ExpiresInTime(cache')
  BY <1>1, SweepingKeeps
<1>3. \A s \in Stations : shown[s] # Nothing =>
          shown[s] \in Times /\ now - shown[s] <= TTL + Patience
  <2> SUFFICES ASSUME NEW s \in Stations, s \in asked, Cached(c, s)
               PROVE  c[s].reading \in Times /\ now - c[s].reading <= TTL + Patience
    OBVIOUS
  <2>1. /\ c[s] \in [expires : Nat, reading : Times]
        /\ c[s].expires <= c[s].reading + TTL + Patience
        /\ c[s].expires >= now
    BY DEF Cached, Entry, ExpiresInTime
  <2>2. now \in Nat /\ c[s].reading \in Nat /\ c[s].reading \in Times /\ c[s].expires \in Nat
    BY <2>1, TimesAreNumbers DEF TypeOK
  <2> QED
    BY <2>1, <2>2, WeatherAssumption
<1>4. response' = [response EXCEPT ![r] = shown]
  BY DEF Respond
<1> HIDE DEF shown
<1> QED
  BY <1>2, <1>3, <1>4 DEF TypeOK, Respond, AnswersRecently

-----------------------------------------------------------------------------

(* The clock moves only while every wait is within its limit.              *)
LEMMA TickKeeps ==
    ASSUME AgeInv, Tick
    PROVE  AgeInv' /\ AnswersRecently
<1>1. now \in Nat /\ now' \in Times /\ now' = now + 1
  BY TimesAreNumbers, WeatherAssumption DEF AgeInv, TypeOK, Tick, Times
<1>2. ASSUME NEW r \in Requests, pc[r] = "fetching"
      PROVE  started[r] <= now + 1 /\ now + 1 <= started[r] + Patience
  <2>1. started[r] <= now /\ now < started[r] + Patience
    BY <1>2 DEF Tick, AgeInv, WaitIsBounded
  <2>2. started[r] \in Nat
    BY TimesAreNumbers DEF AgeInv, TypeOK
  <2> QED
    BY <1>1, <2>1, <2>2, WeatherAssumption
<1>3. TypeOK'
  BY <1>1 DEF AgeInv, TypeOK, Tick
<1>4. WaitIsBounded'
  BY <1>1, <1>2 DEF AgeInv, WaitIsBounded, Tick
<1>5. ExpiresInTime(cache)' /\ AnswersRecently
  BY DEF AgeInv, ExpiresInTime, AnswersRecently, Tick
<1> QED
  BY <1>3, <1>4, <1>5 DEF AgeInv

LEMMA AskingKeeps ==
    ASSUME AgeInv, NEW r \in Requests, AskProvider(r)
    PROVE  AgeInv' /\ AnswersRecently
<1>1. PICK asked \in SUBSET Stations :
          /\ wanted' = [wanted EXCEPT ![r] = asked]
          /\ cache' = Swept(cache, asked)
          /\ \E fresh \in SUBSET Stations : gathered' = [gathered EXCEPT ![r] =
                 [s \in Stations |-> IF s \in fresh THEN Awaited ELSE Unasked]]
  BY DEF AskProvider
<1>2. PICK fresh \in SUBSET Stations : gathered' = [gathered EXCEPT ![r] =
          [s \in Stations |-> IF s \in fresh THEN Awaited ELSE Unasked]]
  BY <1>1
<1>3. /\ started' = [started EXCEPT ![r] = now] /\ pc' = [pc EXCEPT ![r] = "fetching"]
      /\ UNCHANGED <<now, response>>
  BY DEF AskProvider
<1>4. cache' \in [Stations -> Entry] /\ ExpiresInTime(cache')
  BY <1>1, SweepingKeeps DEF AgeInv, TypeOK
<1>5. TypeOK'
  BY <1>1, <1>2, <1>3, <1>4 DEF AgeInv, TypeOK
<1>6. WaitIsBounded'
  <2> SUFFICES ASSUME NEW x \in Requests, pc'[x] = "fetching"
               PROVE  /\ started'[x] <= now' /\ now' <= started'[x] + Patience
                      /\ \A s \in Stations : gathered'[x][s] \in Times =>
                             started'[x] <= gathered'[x][s]
    BY DEF WaitIsBounded
  <2>1. CASE x = r
    <3>1. started'[x] = now /\ now' = now /\ now \in Nat
      BY <1>3, <2>1, TimesAreNumbers DEF AgeInv, TypeOK
    <3>2. \A s \in Stations : gathered'[x][s] \in {Awaited, Unasked}
      BY <1>2, <2>1 DEF AgeInv, TypeOK
    <3> QED
      BY <3>1, <3>2, TimesAreNumbers, WeatherAssumption
  <2>2. CASE x # r
    BY <1>2, <1>3, <2>2 DEF AgeInv, TypeOK, WaitIsBounded
  <2> QED
    BY <2>1, <2>2
<1> QED
  BY <1>3, <1>4, <1>5, <1>6 DEF AgeInv, ExpiresInTime, AnswersRecently

(* A reading is given now, which is not before the wait began.             *)
LEMMA AnsweringProviderKeeps ==
    ASSUME AgeInv, NEW r \in Requests, NEW s \in Stations, ProviderAnswers(r, s)
    PROVE  AgeInv' /\ AnswersRecently
<1>1. PICK result \in {now, Nothing} : gathered' = [gathered EXCEPT ![r][s] = result]
  BY DEF ProviderAnswers
<1>2. UNCHANGED <<now, cache, wanted, pc, started, response>>
  BY DEF ProviderAnswers
<1>3. TypeOK'
  BY <1>1, <1>2 DEF AgeInv, TypeOK
<1>4. WaitIsBounded'
  BY <1>1, <1>2, TimesAreNumbers DEF AgeInv, TypeOK, WaitIsBounded
<1> QED
  BY <1>2, <1>3, <1>4 DEF AgeInv, ExpiresInTime, AnswersRecently

LEMMA AnsweringKeeps ==
    ASSUME AgeInv, NEW r \in Requests, ServeFromCache(r) \/ AnswerGathered(r)
    PROVE  AgeInv' /\ AnswersRecently
<1>1. CASE ServeFromCache(r)
  <2>1. PICK asked \in SUBSET Stations : Respond(r, asked, cache)
    BY <1>1 DEF ServeFromCache
  <2>2. UNCHANGED <<now, wanted, started, gathered>>
    BY <1>1 DEF ServeFromCache
  <2>3. /\ cache' \in [Stations -> Entry] /\ ExpiresInTime(cache')
        /\ response' \in [Requests -> [Stations -> Times \cup {Nothing}]]
        /\ pc' = [pc EXCEPT ![r] = "answered"]
        /\ AnswersRecently
    BY <2>1, RespondingKeeps DEF AgeInv, TypeOK
  <2>4. TypeOK' /\ WaitIsBounded'
    BY <2>2, <2>3 DEF AgeInv, TypeOK, WaitIsBounded
  <2> QED
    BY <2>3, <2>4 DEF AgeInv, ExpiresInTime
<1>2. CASE AnswerGathered(r)
  <2>1. Stored(r) \in [Stations -> Entry] /\ ExpiresInTime(Stored(r))
    BY <1>2, StoringKeeps DEF AnswerGathered
  <2>2. wanted[r] \in SUBSET Stations /\ Respond(r, wanted[r], Stored(r))
    BY <1>2 DEF AnswerGathered, AgeInv, TypeOK
  <2>3. /\ cache' \in [Stations -> Entry] /\ ExpiresInTime(cache')
        /\ response' \in [Requests -> [Stations -> Times \cup {Nothing}]]
        /\ pc' = [pc EXCEPT ![r] = "answered"]
        /\ AnswersRecently
    BY <2>1, <2>2, RespondingKeeps DEF AgeInv
  <2>4. /\ now' = now
        /\ wanted' = [wanted EXCEPT ![r] = {}]
        /\ gathered' = [gathered EXCEPT ![r] = NothingAsked]
        /\ started' = [started EXCEPT ![r] = 0]
    BY <1>2 DEF AnswerGathered, LeaveHandler
  <2>5. 0 \in Times
    BY WeatherAssumption DEF Times
  <2>6. TypeOK' /\ WaitIsBounded'
    BY <2>3, <2>4, <2>5 DEF AgeInv, TypeOK, WaitIsBounded, NothingAsked
  <2> QED
    BY <2>3, <2>6 DEF AgeInv, ExpiresInTime
<1> QED
  BY <1>1, <1>2

(* No step of the cache breaks the invariant or answers with an old reading. *)
LEMMA StepKeeps ==
    ASSUME AgeInv, [Next]_vars
    PROVE  AgeInv' /\ AnswersRecently
<1>1. CASE UNCHANGED vars
  BY <1>1 DEF vars, AgeInv, TypeOK, ExpiresInTime, WaitIsBounded, AnswersRecently
<1>2. CASE Tick
  BY <1>2, TickKeeps
<1>3. ASSUME NEW r \in Requests, ReadWeather(r)
      PROVE  AgeInv' /\ AnswersRecently
  BY <1>3, AskingKeeps, AnsweringKeeps DEF ReadWeather
<1>4. ASSUME NEW r \in Requests, NEW s \in Stations, ProviderAnswers(r, s)
      PROVE  AgeInv' /\ AnswersRecently
  BY <1>4, AnsweringProviderKeeps
<1> QED
  BY <1>1, <1>2, <1>3, <1>4 DEF Next

-----------------------------------------------------------------------------

(* The cache, the waits and the responses are always of their types, and   *)
(* every entry and every wait is within its bounds (read_weather).         *)
THEOREM AgesAreBounded == Spec => []AgeInv
<1>1. Init => AgeInv
  BY WeatherAssumption DEF Init, AgeInv, TypeOK, ExpiresInTime, WaitIsBounded, Times, Entry, NothingAsked
<1>2. AgeInv /\ [Next]_vars => AgeInv'
  BY StepKeeps
<1> QED
  BY <1>1, <1>2, PTL DEF Spec

(* Entries, waits and responses are of their types (_cached, read_weather). *)
THEOREM WeatherTypeCorrect == Spec => []TypeOK
<1>1. AgeInv => TypeOK
  BY DEF AgeInv
<1> QED
  BY <1>1, AgesAreBounded, PTL

(* No request is ever answered with a reading older than TTL + Patience    *)
(* (read_weather, "cached for thirty minutes").                            *)
THEOREM AnswersAreAlwaysRecent == Spec => AnswersAreRecent
<1>1. AgeInv /\ [Next]_vars => [AnswersRecently]_vars
  BY StepKeeps
<1> QED
  BY <1>1, AgesAreBounded, PTL DEF Spec, AnswersAreRecent

(* A response that is put together once every fetch is over has what they   *)
(* brought: it is cached now, for no less than a moment.                    *)
LEMMA GatheredIsServed ==
    ASSUME TypeOK, NEW r \in Requests, AnswerGathered(r),
           NEW s \in Stations, s \in wanted[r],
           gathered[r][s] # Nothing,
           gathered[r][s] = Unasked => Cached(cache, s)
    PROVE  response'[r][s] # Nothing
<1>1. now \in Nat /\ cache[s] \in Entry
  BY TimesAreNumbers DEF TypeOK
<1>2. gathered[r][s] \in Times \/ gathered[r][s] = Unasked
  BY DEF TypeOK, AnswerGathered
<1>3. response'[r][s] = IF Cached(Stored(r), s) THEN Stored(r)[s].reading ELSE Nothing
  BY DEF TypeOK, AnswerGathered, Respond
<1>4. CASE gathered[r][s] \in Times
  <2>1. Stored(r)[s] = [expires |-> now + TTL, reading |-> gathered[r][s]]
    BY <1>4 DEF Stored
  <2>2. Stored(r)[s].reading # Nothing /\ Stored(r)[s].expires >= now
    BY <1>1, <1>4, <2>1, TimesAreNumbers, WeatherAssumption
  <2>3. Stored(r)[s] # NoEntry
    BY <2>2 DEF NoEntry
  <2> QED
    BY <1>3, <2>2, <2>3 DEF Cached
<1>5. CASE gathered[r][s] = Unasked
  <2>1. Stored(r)[s] = cache[s]
    BY <1>5, TimesAreNumbers DEF Stored
  <2>2. Cached(Stored(r), s) /\ Stored(r)[s].reading \in Times
    BY <1>1, <1>5, <2>1 DEF Cached, Entry
  <2> QED
    BY <1>3, <2>2, TimesAreNumbers
<1> QED
  BY <1>2, <1>4, <1>5

(* A station is missing from a response only if the provider brought        *)
(* nothing for it, or its entry expired while the request waited for the    *)
(* others (read_weather).                                                  *)
THEOREM ReadingsAreAlwaysServed == Spec => ReadingsAreServed
<1>1. ASSUME TypeOK, [Next]_vars
      PROVE  MissingOnlyIfNotBrought
  <2> SUFFICES ASSUME NEW r \in Requests, NEW s \in Stations,
                      pc[r] = "fetching", pc'[r] = "answered", s \in wanted[r]
               PROVE  \/ response'[r][s] # Nothing
                      \/ gathered[r][s] = Nothing
                      \/ gathered[r][s] = Unasked /\ ~Cached(cache, s)
    BY DEF MissingOnlyIfNotBrought
  <2>1. AnswerGathered(r)
    <3>1. ~UNCHANGED pc
      OBVIOUS
    <3>2. ASSUME NEW x \in Requests, ServeFromCache(x) \/ AskProvider(x) \/ AnswerGathered(x)
          PROVE  x = r /\ AnswerGathered(x)
      BY <1>1, <3>2 DEF TypeOK, ServeFromCache, AskProvider, AnswerGathered, Respond
    <3> QED
      BY <1>1, <3>1, <3>2 DEF Next, ReadWeather, ProviderAnswers, Tick, vars
  <2> QED
    BY <1>1, <2>1, GatheredIsServed
<1> QED
  BY <1>1, WeatherTypeCorrect, PTL DEF Spec, ReadingsAreServed
=============================================================================
