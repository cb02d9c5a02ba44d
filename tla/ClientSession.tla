--------------------------- MODULE ClientSession ---------------------------
(***************************************************************************)
(* Who is signed in, as one browser tab sees it: the token it keeps, the   *)
(* profile it shows, and the requests in between (AuthContext, Login,      *)
(* PrivateRoute), with what the back end answers them (routers/auth.py     *)
(* login and me).  A token is named after the sign-in it was issued for.   *)
(***************************************************************************)
EXTENDS Naturals

CONSTANTS
    Accounts,
    Logins,         \* submissions of the sign-in form
    Boot,           \* the profile request of the page as it loads
    Kept,           \* the token of an earlier visit
    NoToken, NoOne,
    MaxReloads

Tokens  == Logins \cup {Kept}
Loaders == Logins \cup {Boot}

ASSUME SessionAssumption ==
    /\ {Boot, Kept, NoToken} \cap Logins = {}
    /\ NoToken # Kept
    /\ NoOne \notin Accounts
    /\ MaxReloads \in Nat

VARIABLES
    stored,         \* the token in localStorage
    user,           \* the profile on screen
    loading,        \* it is not known yet whether there is one
    page,           \* the route
    at,             \* how far each submission, or the page's first request, is
    carried,        \* the token each profile request was sent with
    owner,          \* the account each token is for
    inactive,       \* accounts that are deactivated
    expired,        \* tokens past their ACCESS_TOKEN_EXPIRE_MINUTES
    reloads,
    overlapped      \* signed in or out, since the page loaded, over a request in flight

server == <<owner, inactive, expired>>
vars   == <<stored, user, loading, page, at, carried, server, reloads, overlapped>>

Busy == \E p \in Loaders : at[p] \notin {"unused", "done"}

(* PrivateRoute: the dashboard is for those who are signed in.             *)
Guarded(route, profile, unknown) ==
    IF route = "dashboard" /\ profile = NoOne /\ ~unknown THEN "login" ELSE route

-----------------------------------------------------------------------------
(* The page loads: with a token, it asks whose it is.                      *)

Loaded(route) ==
    /\ user' = NoOne
    /\ loading' = (stored # NoToken)
    /\ page' = Guarded(route, NoOne, loading')
    /\ at' = [p \in Loaders |-> IF p = Boot THEN (IF loading' THEN "asking" ELSE "done")
                                ELSE IF at[p] = "unused" THEN "unused" ELSE "done"]
    /\ carried' = [carried EXCEPT ![Boot] = stored]
    /\ overlapped' = FALSE

Init ==
    /\ stored \in {NoToken, Kept}
    /\ user = NoOne
    /\ loading = (stored # NoToken)
    /\ page \in {Guarded(route, NoOne, loading) : route \in {"login", "dashboard"}}
    /\ at = [p \in Loaders |-> IF p # Boot THEN "unused"
                               ELSE IF loading THEN "asking" ELSE "done"]
    /\ carried = [p \in Loaders |-> IF p = Boot THEN stored ELSE NoToken]
    /\ owner \in [Tokens -> Accounts]
    /\ inactive \in SUBSET Accounts
    /\ expired = {}
    /\ reloads = 0
    /\ overlapped = FALSE

Reload(route) ==
    /\ reloads < MaxReloads
    /\ reloads' = reloads + 1
    /\ Loaded(route)
    /\ UNCHANGED <<stored, server>>

-----------------------------------------------------------------------------
(* What the passenger does.  The form stays enabled while it is submitted. *)

Submit(l) ==
    /\ page = "login"
    /\ at[l] = "unused"
    /\ at' = [at EXCEPT ![l] = "sent"]
    /\ overlapped' = (overlapped \/ Busy)
    /\ UNCHANGED <<stored, user, loading, page, carried, server, reloads>>

(* Mutant: only the screen is cleared.                                      *)
LeaveScreen ==
    /\ page = "dashboard" /\ ~loading
    /\ user' = NoOne
    /\ page' = "login"
    /\ overlapped' = (overlapped \/ Busy)
    /\ UNCHANGED <<stored, loading, at, carried, server, reloads>>

Logout ==
    /\ page = "dashboard" /\ ~loading
    /\ stored' = NoToken
    /\ user' = NoOne
    /\ page' = "login"
    /\ overlapped' = (overlapped \/ Busy)
    /\ UNCHANGED <<loading, at, carried, server, reloads>>

-----------------------------------------------------------------------------
(* What the back end answers, and when it does not.                        *)

Answered(p, how) ==
    /\ at' = [at EXCEPT ![p] = how]
    /\ UNCHANGED <<stored, user, loading, page, carried, server, reloads, overlapped>>

AcceptLogin(l) ==
    /\ at[l] = "sent"
    /\ owner[l] \notin inactive
    /\ Answered(l, "accepted")

(* 401 for the wrong name or password, 403 for a deactivated account, or   *)
(* no answer: the form has one message for all of them.                    *)
RefuseLogin(l) ==
    /\ at[l] = "sent"
    /\ Answered(l, "done")

Grant(p) ==
    /\ at[p] = "asking"
    /\ carried[p] \notin expired
    /\ owner[carried[p]] \notin inactive
    /\ Answered(p, "granted")

(* 401, 403, or no answer: loadProfile catches everything.                 *)
Deny(p) ==
    /\ at[p] = "asking"
    /\ Answered(p, "denied")

Issued == {Kept} \cup {l \in Logins : at[l] \notin {"unused", "sent"}}

Expire(t) ==
    /\ t \in Issued \ expired
    /\ expired' = expired \cup {t}
    /\ UNCHANGED <<stored, user, loading, page, at, carried, owner, inactive, reloads, overlapped>>

-----------------------------------------------------------------------------
(* What the page makes of the answers.                                     *)

(* login: the token is kept, and sent along to ask whose it is.            *)
StoreToken(l) ==
    /\ at[l] = "accepted"
    /\ stored' = l
    /\ carried' = [carried EXCEPT ![l] = l]
    /\ at' = [at EXCEPT ![l] = "asking"]
    /\ UNCHANGED <<user, loading, page, server, reloads, overlapped>>

(* Mutant: loading ends when there is somebody to show.                     *)
SettleIfKnown(p, profile) ==
    /\ user' = profile
    /\ at' = [at EXCEPT ![p] = "done"]
    /\ loading' = (loading /\ (p # Boot \/ profile = NoOne))
    /\ page' = Guarded(IF p = Boot THEN page ELSE "dashboard", profile, loading')
    /\ UNCHANGED <<carried, server, reloads, overlapped>>

(* Mutant: a sign-in stays where it is.                                     *)
SettleInPlace(p, profile) ==
    /\ user' = profile
    /\ at' = [at EXCEPT ![p] = "done"]
    /\ loading' = (loading /\ p # Boot)
    /\ page' = Guarded(page, profile, loading')
    /\ UNCHANGED <<carried, server, reloads, overlapped>>

(* bootstrap ends the loading; a sign-in, with or without a profile, goes  *)
(* to the dashboard, which may send it back.                               *)
Settle(p, profile) ==
    /\ user' = profile
    /\ at' = [at EXCEPT ![p] = "done"]
    /\ loading' = (loading /\ p # Boot)
    /\ page' = Guarded(IF p = Boot THEN page ELSE "dashboard", profile, loading')
    /\ UNCHANGED <<carried, server, reloads, overlapped>>

(* Mutant: the token is taken for the profile.                              *)
TokenArrives(p) ==
    /\ at[p] = "granted"
    /\ Settle(p, carried[p])
    /\ UNCHANGED stored

ProfileArrives(p) ==
    /\ at[p] = "granted"
    /\ Settle(p, owner[carried[p]])
    /\ UNCHANGED stored

(* Mutant: the token is left for the next visit.                            *)
ProfileFailsKeepingToken(p) ==
    /\ at[p] = "denied"
    /\ Settle(p, NoOne)
    /\ UNCHANGED stored

(* Whatever token is stored goes, be it the one that was sent or not.      *)
ProfileFails(p) ==
    /\ at[p] = "denied"
    /\ stored' = NoToken
    /\ Settle(p, NoOne)

-----------------------------------------------------------------------------

Handle(p) ==
    \/ p \in Logins /\ StoreToken(p)
    \/ ProfileArrives(p)
    \/ ProfileFails(p)

Answer(p) ==
    \/ p \in Logins /\ AcceptLogin(p)
    \/ p \in Logins /\ RefuseLogin(p)
    \/ Grant(p)
    \/ Deny(p)

Next ==
    \/ \E route \in {"login", "dashboard"} : Reload(route)
    \/ \E l \in Logins : Submit(l)
    \/ Logout
    \/ \E p \in Loaders : Answer(p) \/ Handle(p)
    \/ \E t \in Tokens : Expire(t)

Spec == Init /\ [][Next]_vars

(* A request is answered or its connection breaks, and the page handles    *)
(* what has come.  The passenger need not do anything.                     *)
FairSpec ==
    /\ Spec
    /\ \A p \in Loaders : WF_vars(Answer(p)) /\ WF_vars(Handle(p))

-----------------------------------------------------------------------------
(* Every token, profile, route and request is of its type.                 *)
TypeOK ==
    /\ stored \in Tokens \cup {NoToken}
    /\ user \in Accounts \cup {NoOne}
    /\ loading \in BOOLEAN
    /\ page \in {"login", "dashboard"}
    /\ at \in [Loaders -> {"unused", "sent", "accepted", "asking", "granted", "denied", "done"}]
    /\ carried \in [Loaders -> Tokens \cup {NoToken}]
    /\ owner \in [Tokens -> Accounts]
    /\ inactive \subseteq Accounts
    /\ expired \subseteq Tokens
    /\ reloads \in 0 .. MaxReloads
    /\ overlapped \in BOOLEAN

StoredOwner == IF stored = NoToken THEN NoOne ELSE owner[stored]

(* When every request has been handled, the page shows the passenger whose *)
(* token it sends (AuthContext.test.tsx, "clears both the token and the    *)
(* profile on logout").                                                    *)
ShownIsSignedIn == ~Busy => user = StoredOwner

(* It does if nobody has signed in or out while a request was in flight:   *)
(* then signed in means that a token is stored, and signed out that none   *)
(* is, through refused sign-ins, refused profiles, logouts and reloads.    *)
ShownIsSignedInUnlessOverlapped == ~overlapped => ShownIsSignedIn

(* Whoever signs in without meeting another request is at the dashboard    *)
(* until they log out or reload: login is awaited, so that the dashboard   *)
(* is not entered before there is somebody to show (Login.handleSubmit).   *)
(* The token of an earlier visit is another matter: /login does not leave  *)
(* for the dashboard on its account.                                       *)
SignedInIsAtDashboard ==
    ~overlapped /\ ~Busy /\ user # NoOne =>
        page = "dashboard" \/ stored = Kept \/ reloads > 0

(* The page does not stay at "Loading...", whatever becomes of its request *)
(* (AuthContext bootstrap).                                                *)
LoadingEnds == loading ~> ~loading

(* A token that has expired by the time the page asks about it is not      *)
(* stored for long ("A token the server has rejected must not keep looking *)
(* like a session").                                                       *)
RejectedTokenIsForgotten ==
    \A t \in Tokens :
        t \in expired /\ at[Boot] = "asking" /\ carried[Boot] = t ~> stored # t

=============================================================================
