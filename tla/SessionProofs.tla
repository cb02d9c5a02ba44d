--------------------------- MODULE SessionProofs ---------------------------
(***************************************************************************)
(* Safety of ClientSession, for any number of accounts, sign-ins and       *)
(* reloads.                                                                *)
(***************************************************************************)
EXTENDS ClientSession, TLAPS

(* A loader that does not have to do with a profile for now.               *)
Quiet(p) == at[p] \in {"unused", "sent", "accepted", "done"}

(* A profile is only asked for with a token, and with that of an earlier   *)
(* visit when the page first loads.                                        *)
AskedWithToken ==
    /\ \A p \in Loaders : at[p] \in {"asking", "granted"} => carried[p] \in Tokens
    /\ reloads = 0 => carried[Boot] \in {Kept, NoToken}

(* Unless someone has signed in or out over a request in flight, there is  *)
(* one request at a time, it asks about the token that is stored, and what *)
(* is shown is right whenever no profile is on its way.                    *)
OneAtATime ==
    \A p, q \in Loaders :
        at[p] \notin {"unused", "done"} /\ at[q] \notin {"unused", "done"} => p = q

AsksAboutStored == \A p \in Loaders : at[p] \in {"asking", "granted"} => carried[p] = stored

ShownWhenQuiet == (\A p \in Loaders : Quiet(p)) => user = StoredOwner

AtDashboard ==
    reloads = 0 /\ user # NoOne /\ (\A p \in Loaders : Quiet(p)) =>
        page = "dashboard" \/ stored = Kept

SessionInv ==
    /\ TypeOK
    /\ AskedWithToken
    /\ ~overlapped => OneAtATime /\ AsksAboutStored /\ ShownWhenQuiet /\ AtDashboard

LEMMA LoadersAreDistinct ==
    /\ Boot \in Loaders /\ Boot \notin Logins /\ Kept \notin Logins
    /\ NoToken \notin Tokens /\ NoOne \notin Accounts
    /\ Logins \subseteq Loaders /\ Logins \subseteq Tokens
  BY SessionAssumption DEF Loaders, Tokens

LEMMA SessionInit == Init => SessionInv
  <1> SUFFICES ASSUME Init PROVE SessionInv
    OBVIOUS
  <1> USE LoadersAreDistinct DEF Init
  <1>1. TypeOK
    <2>1. stored \in Tokens \cup {NoToken}
      BY DEF Tokens
    <2>2. reloads \in 0 .. MaxReloads
      BY SessionAssumption
    <2>3. QED
      BY <2>1, <2>2 DEF TypeOK, Guarded
  <1>2. AskedWithToken /\ OneAtATime /\ AsksAboutStored
    BY DEF AskedWithToken, OneAtATime, AsksAboutStored, Tokens
  <1>3. ShownWhenQuiet /\ AtDashboard
    BY DEF ShownWhenQuiet, AtDashboard, StoredOwner, Quiet
  <1>4. QED
    BY <1>1, <1>2, <1>3 DEF SessionInv

(* A sign-in or a logout over a request in flight leaves nothing to prove   *)
(* but types.                                                              *)
LEMMA PassengerKeeps ==
    ASSUME SessionInv, Logout \/ \E l \in Logins : Submit(l)
    PROVE  SessionInv'
  <1> USE LoadersAreDistinct DEF SessionInv, server
  <1>1. CASE Logout
    <2>1. TypeOK' /\ AskedWithToken'
      BY <1>1 DEF Logout, TypeOK, AskedWithToken
    <2>2. ~overlapped' => OneAtATime' /\ AsksAboutStored' /\ ShownWhenQuiet' /\ AtDashboard'
      BY <1>1
      DEF Logout, Busy, OneAtATime, AsksAboutStored, ShownWhenQuiet, AtDashboard, StoredOwner
    <2>3. QED
      BY <2>1, <2>2
  <1>2. ASSUME NEW l \in Logins, Submit(l)
        PROVE  SessionInv'
    <2> l \in Loaders /\ at \in [Loaders -> {"unused", "sent", "accepted", "asking", "granted",
                                             "denied", "done"}]
      BY DEF TypeOK
    <2>1. TypeOK' /\ AskedWithToken'
      BY <1>2 DEF Submit, TypeOK, AskedWithToken
    <2>2. ~overlapped' => OneAtATime' /\ AsksAboutStored' /\ ShownWhenQuiet' /\ AtDashboard'
      BY <1>2
      DEF Submit, Busy, OneAtATime, AsksAboutStored, ShownWhenQuiet, AtDashboard, StoredOwner, Quiet
    <2>3. QED
      BY <2>1, <2>2
  <1>3. QED
    BY <1>1, <1>2

LEMMA ReloadKeeps ==
    ASSUME SessionInv, NEW route \in {"login", "dashboard"}, Reload(route)
    PROVE  SessionInv'
  <1> USE LoadersAreDistinct DEF SessionInv, server, Reload, Loaded
  <1>1. reloads' \in 0 .. MaxReloads /\ reloads' # 0
    BY SessionAssumption DEF TypeOK
  <1>2. TypeOK'
    BY <1>1 DEF TypeOK, Guarded
  <1>3. AskedWithToken' /\ OneAtATime' /\ AsksAboutStored'
    BY <1>1 DEF AskedWithToken, OneAtATime, AsksAboutStored, TypeOK
  <1>4. ShownWhenQuiet'
    BY DEF ShownWhenQuiet, StoredOwner, Quiet, TypeOK
  <1>5. AtDashboard'
    BY <1>1 DEF AtDashboard
  <1>6. QED
    BY <1>2, <1>3, <1>4, <1>5

LEMMA AnswerKeeps ==
    ASSUME SessionInv, NEW p \in Loaders, Answer(p)
    PROVE  SessionInv'
  <1> USE LoadersAreDistinct DEF SessionInv, server, Answered
  <1> at \in [Loaders -> {"unused", "sent", "accepted", "asking", "granted", "denied", "done"}]
    BY DEF TypeOK
  <1>1. TypeOK' /\ AskedWithToken'
    BY DEF Answer, AcceptLogin, RefuseLogin, Grant, Deny, TypeOK, AskedWithToken
  <1>2. ~overlapped => OneAtATime' /\ AsksAboutStored'
    BY DEF Answer, AcceptLogin, RefuseLogin, Grant, Deny, OneAtATime, AsksAboutStored
  <1>3. ASSUME ~overlapped
        PROVE  ShownWhenQuiet' /\ AtDashboard'
    <2>1. CASE Quiet(p)
      BY <1>3, <2>1
      DEF Answer, AcceptLogin, RefuseLogin, Grant, Deny, ShownWhenQuiet, AtDashboard, StoredOwner,
          Quiet
    <2>2. CASE ~Quiet(p)
      BY <2>2
      DEF Answer, AcceptLogin, RefuseLogin, Grant, Deny, ShownWhenQuiet, AtDashboard, Quiet
    <2>3. QED
      BY <2>1, <2>2
  <1>4. overlapped' = overlapped
    BY DEF Answer, AcceptLogin, RefuseLogin, Grant, Deny
  <1>5. QED
    BY <1>1, <1>2, <1>3, <1>4

LEMMA HandleKeeps ==
    ASSUME SessionInv, NEW p \in Loaders, Handle(p)
    PROVE  SessionInv'
  <1> USE LoadersAreDistinct DEF SessionInv, server
  <1> at \in [Loaders -> {"unused", "sent", "accepted", "asking", "granted", "denied", "done"}]
    BY DEF TypeOK
  <1>1. CASE p \in Logins /\ StoreToken(p)
    <2>1. TypeOK' /\ AskedWithToken'
      BY <1>1 DEF StoreToken, TypeOK, AskedWithToken
    <2>2. ~overlapped => OneAtATime' /\ AsksAboutStored'
      BY <1>1 DEF StoreToken, OneAtATime, AsksAboutStored, TypeOK
    <2>3. ShownWhenQuiet' /\ AtDashboard'
      BY <1>1 DEF StoreToken, ShownWhenQuiet, AtDashboard, Quiet
    <2>4. QED
      BY <1>1, <2>1, <2>2, <2>3 DEF StoreToken
  <1>2. CASE ProfileArrives(p)
    <2>1. carried[p] \in Tokens /\ owner[carried[p]] \in Accounts
      BY <1>2 DEF ProfileArrives, AskedWithToken, TypeOK
    <2>2. TypeOK' /\ AskedWithToken'
      BY <1>2, <2>1 DEF ProfileArrives, Settle, Guarded, TypeOK, AskedWithToken
    <2>3. ~overlapped => OneAtATime' /\ AsksAboutStored' /\ ShownWhenQuiet'
      BY <1>2, <2>1
      DEF ProfileArrives, Settle, OneAtATime, AsksAboutStored, ShownWhenQuiet, StoredOwner
    <2>4. ~overlapped => AtDashboard'
      <3>1. CASE p = Boot
        <4>1. reloads = 0 /\ ~overlapped => stored = Kept
          BY <1>2, <2>1, <3>1 DEF ProfileArrives, AsksAboutStored, AskedWithToken
        <4>2. QED
          BY <1>2, <3>1, <4>1 DEF ProfileArrives, Settle, AtDashboard
      <3>2. CASE p # Boot
        BY <1>2, <2>1, <3>2 DEF ProfileArrives, Settle, AtDashboard, Guarded
      <3>3. QED
        BY <3>1, <3>2
    <2>5. QED
      BY <1>2, <2>2, <2>3, <2>4 DEF ProfileArrives, Settle
  <1>3. CASE ProfileFails(p)
    <2>1. TypeOK' /\ AskedWithToken'
      BY <1>3 DEF ProfileFails, Settle, Guarded, TypeOK, AskedWithToken
    <2>2. ~overlapped => OneAtATime' /\ AsksAboutStored'
      BY <1>3 DEF ProfileFails, Settle, OneAtATime, AsksAboutStored
    <2>3. ShownWhenQuiet' /\ AtDashboard'
      BY <1>3 DEF ProfileFails, Settle, ShownWhenQuiet, AtDashboard, StoredOwner
    <2>4. QED
      BY <1>3, <2>1, <2>2, <2>3 DEF ProfileFails, Settle
  <1>4. QED
    BY <1>1, <1>2, <1>3 DEF Handle

LEMMA SessionStep == SessionInv /\ [Next]_vars => SessionInv'
  <1> SUFFICES ASSUME SessionInv, [Next]_vars PROVE SessionInv'
    OBVIOUS
  <1>1. ASSUME NEW t \in Tokens, Expire(t) PROVE SessionInv'
    BY <1>1
    DEF Expire, SessionInv, TypeOK, AskedWithToken, OneAtATime, AsksAboutStored, ShownWhenQuiet,
        AtDashboard, StoredOwner, Quiet
  <1>2. CASE UNCHANGED vars
    BY <1>2
    DEF vars, server, SessionInv, TypeOK, AskedWithToken, OneAtATime, AsksAboutStored,
        ShownWhenQuiet, AtDashboard, StoredOwner, Quiet
  <1>3. QED
    BY <1>1, <1>2, PassengerKeeps, ReloadKeeps, AnswerKeeps, HandleKeeps DEF Next

LEMMA NobodyIsQuiet == SessionInv /\ ~Busy => \A p \in Loaders : Quiet(p)
  BY DEF SessionInv, TypeOK, Busy, Quiet

(* Every token, profile, route and request is of its type.                 *)
THEOREM SessionTypeCorrect == Spec => []TypeOK
  <1>1. SessionInv => TypeOK
    BY DEF SessionInv
  <1>2. QED
    BY SessionInit, SessionStep, <1>1, PTL DEF Spec

(* Whoever signs in and out one request at a time is shown as what the     *)
(* stored token says, however often requests are refused, tokens expire    *)
(* and the page is reloaded: the one request there is asks about the token *)
(* that is stored.                                                         *)
THEOREM ShownIsAlwaysSignedIn == Spec => []ShownIsSignedInUnlessOverlapped
  <1>1. SessionInv => ShownIsSignedInUnlessOverlapped
    BY NobodyIsQuiet DEF SessionInv, ShownIsSignedInUnlessOverlapped, ShownIsSignedIn, ShownWhenQuiet
  <1>2. QED
    BY SessionInit, SessionStep, <1>1, PTL DEF Spec

(* A sign-in that meets no other request ends at the dashboard: navigate   *)
(* comes after the profile, so that PrivateRoute has somebody to let in.   *)
THEOREM SigningInEndsAtDashboard == Spec => []SignedInIsAtDashboard
  <1>1. SessionInv => SignedInIsAtDashboard
    BY NobodyIsQuiet DEF SessionInv, SignedInIsAtDashboard, AtDashboard, TypeOK
  <1>2. QED
    BY SessionInit, SessionStep, <1>1, PTL DEF Spec

=============================================================================
