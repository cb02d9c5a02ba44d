-------------------------- MODULE DashboardProofs --------------------------
(***************************************************************************)
(* For any number of sales, cancellations and dialogs: the page's list is  *)
(* never ahead of the back end, a dialog makes one booking, and an error   *)
(* stays with the dialog it belongs to.                                    *)
(***************************************************************************)
EXTENDS Dashboard, TLAPS

(* A list claims nothing that is not so; what a reload has been answered   *)
(* with, and has not shown yet, is a list too.                             *)
NotAhead(bookings) ==
    \A s \in Sales :
        /\ bookings[s] = "confirmed" => stored[s] \in {"confirmed", "revoked", "cancelled"}
        /\ bookings[s] = "cancelled" => stored[s] = "cancelled"

AnswersNotAhead == \A o \in Ops : NotAhead(reload[o].bookings)

(* A click is on a booking that was listed.                                *)
ClicksHaveTargets ==
    \A c \in Cancels : request[c] # "idle" => target[c] \in Sales

Live(s) == request[s] \notin {"idle", "failed"}

(* No dialog has two sales that have not failed: the one that is under way  *)
(* in the open dialog keeps its button disabled; and only a sale that was   *)
(* submitted, in a dialog of the past or this one, is stored.              *)
OneLiveSalePerDialog ==
    /\ \A s, t \in Sales : s # t /\ madeIn[s] = madeIn[t] => ~Live(s) \/ ~Live(t)
    /\ \A s \in Sales : dialog /\ madeIn[s] = opened /\ Live(s) => submitting
    /\ \A s \in Sales : request[s] # "idle" => madeIn[s] <= opened
    /\ \A s \in Sales : stored[s] # "absent" => request[s] \notin {"idle", "sent"}

PageInv ==
    /\ TypeOK
    /\ ListIsNeverAhead
    /\ AnswersNotAhead
    /\ ClicksHaveTargets
    /\ OneLiveSalePerDialog
    /\ ErrorsStayWithTheirDialog

LEMMA PageInvImplies == PageInv => ListIsNeverAhead /\ OneBookingPerDialog /\ ErrorsStayWithTheirDialog
  BY DEF PageInv, OneLiveSalePerDialog, OneBookingPerDialog, Live

LEMMA InitIsSound == Init => PageInv
<1> SUFFICES ASSUME Init PROVE PageInv
  OBVIOUS
<1>1. Committed = Empty /\ Empty \in Listed /\ list = Empty
  BY DEF Init, Committed, Empty, Listed
<1>2. TypeOK
  <2>1. reload \in [Ops -> [at : {"none", "asked", "answered", "landed", "failed"}, bookings : Listed]]
    BY <1>1 DEF Init
  <2>2. /\ notice \in [kind : {"none", "booked", "cancelled", "unchanged", "unavailable"}, op : Ops \cup {Nobody}]
        /\ request \in [Ops -> {"idle", "sent", "accepted", "refused", "reloading", "done", "failed"}]
    BY DEF Init, Quiet
  <2>3. opened \in 0 .. MaxDialogs /\ madeIn \in [Sales -> 0 .. MaxDialogs]
    BY DashboardAssumption DEF Init
  <2>4. /\ stored \in [Sales -> {"absent", "accepted", "confirmed", "revoked", "cancelled"}]
        /\ cancelledBy \in [Sales -> SUBSET Cancels]
        /\ target \in [Cancels -> Sales \cup {Nobody}]
    BY DEF Init
  <2> QED
    BY <1>1, <2>1, <2>2, <2>3, <2>4 DEF Init, TypeOK
<1>3. \A o \in Ops : reload[o].bookings = Empty
  BY DEF Init
<1>4. ListIsNeverAhead /\ AnswersNotAhead
  BY <1>1, <1>3 DEF ListIsNeverAhead, AnswersNotAhead, NotAhead, Empty
<1>5. \A o \in Sales \cup Cancels : request[o] = "idle"
  BY DashboardAssumption DEF Init, Ops
<1> QED
  BY <1>2, <1>4, <1>5
  DEF Init, PageInv, ClicksHaveTargets, OneLiveSalePerDialog, ErrorsStayWithTheirDialog, Live

-----------------------------------------------------------------------------
(* The steps by what they touch.                                           *)

(* A step that leaves the back end and both kinds of lists alone.          *)
LEMMA ListsUntouched ==
    ASSUME ListIsNeverAhead, AnswersNotAhead, UNCHANGED <<stored, list, reload>>
    PROVE  ListIsNeverAhead' /\ AnswersNotAhead'
  BY DEF ListIsNeverAhead, AnswersNotAhead, NotAhead

(* A step that moves a booking on at the back end, or undoes a cancellation *)
(* that no list has shown.                                                 *)
LEMMA BackEndMovesOn ==
    ASSUME TypeOK, ListIsNeverAhead, AnswersNotAhead, UNCHANGED <<list, reload>>,
           \A s \in Sales :
               \/ stored'[s] = stored[s]
               \/ stored[s] \in {"absent", "accepted"}
               \/ stored[s] = "confirmed" /\ stored'[s] = "revoked"
               \/ stored[s] = "revoked" /\ stored'[s] \in {"confirmed", "cancelled"}
    PROVE  ListIsNeverAhead' /\ AnswersNotAhead'
  BY DEF ListIsNeverAhead, AnswersNotAhead, NotAhead

(* A step that gives one reload a list that is not ahead.                  *)
LEMMA ReloadMovesOn ==
    ASSUME TypeOK, ListIsNeverAhead, AnswersNotAhead, NEW o \in Ops, NEW at,
           NEW bookings \in Listed, NotAhead(bookings),
           Reload(o, at, bookings), UNCHANGED <<stored, list>>
    PROVE  ListIsNeverAhead' /\ AnswersNotAhead'
  BY DEF TypeOK, Reload, ListIsNeverAhead, AnswersNotAhead, NotAhead

LEMMA ListsThatAreNotAhead ==
    ASSUME TypeOK
    PROVE  /\ Empty \in Listed /\ NotAhead(Empty)
           /\ Committed \in Listed /\ NotAhead(Committed)
  BY DEF TypeOK, Empty, Committed, NotAhead, Listed

-----------------------------------------------------------------------------

LEMMA PassengerKeeps ==
    ASSUME PageInv, Passenger
    PROVE  PageInv'
<1>1. CASE OpenDialog
  <2>1. TypeOK'
    <3>1. opened' \in 0 .. MaxDialogs
      BY <1>1, DashboardAssumption DEF PageInv, TypeOK, OpenDialog
    <3> QED
      BY <1>1, <3>1 DEF PageInv, TypeOK, OpenDialog, server
  <2>2. OneLiveSalePerDialog'
    BY <1>1 DEF PageInv, TypeOK, OpenDialog, OneLiveSalePerDialog, Live, server
  <2> QED
    BY <1>1, <2>1, <2>2, ListsUntouched
    DEF PageInv, OpenDialog, ClicksHaveTargets, ErrorsStayWithTheirDialog, server
<1>2. CASE CloseDialog
  BY <1>2, ListsUntouched
  DEF PageInv, TypeOK, CloseDialog, ClicksHaveTargets, OneLiveSalePerDialog,
      ErrorsStayWithTheirDialog, Live, server
<1>3. ASSUME NEW s \in Sales, Submit(s)
      PROVE  PageInv'
  <2>1. TypeOK'
    BY <1>3 DEF PageInv, TypeOK, Submit, Becomes, Ops, server
  <2>2. ClicksHaveTargets'
    BY <1>3, DashboardAssumption DEF PageInv, TypeOK, Submit, Becomes, Ops, ClicksHaveTargets
  <2>3. OneLiveSalePerDialog'
    <3>1. /\ madeIn' = [madeIn EXCEPT ![s] = opened]
          /\ request' = [request EXCEPT ![s] = "sent"]
          /\ UNCHANGED <<stored, dialog, opened>>
          /\ submitting' = TRUE
      BY <1>3 DEF Submit, Becomes, server
    <3>2. /\ madeIn \in [Sales -> Nat] /\ opened \in Nat
          /\ s \in DOMAIN request /\ \A x \in Sales : x \in DOMAIN request
      BY DashboardAssumption DEF PageInv, TypeOK, Ops
    <3>3. \A x \in Sales : x # s => madeIn'[x] = madeIn[x] /\ request'[x] = request[x]
      BY <3>1, <3>2
    <3>4. madeIn'[s] = opened /\ request'[s] = "sent"
      BY <3>1, <3>2
    <3>5. /\ \A x \in Sales : x # s /\ madeIn[x] = opened => ~Live(x)
          /\ stored[s] = "absent"
      BY <1>3 DEF PageInv, OneLiveSalePerDialog, Submit
    <3> QED
      BY <3>1, <3>2, <3>3, <3>4, <3>5 DEF PageInv, OneLiveSalePerDialog, Live
  <2> QED
    BY <1>3, <2>1, <2>2, <2>3, ListsUntouched, DashboardAssumption
    DEF PageInv, Submit, ErrorsStayWithTheirDialog, server
<1>4. ASSUME NEW c \in Cancels, NEW s \in Sales, ClickCancel(c, s)
      PROVE  PageInv'
  <2>1. TypeOK' /\ ClicksHaveTargets'
    BY <1>4 DEF PageInv, TypeOK, ClickCancel, Becomes, Ops, ClicksHaveTargets, form, server
  <2>2. \A x \in Sales : request'[x] = request[x]
    BY <1>4, DashboardAssumption DEF PageInv, TypeOK, ClickCancel, Becomes, Ops
  <2>3. OneLiveSalePerDialog'
    BY <1>4, <2>2 DEF PageInv, ClickCancel, OneLiveSalePerDialog, Live, form, server
  <2> QED
    BY <1>4, <2>1, <2>3, ListsUntouched
    DEF PageInv, ClickCancel, ErrorsStayWithTheirDialog, form, server
<1> QED
  BY <1>1, <1>2, <1>3, <1>4 DEF Passenger

(* What is true of every step that changes one request and neither the     *)
(* form nor the clicks: a sale stays live or fails, and is not forgotten.  *)
LEMMA RequestMovesOn ==
    ASSUME PageInv, NEW o \in Ops, request[o] # "idle",
           NEW status \in {"accepted", "refused", "reloading", "done", "failed"},
           request[o] = "failed" => status = "failed",
           Becomes(o, status), UNCHANGED <<form, target>>,
           \A s \in Sales : stored'[s] # "absent" => stored[s] # "absent" \/ s = o
    PROVE  ClicksHaveTargets' /\ OneLiveSalePerDialog' /\ ErrorsStayWithTheirDialog'
<1>1. request' = [request EXCEPT ![o] = status]
  BY DEF Becomes
<1>2. \A x \in Ops : /\ (request'[x] = "idle") <=> (request[x] = "idle")
                     /\ request'[x] = "sent" => request[x] = "sent" /\ x # o
  BY <1>1 DEF PageInv, TypeOK
<1>3. \A s \in Sales : (request'[s] \notin {"idle", "failed"}) => Live(s)
  BY <1>1 DEF PageInv, TypeOK, Live, Ops
<1>4. UNCHANGED <<dialog, opened, submitting, error, madeIn, target>>
  BY DEF form
<1>5. ClicksHaveTargets'
  BY <1>2, <1>4 DEF PageInv, ClicksHaveTargets, Ops
<1>6. OneLiveSalePerDialog'
  BY <1>2, <1>3, <1>4 DEF PageInv, OneLiveSalePerDialog, Live, Ops
<1> QED
  BY <1>4, <1>5, <1>6 DEF PageInv, ErrorsStayWithTheirDialog

(* What is true of every step that leaves the requests alone as well.       *)
LEMMA RequestsUntouched ==
    ASSUME PageInv, UNCHANGED <<form, target, request>>,
           \A s \in Sales : stored'[s] # "absent" => stored[s] # "absent"
    PROVE  ClicksHaveTargets' /\ OneLiveSalePerDialog' /\ ErrorsStayWithTheirDialog'
  BY DEF PageInv, form, ClicksHaveTargets, OneLiveSalePerDialog, ErrorsStayWithTheirDialog, Live

LEMMA CommitKeeps ==
    ASSUME PageInv, NEW s \in Sales, Commit(s) \/ RollBack(s)
    PROVE  PageInv'
<1>1. TypeOK'
  BY DEF PageInv, TypeOK, Commit, RollBack, form
<1>2. \A x \in Sales :
         \/ stored'[x] = stored[x]
         \/ stored[x] \in {"absent", "accepted"}
         \/ stored[x] = "revoked" /\ stored'[x] \in {"confirmed", "cancelled"}
  BY DEF PageInv, TypeOK, Commit, RollBack
<1>3. ListIsNeverAhead' /\ AnswersNotAhead'
  BY <1>2, BackEndMovesOn DEF PageInv, Commit, RollBack
<1>4. \A x \in Sales : stored'[x] # "absent" => stored[x] # "absent"
  BY DEF PageInv, TypeOK, Commit, RollBack
<1> QED
  BY <1>1, <1>3, <1>4, RequestsUntouched DEF PageInv, Commit, RollBack

LEMMA NetworkKeeps ==
    ASSUME PageInv, NEW o \in Ops, Network(o)
    PROVE  PageInv'
<1>1. ASSUME o \in Sales, Sell(o)
      PROVE  PageInv'
  <2>1. PICK answer \in {"accepted", "refused"} : Becomes(o, answer)
    BY <1>1 DEF Sell
  <2>2. TypeOK'
    BY <1>1, <2>1 DEF PageInv, TypeOK, Sell, Becomes, form
  <2>3. stored[o] = "absent"
    BY <1>1 DEF PageInv, OneLiveSalePerDialog, Sell
  <2>4. ListIsNeverAhead' /\ AnswersNotAhead'
    BY <1>1, <2>3, BackEndMovesOn DEF PageInv, TypeOK, Sell
  <2>5. \A s \in Sales : stored'[s] # "absent" => stored[s] # "absent" \/ s = o
    BY <1>1 DEF PageInv, TypeOK, Sell
  <2> QED
    BY <1>1, <2>1, <2>2, <2>4, <2>5, RequestMovesOn DEF PageInv, Sell
<1>2. ASSUME o \in Cancels, Revoke(o)
      PROVE  PageInv'
  <2>1. PICK answer \in {"accepted", "refused"} : Becomes(o, answer)
    BY <1>2 DEF Revoke
  <2>2. target[o] \in Sales
    BY <1>2 DEF PageInv, ClicksHaveTargets, Revoke
  <2>3. TypeOK'
    BY <1>2, <2>1, <2>2 DEF PageInv, TypeOK, Revoke, Becomes, form
  <2>4. \A s \in Sales : \/ stored'[s] = stored[s]
                         \/ stored[s] = "confirmed" /\ stored'[s] = "revoked"
    BY <1>2, <2>2 DEF PageInv, TypeOK, Revoke
  <2>5. ListIsNeverAhead' /\ AnswersNotAhead'
    BY <1>2, <2>4, BackEndMovesOn DEF PageInv, Revoke
  <2> QED
    BY <1>2, <2>1, <2>3, <2>4, <2>5, RequestMovesOn DEF PageInv, Revoke
<1>3. ASSUME Fail(o)
      PROVE  PageInv'
  <2>1. TypeOK'
    BY <1>3 DEF PageInv, TypeOK, Fail, Becomes, form, server
  <2> QED
    BY <1>3, <2>1, RequestMovesOn, ListsUntouched DEF PageInv, Fail, server
<1>4. ASSUME ReadList(o)
      PROVE  PageInv'
  <2>1. Committed \in Listed /\ NotAhead(Committed)
    BY ListsThatAreNotAhead DEF PageInv
  <2>2. TypeOK'
    BY <1>4, <2>1 DEF PageInv, TypeOK, ReadList, Reload, form, server
  <2>3. ListIsNeverAhead' /\ AnswersNotAhead'
    BY <1>4, <2>1, ReloadMovesOn DEF PageInv, ReadList, server
  <2> QED
    BY <1>4, <2>2, <2>3, RequestsUntouched DEF PageInv, ReadList, server
<1>5. ASSUME ListFails(o)
      PROVE  PageInv'
  <2>1. Empty \in Listed /\ NotAhead(Empty)
    BY ListsThatAreNotAhead DEF PageInv
  <2>2. TypeOK'
    BY <1>5, <2>1 DEF PageInv, TypeOK, ListFails, Reload, form, server
  <2>3. ListIsNeverAhead' /\ AnswersNotAhead'
    BY <1>5, <2>1, ReloadMovesOn DEF PageInv, ListFails, server
  <2> QED
    BY <1>5, <2>2, <2>3, RequestsUntouched DEF PageInv, ListFails, server
<1> QED
  BY <1>1, <1>2, <1>3, <1>4, <1>5 DEF Network

(* The handlers that end a request of a sale touch the form.                *)
LEMMA SaleHandlersKeep ==
    ASSUME PageInv, NEW s \in Sales, SaleAccepted(s) \/ SaleRefused(s)
    PROVE  PageInv'
<1>1. s \in Ops
  BY DEF Ops
<1>2. Empty \in Listed /\ NotAhead(Empty)
  BY ListsThatAreNotAhead DEF PageInv
<1>3. ASSUME NEW c \in Cancels
      PROVE  request'[c] = request[c] /\ target'[c] = target[c]
  BY DashboardAssumption DEF PageInv, TypeOK, Ops, SaleAccepted, SaleRefused, Becomes
<1>4. ClicksHaveTargets'
  BY <1>3 DEF PageInv, ClicksHaveTargets
<1>5. CASE SaleAccepted(s)
  <2>1. TypeOK'
    BY <1>1, <1>2, <1>5 DEF PageInv, TypeOK, SaleAccepted, Reload, Becomes, server
  <2>2. ListIsNeverAhead' /\ AnswersNotAhead'
    BY <1>1, <1>2, <1>5, ReloadMovesOn DEF PageInv, SaleAccepted, server
  <2>3. \A x \in Sales : /\ (request'[x] = "idle") <=> (request[x] = "idle")
                         /\ request'[x] = "sent" => request[x] = "sent"
                         /\ (request'[x] = "failed") <=> (request[x] = "failed")
    BY <1>1, <1>5 DEF PageInv, TypeOK, SaleAccepted, Becomes, Ops
  <2>4. OneLiveSalePerDialog' /\ ErrorsStayWithTheirDialog'
    BY <1>5, <2>3
    DEF PageInv, SaleAccepted, OneLiveSalePerDialog, ErrorsStayWithTheirDialog, Live, server
  <2> QED
    BY <1>4, <2>1, <2>2, <2>4 DEF PageInv
<1>6. CASE SaleRefused(s)
  <2>1. TypeOK'
    BY <1>1, <1>6 DEF PageInv, TypeOK, SaleRefused, Becomes, server
  <2>2. \A x \in Sales : x # s => request'[x] = request[x]
    BY <1>1, <1>6 DEF PageInv, TypeOK, SaleRefused, Becomes, Ops
  <2>3. request[s] = "refused" /\ request'[s] = "failed"
    BY <1>1, <1>6 DEF PageInv, TypeOK, SaleRefused, Becomes
  <2>4. OneLiveSalePerDialog'
    BY <1>6, <2>2, <2>3 DEF PageInv, SaleRefused, OneLiveSalePerDialog, Live, server
  <2>5. ErrorsStayWithTheirDialog'
    BY <1>6 DEF PageInv, SaleRefused, ErrorsStayWithTheirDialog
  <2> QED
    BY <1>4, <1>6, <2>1, <2>4, <2>5, ListsUntouched DEF PageInv, SaleRefused, server
<1> QED
  BY <1>5, <1>6

LEMMA HandleKeeps ==
    ASSUME PageInv, NEW o \in Ops, Handle(o)
    PROVE  PageInv'
<1>1. Empty \in Listed /\ NotAhead(Empty)
  BY ListsThatAreNotAhead DEF PageInv
<1>2. ASSUME o \in Cancels, CancelAccepted(o)
      PROVE  PageInv'
  <2>1. TypeOK'
    BY <1>1, <1>2 DEF PageInv, TypeOK, CancelAccepted, Reload, Becomes, form, server
  <2>2. ListIsNeverAhead' /\ AnswersNotAhead'
    BY <1>1, <1>2, ReloadMovesOn DEF PageInv, CancelAccepted, server
  <2> QED
    BY <1>2, <2>1, <2>2, RequestMovesOn DEF PageInv, CancelAccepted, server
<1>3. ASSUME o \in Cancels, CancelRefused(o)
      PROVE  PageInv'
  <2>1. TypeOK'
    BY <1>3 DEF PageInv, TypeOK, CancelRefused, Becomes, form, server
  <2> QED
    BY <1>3, <2>1, RequestMovesOn, ListsUntouched DEF PageInv, CancelRefused, server
<1>4. ASSUME ListLands(o)
      PROVE  PageInv'
  <2>1. reload[o].bookings \in Listed /\ NotAhead(reload[o].bookings)
    BY DEF PageInv, TypeOK, AnswersNotAhead
  <2>2. TypeOK'
    BY <1>1, <1>4, <2>1 DEF PageInv, TypeOK, ListLands, Reload, form, server
  <2>3. ListIsNeverAhead'
    BY <1>4, <2>1 DEF ListLands, ListIsNeverAhead, NotAhead, server
  <2>4. AnswersNotAhead'
    BY <1>1, <1>4 DEF PageInv, TypeOK, ListLands, Reload, AnswersNotAhead, NotAhead, server
  <2> QED
    BY <1>4, <2>2, <2>3, <2>4, RequestsUntouched DEF PageInv, ListLands, server
<1>5. ASSUME Reloaded(o) \/ ReloadFailed(o)
      PROVE  PageInv'
  <2>1. o \in Sales \/ o \in Cancels \/ o = Boot
    BY DEF Ops
  <2>2. TypeOK'
    <3>1. notice' \in [kind : {"none", "booked", "cancelled", "unchanged", "unavailable"},
                       op : Ops \cup {Nobody}]
      BY <1>5, <2>1, DashboardAssumption DEF PageInv, TypeOK, Reloaded, ReloadFailed
    <3>2. request' \in [Ops -> {"idle", "sent", "accepted", "refused", "reloading", "done",
                               "failed"}]
      BY <1>5 DEF PageInv, TypeOK, Reloaded, ReloadFailed, Becomes
    <3>3. UNCHANGED <<stored, cancelledBy, list, dialog, opened, submitting, error, madeIn,
                      target, reload>>
      BY <1>5 DEF Reloaded, ReloadFailed, form, server
    <3> QED
      BY <3>1, <3>2, <3>3 DEF PageInv, TypeOK
  <2> QED
    BY <1>5, <2>2, RequestMovesOn, ListsUntouched DEF PageInv, Reloaded, ReloadFailed, server
<1> QED
  BY <1>2, <1>3, <1>4, <1>5, SaleHandlersKeep DEF Handle

LEMMA StepKeeps == PageInv /\ [Next]_vars => PageInv'
<1> SUFFICES ASSUME PageInv, [Next]_vars PROVE PageInv'
  OBVIOUS
<1>1. CASE UNCHANGED vars
  <2>1. TypeOK'
    BY <1>1 DEF PageInv, TypeOK, vars, server, form
  <2> QED
    BY <1>1, <2>1, RequestsUntouched, ListsUntouched DEF PageInv, vars, server
<1> QED
  BY <1>1, PassengerKeeps, CommitKeeps, NetworkKeeps, HandleKeeps DEF Next

(* The invariant behind the three below (Dashboard, BookingDialog): it holds *)
(* at first and every step keeps it.                                       *)
THEOREM PageIsSound == Spec => []PageInv
  BY InitIsSound, StepKeeps, PTL DEF Spec

-----------------------------------------------------------------------------

(* Requests, lists and what the page shows are of their types (Dashboard).  *)
THEOREM PageTypeCorrect == Spec => []TypeOK
<1>1. PageInv => TypeOK
  BY DEF PageInv
<1> QED
  BY <1>1, PageIsSound, PTL

(* "My itineraries" never shows a booking the back end has not stored, nor  *)
(* as cancelled one that is not, however many reloads overtake each other. *)
THEOREM ListIsAlwaysBehind == Spec => []ListIsNeverAhead
  BY PageIsSound, PageInvImplies, PTL

(* A dialog that is closed, reopened, submitted and answered in any order   *)
(* makes one booking, unless its passenger saw an error and went on.       *)
THEOREM DialogsBookOnce == Spec => []OneBookingPerDialog
  BY PageIsSound, PageInvImplies, PTL

(* The error a dialog shows is of a request that dialog has sent.           *)
THEOREM ErrorsAreAlwaysOwn == Spec => []ErrorsStayWithTheirDialog
  BY PageIsSound, PageInvImplies, PTL

-----------------------------------------------------------------------------
(* Good news.  A request that was accepted has had its effect: the sale is  *)
(* stored, and that click is among those that have cancelled the booking,   *)
(* whether or not the cancellation is committed.                           *)
Took(o) == request[o] \in {"accepted", "reloading", "done"}

SalesWereMade == \A s \in Sales : Took(s) => stored[s] # "absent"

ClicksWereHeeded ==
    \A c \in Cancels : Took(c) => c \in cancelledBy[target[c]]

NewsIsOfTheDone ==
    /\ notice.kind = "booked" => notice.op \in Sales /\ request[notice.op] = "done"
    /\ notice.kind = "cancelled" => notice.op \in Cancels /\ request[notice.op] = "done"

NewsInv == SalesWereMade /\ ClicksWereHeeded /\ NewsIsOfTheDone

LEMMA NewsInvImplies == NewsInv => GoodNewsIsTrue
  BY DEF NewsInv, SalesWereMade, ClicksWereHeeded, NewsIsOfTheDone, GoodNewsIsTrue, Took

LEMMA NoNewsYet == Init => NewsInv
<1> SUFFICES ASSUME Init PROVE NewsInv
  OBVIOUS
<1>1. \A o \in Sales \cup Cancels : request[o] = "idle"
  BY DashboardAssumption DEF Init, Ops
<1>2. notice.kind = "none"
  BY DEF Init, Quiet
<1> QED
  BY <1>1, <1>2 DEF NewsInv, SalesWereMade, ClicksWereHeeded, NewsIsOfTheDone, Took

(* A step that accepts nothing and forgets nothing at the back end.         *)
LEMMA EffectsStay ==
    ASSUME PageInv, SalesWereMade, ClicksWereHeeded, UNCHANGED cancelledBy,
           \A s \in Sales : stored[s] # "absent" => stored'[s] # "absent",
           \A o \in Sales \cup Cancels : Took(o)' => Took(o),
           \A c \in Cancels : request[c] # "idle" => target'[c] = target[c]
    PROVE  SalesWereMade' /\ ClicksWereHeeded'
<1>1. SalesWereMade'
  BY DEF SalesWereMade
<1>2. \A c \in Cancels : Took(c) => target[c] \in Sales /\ target'[c] = target[c]
  BY DEF PageInv, ClicksHaveTargets, Took
<1>3. ClicksWereHeeded'
  BY <1>2 DEF ClicksWereHeeded
<1> QED
  BY <1>1, <1>3

(* A step that leaves the back end alone, and accepts nothing.              *)
LEMMA NothingAccepted ==
    ASSUME PageInv, SalesWereMade, ClicksWereHeeded, NEW o \in Ops, NEW status,
           Becomes(o, status), Took(o) \/ status \in {"sent", "refused", "failed"},
           UNCHANGED <<server, target>>
    PROVE  SalesWereMade' /\ ClicksWereHeeded'
<1>1. \A x \in Ops : Took(x)' => Took(x)
  BY DEF PageInv, TypeOK, Becomes, Took
<1> QED
  BY <1>1, EffectsStay DEF server, Ops

(* A step that says nothing new, and ends no request that is done.          *)
LEMMA NoNews ==
    ASSUME PageInv, NewsIsOfTheDone, UNCHANGED notice,
           \A o \in Ops : request[o] = "done" => request'[o] = "done"
    PROVE  NewsIsOfTheDone'
  BY DEF NewsIsOfTheDone, Ops

LEMMA RequestsEndOnce ==
    ASSUME PageInv, NEW o \in Ops, request[o] # "done", NEW status, Becomes(o, status)
    PROVE  \A x \in Ops : request[x] = "done" => request'[x] = "done"
  BY DEF PageInv, TypeOK, Becomes

LEMMA NewsOfQuietSteps ==
    ASSUME PageInv, NewsInv, UNCHANGED <<server, notice, target, request>>
    PROVE  NewsInv'
<1>1. \A x : Took(x)' <=> Took(x)
  BY DEF Took
<1> QED
  BY <1>1 DEF NewsInv, SalesWereMade, ClicksWereHeeded, NewsIsOfTheDone, server

LEMMA NewsOfPassenger ==
    ASSUME PageInv, NewsInv, Passenger
    PROVE  NewsInv'
<1>1. CASE OpenDialog \/ CloseDialog
  BY <1>1, NewsOfQuietSteps DEF OpenDialog, CloseDialog
<1>2. ASSUME NEW s \in Sales, Submit(s)
      PROVE  NewsInv'
  <2>1. s \in Ops /\ request[s] # "done"
    BY <1>2 DEF Submit, Ops
  <2> QED
    BY <1>2, <2>1, NothingAccepted, NoNews, RequestsEndOnce DEF NewsInv, Submit
<1>3. ASSUME NEW c \in Cancels, NEW s \in Sales, ClickCancel(c, s)
      PROVE  NewsInv'
  <2>1. c \in Ops /\ request[c] = "idle" /\ Becomes(c, "sent") /\ UNCHANGED <<server, notice>>
    BY <1>3 DEF ClickCancel, Ops
  <2>2. \A x \in Ops : Took(x)' => Took(x)
    BY <2>1 DEF PageInv, TypeOK, Becomes, Took
  <2>3. \A x \in Cancels : request[x] # "idle" => target'[x] = target[x]
    BY <1>3 DEF ClickCancel, PageInv, TypeOK
  <2>4. SalesWereMade' /\ ClicksWereHeeded'
    BY <2>1, <2>2, <2>3, EffectsStay DEF NewsInv, server, Ops
  <2> QED
    BY <2>1, <2>4, NoNews, RequestsEndOnce DEF NewsInv
<1> QED
  BY <1>1, <1>2, <1>3 DEF Passenger

LEMMA NewsOfCommit ==
    ASSUME PageInv, NewsInv, NEW s \in Sales, Commit(s) \/ RollBack(s)
    PROVE  NewsInv'
<1>1. \A x \in Sales : stored[x] # "absent" => stored'[x] # "absent"
  BY DEF PageInv, TypeOK, Commit, RollBack
<1>2. UNCHANGED <<cancelledBy, notice, target, request>>
  BY DEF Commit, RollBack
<1>3. SalesWereMade' /\ ClicksWereHeeded'
  BY <1>1, <1>2, EffectsStay DEF NewsInv, Took
<1> QED
  BY <1>2, <1>3, NoNews DEF NewsInv

LEMMA NewsOfNetwork ==
    ASSUME PageInv, NewsInv, NEW o \in Ops, Network(o)
    PROVE  NewsInv'
<1>1. ASSUME o \in Sales, Sell(o)
      PROVE  NewsInv'
  <2>1. PICK answer \in {"accepted", "refused"} : Becomes(o, answer)
    BY <1>1 DEF Sell
  <2>2. /\ stored' = [stored EXCEPT ![o] = "accepted"] /\ request[o] = "sent"
        /\ UNCHANGED <<cancelledBy, notice, target>>
    BY <1>1 DEF Sell
  <2>3. \A x \in Ops : x # o => request'[x] = request[x]
    BY <2>1 DEF PageInv, TypeOK, Becomes
  <2>4. SalesWereMade'
    BY <1>1, <2>2, <2>3 DEF NewsInv, SalesWereMade, Took, PageInv, TypeOK, Ops
  <2>5. \A c \in Cancels : c # o /\ c \in Ops
    BY <1>1, DashboardAssumption DEF Ops
  <2>6. ClicksWereHeeded'
    BY <2>2, <2>3, <2>5 DEF NewsInv, ClicksWereHeeded, Took
  <2>7. NewsIsOfTheDone'
    BY <2>1, <2>2, NoNews, RequestsEndOnce DEF NewsInv
  <2> QED
    BY <2>4, <2>6, <2>7 DEF NewsInv
<1>2. ASSUME o \in Cancels, Revoke(o)
      PROVE  NewsInv'
  <2>1. PICK answer \in {"accepted", "refused"} : Becomes(o, answer)
    BY <1>2 DEF Revoke
  <2>2. target[o] \in Sales
    BY <1>2 DEF PageInv, ClicksHaveTargets, Revoke
  <2>3. /\ stored[target[o]] = "confirmed" /\ request[o] = "sent"
        /\ stored' = [stored EXCEPT ![target[o]] = "revoked"]
        /\ cancelledBy' = [cancelledBy EXCEPT ![target[o]] = @ \cup {o}]
        /\ UNCHANGED <<notice, target>>
    BY <1>2 DEF Revoke
  <2>4. \A x \in Ops : x # o => request'[x] = request[x]
    BY <2>1 DEF PageInv, TypeOK, Becomes
  <2>5. \A s \in Sales : s # o /\ s \in Ops
    BY <1>2, DashboardAssumption DEF Ops
  <2>6. SalesWereMade'
    BY <2>2, <2>3, <2>4, <2>5 DEF NewsInv, SalesWereMade, Took, PageInv, TypeOK
  <2>7. ClicksWereHeeded'
    <3> SUFFICES ASSUME NEW c \in Cancels, Took(c)'
                 PROVE  c \in cancelledBy'[target'[c]]
      BY DEF ClicksWereHeeded
    <3>1. CASE c = o
      BY <2>2, <2>3, <3>1 DEF PageInv, TypeOK
    <3>2. CASE c # o
      <4>1. Took(c)
        BY <2>4, <3>2 DEF Took, Ops
      <4>2. c \in cancelledBy[target[c]] /\ target[c] \in Sales
        BY <4>1 DEF NewsInv, ClicksWereHeeded, PageInv, ClicksHaveTargets, Took
      <4> QED
        BY <2>2, <2>3, <4>2 DEF PageInv, TypeOK
    <3> QED
      BY <3>1, <3>2
  <2>8. NewsIsOfTheDone'
    BY <2>1, <2>3, NoNews, RequestsEndOnce DEF NewsInv
  <2> QED
    BY <2>6, <2>7, <2>8 DEF NewsInv
<1>3. CASE Fail(o)
  <2>1. request[o] # "done"
    BY <1>3 DEF Fail
  <2> QED
    BY <1>3, <2>1, NothingAccepted, NoNews, RequestsEndOnce DEF NewsInv, Fail
<1>4. CASE ReadList(o) \/ ListFails(o)
  BY <1>4, NewsOfQuietSteps DEF ReadList, ListFails
<1> QED
  BY <1>1, <1>2, <1>3, <1>4 DEF Network

LEMMA NewsOfHandlers ==
    ASSUME PageInv, NewsInv, NEW o \in Ops, Handle(o)
    PROVE  NewsInv'
<1>1. CASE SaleAccepted(o) \/ CancelAccepted(o)
  <2>1. Took(o) /\ request[o] # "done" /\ Becomes(o, "reloading") /\ UNCHANGED <<server, notice, target>>
    BY <1>1 DEF SaleAccepted, CancelAccepted, form, Took
  <2> QED
    BY <2>1, NothingAccepted, NoNews, RequestsEndOnce DEF NewsInv
<1>2. CASE SaleRefused(o)
  <2>1. request[o] # "done" /\ Becomes(o, "failed") /\ UNCHANGED <<server, notice, target>>
    BY <1>2 DEF SaleRefused
  <2> QED
    BY <2>1, NothingAccepted, NoNews, RequestsEndOnce DEF NewsInv
<1>3. CASE CancelRefused(o)
  <2>1. /\ request[o] # "done" /\ Becomes(o, "failed") /\ UNCHANGED <<server, target>>
        /\ notice'.kind = "unchanged"
    BY <1>3 DEF CancelRefused
  <2> QED
    BY <2>1, NothingAccepted DEF NewsInv, NewsIsOfTheDone
<1>4. CASE ListLands(o)
  BY <1>4, NewsOfQuietSteps DEF ListLands
<1>5. CASE Reloaded(o)
  <2>1. Took(o) /\ request[o] # "done" /\ Becomes(o, "done") /\ UNCHANGED <<server, target>>
    BY <1>5 DEF Reloaded, Took
  <2>2. request'[o] = "done"
    BY <2>1 DEF Becomes, PageInv, TypeOK
  <2>3. \/ o \in Sales /\ notice' = [kind |-> "booked", op |-> o]
        \/ o \in Cancels /\ notice' = [kind |-> "cancelled", op |-> o]
        \/ notice' = notice
    BY <1>5, DashboardAssumption DEF Reloaded, Ops
  <2>4. NewsIsOfTheDone'
    <3>1. CASE notice' = notice
      BY <2>1, <3>1, NoNews, RequestsEndOnce DEF NewsInv
    <3> QED
      BY <2>2, <2>3, <3>1 DEF NewsIsOfTheDone
  <2> QED
    BY <2>1, <2>4, NothingAccepted DEF NewsInv
<1>6. CASE ReloadFailed(o)
  <2>1. request[o] # "done" /\ Becomes(o, "failed") /\ UNCHANGED <<server, target>>
    BY <1>6 DEF ReloadFailed
  <2>2. notice'.kind \in {"unchanged", "unavailable"} \/ notice' = notice
    BY <1>6, DashboardAssumption DEF ReloadFailed, Ops
  <2>3. NewsIsOfTheDone'
    <3>1. CASE notice' = notice
      BY <2>1, <3>1, NoNews, RequestsEndOnce DEF NewsInv
    <3> QED
      BY <2>2, <3>1 DEF NewsIsOfTheDone
  <2> QED
    BY <2>1, <2>3, NothingAccepted DEF NewsInv
<1> QED
  BY <1>1, <1>2, <1>3, <1>4, <1>5, <1>6 DEF Handle

LEMMA NewsStepKeeps == PageInv /\ NewsInv /\ [Next]_vars => NewsInv'
<1> SUFFICES ASSUME PageInv, NewsInv, [Next]_vars PROVE NewsInv'
  OBVIOUS
<1>1. CASE UNCHANGED vars
  BY <1>1, NewsOfQuietSteps DEF vars
<1> QED
  BY <1>1, NewsOfPassenger, NewsOfCommit, NewsOfNetwork, NewsOfHandlers DEF Next

(* What the page says it has booked or cancelled, the back end has accepted *)
(* from that very click, whatever else was under way (confirmBooking,       *)
(* cancelBooking).                                                         *)
THEOREM GoodNewsIsAlwaysTrue == Spec => []GoodNewsIsTrue
<1>1. Spec => []NewsInv
  BY NoNewsYet, PageIsSound, NewsStepKeeps, PTL DEF Spec
<1> QED
  BY <1>1, NewsInvImplies, PTL

=============================================================================
