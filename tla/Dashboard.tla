------------------------------ MODULE Dashboard ------------------------------
(***************************************************************************)
(* pages/Dashboard.tsx and components/BookingDialog.tsx: what a passenger   *)
(* is shown and told, against what the booking back end has stored.        *)
(*                                                                         *)
(* The back end is here what BookingSystem shows it to be from outside: a  *)
(* sale or a cancellation is answered, and then committed; a list holds    *)
(* what is committed when it is read.  Requests and answers may be lost.   *)
(***************************************************************************)
EXTENDS Naturals

CONSTANTS
    Sales,          \* submissions of a booking dialog; a booking has its name
    Cancels,        \* confirmed clicks on "Cancel booking"
    MaxDialogs,     \* dialogs the passenger opens, at most
    Boot,           \* the page's own first load
    Nobody          \* no sale, no cancellation

ASSUME DashboardAssumption ==
    /\ MaxDialogs \in Nat
    /\ Sales \cap Cancels = {}
    /\ Boot \notin Sales \cup Cancels
    /\ Nobody \notin Sales \cup Cancels \cup {Boot}

VARIABLES
    stored,         \* each booking, at the back end
    cancelledBy,    \* the clicks whose cancellation of it was accepted there
    list,           \* state "bookings": My itineraries
    notice,         \* state "notice": its kind, and the request it is about
    dialog,         \* state "bookingFlight": whether a dialog is open
    opened,         \* dialogs opened so far: the number of the latest
    submitting,     \* the open dialog's states "submitting" ...
    error,          \* ... and "error", known by the sale it is about
    madeIn,         \* the dialog each sale was submitted in, 0 for none
    target,             \* the booking each click is to cancel
    request,        \* the request of each sale and click, and its handler
    reload          \* the bookings list each handler has asked for

server == <<stored, cancelledBy>>
form   == <<dialog, opened, submitting, error, madeIn>>
vars   == <<server, list, notice, form, target, request, reload>>

Ops      == Sales \cup Cancels \cup {Boot}
Listed   == [Sales -> {"absent", "confirmed", "cancelled"}]
Quiet    == [kind |-> "none", op |-> Nobody]
Empty    == [s \in Sales |-> "absent"]

(* What a request that reads the bookings is answered with.                *)
Committed ==
    [s \in Sales |-> CASE stored[s] \in {"absent", "accepted"}    -> "absent"
                       [] stored[s] \in {"confirmed", "revoked"}  -> "confirmed"
                       [] stored[s] = "cancelled"                 -> "cancelled"]

Init ==
    /\ stored = [s \in Sales |-> "absent"]
    /\ cancelledBy = [s \in Sales |-> {}]
    /\ list = Committed
    /\ notice = Quiet
    /\ dialog = FALSE
    /\ opened = 0
    /\ submitting = FALSE
    /\ error = Nobody
    /\ madeIn = [s \in Sales |-> 0]
    /\ target = [c \in Cancels |-> Nobody]
    /\ request = [o \in Ops |-> IF o = Boot THEN "reloading" ELSE "idle"]
    /\ reload = [o \in Ops |-> [at |-> IF o = Boot THEN "asked" ELSE "none", bookings |-> Empty]]

(* State "loading": there is no page to click on before the first load is   *)
(* over, for good or ill.                                                  *)
Loading == request[Boot] = "reloading"

Becomes(o, status) == request' = [request EXCEPT ![o] = status]
Reload(o, at, bookings) ==
    reload' = [reload EXCEPT ![o] = [at |-> at, bookings |-> bookings]]

-----------------------------------------------------------------------------
(* The passenger.                                                          *)

OpenDialog ==
    /\ ~Loading
    /\ ~dialog
    /\ opened < MaxDialogs
    /\ dialog' = TRUE
    /\ opened' = opened + 1
    /\ submitting' = FALSE
    /\ error' = Nobody
    /\ UNCHANGED <<server, list, notice, madeIn, target, request, reload>>

(* Mutant: the dialog is hidden, and keeps its state.                       *)
HideDialog ==
    /\ dialog
    /\ dialog' = FALSE
    /\ UNCHANGED <<server, list, notice, opened, submitting, error, madeIn, target, request, reload>>

(* Escape, the overlay or Cancel, even while the request is under way.     *)
CloseDialog ==
    /\ dialog
    /\ dialog' = FALSE
    /\ submitting' = FALSE
    /\ error' = Nobody
    /\ UNCHANGED <<server, list, notice, opened, madeIn, target, request, reload>>

(* Mutant: Confirm is not disabled while a request is under way.            *)
SubmitAgain(s) ==
    /\ dialog
    /\ request[s] = "idle"
    /\ submitting' = TRUE
    /\ error' = Nobody
    /\ madeIn' = [madeIn EXCEPT ![s] = opened]
    /\ Becomes(s, "sent")
    /\ UNCHANGED <<server, list, notice, dialog, opened, target, reload>>

Submit(s) ==
    /\ dialog
    /\ ~submitting
    /\ request[s] = "idle"
    /\ submitting' = TRUE
    /\ error' = Nobody
    /\ madeIn' = [madeIn EXCEPT ![s] = opened]
    /\ Becomes(s, "sent")
    /\ UNCHANGED <<server, list, notice, dialog, opened, target, reload>>

(* Nothing keeps the passenger from asking twice.                          *)
ClickCancel(c, s) ==
    /\ ~Loading
    /\ request[c] = "idle"
    /\ list[s] = "confirmed"
    /\ target' = [target EXCEPT ![c] = s]
    /\ Becomes(c, "sent")
    /\ UNCHANGED <<server, list, notice, form, reload>>

-----------------------------------------------------------------------------
(* The back end, and the network on the way there and back.                *)

Sell(s) ==
    /\ request[s] = "sent"
    /\ stored' = [stored EXCEPT ![s] = "accepted"]
    /\ \E answer \in {"accepted", "refused"} : Becomes(s, answer)
    /\ UNCHANGED <<cancelledBy, list, notice, form, target, reload>>

Revoke(c) ==
    /\ request[c] = "sent"
    /\ stored[target[c]] = "confirmed"
    /\ stored' = [stored EXCEPT ![target[c]] = "revoked"]
    /\ cancelledBy' = [cancelledBy EXCEPT ![target[c]] = @ \cup {c}]
    /\ \E answer \in {"accepted", "refused"} : Becomes(c, answer)
    /\ UNCHANGED <<list, notice, form, target, reload>>

(* An error answer, or none: to the page they are the same.  The second    *)
(* cancellation of a booking is refused once the first has committed.      *)
Fail(o) ==
    /\ request[o] = "sent"
    /\ Becomes(o, "refused")
    /\ UNCHANGED <<server, list, notice, form, target, reload>>

Commit(s) ==
    /\ stored[s] \in {"accepted", "revoked"}
    /\ stored' = [stored EXCEPT ![s] =
                     IF stored[s] = "accepted" THEN "confirmed" ELSE "cancelled"]
    /\ UNCHANGED <<cancelledBy, list, notice, form, target, request, reload>>

(* The connection is lost before a cancellation is committed: the booking  *)
(* is confirmed as before, and can be cancelled again.  A sale that is     *)
(* never committed stays one that no list shows.                           *)
RollBack(s) ==
    /\ stored[s] = "revoked"
    /\ stored' = [stored EXCEPT ![s] = "confirmed"]
    /\ UNCHANGED <<cancelledBy, list, notice, form, target, request, reload>>

(* Mutant: the list is read with what is still to be committed.             *)
ReadUncommitted(o) ==
    /\ reload[o].at = "asked"
    /\ Reload(o, "answered",
          [s \in Sales |-> CASE stored[s] = "absent" -> "absent"
                             [] stored[s] \in {"accepted", "confirmed"} -> "confirmed"
                             [] OTHER -> "cancelled"])
    /\ UNCHANGED <<server, list, notice, form, target, request>>

ReadList(o) ==
    /\ reload[o].at = "asked"
    /\ Reload(o, "answered", Committed)
    /\ UNCHANGED <<server, list, notice, form, target, request>>

-----------------------------------------------------------------------------
(* The handlers: confirmBooking with handleSubmit around it, cancelBooking. *)

(* Mutant: the answer is not awaited.                                       *)
SaleAssumed(s) ==
    /\ request[s] \in {"sent", "accepted"}
    /\ dialog' = FALSE
    /\ submitting' = FALSE
    /\ error' = Nobody
    /\ Reload(s, "asked", Empty)
    /\ Becomes(s, "reloading")
    /\ UNCHANGED <<server, list, notice, opened, madeIn, target>>

(* The dialog closes, whichever it is by now, and both lists are reloaded. *)
SaleAccepted(s) ==
    /\ request[s] = "accepted"
    /\ dialog' = FALSE
    /\ submitting' = FALSE
    /\ error' = Nobody
    /\ Reload(s, "asked", Empty)
    /\ Becomes(s, "reloading")
    /\ UNCHANGED <<server, list, notice, opened, madeIn, target>>

(* Mutant: the error is shown in whatever dialog is open.                   *)
ShowError(s) ==
    /\ request[s] = "refused"
    /\ error' = IF dialog THEN s ELSE error
    /\ submitting' = FALSE
    /\ Becomes(s, "failed")
    /\ UNCHANGED <<server, list, notice, dialog, opened, madeIn, target, reload>>

(* Mutant: the dialog is not given back to the passenger.                   *)
ShowErrorOnly(s) ==
    /\ request[s] = "refused"
    /\ error' = IF dialog /\ madeIn[s] = opened THEN s ELSE error
    /\ Becomes(s, "failed")
    /\ UNCHANGED <<server, list, notice, dialog, opened, submitting, madeIn, target, reload>>

(* The error goes to the dialog it was submitted in, if that is still open. *)
SaleRefused(s) ==
    /\ request[s] = "refused"
    /\ LET mounted == dialog /\ madeIn[s] = opened
       IN  /\ error' = IF mounted THEN s ELSE error
           /\ submitting' = (submitting /\ ~mounted)
    /\ Becomes(s, "failed")
    /\ UNCHANGED <<server, list, notice, dialog, opened, madeIn, target, reload>>

CancelAccepted(c) ==
    /\ request[c] = "accepted"
    /\ Reload(c, "asked", Empty)
    /\ Becomes(c, "reloading")
    /\ UNCHANGED <<server, list, notice, form, target>>

CancelRefused(c) ==
    /\ request[c] = "refused"
    /\ notice' = [kind |-> "unchanged", op |-> c]
    /\ Becomes(c, "failed")
    /\ UNCHANGED <<server, list, form, target, reload>>

(* Lists land in whatever order they come.                                 *)
ListLands(o) ==
    /\ reload[o].at = "answered"
    /\ list' = reload[o].bookings
    /\ Reload(o, "landed", Empty)
    /\ UNCHANGED <<server, notice, form, target, request>>

ListFails(o) ==
    /\ reload[o].at \in {"asked", "answered"}
    /\ Reload(o, "failed", Empty)
    /\ UNCHANGED <<server, list, notice, form, target, request>>

(* Promise.all is done when both lists are.                                *)
Reloaded(o) ==
    /\ request[o] = "reloading"
    /\ reload[o].at = "landed"
    /\ notice' = CASE o \in Sales   -> [kind |-> "booked", op |-> o]
                   [] o \in Cancels -> [kind |-> "cancelled", op |-> o]
                   [] o = Boot      -> notice
    /\ Becomes(o, "done")
    /\ UNCHANGED <<server, list, form, target, reload>>

(* It rejects when either fails; the bookings list may land yet.  The      *)
(* dialog that would show the error of a sale is gone; a cancellation has  *)
(* one catch for its request and its reload.                               *)
ReloadFailed(o) ==
    /\ request[o] = "reloading"
    /\ notice' = CASE o \in Sales   -> notice
                   [] o \in Cancels -> [kind |-> "unchanged", op |-> o]
                   [] o = Boot      -> [kind |-> "unavailable", op |-> o]
    /\ Becomes(o, "failed")
    /\ UNCHANGED <<server, list, form, target, reload>>

-----------------------------------------------------------------------------

Network(o) ==
    \/ o \in Sales /\ Sell(o)
    \/ o \in Cancels /\ Revoke(o)
    \/ Fail(o) \/ ReadList(o) \/ ListFails(o)

Handle(o) ==
    \/ o \in Sales /\ (SaleAccepted(o) \/ SaleRefused(o))
    \/ o \in Cancels /\ (CancelAccepted(o) \/ CancelRefused(o))
    \/ ListLands(o) \/ Reloaded(o) \/ ReloadFailed(o)

Passenger ==
    \/ OpenDialog \/ CloseDialog
    \/ \E s \in Sales : Submit(s)
    \/ \E c \in Cancels, s \in Sales : ClickCancel(c, s)

Next ==
    \/ Passenger
    \/ \E s \in Sales : Commit(s) \/ RollBack(s)
    \/ \E o \in Ops : Network(o)
    \/ \E o \in Ops : Handle(o)

Spec == Init /\ [][Next]_vars

(* A request is answered or its connection breaks, and the page handles    *)
(* what comes; the passenger need not do anything.                         *)
FairSpec ==
    /\ Spec
    /\ \A o \in Ops : WF_vars(Network(o)) /\ WF_vars(Handle(o))

-----------------------------------------------------------------------------
(* The page's states, the requests and the back end are of their types, and *)
(* only a dialog that is open waits for anything.                          *)
TypeOK ==
    /\ stored \in [Sales -> {"absent", "accepted", "confirmed", "revoked", "cancelled"}]
    /\ cancelledBy \in [Sales -> SUBSET Cancels]
    /\ list \in Listed
    /\ notice \in [kind : {"none", "booked", "cancelled", "unchanged", "unavailable"}, op : Ops \cup {Nobody}]
    /\ dialog \in BOOLEAN
    /\ opened \in 0 .. MaxDialogs
    /\ submitting \in BOOLEAN /\ (submitting => dialog)
    /\ error \in Sales \cup {Nobody}
    /\ madeIn \in [Sales -> 0 .. MaxDialogs]
    /\ target \in [Cancels -> Sales \cup {Nobody}]
    /\ request \in [Ops -> {"idle", "sent", "accepted", "refused", "reloading", "done", "failed"}]
    /\ reload \in [Ops -> [at : {"none", "asked", "answered", "landed", "failed"},
                           bookings : Listed]]

(* My itineraries may be late, but never claims what is not so: a booking   *)
(* it shows is stored, and one it shows as cancelled is cancelled, in       *)
(* whatever order the answers to several reloads come.                     *)
ListIsNeverAhead ==
    \A s \in Sales :
        /\ list[s] = "confirmed" => stored[s] \in {"confirmed", "revoked", "cancelled"}
        /\ list[s] = "cancelled" => stored[s] = "cancelled"

(* One dialog makes one booking, unless the passenger confirmed again after *)
(* an error (BookingDialog, disabled while submitting).                    *)
OneBookingPerDialog ==
    \A s, t \in Sales :
        /\ s # t
        /\ madeIn[s] = madeIn[t]
        /\ stored[s] # "absent"
        /\ stored[t] # "absent"
        => request[s] = "failed" \/ request[t] = "failed"

(* A dialog shows the error of its own request, never that of a dialog that *)
(* was closed while its request was under way.                             *)
ErrorsStayWithTheirDialog ==
    error # Nobody => dialog /\ madeIn[error] = opened

(* A dialog that is waiting for its answer does not wait for ever.         *)
DialogIsGivenBack == submitting ~> ~submitting

(* Good news is true: what the page says it has booked or cancelled, the   *)
(* back end has accepted from that very click (confirmBooking,             *)
(* cancelBooking).  Bad news need not be: "Nothing has changed" is also    *)
(* said of a cancellation that was accepted, when the reload after it      *)
(* fails.                                                                  *)
GoodNewsIsTrue ==
    /\ notice.kind = "booked" => stored[notice.op] # "absent"
    /\ notice.kind = "cancelled" => notice.op \in cancelledBy[target[notice.op]]

(* A booking the page has just confirmed is under My itineraries (TC-M20). *)
BookedIsListed ==
    notice.kind = "booked" => list[notice.op] # "absent"

=============================================================================
