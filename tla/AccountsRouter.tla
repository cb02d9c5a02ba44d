--------------------------- MODULE AccountsRouter ---------------------------
(***************************************************************************)
(* routers/auth.py register and routers/admin.py create_admin: the two      *)
(* requests that store an account.                                         *)
(***************************************************************************)
EXTENDS Records

VARIABLES
    form,           \* the address and name each account is asked for under
    token           \* the address in the token of each administrator's request

Forms == [email : Emails, username : Usernames]

AccountsInit ==
    /\ form \in [Registrations \cup Promotions -> Forms]
    /\ token \in [Promotions \cup Publishers -> Emails]

accountVars == <<form, token>>

-----------------------------------------------------------------------------
(* get_current_admin, before the handler of an administrator's request.    *)

Authorise(p) ==
    /\ pc[p] = "start"
    /\ Administrator(token[p])
    /\ Goto(p, IF p \in Promotions THEN "adding" ELSE "finding")
    /\ UNCHANGED <<records, work, answer, accountVars>>

NotAuthorised(p) ==
    /\ pc[p] = "start"
    /\ ~Administrator(token[p])
    /\ Refuse(p, IF Stored(token[p]) THEN "403" ELSE "401")
    /\ UNCHANGED accountVars

(* register needs no one's leave.                                          *)
ReceiveRegistration(p) ==
    /\ pc[p] = "start"
    /\ Goto(p, "adding")
    /\ UNCHANGED <<records, work, answer, accountVars>>

-----------------------------------------------------------------------------
(* The handlers are alike but for is_admin.                                *)

(* A password of at most 72 characters may still have more bytes: hashing  *)
(* it comes first.                                                         *)
PasswordTooLong(p) ==
    /\ pc[p] = "start"
    /\ p \in Promotions => Administrator(token[p])
    /\ Refuse(p, "400")
    /\ UNCHANGED accountVars

(* The row goes into the index on the address ...                          *)
AddAccount(p) ==
    /\ pc[p] = "adding"
    /\ Insert(p, {form[p].email})
    /\ Goto(p, "naming")
    /\ UNCHANGED <<records, seated, answer, accountVars>>

(* ... and then into the one on the name.                                  *)
NameAccount(p) ==
    /\ pc[p] = "naming"
    /\ Insert(p, {form[p].username})
    /\ Goto(p, "committing")
    /\ Send(p, "201")
    /\ UNCHANGED <<records, seated, accountVars>>

AlreadyRegistered(p) ==
    /\ \/ pc[p] = "adding" /\ Clashes(p, {form[p].email})
       \/ pc[p] = "naming" /\ Clashes(p, {form[p].username})
    /\ Refuse(p, "409")
    /\ UNCHANGED accountVars

CommitAccount(p) == Commit(p) /\ UNCHANGED accountVars

Account(p) ==
    \/ PasswordTooLong(p) \/ AddAccount(p) \/ NameAccount(p) \/ AlreadyRegistered(p)
    \/ CommitAccount(p)

Register(p)    == ReceiveRegistration(p) \/ Account(p)
CreateAdmin(p) == Authorise(p) \/ NotAuthorised(p) \/ Account(p)

AccountsTypeOK ==
    /\ form \in [Registrations \cup Promotions -> Forms]
    /\ token \in [Promotions \cup Publishers -> Emails]

=============================================================================
