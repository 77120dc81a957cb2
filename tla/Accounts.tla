------------------------------ MODULE Accounts ------------------------------
(***************************************************************************)
(* Registration, e-mail verification, and what administrators do to an     *)
(* account.                                                                *)
(*                                                                         *)
(* A registration checks the name and the e-mail address by queries, then  *)
(* inserts the account and its profile in one transaction, which also      *)
(* starts the thread that mails the link; so a link may leave before the   *)
(* commit, and outlive a rollback.  A link is stateless: it names an       *)
(* account, works for 24 hours, may be followed more than once, and need   *)
(* not have been mailed.                                                   *)
(* A verification loads the account, checks it, and updates two columns.   *)
(***************************************************************************)
EXTENDS Serving

CONSTANTS
    Accounts,        \* primary keys of the user table
    Emails, Names,   \* e-mail addresses and user names that are tried
    NoAccount, NoEmail, NoName

ASSUME AccountsAssumption ==
    NoAccount \notin Accounts /\ NoEmail \notin Emails /\ NoName \notin Names

VARIABLES
    user,   \* the user table, each row with whether its profile exists
    links,  \* accounts that a link younger than 24 hours names
    form,   \* the change form an administrator has open: the account, and what
            \* its two boxes say
    calm,   \* history: so far everything ran one at a time and to its end
    held    \* the row each registration has inserted and not yet committed

vars == <<user, links, form, calm, pc, req, held>>

Row   == [email : Emails, name : Names, active : BOOLEAN, verified : BOOLEAN, profile : BOOLEAN]
NoRow == [email |-> NoEmail, name |-> NoName, active |-> FALSE, verified |-> FALSE,
          profile |-> FALSE]

Form   == [on : Accounts, active : BOOLEAN, verified : BOOLEAN]
NoForm == [on |-> NoAccount, active |-> FALSE, verified |-> FALSE]

Request == [on : Accounts \cup {NoAccount}, email : Emails \cup {NoEmail}, name : Names \cup {NoName}]
NoReq   == [on |-> NoAccount, email |-> NoEmail, name |-> NoName]
Labels  == {"idle", "checkEmail", "insert", "profile", "mail", "commit",
            "validate", "activate", "send"}

TypeOK ==
    /\ user \in [Accounts -> Row \cup {NoRow}]
    /\ links \subseteq Accounts
    /\ form \in Form \cup {NoForm}
    /\ calm \in BOOLEAN
    /\ pc \in [Workers -> Labels]
    /\ req \in [Workers -> Request]
    /\ held \in [Workers -> Row \cup {NoRow}]

-----------------------------------------------------------------------------
Exists(a) == user[a] # NoRow
Idle      == form = NoForm /\ \A w \in Workers : pc[w] = "idle"

Begin(w, q, label) ==
    /\ pc[w] = "idle"
    /\ req' = [req EXCEPT ![w] = q]
    /\ calm' = (calm /\ Idle)
    /\ Goto(w, label)

Finish(w) ==
    /\ Goto(w, "idle")
    /\ req' = [req EXCEPT ![w] = NoReq]
    /\ held' = [held EXCEPT ![w] = NoRow]

-----------------------------------------------------------------------------
(* POST /register/                                                         *)

\* validate_username; a name that is taken is refused.
BeginRegister(w) ==
    /\ \E n \in Names, e \in Emails :
          /\ \A a \in Accounts : user[a].name # n
          /\ Begin(w, [NoReq EXCEPT !.name = n, !.email = e], "checkEmail")
    /\ UNCHANGED <<user, links, form, held>>

\* validate_email.
CheckEmail(w) ==
    /\ pc[w] = "checkEmail"
    /\ IF \E a \in Accounts : user[a].email = req[w].email
       THEN Finish(w) ELSE Goto(w, "insert") /\ UNCHANGED <<req, held>>
    /\ UNCHANGED <<user, links, form, calm>>

Clash(row, w) == row.email = req[w].email \/ row.name = req[w].name

\* Fault: without the unique columns.
InsertUserUnchecked(w) ==
    /\ pc[w] = "insert"
    /\ \E a \in Accounts :
          /\ ~Exists(a) /\ a \notin links /\ \A v \in Workers : req[v].on # a
          /\ form.on # a
          /\ req' = [req EXCEPT ![w].on = a]
    /\ held' = [held EXCEPT ![w] = [NoRow EXCEPT !.email = req[w].email, !.name = req[w].name]]
    /\ Goto(w, "profile")
    /\ UNCHANGED <<user, links, form, calm>>

\* INSERT of an inactive account.  Both columns are unique: it fails on a
\* committed row and waits for an uncommitted one.
InsertUser(w) ==
    /\ pc[w] = "insert"
    /\ \A v \in Workers \ {w} : held[v] # NoRow => ~Clash(held[v], w)
    /\ IF \E a \in Accounts : Clash(user[a], w) THEN Finish(w)
       ELSE /\ \E a \in Accounts :
                  /\ ~Exists(a) /\ a \notin links /\ \A v \in Workers : req[v].on # a
                  /\ form.on # a
                  /\ req' = [req EXCEPT ![w].on = a]
            /\ held' = [held EXCEPT ![w] =
                           [NoRow EXCEPT !.email = req[w].email, !.name = req[w].name]]
            /\ Goto(w, "profile")
    /\ UNCHANGED <<user, links, form, calm>>

InsertProfile(w) ==
    /\ pc[w] = "profile"
    /\ held' = [held EXCEPT ![w].profile = TRUE]
    /\ Goto(w, "mail")
    /\ UNCHANGED <<user, links, form, calm, req>>

\* send_verification_email: the thread mails the link, or fails and is ignored.
Mail(w) ==
    /\ pc[w] = "mail"
    /\ links' \in {links, links \cup {req[w].on}}
    /\ Goto(w, "commit")
    /\ UNCHANGED <<user, form, calm, req, held>>

Commit(w) ==
    /\ pc[w] = "commit"
    /\ user' = [user EXCEPT ![req[w].on] = held[w]]
    /\ Finish(w)
    /\ UNCHANGED <<links, form, calm>>

-----------------------------------------------------------------------------
(* /email/verify/ and /email/resend/                                       *)

\* Fault: an account that is inactive may be activated, verified or not.
Verifiable(a) == Exists(a) /\ a \in links /\ ~user[a].active

\* validate_verification_request, and the serializer's own check.
MayVerify(a) == Exists(a) /\ ~user[a].verified /\ a \in links /\ ~user[a].active

\* POST: a verified account is answered 200 at once, active or not.
BeginPost(w) ==
    /\ \E a \in Accounts :
          /\ Exists(a) /\ ~user[a].verified
          /\ Begin(w, [NoReq EXCEPT !.on = a], "validate")
    /\ UNCHANGED <<user, links, form, held>>

\* The serializer loads the account again.
Validate(w) ==
    /\ pc[w] = "validate"
    /\ IF MayVerify(req[w].on) THEN Goto(w, "activate") /\ UNCHANGED <<req, held>> ELSE Finish(w)
    /\ UNCHANGED <<user, links, form, calm>>

\* GET: the serializer's load is the only one.
BeginGet(w) ==
    /\ \E a \in Accounts : MayVerify(a) /\ Begin(w, [NoReq EXCEPT !.on = a], "activate")
    /\ UNCHANGED <<user, links, form, held>>

\* save(update_fields): of a row that is gone it raises.
Activate(w) ==
    /\ pc[w] = "activate"
    /\ LET a == req[w].on
       IN user' = IF Exists(a) THEN [user EXCEPT ![a].active = TRUE, ![a].verified = TRUE] ELSE user
    /\ Finish(w)
    /\ UNCHANGED <<links, form, calm>>

\* Any inactive account is sent a link, a verified one too.
BeginResend(w) ==
    /\ \E a \in Accounts :
          /\ Exists(a) /\ ~user[a].active
          /\ Begin(w, [NoReq EXCEPT !.on = a], "send")
    /\ UNCHANGED <<user, links, form, held>>

SendLink(w) ==
    /\ pc[w] = "send"
    /\ links' \in {links, links \cup {req[w].on}}
    /\ Finish(w)
    /\ UNCHANGED <<user, form, calm>>

\* check_token compares the token with a hash of the account and the time: it
\* does not know which links were mailed.
OtherLink ==
    /\ \E a \in Accounts : Exists(a) /\ links' = links \cup {a}
    /\ UNCHANGED <<user, form, calm, pc, req, held>>

ExpireLink ==
    /\ \E a \in links : links' = links \ {a}
    /\ UNCHANGED <<user, form, calm, pc, req, held>>

-----------------------------------------------------------------------------
(* Administrators                                                          *)

\* verify_emails: the address counts as verified, the account stays as it is.
VerifyEmails ==
    /\ \E a \in Accounts : /\ Exists(a) /\ ~user[a].verified
                           /\ user' = [user EXCEPT ![a].verified = TRUE]
    /\ calm' = (calm /\ Idle)
    /\ UNCHANGED <<links, form, pc, req, held>>

\* The change form of an account, with the box "active" left or changed.
OpenForm ==
    /\ form = NoForm
    /\ \E a \in Accounts, b \in BOOLEAN :
          Exists(a) /\ form' = [on |-> a, active |-> b, verified |-> user[a].verified]
    /\ calm' = (calm /\ Idle)
    /\ UNCHANGED <<user, links, pc, req, held>>

\* Saving it writes both boxes as they were shown; or it is left.
CloseForm ==
    /\ form # NoForm /\ form' = NoForm
    /\ LET a == form.on
       IN user' \in {user, IF Exists(a)
                           THEN [user EXCEPT ![a].active = form.active, ![a].verified = form.verified]
                           ELSE user}
    /\ UNCHANGED <<links, calm, pc, req, held>>

DeleteAccount ==
    /\ \E a \in Accounts : Exists(a) /\ user' = [user EXCEPT ![a] = NoRow]
    /\ calm' = (calm /\ Idle)
    /\ UNCHANGED <<links, form, pc, req, held>>

-----------------------------------------------------------------------------
\* Fault: an exception after the insert leaves the account.
AbortCommits(w) ==
    /\ MayAbort /\ pc[w] # "idle"
    /\ user' = IF held[w] # NoRow THEN [user EXCEPT ![req[w].on] = held[w]] ELSE user
    /\ Finish(w) /\ calm' = FALSE
    /\ UNCHANGED <<links, form>>

\* A statement fails and the handler answers 500; a transaction is rolled back.
Abort(w) ==
    /\ MayAbort /\ pc[w] # "idle" /\ Finish(w) /\ calm' = FALSE
    /\ UNCHANGED <<user, links, form>>

Init ==
    /\ user = [a \in Accounts |-> NoRow] /\ links = {} /\ form = NoForm /\ calm = TRUE
    /\ pc = [w \in Workers |-> "idle"]
    /\ req = [w \in Workers |-> NoReq]
    /\ held = [w \in Workers |-> NoRow]

Register(w) == \/ BeginRegister(w) \/ CheckEmail(w) \/ InsertUser(w) \/ InsertProfile(w)
               \/ Mail(w) \/ Commit(w)
Verify(w)   == BeginPost(w) \/ Validate(w) \/ BeginGet(w) \/ Activate(w)
Resend(w)   == BeginResend(w) \/ SendLink(w)
Administer  == VerifyEmails \/ OpenForm \/ CloseForm \/ DeleteAccount

Next ==
    \/ \E w \in Workers : Register(w) \/ Verify(w) \/ Resend(w) \/ Abort(w)
    \/ Administer \/ OtherLink \/ ExpireLink

Spec == Init /\ [][Next]_vars

-----------------------------------------------------------------------------
(* Properties                                                              *)

\* Whatever fails or overlaps, an account that registration leaves is whole:
\* it has its profile, and shares neither name nor address with another
\* (UserRegistrationSerializer.create, the unique columns of User).
RegistrationWhole ==
    \A a \in Accounts : Exists(a) =>
        /\ user[a].profile
        /\ \A b \in Accounts \ {a} : Exists(b) => user[a].email # user[b].email
                                                  /\ user[a].name # user[b].name

\* Where nothing overlapped, an account that was verified and then disabled is
\* enabled again by an administrator's form only: neither an old link nor a new
\* one does it (EmailVerificationValidator, EmailVerificationView).
OnlyAdministratorsReenable ==
    [][\A a \in Accounts :
          Exists(a) /\ user[a].verified /\ ~user[a].active /\ user'[a].active
              => ~calm \/ form # NoForm]_user

=============================================================================
