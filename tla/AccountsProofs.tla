--------------------------- MODULE AccountsProofs ---------------------------
(***************************************************************************)
(* Proofs about what the repository keeps of one person.                   *)
(*                                                                         *)
(* Accounts: types, that registration leaves only whole accounts, and who  *)
(* enables a disabled one again, for any numbers of accounts, addresses,   *)
(* names and requests.                                                     *)
(*                                                                         *)
(* People: types, that what a member asked for stands, that the            *)
(* completeness tells of the rows, and that a consent has its entry in the *)
(* log, for any number of requests.                                        *)
(***************************************************************************)
EXTENDS Accounts, People, TLAPS

\* A registration that has inserted its row and not yet committed it.
Open(w) == pc[w] \in {"profile", "mail", "commit"}

\* What a statement relies on its request to carry.
Carried ==
    \A w \in Workers :
        /\ pc[w] \in {"checkEmail", "insert"} => req[w].email \in Emails /\ req[w].name \in Names
        /\ pc[w] \in {"validate", "activate", "send"} => req[w].on \in Accounts
        /\ Open(w) => req[w].on \in Accounts /\ held[w] \in Row
        /\ ~Open(w) => held[w] = NoRow
        /\ pc[w] \in {"mail", "commit"} => held[w].profile

\* Rows that are not committed yet take part in the unique columns.
HeldApart ==
    /\ \A w \in Workers : Open(w) =>
          \A a \in Accounts : Exists(a) =>
              user[a].email # held[w].email /\ user[a].name # held[w].name
    /\ \A v, w \in Workers : v # w /\ Open(v) /\ Open(w) =>
          /\ req[v].on # req[w].on
          /\ held[v].email # held[w].email /\ held[v].name # held[w].name

IInv == TypeOK /\ Carried /\ HeldApart /\ RegistrationWhole

\* A row is told from no row by its address.
LEMMA RowIsNotNoRow == NoRow \notin Row
BY AccountsAssumption DEF Row, NoRow

LEMMA Initially == Init => IInv
BY DEF Init, IInv, TypeOK, Carried, Open, HeldApart, RegistrationWhole, Exists, Request, NoReq, Labels

\* A request ends without a change of the user table.
LEMMA Ended ==
    ASSUME IInv, NEW w \in Workers, Finish(w), UNCHANGED <<user, links, form>>, calm' \in BOOLEAN
    PROVE  IInv'
<1> USE AccountsAssumption, RowIsNotNoRow DEF IInv, Finish, Goto, Open
<1>0. NoReq \in Request
  BY DEF NoReq, Request
<1>1. TypeOK'
  BY <1>0 DEF TypeOK, Labels
<1>2. Carried'
  BY DEF TypeOK, Carried
<1>3. HeldApart'
  BY DEF TypeOK, Carried, HeldApart, Exists
<1>4. RegistrationWhole'
  BY DEF RegistrationWhole, Exists
<1> QED BY <1>1, <1>2, <1>3, <1>4

\* A request that holds no row goes on to another statement that holds none.
LEMMA WentOn ==
    ASSUME IInv, NEW w \in Workers, NEW l \in Labels, NEW q \in Request,
           pc' = [pc EXCEPT ![w] = l], req' = [req EXCEPT ![w] = q],
           ~Open(w), l \notin {"profile", "mail", "commit"},
           l \in {"checkEmail", "insert"} => q.email \in Emails /\ q.name \in Names,
           l \in {"validate", "activate", "send"} => q.on \in Accounts,
           UNCHANGED <<user, links, form, held>>, calm' \in BOOLEAN
    PROVE  IInv'
<1> USE AccountsAssumption, RowIsNotNoRow DEF IInv, Open
<1>1. TypeOK'
  BY DEF TypeOK
<1>2. Carried'
  BY DEF TypeOK, Carried
<1>3. HeldApart'
  BY DEF TypeOK, Carried, HeldApart, Exists
<1>4. RegistrationWhole'
  BY DEF RegistrationWhole, Exists
<1> QED BY <1>1, <1>2, <1>3, <1>4

\* No account is added, and none that stays has another address, name or profile.
NoneAdded ==
    /\ user' \in [Accounts -> Row \cup {NoRow}]
    /\ \A a \in Accounts : Exists(a)' =>
          /\ Exists(a) /\ user'[a].profile = user[a].profile
          /\ user'[a].email = user[a].email /\ user'[a].name = user[a].name

LEMMA TwoBoxes ==
    ASSUME IInv, NEW a \in Accounts, Exists(a), NEW b \in BOOLEAN, NEW c \in BOOLEAN,
           user' = [user EXCEPT ![a].active = b, ![a].verified = c]
    PROVE  NoneAdded
<1> DEFINE r == [user[a] EXCEPT !.active = b, !.verified = c]
<1>1. user \in [Accounts -> Row \cup {NoRow}] /\ user[a] \in Row
  BY DEF IInv, TypeOK, Exists
<1>2. user' = [user EXCEPT ![a] = r]
  BY <1>1
<1>3. r \in Row /\ r.email = user[a].email /\ r.name = user[a].name /\ r.profile = user[a].profile
  BY <1>1 DEF Row
<1> HIDE DEF r
<1> QED BY <1>1, <1>2, <1>3 DEF NoneAdded, Exists

\* Whoever makes such a step, uniqueness survives.
LEMMA StaysApart ==
    ASSUME IInv, NoneAdded, UNCHANGED <<pc, req, held>> \/ \E w \in Workers : ~Open(w) /\ Finish(w)
    PROVE  HeldApart' /\ RegistrationWhole'
<1>1. \A v \in Workers : Open(v)' => Open(v) /\ held'[v] = held[v] /\ req'[v] = req[v]
  BY DEF Open, Finish, Goto, IInv, TypeOK
<1>2. HeldApart'
  BY <1>1 DEF IInv, HeldApart, NoneAdded
<1>3. RegistrationWhole'
  BY DEF IInv, RegistrationWhole, NoneAdded
<1> QED BY <1>2, <1>3

LEMMA BeginRegisterKeeps == ASSUME IInv, NEW w \in Workers, BeginRegister(w) PROVE IInv'
<1>1. PICK n \in Names, e \in Emails :
         Begin(w, [NoReq EXCEPT !.name = n, !.email = e], "checkEmail")
  BY DEF BeginRegister
<1> DEFINE q == [NoReq EXCEPT !.name = n, !.email = e]
<1>2. q \in Request /\ q.email = e /\ q.name = n
  BY DEF NoReq, Request
<1>3. "checkEmail" \in Labels /\ ~Open(w) /\ calm' \in BOOLEAN
  BY <1>1 DEF Labels, Open, Begin, IInv, TypeOK
<1>4. pc' = [pc EXCEPT ![w] = "checkEmail"] /\ req' = [req EXCEPT ![w] = q]
  BY <1>1 DEF Begin, Goto
<1> HIDE DEF q
<1> QED BY <1>2, <1>3, <1>4, WentOn DEF BeginRegister

LEMMA CheckEmailKeeps == ASSUME IInv, NEW w \in Workers, CheckEmail(w) PROVE IInv'
<1>1. CASE Finish(w)
  BY <1>1, Ended DEF CheckEmail, IInv, TypeOK
<1>2. CASE Goto(w, "insert") /\ UNCHANGED <<req, held>>
  <2>1. "insert" \in Labels /\ req[w] \in Request /\ req' = [req EXCEPT ![w] = req[w]]
    BY <1>2 DEF Labels, IInv, TypeOK
  <2>2. req[w].email \in Emails /\ req[w].name \in Names /\ ~Open(w) /\ calm' \in BOOLEAN
    BY DEF CheckEmail, IInv, Carried, TypeOK, Open
  <2> QED BY <1>2, <2>1, <2>2, WentOn DEF CheckEmail, Goto
<1> QED BY <1>1, <1>2 DEF CheckEmail

LEMMA InsertUserKeeps == ASSUME IInv, NEW w \in Workers, InsertUser(w) PROVE IInv'
<1>1. CASE \E a \in Accounts : Clash(user[a], w)
  BY <1>1, Ended DEF InsertUser, IInv, TypeOK
<1>2. CASE ~\E a \in Accounts : Clash(user[a], w)
  <2>1. PICK a \in Accounts :
           /\ ~Exists(a) /\ \A v \in Workers : req[v].on # a
           /\ req' = [req EXCEPT ![w].on = a]
    BY <1>2 DEF InsertUser
  <2> DEFINE r == [NoRow EXCEPT !.email = req[w].email, !.name = req[w].name]
             q == [req[w] EXCEPT !.on = a]
  <2>2. held' = [held EXCEPT ![w] = r] /\ pc' = [pc EXCEPT ![w] = "profile"] /\ pc[w] = "insert"
    BY <1>2 DEF InsertUser, Goto
  <2>3. req[w].email \in Emails /\ req[w].name \in Names /\ req[w] \in Request
    BY <2>2 DEF IInv, Carried, TypeOK
  <2>4. r \in Row /\ r.email = req[w].email /\ r.name = req[w].name
    BY <2>3 DEF NoRow, Row
  <2>5. q \in Request /\ q.on = a /\ req' = [req EXCEPT ![w] = q]
    BY <2>1, <2>3 DEF Request, IInv, TypeOK
  <2>6. UNCHANGED <<user, links, form, calm>>
    BY DEF InsertUser
  <2>7. \A v \in Workers \ {w} : Open(v) => held[v] # NoRow /\ ~Clash(held[v], w)
    BY RowIsNotNoRow DEF InsertUser, IInv, Carried
  <2>8. \A v \in Workers : Open(v)' => v = w \/ (Open(v) /\ held'[v] = held[v] /\ req'[v] = req[v])
    BY <2>2, <2>5 DEF Open, IInv, TypeOK
  <2>9. Open(w)' /\ held'[w] = r /\ req'[w] = q
    BY <2>2, <2>5 DEF Open, IInv, TypeOK
  <2> HIDE DEF r, q
  <2>a. TypeOK'
    BY <2>2, <2>4, <2>5, <2>6 DEF IInv, TypeOK, Labels
  <2>b. Carried'
    BY <2>2, <2>4, <2>5, <2>9 DEF IInv, TypeOK, Carried, Open
  <2>c. HeldApart'
    <3>1. \A b \in Accounts : Exists(b)' => user'[b].email # r.email /\ user'[b].name # r.name
      BY <1>2, <2>4, <2>6 DEF Clash, Exists
    <3>2. \A v \in Workers \ {w} : Open(v) =>
             held[v].email # r.email /\ held[v].name # r.name /\ req[v].on # q.on
      BY <2>1, <2>4, <2>5, <2>7 DEF Clash
    <3> QED BY <3>1, <3>2, <2>6, <2>8, <2>9 DEF IInv, HeldApart, Exists
  <2>d. RegistrationWhole'
    BY <2>6 DEF IInv, RegistrationWhole, Exists
  <2> QED BY <2>a, <2>b, <2>c, <2>d DEF IInv
<1> QED BY <1>1, <1>2

LEMMA InsertProfileKeeps == ASSUME IInv, NEW w \in Workers, InsertProfile(w) PROVE IInv'
<1> USE DEF IInv, InsertProfile, Goto, Open
<1>1. TypeOK'
  BY DEF TypeOK, Carried, Labels, Row
<1>2. Carried'
  BY DEF TypeOK, Carried, Row
<1>3. HeldApart'
  BY DEF TypeOK, Carried, HeldApart, Exists, Row
<1>4. RegistrationWhole'
  BY DEF RegistrationWhole, Exists
<1> QED BY <1>1, <1>2, <1>3, <1>4

LEMMA MailKeeps == ASSUME IInv, NEW w \in Workers, Mail(w) PROVE IInv'
<1> USE DEF IInv, Mail, Goto, Open
<1>1. TypeOK'
  BY DEF TypeOK, Carried, Labels
<1>2. Carried'
  BY DEF TypeOK, Carried
<1>3. HeldApart'
  BY DEF TypeOK, HeldApart, Exists
<1>4. RegistrationWhole'
  BY DEF RegistrationWhole, Exists
<1> QED BY <1>1, <1>2, <1>3, <1>4

LEMMA CommitKeeps == ASSUME IInv, NEW w \in Workers, Commit(w) PROVE IInv'
<1> USE AccountsAssumption, RowIsNotNoRow DEF IInv, Commit, Goto, Finish, Open
<1>1. TypeOK'
  BY DEF TypeOK, Carried, Labels, NoReq, Request
<1>2. Carried'
  BY DEF TypeOK, Carried
<1>3. HeldApart'
  BY DEF TypeOK, Carried, HeldApart, Exists
<1>4. RegistrationWhole'
  BY DEF TypeOK, Carried, HeldApart, RegistrationWhole, Exists
<1> QED BY <1>1, <1>2, <1>3, <1>4

LEMMA BeginPostKeeps == ASSUME IInv, NEW w \in Workers, BeginPost(w) PROVE IInv'
<1>1. PICK a \in Accounts : Begin(w, [NoReq EXCEPT !.on = a], "validate")
  BY DEF BeginPost
<1> DEFINE q == [NoReq EXCEPT !.on = a]
<1>2. q \in Request /\ q.on = a
  BY DEF NoReq, Request
<1>3. "validate" \in Labels /\ ~Open(w) /\ calm' \in BOOLEAN
  BY <1>1 DEF Labels, Open, Begin, IInv, TypeOK
<1>4. pc' = [pc EXCEPT ![w] = "validate"] /\ req' = [req EXCEPT ![w] = q]
  BY <1>1 DEF Begin, Goto
<1> HIDE DEF q
<1> QED BY <1>2, <1>3, <1>4, WentOn DEF BeginPost

LEMMA ValidateKeeps == ASSUME IInv, NEW w \in Workers, Validate(w) PROVE IInv'
<1>1. CASE Finish(w)
  BY <1>1, Ended DEF Validate, IInv, TypeOK
<1>2. CASE Goto(w, "activate") /\ UNCHANGED <<req, held>>
  <2>1. "activate" \in Labels /\ req[w] \in Request /\ req' = [req EXCEPT ![w] = req[w]]
    BY <1>2 DEF Labels, IInv, TypeOK
  <2>2. req[w].on \in Accounts /\ ~Open(w) /\ calm' \in BOOLEAN
    BY DEF Validate, IInv, Carried, TypeOK, Open
  <2> QED BY <1>2, <2>1, <2>2, WentOn DEF Validate, Goto
<1> QED BY <1>1, <1>2 DEF Validate

LEMMA BeginGetKeeps == ASSUME IInv, NEW w \in Workers, BeginGet(w) PROVE IInv'
<1>1. PICK a \in Accounts : Begin(w, [NoReq EXCEPT !.on = a], "activate")
  BY DEF BeginGet
<1> DEFINE q == [NoReq EXCEPT !.on = a]
<1>2. q \in Request /\ q.on = a
  BY DEF NoReq, Request
<1>3. "activate" \in Labels /\ ~Open(w) /\ calm' \in BOOLEAN
  BY <1>1 DEF Labels, Open, Begin, IInv, TypeOK
<1>4. pc' = [pc EXCEPT ![w] = "activate"] /\ req' = [req EXCEPT ![w] = q]
  BY <1>1 DEF Begin, Goto
<1> HIDE DEF q
<1> QED BY <1>2, <1>3, <1>4, WentOn DEF BeginGet

LEMMA ActivateKeeps == ASSUME IInv, NEW w \in Workers, Activate(w) PROVE IInv'
<1> DEFINE a == req[w].on
<1>1. a \in Accounts /\ ~Open(w) /\ pc[w] = "activate"
  BY DEF Activate, IInv, Carried, Open
<1>2. CASE ~Exists(a)
  BY <1>2, Ended DEF Activate, IInv, TypeOK
<1>3. CASE Exists(a)
  <2>1. user' = [user EXCEPT ![a].active = TRUE, ![a].verified = TRUE]
    BY <1>3 DEF Activate
  <2> HIDE DEF a
  <2>2. NoneAdded
    BY <1>1, <1>3, <2>1, TwoBoxes
  <2>3. Finish(w) /\ UNCHANGED <<links, form, calm>> /\ NoReq \in Request
    BY DEF Activate, NoReq, Request
  <2>4. TypeOK'
    BY <2>2, <2>3 DEF IInv, TypeOK, NoneAdded, Finish, Goto, Labels
  <2>5. Carried'
    BY <2>3 DEF IInv, TypeOK, Carried, Finish, Goto, Open
  <2> QED BY <1>1, <2>2, <2>3, <2>4, <2>5, StaysApart DEF IInv
<1> QED BY <1>2, <1>3

LEMMA BeginResendKeeps == ASSUME IInv, NEW w \in Workers, BeginResend(w) PROVE IInv'
<1>1. PICK a \in Accounts : Begin(w, [NoReq EXCEPT !.on = a], "send")
  BY DEF BeginResend
<1> DEFINE q == [NoReq EXCEPT !.on = a]
<1>2. q \in Request /\ q.on = a
  BY DEF NoReq, Request
<1>3. "send" \in Labels /\ ~Open(w) /\ calm' \in BOOLEAN
  BY <1>1 DEF Labels, Open, Begin, IInv, TypeOK
<1>4. pc' = [pc EXCEPT ![w] = "send"] /\ req' = [req EXCEPT ![w] = q]
  BY <1>1 DEF Begin, Goto
<1> HIDE DEF q
<1> QED BY <1>2, <1>3, <1>4, WentOn DEF BeginResend

LEMMA SendLinkKeeps == ASSUME IInv, NEW w \in Workers, SendLink(w) PROVE IInv'
<1>1. req[w].on \in Accounts /\ ~Open(w)
  BY DEF SendLink, IInv, Carried, Open
<1>2. Finish(w) /\ UNCHANGED <<user, form, calm>> /\ NoReq \in Request
  BY DEF SendLink, NoReq, Request
<1>3. links' \subseteq Accounts
  BY <1>1 DEF SendLink, IInv, TypeOK
<1>4. NoneAdded
  BY <1>2 DEF NoneAdded, IInv, TypeOK, Exists
<1>5. TypeOK'
  BY <1>2, <1>3 DEF IInv, TypeOK, Finish, Goto, Labels
<1>6. Carried'
  BY <1>2 DEF IInv, TypeOK, Carried, Finish, Goto, Open
<1> QED BY <1>1, <1>2, <1>4, <1>5, <1>6, StaysApart DEF IInv

LEMMA AbortKeeps == ASSUME IInv, NEW w \in Workers, Abort(w) PROVE IInv'
BY Ended DEF Abort

\* Steps of nobody's request: administrators, and the end of a link's life.
LEMMA OthersKeep == ASSUME IInv, Administer \/ OtherLink \/ ExpireLink PROVE IInv'
<1> USE AccountsAssumption, RowIsNotNoRow DEF IInv, Exists, Open
<1>1. CASE VerifyEmails
  <2>1. PICK a \in Accounts : Exists(a) /\ user' = [user EXCEPT ![a].verified = TRUE]
    BY <1>1 DEF VerifyEmails
  <2>2. user[a].active \in BOOLEAN /\ user' = [user EXCEPT ![a].active = user[a].active, ![a].verified = TRUE]
    BY <2>1 DEF TypeOK, Row
  <2>3. NoneAdded /\ UNCHANGED <<links, form, pc, req, held>> /\ calm' \in BOOLEAN
    BY <1>1, <2>1, <2>2, TwoBoxes DEF VerifyEmails, Idle, TypeOK
  <2> QED BY <2>3, StaysApart DEF NoneAdded, TypeOK, Carried
<1>2. CASE OpenForm
  <2> USE <1>2 DEF OpenForm
  <2>1. TypeOK'
    BY DEF TypeOK, Row, NoRow, Form
  <2>2. Carried' /\ HeldApart' /\ RegistrationWhole'
    BY DEF Carried, HeldApart, RegistrationWhole
  <2> QED BY <2>1, <2>2
<1>3. CASE CloseForm
  <2> DEFINE a == form.on
  <2>1. a \in Accounts /\ form.active \in BOOLEAN /\ form.verified \in BOOLEAN
    BY <1>3 DEF CloseForm, TypeOK, Form
  <2>2. \/ user' = user
        \/ Exists(a) /\ user' = [user EXCEPT ![a].active = form.active, ![a].verified = form.verified]
    BY <1>3 DEF CloseForm
  <2> HIDE DEF a
  <2>3. NoneAdded
    BY <2>1, <2>2, TwoBoxes DEF NoneAdded, TypeOK
  <2>4. UNCHANGED <<links, calm, pc, req, held>> /\ form' \in Form \cup {NoForm}
    BY <1>3 DEF CloseForm
  <2> QED BY <2>3, <2>4, StaysApart DEF NoneAdded, TypeOK, Carried
<1>4. CASE DeleteAccount
  <2> USE <1>4 DEF DeleteAccount
  <2>1. TypeOK'
    BY DEF TypeOK
  <2>2. Carried' /\ HeldApart' /\ RegistrationWhole'
    BY DEF TypeOK, Carried, HeldApart, RegistrationWhole
  <2> QED BY <2>1, <2>2
<1>5. CASE OtherLink \/ ExpireLink
  BY <1>5 DEF OtherLink, ExpireLink, TypeOK, Carried, HeldApart, RegistrationWhole
<1> QED BY <1>1, <1>2, <1>3, <1>4, <1>5 DEF Administer

\* Every step keeps the invariant.
LEMMA Inductive == IInv /\ [Next]_vars => IInv'
<1> SUFFICES ASSUME IInv, [Next]_vars PROVE IInv'
  OBVIOUS
<1>1. ASSUME NEW w \in Workers, Register(w) PROVE IInv'
  BY <1>1, BeginRegisterKeeps, CheckEmailKeeps, InsertUserKeeps, InsertProfileKeeps, MailKeeps,
     CommitKeeps DEF Register
<1>2. ASSUME NEW w \in Workers, Verify(w) \/ Resend(w) \/ Abort(w) PROVE IInv'
  BY <1>2, BeginPostKeeps, ValidateKeeps, BeginGetKeeps, ActivateKeeps, BeginResendKeeps,
     SendLinkKeeps, AbortKeeps DEF Verify, Resend
<1>3. CASE UNCHANGED vars
  BY <1>3 DEF vars, IInv, TypeOK, Carried, Open, HeldApart, RegistrationWhole, Exists
<1> QED BY <1>1, <1>2, <1>3, OthersKeep DEF Next

\* The tables and the locals of requests stay well-typed; in particular an
\* address is never that of no account (the user table, register_view).
THEOREM TypeCorrect == Spec => []TypeOK
<1>1. IInv => TypeOK
  BY DEF IInv
<1> QED BY Initially, Inductive, <1>1, PTL DEF Spec

\* However registrations overlap and fail, and whatever administrators do
\* meanwhile, every account has its profile and its own name and address
\* (UserRegistrationSerializer.create, the unique columns of User).
THEOREM AccountsAreWhole == Spec => []RegistrationWhole
<1>1. IInv => RegistrationWhole
  BY DEF IInv
<1> QED BY Initially, Inductive, <1>1, PTL DEF Spec

-----------------------------------------------------------------------------
(* Who enables an account again.  While nothing overlapped, a worker about *)
(* to activate an account is alone, so the account it checked is still not *)
(* verified.  A row that a registration holds was never active.            *)

Alone(w) == form = NoForm /\ \A v \in Workers \ {w} : pc[v] = "idle"

\* Worker w has nothing under way, or is alone and activates what it checked.
Calm(w) == /\ pc[w] # "idle" => Alone(w)
           /\ pc[w] = "activate" => req[w].on \in Accounts /\ ~user[req[w].on].verified

NeverActive == \A w \in Workers : ~held[w].active

CalmInv == (calm => \A w \in Workers : Calm(w)) /\ NeverActive

\* The step of a worker that was alone, or ends what it did.
LEMMA CalmStep ==
    ASSUME IInv, CalmInv, NEW w \in Workers, UNCHANGED form, NeverActive',
           pc[w] # "idle" \/ (calm' => Idle), calm' => calm,
           \A v \in Workers \ {w} : pc'[v] = pc[v],
           calm' /\ pc'[w] = "activate" => req'[w].on \in Accounts /\ ~user'[req'[w].on].verified
    PROVE  CalmInv'
<1> SUFFICES ASSUME calm', NEW v \in Workers PROVE Calm(v)'
  BY DEF CalmInv
<1>1. calm /\ Alone(w)
  BY DEF CalmInv, Calm, Alone, Idle
<1>2. CASE v = w
  BY <1>1, <1>2 DEF Calm, Alone
<1>3. CASE v # w
  BY <1>1, <1>3 DEF Calm, Alone
<1> QED BY <1>2, <1>3

LEMMA OthersIdle ==
    ASSUME IInv, NEW w \in Workers, NEW l, pc' = [pc EXCEPT ![w] = l]
    PROVE  pc'[w] = l /\ \A v \in Workers \ {w} : pc'[v] = pc[v]
BY DEF IInv, TypeOK

LEMMA CalmBegin ==
    ASSUME IInv, CalmInv, NEW w \in Workers, NEW q, NEW l, Begin(w, q, l), UNCHANGED <<user, form, held>>,
           l = "activate" => q.on \in Accounts /\ ~user[q.on].verified
    PROVE  CalmInv'
<1>1. pc'[w] = l /\ \A v \in Workers \ {w} : pc'[v] = pc[v]
  BY OthersIdle DEF Begin, Goto
<1>2. req'[w] = q
  BY DEF Begin, IInv, TypeOK
<1>3. (calm' => Idle) /\ (calm' => calm)
  BY DEF Begin
<1>4. NeverActive'
  BY DEF CalmInv, NeverActive
<1> QED BY <1>1, <1>2, <1>3, <1>4, CalmStep

LEMMA CalmFinish ==
    ASSUME IInv, CalmInv, NEW w \in Workers, pc[w] # "idle", Finish(w), UNCHANGED form, calm' => calm
    PROVE  CalmInv'
<1>1. pc'[w] = "idle" /\ \A v \in Workers \ {w} : pc'[v] = pc[v]
  BY OthersIdle DEF Finish, Goto
<1>2. NeverActive'
  BY DEF CalmInv, NeverActive, Finish, IInv, TypeOK, NoRow
<1> QED BY <1>1, <1>2, CalmStep

LEMMA CalmGoto ==
    ASSUME IInv, CalmInv, NEW w \in Workers, pc[w] # "idle", NEW l, Goto(w, l), UNCHANGED <<form, calm>>,
           NeverActive', l # "activate"
    PROVE  CalmInv'
<1>1. pc'[w] = l /\ \A v \in Workers \ {w} : pc'[v] = pc[v]
  BY OthersIdle DEF Goto
<1> QED BY <1>1, CalmStep

LEMMA CalmRegister == ASSUME IInv, CalmInv, NEW w \in Workers, Register(w) PROVE CalmInv'
<1>0. NeverActive /\ (UNCHANGED held => NeverActive')
  BY DEF CalmInv, NeverActive
<1>1. CASE BeginRegister(w)
  BY <1>1, CalmBegin DEF BeginRegister
<1>2. CASE CheckEmail(w)
  BY <1>0, <1>2, CalmFinish, CalmGoto DEF CheckEmail
<1>3. CASE InsertUser(w)
  <2>1. CASE Finish(w)
    BY <1>3, <2>1, CalmFinish DEF InsertUser
  <2>2. CASE /\ held' = [held EXCEPT ![w] = [NoRow EXCEPT !.email = req[w].email, !.name = req[w].name]]
             /\ Goto(w, "profile")
    <3>1. ~[NoRow EXCEPT !.email = req[w].email, !.name = req[w].name].active
      BY DEF NoRow
    <3>2. NeverActive'
      BY <1>0, <2>2, <3>1 DEF NeverActive, IInv, TypeOK
    <3> QED BY <1>3, <2>2, <3>2, CalmGoto DEF InsertUser
  <2> QED BY <1>3, <2>1, <2>2 DEF InsertUser
<1>4. CASE InsertProfile(w)
  <2>1. held[w] \in Row
    BY <1>4 DEF InsertProfile, IInv, Carried, Open
  <2>2. ~[held[w] EXCEPT !.profile = TRUE].active
    BY <1>0, <2>1 DEF NeverActive, Row
  <2>3. NeverActive'
    BY <1>0, <1>4, <2>2 DEF InsertProfile, NeverActive, IInv, TypeOK
  <2> QED BY <1>4, <2>3, CalmGoto DEF InsertProfile
<1>5. CASE Mail(w)
  BY <1>0, <1>5, CalmGoto DEF Mail
<1>6. CASE Commit(w)
  BY <1>6, CalmFinish DEF Commit
<1> QED BY <1>1, <1>2, <1>3, <1>4, <1>5, <1>6 DEF Register

LEMMA CalmVerify == ASSUME IInv, CalmInv, NEW w \in Workers, Verify(w) \/ Resend(w) PROVE CalmInv'
<1>1. CASE BeginPost(w)
  BY <1>1, CalmBegin DEF BeginPost
<1>2. CASE BeginResend(w)
  BY <1>2, CalmBegin DEF BeginResend
<1>3. CASE BeginGet(w)
  <2>1. PICK a \in Accounts : MayVerify(a) /\ Begin(w, [NoReq EXCEPT !.on = a], "activate")
    BY <1>3 DEF BeginGet
  <2>2. [NoReq EXCEPT !.on = a].on = a
    BY DEF NoReq
  <2>3. ~user[a].verified
    BY <2>1 DEF MayVerify
  <2> DEFINE q == [NoReq EXCEPT !.on = a]
  <2>4. Begin(w, q, "activate") /\ q.on = a
    BY <2>1, <2>2
  <2> HIDE DEF q
  <2> QED BY <1>3, <2>3, <2>4, CalmBegin DEF BeginGet
<1>4. CASE Validate(w)
  <2>1. pc[w] = "validate" /\ UNCHANGED <<user, form, calm>>
    BY <1>4 DEF Validate
  <2>2. CASE Finish(w)
    BY <2>1, <2>2, CalmFinish
  <2>3. CASE MayVerify(req[w].on) /\ Goto(w, "activate") /\ UNCHANGED <<req, held>>
    <3>1. pc'[w] = "activate" /\ \A v \in Workers \ {w} : pc'[v] = pc[v]
      BY <2>3, OthersIdle DEF Goto
    <3>2. req'[w].on \in Accounts /\ ~user'[req'[w].on].verified
      BY <2>1, <2>3 DEF MayVerify, IInv, Carried
    <3>3. NeverActive'
      BY <2>3 DEF CalmInv, NeverActive
    <3> QED BY <2>1, <3>1, <3>2, <3>3, CalmStep
  <2> QED BY <1>4, <2>2, <2>3 DEF Validate
<1>5. CASE Activate(w)
  BY <1>5, CalmFinish DEF Activate
<1>6. CASE SendLink(w)
  BY <1>6, CalmFinish DEF SendLink
<1> QED BY <1>1, <1>2, <1>3, <1>4, <1>5, <1>6 DEF Verify, Resend

\* Administrators act while nothing is under way, or it is not calm.
LEMMA CalmOthers == ASSUME IInv, CalmInv, Administer \/ OtherLink \/ ExpireLink PROVE CalmInv'
<1>0. NeverActive'
  BY DEF CalmInv, NeverActive, Administer, VerifyEmails, OpenForm, CloseForm, DeleteAccount, OtherLink, ExpireLink
<1>1. CASE VerifyEmails \/ OpenForm \/ DeleteAccount
  <2>1. calm' => \A w \in Workers : pc'[w] = "idle"
    BY <1>1 DEF VerifyEmails, OpenForm, DeleteAccount, Idle
  <2> QED BY <1>0, <2>1 DEF CalmInv, Calm
<1>2. CASE CloseForm
  <2>1. calm' => \A w \in Workers : pc'[w] = "idle"
    BY <1>2 DEF CloseForm, CalmInv, Calm, Alone
  <2> QED BY <1>0, <2>1 DEF CalmInv, Calm
<1>3. CASE OtherLink \/ ExpireLink
  BY <1>0, <1>3 DEF OtherLink, ExpireLink, CalmInv, Calm, Alone
<1> QED BY <1>1, <1>2, <1>3 DEF Administer

LEMMA CalmNext == IInv /\ CalmInv /\ [Next]_vars => CalmInv'
<1> SUFFICES ASSUME IInv, CalmInv, [Next]_vars PROVE CalmInv'
  OBVIOUS
<1>1. ASSUME NEW w \in Workers, Abort(w) PROVE CalmInv'
  BY <1>1, CalmFinish DEF Abort
<1>2. CASE UNCHANGED vars
  BY <1>2 DEF vars, CalmInv, Calm, Alone, NeverActive
<1> QED BY <1>1, <1>2, CalmRegister, CalmVerify, CalmOthers DEF Next

\* A step that makes an account active that was verified and disabled.
Reenabled == \E a \in Accounts : Exists(a) /\ user[a].verified /\ ~user[a].active /\ user'[a].active

LEMMA ReenabledByForm == ASSUME IInv, CalmInv, [Next]_vars, Reenabled PROVE ~calm \/ form # NoForm
<1>1. PICK a \in Accounts : Exists(a) /\ user[a].verified /\ ~user[a].active /\ user'[a].active
  BY DEF Reenabled
<1>2. user' # user
  BY <1>1
<1>3. ASSUME NEW w \in Workers, Commit(w) PROVE FALSE
  <2>1. user'[a] = user[a] \/ user'[a] = held[w]
    BY <1>3 DEF Commit, IInv, TypeOK
  <2> QED BY <1>1, <2>1 DEF CalmInv, NeverActive
<1>4. ASSUME NEW w \in Workers, Activate(w) PROVE ~calm
  <2>1. req[w].on = a
    BY <1>1, <1>4 DEF Activate, IInv, TypeOK
  <2> QED BY <1>1, <1>4, <2>1 DEF Activate, CalmInv, Calm
<1>5. CASE VerifyEmails
  <2>1. PICK b \in Accounts : Exists(b) /\ user' = [user EXCEPT ![b].verified = TRUE]
    BY <1>5 DEF VerifyEmails
  <2>2. user'[a].active = user[a].active
    BY <2>1 DEF IInv, TypeOK, Row, NoRow
  <2> QED BY <1>1, <2>2
<1>6. CASE DeleteAccount
  <2>1. PICK b \in Accounts : Exists(b) /\ user' = [user EXCEPT ![b] = NoRow]
    BY <1>6 DEF DeleteAccount
  <2>2. user'[a] = user[a] \/ ~user'[a].active
    BY <2>1 DEF IInv, TypeOK, NoRow
  <2> QED BY <1>1, <2>2
<1>7. CASE CloseForm
  BY <1>7 DEF CloseForm
<1> QED BY <1>2, <1>3, <1>4, <1>5, <1>6, <1>7
    DEF Next, Register, Verify, Resend, Abort, Administer, BeginRegister, CheckEmail, InsertUser, InsertProfile,
        Mail, BeginPost, Validate, BeginGet, BeginResend, SendLink, OpenForm, OtherLink, ExpireLink, vars

\* As long as requests and administrators act one after the other, an account
\* that was verified and then disabled becomes active by the administrator's
\* form alone (EmailVerificationValidator, EmailVerificationView).
THEOREM OnlyFormsReenable == Spec => OnlyAdministratorsReenable
<1>1. Init => CalmInv
  BY DEF Init, CalmInv, Calm, NeverActive, NoRow
<1>2. IInv /\ CalmInv /\ [Next]_vars
        => [\A a \in Accounts : Exists(a) /\ user[a].verified /\ ~user[a].active /\ user'[a].active
                => ~calm \/ form # NoForm]_user
  BY ReenabledByForm DEF Reenabled
<1> QED BY Initially, Inductive, CalmNext, <1>1, <1>2, PTL DEF Spec, OnlyAdministratorsReenable

-----------------------------------------------------------------------------
(***************************************************************************)
(* What a member sets about himself                                        *)
(***************************************************************************)


Trackers == [open : BOOLEAN, has : BOOLEAN, approved : BOOLEAN]

\* The table a request saves, if it saves one, and what it names of it.
At(t) == {t} \cup (IF t \in {"profile", "photo"} THEN {"tracker"} ELSE {})

Saves(q, t) == q.at = At(t) /\ q.set \in Sets(Columns[t])

\* What a request of each kind carries.
Serves(q) ==
    /\ q.kind = "none"     => q = NoDemand
    /\ q.kind = "edit"     => Saves(q, "profile")
    /\ q.kind = "photo"    => Saves(q, "photo")
    /\ q.kind = "save"     => \E t \in Tables : Saves(q, t)
    /\ q.kind = "consent"  => Saves(q, "privacy")
    /\ q.kind = "settings" =>
          \/ q.at = {"profile", "photo", "tracker"} /\ q.set \in Sets({"open", "shown"})
          \/ Saves(q, "photo")
    /\ q.kind = "refresh"  => q.at = {"tracker"} /\ q.set = Nothing

\* The kinds of request that reach a statement.
Reaches(l, k) ==
    /\ l = "idle" => k = "none"
    /\ l = "save" => k \in {"edit", "photo", "save", "consent"}
    /\ l = "log"  => k = "consent"
    /\ l \in {"setOpen", "setShown"} => k = "settings"
    /\ l \in {"readProfile", "readPhoto", "tell"} => k \in {"edit", "photo", "refresh"}

\* The rows a statement relies on its worker to hold.
Holds(l, q, m) ==
    /\ l = "save" => \A t \in Tables \cap q.at : m[t] # Missing
    /\ l \in {"readProfile", "readPhoto", "tell"} =>
          /\ q.kind = "edit"  => m["profile"] # Missing
          /\ q.kind = "photo" => m["photo"] # Missing
    /\ l \in {"readPhoto", "tell"} => m["profile"] # Missing
    /\ l = "tell" => m["photo"] # Missing

Served ==
    \A w \in Workers :
        Reaches(pc[w], req[w].kind) /\ Serves(req[w]) /\ Holds(pc[w], req[w], inst[w])

\* Only the progress row is created by a request, and stays once one is at it.
Created ==
    \A t \in Tables :
        /\ t # "progress" => db[t] # Missing
        /\ \A w \in Workers : t \in req[w].at => db[t] # Missing
        /\ t \notin crossed /\ db[t] # Missing => chosen[t] # Missing

Typed == PeopleTypeOK /\ Served /\ Created

\* Nothing that is not crossed has two requests at it.
Lone ==
    \A v, w \in Workers, t \in Tables \cup {"tracker"} :
        t \in req[v].at /\ t \in req[w].at => v = w \/ t \in crossed

\* What worker w holds of a table that no other request is at.
Current(w) ==
    /\ pc[w] = "save" => \A t \in (Tables \cap req[w].at) \ crossed : inst[w][t] = db[t]
    /\ pc[w] \in {"readProfile", "readPhoto", "tell"} =>
          \A t \in (Tables \cap req[w].at) \ crossed : inst[w][t] = Over(db[t], req[w].set)

Settled == Lone /\ (\A w \in Workers : Current(w)) /\ SettingsStand

\* What a recalculation has read, if nothing overlaps it.
Reading(w) ==
    "tracker" \notin crossed =>
        /\ pc[w] \in {"readPhoto", "tell"} /\ req[w].kind # "edit" => inst[w]["profile"] = db["profile"]
        /\ pc[w] = "tell" /\ req[w].kind # "photo" => inst[w]["photo"] = db["photo"]

Reckoned == (\A w \in Workers : Reading(w)) /\ TrackerTells

\* A consent whose entry was made, is about to be, or was not made by the request
\* that gave it.
Recorded(c) ==
    c \in logged \cup unlogged \/ \E w \in Workers : pc[w] = "log" /\ c \in Given(w)

Recalled ==
    \A c \in Consents :
        /\ db["privacy"][c] => Recorded(c)
        /\ \A w \in Workers : pc[w] = "save" /\ "privacy" \in req[w].at /\ inst[w]["privacy"][c] => Recorded(c)

-----------------------------------------------------------------------------
(* Rows                                                                    *)

LEMMA ColumnsOf ==
    /\ Columns["profile"] = {"open"} /\ Columns["photo"] = {"has", "shown", "approved"}
    /\ Columns["progress"] = {"done"} /\ Columns["privacy"] = {"marketing", "processing", "dated"}
BY DEF Columns, Tables

LEMMA FullRow ==
    ASSUME NEW t \in Tables, NEW r \in Rows(t)
    PROVE  r # Missing <=> r \in [Columns[t] -> BOOLEAN]
<1>1. \E c : c \in Columns[t]
  BY DEF Columns, Tables
<1>2. DOMAIN Missing = {}
  BY DEF Missing, Nothing
<1> QED BY <1>1, <1>2 DEF Rows

LEMMA Empty == Nothing \in Sets({}) /\ \A cs : Nothing \in Sets(cs)
<1>1. Nothing \in [{} -> BOOLEAN]
  BY DEF Nothing
<1> QED BY <1>1 DEF Sets

\* One value for a column is a choice of columns.
LEMMA SingleSet ==
    ASSUME NEW cs, NEW c \in cs, NEW f \in [{c} -> BOOLEAN]
    PROVE  f \in Sets(cs)
BY DEF Sets

LEMMA SetValues ==
    ASSUME NEW cs, NEW s \in Sets(cs)
    PROVE  DOMAIN s \subseteq cs /\ \A c \in DOMAIN s : s[c] \in BOOLEAN
BY DEF Sets

\* Choices laid over a whole row make a whole row.
LEMMA OverFull ==
    ASSUME NEW t \in Tables, NEW r \in [Columns[t] -> BOOLEAN], NEW s \in Sets(Columns[t])
    PROVE  Over(r, s) \in [Columns[t] -> BOOLEAN]
<1>1. PICK d \in SUBSET Columns[t] : s \in [d -> BOOLEAN]
  BY DEF Sets
<1>2. DOMAIN r \cup DOMAIN s = Columns[t]
  BY <1>1
<1> QED BY <1>1, <1>2 DEF Over

\* Of the progress, the one column there is.
LEMMA OverDone ==
    ASSUME NEW r \in Rows("progress"), NEW s \in [{"done"} -> BOOLEAN]
    PROVE  Over(r, s) = s
<1>1. DOMAIN r \subseteq {"done"} /\ DOMAIN s = {"done"}
  BY ColumnsOf DEF Rows, Missing, Nothing
<1>2. DOMAIN r \cup DOMAIN s = {"done"}
  BY <1>1
<1> QED BY <1>1, <1>2 DEF Over

LEMMA DoneSet == ASSUME NEW b \in BOOLEAN PROVE [done |-> b] \in [{"done"} -> BOOLEAN]
OBVIOUS

LEMMA UploadSet ==
    ASSUME NEW x \in BOOLEAN, NEW y \in BOOLEAN, NEW s, s = [has |-> x, approved |-> y]
    PROVE  s \in [{"has", "approved"} -> BOOLEAN]
<1>1. s = [c \in {"has", "approved"} |-> s[c]]
  OBVIOUS
<1>2. s["has"] \in BOOLEAN /\ s["approved"] \in BOOLEAN
  OBVIOUS
<1>3. \A c \in {"has", "approved"} : s[c] \in BOOLEAN
  BY <1>2
<1> QED BY <1>1, <1>3

LEMMA AnswerSet ==
    ASSUME NEW x \in BOOLEAN, NEW y \in BOOLEAN, NEW s, s = [processing |-> x, dated |-> y]
    PROVE  s \in [{"processing", "dated"} -> BOOLEAN]
<1>1. s = [c \in {"processing", "dated"} |-> s[c]]
  OBVIOUS
<1>2. s["processing"] \in BOOLEAN /\ s["dated"] \in BOOLEAN
  OBVIOUS
<1>3. \A c \in {"processing", "dated"} : s[c] \in BOOLEAN
  BY <1>2
<1> QED BY <1>1, <1>3

\* A member's rows with another one in a table.
LEMMA MemberRow ==
    ASSUME NEW m \in Member, NEW t \in Tables, NEW r \in Rows(t), NEW n, n = [m EXCEPT ![t] = r]
    PROVE  n \in Member /\ n[t] = r /\ \A u \in Tables \ {t} : n[u] = m[u]
BY DEF Member

LEMMA MemberTyped ==
    ASSUME PeopleTypeOK
    PROVE  /\ db \in Member /\ chosen \in Member /\ \A w \in Workers : inst[w] \in Member
           /\ \A t \in Tables : /\ db[t] \in Rows(t) /\ chosen[t] \in Rows(t)
                               /\ \A w \in Workers : inst[w][t] \in Rows(t)
BY DEF PeopleTypeOK, Member

-----------------------------------------------------------------------------
(* Types                                                                   *)

LEMMA ServesRequest ==
    ASSUME NEW k \in Kinds, NEW a, NEW s, NEW q, q = [kind |-> k, at |-> a, set |-> s], Serves(q)
    PROVE  q \in Demand
<1>1. q.kind = k /\ q.at = a /\ q.set = s
  OBVIOUS
<1>2. \A t \in Tables : At(t) \subseteq Tables \cup {"tracker"}
  BY DEF At
<1>3. a \in SUBSET (Tables \cup {"tracker"})
  BY <1>1, <1>2 DEF Serves, Saves, Kinds, NoDemand, Tables
<1>4. s \in (UNION {Sets(Columns[t]) : t \in Tables}) \cup Sets({"open", "shown"})
  <2>1. \A t \in Tables : Sets(Columns[t]) \subseteq UNION {Sets(Columns[u]) : u \in Tables}
    OBVIOUS
  <2>2. CASE k \in {"none", "refresh"} \/ s \in Sets({"open", "shown"})
    BY <1>1, <2>2, Empty DEF Serves, NoDemand
  <2>3. CASE ~(k \in {"none", "refresh"} \/ s \in Sets({"open", "shown"}))
    <3>1. PICK t \in Tables : s \in Sets(Columns[t])
      BY <1>1, <2>3 DEF Serves, Saves, Kinds, Tables
    <3> QED BY <2>1, <3>1
  <2> QED BY <2>2, <2>3
<1> QED BY <1>3, <1>4 DEF Demand

LEMMA NoReqServes == NoDemand \in Demand /\ Serves(NoDemand) /\ NoDemand.at = {} /\ NoDemand.kind = "none"
<1>1. NoDemand.at = {} /\ NoDemand.kind = "none"
  BY DEF NoDemand
<1>2. Serves(NoDemand)
  BY <1>1 DEF Serves
<1>3. "none" \in Kinds
  BY DEF Kinds
<1> QED BY <1>1, <1>2, <1>3, ServesRequest DEF NoDemand

LEMMA NoInstTyped == NoInst \in Member
BY DEF NoInst, Member, Rows

LEMMA FreshTyped == Fresh \in Member /\ \A t \in Tables : t # "progress" => Fresh[t] # Missing
<1>1. ASSUME NEW t \in Tables PROVE Fresh[t] \in Rows(t)
  BY DEF Fresh, Rows
<1>2. ASSUME NEW t \in Tables, t # "progress" PROVE Fresh[t] # Missing
  <2>1. Fresh[t] = [c \in Columns[t] |-> c \in {"shown", "approved"}]
    BY <1>2 DEF Fresh
  <2>2. Fresh[t] \in [Columns[t] -> BOOLEAN]
    BY <2>1
  <2> QED BY <1>1, <2>2, FullRow
<1>3. Fresh \in Member
  BY <1>1 DEF Member, Fresh
<1> QED BY <1>2, <1>3

LEMMA TypedInit == PeopleInit => Typed
<1> SUFFICES ASSUME PeopleInit PROVE Typed
  OBVIOUS
<1>1. PeopleTypeOK
  BY NoReqServes, NoInstTyped, FreshTyped DEF PeopleInit, PeopleTypeOK, Statements
<1>2. Served
  BY NoReqServes DEF PeopleInit, Served, Reaches, Holds
<1>3. Created
  BY NoReqServes, FreshTyped DEF PeopleInit, Created
<1> QED BY <1>1, <1>2, <1>3 DEF Typed

\* A worker goes on with label l, request q and rows m.
LEMMA TypedStep ==
    ASSUME Typed, NEW w \in Workers, NEW l \in Statements, NEW q \in Demand, NEW m \in Member,
           Reaches(l, q.kind), Serves(q), Holds(l, q, m),
           pc' = [pc EXCEPT ![w] = l], req' = [req EXCEPT ![w] = q], inst' = [inst EXCEPT ![w] = m]
    PROVE  /\ pc' \in [Workers -> Statements] /\ req' \in [Workers -> Demand]
           /\ inst' \in [Workers -> Member] /\ Served'
BY DEF Typed, PeopleTypeOK, Served

\* What a statement leaves of the tables.
Kept ==
    /\ crossed' = crossed /\ db' \in Member /\ chosen' \in Member
    /\ \A t \in Tables : db[t] # Missing => db'[t] # Missing
    /\ \A t \in Tables \ crossed : db'[t] # Missing => chosen'[t] # Missing

LEMMA UnchangedKeeps == ASSUME Typed, UNCHANGED <<db, chosen, crossed>> PROVE Kept
BY DEF Typed, PeopleTypeOK, Created, Kept

LEMMA WriteKeeps ==
    ASSUME Typed, NEW t \in Tables, NEW r \in [Columns[t] -> BOOLEAN], NEW s \in Sets(Columns[t]),
           Write(t, r, s), db[t] # Missing, crossed' = crossed
    PROVE  Kept
<1>1. r \in Rows(t) /\ r # Missing
  BY FullRow DEF Rows
<1>2. db' = [db EXCEPT ![t] = r]
  BY DEF Write
<1>3. PICK x : chosen' = [chosen EXCEPT ![t] = x] /\ x = IF t \in crossed THEN chosen[t] ELSE Over(chosen[t], s)
  BY DEF Write
<1>4. x \in Rows(t) /\ (t \notin crossed => x # Missing)
  <2>1. chosen[t] \in Rows(t)
    BY DEF Typed, PeopleTypeOK, Member
  <2>2. CASE t \notin crossed
    <3>1. chosen[t] \in [Columns[t] -> BOOLEAN]
      BY <2>1, <2>2, FullRow DEF Typed, Created
    <3>2. x \in [Columns[t] -> BOOLEAN]
      BY <1>3, <2>2, <3>1, OverFull
    <3> QED BY <3>2, FullRow DEF Rows
  <2> QED BY <1>3, <2>1, <2>2
<1>5. db' \in Member /\ chosen' \in Member
  BY <1>1, <1>2, <1>3, <1>4, MemberRow DEF Typed, PeopleTypeOK
<1>6. \A u \in Tables : db[u] # Missing => db'[u] # Missing
  BY <1>1, <1>2 DEF Typed, PeopleTypeOK, Member
<1>7. \A u \in Tables \ {t} : db'[u] = db[u] /\ chosen'[u] = chosen[u]
  BY <1>2, <1>3 DEF Typed, PeopleTypeOK, Member
<1>8. chosen'[t] = x
  BY <1>3 DEF Typed, PeopleTypeOK, Member
<1> QED BY <1>4, <1>5, <1>6, <1>7, <1>8 DEF Kept, Typed, Created

\* A statement of a request that goes on, or ends.
LEMMA TypedOnward ==
    ASSUME Typed, NEW w \in Workers, NEW l \in Statements, NEW q \in Demand, NEW m \in Member,
           Reaches(l, q.kind), Serves(q), Holds(l, q, m), q.at \subseteq req[w].at,
           pc' = [pc EXCEPT ![w] = l], req' = [req EXCEPT ![w] = q], inst' = [inst EXCEPT ![w] = m],
           Kept, part' = part, tracker' \in Trackers,
           logged' \subseteq Consents, unlogged' \subseteq Consents, told' \in BOOLEAN
    PROVE  Typed'
<1>1. /\ pc' \in [Workers -> Statements] /\ req' \in [Workers -> Demand]
      /\ inst' \in [Workers -> Member] /\ Served'
  BY TypedStep
<1>2. PeopleTypeOK'
  BY <1>1 DEF Typed, PeopleTypeOK, Kept, Trackers
<1>3. \A v \in Workers : req'[v].at \subseteq req[v].at
  BY DEF Typed, PeopleTypeOK
<1>4. Created'
  BY <1>3 DEF Typed, Created, Kept
<1> QED BY <1>1, <1>2, <1>4 DEF Typed

LEMMA TypedFinish ==
    ASSUME Typed, NEW w \in Workers, Respond(w),
           Kept, part' = part, tracker' \in Trackers,
           logged' \subseteq Consents, unlogged' \subseteq Consents, told' \in BOOLEAN
    PROVE  Typed'
<1>1. Reaches("idle", NoDemand.kind) /\ Holds("idle", NoDemand, NoInst) /\ "idle" \in Statements
  BY NoReqServes DEF Reaches, Holds, Statements
<1> QED BY <1>1, NoReqServes, NoInstTyped, TypedOnward DEF Respond, Goto

-----------------------------------------------------------------------------
(* Requests that arrive                                                    *)

Loads(w) ==
    \/ BeginEdit(w) \/ BeginPreferences(w) \/ BeginForm(w) \/ BeginUpload(w)
    \/ BeginDelete(w) \/ BeginComplete(w) \/ BeginConsent(w) \/ BeginConsentForm(w)

\* What a member answers about a consent names columns of the consents.
LEMMA AnswersSet == Answers \subseteq Sets(Columns["privacy"])
<1> SUFFICES ASSUME NEW s \in Answers PROVE s \in Sets(Columns["privacy"])
  OBVIOUS
<1>1. CASE s = Nothing
  BY <1>1, Empty
<1>2. CASE s \in [{"marketing"} -> BOOLEAN]
  BY <1>2, SingleSet, ColumnsOf
<1>3. ASSUME NEW b \in BOOLEAN, s = [processing |-> b, dated |-> TRUE] PROVE s \in Sets(Columns["privacy"])
  <2>1. s \in [{"processing", "dated"} -> BOOLEAN]
    BY <1>3, AnswerSet
  <2>2. {"processing", "dated"} \in SUBSET Columns["privacy"]
    BY ColumnsOf
  <2> QED BY <2>1, <2>2 DEF Sets
<1> QED BY <1>1, <1>2, <1>3 DEF Answers

\* What these have in common: one table, whose row they load.
LEMMA LoadsOne ==
    ASSUME Typed, NEW w \in Workers, Loads(w)
    PROVE  \E k, t, s :
              /\ k \in Kinds /\ t \in Tables
              /\ Start(w, k, At(t), s, "save") /\ Load(w, t) /\ db[t] # Missing
              /\ Reaches("save", k) /\ Serves([kind |-> k, at |-> At(t), set |-> s])
<1>1. /\ At("profile") = {"profile", "tracker"} /\ At("photo") = {"photo", "tracker"}
      /\ At("progress") = {"progress"} /\ At("privacy") = {"privacy"}
  BY DEF At
<1>2. \A t \in Tables \ {"progress"} : db[t] # Missing
  BY DEF Typed, Created
<1> DEFINE q(k, t, s) == [kind |-> k, at |-> At(t), set |-> s]
<1>3. ASSUME NEW s \in Sets(Columns["profile"]) PROVE Serves(q("edit", "profile", s)) /\ Serves(q("save", "profile", s))
  BY DEF Serves, Saves, Tables
<1>4. ASSUME NEW s \in Sets(Columns["photo"]) PROVE Serves(q("photo", "photo", s)) /\ Serves(q("save", "photo", s))
  BY DEF Serves, Saves, Tables
<1>5. ASSUME NEW s \in Sets(Columns["progress"]) PROVE Serves(q("save", "progress", s))
  BY DEF Serves, Saves, Tables
<1>6. ASSUME NEW s \in Sets(Columns["privacy"]) PROVE Serves(q("consent", "privacy", s)) /\ Serves(q("save", "privacy", s))
  BY DEF Serves, Saves, Tables
<1>7. \A k \in {"edit", "photo", "save", "consent"} : k \in Kinds /\ Reaches("save", k)
  BY DEF Kinds, Reaches
<1> HIDE DEF q
<1>8. CASE BeginEdit(w)
  <2>1. PICK s \in Sets(Columns["profile"]) : Start(w, "edit", At("profile"), s, "save")
    BY <1>1, <1>8 DEF BeginEdit
  <2> QED BY <1>2, <1>3, <1>7, <1>8, <2>1 DEF BeginEdit, Tables, q
<1>9. CASE BeginPreferences(w)
  <2>1. PICK s \in [{"open"} -> BOOLEAN] : Start(w, "save", At("profile"), s, "save")
    BY <1>1, <1>9 DEF BeginPreferences
  <2>2. s \in Sets(Columns["profile"])
    BY SingleSet, ColumnsOf
  <2> QED BY <1>2, <1>3, <1>7, <1>9, <2>1, <2>2 DEF BeginPreferences, Tables, q
<1>10. CASE BeginForm(w)
  <2>1. PICK t \in {"profile", "photo"} : \E s \in [Columns[t] -> BOOLEAN] :
           Start(w, "save", At(t), s, "save") /\ Load(w, t)
    BY <1>1, <1>10 DEF BeginForm
  <2>2. PICK s \in [Columns[t] -> BOOLEAN] : Start(w, "save", At(t), s, "save") /\ Load(w, t)
    BY <2>1
  <2>3. s \in Sets(Columns[t])
    BY DEF Sets
  <2>4. CASE t = "profile"
    BY <1>2, <1>3, <1>7, <2>2, <2>3, <2>4 DEF Tables, q
  <2>5. CASE t = "photo"
    BY <1>2, <1>4, <1>7, <2>2, <2>3, <2>5 DEF Tables, q
  <2> QED BY <2>4, <2>5
<1>11. CASE BeginUpload(w) \/ BeginDelete(w)
  <2>1. PICK b \in BOOLEAN : Start(w, "photo", At("photo"), [has |-> b, approved |-> TRUE], "save")
    BY <1>1, <1>11 DEF BeginUpload, BeginDelete
  <2>2. PICK s : s = [has |-> b, approved |-> TRUE]
    OBVIOUS
  <2>3. s \in Sets(Columns["photo"])
    <3>1. s \in [{"has", "approved"} -> BOOLEAN]
      BY <2>2, UploadSet
    <3>2. {"has", "approved"} \in SUBSET Columns["photo"]
      BY ColumnsOf
    <3> QED BY <3>1, <3>2 DEF Sets
  <2> QED BY <1>2, <1>4, <1>7, <1>11, <2>1, <2>2, <2>3 DEF BeginUpload, BeginDelete, Tables, q
<1>12. CASE BeginComplete(w)
  <2>1. Start(w, "save", At("progress"), [done |-> TRUE], "save") /\ db["progress"] # Missing
    BY <1>1, <1>12 DEF BeginComplete
  <2>2. PICK s : s = [done |-> TRUE]
    OBVIOUS
  <2>3. s \in Sets(Columns["progress"])
    <3>1. s \in [{"done"} -> BOOLEAN]
      BY <2>2, DoneSet
    <3> QED BY <3>1, SingleSet, ColumnsOf
  <2> QED BY <1>5, <1>7, <1>12, <2>1, <2>2, <2>3 DEF BeginComplete, Tables, q
<1>13. CASE BeginConsent(w)
  <2>1. PICK s \in Answers : Start(w, "consent", At("privacy"), s, "save")
    BY <1>1, <1>13 DEF BeginConsent
  <2>2. s \in Sets(Columns["privacy"])
    BY AnswersSet
  <2> QED BY <1>2, <1>6, <1>7, <1>13, <2>1, <2>2 DEF BeginConsent, Tables, q
<1>14. CASE BeginConsentForm(w)
  <2>1. PICK s \in [Consents -> BOOLEAN] : Start(w, "save", At("privacy"), s, "save")
    BY <1>1, <1>14 DEF BeginConsentForm
  <2>2. s \in Sets(Columns["privacy"])
    BY ColumnsOf DEF Consents, Sets
  <2> QED BY <1>2, <1>6, <1>7, <1>14, <2>1, <2>2 DEF BeginConsentForm, Tables, q
<1> QED BY <1>8, <1>9, <1>10, <1>11, <1>12, <1>13, <1>14 DEF Loads

\* A recalculation, the privacy settings and the moderation load no row when they
\* begin.
Begins(w) == BeginRefresh(w) \/ BeginSettings(w) \/ BeginModerate(w)

LEMMA BeginsWithout ==
    ASSUME NEW w \in Workers, Begins(w)
    PROVE  \E k, a, s, l :
              /\ k \in {"refresh", "settings"}
              /\ Start(w, k, a, s, l) /\ Forget /\ inst' = inst
              /\ l \in IF k = "refresh" THEN {"readProfile"} ELSE {"setOpen", "setShown"}
              /\ Serves([kind |-> k, at |-> a, set |-> s])
<1>1. CASE BeginRefresh(w)
  <2>1. PICK k, a, s, l : k = "refresh" /\ a = {"tracker"} /\ s = Nothing /\ l = "readProfile"
    OBVIOUS
  <2>2. Start(w, k, a, s, l) /\ Forget /\ inst' = inst
    BY <1>1, <2>1 DEF BeginRefresh
  <2>3. Serves([kind |-> k, at |-> a, set |-> s])
    BY <2>1 DEF Serves
  <2>4. k \in {"refresh", "settings"} /\ l \in IF k = "refresh" THEN {"readProfile"} ELSE {"setOpen", "setShown"}
    BY <2>1
  <2> QED BY <2>2, <2>3, <2>4
<1>2. CASE BeginSettings(w)
  <2>1. PICK k, a, l : k = "settings" /\ a = {"profile", "photo", "tracker"} /\ l = "setOpen"
    OBVIOUS
  <2>2. PICK s \in Sets({"open", "shown"}) : Start(w, "settings", {"profile", "photo", "tracker"}, s, "setOpen")
    BY <1>2 DEF BeginSettings
  <2>3. Start(w, k, a, s, l)
    BY <2>1, <2>2
  <2>4. Serves([kind |-> k, at |-> a, set |-> s])
    BY <2>1 DEF Serves
  <2>5. k \in {"refresh", "settings"} /\ l \in IF k = "refresh" THEN {"readProfile"} ELSE {"setOpen", "setShown"}
    BY <2>1
  <2>6. Forget /\ inst' = inst
    BY <1>2 DEF BeginSettings
  <2> QED BY <2>3, <2>4, <2>5, <2>6
<1>3. CASE BeginModerate(w)
  <2>1. PICK k, a, l : k = "settings" /\ a = {"photo", "tracker"} /\ l = "setShown"
    OBVIOUS
  <2>2. PICK s \in [{"approved"} -> BOOLEAN] : Start(w, "settings", {"photo", "tracker"}, s, "setShown")
    BY <1>3 DEF BeginModerate
  <2>3. Start(w, k, a, s, l)
    BY <2>1, <2>2
  <2>4. Serves([kind |-> k, at |-> a, set |-> s])
    <3>1. s \in Sets(Columns["photo"]) /\ a = At("photo")
      BY <2>1, SingleSet, ColumnsOf DEF At
    <3> QED BY <2>1, <3>1 DEF Serves, Saves
  <2>5. k \in {"refresh", "settings"} /\ l \in IF k = "refresh" THEN {"readProfile"} ELSE {"setOpen", "setShown"}
    BY <2>1
  <2>6. Forget /\ inst' = inst
    BY <1>3 DEF BeginModerate
  <2> QED BY <2>3, <2>4, <2>5, <2>6
<1> QED BY <1>1, <1>2, <1>3 DEF Begins

\* What a request forgets stays typed.
LEMMA ForgetTyped ==
    ASSUME Typed, Forget, crossed \subseteq crossed'
    PROVE  /\ db' = db /\ chosen' \in Member /\ told' \in BOOLEAN
           /\ \A t \in Tables \ crossed' : chosen'[t] = chosen[t]
BY DEF Typed, PeopleTypeOK, Forget, Member, Rows

LEMMA BeginTyped ==
    ASSUME Typed, NEW w \in Workers, NEW k, NEW a, NEW s, NEW l, Start(w, k, a, s, l),
           [kind |-> k, at |-> a, set |-> s] \in Demand
    PROVE  crossed \subseteq crossed' /\ crossed' \subseteq Tables \cup {"tracker"}
BY DEF Typed, PeopleTypeOK, Start, Demand

LEMMA LoadsTyped == ASSUME Typed, NEW w \in Workers, Loads(w) PROVE Typed'
<1>1. PICK k, t, s :
          /\ k \in Kinds /\ t \in Tables
          /\ Start(w, k, At(t), s, "save") /\ Load(w, t) /\ db[t] # Missing
          /\ Reaches("save", k) /\ Serves([kind |-> k, at |-> At(t), set |-> s])
  BY LoadsOne
<1>2. PICK q : q = [kind |-> k, at |-> At(t), set |-> s]
  OBVIOUS
<1>3. q \in Demand /\ q.kind = k /\ q.at = At(t)
  BY <1>1, <1>2, ServesRequest
<1>4. PICK m : m = [inst[w] EXCEPT ![t] = db[t]]
  OBVIOUS
<1>5. m \in Member /\ m[t] = db[t]
  BY <1>1, <1>4, MemberRow, MemberTyped DEF Typed
<1>6. \A u \in Tables : u \in q.at => u = t
  BY <1>3 DEF At, Tables
<1>7. Holds("save", q, m)
  BY <1>1, <1>5, <1>6 DEF Holds
<1>8. /\ pc' = [pc EXCEPT ![w] = "save"] /\ req' = [req EXCEPT ![w] = q] /\ inst' = [inst EXCEPT ![w] = m]
      /\ UNCHANGED <<part, tracker, logged, unlogged>> /\ Forget
  BY <1>1, <1>2, <1>4 DEF Start, Load, Goto
<1>9. crossed \subseteq crossed' /\ crossed' \subseteq Tables \cup {"tracker"}
  BY <1>1, <1>2, <1>3, BeginTyped
<1>10. "save" \in Statements
  BY DEF Statements
<1>11. /\ pc' \in [Workers -> Statements] /\ req' \in [Workers -> Demand]
       /\ inst' \in [Workers -> Member] /\ Served'
  BY <1>1, <1>2, <1>3, <1>5, <1>7, <1>8, <1>10, TypedStep
<1>12. /\ db' = db /\ chosen' \in Member /\ told' \in BOOLEAN
       /\ \A u \in Tables \ crossed' : chosen'[u] = chosen[u]
  BY <1>8, <1>9, ForgetTyped
<1>13. \A v \in Workers, u \in Tables : u \in req'[v].at => u = t \/ u \in req[v].at
  BY <1>6, <1>8 DEF Typed, PeopleTypeOK
<1>14. Created'
  BY <1>1, <1>9, <1>12, <1>13 DEF Typed, Created
<1> QED BY <1>8, <1>9, <1>11, <1>12, <1>14 DEF Typed, PeopleTypeOK

LEMMA WithoutTyped == ASSUME Typed, NEW w \in Workers, Begins(w) PROVE Typed'
<1>1. PICK k, a, s, l :
          /\ k \in {"refresh", "settings"}
          /\ Start(w, k, a, s, l) /\ Forget /\ inst' = inst
          /\ l \in IF k = "refresh" THEN {"readProfile"} ELSE {"setOpen", "setShown"}
          /\ Serves([kind |-> k, at |-> a, set |-> s])
  BY BeginsWithout
<1>2. PICK q : q = [kind |-> k, at |-> a, set |-> s]
  OBVIOUS
<1>3. q \in Demand /\ q.kind = k /\ Serves(q)
  BY <1>1, <1>2, ServesRequest DEF Kinds
<1>4. q.at \subseteq {"profile", "photo", "tracker"}
  BY <1>1, <1>3 DEF Serves, Saves, At
<1>5. l \in Statements /\ Reaches(l, q.kind) /\ Holds(l, q, inst[w])
  BY <1>1, <1>3 DEF Statements, Reaches, Holds
<1>6. /\ pc' = [pc EXCEPT ![w] = l] /\ req' = [req EXCEPT ![w] = q] /\ inst' = [inst EXCEPT ![w] = inst[w]]
      /\ UNCHANGED <<part, tracker, logged, unlogged>>
  BY <1>1, <1>2 DEF Start, Goto, Typed, PeopleTypeOK
<1>7. crossed \subseteq crossed' /\ crossed' \subseteq Tables \cup {"tracker"}
  BY <1>1, <1>2, <1>3, BeginTyped
<1>8. inst[w] \in Member
  BY DEF Typed, PeopleTypeOK
<1>9. /\ pc' \in [Workers -> Statements] /\ req' \in [Workers -> Demand]
      /\ inst' \in [Workers -> Member] /\ Served'
  BY <1>3, <1>5, <1>6, <1>8, TypedStep
<1>10. /\ db' = db /\ chosen' \in Member /\ told' \in BOOLEAN
       /\ \A u \in Tables \ crossed' : chosen'[u] = chosen[u]
  BY <1>1, <1>7, ForgetTyped
<1>11. \A v \in Workers, u \in Tables : u \in req'[v].at => u \in {"profile", "photo"} \/ u \in req[v].at
  BY <1>4, <1>6 DEF Typed, PeopleTypeOK, Tables
<1>12. Created'
  BY <1>7, <1>10, <1>11 DEF Typed, Created
<1> QED BY <1>6, <1>7, <1>9, <1>10, <1>12 DEF Typed, PeopleTypeOK

LEMMA StepTyped == ASSUME Typed, NEW w \in Workers, BeginStep(w) PROVE Typed'
<1>1. PICK q : q = [kind |-> "save", at |-> {"progress"}, set |-> Nothing]
  OBVIOUS
<1>2. q \in Demand /\ q.kind = "save" /\ Serves(q) /\ q.at = {"progress"}
  <2>1. q.kind = "save" /\ q.at = {"progress"} /\ q.set = Nothing
    BY <1>1
  <2>2. Serves(q)
    BY <2>1, Empty DEF Serves, Saves, At, Tables
  <2> QED BY <1>1, <2>1, <2>2, ServesRequest DEF Kinds
<1>3. PICK r : r = IF db["progress"] = Missing THEN [done |-> FALSE] ELSE db["progress"]
  OBVIOUS
<1>4. r \in Rows("progress") /\ r # Missing
  <2>1. [done |-> FALSE] \in [Columns["progress"] -> BOOLEAN]
    BY ColumnsOf, DoneSet
  <2>2. "progress" \in Tables /\ db["progress"] \in Rows("progress")
    BY DEF Tables, Typed, PeopleTypeOK, Member
  <2>3. CASE db["progress"] = Missing
    <3>1. r \in [Columns["progress"] -> BOOLEAN]
      BY <1>3, <2>1, <2>3
    <3> QED BY <2>2, <3>1, FullRow DEF Rows
  <2> QED BY <1>3, <2>2, <2>3
<1>5. /\ Start(w, "save", {"progress"}, Nothing, "save") /\ told' = told
      /\ db' = [db EXCEPT !["progress"] = r] /\ inst' = [inst EXCEPT ![w]["progress"] = r]
      /\ chosen' = [chosen EXCEPT !["progress"] =
                        IF "progress" \in crossed' THEN Missing
                        ELSE IF chosen["progress"] = Missing THEN r ELSE chosen["progress"]]
  BY <1>3 DEF BeginStep
<1>6. PICK m : m = [inst[w] EXCEPT !["progress"] = r]
  OBVIOUS
<1>7. m \in Member /\ m["progress"] = r
  BY <1>4, <1>6, MemberRow, MemberTyped DEF Typed, Tables
<1>8. Holds("save", q, m)
  BY <1>2, <1>4, <1>7 DEF Holds
<1>9. /\ pc' = [pc EXCEPT ![w] = "save"] /\ req' = [req EXCEPT ![w] = q] /\ inst' = [inst EXCEPT ![w] = m]
      /\ UNCHANGED <<part, tracker, logged, unlogged, told>>
  BY <1>1, <1>5, <1>6 DEF Start, Goto
<1>10. crossed \subseteq crossed' /\ crossed' \subseteq Tables \cup {"tracker"}
  BY <1>1, <1>2, <1>5, BeginTyped
<1>11. "save" \in Statements /\ Reaches("save", q.kind)
  BY <1>2 DEF Statements, Reaches
<1>12. /\ pc' \in [Workers -> Statements] /\ req' \in [Workers -> Demand]
       /\ inst' \in [Workers -> Member] /\ Served'
  BY <1>2, <1>7, <1>8, <1>9, <1>11, TypedStep
<1>13. db' \in Member /\ \A u \in Tables : db'[u] = IF u = "progress" THEN r ELSE db[u]
  <2>1. PICK n : n = db'
    OBVIOUS
  <2>2. PICK c : c = db
    OBVIOUS
  <2>3. c \in Member /\ n = [c EXCEPT !["progress"] = r] /\ "progress" \in Tables
    BY <1>5, <2>1, <2>2, MemberTyped DEF Typed, Tables
  <2>4. n \in Member /\ n["progress"] = r /\ \A u \in Tables \ {"progress"} : n[u] = c[u]
    BY <1>4, <2>3 DEF Member
  <2> QED BY <2>1, <2>2, <2>4
<1>14. PICK x : /\ x \in Rows("progress") /\ ("progress" \notin crossed' => x # Missing)
                /\ chosen' = [chosen EXCEPT !["progress"] = x]
  <2>1. chosen["progress"] \in Rows("progress") /\ Missing \in Rows("progress")
    BY DEF Typed, PeopleTypeOK, Member, Tables, Rows
  <2> QED BY <1>4, <1>5, <2>1
<1>15. chosen' \in Member /\ chosen'["progress"] = x /\ \A u \in Tables \ {"progress"} : chosen'[u] = chosen[u]
  <2>1. PICK n : n = chosen'
    OBVIOUS
  <2>2. PICK c : c = chosen
    OBVIOUS
  <2>3. c \in Member /\ n = [c EXCEPT !["progress"] = x] /\ "progress" \in Tables
    BY <1>14, <2>1, <2>2, MemberTyped DEF Typed, Tables
  <2>4. n \in Member /\ n["progress"] = x /\ \A u \in Tables \ {"progress"} : n[u] = c[u]
    BY <1>14, <2>3 DEF Member
  <2> QED BY <2>1, <2>2, <2>4
<1>16. \A v \in Workers, u \in Tables : u \in req'[v].at => u = "progress" \/ u \in req[v].at
  BY <1>2, <1>9 DEF Typed, PeopleTypeOK
<1>17. Created'
  BY <1>4, <1>10, <1>13, <1>14, <1>15, <1>16 DEF Typed, Created
<1> QED BY <1>9, <1>10, <1>12, <1>13, <1>15, <1>17 DEF Typed, PeopleTypeOK

LEMMA CreateTyped == ASSUME Typed, NEW w \in Workers, CreateComplete(w) PROVE Typed'
<1>1. PICK s : s = [done |-> TRUE]
  OBVIOUS
<1>2. s \in [{"done"} -> BOOLEAN] /\ "progress" \in Tables
  BY <1>1, DoneSet DEF Tables
<1>3. s \in Rows("progress") /\ s # Missing
  BY <1>2, ColumnsOf, FullRow DEF Rows
<1>4. Write("progress", s, s) /\ UNCHANGED <<part, tracker, logged, unlogged, crossed, told, pc, req, inst>>
  BY <1>1 DEF CreateComplete
<1>5. PICK x : /\ x \in Rows("progress") /\ ("progress" \notin crossed => x # Missing)
               /\ chosen' = [chosen EXCEPT !["progress"] = x]
  <2>1. chosen["progress"] \in Rows("progress")
    BY <1>2 DEF Typed, PeopleTypeOK, Member
  <2>2. Over(chosen["progress"], s) = s
    BY <1>2, <2>1, OverDone
  <2> QED BY <1>3, <1>4, <2>1, <2>2 DEF Write
<1>6. db' \in Member /\ \A u \in Tables : db'[u] = IF u = "progress" THEN s ELSE db[u]
  <2>1. PICK n : n = db'
    OBVIOUS
  <2>2. PICK c : c = db
    OBVIOUS
  <2>3. c \in Member /\ n = [c EXCEPT !["progress"] = s]
    BY <1>4, <2>1, <2>2, MemberTyped DEF Write, Typed
  <2>4. n \in Member /\ n["progress"] = s /\ \A u \in Tables \ {"progress"} : n[u] = c[u]
    BY <1>2, <1>3, <2>3 DEF Member
  <2> QED BY <2>1, <2>2, <2>4
<1>7. chosen' \in Member /\ chosen'["progress"] = x /\ \A u \in Tables \ {"progress"} : chosen'[u] = chosen[u]
  <2>1. PICK n : n = chosen'
    OBVIOUS
  <2>2. PICK c : c = chosen
    OBVIOUS
  <2>3. c \in Member /\ n = [c EXCEPT !["progress"] = x]
    BY <1>5, <2>1, <2>2, MemberTyped DEF Typed
  <2>4. n \in Member /\ n["progress"] = x /\ \A u \in Tables \ {"progress"} : n[u] = c[u]
    BY <1>2, <1>5, <2>3 DEF Member
  <2> QED BY <2>1, <2>2, <2>4
<1>8. Created'
  BY <1>3, <1>4, <1>5, <1>6, <1>7 DEF Typed, Created
<1>9. Served'
  BY <1>4 DEF Typed, Served
<1> QED BY <1>4, <1>6, <1>7, <1>8, <1>9 DEF Typed, PeopleTypeOK

LEMMA ArriveTyped == ASSUME Typed, NEW w \in Workers, Arrive(w) PROVE Typed'
BY LoadsTyped, WithoutTyped, StepTyped, CreateTyped DEF Arrive, Loads, Begins

-----------------------------------------------------------------------------
(* Requests that go on                                                     *)

\* A save is of one table, of a row that was loaded whole.
LEMMA SaveActs ==
    ASSUME Typed, NEW w \in Workers, Save(w)
    PROVE  \E t, r, s :
              /\ t \in Tables /\ s \in Sets(Columns[t]) /\ r \in [Columns[t] -> BOOLEAN]
              /\ req[w].at = At(t) /\ s = req[w].set /\ r = Over(inst[w][t], s) /\ db[t] # Missing
              /\ pc[w] = "save" /\ UNCHANGED <<part, tracker, logged, crossed>>
              /\ \/ /\ req[w].kind \in {"edit", "photo"}
                    /\ req[w].kind = "edit" => t = "profile"
                    /\ req[w].kind = "photo" => t = "photo"
                    /\ inst' = [inst EXCEPT ![w][t] = r] /\ Goto(w, "readProfile")
                    /\ UNCHANGED <<db, chosen, told, req, unlogged>>
                 \/ /\ Write(t, r, s) /\ Respond(w) /\ told' = FALSE
                    /\ unlogged' = unlogged \cup Given(w)
                 \/ /\ req[w].kind = "consent" /\ t = "privacy"
                    /\ Write(t, r, s) /\ Goto(w, "log")
                    /\ inst' = [inst EXCEPT ![w] = NoInst] /\ UNCHANGED <<told, req, unlogged>>
<1>1. pc[w] = "save" /\ req[w].kind \in {"edit", "photo", "save", "consent"} /\ Serves(req[w])
  BY DEF Save, Typed, Served, Reaches
<1>2. PICK t : /\ t \in Tables /\ req[w].at = At(t) /\ req[w].set \in Sets(Columns[t])
               /\ req[w].kind = "edit" => t = "profile"
               /\ req[w].kind = "photo" => t = "photo"
               /\ req[w].kind = "consent" => t = "privacy"
  BY <1>1 DEF Serves, Saves, Tables
<1>3. TableOf(w) = t
  <2>1. \A u \in Tables : u \in req[w].at <=> u = t
    BY <1>2 DEF At, Tables
  <2> QED BY <1>2, <2>1 DEF TableOf
<1>4. PICK s, r : s = req[w].set /\ r = Over(inst[w][t], s)
  OBVIOUS
<1>5. db[t] # Missing /\ inst[w][t] # Missing
  BY <1>1, <1>2 DEF At, Typed, Created, Served, Holds
<1>6. inst[w][t] \in [Columns[t] -> BOOLEAN]
  BY <1>2, <1>5, FullRow, MemberTyped DEF Typed
<1>7. r \in [Columns[t] -> BOOLEAN]
  BY <1>2, <1>4, <1>6, OverFull
<1>8. UNCHANGED <<part, tracker, logged, crossed>>
  BY DEF Save
<1>9. \/ /\ req[w].kind \in {"edit", "photo"}
         /\ inst' = [inst EXCEPT ![w][t] = r] /\ Goto(w, "readProfile")
         /\ UNCHANGED <<db, chosen, told, req, unlogged>>
      \/ /\ Write(t, r, s) /\ Respond(w) /\ told' = FALSE
         /\ unlogged' = unlogged \cup Given(w)
      \/ /\ req[w].kind = "consent"
         /\ Write(t, r, s) /\ Goto(w, "log")
         /\ inst' = [inst EXCEPT ![w] = NoInst] /\ UNCHANGED <<told, req, unlogged>>
  BY <1>3, <1>4 DEF Save
<1> QED BY <1>1, <1>2, <1>4, <1>5, <1>7, <1>8, <1>9

\* What a request gives are consents.
LEMMA GivenConsents == \A w \in Workers : Given(w) \subseteq Consents
BY DEF Given

LEMMA SaveTyped == ASSUME Typed, NEW w \in Workers, Save(w) PROVE Typed'
<1>1. PICK t, r, s :
          /\ t \in Tables /\ s \in Sets(Columns[t]) /\ r \in [Columns[t] -> BOOLEAN]
          /\ req[w].at = At(t) /\ s = req[w].set /\ r = Over(inst[w][t], s) /\ db[t] # Missing
          /\ pc[w] = "save" /\ UNCHANGED <<part, tracker, logged, crossed>>
          /\ \/ /\ req[w].kind \in {"edit", "photo"}
                /\ req[w].kind = "edit" => t = "profile"
                /\ req[w].kind = "photo" => t = "photo"
                /\ inst' = [inst EXCEPT ![w][t] = r] /\ Goto(w, "readProfile")
                /\ UNCHANGED <<db, chosen, told, req, unlogged>>
             \/ /\ Write(t, r, s) /\ Respond(w) /\ told' = FALSE
                /\ unlogged' = unlogged \cup Given(w)
             \/ /\ req[w].kind = "consent" /\ t = "privacy"
                /\ Write(t, r, s) /\ Goto(w, "log")
                /\ inst' = [inst EXCEPT ![w] = NoInst] /\ UNCHANGED <<told, req, unlogged>>
  BY SaveActs
<1>2. /\ tracker' \in Trackers /\ logged' \subseteq Consents
      /\ unlogged' \subseteq Consents
  BY <1>1, GivenConsents DEF Typed, PeopleTypeOK, Trackers
<1>3. Write(t, r, s) => Kept
  BY <1>1, WriteKeeps
<1>4. PICK q, m : q = req[w] /\ m = [inst[w] EXCEPT ![t] = r]
  OBVIOUS
<1>5. q \in Demand /\ Serves(q)
  BY <1>4 DEF Typed, PeopleTypeOK, Served
<1>6. CASE /\ req[w].kind \in {"edit", "photo"}
           /\ req[w].kind = "edit" => t = "profile"
           /\ req[w].kind = "photo" => t = "photo"
           /\ inst' = [inst EXCEPT ![w][t] = r] /\ Goto(w, "readProfile")
           /\ UNCHANGED <<db, chosen, told, req, unlogged>>
  <2>1. r \in Rows(t) /\ r # Missing
    BY <1>1, FullRow DEF Rows
  <2>2. m \in Member /\ m[t] = r
    BY <1>1, <1>4, <2>1, MemberRow, MemberTyped DEF Typed
  <2>3. Holds("readProfile", q, m) /\ Reaches("readProfile", q.kind) /\ "readProfile" \in Statements
    BY <1>4, <1>6, <2>1, <2>2 DEF Holds, Reaches, Statements
  <2>4. Kept /\ told' \in BOOLEAN
    BY <1>1, <1>6, UnchangedKeeps DEF Typed, PeopleTypeOK
  <2>5. /\ pc' = [pc EXCEPT ![w] = "readProfile"] /\ req' = [req EXCEPT ![w] = q]
        /\ inst' = [inst EXCEPT ![w] = m]
    BY <1>4, <1>6 DEF Goto, Typed, PeopleTypeOK
  <2> QED BY <1>1, <1>2, <1>4, <1>5, <2>2, <2>3, <2>4, <2>5, TypedOnward
<1>7. CASE Write(t, r, s) /\ Respond(w) /\ told' = FALSE
  BY <1>1, <1>2, <1>3, <1>7, TypedFinish
<1>8. CASE /\ req[w].kind = "consent" /\ Write(t, r, s) /\ Goto(w, "log")
           /\ inst' = [inst EXCEPT ![w] = NoInst] /\ UNCHANGED <<told, req, unlogged>>
  <2>1. Holds("log", q, NoInst) /\ Reaches("log", q.kind) /\ "log" \in Statements
    BY <1>4, <1>8 DEF Holds, Reaches, Statements
  <2>2. /\ pc' = [pc EXCEPT ![w] = "log"] /\ req' = [req EXCEPT ![w] = q]
        /\ inst' = [inst EXCEPT ![w] = NoInst] /\ told' \in BOOLEAN
    BY <1>4, <1>8 DEF Goto, Typed, PeopleTypeOK
  <2> QED BY <1>1, <1>2, <1>3, <1>4, <1>5, <1>8, <2>1, <2>2, NoInstTyped, TypedOnward
<1> QED BY <1>1, <1>6, <1>7, <1>8

LEMMA LogTyped == ASSUME Typed, NEW w \in Workers, Log(w) PROVE Typed'
<1>1. Kept
  BY UnchangedKeeps DEF Log
<1> QED BY <1>1, GivenConsents, TypedFinish DEF Log, Typed, PeopleTypeOK, Trackers

LEMMA AbortTyped == ASSUME Typed, NEW w \in Workers, Fail(w) PROVE Typed'
<1>1. Kept
  BY UnchangedKeeps DEF Fail
<1> QED BY <1>1, GivenConsents, TypedFinish DEF Fail, Typed, PeopleTypeOK, Trackers

\* A visibility is written to a row that is there.
LEMMA SettingsActs ==
    ASSUME Typed, NEW w \in Workers, pc[w] \in {"setOpen", "setShown"}
    PROVE  /\ \A t \in {"profile", "photo"} : db[t] # Missing
           /\ req[w].kind = "settings" /\ Serves(req[w])
           /\ \A c \in DOMAIN req[w].set : req[w].set[c] \in BOOLEAN
           /\ "photo" \in req[w].at /\ ("open" \in DOMAIN req[w].set => "profile" \in req[w].at)
<1>1. req[w].kind = "settings" /\ Serves(req[w])
  BY DEF Typed, Served, Reaches
<1>2. \/ req[w].at = {"profile", "photo", "tracker"} /\ req[w].set \in Sets({"open", "shown"})
      \/ req[w].at = At("photo") /\ req[w].set \in Sets(Columns["photo"])
  BY <1>1 DEF Serves, Saves
<1>3. \A c \in DOMAIN req[w].set : req[w].set[c] \in BOOLEAN
  BY <1>2, SetValues
<1>4. req[w].set \in Sets(Columns["photo"]) => "open" \notin DOMAIN req[w].set
  BY SetValues, ColumnsOf
<1>5. "photo" \in req[w].at /\ ("open" \in DOMAIN req[w].set => "profile" \in req[w].at)
  BY <1>2, <1>4 DEF At
<1> QED BY <1>1, <1>3, <1>5 DEF Typed, Created, Tables

LEMMA OpenSet == ASSUME NEW b \in BOOLEAN PROVE [open |-> b] \in Sets(Columns["profile"])
<1>1. [open |-> b] \in [{"open"} -> BOOLEAN]
  OBVIOUS
<1> QED BY <1>1, SingleSet, ColumnsOf

\* One column of a row: nothing, or a choice written over the committed row.
LEMMA SetActs ==
    ASSUME Typed, NEW w \in Workers, SetOpen(w) \/ SetShown(w)
    PROVE  \/ UNCHANGED <<db, chosen, told>>
           \/ \E t, r, s :
                 /\ t \in {"profile", "photo"} /\ t \in Tables /\ s \in Sets(Columns[t])
                 /\ r \in [Columns[t] -> BOOLEAN] /\ db[t] # Missing /\ t \in req[w].at
                 /\ r = Over(db[t], s) /\ Write(t, r, s) /\ told' = FALSE
<1>1. pc[w] \in {"setOpen", "setShown"} /\ "profile" \in Tables /\ "photo" \in Tables
  BY DEF SetOpen, SetShown, Tables
<1>2. /\ \A t \in {"profile", "photo"} : db[t] # Missing
      /\ \A c \in DOMAIN req[w].set : req[w].set[c] \in BOOLEAN
      /\ "photo" \in req[w].at /\ ("open" \in DOMAIN req[w].set => "profile" \in req[w].at)
  BY <1>1, SettingsActs
<1>3. db["profile"] \in [Columns["profile"] -> BOOLEAN] /\ db["photo"] \in [Columns["photo"] -> BOOLEAN]
  BY <1>1, <1>2, FullRow, MemberTyped DEF Typed
<1>4. CASE SetOpen(w) /\ "open" \in DOMAIN req[w].set
  <2>1. PICK b, s : b = req[w].set.open /\ s = [open |-> b] /\ b \in BOOLEAN
    BY <1>2, <1>4
  <2>2. Write("profile", Over(db["profile"], s), s) /\ told' = FALSE
    BY <1>4, <2>1 DEF SetOpen
  <2>3. s \in Sets(Columns["profile"])
    BY <2>1, OpenSet
  <2>4. Over(db["profile"], s) \in [Columns["profile"] -> BOOLEAN]
    BY <1>1, <1>3, <2>3, OverFull
  <2> QED BY <1>1, <1>2, <1>4, <2>2, <2>3, <2>4
<1>5. CASE SetShown(w) /\ DOMAIN req[w].set \cap Columns["photo"] # {}
  <2>1. PICK d, s : /\ d = DOMAIN req[w].set \cap Columns["photo"]
                    /\ s = [c \in d |-> req[w].set[c]]
    OBVIOUS
  <2>2. Write("photo", Over(db["photo"], s), s) /\ told' = FALSE
    BY <1>5, <2>1 DEF SetShown
  <2>3. s \in Sets(Columns["photo"])
    <3>1. d \in SUBSET Columns["photo"] /\ s \in [d -> BOOLEAN]
      BY <1>2, <2>1
    <3> QED BY <3>1 DEF Sets
  <2>4. Over(db["photo"], s) \in [Columns["photo"] -> BOOLEAN]
    BY <1>1, <1>3, <2>3, OverFull
  <2> QED BY <1>1, <1>2, <2>2, <2>3, <2>4
<1> QED BY <1>4, <1>5 DEF SetOpen, SetShown

LEMMA SetTyped == ASSUME Typed, NEW w \in Workers, SetOpen(w) \/ SetShown(w) PROVE Typed'
<1>1. UNCHANGED <<part, tracker, logged, unlogged, crossed>> /\ pc[w] \in {"setOpen", "setShown"}
  BY DEF SetOpen, SetShown
<1>2. Kept /\ told' \in BOOLEAN
  <2>1. CASE UNCHANGED <<db, chosen, told>>
    BY <1>1, <2>1, UnchangedKeeps DEF Typed, PeopleTypeOK
  <2>2. CASE \E t, r, s :
                 /\ t \in {"profile", "photo"} /\ t \in Tables /\ s \in Sets(Columns[t])
                 /\ r \in [Columns[t] -> BOOLEAN] /\ db[t] # Missing /\ t \in req[w].at
                 /\ r = Over(db[t], s) /\ Write(t, r, s) /\ told' = FALSE
    BY <1>1, <2>2, WriteKeeps
  <2> QED BY <2>1, <2>2, SetActs
<1>3. /\ tracker' \in Trackers /\ logged' \subseteq Consents
      /\ unlogged' \subseteq Consents
  BY <1>1 DEF Typed, PeopleTypeOK, Trackers
<1>4. CASE SetOpen(w)
  <2>1. PICK q, m : q = req[w] /\ m = inst[w]
    OBVIOUS
  <2>2. q \in Demand /\ Serves(q) /\ m \in Member /\ q.kind = "settings"
    BY <1>1, <2>1, SettingsActs DEF Typed, PeopleTypeOK
  <2>3. Holds("setShown", q, m) /\ Reaches("setShown", q.kind) /\ "setShown" \in Statements
    BY <2>2 DEF Holds, Reaches, Statements
  <2>4. /\ pc' = [pc EXCEPT ![w] = "setShown"] /\ req' = [req EXCEPT ![w] = q]
        /\ inst' = [inst EXCEPT ![w] = m]
    BY <1>4, <2>1 DEF SetOpen, Goto, Typed, PeopleTypeOK
  <2> QED BY <1>1, <1>2, <1>3, <2>1, <2>2, <2>3, <2>4, TypedOnward
<1>5. CASE SetShown(w)
  BY <1>1, <1>2, <1>3, <1>5, TypedFinish DEF SetShown
<1> QED BY <1>4, <1>5

LEMMA ReadTyped == ASSUME Typed, NEW w \in Workers, ReadProfile(w) \/ ReadPhoto(w) PROVE Typed'
<1>1. /\ UNCHANGED <<part, db, tracker, logged, unlogged, crossed, chosen, told, req>>
      /\ pc[w] \in {"readProfile", "readPhoto"}
  BY DEF ReadProfile, ReadPhoto
<1>2. PICK q : q = req[w]
  OBVIOUS
<1>3. q \in Demand /\ Serves(q) /\ q.kind \in {"edit", "photo", "refresh"} /\ Holds(pc[w], q, inst[w])
  BY <1>1, <1>2 DEF Typed, PeopleTypeOK, Served, Reaches
<1>4. Kept
  BY <1>1, UnchangedKeeps
<1>5. "profile" \in Tables /\ "photo" \in Tables
  BY DEF Tables
<1>6. db["profile"] # Missing /\ db["photo"] # Missing
  BY <1>5 DEF Typed, Created
<1>7. CASE ReadProfile(w)
  <2>1. PICK m : m = IF req[w].kind = "edit" THEN inst[w] ELSE [inst[w] EXCEPT !["profile"] = db["profile"]]
    OBVIOUS
  <2>2. /\ m \in Member /\ m["photo"] = inst[w]["photo"]
        /\ m["profile"] = IF req[w].kind = "edit" THEN inst[w]["profile"] ELSE db["profile"]
    BY <1>5, <2>1, MemberRow, MemberTyped DEF Typed
  <2>3. Holds("readPhoto", q, m) /\ Reaches("readPhoto", q.kind) /\ "readPhoto" \in Statements
    BY <1>2, <1>3, <1>6, <1>7, <2>2 DEF ReadProfile, Holds, Reaches, Statements
  <2>4. /\ pc' = [pc EXCEPT ![w] = "readPhoto"] /\ req' = [req EXCEPT ![w] = q]
        /\ inst' = [inst EXCEPT ![w] = m]
    BY <1>1, <1>2, <1>7, <2>1 DEF ReadProfile, Goto, Typed, PeopleTypeOK
  <2> QED BY <1>1, <1>2, <1>3, <1>4, <2>2, <2>3, <2>4, TypedOnward DEF Typed, PeopleTypeOK, Trackers
<1>8. CASE ReadPhoto(w)
  <2>1. PICK m : m = IF req[w].kind = "photo" THEN inst[w] ELSE [inst[w] EXCEPT !["photo"] = db["photo"]]
    OBVIOUS
  <2>2. /\ m \in Member /\ m["profile"] = inst[w]["profile"]
        /\ m["photo"] = IF req[w].kind = "photo" THEN inst[w]["photo"] ELSE db["photo"]
    BY <1>5, <2>1, MemberRow, MemberTyped DEF Typed
  <2>3. Holds("tell", q, m) /\ Reaches("tell", q.kind) /\ "tell" \in Statements
    BY <1>2, <1>3, <1>6, <1>8, <2>2 DEF ReadPhoto, Holds, Reaches, Statements
  <2>4. /\ pc' = [pc EXCEPT ![w] = "tell"] /\ req' = [req EXCEPT ![w] = q]
        /\ inst' = [inst EXCEPT ![w] = m]
    BY <1>1, <1>2, <1>8, <2>1 DEF ReadPhoto, Goto, Typed, PeopleTypeOK
  <2> QED BY <1>1, <1>2, <1>3, <1>4, <2>2, <2>3, <2>4, TypedOnward DEF Typed, PeopleTypeOK, Trackers
<1> QED BY <1>7, <1>8

\* The last statement of an edit or an upload commits the row it saved.
LEMMA TellActs ==
    ASSUME Typed, NEW w \in Workers, Tell(w)
    PROVE  /\ inst[w]["profile"] \in [Columns["profile"] -> BOOLEAN]
           /\ inst[w]["photo"] \in [Columns["photo"] -> BOOLEAN]
           /\ \/ req[w].kind = "refresh" /\ UNCHANGED <<db, chosen>>
              \/ \E t, r, s :
                    /\ t \in Tables /\ s \in Sets(Columns[t]) /\ r \in [Columns[t] -> BOOLEAN]
                    /\ db[t] # Missing /\ req[w].at = At(t) /\ s = req[w].set /\ r = inst[w][t]
                    /\ Write(t, r, s)
                    /\ \/ req[w].kind = "edit" /\ t = "profile"
                       \/ req[w].kind = "photo" /\ t = "photo"
<1>1. "profile" \in Tables /\ "photo" \in Tables
  BY DEF Tables
<1>2. /\ pc[w] = "tell" /\ req[w].kind \in {"edit", "photo", "refresh"} /\ Serves(req[w])
      /\ Holds("tell", req[w], inst[w])
  BY DEF Tell, Typed, Served, Reaches
<1>3. /\ inst[w]["profile"] \in [Columns["profile"] -> BOOLEAN]
      /\ inst[w]["photo"] \in [Columns["photo"] -> BOOLEAN]
  BY <1>1, <1>2, FullRow, MemberTyped DEF Holds, Typed
<1>4. db["profile"] # Missing /\ db["photo"] # Missing
  BY <1>1 DEF Typed, Created
<1>5. CASE req[w].kind = "edit"
  <2>1. req[w].at = At("profile") /\ req[w].set \in Sets(Columns["profile"])
    BY <1>2, <1>5 DEF Serves, Saves
  <2>2. Write("profile", inst[w]["profile"], req[w].set)
    BY <1>5 DEF Tell
  <2> QED BY <1>1, <1>3, <1>4, <1>5, <2>1, <2>2
<1>6. CASE req[w].kind = "photo"
  <2>1. req[w].at = At("photo") /\ req[w].set \in Sets(Columns["photo"])
    BY <1>2, <1>6 DEF Serves, Saves
  <2>2. Write("photo", inst[w]["photo"], req[w].set)
    BY <1>6 DEF Tell
  <2> QED BY <1>1, <1>3, <1>4, <1>6, <2>1, <2>2
<1>7. CASE req[w].kind = "refresh"
  BY <1>3, <1>7 DEF Tell
<1> QED BY <1>2, <1>5, <1>6, <1>7

LEMMA TellTyped == ASSUME Typed, NEW w \in Workers, Tell(w) PROVE Typed'
<1>1. /\ Respond(w) /\ UNCHANGED <<part, logged, unlogged, crossed>> /\ told' \in BOOLEAN
      /\ tracker' = [open |-> inst[w]["profile"].open, has |-> inst[w]["photo"].has,
                     approved |-> inst[w]["photo"].has /\ inst[w]["photo"].approved]
  BY DEF Tell, Reckon
<1>2. Kept
  BY <1>1, TellActs, UnchangedKeeps, WriteKeeps
<1>3. inst[w]["profile"].open \in BOOLEAN /\ inst[w]["photo"].has \in BOOLEAN
  BY TellActs, ColumnsOf
<1>4. tracker' \in Trackers /\ logged' \subseteq Consents /\ unlogged' \subseteq Consents
  BY <1>1, <1>3 DEF Typed, PeopleTypeOK, Trackers
<1> QED BY <1>1, <1>2, <1>4, TypedFinish

LEMMA TypedNext == Typed /\ [PeopleNext]_peopleVars => Typed'
<1> SUFFICES ASSUME Typed, [PeopleNext]_peopleVars PROVE Typed'
  OBVIOUS
<1>1. CASE UNCHANGED peopleVars
  BY <1>1 DEF peopleVars, Typed, PeopleTypeOK, Served, Created
<1> QED BY <1>1, ArriveTyped, SaveTyped, LogTyped, AbortTyped, SetTyped, ReadTyped, TellTyped DEF PeopleNext, Continue

-----------------------------------------------------------------------------
(* What was asked for stands, and the completeness tells it                *)

StandInv == Settled /\ Reckoned

LEMMA StandInit == PeopleInit => StandInv
<1> SUFFICES ASSUME PeopleInit PROVE StandInv
  OBVIOUS
<1>1. Lone /\ SettingsStand
  BY NoReqServes DEF PeopleInit, Lone, SettingsStand
<1>2. \A w \in Workers : Current(w) /\ Reading(w)
  BY DEF PeopleInit, Current, Reading
<1>3. TrackerTells
  BY DEF PeopleInit, TrackerTells
<1> QED BY <1>1, <1>2, <1>3 DEF StandInv, Settled, Reckoned

\* What has changed in the tables is of the step's own request, or was created.
Touches(w) ==
    \A t \in Tables : db'[t] # db[t] => t \in req[w].at \/ (t = "progress" /\ db[t] = Missing)

\* The step is that of worker w.
Steps(w) ==
    \A v \in Workers \ {w} : pc'[v] = pc[v] /\ req'[v] = req[v] /\ inst'[v] = inst[v]

\* A request that is at the profile or at the photo is at the completeness too.
LEMMA AtTracker ==
    ASSUME Typed, NEW w \in Workers
    PROVE  /\ "profile" \in req[w].at \/ "photo" \in req[w].at => "tracker" \in req[w].at
           /\ pc[w] \in {"readPhoto", "tell"} => "tracker" \in req[w].at
<1>1. Serves(req[w]) /\ req[w].kind \in Kinds /\ (pc[w] \in {"readPhoto", "tell"} => req[w].kind \in {"edit", "photo", "refresh"})
  BY DEF Typed, PeopleTypeOK, Served, Reaches, Demand
<1> QED BY <1>1 DEF Kinds, Serves, Saves, At, NoDemand

\* The others' rows stay as current as they were.
LEMMA OthersStand ==
    ASSUME Typed, StandInv, NEW w \in Workers, Touches(w), Steps(w), crossed \subseteq crossed'
    PROVE  \A v \in Workers \ {w} : Current(v)' /\ Reading(v)'
<1> SUFFICES ASSUME NEW v \in Workers, v # w PROVE Current(v)' /\ Reading(v)'
  OBVIOUS
<1>1. pc'[v] = pc[v] /\ req'[v] = req[v] /\ inst'[v] = inst[v]
  BY DEF Steps
<1>2. ASSUME NEW t \in Tables, t \in req[v].at, t \notin crossed PROVE db'[t] = db[t]
  BY <1>2 DEF Touches, StandInv, Settled, Lone, Typed, Created
<1>3. Current(v) /\ Reading(v)
  BY DEF StandInv, Settled, Reckoned
<1>4. Current(v)'
  BY <1>1, <1>2, <1>3 DEF Current
<1>5. ASSUME pc[v] \in {"readPhoto", "tell"}, "tracker" \notin crossed
      PROVE  db'["profile"] = db["profile"] /\ db'["photo"] = db["photo"]
  <2>1. "tracker" \notin req[w].at
    BY <1>5, AtTracker DEF StandInv, Settled, Lone
  <2>2. "profile" \notin req[w].at /\ "photo" \notin req[w].at
    BY <2>1, AtTracker
  <2> QED BY <2>2 DEF Touches, Tables
<1>6. Reading(v)'
  BY <1>1, <1>3, <1>5 DEF Reading
<1> QED BY <1>4, <1>6

\* Two requests that meet at a table cross there.
LEMMA BeginLone ==
    ASSUME Typed, Lone, NEW w \in Workers, NEW k, NEW a, NEW s, NEW l, Start(w, k, a, s, l),
           [kind |-> k, at |-> a, set |-> s] \in Demand
    PROVE  Lone' /\ crossed \subseteq crossed'
<1>1. req'[w].at = a /\ \A v \in Workers \ {w} : req'[v] = req[v]
  BY DEF Start, Typed, PeopleTypeOK
<1>2. crossed' = crossed \cup {t \in a : \E v \in Workers : t \in req[v].at}
  BY DEF Start
<1> QED BY <1>1, <1>2 DEF Lone

LEMMA OnwardLone ==
    ASSUME Lone, crossed' = crossed, \A v \in Workers : req'[v].at \subseteq req[v].at
    PROVE  Lone'
BY DEF Lone

\* A request begins, and writes nothing yet.
LEMMA BeginStands ==
    ASSUME Typed, StandInv, NEW w \in Workers, NEW k, NEW a, NEW s, NEW l, Start(w, k, a, s, l),
           [kind |-> k, at |-> a, set |-> s] \in Demand, Forget, Steps(w), l \notin {"readPhoto", "tell"},
           Current(w)'
    PROVE  StandInv'
<1>1. Lone' /\ crossed \subseteq crossed'
  BY BeginLone DEF StandInv, Settled
<1>2. db' = db /\ tracker' = tracker /\ told' = (told /\ "tracker" \notin crossed')
      /\ \A t \in Tables \ crossed' : chosen'[t] = chosen[t]
  BY <1>1, ForgetTyped DEF Forget, Start
<1>3. Touches(w)
  BY <1>2 DEF Touches
<1>4. \A v \in Workers \ {w} : Current(v)' /\ Reading(v)'
  BY <1>1, <1>3, OthersStand
<1>5. Reading(w)'
  <2>1. pc'[w] = l
    BY DEF Start, Goto, Typed, PeopleTypeOK
  <2> QED BY <2>1 DEF Reading
<1>6. SettingsStand'
  BY <1>1, <1>2 DEF StandInv, Settled, SettingsStand
<1>7. TrackerTells'
  BY <1>2 DEF StandInv, Reckoned, TrackerTells, Reckon
<1> QED BY <1>1, <1>4, <1>5, <1>6, <1>7 DEF StandInv, Settled, Reckoned

LEMMA LoadsStand == ASSUME Typed, StandInv, NEW w \in Workers, Loads(w) PROVE StandInv'
<1>1. PICK k, t, s :
          /\ k \in Kinds /\ t \in Tables
          /\ Start(w, k, At(t), s, "save") /\ Load(w, t) /\ db[t] # Missing
          /\ Reaches("save", k) /\ Serves([kind |-> k, at |-> At(t), set |-> s])
  BY LoadsOne
<1>2. [kind |-> k, at |-> At(t), set |-> s] \in Demand
  BY <1>1, ServesRequest
<1>3. Steps(w)
  BY <1>1 DEF Steps, Start, Goto, Load, Typed, PeopleTypeOK
<1>4. pc'[w] = "save" /\ req'[w].at = At(t) /\ inst'[w][t] = db[t] /\ db' = db
  BY <1>1 DEF Start, Goto, Load, Forget, Typed, PeopleTypeOK, Member
<1>5. \A u \in Tables : u \in At(t) => u = t
  BY <1>1 DEF At, Tables
<1>6. Current(w)'
  BY <1>4, <1>5 DEF Current
<1> QED BY <1>1, <1>2, <1>3, <1>6, BeginStands DEF Load

LEMMA WithoutStand == ASSUME Typed, StandInv, NEW w \in Workers, Begins(w) PROVE StandInv'
<1>1. PICK k, a, s, l :
          /\ k \in {"refresh", "settings"}
          /\ Start(w, k, a, s, l) /\ Forget /\ inst' = inst
          /\ l \in IF k = "refresh" THEN {"readProfile"} ELSE {"setOpen", "setShown"}
          /\ Serves([kind |-> k, at |-> a, set |-> s])
  BY BeginsWithout
<1>2. [kind |-> k, at |-> a, set |-> s] \in Demand
  BY <1>1, ServesRequest DEF Kinds
<1>3. Steps(w)
  BY <1>1 DEF Steps, Start, Goto, Typed, PeopleTypeOK
<1>4. pc'[w] = l /\ req'[w].at = a
  BY <1>1 DEF Start, Goto, Typed, PeopleTypeOK
<1>5. k = "refresh" => a = {"tracker"}
  BY <1>1 DEF Serves
<1>6. Current(w)'
  BY <1>1, <1>4, <1>5 DEF Current, Tables
<1> QED BY <1>1, <1>2, <1>3, <1>6, BeginStands

LEMMA StepStands == ASSUME Typed, StandInv, NEW w \in Workers, BeginStep(w) PROVE StandInv'
<1>1. PICK r : r = IF db["progress"] = Missing THEN [done |-> FALSE] ELSE db["progress"]
  OBVIOUS
<1>2. /\ Start(w, "save", {"progress"}, Nothing, "save") /\ told' = told
      /\ db' = [db EXCEPT !["progress"] = r] /\ inst' = [inst EXCEPT ![w]["progress"] = r]
      /\ chosen' = [chosen EXCEPT !["progress"] =
                        IF "progress" \in crossed' THEN Missing
                        ELSE IF chosen["progress"] = Missing THEN r ELSE chosen["progress"]]
  BY <1>1 DEF BeginStep
<1>3. Lone' /\ crossed \subseteq crossed'
  <2>1. Serves([kind |-> "save", at |-> {"progress"}, set |-> Nothing])
    BY Empty DEF Serves, Saves, At, Tables
  <2>2. [kind |-> "save", at |-> {"progress"}, set |-> Nothing] \in Demand
    BY <2>1, ServesRequest DEF Kinds
  <2> QED BY <1>2, <2>2, BeginLone DEF StandInv, Settled
<1>4. "progress" \in Tables /\ \A t \in Tables : db'[t] = IF t = "progress" THEN r ELSE db[t]
  BY <1>2 DEF Tables, Typed, PeopleTypeOK, Member
<1>5. Touches(w)
  BY <1>1, <1>4 DEF Touches
<1>6. Steps(w)
  BY <1>2 DEF Steps, Start, Goto, Typed, PeopleTypeOK
<1>7. pc'[w] = "save" /\ req'[w].at = {"progress"} /\ inst'[w]["progress"] = r
  BY <1>2, <1>4 DEF Start, Goto, Typed, PeopleTypeOK, Member
<1>8. Current(w)' /\ Reading(w)'
  BY <1>4, <1>7 DEF Current, Reading
<1>9. SettingsStand'
  <2>1. \A t \in Tables \ {"progress"} : chosen'[t] = chosen[t]
    BY <1>2 DEF Typed, PeopleTypeOK, Member
  <2>2. "progress" \notin crossed' => chosen'["progress"] = IF chosen["progress"] = Missing THEN r ELSE chosen["progress"]
    BY <1>2, <1>4 DEF Typed, PeopleTypeOK, Member
  <2>3. "progress" \notin crossed' => chosen["progress"] = db["progress"]
    BY <1>3, <1>4 DEF StandInv, Settled, SettingsStand
  <2> QED BY <1>1, <1>3, <1>4, <2>1, <2>2, <2>3 DEF StandInv, Settled, SettingsStand
<1>10. TrackerTells'
  <2>1. tracker' = tracker /\ db'["profile"] = db["profile"] /\ db'["photo"] = db["photo"]
    BY <1>2, <1>4 DEF Start, Tables
  <2> QED BY <1>2, <2>1 DEF StandInv, Reckoned, TrackerTells, Reckon
<1> QED BY <1>3, <1>5, <1>6, <1>8, <1>9, <1>10, OthersStand DEF StandInv, Settled, Reckoned

LEMMA CreateStands == ASSUME Typed, StandInv, NEW w \in Workers, CreateComplete(w) PROVE StandInv'
<1>1. PICK s : s = [done |-> TRUE]
  OBVIOUS
<1>2. s \in [{"done"} -> BOOLEAN] /\ "progress" \in Tables
  BY <1>1, DoneSet DEF Tables
<1>3. /\ Write("progress", s, s) /\ db["progress"] = Missing /\ pc[w] = "idle"
      /\ UNCHANGED <<part, tracker, logged, unlogged, crossed, told, pc, req, inst>>
  BY <1>1 DEF CreateComplete
<1>4. \A t \in Tables : db'[t] = IF t = "progress" THEN s ELSE db[t]
  BY <1>2, <1>3 DEF Write, Typed, PeopleTypeOK, Member
<1>5. Touches(w) /\ Steps(w)
  BY <1>3, <1>4 DEF Touches, Steps
<1>6. Current(w)' /\ Reading(w)'
  BY <1>3 DEF Current, Reading
<1>7. SettingsStand'
  <2>1. chosen["progress"] \in Rows("progress")
    BY <1>2, MemberTyped DEF Typed
  <2>2. Over(chosen["progress"], s) = s
    BY <1>2, <2>1, OverDone
  <2>3. \A t \in Tables : chosen'[t] = IF t = "progress" /\ t \notin crossed THEN s ELSE chosen[t]
    BY <1>2, <1>3, <2>2 DEF Write, Typed, PeopleTypeOK, Member
  <2> QED BY <1>3, <1>4, <2>3 DEF StandInv, Settled, SettingsStand
<1>8. TrackerTells'
  <2>1. db'["profile"] = db["profile"] /\ db'["photo"] = db["photo"]
    BY <1>4 DEF Tables
  <2> QED BY <1>3, <2>1 DEF StandInv, Reckoned, TrackerTells, Reckon
<1>9. Lone'
  BY <1>3, OnwardLone DEF StandInv, Settled
<1> QED BY <1>3, <1>5, <1>6, <1>7, <1>8, <1>9, OthersStand DEF StandInv, Settled, Reckoned

\* A row is written that brings the table to what the request asked for.
LEMMA WriteStands ==
    ASSUME Typed, StandInv, NEW t \in Tables, NEW r, NEW s, Write(t, r, s), crossed' = crossed,
           t \notin crossed => r = Over(db[t], s)
    PROVE  /\ SettingsStand' /\ db'[t] = r /\ \A u \in Tables \ {t} : db'[u] = db[u]
<1>1. db'[t] = r /\ \A u \in Tables \ {t} : db'[u] = db[u]
  BY DEF Write, Typed, PeopleTypeOK, Member
<1>2. \A u \in Tables : chosen'[u] = IF u = t /\ t \notin crossed THEN Over(chosen[t], s) ELSE chosen[u]
  BY DEF Write, Typed, PeopleTypeOK, Member
<1> QED BY <1>1, <1>2 DEF StandInv, Settled, SettingsStand

\* A statement of a request that goes on or ends.
LEMMA OnwardStands ==
    ASSUME Typed, StandInv, NEW w \in Workers, Steps(w), Touches(w), crossed' = crossed,
           req'[w].at \subseteq req[w].at, Current(w)', Reading(w)', SettingsStand', TrackerTells'
    PROVE  StandInv'
<1>1. \A v \in Workers : req'[v].at \subseteq req[v].at
  BY DEF Steps
<1>2. Lone'
  BY <1>1, OnwardLone DEF StandInv, Settled
<1> QED BY <1>2, OthersStand DEF StandInv, Settled, Reckoned

LEMMA FinishStands ==
    ASSUME Typed, StandInv, NEW w \in Workers, Respond(w), Touches(w), crossed' = crossed,
           SettingsStand', TrackerTells'
    PROVE  StandInv'
<1>1. Steps(w) /\ pc'[w] = "idle" /\ req'[w].at \subseteq req[w].at
  BY NoReqServes DEF Steps, Respond, Goto, Typed, PeopleTypeOK
<1>2. Current(w)' /\ Reading(w)'
  BY <1>1 DEF Current, Reading
<1> QED BY <1>1, <1>2, OnwardStands

\* Nothing is written.
LEMMA NoWriteStands ==
    ASSUME Typed, StandInv, NEW w \in Workers, UNCHANGED <<db, chosen, crossed, tracker, told>>
    PROVE  Touches(w) /\ SettingsStand' /\ TrackerTells'
BY DEF Touches, StandInv, Settled, Reckoned, SettingsStand, TrackerTells, Reckon

LEMMA SaveStands == ASSUME Typed, StandInv, NEW w \in Workers, Save(w) PROVE StandInv'
<1>1. PICK t, r, s :
          /\ t \in Tables /\ s \in Sets(Columns[t]) /\ r \in [Columns[t] -> BOOLEAN]
          /\ req[w].at = At(t) /\ s = req[w].set /\ r = Over(inst[w][t], s) /\ db[t] # Missing
          /\ pc[w] = "save" /\ UNCHANGED <<part, tracker, logged, crossed>>
          /\ \/ /\ req[w].kind \in {"edit", "photo"}
                /\ req[w].kind = "edit" => t = "profile"
                /\ req[w].kind = "photo" => t = "photo"
                /\ inst' = [inst EXCEPT ![w][t] = r] /\ Goto(w, "readProfile")
                /\ UNCHANGED <<db, chosen, told, req, unlogged>>
             \/ /\ Write(t, r, s) /\ Respond(w) /\ told' = FALSE
                /\ unlogged' = unlogged \cup Given(w)
             \/ /\ req[w].kind = "consent" /\ t = "privacy"
                /\ Write(t, r, s) /\ Goto(w, "log")
                /\ inst' = [inst EXCEPT ![w] = NoInst] /\ UNCHANGED <<told, req, unlogged>>
  BY SaveActs
<1>2. t \in req[w].at /\ \A u \in Tables : u \in req[w].at => u = t
  BY <1>1 DEF At, Tables
<1>3. t \notin crossed => r = Over(db[t], s)
  BY <1>1, <1>2 DEF StandInv, Settled, Current
<1>4. Write(t, r, s) => SettingsStand' /\ \A u \in Tables \ {t} : db'[u] = db[u]
  BY <1>1, <1>3, WriteStands
<1>5. Write(t, r, s) => Touches(w)
  BY <1>2, <1>4 DEF Touches
<1>6. CASE /\ inst' = [inst EXCEPT ![w][t] = r] /\ Goto(w, "readProfile")
           /\ UNCHANGED <<db, chosen, told, req, unlogged>>
  <2>1. Steps(w) /\ pc'[w] = "readProfile" /\ inst'[w][t] = r
    BY <1>1, <1>6 DEF Steps, Goto, Typed, PeopleTypeOK, Member
  <2>2. Current(w)' /\ Reading(w)'
    BY <1>1, <1>2, <1>3, <1>6, <2>1 DEF Current, Reading
  <2> QED BY <1>1, <1>6, <2>1, <2>2, NoWriteStands, OnwardStands
<1>7. CASE Write(t, r, s) /\ Respond(w) /\ told' = FALSE
  BY <1>1, <1>4, <1>5, <1>7, FinishStands DEF TrackerTells
<1>8. CASE /\ t = "privacy" /\ Write(t, r, s) /\ Goto(w, "log")
           /\ inst' = [inst EXCEPT ![w] = NoInst] /\ UNCHANGED <<told, req, unlogged>>
  <2>1. Steps(w) /\ pc'[w] = "log"
    BY <1>8 DEF Steps, Goto, Typed, PeopleTypeOK
  <2>2. Current(w)' /\ Reading(w)'
    BY <2>1 DEF Current, Reading
  <2>3. TrackerTells'
    <3>1. db'["profile"] = db["profile"] /\ db'["photo"] = db["photo"]
      BY <1>4, <1>8 DEF Tables
    <3> QED BY <1>1, <1>8, <3>1 DEF StandInv, Reckoned, TrackerTells, Reckon
  <2> QED BY <1>1, <1>4, <1>5, <1>8, <2>1, <2>2, <2>3, OnwardStands
<1> QED BY <1>1, <1>6, <1>7, <1>8

LEMMA EndStands == ASSUME Typed, StandInv, NEW w \in Workers, Log(w) \/ Fail(w) PROVE StandInv'
BY NoWriteStands, FinishStands DEF Log, Fail

LEMMA SetStands == ASSUME Typed, StandInv, NEW w \in Workers, SetOpen(w) \/ SetShown(w) PROVE StandInv'
<1>1. UNCHANGED <<part, tracker, logged, unlogged, crossed>> /\ pc[w] \in {"setOpen", "setShown"}
  BY DEF SetOpen, SetShown
<1>2. Touches(w) /\ SettingsStand' /\ TrackerTells'
  <2>1. CASE UNCHANGED <<db, chosen, told>>
    BY <1>1, <2>1, NoWriteStands
  <2>2. CASE ~UNCHANGED <<db, chosen, told>>
    <3>0. PICK t, r, s : /\ t \in {"profile", "photo"} /\ t \in Tables /\ t \in req[w].at
                         /\ r = Over(db[t], s) /\ Write(t, r, s) /\ told' = FALSE
      BY <2>2, SetActs
    <3>1. SettingsStand' /\ \A u \in Tables \ {t} : db'[u] = db[u]
      BY <1>1, <3>0, WriteStands
    <3> QED BY <3>0, <3>1 DEF Touches, TrackerTells
  <2> QED BY <2>1, <2>2
<1>3. CASE SetOpen(w)
  <2>1. Steps(w) /\ pc'[w] = "setShown" /\ req' = req
    BY <1>3 DEF SetOpen, Steps, Goto, Typed, PeopleTypeOK
  <2>2. Current(w)' /\ Reading(w)'
    BY <2>1 DEF Current, Reading
  <2> QED BY <1>1, <1>2, <2>1, <2>2, OnwardStands
<1>4. CASE SetShown(w)
  BY <1>1, <1>2, <1>4, FinishStands DEF SetShown
<1> QED BY <1>3, <1>4

LEMMA ReadStands == ASSUME Typed, StandInv, NEW w \in Workers, ReadProfile(w) \/ ReadPhoto(w) PROVE StandInv'
<1>1. /\ UNCHANGED <<part, db, tracker, logged, unlogged, crossed, chosen, told, req>>
      /\ pc[w] \in {"readProfile", "readPhoto"}
  BY DEF ReadProfile, ReadPhoto
<1>2. req[w].kind \in {"edit", "photo", "refresh"} /\ Serves(req[w])
  BY <1>1 DEF Typed, Served, Reaches
<1>3. \A t \in Tables : t \in req[w].at =>
             \/ req[w].kind = "edit" /\ t = "profile"
             \/ req[w].kind = "photo" /\ t = "photo"
  BY <1>2 DEF Serves, Saves, At, Tables
<1>4. Current(w) /\ Reading(w) /\ "profile" \in Tables /\ "photo" \in Tables
  BY DEF StandInv, Settled, Reckoned, Tables
<1>5. CASE ReadProfile(w)
  <2>1. /\ Steps(w) /\ pc'[w] = "readPhoto" /\ inst'[w]["photo"] = inst[w]["photo"]
        /\ inst'[w]["profile"] = IF req[w].kind = "edit" THEN inst[w]["profile"] ELSE db["profile"]
    BY <1>4, <1>5 DEF ReadProfile, Steps, Goto, Typed, PeopleTypeOK, Member
  <2>2. Current(w)'
    BY <1>1, <1>3, <1>4, <2>1 DEF Current
  <2>3. Reading(w)'
    BY <1>1, <2>1 DEF Reading
  <2> QED BY <1>1, <2>1, <2>2, <2>3, NoWriteStands, OnwardStands
<1>6. CASE ReadPhoto(w)
  <2>1. /\ Steps(w) /\ pc[w] = "readPhoto" /\ pc'[w] = "tell" /\ inst'[w]["profile"] = inst[w]["profile"]
        /\ inst'[w]["photo"] = IF req[w].kind = "photo" THEN inst[w]["photo"] ELSE db["photo"]
    BY <1>4, <1>6 DEF ReadPhoto, Steps, Goto, Typed, PeopleTypeOK, Member
  <2>2. Current(w)'
    BY <1>1, <1>3, <1>4, <2>1 DEF Current
  <2>3. Reading(w)'
    BY <1>1, <1>4, <2>1 DEF Reading
  <2> QED BY <1>1, <2>1, <2>2, <2>3, NoWriteStands, OnwardStands
<1> QED BY <1>5, <1>6

LEMMA TellStands == ASSUME Typed, StandInv, NEW w \in Workers, Tell(w) PROVE StandInv'
<1>1. /\ Respond(w) /\ UNCHANGED <<part, logged, unlogged, crossed>> /\ told' = ("tracker" \notin crossed)
      /\ tracker' = Reckon(inst[w]["profile"], inst[w]["photo"]) /\ pc[w] = "tell"
  BY DEF Tell
<1>2. Current(w) /\ Reading(w) /\ "profile" \in Tables /\ "photo" \in Tables
  BY DEF StandInv, Settled, Reckoned, Tables
<1>3. CASE req[w].kind = "refresh" /\ UNCHANGED <<db, chosen>>
  <2>1. Touches(w) /\ SettingsStand'
    BY <1>1, <1>3 DEF Touches, StandInv, Settled, SettingsStand
  <2>2. TrackerTells'
    BY <1>1, <1>2, <1>3 DEF Reading, TrackerTells, Reckon
  <2> QED BY <1>1, <2>1, <2>2, FinishStands
<1>4. ASSUME NEW t, NEW r, NEW s,
             t \in Tables, req[w].at = At(t), s = req[w].set, r = inst[w][t], Write(t, r, s),
             \/ req[w].kind = "edit" /\ t = "profile"
             \/ req[w].kind = "photo" /\ t = "photo"
      PROVE  StandInv'
  <2>1. t \notin crossed => r = Over(db[t], s)
    BY <1>1, <1>2, <1>4 DEF Current, At
  <2>2. SettingsStand' /\ db'[t] = r /\ \A u \in Tables \ {t} : db'[u] = db[u]
    BY <1>1, <1>4, <2>1, WriteStands
  <2>3. Touches(w)
    BY <1>4, <2>2 DEF Touches, At
  <2>4. "tracker" \notin crossed => db'["profile"] = inst[w]["profile"] /\ db'["photo"] = inst[w]["photo"]
    BY <1>1, <1>2, <1>4, <2>2 DEF Reading
  <2>5. TrackerTells'
    BY <1>1, <2>4 DEF TrackerTells, Reckon
  <2> QED BY <1>1, <2>2, <2>3, <2>5, FinishStands
<1> QED BY <1>3, <1>4, TellActs

LEMMA StandNext == Typed /\ StandInv /\ [PeopleNext]_peopleVars => StandInv'
<1> SUFFICES ASSUME Typed, StandInv, [PeopleNext]_peopleVars PROVE StandInv'
  OBVIOUS
<1>1. CASE UNCHANGED peopleVars
  BY <1>1 DEF peopleVars, StandInv, Settled, Reckoned, Lone, Current, Reading, SettingsStand, TrackerTells, Reckon
<1> QED BY <1>1, LoadsStand, WithoutStand, StepStands, CreateStands, SaveStands, EndStands, SetStands,
        ReadStands, TellStands DEF PeopleNext, Arrive, Continue, Loads, Begins

-----------------------------------------------------------------------------
(* Consents have a record                                                  *)

LEMMA RecalledInit == PeopleInit => Recalled
<1> SUFFICES ASSUME PeopleInit PROVE Recalled
  OBVIOUS
<1>1. "privacy" \in Tables /\ \A c \in Consents : c \in Columns["privacy"] /\ c \notin {"shown", "approved"}
  BY ColumnsOf DEF Tables, Consents
<1>2. \A c \in Consents : ~db["privacy"][c]
  BY <1>1 DEF PeopleInit, Fresh
<1> QED BY <1>2 DEF PeopleInit, Recalled

\* What was recorded stays recorded.
LEMMA RecordStays ==
    ASSUME NEW w \in Workers, Steps(w), logged \subseteq logged', unlogged \subseteq unlogged',
           pc[w] = "log" => Given(w) \subseteq logged' \cup unlogged',
           NEW c, Recorded(c)
    PROVE  Recorded(c)'
<1>1. CASE c \in logged \cup unlogged
  BY <1>1 DEF Recorded
<1>2. ASSUME NEW v \in Workers, pc[v] = "log", c \in Given(v) PROVE Recorded(c)'
  <2>1. CASE v = w
    BY <1>2, <2>1 DEF Recorded
  <2>2. CASE v # w
    BY <1>2, <2>2 DEF Recorded, Steps, Given
  <2> QED BY <2>1, <2>2
<1> QED BY <1>1, <1>2 DEF Recorded

\* Steps that leave the privacy row and load it, if at all, as it stands.
LEMMA RecallStep ==
    ASSUME Recalled, NEW w \in Workers, Steps(w), logged \subseteq logged', unlogged \subseteq unlogged',
           pc[w] = "log" => Given(w) \subseteq logged' \cup unlogged',
           db'["privacy"] = db["privacy"],
           pc'[w] = "save" /\ "privacy" \in req'[w].at => inst'[w]["privacy"] = db["privacy"]
    PROVE  Recalled'
<1>1. \A c : Recorded(c) => Recorded(c)'
  BY RecordStays
<1>2. ASSUME NEW c \in Consents, NEW v \in Workers, pc'[v] = "save", "privacy" \in req'[v].at,
             inst'[v]["privacy"][c]
      PROVE  Recorded(c)
  BY <1>2 DEF Recalled, Steps
<1> QED BY <1>1, <1>2 DEF Recalled

\* A request ends, or goes on, without the privacy row.
LEMMA RecallEnd ==
    ASSUME Typed, Recalled, NEW w \in Workers, Respond(w), logged \subseteq logged', unlogged \subseteq unlogged',
           pc[w] = "log" => Given(w) \subseteq logged' \cup unlogged',
           db'["privacy"] = db["privacy"]
    PROVE  Recalled'
<1>1. Steps(w) /\ pc'[w] = "idle"
  BY DEF Steps, Respond, Goto, Typed, PeopleTypeOK
<1> QED BY <1>1, RecallStep

LEMMA ArriveRecalls == ASSUME Typed, Recalled, NEW w \in Workers, Arrive(w) PROVE Recalled'
<1>1. CASE Loads(w)
  <2>1. PICK k, t, s :
          /\ k \in Kinds /\ t \in Tables
          /\ Start(w, k, At(t), s, "save") /\ Load(w, t) /\ db[t] # Missing
          /\ Reaches("save", k) /\ Serves([kind |-> k, at |-> At(t), set |-> s])
    BY <1>1, LoadsOne
  <2>2. /\ Steps(w) /\ pc[w] = "idle" /\ req'[w].at = At(t) /\ inst'[w][t] = db[t]
        /\ UNCHANGED <<db, logged, unlogged>>
    BY <2>1 DEF Start, Goto, Load, Forget, Steps, Typed, PeopleTypeOK, Member
  <2>3. "privacy" \in At(t) => t = "privacy"
    BY DEF At
  <2> QED BY <2>2, <2>3, RecallStep
<1>2. CASE Begins(w)
  <2>1. PICK k, a, s, l :
          /\ k \in {"refresh", "settings"}
          /\ Start(w, k, a, s, l) /\ Forget /\ inst' = inst
          /\ l \in IF k = "refresh" THEN {"readProfile"} ELSE {"setOpen", "setShown"}
          /\ Serves([kind |-> k, at |-> a, set |-> s])
    BY <1>2, BeginsWithout
  <2>2. Steps(w) /\ pc[w] = "idle" /\ pc'[w] # "save" /\ UNCHANGED <<db, logged, unlogged>>
    BY <2>1 DEF Start, Goto, Forget, Steps, Typed, PeopleTypeOK
  <2> QED BY <2>2, RecallStep
<1>3. CASE BeginStep(w)
  <2>1. PICK r : /\ Start(w, "save", {"progress"}, Nothing, "save")
                 /\ db' = [db EXCEPT !["progress"] = r] /\ inst' = [inst EXCEPT ![w]["progress"] = r]
    BY <1>3 DEF BeginStep
  <2>2. /\ Steps(w) /\ pc[w] = "idle" /\ req'[w].at = {"progress"} /\ db'["privacy"] = db["privacy"]
        /\ UNCHANGED <<logged, unlogged>>
    BY <2>1 DEF Start, Goto, Steps, Typed, PeopleTypeOK, Member, Tables
  <2> QED BY <2>2, RecallStep
<1>4. CASE CreateComplete(w)
  <2>1. /\ Steps(w) /\ pc[w] = "idle" /\ pc'[w] = "idle" /\ UNCHANGED <<logged, unlogged>>
        /\ db'["privacy"] = db["privacy"]
    BY <1>4 DEF CreateComplete, Write, Steps, Typed, PeopleTypeOK, Member, Tables
  <2> QED BY <2>1, RecallStep
<1> QED BY <1>1, <1>2, <1>3, <1>4 DEF Arrive, Loads, Begins

\* A consent that a save leaves on is one the request gives, or one it had loaded.
LEMMA SaveRecalls == ASSUME Typed, Recalled, NEW w \in Workers, Save(w) PROVE Recalled'
<1>1. PICK t, r, s :
          /\ t \in Tables /\ s \in Sets(Columns[t]) /\ r \in [Columns[t] -> BOOLEAN]
          /\ req[w].at = At(t) /\ s = req[w].set /\ r = Over(inst[w][t], s) /\ db[t] # Missing
          /\ pc[w] = "save" /\ UNCHANGED <<part, tracker, logged, crossed>>
          /\ \/ /\ req[w].kind \in {"edit", "photo"}
                /\ req[w].kind = "edit" => t = "profile"
                /\ req[w].kind = "photo" => t = "photo"
                /\ inst' = [inst EXCEPT ![w][t] = r] /\ Goto(w, "readProfile")
                /\ UNCHANGED <<db, chosen, told, req, unlogged>>
             \/ /\ Write(t, r, s) /\ Respond(w) /\ told' = FALSE
                /\ unlogged' = unlogged \cup Given(w)
             \/ /\ req[w].kind = "consent" /\ t = "privacy"
                /\ Write(t, r, s) /\ Goto(w, "log")
                /\ inst' = [inst EXCEPT ![w] = NoInst] /\ UNCHANGED <<told, req, unlogged>>
  BY SaveActs
<1>2. CASE /\ inst' = [inst EXCEPT ![w][t] = r] /\ Goto(w, "readProfile")
           /\ UNCHANGED <<db, chosen, told, req, unlogged>>
  <2>1. Steps(w) /\ pc'[w] = "readProfile"
    BY <1>2 DEF Steps, Goto, Typed, PeopleTypeOK
  <2> QED BY <1>1, <1>2, <2>1, RecallStep
<1>3. CASE t # "privacy" /\ Write(t, r, s) /\ Respond(w) /\ unlogged' = unlogged \cup Given(w)
  <2>1. db'["privacy"] = db["privacy"]
    BY <1>3 DEF Write, Typed, PeopleTypeOK, Member, Tables
  <2> QED BY <1>1, <1>3, <2>1, RecallEnd
<1>4. ASSUME t = "privacy", Write(t, r, s), Steps(w), pc'[w] # "save", logged' = logged,
             unlogged \subseteq unlogged', \A c \in Given(w) : Recorded(c)'
      PROVE  Recalled'
  <2>1. db'["privacy"] = r /\ pc[w] # "log"
    BY <1>1, <1>4 DEF Write, Typed, PeopleTypeOK, Member
  <2>2. \A c : Recorded(c) => Recorded(c)'
    BY <1>4, <2>1, RecordStays
  <2>3. ASSUME NEW c \in Consents, r[c] PROVE Recorded(c)'
    <3>1. CASE c \in DOMAIN s
      <4>1. r[c] = s[c]
        BY <1>1, <3>1 DEF Over
      <4>2. c \in Given(w)
        BY <1>1, <2>3, <3>1, <4>1 DEF Given
      <4> QED BY <1>4, <4>2
    <3>2. CASE c \notin DOMAIN s
      <4>1. r[c] = inst[w][t][c]
        <5>1. c \in DOMAIN r
          BY <1>1, <1>4, ColumnsOf DEF Consents
        <5>2. c \in DOMAIN inst[w][t] \cup DOMAIN s
          BY <1>1, <5>1 DEF Over
        <5> QED BY <1>1, <3>2, <5>2 DEF Over
      <4>2. "privacy" \in req[w].at
        BY <1>1, <1>4 DEF At
      <4>3. Recorded(c)
        BY <1>1, <1>4, <2>3, <4>1, <4>2 DEF Recalled
      <4> QED BY <2>2, <4>3
    <3> QED BY <3>1, <3>2
  <2>4. ASSUME NEW c \in Consents, NEW v \in Workers, pc'[v] = "save", "privacy" \in req'[v].at,
               inst'[v]["privacy"][c]
        PROVE  Recorded(c)'
    <3>1. v # w
      BY <1>4, <2>4
    <3>2. Recorded(c)
      BY <1>4, <2>4, <3>1 DEF Recalled, Steps
    <3> QED BY <2>2, <3>2
  <2> QED BY <2>1, <2>3, <2>4 DEF Recalled
\* The administrators' form counts as given without an entry.
<1>5. CASE t = "privacy" /\ Write(t, r, s) /\ Respond(w) /\ unlogged' = unlogged \cup Given(w)
  <2>1. Steps(w) /\ pc'[w] = "idle"
    BY <1>5 DEF Steps, Respond, Goto, Typed, PeopleTypeOK
  <2>2. \A c \in Given(w) : Recorded(c)'
    BY <1>5 DEF Recorded
  <2> QED BY <1>1, <1>4, <1>5, <2>1, <2>2
\* A member's own request makes its entry next.
<1>6. CASE /\ t = "privacy" /\ Write(t, r, s) /\ Goto(w, "log")
           /\ inst' = [inst EXCEPT ![w] = NoInst] /\ UNCHANGED <<told, req, unlogged>>
  <2>1. Steps(w) /\ pc'[w] = "log" /\ req' = req
    BY <1>6 DEF Steps, Goto, Typed, PeopleTypeOK
  <2>2. \A c \in Given(w) : Recorded(c)'
    BY <2>1 DEF Recorded, Given
  <2> QED BY <1>1, <1>4, <1>6, <2>1, <2>2
<1> QED BY <1>1, <1>2, <1>3, <1>5, <1>6

LEMMA SetRecalls == ASSUME Typed, Recalled, NEW w \in Workers, SetOpen(w) \/ SetShown(w) PROVE Recalled'
<1>1. /\ UNCHANGED <<part, tracker, logged, unlogged, crossed>> /\ pc[w] \in {"setOpen", "setShown"}
      /\ (Goto(w, "setShown") /\ UNCHANGED <<req, inst>>) \/ Respond(w)
  BY DEF SetOpen, SetShown
<1>2. db'["privacy"] = db["privacy"]
  <2>1. CASE UNCHANGED <<db, chosen, told>>
    BY <2>1
  <2>2. CASE ~UNCHANGED <<db, chosen, told>>
    <3>1. PICK t, r, s : /\ t \in {"profile", "photo"} /\ t \in Tables
                         /\ r = Over(db[t], s) /\ Write(t, r, s) /\ told' = FALSE
      BY <2>2, SetActs
    <3> QED BY <3>1 DEF Write, Typed, PeopleTypeOK, Member, Tables
  <2> QED BY <2>1, <2>2
<1>3. Steps(w) /\ pc'[w] # "save"
  BY <1>1 DEF Steps, Goto, Respond, Typed, PeopleTypeOK
<1> QED BY <1>1, <1>2, <1>3, RecallStep

LEMMA ReadRecalls == ASSUME Typed, Recalled, NEW w \in Workers, ReadProfile(w) \/ ReadPhoto(w) PROVE Recalled'
<1>1. Steps(w) /\ pc'[w] # "save"
  BY DEF ReadProfile, ReadPhoto, Steps, Goto, Typed, PeopleTypeOK
<1> QED BY <1>1, RecallStep DEF ReadProfile, ReadPhoto

LEMMA TellRecalls == ASSUME Typed, Recalled, NEW w \in Workers, Tell(w) PROVE Recalled'
<1>1. db'["privacy"] = db["privacy"]
  <2>1. CASE db' = db
    BY <2>1
  <2>2. CASE db' # db
    <3>1. PICK t, r, s : t \in {"profile", "photo"} /\ Write(t, r, s)
      BY <2>2, TellActs
    <3> QED BY <3>1 DEF Write, Typed, PeopleTypeOK, Member, Tables
  <2> QED BY <2>1, <2>2
<1> QED BY <1>1, RecallEnd DEF Tell

LEMMA RecalledNext == Typed /\ Recalled /\ [PeopleNext]_peopleVars => Recalled'
<1> SUFFICES ASSUME Typed, Recalled, [PeopleNext]_peopleVars PROVE Recalled'
  OBVIOUS
<1>1. CASE UNCHANGED peopleVars
  BY <1>1 DEF peopleVars, Recalled, Recorded, Given
<1>2. ASSUME NEW w \in Workers, Log(w) PROVE Recalled'
  BY <1>2, RecallEnd DEF Log
<1>3. ASSUME NEW w \in Workers, Fail(w) PROVE Recalled'
  BY <1>3, RecallEnd DEF Fail
<1> QED BY <1>1, <1>2, <1>3, ArriveRecalls, SaveRecalls, SetRecalls, ReadRecalls, TellRecalls DEF PeopleNext, Continue

-----------------------------------------------------------------------------
(* Theorems                                                                *)

\* Every reachable state has the model's types: no save of a whole row leaves a
\* column out, however the requests of a member interleave and fail.
THEOREM PeopleTypeCorrect == PeopleSpec => []PeopleTypeOK
<1>1. PeopleSpec => []Typed
  BY TypedInit, TypedNext, PTL DEF PeopleSpec
<1>2. Typed => PeopleTypeOK
  BY DEF Typed
<1> QED BY <1>1, <1>2, PTL

\* A table that no two requests were at together holds in every column what was
\* asked for last, whatever happens at the other tables and however requests
\* fail (ProfileService, PrivacyService, the onboarding and consent serializers).
THEOREM WhatWasAskedStands == PeopleSpec => []SettingsStand
<1>1. PeopleSpec => [](Typed /\ StandInv)
  BY TypedInit, TypedNext, StandInit, StandNext, PTL DEF PeopleSpec
<1>2. Typed /\ StandInv => SettingsStand
  BY DEF StandInv, Settled
<1> QED BY <1>1, <1>2, PTL

\* A recalculation that nothing overlapped tells what the profile and the photo
\* show, up to the next save that does not recalculate
\* (ProfileCompletenessService.calculate_completeness).
THEOREM CompletenessTells == PeopleSpec => []TrackerTells
<1>1. PeopleSpec => [](Typed /\ StandInv)
  BY TypedInit, TypedNext, StandInit, StandNext, PTL DEF PeopleSpec
<1>2. Typed /\ StandInv => TrackerTells
  BY DEF StandInv, Reckoned
<1> QED BY <1>1, <1>2, PTL

\* However requests overlap and fail, a consent that is on was given by a request
\* that logs it or died before it could, or by an administrator's form: no stale
\* save brings one about (ConsentUpdateSerializer.save, PrivacyProfileAdmin).
THEOREM ConsentsWereGiven == PeopleSpec => []ConsentHasRecord
<1>1. PeopleSpec => [](Typed /\ Recalled)
  BY TypedInit, TypedNext, RecalledInit, RecalledNext, PTL DEF PeopleSpec
<1>2. Typed /\ Recalled => ConsentHasRecord
  BY DEF Recalled, Recorded, ConsentHasRecord
<1> QED BY <1>1, <1>2, PTL

=============================================================================
