--------------------------- MODULE SessionsProofs ---------------------------
(***************************************************************************)
(* Proofs about Sessions: how often a token or code can be used, that no   *)
(* session gets another's token, that none that ended begins again, and    *)
(* that requests one after the other keep tokens and sessions in step, for *)
(* any numbers of users, tokens, sessions, codes and workers.              *)
(***************************************************************************)
EXTENDS Sessions, FiniteSetTheorems, TLAPS

\* What a statement relies on its request to carry.
Carries(l, q) ==
    /\ l # "idle" => q \in Request
    /\ l = "issue" => \/ q.op = "login" /\ q.from = NoToken
                      \/ q.op = "exchange" /\ q.from \in Codes
                      \/ q.op = "refresh" /\ q.from \in Tokens
    /\ l = "insertSession" => q.op = "login" \/ (q.op = "exchange" /\ q.from \in Codes)
    /\ l \in {"insertSession", "dropCode", "findSession", "moveSession"} => q.new \in Tokens
    /\ l \in {"markUsed", "dropCode"} => q.op = "exchange" /\ q.from \in Codes
    /\ l = "blacklist" => q.op \in {"refresh", "logout"}
    /\ l \in {"checkUser", "findSession", "moveSession"} => q.op = "refresh"
    /\ l \in {"checkUser", "blacklist", "findSession", "moveSession", "endSession"} => q.from \in Tokens

Carried == \A w \in Workers : Carries(pc[w], req[w])

Typed == TypeOK /\ Carried

-----------------------------------------------------------------------------
LEMMA NoRowApart == NoRow \notin SessionRow /\ NoEntry \notin Entry
BY UsersAssumption DEF NoRow, SessionRow, NoEntry, Entry

LEMMA TypedInit == Init => Typed
BY DEF Init, Typed, TypeOK, Carried, Carries, Labels, NoReq

\* A worker's part of the invariant, from the label and request it goes on with.
LEMMA TypedStep ==
    ASSUME Typed, NEW w \in Workers, NEW l \in Labels, NEW q \in Request \cup {NoReq},
           pc' = [pc EXCEPT ![w] = l], req' = [req EXCEPT ![w] = q], Carries(l, q)
    PROVE  pc' \in [Workers -> Labels] /\ req' \in [Workers -> Request \cup {NoReq}] /\ Carried'
BY DEF Typed, TypeOK, Carried

LEMMA LoadedTyped ==
    ASSUME Typed, NEW S \in SUBSET Sessions, \A s \in S : Exists(s)
    PROVE  Loaded(S) \in SUBSET Instance
BY DEF Typed, TypeOK, Loaded, Exists, Instance, SessionRow

LEMMA ActiveExist == ASSUME Typed, NEW u \in Users, NEW s \in Sessions, ses[s].user = u PROVE Exists(s)
BY UsersAssumption DEF Exists, NoRow

LEMMA TypedFinish ==
    ASSUME Typed, NEW w \in Workers, Finish(w)
    PROVE  /\ pc' \in [Workers -> Labels] /\ req' \in [Workers -> Request \cup {NoReq}]
           /\ todo' \in [Workers -> SUBSET Instance] /\ Carried'
BY DEF Typed, TypeOK, Carried, Finish, Labels, Carries

LEMMA BeginLoginTyped == ASSUME Typed, NEW w \in Workers, BeginLogin(w) PROVE Typed'
<1>1. PICK u \in Users : Begin(w, "login", u, NoToken)
  BY DEF BeginLogin
<1> DEFINE q == [op |-> "login", user |-> u, from |-> NoToken, new |-> NoToken]
<1>2. q \in Request /\ Carries("issue", q) /\ "issue" \in Labels
  BY <1>1 DEF Request, AllOps, Carries, Labels
<1>3. pc' = [pc EXCEPT ![w] = "issue"] /\ req' = [req EXCEPT ![w] = q] /\ calm' \in BOOLEAN
  BY <1>1 DEF BeginLogin, Begin, Goto, Typed, TypeOK
<1> HIDE DEF q
<1> QED BY <1>2, <1>3, TypedStep DEF BeginLogin, tables, issue, Typed, TypeOK

LEMMA BeginExchangeTyped == ASSUME Typed, NEW w \in Workers, BeginExchange(w) PROVE Typed'
<1>1. PICK c \in Codes : code[c].state = "unused" /\ Begin(w, "exchange", code[c].user, c)
  BY DEF BeginExchange
<1>0. code[c].user \in Users
  BY <1>1 DEF Typed, TypeOK, Entry, NoEntry
<1> DEFINE q == [op |-> "exchange", user |-> code[c].user, from |-> c, new |-> NoToken]
<1>2. q \in Request /\ Carries("markUsed", q) /\ "markUsed" \in Labels
  BY <1>0, <1>1 DEF Request, AllOps, Carries, Labels
<1>3. pc' = [pc EXCEPT ![w] = "markUsed"] /\ req' = [req EXCEPT ![w] = q] /\ calm' \in BOOLEAN
  BY <1>1 DEF BeginExchange, Begin, Goto, Typed, TypeOK
<1> HIDE DEF q
<1> QED BY <1>2, <1>3, TypedStep DEF BeginExchange, tables, issue, Typed, TypeOK

LEMMA BeginRefreshTyped == ASSUME Typed, NEW w \in Workers, BeginRefresh(w) PROVE Typed'
<1>1. PICK t \in held : Accepted(t) /\ Begin(w, "refresh", owner[t], t)
  BY DEF BeginRefresh
<1>0. t \in Tokens /\ owner[t] \in Users
  BY <1>1 DEF Typed, TypeOK, Accepted, Issued
<1> DEFINE q == [op |-> "refresh", user |-> owner[t], from |-> t, new |-> NoToken]
<1>2. q \in Request /\ Carries("checkUser", q) /\ "checkUser" \in Labels
  BY <1>0, <1>1 DEF Request, AllOps, Carries, Labels
<1>3. pc' = [pc EXCEPT ![w] = "checkUser"] /\ req' = [req EXCEPT ![w] = q] /\ calm' \in BOOLEAN
  BY <1>1 DEF BeginRefresh, Begin, Goto, Typed, TypeOK
<1> HIDE DEF q
<1> QED BY <1>2, <1>3, TypedStep DEF BeginRefresh, tables, issue, Typed, TypeOK

LEMMA BeginLogoutTyped == ASSUME Typed, NEW w \in Workers, BeginLogout(w) PROVE Typed'
<1>1. PICK t \in held : Accepted(t) /\ Begin(w, "logout", owner[t], t)
  BY DEF BeginLogout
<1>0. t \in Tokens /\ owner[t] \in Users
  BY <1>1 DEF Typed, TypeOK, Accepted, Issued
<1> DEFINE q == [op |-> "logout", user |-> owner[t], from |-> t, new |-> NoToken]
<1>2. q \in Request /\ Carries("blacklist", q) /\ "blacklist" \in Labels
  BY <1>0, <1>1 DEF Request, AllOps, Carries, Labels
<1>3. pc' = [pc EXCEPT ![w] = "blacklist"] /\ req' = [req EXCEPT ![w] = q] /\ calm' \in BOOLEAN
  BY <1>1 DEF BeginLogout, Begin, Goto, Typed, TypeOK
<1> HIDE DEF q
<1> QED BY <1>2, <1>3, TypedStep DEF BeginLogout, tables, issue, Typed, TypeOK

\* The statements that go on with the request they serve, and change tables.
LEMMA OnwardTyped ==
    ASSUME Typed, NEW w \in Workers, NEW l \in Labels, pc' = [pc EXCEPT ![w] = l], req' = req,
           Carries(l, req[w])
    PROVE  pc' \in [Workers -> Labels] /\ req' \in [Workers -> Request \cup {NoReq}] /\ Carried'
BY DEF Typed, TypeOK, Carried

LEMMA MarkUsedTyped == ASSUME Typed, NEW w \in Workers, MarkUsed(w) PROVE Typed'
<1>1. pc[w] = "markUsed" /\ pc' = [pc EXCEPT ![w] = "issue"] /\ req' = req
  BY DEF MarkUsed, Goto
<1>2. Carries("issue", req[w]) /\ "issue" \in Labels /\ req[w] \in Request /\ req[w].from \in Codes
  BY <1>1 DEF Typed, Carried, Carries, Labels
<1>3. req[w].user \in Users
  BY <1>2 DEF Request
<1>4. code' \in [Codes -> Entry \cup {NoEntry}]
  BY <1>2, <1>3 DEF MarkUsed, Typed, TypeOK, Entry
<1> QED BY <1>1, <1>2, <1>4, OnwardTyped DEF MarkUsed, issue, Typed, TypeOK

\* Which token is issued, to whom, and where the request goes on.
IssueOf(w, t, l) ==
    /\ ~Issued(t)
    /\ owner' = [owner EXCEPT ![t] = req[w].user]
    /\ source' = [source EXCEPT ![t] = req[w].from]
    /\ root' = [root EXCEPT ![t] = IF req[w].op = "refresh" THEN root[req[w].from] ELSE t]
    /\ req' = [req EXCEPT ![w] = [req[w] EXCEPT !.new = t]]
    /\ pc' = [pc EXCEPT ![w] = l]
    /\ l = IF req[w].op = "refresh" THEN "findSession" ELSE "insertSession"

LEMMA IssueIs == ASSUME NEW w \in Workers, Issue(w) PROVE \E t \in Tokens : \E l \in Labels : IssueOf(w, t, l)
<1> DEFINE l == IF req[w].op = "refresh" THEN "findSession" ELSE "insertSession"
<1>1. l \in Labels
  BY DEF Labels
<1> QED BY <1>1 DEF Issue, IssueOf, Goto

LEMMA IssueTyped == ASSUME Typed, NEW w \in Workers, Issue(w) PROVE Typed'
<1>1. PICK t \in Tokens : \E l \in Labels : IssueOf(w, t, l)
  BY IssueIs
<1>2. PICK l \in Labels : IssueOf(w, t, l)
  BY <1>1
<1> DEFINE q == [req[w] EXCEPT !.new = t]
<1>3. pc[w] = "issue" /\ req[w] \in Request /\ UNCHANGED <<enabled, black, ses, code, held, todo, calm>>
  BY DEF Issue, Typed, Carried, Carries
<1>4. req[w].from \in Tokens \cup Codes \cup {NoToken} /\ req[w].user \in Users
  BY <1>3 DEF Request
<1>5. q \in Request /\ Carries(l, q)
  BY <1>2, <1>3 DEF IssueOf, Request, Typed, Carried, Carries
<1>6. req[w].op = "refresh" => req[w].from \in Tokens
  BY <1>3 DEF Typed, Carried, Carries
<1>7. pc' = [pc EXCEPT ![w] = l] /\ req' = [req EXCEPT ![w] = q]
  BY <1>2 DEF IssueOf
<1> HIDE DEF q
<1>8. /\ owner' \in [Tokens -> Users \cup {NoUser}] /\ source' \in [Tokens -> Tokens \cup Codes \cup {NoToken}]
      /\ root' \in [Tokens -> Tokens \cup {NoToken}]
  BY <1>2, <1>4, <1>6 DEF IssueOf, Typed, TypeOK
<1> QED BY <1>3, <1>5, <1>7, <1>8, TypedStep DEF Typed, TypeOK

LEMMA InsertSessionTyped == ASSUME Typed, NEW w \in Workers, InsertSession(w) PROVE Typed'
<1>1. pc[w] = "insertSession" /\ UNCHANGED <<enabled, owner, black, code, issue, calm>>
  BY DEF InsertSession
<1>2. req[w] \in Request /\ req[w].new \in Tokens
  BY <1>1 DEF Typed, Carried, Carries
<1>3. req[w].user \in Users
  BY <1>2 DEF Request
<1>4. ses' \in [Sessions -> SessionRow \cup {NoRow}]
  BY <1>2, <1>3 DEF InsertSession, Typed, TypeOK, SessionRow
<1>5. CASE Deliver(w)
  BY <1>1, <1>2, <1>4, <1>5, TypedFinish DEF Deliver, Typed, TypeOK, issue
<1>6. CASE req[w].op = "exchange" /\ Goto(w, "dropCode") /\ UNCHANGED <<held, req, todo>>
  <2>1. Carries("dropCode", req[w]) /\ "dropCode" \in Labels
    BY <1>1, <1>2, <1>6 DEF Typed, Carried, Carries, Labels
  <2> QED BY <1>1, <1>4, <1>6, <2>1, OnwardTyped DEF Goto, Typed, TypeOK, issue
<1> QED BY <1>5, <1>6 DEF InsertSession

LEMMA DropCodeTyped == ASSUME Typed, NEW w \in Workers, DropCode(w) PROVE Typed'
<1>1. req[w].new \in Tokens
  BY DEF DropCode, Typed, Carried, Carries
<1>2. code' \in [Codes -> Entry \cup {NoEntry}]
  BY DEF DropCode, Typed, TypeOK
<1> QED BY <1>1, <1>2, TypedFinish DEF DropCode, Deliver, Typed, TypeOK, issue

LEMMA CheckUserTyped == ASSUME Typed, NEW w \in Workers, CheckUser(w) PROVE Typed'
<1>1. pc[w] = "checkUser" /\ UNCHANGED <<tables, issue, held, calm>>
  BY DEF CheckUser
<1>2. CASE Finish(w)
  BY <1>1, <1>2, TypedFinish DEF tables, issue, Typed, TypeOK
<1>3. CASE Goto(w, "blacklist") /\ UNCHANGED <<req, todo>>
  <2>1. Carries("blacklist", req[w]) /\ "blacklist" \in Labels
    BY <1>1 DEF Typed, Carried, Carries, Labels
  <2> QED BY <1>1, <1>3, <2>1, OnwardTyped DEF Goto, tables, issue, Typed, TypeOK
<1> QED BY <1>2, <1>3 DEF CheckUser

LEMMA BlacklistTyped == ASSUME Typed, NEW w \in Workers, Blacklist(w) PROVE Typed'
<1> DEFINE l == IF req[w].op = "refresh" THEN "issue" ELSE "endSession"
<1>1. l \in Labels /\ Carries(l, req[w]) /\ req[w].from \in Tokens
  BY DEF Blacklist, Typed, Carried, Carries, Labels
<1>2. pc' = [pc EXCEPT ![w] = l] /\ req' = req
  BY DEF Blacklist, Goto
<1> HIDE DEF l
<1> QED BY <1>1, <1>2, OnwardTyped DEF Blacklist, issue, Typed, TypeOK

LEMMA FindSessionTyped == ASSUME Typed, NEW w \in Workers, FindSession(w) PROVE Typed'
<1>1. pc[w] = "findSession" /\ UNCHANGED <<tables, issue, calm>> /\ req[w].new \in Tokens /\ req[w].user \in Users
  BY DEF FindSession, Typed, Carried, Carries, Request
<1>2. CASE Deliver(w)
  BY <1>1, <1>2, TypedFinish DEF Deliver, tables, issue, Typed, TypeOK
<1>3. CASE ~Deliver(w)
  <2>1. PICK s \in ActiveOf(req[w].user) : todo' = [todo EXCEPT ![w] = Loaded({s})]
    BY <1>3 DEF FindSession
  <2>2. pc' = [pc EXCEPT ![w] = "moveSession"] /\ UNCHANGED <<held, req>>
    BY <1>3 DEF FindSession, Goto
  <2>3. Loaded({s}) \in SUBSET Instance
    BY <1>1, <2>1, LoadedTyped, ActiveExist DEF ActiveOf
  <2>4. Carries("moveSession", req[w]) /\ "moveSession" \in Labels
    BY <1>1 DEF Typed, Carried, Carries, Labels
  <2>5. todo' \in [Workers -> SUBSET Instance]
    BY <2>1, <2>3 DEF Typed, TypeOK
  <2> QED BY <1>1, <2>2, <2>4, <2>5, OnwardTyped DEF tables, issue, Typed, TypeOK
<1> QED BY <1>2, <1>3

LEMMA MoveSessionTyped == ASSUME Typed, NEW w \in Workers, MoveSession(w) PROVE Typed'
<1>1. pc[w] = "moveSession" /\ UNCHANGED <<enabled, owner, black, code, issue, calm>> /\ req[w].new \in Tokens
  BY DEF MoveSession, Typed, Carried, Carries
<1>2. PICK i \in todo[w] :
        \/ Exists(i.key) /\ ses' = [ses EXCEPT ![i.key].jti = req[w].new] /\ Deliver(w)
        \/ ~Exists(i.key) /\ Finish(w) /\ UNCHANGED <<ses, held>>
  BY DEF MoveSession
<1>3. i \in Instance /\ i.key \in Sessions
  BY DEF Typed, TypeOK, Instance
<1>4. Exists(i.key) => [ses[i.key] EXCEPT !.jti = req[w].new] \in SessionRow
  BY <1>1, <1>3 DEF Exists, Typed, TypeOK, SessionRow
<1>5. ses' \in [Sessions -> SessionRow \cup {NoRow}] /\ held' \subseteq Tokens /\ Finish(w)
  BY <1>1, <1>2, <1>3, <1>4 DEF Deliver, Typed, TypeOK
<1> QED BY <1>1, <1>5, TypedFinish DEF issue, Typed, TypeOK

\* An UPDATE that ends sessions.
LEMMA EndedRow == ASSUME Typed, NEW s \in Sessions, Exists(s) PROVE [ses[s] EXCEPT !.active = FALSE] \in SessionRow
BY DEF Exists, Typed, TypeOK, SessionRow

LEMMA EndSessionTyped == ASSUME Typed, NEW w \in Workers, EndSession(w) PROVE Typed'
<1>1. req[w].user \in Users
  BY DEF EndSession, Typed, Carried, Carries, Request
<1>2. ses' \in [Sessions -> SessionRow \cup {NoRow}]
  BY <1>1, EndedRow, ActiveExist DEF EndSession, Typed, TypeOK, ActiveOf
<1> QED BY <1>2, TypedFinish DEF EndSession, issue, Typed, TypeOK

LEMMA BeginAmendTyped == ASSUME Typed, NEW w \in Workers, BeginAmend(w) PROVE Typed'
<1>1. PICK s \in Sessions :
        /\ Exists(s) /\ Begin(w, "amend", ses[s].user, NoToken)
        /\ todo' = [todo EXCEPT ![w] = Loaded({s})]
  BY DEF BeginAmend
<1>2. ses[s].user \in Users
  BY <1>1 DEF Exists, Typed, TypeOK, SessionRow
<1> DEFINE q == [op |-> "amend", user |-> ses[s].user, from |-> NoToken, new |-> NoToken]
<1>3. q \in Request /\ Carries("saveForm", q) /\ "saveForm" \in Labels
  BY <1>2 DEF Request, AllOps, Carries, Labels
<1>4. pc' = [pc EXCEPT ![w] = "saveForm"] /\ req' = [req EXCEPT ![w] = q] /\ calm' \in BOOLEAN
  BY <1>1 DEF BeginAmend, Begin, Goto, Typed, TypeOK
<1>5. Loaded({s}) \in SUBSET Instance
  BY <1>1, LoadedTyped
<1> HIDE DEF q
<1>6. todo' \in [Workers -> SUBSET Instance]
  BY <1>1, <1>5 DEF Typed, TypeOK
<1> QED BY <1>3, <1>4, <1>6, TypedStep DEF BeginAmend, tables, issue, Typed, TypeOK

LEMMA SaveFormTyped == ASSUME Typed, NEW w \in Workers, SaveForm(w) PROVE Typed'
<1>1. PICK i \in todo[w], a \in BOOLEAN :
        ses' = [ses EXCEPT ![i.key] = [user |-> req[w].user, jti |-> i.jti, active |-> a]]
  BY DEF SaveForm
<1>2. i.key \in Sessions /\ i.jti \in Tokens /\ req[w].user \in Users
  BY DEF SaveForm, Typed, TypeOK, Instance, Carried, Carries, Request
<1>3. ses' \in [Sessions -> SessionRow \cup {NoRow}]
  BY <1>1, <1>2 DEF Typed, TypeOK, SessionRow
<1> QED BY <1>3, TypedFinish DEF SaveForm, issue, Typed, TypeOK

LEMMA AbortTyped == ASSUME Typed, NEW w \in Workers, Abort(w) PROVE Typed'
BY TypedFinish DEF Abort, tables, issue, Typed, TypeOK

\* Steps of no request: deletions, the cache, and the administrator.
LEMMA OthersTyped == ASSUME Typed, Delete \/ OfferCode \/ ExpireCode \/ SwitchAccount PROVE Typed'
<1> USE DEF Typed, TypeOK, Carried, issue
<1>1. CASE Delete
  BY <1>1 DEF Delete
<1>2. CASE OfferCode
  BY <1>2 DEF OfferCode, Entry
<1>3. CASE ExpireCode
  BY <1>3 DEF ExpireCode
<1>4. CASE SwitchAccount
  BY <1>4 DEF SwitchAccount
<1> QED BY <1>1, <1>2, <1>3, <1>4

LEMMA TypedNext == Typed /\ [Next]_vars => Typed'
<1> SUFFICES ASSUME Typed, [Next]_vars PROVE Typed'
  OBVIOUS
<1>1. ASSUME NEW w \in Workers, SignIn(w) PROVE Typed'
  BY <1>1, BeginLoginTyped, BeginExchangeTyped, MarkUsedTyped, IssueTyped, InsertSessionTyped,
     DropCodeTyped DEF SignIn
<1>2. ASSUME NEW w \in Workers, Rotate(w) PROVE Typed'
  BY <1>2, BeginRefreshTyped, CheckUserTyped, BlacklistTyped, FindSessionTyped,
     MoveSessionTyped DEF Rotate
<1>3. ASSUME NEW w \in Workers, SignOut(w) \/ Abort(w) PROVE Typed'
  BY <1>3, BeginLogoutTyped, EndSessionTyped, AbortTyped DEF SignOut
<1>4. ASSUME NEW w \in Workers, Amend(w) PROVE Typed'
  BY <1>4, BeginAmendTyped, SaveFormTyped DEF Amend
<1>5. CASE UNCHANGED vars
  BY <1>5 DEF vars, Typed, TypeOK, Carried
<1> QED BY <1>1, <1>2, <1>3, <1>4, <1>5, OthersTyped DEF Next

-----------------------------------------------------------------------------
(* Single use                                                              *)

For(x) == {t \in Tokens : source[t] = x}

\* Requests that may still issue a token for x.
Using(l, q, x) ==
    q.from = x /\ (l \in {"markUsed", "checkUser", "issue"} \/ (l = "blacklist" /\ q.op = "refresh"))

Pending(x) == {w \in Workers : Using(pc[w], req[w], x)}

\* What was used is marked as used.
Marked(l, q) ==
    l = "issue" => /\ q.op = "refresh" => q.from \in black
                   /\ q.op = "exchange" => code[q.from].state # "unused"

Spent ==
    /\ \A t \in Tokens \ black : For(t) = {}
    /\ \A c \in Codes : code[c].state = "unused" => For(c) = {}
    /\ \A w \in Workers : Marked(pc[w], req[w])

Bounded == \A x \in Tokens \cup Codes : Cardinality(For(x)) + Cardinality(Pending(x)) <= Cardinality(Workers)

UseInv == Spent /\ Bounded

LEMMA Counts ==
    /\ \A x : Cardinality(For(x)) \in Nat /\ IsFiniteSet(For(x))
    /\ \A S \in SUBSET Workers :
          /\ Cardinality(S) \in Nat /\ IsFiniteSet(S) /\ Cardinality(S) <= Cardinality(Workers)
          /\ \A T \in SUBSET S : Cardinality(T) <= Cardinality(S) /\ (T # S => Cardinality(T) < Cardinality(S))
    /\ Cardinality(Workers) \in Nat
<1>1. \A x : For(x) \subseteq Tokens
  BY DEF For
<1> QED BY <1>1, TokensAssumption, WorkersAssumption, FS_Subset, FS_CardinalityType

LEMMA UseInit == Init => UseInv
<1> SUFFICES ASSUME Init PROVE UseInv
  OBVIOUS
<1>1. \A x \in Tokens \cup Codes : For(x) = {} /\ Pending(x) = {}
  BY TokensAssumption DEF Init, For, Pending, Using
<1>2. Spent
  BY <1>1 DEF Spent, Init, Marked
<1>3. Bounded
  BY <1>1, FS_EmptySet, Counts DEF Bounded
<1> QED BY <1>2, <1>3 DEF UseInv

\* Steps that issue no token, make nothing unused, and add a request only for
\* what nothing was issued for.
LEMMA NoNewUse ==
    ASSUME UseInv, source' = source, Spent',
           \A x \in Tokens \cup Codes : Pending(x)' \subseteq Pending(x) \/ For(x) = {}
    PROVE  UseInv'
<1>1. ASSUME NEW x \in Tokens \cup Codes
      PROVE  Cardinality(For(x)') + Cardinality(Pending(x)') <= Cardinality(Workers)
  <2>1. For(x)' = For(x)
    BY DEF For
  <2>2. Pending(x) \in SUBSET Workers /\ Pending(x)' \in SUBSET Workers
    BY DEF Pending
  <2>3. /\ Cardinality(For(x)) \in Nat /\ Cardinality(Pending(x)) \in Nat /\ Cardinality(Pending(x)') \in Nat
        /\ Cardinality(Workers) \in Nat /\ Cardinality(Pending(x)') <= Cardinality(Workers)
    BY <2>2, Counts
  <2>4. CASE Pending(x)' \subseteq Pending(x)
    <3>1. Cardinality(Pending(x)') <= Cardinality(Pending(x))
      BY <2>2, <2>4, Counts
    <3> QED BY <2>1, <2>3, <3>1 DEF UseInv, Bounded
  <2>5. CASE For(x) = {}
    BY <2>1, <2>3, <2>5, FS_EmptySet
  <2> QED BY <2>4, <2>5
<1> QED BY <1>1 DEF UseInv, Bounded

\* One worker goes on with label l and request q.
LEMMA UseStep ==
    ASSUME Typed, UseInv, NEW w \in Workers, NEW l, NEW q,
           pc' = [pc EXCEPT ![w] = l], req' = [req EXCEPT ![w] = q],
           source' = source, black \subseteq black',
           \A c \in Codes : code'[c].state = "unused" => code[c].state = "unused",
           \A x \in Tokens \cup Codes : Using(l, q, x) => Using(pc[w], req[w], x) \/ For(x) = {},
           l = "issue" /\ q.op = "refresh" => q.from \in black',
           l = "issue" /\ q.op = "exchange" => code'[q.from].state # "unused"
    PROVE  UseInv'
<1>1. \A v \in Workers \ {w} : pc'[v] = pc[v] /\ req'[v] = req[v]
  BY DEF Typed, TypeOK
<1>2. pc'[w] = l /\ req'[w] = q
  BY DEF Typed, TypeOK
<1>3. \A v \in Workers : Marked(pc[v], req[v])'
  <2>1. ASSUME NEW v \in Workers \ {w}, pc[v] = "issue", req[v].op = "exchange" PROVE req[v].from \in Codes
    BY <2>1 DEF Typed, Carried, Carries
  <2> QED BY <1>1, <1>2, <2>1 DEF UseInv, Spent, Marked
<1>4. Spent'
  BY <1>3 DEF UseInv, Spent, For
<1>5. \A x \in Tokens \cup Codes : Pending(x)' \subseteq Pending(x) \/ For(x) = {}
  BY <1>1, <1>2 DEF Pending
<1> QED BY <1>4, <1>5, NoNewUse

\* A request that ends issues nothing more.
LEMMA UseFinish ==
    ASSUME Typed, UseInv, NEW w \in Workers, Finish(w), source' = source, black \subseteq black',
           \A c \in Codes : code'[c].state = "unused" => code[c].state = "unused"
    PROVE  UseInv'
<1>1. \A x : ~Using("idle", NoReq, x)
  BY DEF Using
<1> QED BY <1>1, UseStep DEF Finish

LEMMA SignInUse == ASSUME Typed, UseInv, NEW w \in Workers, SignIn(w), ~Issue(w) PROVE UseInv'
<1>1. CASE BeginLogin(w)
  <2>1. PICK u \in Users : Begin(w, "login", u, NoToken)
    BY <1>1 DEF BeginLogin
  <2> DEFINE q == [op |-> "login", user |-> u, from |-> NoToken, new |-> NoToken]
  <2>2. pc' = [pc EXCEPT ![w] = "issue"] /\ req' = [req EXCEPT ![w] = q]
    BY <1>1, <2>1 DEF BeginLogin, Begin, Goto
  <2>3. q.op = "login" /\ \A x \in Tokens \cup Codes : ~Using("issue", q, x)
    BY TokensAssumption DEF Using
  <2> HIDE DEF q
  <2> QED BY <1>1, <2>2, <2>3, UseStep DEF BeginLogin, tables, issue
<1>2. CASE BeginExchange(w)
  <2>1. PICK c \in Codes : code[c].state = "unused" /\ Begin(w, "exchange", code[c].user, c)
    BY <1>2 DEF BeginExchange
  <2> DEFINE q == [op |-> "exchange", user |-> code[c].user, from |-> c, new |-> NoToken]
  <2>2. pc' = [pc EXCEPT ![w] = "markUsed"] /\ req' = [req EXCEPT ![w] = q]
    BY <1>2, <2>1 DEF BeginExchange, Begin, Goto
  <2>3. For(c) = {}
    BY <2>1 DEF UseInv, Spent
  <2>4. \A x \in Tokens \cup Codes : Using("markUsed", q, x) => For(x) = {}
    BY <2>3 DEF Using
  <2>5. UNCHANGED <<source, black, code>>
    BY <1>2 DEF BeginExchange, tables, issue
  <2> HIDE DEF q
  <2> QED BY <2>2, <2>4, <2>5, UseStep
<1>3. CASE MarkUsed(w)
  <2>1. pc[w] = "markUsed" /\ req[w].op = "exchange" /\ req[w].from \in Codes
    BY <1>3 DEF MarkUsed, Typed, Carried, Carries
  <2>2. pc' = [pc EXCEPT ![w] = "issue"] /\ req' = [req EXCEPT ![w] = req[w]]
    BY <1>3 DEF MarkUsed, Goto, Typed, TypeOK
  <2>3. \A c \in Codes : code'[c].state = "unused" => code[c].state = "unused" /\ c # req[w].from
    BY <1>3, <2>1 DEF MarkUsed, Typed, TypeOK
  <2>4. \A x : Using("issue", req[w], x) => Using(pc[w], req[w], x)
    BY <2>1 DEF Using
  <2> QED BY <1>3, <2>1, <2>2, <2>3, <2>4, UseStep DEF MarkUsed, issue
<1>4. CASE InsertSession(w)
  <2>1. CASE Deliver(w)
    BY <1>4, <2>1, UseFinish DEF InsertSession, Deliver, issue
  <2>2. CASE Goto(w, "dropCode") /\ req' = req
    <3>1. pc' = [pc EXCEPT ![w] = "dropCode"] /\ req' = [req EXCEPT ![w] = req[w]]
      BY <2>2 DEF Goto, Typed, TypeOK
    <3>2. \A x : ~Using("dropCode", req[w], x)
      BY DEF Using
    <3> QED BY <1>4, <3>1, <3>2, UseStep DEF InsertSession, issue
  <2> QED BY <1>4, <2>1, <2>2 DEF InsertSession
<1>5. CASE DropCode(w)
  <2>1. \A c \in Codes : code'[c].state = "unused" => code[c].state = "unused"
    BY <1>5 DEF DropCode, NoEntry, Typed, TypeOK
  <2> QED BY <1>5, <2>1, UseFinish DEF DropCode, Deliver, issue
<1> QED BY <1>1, <1>2, <1>3, <1>4, <1>5 DEF SignIn

\* The one step that uses a token or code up: it takes the worker out of those
\* that may still issue for it.
LEMMA IssueUse == ASSUME Typed, UseInv, NEW w \in Workers, Issue(w) PROVE UseInv'
<1>1. PICK t \in Tokens : \E l \in Labels : IssueOf(w, t, l)
  BY IssueIs
<1>2. PICK l \in Labels : IssueOf(w, t, l)
  BY <1>1
<1>0. PICK y : y = req[w].from
  OBVIOUS
<1>3. pc[w] = "issue" /\ UNCHANGED <<black, code>> /\ l \in {"findSession", "insertSession"}
  BY <1>2 DEF Issue, IssueOf
<1>4. /\ \A v \in Workers \ {w} : pc'[v] = pc[v] /\ req'[v] = req[v]
      /\ pc'[w] = l
  BY <1>2 DEF IssueOf, Typed, TypeOK
<1>5. source' = [source EXCEPT ![t] = y] /\ source \in [Tokens -> Tokens \cup Codes \cup {NoToken}]
  BY <1>0, <1>2 DEF IssueOf, Typed, TypeOK
<1>6. \/ req[w].op = "login" /\ y = NoToken
      \/ req[w].op = "exchange" /\ y \in Codes
      \/ req[w].op = "refresh" /\ y \in Tokens
  BY <1>0, <1>3 DEF Typed, Carried, Carries
<1>7. Marked("issue", req[w])
  BY <1>3 DEF UseInv, Spent
<1>8. \A x : x # y => For(x)' \subseteq For(x)
  BY <1>5 DEF For
<1>9. For(y)' \subseteq For(y) \cup {t}
  BY <1>5 DEF For
<1>10. \A x : Pending(x)' \subseteq Pending(x) /\ w \notin Pending(x)'
  BY <1>3, <1>4 DEF Pending, Using
<1>11. y \in Tokens \cup Codes => w \in Pending(y)
  BY <1>0, <1>3 DEF Pending, Using
<1>12. Spent'
  <2>1. y \in Tokens => y \in black
    BY <1>0, <1>6, <1>7, TokensAssumption DEF Marked
  <2>2. y \in Codes => code[y].state # "unused"
    BY <1>0, <1>6, <1>7, TokensAssumption DEF Marked
  <2>3. \A v \in Workers : Marked(pc[v], req[v])'
    BY <1>3, <1>4 DEF UseInv, Spent, Marked
  <2>4. \A x \in Tokens \ black' : For(x)' = {}
    BY <1>3, <1>8, <2>1 DEF UseInv, Spent
  <2>5. \A c \in Codes : code'[c].state = "unused" => For(c)' = {}
    BY <1>3, <1>8, <2>2 DEF UseInv, Spent
  <2> QED BY <2>3, <2>4, <2>5 DEF Spent
<1>13. ASSUME NEW x \in Tokens \cup Codes
       PROVE  Cardinality(For(x)') + Cardinality(Pending(x)') <= Cardinality(Workers)
  <2>1. Pending(x) \in SUBSET Workers /\ Pending(x)' \in SUBSET Pending(x) /\ w \notin Pending(x)'
    BY <1>10 DEF Pending
  <2>2. /\ Cardinality(Pending(x)) \in Nat /\ Cardinality(Pending(x)') \in Nat
        /\ Cardinality(Pending(x)') <= Cardinality(Pending(x)) /\ Cardinality(Workers) \in Nat
        /\ w \in Pending(x) => Cardinality(Pending(x)') < Cardinality(Pending(x))
    BY <2>1, Counts
  <2>3. Cardinality(For(x)) \in Nat /\ IsFiniteSet(For(x))
    BY Counts
  <2>4. Cardinality(For(x)) + Cardinality(Pending(x)) <= Cardinality(Workers)
    BY DEF UseInv, Bounded
  <2>5. CASE x # y
    <3>1. Cardinality(For(x)') \in Nat /\ Cardinality(For(x)') <= Cardinality(For(x))
      BY <1>8, <2>3, <2>5, FS_Subset, FS_CardinalityType
    <3> QED BY <2>2, <2>3, <2>4, <3>1
  <2>6. CASE x = y
    <3>1. IsFiniteSet(For(x) \cup {t}) /\ Cardinality(For(x) \cup {t}) <= Cardinality(For(x)) + 1
          /\ Cardinality(For(x) \cup {t}) \in Nat
      <4>1. IsFiniteSet(For(x) \cup {t})
            /\ Cardinality(For(x) \cup {t}) = IF t \in For(x) THEN Cardinality(For(x)) ELSE Cardinality(For(x)) + 1
        BY <2>3, FS_AddElement
      <4> QED BY <2>3, <4>1
    <3>2. Cardinality(For(x)') \in Nat /\ Cardinality(For(x)') <= Cardinality(For(x) \cup {t})
      BY <1>9, <2>6, <3>1, FS_Subset, FS_CardinalityType
    <3>3. Cardinality(Pending(x)') < Cardinality(Pending(x))
      BY <1>11, <2>2, <2>6
    <3> QED BY <2>2, <2>3, <2>4, <3>1, <3>2, <3>3
  <2> QED BY <2>5, <2>6
<1> QED BY <1>12, <1>13 DEF UseInv, Bounded

LEMMA BlacklistUse == ASSUME Typed, UseInv, NEW w \in Workers, Blacklist(w) PROVE UseInv'
<1> DEFINE l == IF req[w].op = "refresh" THEN "issue" ELSE "endSession"
<1>1. pc[w] = "blacklist" /\ UNCHANGED <<source, code>> /\ black' = black \cup {req[w].from}
  BY DEF Blacklist, issue
<1>2. pc' = [pc EXCEPT ![w] = l] /\ req' = [req EXCEPT ![w] = req[w]]
  BY DEF Blacklist, Goto, Typed, TypeOK
<1>3. \A x : Using(l, req[w], x) => Using(pc[w], req[w], x)
  BY <1>1 DEF Using
<1>4. l = "issue" => req[w].op = "refresh" /\ req[w].from \in black'
  BY <1>1
<1> HIDE DEF l
<1> QED BY <1>1, <1>2, <1>3, <1>4, UseStep

LEMMA RotateUse == ASSUME Typed, UseInv, NEW w \in Workers, Rotate(w) PROVE UseInv'
<1>0. req' = req => req' = [req EXCEPT ![w] = req[w]]
  BY DEF Typed, TypeOK
<1>1. CASE BeginRefresh(w)
  <2>1. PICK t \in held : Accepted(t) /\ Begin(w, "refresh", owner[t], t)
    BY <1>1 DEF BeginRefresh
  <2> DEFINE q == [op |-> "refresh", user |-> owner[t], from |-> t, new |-> NoToken]
  <2>2. pc' = [pc EXCEPT ![w] = "checkUser"] /\ req' = [req EXCEPT ![w] = q]
    BY <1>1, <2>1 DEF BeginRefresh, Begin, Goto
  <2>3. For(t) = {}
    BY <2>1 DEF Accepted, UseInv, Spent, Typed, TypeOK
  <2>4. \A x \in Tokens \cup Codes : Using("checkUser", q, x) => For(x) = {}
    BY <2>3 DEF Using
  <2>5. UNCHANGED <<source, black, code>>
    BY <1>1 DEF BeginRefresh, tables, issue
  <2> HIDE DEF q
  <2> QED BY <2>2, <2>4, <2>5, UseStep
<1>2. CASE CheckUser(w)
  <2>1. pc[w] = "checkUser" /\ UNCHANGED <<source, black, code>>
    BY <1>2 DEF CheckUser, tables, issue
  <2>2. CASE Finish(w)
    BY <2>1, <2>2, UseFinish
  <2>3. CASE Goto(w, "blacklist") /\ UNCHANGED <<req, todo>>
    <3>1. \A x : Using("blacklist", req[w], x) => Using(pc[w], req[w], x)
      BY <2>1 DEF Using
    <3> QED BY <1>0, <2>1, <2>3, <3>1, UseStep DEF Goto
  <2> QED BY <1>2, <2>2, <2>3 DEF CheckUser
<1>3. CASE Blacklist(w)
  BY <1>3, BlacklistUse
<1>4. CASE FindSession(w)
  <2>1. UNCHANGED <<source, black, code>>
    BY <1>4 DEF FindSession, tables, issue
  <2>2. CASE Finish(w)
    BY <2>1, <2>2, UseFinish
  <2>3. CASE Goto(w, "moveSession") /\ req' = req
    <3>1. \A x : ~Using("moveSession", req[w], x)
      BY DEF Using
    <3> QED BY <1>0, <2>1, <2>3, <3>1, UseStep DEF Goto
  <2> QED BY <1>4, <2>2, <2>3 DEF FindSession, Deliver
<1>5. CASE MoveSession(w)
  BY <1>5, UseFinish DEF MoveSession, Deliver, issue
<1> QED BY <1>1, <1>2, <1>3, <1>4, <1>5 DEF Rotate

\* Requests that neither issue nor use a token: a label outside those of Using.
LEMMA Useless ==
    ASSUME Typed, UseInv, NEW w \in Workers, NEW l, NEW q,
           l \notin {"markUsed", "checkUser", "issue", "blacklist"},
           pc' = [pc EXCEPT ![w] = l], req' = [req EXCEPT ![w] = q],
           source' = source, black \subseteq black', code' = code
    PROVE  UseInv'
<1>1. \A x : ~Using(l, q, x)
  BY DEF Using
<1> QED BY <1>1, UseStep

LEMMA SignOutUse == ASSUME Typed, UseInv, NEW w \in Workers, SignOut(w) PROVE UseInv'
<1>1. CASE BeginLogout(w)
  <2>1. PICK t \in held : Begin(w, "logout", owner[t], t)
    BY <1>1 DEF BeginLogout
  <2> DEFINE q == [op |-> "logout", user |-> owner[t], from |-> t, new |-> NoToken]
  <2>2. pc' = [pc EXCEPT ![w] = "blacklist"] /\ req' = [req EXCEPT ![w] = q]
    BY <1>1, <2>1 DEF BeginLogout, Begin, Goto
  <2>3. \A x : ~Using("blacklist", q, x)
    BY DEF Using
  <2>4. UNCHANGED <<source, black, code>>
    BY <1>1 DEF BeginLogout, tables, issue
  <2> HIDE DEF q
  <2> QED BY <2>2, <2>3, <2>4, UseStep
<1>2. CASE EndSession(w)
  BY <1>2, UseFinish DEF EndSession, issue
<1> QED BY <1>1, <1>2 DEF SignOut

LEMMA AmendUse == ASSUME Typed, UseInv, NEW w \in Workers, Amend(w) PROVE UseInv'
<1>1. CASE BeginAmend(w)
  <2>1. PICK q : pc' = [pc EXCEPT ![w] = "saveForm"] /\ req' = [req EXCEPT ![w] = q]
    BY <1>1 DEF BeginAmend, Begin, Goto
  <2> QED BY <1>1, <2>1, Useless DEF BeginAmend, tables, issue
<1>2. CASE SaveForm(w)
  BY <1>2, UseFinish DEF SaveForm, issue
<1> QED BY <1>1, <1>2 DEF Amend

\* A code is offered again only when no request and no token is for it.
LEMMA OthersUse ==
    ASSUME Typed, UseInv, Delete \/ OfferCode \/ ExpireCode \/ SwitchAccount
    PROVE  UseInv'
<1>1. UNCHANGED <<source, black, pc, req>>
  BY DEF Delete, OfferCode, ExpireCode, SwitchAccount, issue
<1>2. \A x : Pending(x)' = Pending(x) /\ For(x)' = For(x)
  BY <1>1 DEF Pending, For
<1>3. \A c \in Codes : code'[c].state = "unused" =>
         code[c].state = "unused" \/ (For(c) = {} /\ \A w \in Workers : req[w].from # c)
  <2>1. CASE OfferCode
    BY <2>1 DEF OfferCode, For, Typed, TypeOK
  <2>2. CASE ExpireCode
    BY <2>2 DEF ExpireCode, NoEntry, Typed, TypeOK
  <2>3. CASE Delete \/ SwitchAccount
    BY <2>3 DEF Delete, SwitchAccount
  <2> QED BY <2>1, <2>2, <2>3
<1>4. \A w \in Workers : Marked(pc[w], req[w])'
  <2>1. ASSUME NEW w \in Workers, pc[w] = "issue", req[w].op = "exchange" PROVE req[w].from \in Codes
    BY <2>1 DEF Typed, Carried, Carries
  <2> QED BY <1>1, <1>3, <2>1 DEF UseInv, Spent, Marked
<1>5. Spent'
  BY <1>1, <1>2, <1>3, <1>4 DEF UseInv, Spent
<1> QED BY <1>1, <1>2, <1>5, NoNewUse

LEMMA UseNext == Typed /\ UseInv /\ [Next]_vars => UseInv'
<1> SUFFICES ASSUME Typed, UseInv, [Next]_vars PROVE UseInv'
  OBVIOUS
<1>1. ASSUME NEW w \in Workers, SignIn(w) \/ Rotate(w) \/ SignOut(w) \/ Amend(w) \/ Abort(w)
      PROVE  UseInv'
  <2>1. CASE Abort(w)
    BY <2>1, UseFinish DEF Abort, tables, issue
  <2> QED BY <1>1, <2>1, SignInUse, IssueUse, RotateUse, SignOutUse, AmendUse
<1>2. CASE UNCHANGED vars
  <2>1. \A x : Pending(x)' = Pending(x)
    BY <1>2 DEF vars, Pending
  <2>2. Spent' /\ source' = source
    BY <1>2 DEF vars, issue, tables, UseInv, Spent, Marked, For
  <2> QED BY <2>1, <2>2, NoNewUse
<1> QED BY <1>1, <1>2, OthersUse DEF Next

-----------------------------------------------------------------------------
(* Sessions that ended                                                     *)

Ends ==
    \A s \in Sessions : Exists(s) /\ ~ses[s].active =>
        ~ses'[s].active \/ \E w \in Workers : SaveForm(w)

\* Else only an INSERT makes a row active, and only where none was.
LEMMA EndsStep == Typed /\ [Next]_vars => Ends \/ UNCHANGED ses
<1> SUFFICES ASSUME Typed, Next, ses' # ses, \A w \in Workers : ~SaveForm(w)
             PROVE  \A s \in Sessions : Exists(s) /\ ~ses[s].active => ~ses'[s].active
  BY DEF vars, Ends
<1> DEFINE Stay == \A s \in Sessions : Exists(s) /\ ~ses[s].active => ~ses'[s].active
<1> USE DEF Exists, Typed, TypeOK
<1>1. ASSUME NEW w \in Workers, InsertSession(w) PROVE Stay
  BY <1>1 DEF InsertSession
<1>2. ASSUME NEW w \in Workers, MoveSession(w) PROVE Stay
  <2>1. PICK i \in todo[w] : ses' = [ses EXCEPT ![i.key].jti = req[w].new] /\ Exists(i.key)
    BY <1>2 DEF MoveSession
  <2>2. i.key \in Sessions /\ ses[i.key] \in SessionRow
    BY <2>1 DEF Instance
  <2>3. ses'[i.key].active = ses[i.key].active
    BY <2>1, <2>2 DEF SessionRow
  <2> QED BY <2>1, <2>2, <2>3
<1>3. ASSUME NEW w \in Workers, EndSession(w) PROVE Stay
  BY <1>3 DEF EndSession, ActiveOf
<1>4. CASE Delete
  BY <1>4 DEF Delete, NoRow
<1>5. ASSUME NEW w \in Workers, SignIn(w) \/ Rotate(w) \/ SignOut(w) \/ Amend(w) \/ Abort(w) PROVE Stay
  BY <1>1, <1>2, <1>3, <1>5 DEF SignIn, Rotate, SignOut, Amend, BeginLogin, BeginExchange,
     MarkUsed, Issue, DropCode, BeginRefresh, CheckUser, Blacklist, FindSession, BeginLogout,
     BeginAmend, Abort, tables
<1> QED BY <1>4, <1>5 DEF Next, OfferCode, ExpireCode, SwitchAccount

-----------------------------------------------------------------------------
(* Families of tokens                                                      *)

\* Which token a session names: in its row, or in an instance of it that some
\* request may write back.
Named == {i \in Instance : (Exists(i.key) /\ ses[i.key].jti = i.jti) \/ \E w \in Workers : i \in todo[w]}

\* Of a request, what is true of the tokens it carries.
Kin(l, q) ==
    /\ l \in {"insertSession", "findSession", "moveSession"} => Issued(q.new)
    /\ l \in {"checkUser", "blacklist", "issue"} /\ q.op = "refresh" => Issued(q.from)
    /\ l = "findSession" => Issued(q.from) /\ root[q.new] = root[q.from]

\* A token about to be named by a new session is of nobody's family.
Apart(w) ==
    pc[w] = "insertSession" =>
        /\ \A i \in Named : root[i.jti] # root[req[w].new]
        /\ \A v \in Workers \ {w} : pc[v] = "insertSession" => root[req[v].new] # root[req[w].new]

\* A token about to be moved to a session is of the session's family.
Fits(w) == pc[w] = "moveSession" => \A i \in todo[w] : root[i.jti] = root[req[w].new]

FamInv ==
    /\ \A t \in Tokens : Issued(t) => root[t] \in Tokens /\ Issued(root[t])
    /\ \A i \in Named : Issued(i.jti)
    /\ \A i, j \in Named : i.key = j.key <=> root[i.jti] = root[j.jti]
    /\ \A w \in Workers : Kin(pc[w], req[w]) /\ Apart(w) /\ Fits(w)

LEMMA FamInit == Init => FamInv
<1> SUFFICES ASSUME Init PROVE FamInv
  OBVIOUS
<1>1. Named = {}
  BY DEF Init, Named, Exists, Instance
<1>2. \A t \in Tokens : ~Issued(t)
  BY DEF Init, Issued
<1>3. \A w \in Workers : Kin(pc[w], req[w]) /\ Apart(w) /\ Fits(w)
  BY DEF Init, Kin, Apart, Fits
<1> QED BY <1>1, <1>2, <1>3 DEF FamInv

\* What a request loads is named already.
LEMMA LoadedNamed ==
    ASSUME Typed, NEW S \in SUBSET Sessions, \A s \in S : Exists(s)
    PROVE  Loaded(S) \subseteq Named
<1>1. Loaded(S) \in SUBSET Instance
  BY LoadedTyped
<1> QED BY <1>1 DEF Loaded, Named

\* Steps that issue nothing and name nothing new: one worker goes on with label
\* l and request q.
LEMMA FamStep ==
    ASSUME Typed, FamInv, NEW w \in Workers, NEW l, NEW q,
           pc' = [pc EXCEPT ![w] = l], req' = [req EXCEPT ![w] = q],
           UNCHANGED <<owner, root>>, Named' \subseteq Named,
           \A v \in Workers \ {w} : todo'[v] = todo[v],
           l # "insertSession", Kin(l, q),
           l = "moveSession" => \A i \in todo'[w] : root[i.jti] = root[q.new]
    PROVE  FamInv'
<1>1. \A v \in Workers \ {w} : pc'[v] = pc[v] /\ req'[v] = req[v]
  BY DEF Typed, TypeOK
<1>2. pc'[w] = l /\ req'[w] = q
  BY DEF Typed, TypeOK
<1>3. ASSUME NEW v \in Workers PROVE Kin(pc[v], req[v])'
  BY <1>1, <1>2 DEF FamInv, Kin, Issued
<1>4. ASSUME NEW v \in Workers PROVE Apart(v)'
  BY <1>1, <1>2 DEF FamInv, Apart
<1>5. ASSUME NEW v \in Workers PROVE Fits(v)'
  BY <1>1, <1>2 DEF FamInv, Fits
<1>6. /\ (\A t \in Tokens : Issued(t) => root[t] \in Tokens /\ Issued(root[t]))'
      /\ (\A i \in Named : Issued(i.jti))'
      /\ (\A i, j \in Named : i.key = j.key <=> root[i.jti] = root[j.jti])'
  BY DEF FamInv, Issued
<1> QED BY <1>3, <1>4, <1>5, <1>6 DEF FamInv

\* Rows keep what they name, disappear, or get what an instance says.
NamesNoMore ==
    /\ \A s \in Sessions : Exists(s)' => (Exists(s) /\ ses'[s].jti = ses[s].jti)
                                        \/ \E v \in Workers : [key |-> s, jti |-> ses'[s].jti] \in todo[v]
    /\ \A v \in Workers : todo'[v] \subseteq Named

LEMMA NamesLess == ASSUME Typed, NamesNoMore PROVE Named' \subseteq Named
<1> SUFFICES ASSUME NEW i \in Named' PROVE i \in Named
  OBVIOUS
<1>1. i \in Instance /\ i.key \in Sessions /\ i = [key |-> i.key, jti |-> i.jti]
  BY DEF Named, Instance
<1>2. CASE Exists(i.key)' /\ ses'[i.key].jti = i.jti
  BY <1>1, <1>2 DEF NamesNoMore, Named
<1>3. CASE \E w \in Workers : i \in todo'[w]
  BY <1>3 DEF NamesNoMore
<1> QED BY <1>2, <1>3 DEF Named

LEMMA TodoNamed == ASSUME Typed, NEW w \in Workers PROVE todo[w] \subseteq Named
BY DEF Typed, TypeOK, Named

LEMMA FamFinish ==
    ASSUME Typed, FamInv, NEW w \in Workers, Finish(w), UNCHANGED <<owner, root>>,
           \A s \in Sessions : Exists(s)' => Exists(s) /\ ses'[s].jti = ses[s].jti
    PROVE  FamInv'
<1>1. \A v \in Workers \ {w} : todo'[v] = todo[v]
  BY DEF Finish, Typed, TypeOK
<1>2. todo'[w] = {}
  BY DEF Finish, Typed, TypeOK
<1>3. NamesNoMore
  BY <1>1, <1>2, TodoNamed DEF NamesNoMore
<1>4. Kin("idle", NoReq)
  BY DEF Kin
<1> QED BY <1>1, <1>3, <1>4, FamStep, NamesLess DEF Finish

\* Steps that leave the session table and the instances loaded from it alone.
LEMMA FamAside ==
    ASSUME Typed, FamInv, NEW w \in Workers, NEW l, NEW q,
           pc' = [pc EXCEPT ![w] = l], req' = [req EXCEPT ![w] = q],
           UNCHANGED <<owner, root, ses, todo>>, l \notin {"insertSession", "moveSession"}, Kin(l, q)
    PROVE  FamInv'
<1>1. NamesNoMore
  BY TodoNamed DEF NamesNoMore, Exists
<1> QED BY <1>1, FamStep, NamesLess

LEMMA FamSignIn == ASSUME Typed, FamInv, NEW w \in Workers, SignIn(w), ~Issue(w), ~InsertSession(w) PROVE FamInv'
<1>1. CASE BeginLogin(w)
  <2>0. PICK u \in Users : Begin(w, "login", u, NoToken)
    BY <1>1 DEF BeginLogin
  <2>1. PICK q : pc' = [pc EXCEPT ![w] = "issue"] /\ req' = [req EXCEPT ![w] = q] /\ q.op = "login"
    <3> DEFINE r == [op |-> "login", user |-> u, from |-> NoToken, new |-> NoToken]
    <3>1. pc' = [pc EXCEPT ![w] = "issue"] /\ req' = [req EXCEPT ![w] = r] /\ r.op = "login"
      BY <1>1, <2>0 DEF BeginLogin, Begin, Goto
    <3> HIDE DEF r
    <3> QED BY <3>1
  <2>2. Kin("issue", q)
    BY <2>1 DEF Kin
  <2> QED BY <1>1, <2>1, <2>2, FamAside DEF BeginLogin, tables, issue
<1>2. CASE BeginExchange(w)
  <2>1. PICK q : pc' = [pc EXCEPT ![w] = "markUsed"] /\ req' = [req EXCEPT ![w] = q]
    BY <1>2 DEF BeginExchange, Begin, Goto
  <2>2. Kin("markUsed", q)
    BY DEF Kin
  <2> QED BY <1>2, <2>1, <2>2, FamAside DEF BeginExchange, tables, issue
<1>3. CASE MarkUsed(w)
  <2>1. pc' = [pc EXCEPT ![w] = "issue"] /\ req' = [req EXCEPT ![w] = req[w]] /\ req[w].op = "exchange"
    BY <1>3 DEF MarkUsed, Goto, Typed, TypeOK, Carried, Carries
  <2>2. Kin("issue", req[w])
    BY <2>1 DEF Kin
  <2> QED BY <1>3, <2>1, <2>2, FamAside DEF MarkUsed, issue
<1>4. CASE DropCode(w)
  BY <1>4, FamFinish DEF DropCode, Deliver, issue, Exists
<1> QED BY <1>1, <1>2, <1>3, <1>4 DEF SignIn

\* A sign-in founds a family; a rotation's token belongs to that of the old one.
LEMMA FamIssue == ASSUME Typed, FamInv, NEW w \in Workers, Issue(w) PROVE FamInv'
<1>1. PICK t \in Tokens : \E l \in Labels : IssueOf(w, t, l)
  BY IssueIs
<1>2. PICK l \in Labels : IssueOf(w, t, l)
  BY <1>1
<1>3. /\ pc[w] = "issue" /\ UNCHANGED <<ses, todo>> /\ ~Issued(t) /\ req[w] \in Request
      /\ l \in {"findSession", "insertSession"} /\ (l = "findSession" <=> req[w].op = "refresh")
  BY <1>2 DEF Issue, IssueOf, Typed, Carried, Carries
<1>4. req[w].op = "refresh" => req[w].from \in Tokens /\ Issued(req[w].from)
  BY <1>3 DEF FamInv, Kin, Typed, Carried, Carries
<1>5. /\ \A v \in Workers \ {w} : pc'[v] = pc[v] /\ req'[v] = req[v]
      /\ pc'[w] = l /\ req'[w].new = t /\ req'[w].from = req[w].from
  BY <1>2, <1>3 DEF IssueOf, Typed, TypeOK, Request
<1>6. /\ \A x \in Tokens \ {t} : root'[x] = root[x] /\ Issued(x)' = Issued(x)
      /\ root'[t] = IF req[w].op = "refresh" THEN root[req[w].from] ELSE t
  BY <1>2 DEF IssueOf, Issued, Typed, TypeOK
<1>7. Issued(t)'
  <2>1. req[w].user \in Users
    BY <1>3 DEF Request
  <2> QED BY <1>2, <2>1, UsersAssumption DEF IssueOf, Issued, Typed, TypeOK
<1>8. Named' = Named /\ \A i \in Named : i.jti \in Tokens /\ i.jti # t
  BY <1>3 DEF Named, Exists, FamInv, Instance
<1>9. \A x \in Tokens : Issued(x) => root[x] # t /\ x # t
  BY <1>3 DEF FamInv
<1>10. \A v \in Workers : pc[v] \in {"insertSession", "findSession", "moveSession"} =>
          req[v].new \in Tokens /\ Issued(req[v].new)
  BY DEF FamInv, Kin, Typed, Carried, Carries
<1>11. \A v \in Workers : (pc[v] \in {"checkUser", "blacklist", "issue"} /\ req[v].op = "refresh")
                            \/ pc[v] = "findSession" => req[v].from \in Tokens /\ Issued(req[v].from)
  BY DEF FamInv, Kin, Typed, Carried, Carries
<1>12. ASSUME NEW v \in Workers PROVE Kin(pc[v], req[v])'
  <2>1. CASE v = w
    BY <1>3, <1>4, <1>5, <1>6, <1>7, <1>9, <2>1 DEF Kin
  <2>2. CASE v # w
    BY <1>5, <1>6, <1>9, <1>10, <1>11, <2>2 DEF Kin, FamInv
  <2> QED BY <2>1, <2>2
<1>13. ASSUME NEW v \in Workers PROVE Apart(v)'
  BY <1>3, <1>5, <1>6, <1>8, <1>9, <1>10 DEF Apart, FamInv
<1>14. ASSUME NEW v \in Workers PROVE Fits(v)'
  <2>1. \A i \in todo[v] : i \in Named
    BY TodoNamed
  <2> QED BY <1>3, <1>5, <1>6, <1>8, <1>9, <1>10, <2>1 DEF Fits, FamInv
<1>15. (\A x \in Tokens : Issued(x) => root[x] \in Tokens /\ Issued(root[x]))'
  BY <1>4, <1>6, <1>7, <1>9 DEF FamInv
<1>16. (\A i \in Named : Issued(i.jti))' /\ (\A i, j \in Named : i.key = j.key <=> root[i.jti] = root[j.jti])'
  BY <1>6, <1>8 DEF FamInv
<1> QED BY <1>12, <1>13, <1>14, <1>15, <1>16 DEF FamInv

\* A new row: no other row or instance has its key or its family.
LEMMA FamInsert == ASSUME Typed, FamInv, NEW w \in Workers, InsertSession(w) PROVE FamInv'
<1> DEFINE t == req[w].new
<1>1. /\ pc[w] = "insertSession" /\ UNCHANGED <<owner, root>> /\ t \in Tokens /\ req[w] \in Request
      /\ Issued(t)
  BY DEF InsertSession, issue, Typed, Carried, Carries, FamInv, Kin
<1>2. PICK s \in Sessions :
         /\ ~Exists(s) /\ \A v \in Workers : s \notin {i.key : i \in todo[v]}
         /\ ses' = [ses EXCEPT ![s] = [user |-> req[w].user, jti |-> t, active |-> TRUE]]
  BY DEF InsertSession
<1>3. PICK l : /\ l \in {"idle", "dropCode"} /\ pc' = [pc EXCEPT ![w] = l]
               /\ \A v \in Workers : todo'[v] \subseteq todo[v]
  BY DEF InsertSession, Deliver, Finish, Goto, Typed, TypeOK
<1>4. \A v \in Workers \ {w} : pc'[v] = pc[v] /\ req'[v] = req[v]
  BY DEF InsertSession, Deliver, Finish, Goto, Typed, TypeOK
<1>5. pc'[w] = l
  BY <1>3 DEF Typed, TypeOK
<1>6. PICK u : u = t
  OBVIOUS
<1> DEFINE n == [key |-> s, jti |-> u]
<1> HIDE DEF t
<1>7. ses'[s].jti = u /\ \A r \in Sessions \ {s} : ses'[r] = ses[r]
  BY <1>2, <1>6 DEF Typed, TypeOK
<1>8. \A i \in Named : i.key # s
  BY <1>2 DEF Named
<1>9. \A i \in Named' : i \in Named \/ i = n
  <2> SUFFICES ASSUME NEW i \in Named' PROVE i \in Named \/ i = n
    OBVIOUS
  <2>1. i \in Instance /\ i.key \in Sessions /\ i = [key |-> i.key, jti |-> i.jti]
    BY DEF Named, Instance
  <2>2. CASE Exists(i.key)' /\ ses'[i.key].jti = i.jti
    BY <1>7, <2>1, <2>2 DEF Named, Exists
  <2>3. CASE \E v \in Workers : i \in todo'[v]
    BY <1>3, <2>1, <2>3 DEF Named
  <2> QED BY <2>2, <2>3 DEF Named
<1>10. n.key = s /\ n.jti = u
  OBVIOUS
<1>11. \A i \in Named : root[i.jti] # root[u]
  BY <1>1, <1>6 DEF FamInv, Apart, t
<1>12. \A v \in Workers \ {w} : pc[v] = "insertSession" => root[req[v].new] # root[u]
  BY <1>1, <1>6 DEF FamInv, Apart, t
<1> HIDE DEF n
<1>13. ASSUME NEW v \in Workers PROVE Kin(pc[v], req[v])'
  BY <1>1, <1>3, <1>4, <1>5 DEF FamInv, Kin, Issued
<1>14. ASSUME NEW v \in Workers PROVE Apart(v)'
  BY <1>1, <1>3, <1>4, <1>5, <1>9, <1>10, <1>12 DEF FamInv, Apart
<1>15. ASSUME NEW v \in Workers PROVE Fits(v)'
  BY <1>1, <1>3, <1>4, <1>5 DEF FamInv, Fits
<1>16. (\A i \in Named : Issued(i.jti))' /\ (\A i, j \in Named : i.key = j.key <=> root[i.jti] = root[j.jti])'
  BY <1>1, <1>6, <1>8, <1>9, <1>10, <1>11 DEF FamInv, Issued
<1>17. (\A x \in Tokens : Issued(x) => root[x] \in Tokens /\ Issued(root[x]))'
  BY <1>1 DEF FamInv, Issued
<1> QED BY <1>13, <1>14, <1>15, <1>16, <1>17 DEF FamInv

\* The row moves to a token of the same family.
LEMMA FamMove == ASSUME Typed, FamInv, NEW w \in Workers, MoveSession(w) PROVE FamInv'
<1>1. /\ pc[w] = "moveSession" /\ UNCHANGED <<owner, root>> /\ req[w].new \in Tokens /\ Issued(req[w].new)
      /\ Finish(w)
  BY DEF MoveSession, Deliver, issue, Typed, Carried, Carries, FamInv, Kin
<1>2. PICK k \in todo[w] :
        \/ Exists(k.key) /\ ses' = [ses EXCEPT ![k.key].jti = req[w].new]
        \/ ~Exists(k.key) /\ UNCHANGED ses
  BY DEF MoveSession
<1>3. CASE UNCHANGED ses
  BY <1>1, <1>3, FamFinish DEF Exists
<1>4. CASE Exists(k.key) /\ ses' = [ses EXCEPT ![k.key].jti = req[w].new]
  <2>1. PICK u : u = req[w].new
    OBVIOUS
  <2>2. k \in Named /\ k \in Instance /\ k.key \in Sessions /\ ses[k.key] \in SessionRow
    BY <1>4, TodoNamed DEF Named, Instance, Exists, Typed, TypeOK
  <2>3. ses'[k.key].jti = u /\ \A r \in Sessions \ {k.key} : ses'[r] = ses[r]
    BY <1>4, <2>1, <2>2 DEF Typed, TypeOK, SessionRow
  <2>4. root[u] = root[k.jti] /\ Issued(u)
    BY <1>1, <2>1 DEF FamInv, Fits
  <2>5. /\ \A v \in Workers \ {w} : pc'[v] = pc[v] /\ req'[v] = req[v]
        /\ pc'[w] = "idle" /\ \A v \in Workers : todo'[v] \subseteq todo[v]
    BY <1>1 DEF Finish, Typed, TypeOK
  <2>6. \A i \in Named' : i \in Named \/ (i.key = k.key /\ i.jti = u)
    <3> SUFFICES ASSUME NEW i \in Named' PROVE i \in Named \/ (i.key = k.key /\ i.jti = u)
      OBVIOUS
    <3>1. i \in Instance /\ i.key \in Sessions
      BY DEF Named, Instance
    <3>2. CASE Exists(i.key)' /\ ses'[i.key].jti = i.jti
      BY <2>3, <3>1, <3>2 DEF Named, Exists
    <3>3. CASE \E v \in Workers : i \in todo'[v]
      BY <2>5, <3>1, <3>3 DEF Named
    <3> QED BY <3>2, <3>3 DEF Named
  <2>7. ASSUME NEW v \in Workers PROVE Kin(pc[v], req[v])'
    BY <1>1, <2>5 DEF FamInv, Kin, Issued
  <2>8. ASSUME NEW v \in Workers PROVE Apart(v)'
    BY <1>1, <2>2, <2>4, <2>5, <2>6 DEF FamInv, Apart
  <2>9. ASSUME NEW v \in Workers PROVE Fits(v)'
    BY <1>1, <2>5 DEF FamInv, Fits
  <2>10. (\A i \in Named : Issued(i.jti))' /\ (\A i, j \in Named : i.key = j.key <=> root[i.jti] = root[j.jti])'
    BY <1>1, <2>2, <2>4, <2>6 DEF FamInv, Issued
  <2>11. (\A x \in Tokens : Issued(x) => root[x] \in Tokens /\ Issued(root[x]))'
    BY <1>1 DEF FamInv, Issued
  <2> QED BY <2>7, <2>8, <2>9, <2>10, <2>11 DEF FamInv
<1> QED BY <1>2, <1>3, <1>4

LEMMA FamRotate == ASSUME Typed, FamInv, NEW w \in Workers, Rotate(w), ~MoveSession(w), ~Blacklist(w) PROVE FamInv'
<1>0. req' = req => req' = [req EXCEPT ![w] = req[w]]
  BY DEF Typed, TypeOK
<1>1. CASE BeginRefresh(w)
  <2>1. PICK t \in held : Accepted(t) /\ Begin(w, "refresh", owner[t], t)
    BY <1>1 DEF BeginRefresh
  <2> DEFINE q == [op |-> "refresh", user |-> owner[t], from |-> t, new |-> NoToken]
  <2>2. pc' = [pc EXCEPT ![w] = "checkUser"] /\ req' = [req EXCEPT ![w] = q]
    BY <1>1, <2>1 DEF BeginRefresh, Begin, Goto
  <2>3. Kin("checkUser", q)
    BY <2>1 DEF Kin, Accepted
  <2>4. UNCHANGED <<owner, root, ses, todo>>
    BY <1>1 DEF BeginRefresh, tables, issue
  <2> HIDE DEF q
  <2> QED BY <2>2, <2>3, <2>4, FamAside
<1>2. CASE CheckUser(w)
  <2>1. pc[w] = "checkUser" /\ UNCHANGED <<owner, root, ses>> /\ Kin(pc[w], req[w]) /\ req[w].op = "refresh"
    BY <1>2 DEF CheckUser, tables, issue, FamInv, Typed, Carried, Carries
  <2>2. CASE Finish(w)
    BY <2>1, <2>2, FamFinish DEF Exists
  <2>3. CASE Goto(w, "blacklist") /\ UNCHANGED <<req, todo>>
    <3>1. Kin("blacklist", req[w])
      BY <2>1 DEF Kin
    <3> QED BY <1>0, <2>1, <2>3, <3>1, FamAside DEF Goto
  <2> QED BY <1>2, <2>2, <2>3 DEF CheckUser
<1>4. CASE FindSession(w)
  <2>1. /\ pc[w] = "findSession" /\ UNCHANGED <<owner, root, ses>> /\ Kin(pc[w], req[w])
        /\ req[w].user \in Users
    BY <1>4 DEF FindSession, tables, issue, FamInv, Typed, Carried, Carries, Request
  <2>2. CASE Finish(w)
    BY <2>1, <2>2, FamFinish DEF Exists
  <2>3. CASE ~Finish(w)
    <3>1. PICK s \in Sessions : /\ ses[s].user = req[w].user /\ ses[s].jti = req[w].from
                               /\ todo' = [todo EXCEPT ![w] = Loaded({s})]
      BY <1>4, <2>3 DEF FindSession, Deliver, ActiveOf
    <3>2. Loaded({s}) \subseteq Named
      BY <2>1, <3>1, ActiveExist, LoadedNamed
    <3>3. NamesNoMore
      BY <2>1, <3>1, <3>2, TodoNamed DEF NamesNoMore, Exists, Typed, TypeOK
    <3>4. pc' = [pc EXCEPT ![w] = "moveSession"] /\ req' = [req EXCEPT ![w] = req[w]]
      BY <1>0, <1>4, <2>3 DEF FindSession, Deliver, Goto
    <3>5. Kin("moveSession", req[w]) /\ root[req[w].new] = root[req[w].from]
      BY <2>1 DEF Kin
    <3>6. \A i \in todo'[w] : i.jti = req[w].from
      BY <3>1 DEF Loaded, Typed, TypeOK
    <3>7. \A v \in Workers \ {w} : todo'[v] = todo[v]
      BY <3>1 DEF Typed, TypeOK
    <3> QED BY <2>1, <3>3, <3>4, <3>5, <3>6, <3>7, FamStep, NamesLess
  <2> QED BY <2>2, <2>3
<1> QED BY <1>1, <1>2, <1>4 DEF Rotate

LEMMA FamBlacklist == ASSUME Typed, FamInv, NEW w \in Workers, Blacklist(w) PROVE FamInv'
<1>1. PICK l : /\ l \in {"issue", "endSession"} /\ pc' = [pc EXCEPT ![w] = l]
               /\ req' = [req EXCEPT ![w] = req[w]]
  BY DEF Blacklist, Goto, Typed, TypeOK
<1>2. pc[w] = "blacklist" /\ Kin(pc[w], req[w])
  BY DEF Blacklist, FamInv
<1>3. Kin(l, req[w])
  BY <1>1, <1>2 DEF Kin
<1> QED BY <1>1, <1>3, FamAside DEF Blacklist, issue

\* An UPDATE that ends sessions names nothing.
LEMMA EndingNames ==
    ASSUME Typed, NEW u,
           ses' = [s \in Sessions |-> IF s \in u THEN [ses[s] EXCEPT !.active = FALSE] ELSE ses[s]],
           \A s \in u : Exists(s)
    PROVE  \A s \in Sessions : Exists(s)' => Exists(s) /\ ses'[s].jti = ses[s].jti
BY DEF Exists, Typed, TypeOK, SessionRow

LEMMA FamSignOut == ASSUME Typed, FamInv, NEW w \in Workers, SignOut(w) PROVE FamInv'
<1>1. CASE BeginLogout(w)
  <2>1. PICK t \in held : Begin(w, "logout", owner[t], t)
    BY <1>1 DEF BeginLogout
  <2> DEFINE q == [op |-> "logout", user |-> owner[t], from |-> t, new |-> NoToken]
  <2>2. pc' = [pc EXCEPT ![w] = "blacklist"] /\ req' = [req EXCEPT ![w] = q]
    BY <1>1, <2>1 DEF BeginLogout, Begin, Goto
  <2>3. Kin("blacklist", q)
    BY DEF Kin
  <2>4. UNCHANGED <<owner, root, ses, todo>>
    BY <1>1 DEF BeginLogout, tables, issue
  <2> HIDE DEF q
  <2> QED BY <2>2, <2>3, <2>4, FamAside
<1>2. CASE EndSession(w)
  <2>1. req[w].user \in Users
    BY <1>2 DEF EndSession, Typed, Carried, Carries, Request
  <2>2. \A s \in Sessions : Exists(s)' => Exists(s) /\ ses'[s].jti = ses[s].jti
    <3> DEFINE u == {s \in ActiveOf(req[w].user) : ses[s].jti = req[w].from}
    <3>1. ses' = [s \in Sessions |-> IF s \in u THEN [ses[s] EXCEPT !.active = FALSE] ELSE ses[s]]
      BY <1>2 DEF EndSession
    <3>2. \A s \in u : Exists(s)
      BY <2>1, ActiveExist DEF ActiveOf
    <3> HIDE DEF u
    <3> QED BY <3>1, <3>2, EndingNames
  <2> QED BY <1>2, <2>2, FamFinish DEF EndSession, issue
<1> QED BY <1>1, <1>2 DEF SignOut

LEMMA FamAmend == ASSUME Typed, FamInv, NEW w \in Workers, Amend(w) PROVE FamInv'
<1>1. CASE BeginAmend(w)
  <2>1. PICK s \in Sessions :
          /\ Exists(s) /\ Begin(w, "amend", ses[s].user, NoToken)
          /\ todo' = [todo EXCEPT ![w] = Loaded({s})]
    BY <1>1 DEF BeginAmend
  <2>2. Loaded({s}) \subseteq Named
    BY <2>1, LoadedNamed
  <2>3. UNCHANGED <<owner, root, ses>>
    BY <1>1 DEF BeginAmend, tables, issue
  <2>4. NamesNoMore
    BY <2>1, <2>2, <2>3, TodoNamed DEF NamesNoMore, Exists, Typed, TypeOK
  <2>5. PICK q : pc' = [pc EXCEPT ![w] = "saveForm"] /\ req' = [req EXCEPT ![w] = q]
    BY <1>1, <2>1 DEF BeginAmend, Begin, Goto
  <2>6. Kin("saveForm", q) /\ \A v \in Workers \ {w} : todo'[v] = todo[v]
    BY <2>1 DEF Kin, Typed, TypeOK
  <2> QED BY <2>3, <2>4, <2>5, <2>6, FamStep, NamesLess
<1>2. CASE SaveForm(w)
  <2>1. PICK i \in todo[w], a \in BOOLEAN :
          ses' = [ses EXCEPT ![i.key] = [user |-> req[w].user, jti |-> i.jti, active |-> a]]
    BY <1>2 DEF SaveForm
  <2>2. i \in Instance /\ i = [key |-> i.key, jti |-> i.jti] /\ i.key \in Sessions
    BY DEF Typed, TypeOK, Instance
  <2>3. UNCHANGED <<owner, root>> /\ Finish(w)
    BY <1>2 DEF SaveForm, issue
  <2>4. todo'[w] = {} /\ \A v \in Workers \ {w} : todo'[v] = todo[v]
    BY <2>3 DEF Finish, Typed, TypeOK
  <2>5. NamesNoMore
    <3>1. ses'[i.key].jti = i.jti /\ \A s \in Sessions \ {i.key} : ses'[s] = ses[s]
      BY <2>1, <2>2 DEF Typed, TypeOK
    <3> QED BY <2>2, <2>4, <3>1, TodoNamed DEF NamesNoMore, Exists
  <2>6. Kin("idle", NoReq)
    BY DEF Kin
  <2> QED BY <2>3, <2>4, <2>5, <2>6, FamStep, NamesLess DEF Finish
<1> QED BY <1>1, <1>2 DEF Amend

LEMMA FamOthers ==
    ASSUME Typed, FamInv, Delete \/ OfferCode \/ ExpireCode \/ SwitchAccount
    PROVE  FamInv'
<1>1. UNCHANGED <<owner, root, pc, req, todo>>
  BY DEF Delete, OfferCode, ExpireCode, SwitchAccount, issue
<1>2. \A s \in Sessions : Exists(s)' => Exists(s) /\ ses'[s].jti = ses[s].jti
  BY DEF Delete, OfferCode, ExpireCode, SwitchAccount, Exists, Typed, TypeOK
<1>3. Named' \subseteq Named
  <2>1. NamesNoMore
    BY <1>1, <1>2, TodoNamed DEF NamesNoMore
  <2> QED BY <2>1, NamesLess
<1> QED BY <1>1, <1>3 DEF FamInv, Kin, Apart, Fits, Issued

LEMMA FamNext == Typed /\ FamInv /\ [Next]_vars => FamInv'
<1> SUFFICES ASSUME Typed, FamInv, [Next]_vars PROVE FamInv'
  OBVIOUS
<1>1. ASSUME NEW w \in Workers, SignIn(w) \/ Rotate(w) \/ SignOut(w) \/ Amend(w) \/ Abort(w)
      PROVE  FamInv'
  <2>1. CASE Abort(w)
    BY <2>1, FamFinish DEF Abort, tables, issue, Exists
  <2> QED BY <1>1, <2>1, FamSignIn, FamIssue, FamInsert, FamRotate, FamMove, FamBlacklist, FamSignOut,
     FamAmend
<1>2. CASE UNCHANGED vars
  BY <1>2 DEF vars, issue, tables, FamInv, Named, Exists, Kin, Apart, Fits, Issued
<1> QED BY <1>1, <1>2, FamOthers DEF Next

-----------------------------------------------------------------------------
(* Requests one after the other                                            *)

\* An active session names token t.
Naming(t) == \E s \in Sessions : ses[s].active /\ ses[s].jti = t

\* Outside S, the tokens accepted are those that active sessions name.
Balanced(S) == \A t \in Tokens \ S : Accepted(t) <=> Naming(t)

\* The statements at which a token presented still has its session, at which
\* it is refused already, and at which a new token waits for its session.
Rotating(l, q) ==
    l \in {"checkUser", "findSession", "moveSession"} \/ (l \in {"blacklist", "issue"} /\ q.op = "refresh")
Revoking(l, q) ==
    l \in {"findSession", "moveSession", "endSession"} \/ (l = "issue" /\ q.op = "refresh")
Adding(l) == l \in {"insertSession", "findSession", "moveSession"}

\* The tokens of a request at which the two tables are out of step.
Between(l, q) ==
    {t \in Tokens : (Adding(l) /\ t = q.new) \/ (Revoking(l, q) /\ t = q.from)}

\* What a request that runs alone, at statement l with the instances T, owes.
Books(l, q, T) ==
    /\ l # "saveForm" /\ Balanced(Between(l, q))
    /\ Rotating(l, q) => Naming(q.from)
    /\ Rotating(l, q) \/ l \in {"blacklist", "endSession"} => owner[q.from] = q.user
    /\ Revoking(l, q) => ~Accepted(q.from)
    /\ Adding(l) => Accepted(q.new) /\ owner[q.new] = q.user
    /\ l = "moveSession" => \A i \in T : i.jti = q.from

\* A session belongs to the user its token was issued to, and only tokens
\* that were issued are refused.
Owned ==
    /\ \A s \in Sessions : Exists(s) => owner[ses[s].jti] = ses[s].user
    /\ \A t \in black : Issued(t)

Alone(w) == \A v \in Workers \ {w} : pc[v] = "idle"

TrackInv ==
    calm =>
        /\ Owned
        /\ \A w \in Workers : pc[w] # "idle" => Alone(w)
        /\ \A w \in Workers : Alone(w) => Books(pc[w], req[w], todo[w])

LEMMA TrackInit == Init => TrackInv
<1> SUFFICES ASSUME Init PROVE TrackInv
  OBVIOUS
<1>1. \A t \in Tokens : ~Accepted(t) /\ ~Naming(t)
  BY DEF Init, Accepted, Issued, Naming, NoRow
<1>2. Owned
  BY DEF Init, Owned, Exists
<1>3. \A w \in Workers : pc[w] = "idle"
  BY DEF Init
<1>4. \A q, T : Books("idle", q, T)
  BY <1>1 DEF Books, Balanced, Rotating, Revoking, Adding
<1> QED BY <1>2, <1>3, <1>4 DEF TrackInv

\* A step of the one worker that runs, on to label l with request q and the
\* instances T.
LEMMA TrackStep ==
    ASSUME Typed, NEW w \in Workers, Alone(w), NEW l, NEW q, NEW T,
           pc' = [pc EXCEPT ![w] = l], req' = [req EXCEPT ![w] = q], todo' = [todo EXCEPT ![w] = T],
           Owned', Books(l, q, T)'
    PROVE  TrackInv'
<1>1. pc'[w] = l /\ req'[w] = q /\ todo'[w] = T /\ \A v \in Workers \ {w} : pc'[v] = "idle"
  BY DEF Typed, TypeOK, Alone
<1>2. ASSUME NEW v \in Workers, Alone(v)' PROVE Books(pc[v], req[v], todo[v])'
  <2>1. CASE v = w
    BY <1>1, <2>1
  <2>2. CASE v # w
    <3>1. l = "idle" /\ pc'[v] = "idle"
      BY <1>1, <1>2, <2>2 DEF Alone
    <3> QED BY <3>1 DEF Books, Rotating, Revoking, Adding, Between
  <2> QED BY <2>1, <2>2
<1>3. ASSUME NEW v \in Workers, pc'[v] # "idle" PROVE Alone(v)'
  BY <1>1, <1>3 DEF Alone
<1> QED BY <1>2, <1>3 DEF TrackInv

\* The request ends with the tables in step.
LEMMA TrackFinish ==
    ASSUME Typed, NEW w \in Workers, Alone(w), Finish(w), Owned', Balanced({})'
    PROVE  TrackInv'
<1>1. Books("idle", NoReq, {})'
  <2>1. Between("idle", NoReq) = {}
    BY DEF Between, Rotating, Revoking, Adding
  <2> QED BY <2>1 DEF Books, Rotating, Revoking, Adding
<1> QED BY <1>1, TrackStep DEF Finish

\* A statement that leaves tokens and sessions alone.
LEMMA AsideKeeps ==
    ASSUME UNCHANGED <<owner, black, ses>>
    PROVE  /\ \A t : Accepted(t)' = Accepted(t) /\ Naming(t)' = Naming(t)
           /\ \A S : Balanced(S)' = Balanced(S)
           /\ Owned' = Owned /\ \A s : Exists(s)' = Exists(s)
           /\ \A l, q, T : Books(l, q, T)' = Books(l, q, T)
<1>1. /\ \A t : Accepted(t)' = Accepted(t) /\ Naming(t)' = Naming(t)
      /\ Owned' = Owned /\ \A s : Exists(s)' = Exists(s)
  BY DEF Accepted, Issued, Naming, Owned, Exists
<1>2. \A S : Balanced(S)' = Balanced(S)
  BY <1>1 DEF Balanced
<1> QED BY <1>1, <1>2 DEF Books

\* What TrackInv says of the worker that takes a step in calm.
LEMMA Lone ==
    ASSUME Typed, TrackInv, calm, NEW w \in Workers, pc[w] # "idle"
    PROVE  Alone(w) /\ Owned /\ Books(pc[w], req[w], todo[w])
BY DEF TrackInv

\* What it says where no worker is busy.
LEMMA NoneBusy ==
    ASSUME Typed, TrackInv, calm, NEW w \in Workers, \A v \in Workers : pc[v] = "idle"
    PROVE  Alone(w) /\ Owned /\ Balanced({})
<1>1. Alone(w)
  BY DEF Alone
<1>2. Books("idle", req[w], todo[w])
  BY <1>1 DEF TrackInv
<1>3. Between("idle", req[w]) = {}
  BY DEF Between, Rotating, Revoking, Adding
<1> QED BY <1>1, <1>2, <1>3 DEF TrackInv, Books

LEMMA BeginsTrack ==
    ASSUME Typed, TrackInv, calm', NEW w \in Workers,
           BeginLogin(w) \/ BeginExchange(w) \/ BeginRefresh(w) \/ BeginLogout(w)
           \/ BeginAmend(w)
    PROVE  TrackInv'
<1>1. PICK op, u, x : Begin(w, op, u, x)
  BY DEF BeginLogin, BeginExchange, BeginRefresh, BeginLogout, BeginAmend, Begin
<1>2. calm /\ op # "amend" /\ \A v \in Workers : pc[v] = "idle"
  BY <1>1 DEF Begin
<1>3. Alone(w) /\ Owned /\ Balanced({})
  BY <1>2, NoneBusy
<1>4. UNCHANGED <<owner, black, ses>>
  BY DEF BeginLogin, BeginExchange, BeginRefresh, BeginLogout, BeginAmend, tables
<1>5. Owned' /\ \A l, q, T : Books(l, q, T)' = Books(l, q, T)
  BY <1>3, <1>4, AsideKeeps
<1>6. todo' = todo => todo' = [todo EXCEPT ![w] = todo[w]]
  BY DEF Typed, TypeOK
<1>7. \A l, q : l \in {"issue", "markUsed", "checkUser", "blacklist"}
          /\ (l = "issue" => q.op # "refresh") => Between(l, q) = {}
  BY DEF Between, Revoking, Adding
<1>8. CASE BeginLogin(w)
  <2>1. PICK y : Begin(w, "login", y, NoToken)
    BY <1>8 DEF BeginLogin
  <2> DEFINE q == [op |-> "login", user |-> y, from |-> NoToken, new |-> NoToken]
  <2>2. pc' = [pc EXCEPT ![w] = "issue"] /\ req' = [req EXCEPT ![w] = q] /\ q.op # "refresh" /\ todo' = todo
    BY <1>8, <2>1 DEF BeginLogin, Begin, Goto
  <2> HIDE DEF q
  <2>3. Books("issue", q, todo[w])
    BY <1>3, <1>7, <2>2 DEF Books, Rotating, Revoking, Adding
  <2> QED BY <1>3, <1>5, <1>6, <2>2, <2>3, TrackStep
<1>9. CASE BeginExchange(w)
  <2>1. PICK y, c : Begin(w, "exchange", y, c)
    BY <1>9 DEF BeginExchange
  <2> DEFINE q == [op |-> "exchange", user |-> y, from |-> c, new |-> NoToken]
  <2>2. pc' = [pc EXCEPT ![w] = "markUsed"] /\ req' = [req EXCEPT ![w] = q] /\ todo' = todo
    BY <1>9, <2>1 DEF BeginExchange, Begin, Goto
  <2> HIDE DEF q
  <2>3. Books("markUsed", q, todo[w])
    BY <1>3, <1>7, <2>2 DEF Books, Rotating, Revoking, Adding
  <2> QED BY <1>3, <1>5, <1>6, <2>2, <2>3, TrackStep
<1>10. CASE BeginRefresh(w) \/ BeginLogout(w)
  <2>1. PICK t \in held, o \in {"refresh", "logout"}, l \in {"checkUser", "blacklist"} :
          /\ Accepted(t) /\ Begin(w, o, owner[t], t) /\ Goto(w, l) /\ todo' = todo
          /\ o = "logout" => l = "blacklist"
    <3>1. CASE BeginRefresh(w)
      BY <3>1 DEF BeginRefresh
    <3>2. CASE BeginLogout(w)
      BY <3>2 DEF BeginLogout
    <3> QED BY <1>10, <3>1, <3>2
  <2> DEFINE q == [op |-> o, user |-> owner[t], from |-> t, new |-> NoToken]
  <2>2. pc' = [pc EXCEPT ![w] = l] /\ req' = [req EXCEPT ![w] = q] /\ todo' = todo
    BY <2>1 DEF Begin, Goto
  <2>3. q.from = t /\ q.user = owner[t] /\ q.op = o
    OBVIOUS
  <2> HIDE DEF q
  <2>4. Naming(t)
    BY <1>3, <2>1 DEF Balanced, Typed, TypeOK
  <2>5. Books(l, q, todo[w])
    BY <1>3, <1>7, <2>1, <2>3, <2>4 DEF Books, Rotating, Revoking, Adding
  <2> QED BY <1>3, <1>5, <1>6, <2>2, <2>5, TrackStep
<1>11. CASE BeginAmend(w)
  BY <1>11 DEF BeginAmend, Begin
<1> QED BY <1>8, <1>9, <1>10, <1>11

\* Statements that change neither tokens nor sessions.
LEMMA AsideTrack ==
    ASSUME Typed, TrackInv, calm', calm, NEW w \in Workers,
           MarkUsed(w) \/ DropCode(w) \/ CheckUser(w)
    PROVE  TrackInv'
<1>1. pc[w] \in {"markUsed", "dropCode", "checkUser"}
  BY DEF MarkUsed, DropCode, CheckUser
<1>2. Alone(w) /\ Owned /\ Books(pc[w], req[w], todo[w])
  BY <1>1, Lone
<1>3. UNCHANGED <<owner, black, ses>>
  BY DEF MarkUsed, DropCode, CheckUser, tables
<1>4. Between(pc[w], req[w]) = {}
  BY <1>1 DEF Between, Revoking, Adding
<1>5. Balanced({})
  BY <1>2, <1>4 DEF Books
<1>6. Owned' /\ Balanced({})' /\ \A l, q, T : Books(l, q, T)' = Books(l, q, T)
  BY <1>2, <1>3, <1>5, AsideKeeps
<1>7. CASE Finish(w)
  BY <1>2, <1>6, <1>7, TrackFinish
<1>8. CASE MarkUsed(w)
  <2>1. pc' = [pc EXCEPT ![w] = "issue"] /\ req' = [req EXCEPT ![w] = req[w]] /\ todo' = [todo EXCEPT ![w] = todo[w]]
    BY <1>8 DEF MarkUsed, Goto, Typed, TypeOK
  <2>2. req[w].op # "refresh"
    BY <1>8 DEF MarkUsed, Typed, Carried, Carries
  <2>3. Between("issue", req[w]) = {}
    BY <2>2 DEF Between, Revoking, Adding
  <2>4. Books("issue", req[w], todo[w])
    BY <1>5, <2>2, <2>3 DEF Books, Rotating, Revoking, Adding
  <2> QED BY <1>2, <1>6, <2>1, <2>4, TrackStep
<1>9. CASE CheckUser(w) /\ ~Finish(w)
  <2>1. pc' = [pc EXCEPT ![w] = "blacklist"] /\ req' = [req EXCEPT ![w] = req[w]] /\ todo' = [todo EXCEPT ![w] = todo[w]]
        /\ pc[w] = "checkUser"
    BY <1>9 DEF CheckUser, Goto, Typed, TypeOK
  <2>2. Between("blacklist", req[w]) = {}
    BY DEF Between, Revoking, Adding
  <2>3. Books("blacklist", req[w], todo[w])
    BY <1>2, <1>5, <2>1, <2>2 DEF Books, Rotating, Revoking, Adding
  <2> QED BY <1>2, <1>6, <2>1, <2>3, TrackStep
<1> QED BY <1>7, <1>8, <1>9 DEF DropCode, Deliver

\* The presented token is refused from here on.
LEMMA BlacklistTrack ==
    ASSUME Typed, TrackInv, calm', calm, NEW w \in Workers, Blacklist(w)
    PROVE  TrackInv'
<1>1. pc[w] = "blacklist" /\ UNCHANGED <<owner, ses, todo>> /\ black' = black \cup {req[w].from}
      /\ req[w].from \in Tokens /\ req[w].op \in {"refresh", "logout"}
  BY DEF Blacklist, Typed, Carried, Carries
<1>2. Alone(w) /\ Owned /\ Books("blacklist", req[w], todo[w])
  BY <1>1, Lone
<1>3. PICK l \in {"issue", "endSession"} :
        /\ l = "issue" <=> req[w].op = "refresh"
        /\ pc' = [pc EXCEPT ![w] = l] /\ req' = [req EXCEPT ![w] = req[w]] /\ todo' = [todo EXCEPT ![w] = todo[w]]
  BY DEF Blacklist, Goto, Typed, TypeOK
<1>4. PICK q, T : q = req[w] /\ T = todo[w]
  OBVIOUS
<1>5. Revoking(l, q) /\ ~Adding(l) /\ (Rotating(l, q) => Rotating("blacklist", q)) /\ l \in {"issue", "endSession"}
  BY <1>3, <1>4 DEF Revoking, Adding, Rotating
<1>6. Between(l, q) = {q.from} /\ Between("blacklist", q) = {}
  BY <1>1, <1>5, <1>4 DEF Between, Revoking, Adding
<1>7. /\ \A t : Naming(t)' = Naming(t)
      /\ \A t \in Tokens \ {q.from} : Accepted(t)' = Accepted(t)
      /\ ~Accepted(q.from)'
  BY <1>1, <1>4 DEF Naming, Accepted, Issued
<1>8. Balanced({q.from})'
  BY <1>2, <1>4, <1>6, <1>7 DEF Balanced, Books
<1>9. Books(l, q, T)'
  BY <1>1, <1>2, <1>4, <1>5, <1>6, <1>7, <1>8 DEF Books, Rotating, Revoking, Adding
<1>10. Owned'
  <2>1. Issued(q.from)
    BY <1>1, <1>2, <1>4, UsersAssumption DEF Books, Issued, Typed, Carried, Carries, Request
  <2> QED BY <1>1, <1>2, <1>4, <2>1 DEF Owned, Exists, Issued
<1> QED BY <1>2, <1>3, <1>4, <1>9, <1>10, TrackStep

\* The new token is accepted before a session names it.
LEMMA IssueTrack ==
    ASSUME Typed, FamInv, TrackInv, calm', calm, NEW w \in Workers, Issue(w)
    PROVE  TrackInv'
<1>1. pc[w] = "issue" /\ UNCHANGED <<black, ses, todo>> /\ req[w] \in Request
  BY DEF Issue, Typed, Carried, Carries
<1>2. Alone(w) /\ Owned /\ Books("issue", req[w], todo[w])
  BY <1>1, Lone
<1>3. PICK t \in Tokens : \E l \in Labels : IssueOf(w, t, l)
  BY IssueIs
<1>4. PICK l \in Labels : IssueOf(w, t, l)
  BY <1>3
<1>5. PICK old : old = req[w]
  OBVIOUS
<1> DEFINE q == [old EXCEPT !.new = t]
<1>6. pc' = [pc EXCEPT ![w] = l] /\ req' = [req EXCEPT ![w] = q] /\ todo' = [todo EXCEPT ![w] = todo[w]]
  BY <1>1, <1>4, <1>5 DEF IssueOf, Typed, TypeOK
<1>7. old \in Request /\ q.new = t /\ q.op = old.op /\ q.from = old.from /\ q.user = old.user
  BY <1>1, <1>5 DEF Request
<1> HIDE DEF q
<1>8. ~Issued(t) /\ owner' = [owner EXCEPT ![t] = old.user] /\ old.user \in Users
  BY <1>4, <1>5, <1>7 DEF IssueOf, Request
<1>9. owner'[t] = old.user /\ \A x \in Tokens \ {t} : owner'[x] = owner[x]
  BY <1>8 DEF Typed, TypeOK
<1>10. t \notin black /\ Accepted(t)' /\ \A x \in Tokens \ {t} : Accepted(x)' = Accepted(x)
  BY <1>1, <1>2, <1>8, <1>9, UsersAssumption DEF Owned, Accepted, Issued
<1>11. \A x : Naming(x)' = Naming(x)
  BY <1>1 DEF Naming
<1>12. Owned'
  <2>1. \A s \in Sessions : Exists(s) => ses[s].jti \in Tokens \ {t}
    BY <1>2, <1>8, UsersAssumption DEF Owned, Issued, Exists, Typed, TypeOK, SessionRow
  <2>2. \A x \in black : x \in Tokens \ {t}
    BY <1>10 DEF Typed, TypeOK
  <2> QED BY <1>1, <1>2, <1>9, <2>1, <2>2 DEF Owned, Exists, Issued
<1>13. CASE old.op = "refresh"
  <2>1. l = "findSession" /\ old.from \in Tokens
    BY <1>1, <1>4, <1>5, <1>13 DEF IssueOf, Typed, Carried, Carries
  <2>2. owner[old.from] = old.user /\ Naming(old.from) /\ ~Accepted(old.from)
    BY <1>2, <1>5, <1>13 DEF Books, Rotating, Revoking
  <2>3. old.from # t
    BY <1>8, <2>2, UsersAssumption DEF Issued
  <2>4. Between("issue", old) = {old.from} /\ Between(l, q) = {old.from, t}
    BY <1>7, <1>13, <2>1 DEF Between, Adding, Revoking
  <2>5. Balanced({old.from, t})'
    BY <1>2, <1>5, <1>10, <1>11, <2>4 DEF Books, Balanced
  <2>6. Books(l, q, todo[w])'
    BY <1>7, <1>9, <1>10, <1>11, <2>1, <2>2, <2>3, <2>4, <2>5 DEF Books, Rotating, Revoking, Adding
  <2> QED BY <1>2, <1>6, <1>12, <2>6, TrackStep
<1>14. CASE old.op # "refresh"
  <2>1. l = "insertSession"
    BY <1>4, <1>5, <1>14 DEF IssueOf
  <2>2. Between("issue", old) = {} /\ Between(l, q) = {t}
    BY <1>7, <1>14, <2>1 DEF Between, Adding, Revoking
  <2>3. Balanced({t})'
    BY <1>2, <1>5, <1>10, <1>11, <2>2 DEF Books, Balanced
  <2>4. Books(l, q, todo[w])'
    BY <1>7, <1>9, <1>10, <2>1, <2>2, <2>3 DEF Books, Rotating, Revoking, Adding
  <2> QED BY <1>2, <1>6, <1>12, <2>4, TrackStep
<1> QED BY <1>13, <1>14

\* No two sessions name a token, one in the table and one loaded from it.
LEMMA OneSession ==
    ASSUME Typed, FamInv, NEW r \in Sessions, Exists(r)
    PROVE  /\ \A s \in Sessions : Exists(s) /\ ses[s].jti = ses[r].jti => s = r
           /\ \A w \in Workers : \A i \in todo[w] : i.jti = ses[r].jti => i.key = r
<1>1. ASSUME NEW x \in Sessions, Exists(x) PROVE [key |-> x, jti |-> ses[x].jti] \in Named
  BY <1>1 DEF Named, Exists, Instance, Typed, TypeOK, SessionRow
<1>2. \A w \in Workers : todo[w] \subseteq Named
  BY TodoNamed
<1> QED BY <1>1, <1>2 DEF FamInv

LEMMA ActiveRow == ASSUME NEW s \in Sessions, ses[s].active PROVE Exists(s)
BY DEF Exists, NoRow

LEMMA InsertTrack ==
    ASSUME Typed, TrackInv, calm', calm, NEW w \in Workers, InsertSession(w)
    PROVE  TrackInv'
<1>1. pc[w] = "insertSession" /\ UNCHANGED <<owner, black>> /\ req[w].new \in Tokens
  BY DEF InsertSession, Typed, Carried, Carries
<1>2. Alone(w) /\ Owned /\ Books("insertSession", req[w], todo[w])
  BY <1>1, Lone
<1>3. PICK q, T : q = req[w] /\ T = todo[w]
  OBVIOUS
<1>4. PICK s \in Sessions :
        ~Exists(s) /\ ses' = [ses EXCEPT ![s] = [user |-> q.user, jti |-> q.new, active |-> TRUE]]
  BY <1>3 DEF InsertSession
<1>5. /\ ses'[s].user = q.user /\ ses'[s].jti = q.new /\ ses'[s].active
      /\ \A r \in Sessions \ {s} : ses'[r] = ses[r]
      /\ ~ses[s].active
  BY <1>4 DEF Typed, TypeOK, Exists, NoRow
<1>6. \A t : Accepted(t)' = Accepted(t)
  BY <1>1 DEF Accepted, Issued
<1>7. Naming(q.new)' /\ \A t \in Tokens \ {q.new} : Naming(t)' = Naming(t)
  BY <1>5 DEF Naming
<1>8. Balanced({})'
  <2>1. Between("insertSession", q) = {q.new}
    BY <1>1, <1>3 DEF Between, Adding, Revoking
  <2>2. Balanced({q.new}) /\ Accepted(q.new)
    BY <1>2, <1>3, <2>1 DEF Books, Adding
  <2> QED BY <1>6, <1>7, <2>2 DEF Balanced
<1>9. Owned'
  <2>1. owner[q.new] = q.user
    BY <1>2, <1>3 DEF Books, Adding
  <2> QED BY <1>1, <1>2, <1>5, <2>1 DEF Owned, Exists, Issued
<1>10. CASE Finish(w)
  BY <1>2, <1>8, <1>9, <1>10, TrackFinish
<1>11. CASE Goto(w, "dropCode") /\ UNCHANGED <<req, todo>>
  <2>1. pc' = [pc EXCEPT ![w] = "dropCode"] /\ req' = [req EXCEPT ![w] = q] /\ todo' = [todo EXCEPT ![w] = T]
    BY <1>3, <1>11 DEF Goto, Typed, TypeOK
  <2>2. Between("dropCode", q) = {}
    BY DEF Between, Adding, Revoking
  <2>3. Books("dropCode", q, T)'
    BY <1>8, <2>2 DEF Books, Adding, Revoking, Rotating
  <2> QED BY <1>2, <1>9, <2>1, <2>3, TrackStep
<1> QED BY <1>10, <1>11 DEF InsertSession, Deliver

\* In calm the session that names the token presented is always found.
LEMMA FindTrack ==
    ASSUME Typed, TrackInv, calm', calm, NEW w \in Workers, FindSession(w)
    PROVE  TrackInv'
<1>1. pc[w] = "findSession" /\ UNCHANGED <<owner, black, ses>> /\ req[w].from \in Tokens /\ req[w] \in Request
  BY DEF FindSession, tables, Typed, Carried, Carries
<1>2. Alone(w) /\ Owned /\ Books("findSession", req[w], todo[w])
  BY <1>1, Lone
<1>3. PICK q : q = req[w]
  OBVIOUS
<1> DEFINE mine == {s \in ActiveOf(q.user) : ses[s].jti = q.from}
<1>4. mine # {}
  <2>1. Naming(q.from) /\ owner[q.from] = q.user
    BY <1>2, <1>3 DEF Books, Rotating
  <2>2. PICK s \in Sessions : ses[s].active /\ ses[s].jti = q.from
    BY <2>1 DEF Naming
  <2>3. ses[s].user = q.user
    BY <1>2, <2>1, <2>2, ActiveRow DEF Owned
  <2> QED BY <2>2, <2>3 DEF ActiveOf
<1>5. PICK s \in mine : todo' = [todo EXCEPT ![w] = Loaded({s})] /\ Goto(w, "moveSession") /\ req' = req
  BY <1>3, <1>4 DEF FindSession
<1>6. PICK T : T = Loaded({s})
  OBVIOUS
<1>7. \A i \in T : i.jti = q.from
  BY <1>5, <1>6 DEF Loaded
<1>8. pc' = [pc EXCEPT ![w] = "moveSession"] /\ req' = [req EXCEPT ![w] = q] /\ todo' = [todo EXCEPT ![w] = T]
  BY <1>3, <1>5, <1>6 DEF Goto, Typed, TypeOK
<1>9. Between("moveSession", q) = Between("findSession", q)
  BY DEF Between, Adding, Revoking
<1>10. Books("moveSession", q, T)
  BY <1>2, <1>3, <1>7, <1>9 DEF Books, Adding, Revoking, Rotating
<1>11. Owned' /\ \A l, x, S : Books(l, x, S)' = Books(l, x, S)
  BY <1>1, <1>2, AsideKeeps
<1> HIDE DEF mine
<1> QED BY <1>2, <1>8, <1>10, <1>11, TrackStep

\* The row of the token presented gets the new one, and no other row has it.
LEMMA MoveTrack ==
    ASSUME Typed, FamInv, TrackInv, calm', calm, NEW w \in Workers, MoveSession(w)
    PROVE  TrackInv'
<1>1. pc[w] = "moveSession" /\ UNCHANGED <<owner, black>> /\ req[w].new \in Tokens /\ req[w].from \in Tokens /\ Finish(w)
  BY DEF MoveSession, Deliver, Typed, Carried, Carries
<1>2. Alone(w) /\ Owned /\ Books("moveSession", req[w], todo[w])
  BY <1>1, Lone
<1>3. PICK q : q = req[w]
  OBVIOUS
<1>4. PICK i \in todo[w] :
        \/ Exists(i.key) /\ ses' = [ses EXCEPT ![i.key].jti = q.new]
        \/ ~Exists(i.key) /\ UNCHANGED ses
  BY <1>3 DEF MoveSession
<1>5. i.jti = q.from /\ Naming(q.from) /\ ~Accepted(q.from) /\ Accepted(q.new) /\ owner[q.new] = q.user
      /\ owner[q.from] = q.user
  BY <1>2, <1>3, <1>4 DEF Books, Rotating, Revoking, Adding
<1>6. PICK r \in Sessions : ses[r].active /\ ses[r].jti = q.from
  BY <1>5 DEF Naming
<1>7. r = i.key /\ Exists(r) /\ \A s \in Sessions : Exists(s) /\ ses[s].jti = q.from => s = r
  BY <1>4, <1>5, <1>6, ActiveRow, OneSession
<1>8. /\ ses'[r].jti = q.new /\ ses'[r].active /\ ses'[r].user = ses[r].user
      /\ \A s \in Sessions \ {r} : ses'[s] = ses[s]
  <2>1. ses[r] \in SessionRow
    BY <1>7 DEF Exists, Typed, TypeOK
  <2> QED BY <1>4, <1>6, <1>7, <2>1 DEF Typed, TypeOK, SessionRow
<1>9. Naming(q.new)' /\ \A t \in Tokens \ {q.from, q.new} : Naming(t)' = Naming(t)
  BY <1>6, <1>8 DEF Naming
<1>10. q.from # q.new /\ ~Naming(q.from)'
  BY <1>5, <1>7, <1>8, ActiveRow DEF Naming
<1>11. \A t : Accepted(t)' = Accepted(t)
  BY <1>1 DEF Accepted, Issued
<1>12. Balanced({})'
  <2>1. Between("moveSession", q) = {q.from, q.new}
    BY <1>1, <1>3 DEF Between, Adding, Revoking
  <2>2. Balanced({q.from, q.new})
    BY <1>2, <1>3, <2>1 DEF Books
  <2> QED BY <1>5, <1>9, <1>10, <1>11, <2>2 DEF Balanced
<1>13. Owned'
  <2>1. ses[r].user = q.user
    BY <1>2, <1>5, <1>6, <1>7 DEF Owned
  <2> QED BY <1>1, <1>2, <1>5, <1>8, <2>1 DEF Owned, Exists, Issued
<1> QED BY <1>1, <1>2, <1>12, <1>13, TrackFinish

\* Logging out ends every active session of the token it blacklisted.
LEMMA EndTrack ==
    ASSUME Typed, TrackInv, calm', calm, NEW w \in Workers, EndSession(w)
    PROVE  TrackInv'
<1>1. pc[w] = "endSession" /\ UNCHANGED <<owner, black>> /\ Finish(w) /\ req[w].from \in Tokens
  BY DEF EndSession, Typed, Carried, Carries
<1>2. Alone(w) /\ Owned /\ Books("endSession", req[w], todo[w])
  BY <1>1, Lone
<1>3. PICK q : q = req[w]
  OBVIOUS
<1>4. owner[q.from] = q.user /\ ~Accepted(q.from)
  BY <1>2, <1>3 DEF Books, Revoking
<1>5. ASSUME NEW s \in Sessions
      PROVE  /\ ses'[s].active <=> ses[s].active /\ ses[s].jti # q.from
             /\ Exists(s)' <=> Exists(s)
             /\ Exists(s) => ses'[s].jti = ses[s].jti /\ ses'[s].user = ses[s].user
  <2>1. CASE s \in ActiveOf(q.user) /\ ses[s].jti = q.from
    <3>1. ses'[s] = [ses[s] EXCEPT !.active = FALSE] /\ Exists(s) /\ ses[s] \in SessionRow
      BY <1>3, <2>1, ActiveRow DEF EndSession, ActiveOf, Exists, Typed, TypeOK
    <3>2. ses'[s] \in SessionRow
      BY <3>1 DEF SessionRow
    <3> QED BY <2>1, <3>1, <3>2, NoRowApart DEF Exists, SessionRow
  <2>2. CASE ~(s \in ActiveOf(q.user) /\ ses[s].jti = q.from)
    <3>1. ses'[s] = ses[s]
      BY <1>3, <2>2 DEF EndSession
    <3>2. ses[s].active => ses[s].jti # q.from
      BY <1>2, <1>4, <2>2, ActiveRow DEF Owned, ActiveOf
    <3> QED BY <3>1, <3>2 DEF Exists
  <2> QED BY <2>1, <2>2
<1>6. ~Naming(q.from)' /\ \A t \in Tokens \ {q.from} : Naming(t)' = Naming(t)
  BY <1>5, ActiveRow DEF Naming
<1>7. \A t : Accepted(t)' = Accepted(t)
  BY <1>1 DEF Accepted, Issued
<1>8. Balanced({})'
  <2>1. Between("endSession", q) = {q.from}
    BY <1>1, <1>3 DEF Between, Adding, Revoking
  <2>2. Balanced({q.from})
    BY <1>2, <1>3, <2>1 DEF Books
  <2> QED BY <1>4, <1>6, <1>7, <2>2 DEF Balanced
<1>9. Owned'
  BY <1>1, <1>2, <1>5 DEF Owned, Issued
<1> QED BY <1>1, <1>2, <1>8, <1>9, TrackFinish

\* What happens outside the requests leaves tokens and sessions alone.
LEMMA OthersTrack ==
    ASSUME Typed, TrackInv, calm', OfferCode \/ ExpireCode \/ SwitchAccount
    PROVE  TrackInv'
<1>1. UNCHANGED <<owner, black, ses, calm, pc, req, todo>>
  BY DEF OfferCode, ExpireCode, SwitchAccount
<1> QED BY <1>1, AsideKeeps DEF TrackInv, Alone

LEMMA TrackNext == Typed /\ FamInv /\ TrackInv /\ [Next]_vars => TrackInv'
<1> SUFFICES ASSUME Typed, FamInv, TrackInv, [Next]_vars, calm' PROVE TrackInv'
  BY DEF TrackInv
<1>1. CASE UNCHANGED vars
  <2>1. UNCHANGED <<owner, black, ses, calm, pc, req, todo>>
    BY <1>1 DEF vars
  <2> QED BY <2>1, AsideKeeps DEF TrackInv, Alone
<1>2. ASSUME NEW w \in Workers, SignIn(w) PROVE TrackInv'
  <2>1. BeginLogin(w) \/ BeginExchange(w) \/ calm
    BY <1>2 DEF SignIn, MarkUsed, Issue, InsertSession, DropCode
  <2> QED BY <1>2, <2>1, BeginsTrack, AsideTrack, IssueTrack, InsertTrack DEF SignIn
<1>3. ASSUME NEW w \in Workers, Rotate(w) PROVE TrackInv'
  <2>1. BeginRefresh(w) \/ calm
    BY <1>3 DEF Rotate, CheckUser, Blacklist, FindSession, MoveSession
  <2> QED BY <1>3, <2>1, BeginsTrack, AsideTrack, BlacklistTrack, FindTrack, MoveTrack DEF Rotate
<1>4. ASSUME NEW w \in Workers, SignOut(w) PROVE TrackInv'
  <2>1. BeginLogout(w) \/ calm
    BY <1>4 DEF SignOut, EndSession
  <2> QED BY <1>4, <2>1, BeginsTrack, EndTrack DEF SignOut
<1>5. ASSUME NEW w \in Workers, Amend(w) PROVE TrackInv'
  <2>1. CASE BeginAmend(w)
    BY <2>1, BeginsTrack
  <2>2. CASE SaveForm(w)
    <3>1. calm /\ pc[w] = "saveForm"
      BY <2>2 DEF SaveForm
    <3> QED BY <3>1, Lone DEF Books
  <2> QED BY <1>5, <2>1, <2>2 DEF Amend
<1>6. CASE OfferCode \/ ExpireCode \/ SwitchAccount
  BY <1>6, OthersTrack
<1>7. ~Delete /\ \A w \in Workers : ~Abort(w)
  BY DEF Delete, Abort
<1> QED BY <1>1, <1>2, <1>3, <1>4, <1>5, <1>6, <1>7 DEF Next

-----------------------------------------------------------------------------
\* The token, session and cache tables and the locals of requests stay
\* well-typed; every statement finds in its request what it needs.
THEOREM TypeCorrect == Spec => []TypeOK
<1>1. Typed => TypeOK
  BY DEF Typed
<1> QED BY TypedInit, TypedNext, <1>1, PTL DEF Spec

\* However refreshes and exchanges overlap, a token or code gets no more tokens
\* than there are workers (RefreshTokenView.post, exchange_for_jwt_tokens).
THEOREM SingleUse == Spec => []SingleUseBounded
<1>1. UseInv => SingleUseBounded
  <2> SUFFICES ASSUME UseInv, NEW x \in Tokens \cup Codes
               PROVE  Cardinality(For(x)) <= Cardinality(Workers)
    BY DEF SingleUseBounded, For
  <2>1. Pending(x) \in SUBSET Workers
    BY DEF Pending
  <2> QED BY <2>1, Counts DEF UseInv, Bounded
<1> QED BY TypedInit, TypedNext, UseInit, UseNext, <1>1, PTL DEF Spec

\* No rotation, logout or sign-in makes a session active that had ended; only an
\* administrator's form does (RefreshTokenView.post, UserSessionAdmin).
THEOREM EndedForGood == Spec => NoRevival
<1>1. Typed /\ [Next]_vars => [Ends]_ses
  BY EndsStep
<1> QED BY TypedInit, TypedNext, <1>1, PTL DEF Spec, NoRevival, Ends

\* Whichever rotation moves a row last, and whatever instance an administrator's
\* form writes back over it, two sessions never name tokens of one sign-in
\* (RefreshTokenView.post, UserSessionAdmin).
THEOREM FamiliesKeptApart == Spec => []FamiliesApart
<1>1. Typed /\ FamInv => FamiliesApart
  <2> SUFFICES ASSUME Typed, FamInv, NEW s \in Sessions, NEW r \in Sessions, Exists(s), Exists(r), s # r
               PROVE  root[ses[s].jti] # root[ses[r].jti]
    BY DEF FamiliesApart
  <2>1. ASSUME NEW x \in Sessions, Exists(x) PROVE [key |-> x, jti |-> ses[x].jti] \in Named
    BY <2>1 DEF Named, Exists, Instance, Typed, TypeOK, SessionRow
  <2> QED BY <2>1 DEF FamInv
<1> QED BY TypedInit, TypedNext, FamInit, FamNext, <1>1, PTL DEF Spec

\* Sign-ins, rotations and logouts that ran one after the other leave accepted
\* exactly the tokens that active sessions name (RefreshTokenView.post,
\* logout_view).
THEOREM TablesInStep == Spec => []SessionsTrackTokens
<1>1. Typed /\ TrackInv => SessionsTrackTokens
  <2> SUFFICES ASSUME Typed, TrackInv, calm, \A w \in Workers : pc[w] = "idle"
               PROVE  {t \in Tokens : Accepted(t)} = {ses[s].jti : s \in {s \in Sessions : ses[s].active}}
    BY DEF SessionsTrackTokens
  <2>1. Balanced({})
    BY NoneBusy, WorkersAssumption
  <2>2. \A s \in Sessions : ses[s].active => ses[s].jti \in Tokens
    BY DEF Typed, TypeOK, SessionRow, NoRow
  <2> QED BY <2>1, <2>2 DEF Balanced, Naming
<1> QED BY TypedInit, TypedNext, FamInit, FamNext, TrackInit, TrackNext, <1>1, PTL DEF Spec

=============================================================================
