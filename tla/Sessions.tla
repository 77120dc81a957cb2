------------------------------- MODULE Sessions -------------------------------
(***************************************************************************)
(* Refresh tokens and device sessions: the OutstandingToken and            *)
(* BlacklistedToken tables of simplejwt, the UserSession table, the        *)
(* exchange codes kept in the cache, the endpoints that log a user in,     *)
(* rotate a token and log out, and the administrators' pages for accounts  *)
(* and sessions.                                                           *)
(*                                                                         *)
(* Every statement commits alone (autocommit); pc[w] names the one worker  *)
(* w sends next.  A session row names its refresh token by jti; nothing    *)
(* else ties the two, so each handler has to keep them in step.  Any       *)
(* token a response delivered may be presented again at any time.          *)
(***************************************************************************)
EXTENDS Integers, FiniteSets

CONSTANTS
    Users,     \* accounts that were verified
    Tokens,    \* jti values of refresh tokens
    Sessions,  \* primary keys of UserSession
    Codes,     \* exchange codes
    Workers,   \* request-handling threads
    Ops,       \* the endpoints clients call in this instance
    MayAbort,  \* whether a statement may fail and end its request
    NoUser, NoToken

AllOps == {"login", "exchange", "refresh", "logout", "amend"}

ASSUME UsersAssumption   == NoUser \notin Users
ASSUME TokensAssumption  == IsFiniteSet(Tokens) /\ NoToken \notin Tokens \cup Codes /\ Tokens \cap Codes = {}
ASSUME WorkersAssumption == IsFiniteSet(Workers) /\ Workers # {}
ASSUME OpsAssumption     == Ops \subseteq AllOps \cup {"delete", "admin"} /\ MayAbort \in BOOLEAN

VARIABLES
    enabled,  \* User.is_active
    owner,    \* OutstandingToken: the user each jti was issued to
    black,    \* BlacklistedToken: the jtis refused
    ses,      \* the UserSession table
    code,     \* the cache entry of each exchange code
    source,   \* history: the token or code each token was issued for
    root,     \* history: the token of the sign-in each token descends from
    held,     \* history: the tokens some response delivered
    calm,     \* history: so far requests ran one at a time and to their end,
              \* and no administrator changed or deleted a session
    pc,       \* the statement each worker executes next
    req,      \* the request each worker serves
    todo      \* the session instance each worker loaded to save it, if any

tables == <<enabled, owner, black, ses, code>>
issue  == <<source, root>>
vars   == <<enabled, owner, black, ses, code, source, root, held, calm, pc, req, todo>>

SessionRow == [user : Users, jti : Tokens, active : BOOLEAN]
NoRow      == [user |-> NoUser, jti |-> NoToken, active |-> FALSE]
Instance   == [key : Sessions, jti : Tokens]
Entry      == [user : Users, state : {"unused", "used"}]
NoEntry    == [user |-> NoUser, state |-> "none"]
Request    == [op : AllOps, user : Users, from : Tokens \cup Codes \cup {NoToken},
               new : Tokens \cup {NoToken}]
NoReq      == [op |-> "none", user |-> NoUser, from |-> NoToken, new |-> NoToken]
Labels     == {"idle", "markUsed", "checkUser", "blacklist", "issue", "findSession", "moveSession",
               "insertSession", "dropCode", "endSession", "saveForm"}

TypeOK ==
    /\ enabled \in [Users -> BOOLEAN]
    /\ owner \in [Tokens -> Users \cup {NoUser}] /\ black \subseteq Tokens
    /\ ses \in [Sessions -> SessionRow \cup {NoRow}]
    /\ code \in [Codes -> Entry \cup {NoEntry}]
    /\ source \in [Tokens -> Tokens \cup Codes \cup {NoToken}]
    /\ root \in [Tokens -> Tokens \cup {NoToken}] /\ held \subseteq Tokens /\ calm \in BOOLEAN
    /\ pc \in [Workers -> Labels]
    /\ req \in [Workers -> Request \cup {NoReq}]
    /\ todo \in [Workers -> SUBSET Instance]

-----------------------------------------------------------------------------
Issued(t) == owner[t] # NoUser
Exists(s) == ses[s] # NoRow
ActiveOf(u) == {s \in Sessions : ses[s].user = u /\ ses[s].active}
Loaded(S) == {[key |-> s, jti |-> ses[s].jti] : s \in S}

\* What RefreshToken(...) accepts: a token that was issued and is not blacklisted.
Accepted(t) == Issued(t) /\ t \notin black

Goto(w, label) == pc' = [pc EXCEPT ![w] = label]

Begin(w, op, u, from) ==
    /\ pc[w] = "idle" /\ op \in Ops
    /\ req' = [req EXCEPT ![w] = [op |-> op, user |-> u, from |-> from, new |-> NoToken]]
    /\ calm' = (calm /\ op # "amend" /\ \A v \in Workers : pc[v] = "idle")

Finish(w) ==
    /\ pc' = [pc EXCEPT ![w] = "idle"]
    /\ req' = [req EXCEPT ![w] = NoReq]
    /\ todo' = [todo EXCEPT ![w] = {}]

\* The response carries the token issued for the request.
Deliver(w) == Finish(w) /\ held' = held \cup {req[w].new}

-----------------------------------------------------------------------------
(* POST login/ and POST exchange-token/                                    *)

\* LoginSerializer found the account and its password right, and is_active.
BeginLogin(w) ==
    /\ \E u \in Users : enabled[u] /\ Begin(w, "login", u, NoToken)
    /\ Goto(w, "issue")
    /\ UNCHANGED <<tables, issue, held, todo>>

\* Fault: a used code is not refused.
BeginExchangeAny(w) ==
    /\ \E c \in Codes : code[c] # NoEntry /\ Begin(w, "exchange", code[c].user, c)
    /\ Goto(w, "markUsed")
    /\ UNCHANGED <<tables, issue, held, todo>>

\* The cache entry is read once; it is written and deleted later.
BeginExchange(w) ==
    /\ \E c \in Codes : code[c].state = "unused" /\ Begin(w, "exchange", code[c].user, c)
    /\ Goto(w, "markUsed")
    /\ UNCHANGED <<tables, issue, held, todo>>

MarkUsed(w) ==
    /\ pc[w] = "markUsed"
    /\ code' = [code EXCEPT ![req[w].from] = [user |-> req[w].user, state |-> "used"]]
    /\ Goto(w, "issue")
    /\ UNCHANGED <<enabled, owner, black, ses, issue, held, req, todo, calm>>

\* RefreshToken.for_user: a new jti for the user, active or not.
Issue(w) ==
    /\ pc[w] = "issue"
    /\ \E t \in Tokens :
          /\ ~Issued(t)
          /\ owner' = [owner EXCEPT ![t] = req[w].user]
          /\ source' = [source EXCEPT ![t] = req[w].from]
          /\ root' = [root EXCEPT ![t] = IF req[w].op = "refresh" THEN root[req[w].from] ELSE t]
          /\ req' = [req EXCEPT ![w].new = t]
    /\ Goto(w, IF req[w].op = "refresh" THEN "findSession" ELSE "insertSession")
    /\ UNCHANGED <<enabled, black, ses, code, held, todo, calm>>

InsertSession(w) ==
    /\ pc[w] = "insertSession"
    /\ \E s \in Sessions :
          /\ ~Exists(s) /\ \A v \in Workers : s \notin {i.key : i \in todo[v]}
          /\ ses' = [ses EXCEPT ![s] = [user |-> req[w].user, jti |-> req[w].new, active |-> TRUE]]
    /\ \/ /\ req[w].op = "login" /\ Deliver(w)
       \/ /\ req[w].op = "exchange" /\ Goto(w, "dropCode")
          /\ UNCHANGED <<held, req, todo>>
    /\ UNCHANGED <<enabled, owner, black, code, issue, calm>>

DropCode(w) ==
    /\ pc[w] = "dropCode"
    /\ code' = [code EXCEPT ![req[w].from] = NoEntry]
    /\ Deliver(w)
    /\ UNCHANGED <<enabled, owner, black, ses, issue, calm>>

-----------------------------------------------------------------------------
(* POST token/refresh/ and POST logout/                                    *)

BeginRefresh(w) ==
    /\ \E t \in held : Accepted(t) /\ Begin(w, "refresh", owner[t], t)
    /\ Goto(w, "checkUser")
    /\ UNCHANGED <<tables, issue, held, todo>>

\* A disabled account is answered 403.
CheckUser(w) ==
    /\ pc[w] = "checkUser"
    /\ \/ /\ enabled[req[w].user] /\ Goto(w, "blacklist")
          /\ UNCHANGED <<req, todo>>
       \/ /\ ~enabled[req[w].user] /\ Finish(w)
    /\ UNCHANGED <<tables, issue, held, calm>>

\* Token.blacklist() is a get_or_create: a second one is no error.
Blacklist(w) ==
    /\ pc[w] = "blacklist"
    /\ black' = black \cup {req[w].from}
    /\ Goto(w, IF req[w].op = "refresh" THEN "issue" ELSE "endSession")
    /\ UNCHANGED <<enabled, owner, ses, code, issue, held, req, todo, calm>>

\* Fault: the session is looked up by the token just issued.
FindNewSession(w) ==
    /\ pc[w] = "findSession"
    /\ {s \in ActiveOf(req[w].user) : ses[s].jti = req[w].new} = {}
    /\ Deliver(w)
    /\ UNCHANGED <<tables, issue, calm>>

\* Fault: the session is looked up by its user alone.
FindAnySession(w) ==
    /\ pc[w] = "findSession"
    /\ \E s \in ActiveOf(req[w].user) : todo' = [todo EXCEPT ![w] = Loaded({s})]
    /\ Goto(w, "moveSession")
    /\ UNCHANGED <<tables, issue, calm, held, req>>

\* The active session that names the token presented, if there is one.
FindSession(w) ==
    /\ pc[w] = "findSession"
    /\ LET mine == {s \in ActiveOf(req[w].user) : ses[s].jti = req[w].from}
       IN \/ /\ mine = {} /\ Deliver(w)
          \/ \E s \in mine :
                /\ todo' = [todo EXCEPT ![w] = Loaded({s})]
                /\ Goto(w, "moveSession")
                /\ UNCHANGED <<held, req>>
    /\ UNCHANGED <<tables, issue, calm>>

\* Fault: the instance is saved whole, so a logout in between is undone.
MoveSessionWhole(w) ==
    /\ pc[w] = "moveSession"
    /\ \E i \in todo[w] :
          ses' = [ses EXCEPT ![i.key] = [user |-> req[w].user, jti |-> req[w].new, active |-> TRUE]]
    /\ Deliver(w)
    /\ UNCHANGED <<enabled, owner, black, code, issue, calm>>

\* Fault: a row deleted in between is written to.
MoveSessionBlind(w) ==
    /\ pc[w] = "moveSession"
    /\ \E i \in todo[w] : ses' = [ses EXCEPT ![i.key].jti = req[w].new]
    /\ Deliver(w)
    /\ UNCHANGED <<enabled, owner, black, code, issue, calm>>

\* save(update_fields=...) writes the jti of a row that is still there, and
\* raises, ending the request, if it is gone.
MoveSession(w) ==
    /\ pc[w] = "moveSession"
    /\ \E i \in todo[w] :
          \/ /\ Exists(i.key)
             /\ ses' = [ses EXCEPT ![i.key].jti = req[w].new]
             /\ Deliver(w)
          \/ /\ ~Exists(i.key) /\ Finish(w)
             /\ UNCHANGED <<ses, held>>
    /\ UNCHANGED <<enabled, owner, black, code, issue, calm>>

\* Whatever the token, the answer is 200; a refused one changes nothing.
BeginLogout(w) ==
    /\ \E t \in held : Accepted(t) /\ Begin(w, "logout", owner[t], t)
    /\ Goto(w, "blacklist")
    /\ UNCHANGED <<tables, issue, held, todo>>

EndSession(w) ==
    /\ pc[w] = "endSession"
    /\ ses' = [s \in Sessions |-> IF s \in ActiveOf(req[w].user) /\ ses[s].jti = req[w].from
                                  THEN [ses[s] EXCEPT !.active = FALSE] ELSE ses[s]]
    /\ Finish(w)
    /\ UNCHANGED <<enabled, owner, black, code, issue, held, calm>>

-----------------------------------------------------------------------------
(* UserSessionAdmin                                                        *)

\* The change form of a session is posted: its row is loaded and bound.
BeginAmend(w) ==
    /\ \E s \in Sessions :
          /\ Exists(s) /\ Begin(w, "amend", ses[s].user, NoToken)
          /\ todo' = [todo EXCEPT ![w] = Loaded({s})]
    /\ Goto(w, "saveForm")
    /\ UNCHANGED <<tables, issue, held>>

\* The form sets is_active and obj.save() writes the whole instance, so the jti
\* it was loaded with as well, and inserts the row again if it was deleted.
SaveForm(w) ==
    /\ pc[w] = "saveForm"
    /\ \E i \in todo[w], active \in BOOLEAN :
          ses' = [ses EXCEPT ![i.key] = [user |-> req[w].user, jti |-> i.jti, active |-> active]]
    /\ Finish(w)
    /\ UNCHANGED <<enabled, owner, black, code, issue, held, calm>>

\* An administrator deletes a session, which leaves its token as it is.
Delete ==
    /\ "delete" \in Ops
    /\ \E s \in Sessions : Exists(s) /\ ses' = [ses EXCEPT ![s] = NoRow]
    /\ calm' = FALSE
    /\ UNCHANGED <<enabled, owner, black, code, issue, held, pc, req, todo>>

-----------------------------------------------------------------------------
(* Surroundings                                                            *)

\* The e-mail link stores a code; the cache drops an entry after a minute.
OfferCode ==
    /\ \E c \in Codes, u \in Users :
          /\ enabled[u] /\ code[c] = NoEntry
          /\ \A t \in Tokens : source[t] # c
          /\ \A w \in Workers : req[w].from # c
          /\ code' = [code EXCEPT ![c] = [user |-> u, state |-> "unused"]]
    /\ UNCHANGED <<enabled, owner, black, ses, issue, held, pc, req, todo, calm>>

ExpireCode ==
    /\ \E c \in Codes : code[c] # NoEntry /\ code' = [code EXCEPT ![c] = NoEntry]
    /\ UNCHANGED <<enabled, owner, black, ses, issue, held, pc, req, todo, calm>>

\* An administrator's form for the account takes is_active away or gives it back.
SwitchAccount ==
    /\ "admin" \in Ops
    /\ \E u \in Users : enabled' = [enabled EXCEPT ![u] = ~@]
    /\ UNCHANGED <<owner, black, ses, code, issue, held, pc, req, todo, calm>>

\* A statement fails and the handler answers 500: nothing is undone.
Abort(w) ==
    /\ MayAbort /\ pc[w] # "idle" /\ Finish(w) /\ calm' = FALSE
    /\ UNCHANGED <<tables, issue, held>>

-----------------------------------------------------------------------------
Init ==
    /\ enabled = [u \in Users |-> TRUE]
    /\ owner = [t \in Tokens |-> NoUser] /\ black = {}
    /\ ses = [s \in Sessions |-> NoRow]
    /\ code = [c \in Codes |-> NoEntry]
    /\ source = [t \in Tokens |-> NoToken] /\ root = [t \in Tokens |-> NoToken]
    /\ held = {} /\ calm = TRUE
    /\ pc = [w \in Workers |-> "idle"]
    /\ req = [w \in Workers |-> NoReq]
    /\ todo = [w \in Workers |-> {}]

SignIn(w)  == BeginLogin(w) \/ BeginExchange(w) \/ MarkUsed(w) \/ Issue(w) \/ InsertSession(w) \/ DropCode(w)
Rotate(w)  == BeginRefresh(w) \/ CheckUser(w) \/ Blacklist(w) \/ FindSession(w) \/ MoveSession(w)
SignOut(w) == BeginLogout(w) \/ EndSession(w)
Amend(w)   == BeginAmend(w) \/ SaveForm(w)

Next ==
    \/ \E w \in Workers : SignIn(w) \/ Rotate(w) \/ SignOut(w) \/ Amend(w) \/ Abort(w)
    \/ Delete \/ OfferCode \/ ExpireCode \/ SwitchAccount

Spec == Init /\ [][Next]_vars

-----------------------------------------------------------------------------
(* Properties                                                              *)

\* No more requests get a token for a refresh token or an exchange code than
\* were already running when it was first used.  That one request gets one, the
\* "single-use" of ExchangeTokenService, holds only without overlap: the code
\* looks and marks in separate calls (RefreshTokenView.post,
\* exchange_for_jwt_tokens).
SingleUseBounded ==
    \A x \in Tokens \cup Codes :
        Cardinality({t \in Tokens : source[t] = x}) <= Cardinality(Workers)

\* A session only ever names tokens that descend from the sign-in that opened
\* it: whichever of two rotations moves the row last, and whatever instance an
\* administrator's form writes back over a rotation, no token of one session
\* ends up in another's row (RefreshTokenView.post, UserSessionAdmin).
FamiliesApart ==
    \A s, r \in Sessions :
        Exists(s) /\ Exists(r) /\ s # r => root[ses[s].jti] # root[ses[r].jti]

\* A session that ended stays ended, unless an administrator's form saves it as
\* active: no rotation that found it active before a logout writes it back.
NoRevival ==
    [][\A s \in Sessions : Exists(s) /\ ~ses[s].active =>
           ~ses'[s].active \/ \E w \in Workers : SaveForm(w)]_ses

\* Sign-ins, rotations and logouts that ran one after the other leave the two
\* tables in step: the tokens still accepted are those the active sessions name
\* (RefreshTokenView.post, logout_view).
SessionsTrackTokens ==
    calm /\ (\A w \in Workers : pc[w] = "idle") =>
        {t \in Tokens : Accepted(t)} = {ses[s].jti : s \in {s \in Sessions : ses[s].active}}

=============================================================================
