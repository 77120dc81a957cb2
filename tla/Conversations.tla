---------------------------- MODULE Conversations ----------------------------
(***************************************************************************)
(* Private messaging: the Conversation table, its participants, and the    *)
(* PrivateMessage table, with the handlers of ConversationViewSet.         *)
(*                                                                         *)
(* Every statement of a request commits alone (autocommit); pc[w] names    *)
(* the one worker w sends next.  row[w] is the Conversation instance the   *)
(* worker loaded, as far as it is written back: close, reopen and the      *)
(* inherited PUT and PATCH save it whole, whatever became of the table's   *)
(* row meanwhile; after a message only its last_message_at is written.     *)
(* Messages are numbered in the order of their created_at.                 *)
(***************************************************************************)
EXTENDS Integers, Sequences, FiniteSets

CONSTANTS
    Users,        \* authenticated users
    Leaders,      \* users that lead a group (one each) and so receive inquiries
    Convs,        \* primary keys of conversations
    Workers,      \* request-handling threads
    MaxMessages,  \* bound on the messages written
    Ops,          \* the endpoints clients call in this instance
    NoUser, NoConv

AllOps == {"start", "inquire", "create", "send", "close", "reopen", "read", "edit", "destroy"}

ASSUME UsersAssumption   == IsFiniteSet(Users) /\ NoUser \notin Users /\ Leaders \subseteq Users
ASSUME ConvsAssumption   == IsFiniteSet(Convs) /\ NoConv \notin Convs
ASSUME WorkersAssumption == IsFiniteSet(Workers) /\ Workers # {}
ASSUME BoundsAssumption  == MaxMessages \in Nat /\ Ops \subseteq AllOps

VARIABLES
    conv,   \* the Conversation table
    parts,  \* the participants many-to-many table
    msgs,   \* the PrivateMessage table, in the order of the INSERTs
    pc,     \* the statement each worker executes next
    req,    \* the request each worker serves, and the message it sent
    row     \* the Conversation instance each worker holds

tables == <<conv, parts, msgs>>
vars   == <<conv, parts, msgs, pc, req, row>>

ConversationRow == [kind : {"direct", "inquiry"}, status : {"active", "closed"},
                    closer : Users \cup {NoUser}, last : 0..MaxMessages]
NoRow   == [kind |-> "none", status |-> "active", closer |-> NoUser, last |-> 0]
NewRow(kind) == [NoRow EXCEPT !.kind = kind]
Message == [conv : Convs, sender : Users, read : BOOLEAN]
Removed == [conv |-> NoConv, sender |-> NoUser, read |-> FALSE]
Request == [op : AllOps, user : Users, peer : Users, conv : Convs \cup {NoConv},
            sent : 0..MaxMessages]
NoReq   == [op |-> "none", user |-> NoUser, peer |-> NoUser, conv |-> NoConv, sent |-> 0]
Labels  == {"idle", "find", "insertConversation", "addParticipants", "insertMessage",
            "touch", "saveRow", "markRead", "delete"}

TypeOK ==
    /\ conv \in [Convs -> ConversationRow \cup {NoRow}]
    /\ parts \in [Convs -> SUBSET Users]
    /\ msgs \in Seq(Message \cup {Removed}) /\ Len(msgs) <= MaxMessages
    /\ pc \in [Workers -> Labels]
    /\ req \in [Workers -> Request \cup {NoReq}]
    /\ row \in [Workers -> ConversationRow \cup {NoRow}]

-----------------------------------------------------------------------------
Exists(c) == conv[c] # NoRow

\* ConversationViewSet.get_queryset, which IsConversationParticipant repeats.
Mine(u) == {c \in Convs : Exists(c) /\ u \in parts[c]}

KindOf(op) == IF op = "start" THEN "direct" ELSE "inquiry"

\* Fault: a closed conversation is not found.
MatchingActive(op, u, p) ==
    {c \in Convs : conv[c].kind = KindOf(op) /\ conv[c].status = "active" /\ {u, p} \subseteq parts[c]}

\* The conversations the two lookups find, whatever their status.
Matching(op, u, p) ==
    {c \in Convs : conv[c].kind = KindOf(op) /\ {u, p} \subseteq parts[c]}

\* A primary key that no row and no worker holds.
FreshKey(c) == ~Exists(c) /\ \A v \in Workers : req[v].conv # c

Goto(w, label) == pc' = [pc EXCEPT ![w] = label]

Finish(w) ==
    /\ pc' = [pc EXCEPT ![w] = "idle"]
    /\ req' = [req EXCEPT ![w] = NoReq]
    /\ row' = [row EXCEPT ![w] = NoRow]

-----------------------------------------------------------------------------
(* POST start/ and group-inquiry/                                          *)

\* Two users of a shared group, or a user and the leader of a group; nobody
\* writes to oneself.  Memberships are no state of this module.
BeginContact(w) ==
    /\ pc[w] = "idle"
    /\ \E op \in Ops \cap {"start", "inquire"}, u, p \in Users :
          /\ u # p /\ (op = "inquire" => p \in Leaders)
          /\ req' = [req EXCEPT ![w] = [op |-> op, user |-> u, peer |-> p, conv |-> NoConv, sent |-> 0]]
    /\ Goto(w, "find")
    /\ UNCHANGED <<row, tables>>

FindConversation(w) ==
    /\ pc[w] = "find"
    /\ LET found == Matching(req[w].op, req[w].user, req[w].peer)
       IN \/ /\ found = {} /\ Goto(w, "insertConversation")
             /\ UNCHANGED <<req, row>>
          \/ \E c \in found :
                /\ req' = [req EXCEPT ![w].conv = c]
                /\ Goto(w, "insertMessage")
                /\ UNCHANGED row
    /\ UNCHANGED tables

InsertConversation(w) ==
    /\ pc[w] = "insertConversation"
    /\ \E c \in Convs :
          /\ FreshKey(c)
          /\ conv' = [conv EXCEPT ![c] = NewRow(KindOf(req[w].op))]
          /\ req' = [req EXCEPT ![w].conv = c]
    /\ Goto(w, "addParticipants")
    /\ UNCHANGED <<parts, msgs, row>>

AddParticipants(w) ==
    /\ pc[w] = "addParticipants"
    /\ parts' = [parts EXCEPT ![req[w].conv] = {req[w].user, req[w].peer}]
    /\ Goto(w, "insertMessage")
    /\ UNCHANGED <<conv, msgs, req, row>>

\* Fault: the table has no foreign key to the conversation.
InsertMessageUnchecked(w) ==
    /\ pc[w] = "insertMessage" /\ Len(msgs) < MaxMessages
    /\ msgs' = Append(msgs, [conv |-> req[w].conv, sender |-> req[w].user, read |-> FALSE])
    /\ req' = [req EXCEPT ![w].sent = Len(msgs) + 1]
    /\ Goto(w, "touch")
    /\ UNCHANGED <<row, conv, parts>>

\* The foreign key refuses a message to a conversation that is gone.
InsertMessage(w) ==
    /\ pc[w] = "insertMessage" /\ Len(msgs) < MaxMessages
    /\ \/ /\ Exists(req[w].conv)
          /\ msgs' = Append(msgs, [conv |-> req[w].conv, sender |-> req[w].user, read |-> FALSE])
          /\ req' = [req EXCEPT ![w].sent = Len(msgs) + 1]
          /\ Goto(w, "touch")
          /\ UNCHANGED <<row, conv, parts>>
       \/ ~Exists(req[w].conv) /\ Finish(w) /\ UNCHANGED tables

\* PrivateMessage.save's second statement names its columns, and fails when
\* the conversation is gone.
Touch(w) ==
    /\ pc[w] = "touch"
    /\ conv' = IF Exists(req[w].conv)
               THEN [conv EXCEPT ![req[w].conv].last = req[w].sent] ELSE conv
    /\ Finish(w)
    /\ UNCHANGED <<parts, msgs>>

-----------------------------------------------------------------------------
(* The endpoints that name a conversation load it first.                   *)

\* The checks that the loaded instance has to pass.
Admits(op, r) ==
    CASE op \in {"send", "close"} -> r.status # "closed"
      [] op = "reopen"            -> r.status = "closed"
      [] OTHER                    -> TRUE

AfterLoad(op) ==
    CASE op = "send" -> "insertMessage"
      [] op = "read" -> "markRead"
      [] op = "destroy" -> "delete"
      [] OTHER -> "saveRow"

Load(w) ==
    /\ pc[w] = "idle"
    /\ \E op \in Ops \ {"start", "inquire", "create"}, u \in Users : \E c \in Mine(u) :
          /\ Admits(op, conv[c])
          /\ req' = [req EXCEPT ![w] = [op |-> op, user |-> u, peer |-> u, conv |-> c, sent |-> 0]]
          /\ row' = [row EXCEPT ![w] = IF AfterLoad(op) = "saveRow" THEN conv[c] ELSE NoRow]
          /\ Goto(w, AfterLoad(op))
    /\ UNCHANGED tables

\* Fault: reopening leaves closed_by.
SavedKeepingCloser(op, u, r) ==
    CASE op = "close"  -> [r EXCEPT !.status = "closed", !.closer = u]
      [] op = "reopen" -> [r EXCEPT !.status = "active"]
      [] OTHER         -> r

\* What close(), reopen(), and an edit (every serializer field is read-only)
\* make of the instance.
Saved(op, u, r) ==
    CASE op = "close"  -> [r EXCEPT !.status = "closed", !.closer = u]
      [] op = "reopen" -> [r EXCEPT !.status = "active", !.closer = NoUser]
      [] OTHER         -> r

\* Model.save(): every column of the instance, and an INSERT when the row is
\* gone; its participants and messages do not come back with it.
SaveRow(w) ==
    /\ pc[w] = "saveRow"
    /\ conv' = [conv EXCEPT ![req[w].conv] = Saved(req[w].op, req[w].user, row[w])]
    /\ Finish(w)
    /\ UNCHANGED <<parts, msgs>>

\* retrieve() marks what others sent, in one UPDATE.
MarkRead(w) ==
    /\ pc[w] = "markRead"
    /\ msgs' = [n \in DOMAIN msgs |->
                   [msgs[n] EXCEPT !.read = @ \/ (msgs[n].conv = req[w].conv
                                                   /\ msgs[n].sender # req[w].user)]]
    /\ Finish(w)
    /\ UNCHANGED <<conv, parts>>

\* Faults: messages lose their conversation (SET_NULL) instead of being
\* deleted; the rows of the many-to-many table stay behind.
DeleteKeepingMessages(w) ==
    /\ pc[w] = "delete"
    /\ conv' = [conv EXCEPT ![req[w].conv] = NoRow]
    /\ parts' = [parts EXCEPT ![req[w].conv] = {}]
    /\ msgs' = [n \in DOMAIN msgs |->
                   [msgs[n] EXCEPT !.conv = IF @ = req[w].conv THEN NoConv ELSE @]]
    /\ Finish(w)
DeleteKeepingParticipants(w) ==
    /\ pc[w] = "delete"
    /\ conv' = [conv EXCEPT ![req[w].conv] = NoRow]
    /\ msgs' = [n \in DOMAIN msgs |-> IF msgs[n].conv = req[w].conv THEN Removed ELSE msgs[n]]
    /\ Finish(w)
    /\ UNCHANGED parts

\* The inherited DELETE: one transaction, participants and messages with it.
Delete(w) ==
    /\ pc[w] = "delete"
    /\ conv' = [conv EXCEPT ![req[w].conv] = NoRow]
    /\ parts' = [parts EXCEPT ![req[w].conv] = {}]
    /\ msgs' = [n \in DOMAIN msgs |-> IF msgs[n].conv = req[w].conv THEN Removed ELSE msgs[n]]
    /\ Finish(w)

\* The inherited POST: a conversation of the default kind without participants.
CreateEmpty(w) ==
    /\ pc[w] = "idle" /\ "create" \in Ops
    /\ \E c \in Convs : FreshKey(c) /\ conv' = [conv EXCEPT ![c] = NewRow("inquiry")]
    /\ UNCHANGED <<parts, msgs, pc, req, row>>

\* The worker is killed or loses its connection; what it committed stays.
Abort(w) == pc[w] # "idle" /\ Finish(w) /\ UNCHANGED tables

-----------------------------------------------------------------------------
Init ==
    /\ conv = [c \in Convs |-> NoRow]
    /\ parts = [c \in Convs |-> {}]
    /\ msgs = <<>>
    /\ pc = [w \in Workers |-> "idle"]
    /\ req = [w \in Workers |-> NoReq]
    /\ row = [w \in Workers |-> NoRow]

Step(w) ==
    \/ BeginContact(w) \/ FindConversation(w) \/ InsertConversation(w) \/ AddParticipants(w)
    \/ InsertMessage(w) \/ Touch(w)
    \/ Load(w) \/ SaveRow(w) \/ MarkRead(w) \/ Delete(w)
    \/ CreateEmpty(w)
    \/ Abort(w)

Next == \E w \in Workers : Step(w)

Spec == Init /\ [][Next]_vars

-----------------------------------------------------------------------------
(* Properties.                                                             *)

\* Workers about to give a pair of users a new direct conversation.
Starting(pair) ==
    {w \in Workers : /\ pc[w] \in {"insertConversation", "addParticipants"}
                     /\ req[w].op = "start" /\ {req[w].user, req[w].peer} = pair}

\* Whole-row saves of stale instances undo each other, but the row they leave
\* is one that a request made: it is closed exactly when it says by whom.
ClosedHasCloser ==
    \A c \in Convs : conv[c].status = "closed" <=> conv[c].closer # NoUser

\* get_or_create_direct_conversation looks and inserts in two statements, so
\* two users can end up with several direct conversations; but with at most
\* one for each worker, those on their way after a search in vain included.
DirectBounded ==
    \A u, p \in Users :
        u # p => Cardinality(Matching("start", u, p)) + Cardinality(Starting({u, p}))
                     <= Cardinality(Workers)

\* A stored message lies in a conversation that exists.  That has the two
\* participants it was given, the sender among them, or none: the row was
\* deleted and a stale save put it back before the message was stored.
MessagesBetweenTwo ==
    \A n \in DOMAIN msgs : msgs[n] # Removed
        => LET c == msgs[n].conv
           IN /\ Exists(c)
              /\ parts[c] = {} \/ (msgs[n].sender \in parts[c] /\ Cardinality(parts[c]) = 2)

\* last_message_at may be that of an older message after a race, but whoever
\* takes part in a conversation sees the time of one of its own messages.
LastIsOwn ==
    \A c \in Convs : parts[c] # {} /\ conv[c].last # 0
        => conv[c].last \in DOMAIN msgs /\ msgs[conv[c].last].conv = c

=============================================================================
