------------------------- MODULE ConversationsProofs -------------------------
(***************************************************************************)
(* Proofs about private messaging, for any number of users, conversations, *)
(* messages and workers.                                                   *)
(***************************************************************************)
EXTENDS Conversations, FiniteSetTheorems, SequenceTheorems, TLAPS

\* What a request carries when it reaches a statement that uses it.
LocalOK(w) ==
    /\ pc[w] # "idle" => req[w] \in Request
    /\ pc[w] \notin {"idle", "find", "insertConversation"} => req[w].conv \in Convs
    /\ pc[w] = "saveRow" => row[w] \in ConversationRow
TypeInv == TypeOK /\ \A w \in Workers : LocalOK(w)

\* Rows, and the locals of the workers, with their types.
TablesOK ==
    /\ conv \in [Convs -> ConversationRow \cup {NoRow}]
    /\ parts \in [Convs -> SUBSET Users]
    /\ msgs \in Seq(Message \cup {Removed}) /\ Len(msgs) <= MaxMessages

LEMMA NewRowType == ASSUME NEW op PROVE NewRow(KindOf(op)) \in ConversationRow
BY BoundsAssumption DEF NewRow, NoRow, KindOf, ConversationRow

LEMMA SavedType ==
    ASSUME NEW op, NEW u \in Users, NEW r \in ConversationRow
    PROVE  Saved(op, u, r) \in ConversationRow
BY DEF Saved, ConversationRow

\* A step of w that only changes its own locals, to sound ones.
LEMMA LocalsSet ==
    ASSUME TypeInv, TablesOK', NEW w \in Workers, NEW l \in Labels, NEW q \in Request \cup {NoReq},
           NEW r \in ConversationRow \cup {NoRow},
           pc' = [pc EXCEPT ![w] = l], req' = [req EXCEPT ![w] = q], row' = [row EXCEPT ![w] = r],
           l # "idle" => q \in Request,
           l \notin {"idle", "find", "insertConversation"} => q.conv \in Convs,
           l = "saveRow" => r \in ConversationRow
    PROVE  TypeInv'
<1>1. TypeOK'
  BY DEF TypeInv, TypeOK, TablesOK
<1>2. ASSUME NEW v \in Workers PROVE LocalOK(v)'
  <2>1. CASE v = w
    BY <2>1 DEF LocalOK, TypeInv, TypeOK
  <2>2. CASE v # w
    BY <2>2 DEF LocalOK, TypeInv, TypeOK
  <2> QED BY <2>1, <2>2
<1> QED BY <1>1, <1>2 DEF TypeInv

LEMMA Finished ==
    ASSUME TypeInv, TablesOK', NEW w \in Workers, Finish(w)
    PROVE  TypeInv'
<1>1. "idle" \in Labels
  BY DEF Labels
<1> QED BY <1>1, LocalsSet DEF Finish

LEMMA TablesKept == ASSUME TypeInv, UNCHANGED tables PROVE TablesOK'
BY DEF TypeInv, TypeOK, TablesOK, tables

LEMMA ContactType ==
    ASSUME TypeInv, NEW w \in Workers,
           BeginContact(w) \/ FindConversation(w) \/ InsertConversation(w) \/ AddParticipants(w)
    PROVE  TypeInv'
<1>0. /\ pc[w] # "idle" => req[w] \in Request
      /\ row[w] \in ConversationRow \cup {NoRow} /\ row = [row EXCEPT ![w] = row[w]]
      /\ req[w] \in Request \cup {NoReq} /\ req = [req EXCEPT ![w] = req[w]]
  BY DEF TypeInv, TypeOK, LocalOK
<1>1. CASE BeginContact(w)
  <2>1. PICK op \in Ops \cap {"start", "inquire"}, u \in Users, p \in Users :
            req' = [req EXCEPT ![w] = [op |-> op, user |-> u, peer |-> p, conv |-> NoConv, sent |-> 0]]
    BY <1>1 DEF BeginContact
  <2>2. [op |-> op, user |-> u, peer |-> p, conv |-> NoConv, sent |-> 0] \in Request
    BY <2>1, BoundsAssumption DEF Request, AllOps
  <2>3. pc' = [pc EXCEPT ![w] = "find"] /\ "find" \in Labels /\ row' = row /\ TablesOK'
    BY <1>1, TablesKept DEF BeginContact, Goto, Labels
  <2> QED BY <1>0, <2>1, <2>2, <2>3, LocalsSet
<1>2. CASE FindConversation(w)
  <2>0. TablesOK' /\ req[w] \in Request /\ row' = row
    BY <1>0, <1>2, TablesKept DEF FindConversation
  <2>1. CASE Goto(w, "insertConversation") /\ UNCHANGED <<req, row>>
    <3>1. "insertConversation" \in Labels
      BY DEF Labels
    <3>2. /\ pc' = [pc EXCEPT ![w] = "insertConversation"]
          /\ req' = [req EXCEPT ![w] = req[w]] /\ row' = [row EXCEPT ![w] = row[w]]
      BY <1>0, <2>1 DEF Goto
    <3> QED BY <1>0, <2>0, <3>1, <3>2, LocalsSet
  <2>2. CASE \E c \in Matching(req[w].op, req[w].user, req[w].peer) :
                req' = [req EXCEPT ![w].conv = c] /\ Goto(w, "insertMessage")
    <3>1. PICK c \in Convs : req' = [req EXCEPT ![w].conv = c] /\ Goto(w, "insertMessage")
      BY <2>2 DEF Matching
    <3>2. "insertMessage" \in Labels /\ [req[w] EXCEPT !.conv = c] \in Request
          /\ [req[w] EXCEPT !.conv = c].conv = c
      BY <2>0 DEF Labels, Request
    <3>3. /\ req' = [req EXCEPT ![w] = [req[w] EXCEPT !.conv = c]]
          /\ pc' = [pc EXCEPT ![w] = "insertMessage"] /\ row' = [row EXCEPT ![w] = row[w]]
      BY <1>0, <2>0, <3>1 DEF Goto
    <3> QED BY <1>0, <2>0, <3>2, <3>3, LocalsSet
  <2> QED BY <1>2, <2>1, <2>2 DEF FindConversation
<1>3. CASE InsertConversation(w)
  <2>1. PICK c \in Convs : /\ conv' = [conv EXCEPT ![c] = NewRow(KindOf(req[w].op))]
                           /\ req' = [req EXCEPT ![w].conv = c]
    BY <1>3 DEF InsertConversation
  <2>2. TablesOK'
    BY <1>3, <2>1, NewRowType DEF InsertConversation, TypeInv, TypeOK, TablesOK
  <2>3. req[w] \in Request
    BY <1>0, <1>3 DEF InsertConversation
  <2>4. "addParticipants" \in Labels /\ [req[w] EXCEPT !.conv = c] \in Request
        /\ [req[w] EXCEPT !.conv = c].conv = c
    BY <2>3 DEF Labels, Request
  <2>5. req' = [req EXCEPT ![w] = [req[w] EXCEPT !.conv = c]]
    BY <2>1
  <2>6. pc' = [pc EXCEPT ![w] = "addParticipants"] /\ row' = row
    BY <1>3 DEF InsertConversation, Goto
  <2> QED BY <1>0, <2>2, <2>4, <2>5, <2>6, LocalsSet
<1>4. CASE AddParticipants(w)
  <2>1. req[w] \in Request /\ req[w].conv \in Convs /\ {req[w].user, req[w].peer} \subseteq Users
    BY <1>0, <1>4 DEF AddParticipants, TypeInv, LocalOK, Request
  <2>2. TablesOK'
    BY <1>4, <2>1 DEF AddParticipants, TypeInv, TypeOK, TablesOK
  <2>3. pc' = [pc EXCEPT ![w] = "insertMessage"] /\ "insertMessage" \in Labels
        /\ req' = req /\ row' = row
    BY <1>4 DEF AddParticipants, Goto, Labels
  <2> QED BY <1>0, <2>1, <2>2, <2>3, LocalsSet
<1> QED BY <1>1, <1>2, <1>3, <1>4

LEMMA MessageType ==
    ASSUME TypeInv, NEW w \in Workers, InsertMessage(w) \/ Touch(w)
    PROVE  TypeInv'
<1>0. /\ req[w] \in Request /\ req[w].conv \in Convs
      /\ row[w] \in ConversationRow \cup {NoRow} /\ row = [row EXCEPT ![w] = row[w]]
  BY DEF InsertMessage, Touch, TypeInv, TypeOK, LocalOK
<1>1. CASE InsertMessage(w) /\ Exists(req[w].conv)
  <2>1. Len(msgs) \in Nat /\ Len(msgs) + 1 <= MaxMessages
    BY <1>1, BoundsAssumption DEF InsertMessage, TypeInv, TypeOK
  <2>2. [conv |-> req[w].conv, sender |-> req[w].user, read |-> FALSE] \in Message
    BY <1>0 DEF Message, Request
  <2> DEFINE m == [conv |-> req[w].conv, sender |-> req[w].user, read |-> FALSE]
  <2>3. TablesOK'
    <3>1. msgs' = Append(msgs, m) /\ conv' = conv /\ parts' = parts
      BY <1>1 DEF InsertMessage, Finish, tables
    <3>2. m \in Message \cup {Removed}
      BY <2>2
    <3> HIDE DEF m
    <3>3. /\ msgs' \in Seq(Message \cup {Removed})
          /\ Len(msgs') = Len(msgs) + 1
      BY <3>1, <3>2 DEF TypeInv, TypeOK
    <3> QED BY <2>1, <3>1, <3>3 DEF TypeInv, TypeOK, TablesOK
  <2> HIDE DEF m
  <2>4. /\ [req[w] EXCEPT !.sent = Len(msgs) + 1] \in Request
        /\ [req[w] EXCEPT !.sent = Len(msgs) + 1].conv = req[w].conv
    BY <1>0, <2>1, BoundsAssumption DEF Request
  <2>5. /\ req' = [req EXCEPT ![w] = [req[w] EXCEPT !.sent = Len(msgs) + 1]]
        /\ pc' = [pc EXCEPT ![w] = "touch"] /\ "touch" \in Labels /\ row' = row
    BY <1>1 DEF InsertMessage, Goto, Labels
  <2> DEFINE q == [req[w] EXCEPT !.sent = Len(msgs) + 1]
  <2>6. /\ q \in Request /\ q.conv \in Convs
        /\ req' = [req EXCEPT ![w] = q] /\ row' = [row EXCEPT ![w] = row[w]]
    BY <1>0, <2>4, <2>5
  <2> HIDE DEF q
  <2> QED BY <1>0, <2>3, <2>5, <2>6, LocalsSet
<1>2. CASE InsertMessage(w) /\ ~Exists(req[w].conv)
  BY <1>2, TablesKept, Finished DEF InsertMessage
<1>3. CASE Touch(w)
  <2>1. CASE Exists(req[w].conv)
    <3>1. conv[req[w].conv] \in ConversationRow
      BY <1>0, <2>1 DEF Exists, TypeInv, TypeOK
    <3>2. [conv[req[w].conv] EXCEPT !.last = req[w].sent] \in ConversationRow
      BY <1>0, <3>1 DEF ConversationRow, Request
    <3>3. conv' = [conv EXCEPT ![req[w].conv] = [conv[req[w].conv] EXCEPT !.last = req[w].sent]]
      BY <1>3, <2>1 DEF Touch
    <3>4. TablesOK'
      BY <1>0, <1>3, <3>2, <3>3 DEF Touch, TypeInv, TypeOK, TablesOK
    <3> QED BY <1>3, <3>4, Finished DEF Touch
  <2>2. CASE ~Exists(req[w].conv)
    BY <1>3, <2>2, TablesKept, Finished DEF Touch, tables
  <2> QED BY <2>1, <2>2
<1> QED BY <1>1, <1>2, <1>3

\* A function on the positions of a sequence is one.
LEMMA MappedSequence ==
    ASSUME NEW S, NEW s \in Seq(S), NEW T, NEW f \in [DOMAIN s -> T]
    PROVE  f \in Seq(T) /\ Len(f) = Len(s)
<1>1. DOMAIN s = 1..Len(s) /\ Len(s) \in Nat
  OBVIOUS
<1>2. f \in [1..Len(s) -> T]
  BY <1>1
<1>3. f \in Seq(T)
  BY <1>1, <1>2, SeqDef
<1>4. DOMAIN f = 1..Len(f) /\ Len(f) \in Nat
  BY <1>3
<1> QED BY <1>1, <1>2, <1>3, <1>4

LEMMA NamedType ==
    ASSUME TypeInv, NEW w \in Workers, Load(w) \/ SaveRow(w) \/ MarkRead(w) \/ Delete(w)
    PROVE  TypeInv'
<1>1. CASE Load(w)
  <2>1. PICK op \in Ops, u \in Users : \E c \in Mine(u) :
            /\ req' = [req EXCEPT ![w] = [op |-> op, user |-> u, peer |-> u, conv |-> c, sent |-> 0]]
            /\ row' = [row EXCEPT ![w] = IF AfterLoad(op) = "saveRow" THEN conv[c] ELSE NoRow]
            /\ Goto(w, AfterLoad(op))
    BY <1>1 DEF Load
  <2>2. PICK c \in Mine(u) :
            /\ req' = [req EXCEPT ![w] = [op |-> op, user |-> u, peer |-> u, conv |-> c, sent |-> 0]]
            /\ row' = [row EXCEPT ![w] = IF AfterLoad(op) = "saveRow" THEN conv[c] ELSE NoRow]
            /\ Goto(w, AfterLoad(op))
    BY <2>1
  <2>3. c \in Convs /\ conv[c] \in ConversationRow
    BY DEF Mine, Exists, TypeInv, TypeOK
  <2>4. [op |-> op, user |-> u, peer |-> u, conv |-> c, sent |-> 0] \in Request
    BY <2>3, BoundsAssumption DEF Request
  <2>5. AfterLoad(op) \in Labels
    BY DEF AfterLoad, Labels
  <2>6. TablesOK'
    BY <1>1, TablesKept DEF Load
  <2> DEFINE r == IF AfterLoad(op) = "saveRow" THEN conv[c] ELSE NoRow
  <2>7. r \in ConversationRow \cup {NoRow} /\ (AfterLoad(op) = "saveRow" => r \in ConversationRow)
    BY <2>3
  <2> HIDE DEF r
  <2>8. row' = [row EXCEPT ![w] = r] /\ pc' = [pc EXCEPT ![w] = AfterLoad(op)]
    BY <2>2 DEF Goto, r
  <2> DEFINE q == [op |-> op, user |-> u, peer |-> u, conv |-> c, sent |-> 0]
  <2>9. q \in Request /\ q.conv = c /\ q.user = u /\ req' = [req EXCEPT ![w] = q]
    BY <2>2, <2>4
  <2>10. u \in Users
    BY <2>1
  <2> HIDE DEF q
  <2> QED BY <2>3, <2>5, <2>6, <2>7, <2>8, <2>9, <2>10, LocalsSet
<1>2. CASE SaveRow(w)
  <2>1. req[w] \in Request /\ req[w].conv \in Convs /\ row[w] \in ConversationRow /\ req[w].user \in Users
    BY <1>2 DEF SaveRow, TypeInv, LocalOK, Request
  <2>2. TablesOK'
    BY <1>2, <2>1, SavedType DEF SaveRow, TypeInv, TypeOK, TablesOK
  <2> QED BY <1>2, <2>2, Finished DEF SaveRow
<1>3. CASE MarkRead(w)
  <2>1. req[w].conv \in Convs /\ req[w].conv # NoConv
    BY <1>3, ConvsAssumption DEF MarkRead, TypeInv, LocalOK
  <2>2. msgs' \in [DOMAIN msgs -> Message \cup {Removed}]
    <3>1. ASSUME NEW n \in DOMAIN msgs PROVE msgs'[n] \in Message \cup {Removed}
      <4>0. msgs[n] \in Message \cup {Removed}
        BY DEF TypeInv, TypeOK
      <4> DEFINE b == msgs[n].read \/ (msgs[n].conv = req[w].conv /\ msgs[n].sender # req[w].user)
      <4>1. msgs'[n] = [msgs[n] EXCEPT !.read = b]
        BY <1>3 DEF MarkRead
      <4>2. CASE msgs[n] \in Message
        <5>1. b \in BOOLEAN
          BY <4>2 DEF Message
        <5> HIDE DEF b
        <5> QED BY <4>1, <4>2, <5>1 DEF Message
      <4>3. CASE msgs[n] = Removed
        <5>1. b = FALSE
          BY <2>1, <4>3 DEF Removed
        <5>2. msgs'[n] = [Removed EXCEPT !.read = FALSE]
          BY <4>1, <4>3, <5>1
        <5> QED BY <5>2 DEF Removed
      <4> QED BY <4>0, <4>2, <4>3
    <3> QED BY <1>3, <3>1 DEF MarkRead
  <2>3. msgs' \in Seq(Message \cup {Removed}) /\ Len(msgs') = Len(msgs)
    BY <2>2, MappedSequence DEF TypeInv, TypeOK
  <2>4. TablesOK'
    BY <1>3, <2>3 DEF MarkRead, TypeInv, TypeOK, TablesOK
  <2> QED BY <1>3, <2>4, Finished DEF MarkRead
<1>4. CASE Delete(w)
  <2>1. msgs' \in [DOMAIN msgs -> Message \cup {Removed}]
    BY <1>4 DEF Delete, TypeInv, TypeOK
  <2>2. msgs' \in Seq(Message \cup {Removed}) /\ Len(msgs') = Len(msgs)
    BY <2>1, MappedSequence DEF TypeInv, TypeOK
  <2>3. TablesOK'
    BY <1>4, <2>2 DEF Delete, TypeInv, TypeOK, TablesOK
  <2> QED BY <1>4, <2>3, Finished DEF Delete
<1> QED BY <1>1, <1>2, <1>3, <1>4

LEMMA TypeInit == Init => TypeInv
<1> SUFFICES ASSUME Init PROVE TypeInv
  OBVIOUS
<1>1. TypeOK
  BY BoundsAssumption DEF Init, TypeOK, Labels
<1> QED BY <1>1 DEF Init, TypeInv, LocalOK

LEMMA TypeStep == TypeInv /\ [Next]_vars => TypeInv'
<1> SUFFICES ASSUME TypeInv, [Next]_vars PROVE TypeInv'
  OBVIOUS
<1>1. ASSUME NEW w \in Workers, Abort(w) PROVE TypeInv'
  BY <1>1, TablesKept, Finished DEF Abort
<1>2. ASSUME NEW w \in Workers, CreateEmpty(w) PROVE TypeInv'
  <2>1. TypeOK'
    BY <1>2, BoundsAssumption DEF CreateEmpty, TypeInv, TypeOK, NewRow, NoRow, ConversationRow
  <2> QED BY <1>2, <2>1 DEF CreateEmpty, TypeInv, LocalOK
<1>3. CASE UNCHANGED vars
  BY <1>3 DEF vars, TypeInv, TypeOK, LocalOK
<1> QED BY <1>1, <1>2, <1>3, ContactType, MessageType, NamedType DEF Next, Step

\* Rows, messages, requests and instances keep their types; the invariant
\* adds what each statement relies on the request to carry.
THEOREM TypeCorrect == Spec => []TypeOK
<1>1. TypeInv => TypeOK
  BY DEF TypeInv
<1> QED BY <1>1, TypeInit, TypeStep, PTL DEF Spec

LEMMA TypeInvariant == Spec => []TypeInv
BY TypeInit, TypeStep, PTL DEF Spec

-----------------------------------------------------------------------------
(* A conversation is closed exactly when it says by whom.                  *)

Signed(r) == r.status = "closed" <=> r.closer # NoUser
\* The rows of the table and the instances that a save may put in it.
RowsSigned == (\A c \in Convs : Signed(conv[c])) /\ (\A w \in Workers : Signed(row[w]))

LEMMA SavedSigned ==
    ASSUME NEW op, NEW u \in Users, NEW r \in ConversationRow, Signed(r)
    PROVE  Signed(Saved(op, u, r))
BY UsersAssumption DEF Saved, Signed, ConversationRow

LEMMA Unsigned == Signed(NoRow) /\ \A kind : Signed(NewRow(kind))
BY DEF Signed, NewRow, NoRow

\* A step of w that leaves the table's rows signed.
LEMMA FinishSigned ==
    ASSUME TypeInv, RowsSigned, NEW w \in Workers, Finish(w), \A c \in Convs : Signed(conv'[c])
    PROVE  RowsSigned'
<1>1. row' = [row EXCEPT ![w] = NoRow]
  BY DEF Finish
<1>2. ASSUME NEW v \in Workers PROVE Signed(row'[v])
  BY <1>1, Unsigned DEF RowsSigned, TypeInv, TypeOK
<1> QED BY <1>2 DEF RowsSigned, Signed

LEMMA SignedStep == TypeInv /\ RowsSigned /\ [Next]_vars => RowsSigned'
<1> SUFFICES ASSUME TypeInv, RowsSigned, [Next]_vars PROVE RowsSigned'
  OBVIOUS
<1>0. ASSUME NEW v \in Workers, conv' = conv, Finish(v) PROVE RowsSigned'
  BY <1>0, FinishSigned DEF RowsSigned
<1>1. ASSUME conv' = conv, row' = row PROVE RowsSigned'
  BY <1>1 DEF RowsSigned, Signed
<1>2. ASSUME NEW c \in Convs, NEW kind, conv' = [conv EXCEPT ![c] = NewRow(kind)], row' = row
      PROVE  RowsSigned'
  <2>1. ASSUME NEW d \in Convs PROVE Signed(conv'[d])
    BY <1>2, Unsigned DEF RowsSigned, TypeInv, TypeOK
  <2> QED BY <1>2, <2>1 DEF RowsSigned, Signed
<1>3. ASSUME NEW w \in Workers, Step(w) PROVE RowsSigned'
  <2>1. CASE BeginContact(w) \/ FindConversation(w) \/ AddParticipants(w)
    BY <1>1, <2>1 DEF BeginContact, FindConversation, AddParticipants, tables
  <2>2. CASE InsertConversation(w)
    BY <1>2, <2>2 DEF InsertConversation
  <2>3. CASE InsertMessage(w)
    BY <1>0, <1>1, <2>3 DEF InsertMessage, tables
  <2>4. CASE Touch(w)
    <3>1. ASSUME NEW c \in Convs PROVE Signed(conv'[c])
      BY <2>4 DEF Touch, RowsSigned, Signed, TypeInv, TypeOK, ConversationRow, NoRow
    <3> QED BY <2>4, <3>1, FinishSigned DEF Touch
  <2>5. CASE Load(w)
    <3>1. PICK c \in Convs, l \in BOOLEAN : row' = [row EXCEPT ![w] = IF l THEN conv[c] ELSE NoRow]
      BY <2>5 DEF Load, Mine
    <3>2. ASSUME NEW v \in Workers PROVE Signed(row'[v])
      BY <3>1, Unsigned DEF RowsSigned, TypeInv, TypeOK
    <3> QED BY <2>5, <3>2 DEF Load, tables, RowsSigned, Signed
  <2>6. CASE SaveRow(w)
    <3>1. row[w] \in ConversationRow /\ req[w].user \in Users
      BY <2>6 DEF SaveRow, TypeInv, LocalOK, Request
    <3>2. Signed(Saved(req[w].op, req[w].user, row[w]))
      BY <3>1, SavedSigned DEF RowsSigned
    <3>3. ASSUME NEW c \in Convs PROVE Signed(conv'[c])
      BY <2>6, <3>2 DEF SaveRow, RowsSigned, TypeInv, TypeOK
    <3> QED BY <2>6, <3>3, FinishSigned DEF SaveRow
  <2>7. CASE MarkRead(w) \/ Abort(w)
    BY <1>0, <2>7 DEF MarkRead, Abort, tables
  <2>8. CASE Delete(w)
    <3>1. ASSUME NEW c \in Convs PROVE Signed(conv'[c])
      BY <2>8, Unsigned DEF Delete, RowsSigned, TypeInv, TypeOK
    <3> QED BY <2>8, <3>1, FinishSigned DEF Delete
  <2>9. CASE CreateEmpty(w)
    BY <1>2, <2>9 DEF CreateEmpty
  <2> QED BY <1>3, <2>1, <2>2, <2>3, <2>4, <2>5, <2>6, <2>7, <2>8, <2>9 DEF Step
<1>4. CASE UNCHANGED vars
  BY <1>1, <1>4 DEF vars
<1> QED BY <1>3, <1>4 DEF Next

\* Whatever stale instances close, reopen and edits save over each other, a
\* conversation is closed exactly when it records who closed it.
THEOREM ClosedSaysByWhom == Spec => []ClosedHasCloser
<1>1. Init => RowsSigned
  BY Unsigned DEF Init, RowsSigned
<1>2. RowsSigned => ClosedHasCloser
  BY DEF RowsSigned, Signed, ClosedHasCloser
<1> QED BY <1>1, <1>2, SignedStep, TypeInvariant, PTL DEF Spec

-----------------------------------------------------------------------------
(* How many direct conversations two users can have.                       *)

\* A conversation whose participants are still to be added: no request but
\* the one that inserted it knows of it, and nobody finds it.
Unshared(w) ==
    LET c == req[w].conv
    IN  /\ Exists(c) /\ parts[c] = {}
        /\ req[w].op # "start" => conv[c].kind # "direct"
        /\ \A v \in Workers \ {w} : req[v].conv # c

\* No row, no participants; and no instance on its way to the table would
\* change the kind of a conversation that somebody takes part in.
Kinds ==
    /\ \A c \in Convs : ~Exists(c) => parts[c] = {}
    /\ \A w \in Workers : pc[w] = "addParticipants" => Unshared(w)
    /\ \A w \in Workers : pc[w] = "saveRow" /\ parts[req[w].conv] # {}
                             => row[w].kind = conv[req[w].conv].kind

LEMMA ExistsByKind ==
    ASSUME TypeInv, NEW c \in Convs
    PROVE  Exists(c) <=> conv[c].kind # "none"
BY DEF Exists, TypeInv, TypeOK, ConversationRow, NoRow

LEMMA NewExists == \A op : NewRow(KindOf(op)) # NoRow /\ NewRow("inquiry") # NoRow
BY DEF NewRow, NoRow, KindOf

\* A step changes the locals of its own worker only.
LEMMA OthersKept ==
    ASSUME TypeInv, NEW w \in Workers, Step(w), NEW v \in Workers, v # w
    PROVE  pc'[v] = pc[v] /\ req'[v] = req[v] /\ row'[v] = row[v]
<1>1. CASE BeginContact(w) \/ Load(w)
  BY <1>1 DEF BeginContact, Load, Goto, TypeInv, TypeOK
<1>2. CASE FindConversation(w)
  BY <1>2 DEF FindConversation, Goto, TypeInv, TypeOK
<1>3. CASE InsertConversation(w) \/ AddParticipants(w) \/ CreateEmpty(w)
  BY <1>3 DEF InsertConversation, AddParticipants, CreateEmpty, Goto, TypeInv, TypeOK
<1>4. CASE InsertMessage(w)
  BY <1>4 DEF InsertMessage, Goto, Finish, TypeInv, TypeOK
<1>5. CASE Touch(w) \/ SaveRow(w) \/ MarkRead(w) \/ Delete(w) \/ Abort(w)
  BY <1>5 DEF Touch, SaveRow, MarkRead, Delete, Abort, Finish, TypeInv, TypeOK
<1> QED BY <1>1, <1>2, <1>3, <1>4, <1>5 DEF Step

\* What a worker v holds once it made a step: nothing new, a fresh key, or
\* the key of a conversation that has participants.
LEMMA KeyTaken ==
    ASSUME TypeInv, NEW v \in Workers, Step(v), req'[v].conv # req[v].conv
    PROVE  \/ req'[v].conv \in Convs /\ FreshKey(req'[v].conv) /\ InsertConversation(v)
           \/ req'[v].conv \in Convs /\ parts[req'[v].conv] # {}
           \/ req'[v].conv = NoConv
<1>1. CASE BeginContact(v)
  BY <1>1 DEF BeginContact, TypeInv, TypeOK
<1>2. CASE FindConversation(v)
  BY <1>2 DEF FindConversation, Matching, TypeInv, TypeOK, LocalOK, Request
<1>3. CASE InsertConversation(v)
  BY <1>3, ZenonT(60) DEF InsertConversation, TypeInv, TypeOK, LocalOK, Request
<1>4. CASE AddParticipants(v) \/ CreateEmpty(v)
  BY <1>4 DEF AddParticipants, CreateEmpty
<1>5. CASE InsertMessage(v)
  BY <1>5 DEF InsertMessage, Finish, NoReq, TypeInv, TypeOK, LocalOK, Request
<1>6. CASE Touch(v) \/ SaveRow(v) \/ MarkRead(v) \/ Delete(v) \/ Abort(v)
  BY <1>6 DEF Touch, SaveRow, MarkRead, Delete, Abort, Finish, NoReq, TypeInv, TypeOK
<1>7. CASE Load(v)
  BY <1>7 DEF Load, Mine, TypeInv, TypeOK
<1> QED BY <1>1, <1>2, <1>3, <1>4, <1>5, <1>6, <1>7 DEF Step

\* A step of v touches the conversation it holds, or one that nobody holds.
LEMMA ElsewhereKept ==
    ASSUME TypeInv, NEW v \in Workers, Step(v), NEW c \in Convs, req[v].conv # c,
           NEW w \in Workers, req[w].conv = c
    PROVE  conv'[c] = conv[c] /\ parts'[c] = parts[c]
<1>1. CASE BeginContact(v) \/ FindConversation(v) \/ InsertMessage(v) \/ Load(v) \/ MarkRead(v) \/ Abort(v)
  BY <1>1 DEF BeginContact, FindConversation, InsertMessage, Load, MarkRead, Abort, tables
<1>2. CASE InsertConversation(v) \/ CreateEmpty(v)
  BY <1>2 DEF InsertConversation, CreateEmpty, FreshKey, TypeInv, TypeOK
<1>3. CASE AddParticipants(v) \/ Touch(v) \/ SaveRow(v) \/ Delete(v)
  BY <1>3 DEF AddParticipants, Touch, SaveRow, Delete, TypeInv, TypeOK
<1> QED BY <1>1, <1>2, <1>3 DEF Step

LEMMA BareStep ==
    ASSUME TypeInv, Kinds, NEW w \in Workers, Step(w)
    PROVE  \A c \in Convs : ~Exists(c)' => parts'[c] = {}
<1> SUFFICES ASSUME NEW c \in Convs, conv'[c] = NoRow PROVE parts'[c] = {}
  BY DEF Exists
<1>0. conv[c] = NoRow => parts[c] = {}
  BY DEF Kinds, Exists
<1>1. CASE UNCHANGED <<conv, parts>>
  BY <1>0, <1>1
<1>2. CASE InsertConversation(w) \/ CreateEmpty(w)
  BY <1>0, <1>2, NewExists DEF InsertConversation, CreateEmpty, TypeInv, TypeOK
<1>3. CASE AddParticipants(w)
  <2>1. Exists(req[w].conv)
    BY <1>3 DEF AddParticipants, Kinds, Unshared
  <2> QED BY <1>0, <1>3, <2>1 DEF AddParticipants, Exists, TypeInv, TypeOK
<1>4. CASE Touch(w)
  <2>1. ASSUME Exists(req[w].conv), c = req[w].conv PROVE FALSE
    <3>1. conv[c] \in ConversationRow
      BY <2>1 DEF Exists, TypeInv, TypeOK
    <3>2. conv'[c] = [conv[c] EXCEPT !.last = req[w].sent]
      BY <1>4, <2>1 DEF Touch, TypeInv, TypeOK
    <3> QED BY <3>1, <3>2 DEF ConversationRow, NoRow
  <2> QED BY <1>0, <1>4, <2>1 DEF Touch, TypeInv, TypeOK
<1>5. CASE SaveRow(w)
  <2>1. Saved(req[w].op, req[w].user, row[w]) \in ConversationRow
    BY <1>5, SavedType DEF SaveRow, TypeInv, LocalOK, Request
  <2>2. NoRow \notin ConversationRow
    BY DEF NoRow, ConversationRow
  <2> QED BY <1>0, <1>5, <2>1, <2>2 DEF SaveRow, TypeInv, TypeOK
<1>6. CASE Delete(w)
  BY <1>0, <1>6 DEF Delete, TypeInv, TypeOK
<1>7. CASE BeginContact(w) \/ FindConversation(w) \/ InsertMessage(w) \/ Load(w) \/ MarkRead(w) \/ Abort(w)
  BY <1>1, <1>7 DEF BeginContact, FindConversation, InsertMessage, Load, MarkRead, Abort, tables
<1> QED BY <1>2, <1>3, <1>4, <1>5, <1>6, <1>7 DEF Step

LEMMA UnsharedStep ==
    ASSUME TypeInv, Kinds, NEW v \in Workers, Step(v)
    PROVE  \A w \in Workers : pc'[w] = "addParticipants" => Unshared(w)'
<1> SUFFICES ASSUME NEW w \in Workers, pc'[w] = "addParticipants" PROVE Unshared(w)'
  OBVIOUS
<1>1. CASE w # v
  <2> DEFINE c == req[w].conv
  <2>1. pc[w] = "addParticipants" /\ req'[w] = req[w]
    BY <1>1, OthersKept
  <2>2. Unshared(w) /\ c \in Convs
    BY <2>1 DEF Kinds, TypeInv, LocalOK
  <2>3. req[v].conv # c
    BY <1>1, <2>2 DEF Unshared
  <2>4. conv'[c] = conv[c] /\ parts'[c] = parts[c]
    BY <2>2, <2>3, ElsewhereKept
  <2>5. req'[v].conv # c
    <3>1. ~FreshKey(c) /\ parts[c] = {} /\ c # NoConv
      BY <2>2, ConvsAssumption DEF FreshKey, Unshared
    <3> QED BY <2>3, <3>1, KeyTaken
  <2>6. ASSUME NEW x \in Workers \ {w} PROVE req'[x].conv # c
    BY <2>2, <2>5, <2>6, OthersKept DEF Unshared
  <2> QED BY <2>1, <2>2, <2>4, <2>6 DEF Unshared, Exists
<1>2. CASE w = v
  <2>1. InsertConversation(v)
    <3>1. ~(BeginContact(v) \/ Load(v))
      BY <1>2 DEF BeginContact, Load, AfterLoad, Goto, TypeInv, TypeOK
    <3>2. ~(FindConversation(v) \/ AddParticipants(v) \/ CreateEmpty(v))
      BY <1>2 DEF FindConversation, AddParticipants, CreateEmpty, Goto, TypeInv, TypeOK
    <3>3. ~(InsertMessage(v) \/ Touch(v) \/ SaveRow(v) \/ MarkRead(v) \/ Delete(v) \/ Abort(v))
      BY <1>2 DEF InsertMessage, Touch, SaveRow, MarkRead, Delete, Abort, Finish, Goto, TypeInv, TypeOK
    <3> QED BY <3>1, <3>2, <3>3 DEF Step
  <2>2. PICK c \in Convs : /\ FreshKey(c)
                           /\ conv' = [conv EXCEPT ![c] = NewRow(KindOf(req[v].op))]
                           /\ req' = [req EXCEPT ![v].conv = c]
    BY <2>1 DEF InsertConversation
  <2>3. req[v] \in Request
    BY <2>1 DEF InsertConversation, TypeInv, LocalOK
  <2>4. req'[v].conv = c /\ req'[v].op = req[v].op
    BY <2>2, <2>3 DEF TypeInv, TypeOK, Request
  <2>5. conv'[c] = NewRow(KindOf(req[v].op)) /\ parts'[c] = {}
    BY <2>1, <2>2 DEF InsertConversation, FreshKey, Kinds, TypeInv, TypeOK
  <2>6. Exists(c)' /\ (req[v].op # "start" => conv'[c].kind # "direct")
    BY <2>5, NewExists DEF Exists, KindOf, NewRow, NoRow
  <2>7. ASSUME NEW x \in Workers \ {v} PROVE req'[x].conv # c
    BY <2>2, <2>7, OthersKept DEF FreshKey
  <2> QED BY <1>2, <2>4, <2>5, <2>6, <2>7 DEF Unshared, Exists
<1> QED BY <1>1, <1>2

LEMMA KindsStep ==
    ASSUME TypeInv, Kinds, NEW v \in Workers, Step(v)
    PROVE  Kinds'
<1>1. ASSUME NEW w \in Workers, pc'[w] = "saveRow", parts'[req'[w].conv] # {}
      PROVE  row'[w].kind = conv'[req'[w].conv].kind
  <2>1. CASE w = v
    <3>1. Load(v)
      <4>1. ~(BeginContact(v) \/ FindConversation(v) \/ InsertConversation(v) \/ AddParticipants(v) \/ CreateEmpty(v))
        BY <1>1, <2>1 DEF BeginContact, FindConversation, InsertConversation, AddParticipants,
              CreateEmpty, Goto, TypeInv, TypeOK
      <4>2. ~(InsertMessage(v) \/ Touch(v) \/ SaveRow(v) \/ MarkRead(v) \/ Delete(v) \/ Abort(v))
        BY <1>1, <2>1 DEF InsertMessage, Touch, SaveRow, MarkRead, Delete, Abort, Finish, Goto, TypeInv, TypeOK
      <4> QED BY <4>1, <4>2 DEF Step
    <3>2. PICK op \in Ops, u \in Users : \E c \in Mine(u) :
            /\ req' = [req EXCEPT ![v] = [op |-> op, user |-> u, peer |-> u, conv |-> c, sent |-> 0]]
            /\ row' = [row EXCEPT ![v] = IF AfterLoad(op) = "saveRow" THEN conv[c] ELSE NoRow]
            /\ Goto(v, AfterLoad(op))
      BY <3>1 DEF Load
    <3>3. PICK c \in Mine(u) :
            /\ req' = [req EXCEPT ![v] = [op |-> op, user |-> u, peer |-> u, conv |-> c, sent |-> 0]]
            /\ row' = [row EXCEPT ![v] = IF AfterLoad(op) = "saveRow" THEN conv[c] ELSE NoRow]
            /\ Goto(v, AfterLoad(op))
      BY <3>2
    <3>4. AfterLoad(op) = "saveRow"
      BY <1>1, <2>1, <3>3 DEF Goto, TypeInv, TypeOK
    <3>5. req'[v].conv = c /\ row'[v] = conv[c]
      BY <3>3, <3>4 DEF TypeInv, TypeOK
    <3> QED BY <2>1, <3>1, <3>5 DEF Load, tables
  <2>2. CASE w # v
    <3> DEFINE c == req[w].conv
    <3>1. pc[w] = "saveRow" /\ req'[w] = req[w] /\ row'[w] = row[w] /\ c \in Convs
      BY <1>1, <2>2, OthersKept DEF TypeInv, LocalOK
    <3>2. CASE req[v].conv # c
      BY <1>1, <3>1, <3>2, ElsewhereKept DEF Kinds
    <3>3. CASE req[v].conv = c
      <4>0. parts[c] # {} => row[w].kind = conv[c].kind
        BY <3>1 DEF Kinds
      <4>1. CASE UNCHANGED <<conv, parts>>
        BY <1>1, <3>1, <4>0, <4>1
      <4>2. CASE InsertConversation(v) \/ CreateEmpty(v)
        BY <1>1, <3>1, <4>0, <4>2 DEF InsertConversation, CreateEmpty, FreshKey, TypeInv, TypeOK
      <4>3. CASE AddParticipants(v)
        <5>1. Unshared(v)
          BY <4>3 DEF AddParticipants, Kinds
        <5> QED BY <2>2, <3>3, <5>1 DEF Unshared
      <4>4. CASE Touch(v)
        <5>1. conv'[c].kind = conv[c].kind
          BY <3>1, <3>3, <4>4 DEF Touch, Exists, TypeInv, TypeOK, ConversationRow
        <5> QED BY <1>1, <3>1, <4>0, <4>4, <5>1 DEF Touch
      <4>5. CASE SaveRow(v)
        <5>1. parts[c] # {} /\ row[v].kind = conv[c].kind
          BY <1>1, <3>1, <3>3, <4>5 DEF SaveRow, Kinds
        <5>2. row[v] \in ConversationRow
          BY <4>5 DEF SaveRow, TypeInv, LocalOK
        <5>3. Saved(req[v].op, req[v].user, row[v]).kind = row[v].kind
          BY <5>2 DEF Saved, ConversationRow
        <5>4. conv'[c] = Saved(req[v].op, req[v].user, row[v])
          BY <3>1, <3>3, <4>5 DEF SaveRow, TypeInv, TypeOK
        <5> QED BY <3>1, <4>0, <5>1, <5>3, <5>4
      <4>6. CASE Delete(v)
        BY <1>1, <3>1, <3>3, <4>6 DEF Delete, TypeInv, TypeOK
      <4>7. CASE BeginContact(v) \/ FindConversation(v) \/ InsertMessage(v) \/ Load(v) \/ MarkRead(v) \/ Abort(v)
        BY <4>1, <4>7 DEF BeginContact, FindConversation, InsertMessage, Load, MarkRead, Abort, tables
      <4> QED BY <4>2, <4>3, <4>4, <4>5, <4>6, <4>7 DEF Step
    <3> QED BY <3>2, <3>3
  <2> QED BY <2>1, <2>2
<1> QED BY <1>1, BareStep, UnsharedStep DEF Kinds

LEMMA KindsInvariant == Spec => []Kinds
<1>1. Init => Kinds
  BY DEF Init, Kinds
<1>2. TypeInv /\ Kinds /\ [Next]_vars => Kinds'
  <2>1. TypeInv /\ Kinds /\ UNCHANGED vars => Kinds'
    BY DEF vars, Kinds, Unshared, Exists
  <2> QED BY <2>1, KindsStep DEF Next
<1> QED BY <1>1, <1>2, TypeInvariant, PTL DEF Spec

\* The conversations of a pair and the workers about to add one are finite sets.
LEMMA Finite ==
    ASSUME NEW u, NEW p
    PROVE  /\ IsFiniteSet(Matching("start", u, p))
           /\ IsFiniteSet(Starting({u, p})) /\ Starting({u, p}) \subseteq Workers
<1>1. Matching("start", u, p) \subseteq Convs /\ Starting({u, p}) \subseteq Workers
  BY DEF Matching, Starting
<1> QED BY <1>1, FS_Subset, ConvsAssumption, WorkersAssumption

PairBounded(u, p) ==
    Cardinality(Matching("start", u, p)) + Cardinality(Starting({u, p})) <= Cardinality(Workers)

\* Nothing is gained: no conversation more, no worker more.
LEMMA Fewer ==
    ASSUME NEW u \in Users, NEW p \in Users, PairBounded(u, p),
           Matching("start", u, p)' \subseteq Matching("start", u, p),
           Starting({u, p})' \subseteq Starting({u, p})
    PROVE  PairBounded(u, p)'
<1>1. /\ Cardinality(Matching("start", u, p)') <= Cardinality(Matching("start", u, p))
      /\ Cardinality(Starting({u, p})') <= Cardinality(Starting({u, p}))
  BY Finite, FS_Subset
<1>2. /\ Cardinality(Matching("start", u, p)) \in Nat /\ Cardinality(Starting({u, p})) \in Nat
      /\ Cardinality(Workers) \in Nat
  BY Finite, FS_CardinalityType, WorkersAssumption
<1>3. IsFiniteSet(Matching("start", u, p)') /\ IsFiniteSet(Starting({u, p})')
  BY Finite, FS_Subset
<1>4. Cardinality(Matching("start", u, p)') \in Nat /\ Cardinality(Starting({u, p})') \in Nat
  BY <1>3, FS_CardinalityType
<1> QED BY <1>1, <1>2, <1>4 DEF PairBounded

\* A worker that adds a conversation is no longer about to.
LEMMA OneMore ==
    ASSUME NEW u \in Users, NEW p \in Users, PairBounded(u, p), NEW c \in Convs,
           NEW w \in Starting({u, p}),
           Matching("start", u, p)' \subseteq Matching("start", u, p) \cup {c},
           Starting({u, p})' \subseteq Starting({u, p}) \ {w}
    PROVE  PairBounded(u, p)'
<1> DEFINE M == Matching("start", u, p)
           S == Starting({u, p})
           M1 == Matching("start", u, p)'
           S1 == Starting({u, p})'
<1>0. IsFiniteSet(M) /\ IsFiniteSet(S) /\ w \in S /\ M1 \subseteq M \cup {c} /\ S1 \subseteq S \ {w}
  BY Finite
<1>6. PairBounded(u, p)' <=> Cardinality(M1) + Cardinality(S1) <= Cardinality(Workers)
  BY DEF PairBounded
<1>7. Cardinality(M) + Cardinality(S) <= Cardinality(Workers)
  BY DEF PairBounded
<1> HIDE DEF M, S, M1, S1
<1>8. Cardinality(M) \in Nat
  BY <1>0, FS_CardinalityType
<1>1. Cardinality(M \cup {c}) <= Cardinality(M) + 1 /\ IsFiniteSet(M \cup {c})
      /\ Cardinality(M) \in Nat /\ Cardinality(M \cup {c}) \in Nat
  <2>1. CASE c \in M
    <3>1. M \cup {c} = M
      BY <2>1
    <3>2. Cardinality(M \cup {c}) = Cardinality(M) /\ IsFiniteSet(M \cup {c})
      BY <1>0, <3>1
    <3> QED BY <1>8, <3>2
  <2>2. CASE c \notin M
    <3>1. Cardinality(M \cup {c}) = Cardinality(M) + 1 /\ IsFiniteSet(M \cup {c})
      BY <1>0, <2>2, FS_AddElement
    <3> QED BY <1>8, <3>1
  <2> QED BY <2>1, <2>2
<1>2. Cardinality(S \ {w}) = Cardinality(S) - 1 /\ IsFiniteSet(S \ {w})
      /\ Cardinality(S) \in Nat /\ Cardinality(S \ {w}) \in Nat
  BY <1>0, FS_RemoveElement, FS_CardinalityType
<1>3. Cardinality(M1) <= Cardinality(M \cup {c}) /\ Cardinality(M1) \in Nat
  BY <1>0, <1>1, FS_Subset, FS_CardinalityType
<1>4. Cardinality(S1) <= Cardinality(S \ {w}) /\ Cardinality(S1) \in Nat
  BY <1>0, <1>2, FS_Subset, FS_CardinalityType
<1>5. Cardinality(Workers) \in Nat
  BY WorkersAssumption, FS_CardinalityType
<1> QED BY <1>1, <1>2, <1>3, <1>4, <1>5, <1>6, <1>7

\* Only a search in vain makes a worker one that starts a conversation.
LEMMA StartingStep ==
    ASSUME TypeInv, NEW w \in Workers, Step(w), NEW pair,
           w \notin Starting(pair), w \in Starting(pair)'
    PROVE  /\ FindConversation(w) /\ pc'[w] = "insertConversation"
           /\ req[w].op = "start" /\ {req[w].user, req[w].peer} = pair
<1>1. pc'[w] \in {"insertConversation", "addParticipants"}
      /\ req'[w].op = "start" /\ {req'[w].user, req'[w].peer} = pair
  BY DEF Starting
<1>2. CASE FindConversation(w)
  <2>1. req[w] \in Request
    BY <1>2 DEF FindConversation, TypeInv, LocalOK
  <2>2. pc'[w] = "insertConversation" /\ req' = req
    BY <1>1, <1>2 DEF FindConversation, Goto, TypeInv, TypeOK
  <2> QED BY <1>1, <1>2, <2>2
<1>3. CASE InsertConversation(w)
  <2>1. req[w] \in Request
    BY <1>3 DEF InsertConversation, TypeInv, LocalOK
  <2>2. req'[w].op = req[w].op /\ req'[w].user = req[w].user /\ req'[w].peer = req[w].peer
    BY <1>3, <2>1 DEF InsertConversation, TypeInv, TypeOK, Request
  <2> QED BY <1>1, <1>3, <2>2 DEF InsertConversation, Starting
<1>4. ~BeginContact(w)
  BY <1>1 DEF BeginContact, Goto, TypeInv, TypeOK
<1>7. ~Load(w)
  <2> SUFFICES ASSUME Load(w) PROVE FALSE
    OBVIOUS
  <2>1. PICK op : pc' = [pc EXCEPT ![w] = AfterLoad(op)]
    BY DEF Load, Goto
  <2> QED BY <1>1, <2>1 DEF AfterLoad, TypeInv, TypeOK
<1>5. ~(AddParticipants(w) \/ CreateEmpty(w))
  BY <1>1 DEF AddParticipants, CreateEmpty, Goto, TypeInv, TypeOK
<1>6. ~(InsertMessage(w) \/ Touch(w) \/ SaveRow(w) \/ MarkRead(w) \/ Delete(w) \/ Abort(w))
  BY <1>1 DEF InsertMessage, Touch, SaveRow, MarkRead, Delete, Abort, Finish, Goto, TypeInv, TypeOK
<1> QED BY <1>2, <1>3, <1>4, <1>5, <1>6, <1>7 DEF Step

LEMMA StartingOthers ==
    ASSUME TypeInv, NEW w \in Workers, Step(w), NEW pair
    PROVE  Starting(pair)' \subseteq Starting(pair) \cup {w}
BY OthersKept DEF Starting

\* Only AddParticipants makes a conversation one that two users find.
LEMMA MatchingStep ==
    ASSUME TypeInv, Kinds, NEW w \in Workers, Step(w), ~AddParticipants(w),
           NEW u \in Users, NEW p \in Users
    PROVE  Matching("start", u, p)' \subseteq Matching("start", u, p)
<1> SUFFICES ASSUME NEW c \in Convs, conv'[c].kind = "direct", {u, p} \subseteq parts'[c]
             PROVE  conv[c].kind = "direct" /\ {u, p} \subseteq parts[c]
  BY DEF Matching, KindOf
<1>1. CASE UNCHANGED <<conv, parts>>
  BY <1>1
<1>2. CASE InsertConversation(w) \/ CreateEmpty(w)
  BY <1>2 DEF InsertConversation, CreateEmpty, FreshKey, Kinds, TypeInv, TypeOK
<1>3. CASE Touch(w)
  BY <1>3 DEF Touch, Exists, TypeInv, TypeOK, ConversationRow
<1>4. CASE SaveRow(w)
  <2>1. row[w] \in ConversationRow
    BY <1>4 DEF SaveRow, TypeInv, LocalOK
  <2>2. Saved(req[w].op, req[w].user, row[w]).kind = row[w].kind
    BY <2>1 DEF Saved, ConversationRow
  <2> QED BY <1>4, <2>2 DEF SaveRow, Kinds, TypeInv, TypeOK
<1>5. CASE Delete(w)
  BY <1>5 DEF Delete, TypeInv, TypeOK
<1>6. CASE BeginContact(w) \/ FindConversation(w) \/ InsertMessage(w) \/ Load(w) \/ MarkRead(w) \/ Abort(w)
  BY <1>1, <1>6 DEF BeginContact, FindConversation, InsertMessage, Load, MarkRead, Abort, tables
<1> QED BY <1>2, <1>3, <1>4, <1>5, <1>6 DEF Step

LEMMA BoundedStep ==
    ASSUME TypeInv, Kinds, NEW w \in Workers, Step(w),
           NEW u \in Users, NEW p \in Users, u # p, PairBounded(u, p)
    PROVE  PairBounded(u, p)'
<1>1. CASE AddParticipants(w)
  <2> DEFINE c == req[w].conv
  <2>1. c \in Convs /\ req[w] \in Request /\ Unshared(w)
    BY <1>1 DEF AddParticipants, TypeInv, LocalOK, Kinds
  <2>2. /\ conv' = conv /\ parts' = [parts EXCEPT ![c] = {req[w].user, req[w].peer}]
        /\ pc' = [pc EXCEPT ![w] = "insertMessage"] /\ req' = req
    BY <1>1 DEF AddParticipants, Goto
  <2>3. Starting({u, p})' \subseteq Starting({u, p}) \ {w}
    BY <2>2 DEF Starting, TypeInv, TypeOK
  <2>4. Matching("start", u, p)' \subseteq Matching("start", u, p) \cup {c}
    BY <2>2 DEF Matching, TypeInv, TypeOK
  <2>5. CASE w \in Starting({u, p})
    BY <2>1, <2>3, <2>4, <2>5, OneMore
  <2>6. CASE w \notin Starting({u, p})
    <3>1. c \notin Matching("start", u, p)'
      <4> SUFFICES ASSUME conv[c].kind = "direct", {u, p} \subseteq {req[w].user, req[w].peer} PROVE FALSE
        BY <2>1, <2>2 DEF Matching, KindOf, TypeInv, TypeOK
      <4>1. {req[w].user, req[w].peer} = {u, p}
        OBVIOUS
      <4>2. req[w].op # "start"
        BY <1>1, <2>6, <4>1 DEF AddParticipants, Starting
      <4> QED BY <2>1, <4>2 DEF Unshared
    <3> QED BY <2>3, <2>4, <3>1, Fewer
  <2> QED BY <2>5, <2>6
<1>2. CASE ~AddParticipants(w)
  <2>1. Matching("start", u, p)' \subseteq Matching("start", u, p)
    BY <1>2, MatchingStep
  <2>2. CASE w \notin Starting({u, p}) /\ w \in Starting({u, p})'
    <3>1. /\ FindConversation(w) /\ pc'[w] = "insertConversation"
          /\ req[w].op = "start" /\ {req[w].user, req[w].peer} = {u, p}
      BY <2>2, StartingStep
    <3>2. Matching("start", u, p) = {}
      <4>1. Matching(req[w].op, req[w].user, req[w].peer) = {}
        BY <3>1 DEF FindConversation, Goto, TypeInv, TypeOK
      <4> QED BY <3>1, <4>1 DEF Matching
    <3>3. Matching("start", u, p)' = {} /\ Starting({u, p})' \subseteq Workers
      BY <2>1, <3>2 DEF Starting
    <3>4. Cardinality(Starting({u, p})') <= Cardinality(Workers)
      BY <3>3, FS_Subset, WorkersAssumption
    <3>5. Cardinality(Starting({u, p})') \in Nat
      BY <3>3, FS_Subset, FS_CardinalityType, WorkersAssumption
    <3> QED BY <3>3, <3>4, <3>5, FS_EmptySet DEF PairBounded
  <2>3. CASE w \in Starting({u, p}) \/ w \notin Starting({u, p})'
    <3>1. Starting({u, p})' \subseteq Starting({u, p})
      BY <2>3, StartingOthers
    <3> QED BY <2>1, <3>1, Fewer
  <2> QED BY <2>2, <2>3
<1> QED BY <1>1, <1>2

\* However many requests start a conversation between the same two users at
\* once, they end up with at most one direct conversation for each worker.
THEOREM DuplicatesAreBounded == Spec => []DirectBounded
<1>1. DirectBounded <=> \A u, p \in Users : u # p => PairBounded(u, p)
  BY DEF DirectBounded, PairBounded
<1>2. Init => DirectBounded
  <2> SUFFICES ASSUME Init, NEW u \in Users, NEW p \in Users PROVE PairBounded(u, p)
    BY <1>1
  <2>1. Matching("start", u, p) = {}
    <3>1. \A c \in Convs : conv[c].kind = "none"
      BY DEF Init, NoRow
    <3> QED BY <3>1 DEF Matching, KindOf
  <2>2. Starting({u, p}) = {}
    BY DEF Init, Starting
  <2>3. Cardinality(Workers) \in Nat
    BY FS_CardinalityType, WorkersAssumption
  <2>4. Cardinality(Matching("start", u, p)) = 0 /\ Cardinality(Starting({u, p})) = 0
    BY <2>1, <2>2, FS_EmptySet
  <2> QED BY <2>3, <2>4 DEF PairBounded
<1>3. TypeInv /\ Kinds /\ DirectBounded /\ [Next]_vars => DirectBounded'
  <2> SUFFICES ASSUME TypeInv, Kinds, DirectBounded, [Next]_vars,
                      NEW u \in Users, NEW p \in Users, u # p
               PROVE  PairBounded(u, p)'
    BY DEF DirectBounded, PairBounded
  <2>1. PairBounded(u, p)
    BY DEF DirectBounded, PairBounded
  <2>2. CASE UNCHANGED vars
    BY <2>1, <2>2 DEF vars, PairBounded, Matching, Starting
  <2> QED BY <2>1, <2>2, BoundedStep DEF Next
<1> QED BY <1>2, <1>3, TypeInvariant, KindsInvariant, PTL DEF Spec

-----------------------------------------------------------------------------
(* Where messages lie.                                                     *)

\* The participants of a conversation are added once and removed with it.
LEMMA PartsStep ==
    ASSUME TypeInv, NEW v \in Workers, Step(v), NEW c \in Convs
    PROVE  \/ parts'[c] = parts[c]
           \/ Delete(v) /\ req[v].conv = c /\ parts'[c] = {}
           \/ AddParticipants(v) /\ req[v].conv = c /\ parts'[c] = {req[v].user, req[v].peer}
<1>1. CASE parts' = parts
  BY <1>1
<1>2. CASE AddParticipants(v)
  BY <1>2 DEF AddParticipants, TypeInv, TypeOK
<1>3. CASE Delete(v)
  BY <1>3 DEF Delete, TypeInv, TypeOK
<1>4. CASE BeginContact(v) \/ FindConversation(v) \/ InsertConversation(v) \/ InsertMessage(v) \/ Touch(v)
  BY <1>1, <1>4 DEF BeginContact, FindConversation, InsertConversation, InsertMessage, Touch, tables
<1>5. CASE Load(v) \/ SaveRow(v) \/ MarkRead(v) \/ CreateEmpty(v) \/ Abort(v)
  BY <1>1, <1>5 DEF Load, SaveRow, MarkRead, CreateEmpty, Abort, tables
<1> QED BY <1>2, <1>3, <1>4, <1>5 DEF Step

\* A conversation exists until it is deleted.
LEMMA ExistsStep ==
    ASSUME TypeInv, NEW v \in Workers, Step(v), NEW c \in Convs, Exists(c)
    PROVE  Exists(c)' \/ (Delete(v) /\ req[v].conv = c)
<1>0. conv[c] \in ConversationRow
  BY DEF Exists, TypeInv, TypeOK
<1>1. CASE conv' = conv
  BY <1>1 DEF Exists
<1>2. CASE InsertConversation(v) \/ CreateEmpty(v)
  BY <1>2, NewExists DEF InsertConversation, CreateEmpty, Exists, TypeInv, TypeOK
<1>3. CASE Touch(v)
  <2>1. conv'[c].kind = conv[c].kind
    BY <1>0, <1>3 DEF Touch, TypeInv, TypeOK, ConversationRow
  <2> QED BY <1>0, <2>1 DEF Exists, ConversationRow, NoRow
<1>4. CASE SaveRow(v)
  <2>1. Saved(req[v].op, req[v].user, row[v]) \in ConversationRow
    BY <1>4, SavedType DEF SaveRow, TypeInv, LocalOK, Request
  <2>2. conv'[c] \in ConversationRow
    BY <1>0, <1>4, <2>1 DEF SaveRow, TypeInv, TypeOK
  <2> QED BY <2>2 DEF Exists, ConversationRow, NoRow
<1>5. CASE Delete(v)
  BY <1>5 DEF Delete, Exists, TypeInv, TypeOK
<1>6. CASE BeginContact(v) \/ FindConversation(v) \/ AddParticipants(v) \/ InsertMessage(v)
  BY <1>1, <1>6 DEF BeginContact, FindConversation, AddParticipants, InsertMessage, tables
<1>7. CASE Load(v) \/ MarkRead(v) \/ Abort(v)
  BY <1>1, <1>7 DEF Load, MarkRead, Abort, tables
<1> QED BY <1>2, <1>3, <1>4, <1>5, <1>6, <1>7 DEF Step

\* A message stays in its conversation, or is removed with it.
LEMMA MessageKept ==
    ASSUME TypeInv, NEW v \in Workers, Step(v), NEW n \in DOMAIN msgs
    PROVE  /\ n \in DOMAIN msgs'
           /\ \/ msgs'[n].conv = msgs[n].conv /\ msgs'[n].sender = msgs[n].sender
                 /\ ~(Delete(v) /\ req[v].conv = msgs[n].conv)
              \/ msgs'[n] = Removed /\ Delete(v) /\ req[v].conv = msgs[n].conv
<1>0. msgs[n] \in Message \cup {Removed} /\ ~(pc[v] # "delete" /\ Delete(v))
  BY DEF TypeInv, TypeOK, Delete
<1>1. CASE msgs' = msgs /\ pc[v] # "delete"
  BY <1>0, <1>1
<1>2. CASE InsertMessage(v)
  <2>1. CASE msgs' = msgs
    BY <1>1, <1>2, <2>1 DEF InsertMessage
  <2>2. CASE msgs' # msgs
    <3>1. PICK m : msgs' = Append(msgs, m)
      BY <1>2, <2>2 DEF InsertMessage, tables
    <3>2. n \in DOMAIN msgs' /\ msgs'[n] = msgs[n]
      BY <3>1 DEF TypeInv, TypeOK
    <3> QED BY <1>0, <1>2, <3>2 DEF InsertMessage
  <2> QED BY <2>1, <2>2
<1>3. CASE MarkRead(v)
  <2>1. n \in DOMAIN msgs' /\ \E b : msgs'[n] = [msgs[n] EXCEPT !.read = b]
    BY <1>3 DEF MarkRead
  <2>2. msgs'[n].conv = msgs[n].conv /\ msgs'[n].sender = msgs[n].sender
    BY <1>0, <2>1 DEF Message, Removed
  <2> QED BY <1>0, <1>3, <2>1, <2>2 DEF MarkRead
<1>4. CASE Delete(v)
  <2>1. n \in DOMAIN msgs' /\ msgs'[n] = IF msgs[n].conv = req[v].conv THEN Removed ELSE msgs[n]
    BY <1>4 DEF Delete
  <2> QED BY <1>4, <2>1
<1>5. CASE BeginContact(v) \/ FindConversation(v) \/ InsertConversation(v) \/ AddParticipants(v) \/ Touch(v)
  BY <1>1, <1>5 DEF BeginContact, FindConversation, InsertConversation, AddParticipants, Touch, tables
<1>6. CASE Load(v) \/ SaveRow(v) \/ CreateEmpty(v)
  BY <1>1, <1>6 DEF Load, SaveRow, CreateEmpty, tables
<1>7. CASE Abort(v)
  <2>1. msgs' = msgs /\ (Delete(v) => conv' = conv)
    BY <1>7 DEF Abort, tables
  <2>2. CASE Delete(v)
    BY <2>2, <1>4
  <2> QED BY <1>0, <2>1, <2>2
<1> QED BY <1>2, <1>3, <1>4, <1>5, <1>6, <1>7 DEF Step

\* A new message lies where its request put it.
LEMMA MessageNew ==
    ASSUME TypeInv, NEW v \in Workers, Step(v), NEW n \in DOMAIN msgs', n \notin DOMAIN msgs
    PROVE  /\ InsertMessage(v) /\ Exists(req[v].conv) /\ n = Len(msgs) + 1
           /\ msgs'[n].conv = req[v].conv /\ msgs'[n].sender = req[v].user
<1>1. InsertMessage(v)
  <2>1. ~(MarkRead(v) \/ Delete(v))
    BY DEF MarkRead, Delete
  <2>2. ~(BeginContact(v) \/ FindConversation(v) \/ InsertConversation(v) \/ AddParticipants(v) \/ Touch(v))
    BY DEF BeginContact, FindConversation, InsertConversation, AddParticipants, Touch, tables
  <2>3. ~(Load(v) \/ SaveRow(v) \/ CreateEmpty(v) \/ Abort(v))
    BY DEF Load, SaveRow, CreateEmpty, Abort, tables
  <2> QED BY <2>1, <2>2, <2>3 DEF Step
<1> DEFINE m == [conv |-> req[v].conv, sender |-> req[v].user, read |-> FALSE]
<1>2. Exists(req[v].conv) /\ msgs' = Append(msgs, m)
  BY <1>1 DEF InsertMessage, tables
<1>3. m.conv = req[v].conv /\ m.sender = req[v].user
  OBVIOUS
<1> HIDE DEF m
<1>4. n = Len(msgs) + 1 /\ msgs'[n] = m
  BY <1>2 DEF TypeInv, TypeOK
<1> QED BY <1>1, <1>2, <1>3, <1>4

\* Who is a member of a conversation, or of one that lost its participants.
Member(u, c) == parts[c] = {} \/ u \in parts[c]

\* What the request of worker w carries about its users.
Writes(w) ==
    /\ pc[w] \in {"find", "insertConversation", "addParticipants"} => req[w].user # req[w].peer
    /\ pc[w] = "insertMessage" => Member(req[w].user, req[w].conv)

Lies(n) == msgs[n] # Removed => Exists(msgs[n].conv) /\ Member(msgs[n].sender, msgs[n].conv)

\* Messages lie in conversations that exist and that their sender is a member
\* of, and none in one that is still without participants.
MsgInv ==
    /\ \A c \in Convs : parts[c] = {} \/ Cardinality(parts[c]) = 2
    /\ \A w \in Workers : Writes(w)
    /\ \A n \in DOMAIN msgs : Lies(n)
    /\ \A w \in Workers : pc[w] = "addParticipants" => \A n \in DOMAIN msgs : msgs[n].conv # req[w].conv

LEMMA MessageConv ==
    ASSUME TypeInv, NEW n \in DOMAIN msgs
    PROVE  IF msgs[n] = Removed THEN msgs[n].conv \notin Convs
           ELSE msgs[n].conv \in Convs /\ msgs[n].sender \in Users
<1>1. msgs[n] \in Message \cup {Removed}
  BY DEF TypeInv, TypeOK
<1> QED BY <1>1, ConvsAssumption DEF Message, Removed

LEMMA MemberKept ==
    ASSUME TypeInv, NEW v \in Workers, Step(v), NEW c \in Convs, NEW u, Member(u, c),
           ~(AddParticipants(v) /\ req[v].conv = c)
    PROVE  Member(u, c)'
BY PartsStep DEF Member

LEMMA TwoStep ==
    ASSUME TypeInv, MsgInv, NEW v \in Workers, Step(v), NEW c \in Convs
    PROVE  parts'[c] = {} \/ Cardinality(parts'[c]) = 2
<1>1. CASE AddParticipants(v) /\ parts'[c] = {req[v].user, req[v].peer}
  <2>1. req[v].user # req[v].peer
    BY <1>1 DEF AddParticipants, MsgInv, Writes
  <2>2. Cardinality({req[v].user}) = 1 /\ IsFiniteSet({req[v].user})
    BY FS_Singleton
  <2>3. Cardinality({req[v].user} \cup {req[v].peer}) = Cardinality({req[v].user}) + 1
    BY <2>1, <2>2, FS_AddElement
  <2>4. parts'[c] = {req[v].user} \cup {req[v].peer}
    BY <1>1
  <2>5. Cardinality(parts'[c]) = 2
    BY <2>2, <2>3, <2>4
  <2> QED BY <2>5
<1> QED BY <1>1, PartsStep DEF MsgInv

\* What the step's own worker carries afterwards.
LEMMA WritesOwn ==
    ASSUME TypeInv, MsgInv, NEW v \in Workers, Step(v)
    PROVE  Writes(v)'
<1>0. Writes(v)
  BY DEF MsgInv
<1>1. CASE BeginContact(v)
  BY <1>1 DEF BeginContact, Goto, Writes, TypeInv, TypeOK
<1>2. CASE FindConversation(v)
  <2>0. req[v] \in Request /\ parts' = parts
    BY <1>2 DEF FindConversation, TypeInv, LocalOK, tables
  <2>1. CASE Goto(v, "insertConversation") /\ req' = req
    BY <1>0, <1>2, <2>0, <2>1 DEF FindConversation, Goto, Writes, TypeInv, TypeOK
  <2>2. CASE \E c \in Matching(req[v].op, req[v].user, req[v].peer) :
                req' = [req EXCEPT ![v].conv = c] /\ Goto(v, "insertMessage")
    <3>1. PICK c \in Matching(req[v].op, req[v].user, req[v].peer) :
                req' = [req EXCEPT ![v].conv = c] /\ Goto(v, "insertMessage")
      BY <2>2
    <3>2. req'[v].conv = c /\ req'[v].user = req[v].user /\ pc'[v] = "insertMessage"
      BY <2>0, <3>1 DEF Goto, TypeInv, TypeOK, Request
    <3>3. req[v].user \in parts[c]
      BY DEF Matching
    <3> QED BY <2>0, <3>2, <3>3 DEF Writes, Member
  <2> QED BY <1>2, <2>1, <2>2 DEF FindConversation
<1>3. CASE InsertConversation(v)
  <2>1. req[v] \in Request
    BY <1>3 DEF InsertConversation, TypeInv, LocalOK
  <2>2. pc'[v] = "addParticipants" /\ req'[v].user = req[v].user /\ req'[v].peer = req[v].peer
    BY <1>3, <2>1 DEF InsertConversation, Goto, TypeInv, TypeOK, Request
  <2> QED BY <1>0, <1>3, <2>2 DEF InsertConversation, Writes
<1>4. CASE AddParticipants(v)
  <2>1. req[v].conv \in Convs
    BY <1>4 DEF AddParticipants, TypeInv, LocalOK
  <2> QED BY <1>4, <2>1 DEF AddParticipants, Goto, Writes, Member, TypeInv, TypeOK
<1>5. CASE Load(v)
  <2>1. PICK op \in Ops, u \in Users : \E c \in Mine(u) :
            /\ req' = [req EXCEPT ![v] = [op |-> op, user |-> u, peer |-> u, conv |-> c, sent |-> 0]]
            /\ Goto(v, AfterLoad(op))
    BY <1>5 DEF Load
  <2>2. PICK c \in Mine(u) :
            /\ req' = [req EXCEPT ![v] = [op |-> op, user |-> u, peer |-> u, conv |-> c, sent |-> 0]]
            /\ Goto(v, AfterLoad(op))
    BY <2>1
  <2>3. req'[v].user = u /\ req'[v].conv = c /\ pc'[v] = AfterLoad(op)
    BY <2>2 DEF Goto, TypeInv, TypeOK
  <2>4. u \in parts[c] /\ parts' = parts
    BY <1>5 DEF Mine, Load, tables
  <2>5. AfterLoad(op) \notin {"find", "insertConversation", "addParticipants"}
    BY DEF AfterLoad
  <2> QED BY <2>3, <2>4, <2>5 DEF Writes, Member
<1>6. CASE InsertMessage(v)
  <2>1. pc'[v] \in {"touch", "idle"}
    BY <1>6 DEF InsertMessage, Finish, Goto, TypeInv, TypeOK
  <2> QED BY <2>1 DEF Writes
<1>7. CASE Touch(v) \/ SaveRow(v) \/ MarkRead(v) \/ Delete(v) \/ Abort(v)
  <2>1. pc'[v] = "idle"
    BY <1>7 DEF Touch, SaveRow, MarkRead, Delete, Abort, Finish, TypeInv, TypeOK
  <2> QED BY <2>1 DEF Writes
<1>8. CASE CreateEmpty(v)
  <2>1. pc'[v] = "idle"
    BY <1>8 DEF CreateEmpty
  <2> QED BY <2>1 DEF Writes
<1> QED BY <1>1, <1>2, <1>3, <1>4, <1>5, <1>6, <1>7, <1>8 DEF Step

LEMMA WritesStep ==
    ASSUME TypeInv, Kinds, MsgInv, NEW v \in Workers, Step(v), NEW w \in Workers
    PROVE  Writes(w)'
<1>1. CASE w # v
  <2>1. pc'[w] = pc[w] /\ req'[w] = req[w] /\ Writes(w)
    BY <1>1, OthersKept DEF MsgInv
  <2>2. ASSUME pc[w] = "insertMessage"
        PROVE  parts'[req[w].conv] = {} \/ req[w].user \in parts'[req[w].conv]
    <3>1. req[w].conv \in Convs /\ Member(req[w].user, req[w].conv)
      BY <2>1, <2>2 DEF Writes, TypeInv, LocalOK
    <3>2. ~(AddParticipants(v) /\ req[v].conv = req[w].conv)
      BY <1>1 DEF AddParticipants, Kinds, Unshared
    <3>3. PICK c, u : c \in Convs /\ c = req[w].conv /\ u = req[w].user
      BY <3>1
    <3>4. Member(u, c)'
      BY <3>1, <3>2, <3>3, MemberKept
    <3> QED BY <2>1, <3>3, <3>4 DEF Member
  <2> QED BY <2>1, <2>2 DEF Writes, Member
<1> QED BY <1>1, WritesOwn

LEMMA BetweenStep ==
    ASSUME TypeInv, Kinds, MsgInv, NEW v \in Workers, Step(v), NEW n \in DOMAIN msgs', msgs'[n] # Removed
    PROVE  Lies(n)'
<1>1. CASE n \in DOMAIN msgs
  <2>1. /\ msgs'[n].conv = msgs[n].conv /\ msgs'[n].sender = msgs[n].sender
        /\ ~(Delete(v) /\ req[v].conv = msgs[n].conv)
    BY <1>1, MessageKept
  <2>2. PICK c \in Convs, u \in Users : c = msgs'[n].conv /\ u = msgs'[n].sender
    <3>1. TypeInv'
      BY TypeStep DEF Next
    <3>2. msgs'[n] \in Message
      BY <3>1 DEF TypeInv, TypeOK
    <3> QED BY <3>2 DEF Message
  <2>3. Exists(c) /\ Member(u, c)
    BY <1>1, <2>1, <2>2, ConvsAssumption DEF MsgInv, Lies, Removed
  <2>4. ~(AddParticipants(v) /\ req[v].conv = c)
    BY <1>1, <2>1, <2>2 DEF AddParticipants, MsgInv
  <2>5. Exists(c)' /\ Member(u, c)'
    BY <2>1, <2>2, <2>3, <2>4, ExistsStep, MemberKept
  <2> QED BY <2>2, <2>5 DEF Lies, Exists, Member
<1>2. CASE n \notin DOMAIN msgs
  <2>1. /\ InsertMessage(v) /\ Exists(req[v].conv)
        /\ msgs'[n].conv = req[v].conv /\ msgs'[n].sender = req[v].user
    BY <1>2, MessageNew
  <2>2. PICK c, u : c \in Convs /\ c = req[v].conv /\ u = req[v].user
    BY <2>1 DEF InsertMessage, TypeInv, LocalOK
  <2>3. pc[v] = "insertMessage" /\ Member(u, c) /\ conv' = conv /\ parts' = parts
    BY <2>1, <2>2 DEF InsertMessage, MsgInv, Writes, tables
  <2> QED BY <2>1, <2>2, <2>3 DEF Lies, Exists, Member
<1> QED BY <1>1, <1>2

\* Only InsertConversation leads to "addParticipants".
LEMMA AddComesFromInsert ==
    ASSUME TypeInv, NEW v \in Workers, Step(v), pc'[v] = "addParticipants"
    PROVE  InsertConversation(v)
<1>1. ~(BeginContact(v) \/ Load(v))
  BY DEF BeginContact, Load, AfterLoad, Goto, TypeInv, TypeOK
<1>2. ~(FindConversation(v) \/ AddParticipants(v) \/ CreateEmpty(v))
  BY DEF FindConversation, AddParticipants, CreateEmpty, Goto, TypeInv, TypeOK
<1>3. ~(InsertMessage(v) \/ Touch(v) \/ SaveRow(v) \/ MarkRead(v) \/ Delete(v) \/ Abort(v))
  BY DEF InsertMessage, Touch, SaveRow, MarkRead, Delete, Abort, Finish, Goto, TypeInv, TypeOK
<1> QED BY <1>1, <1>2, <1>3 DEF Step

LEMMA EmptyStep ==
    ASSUME TypeInv, Kinds, MsgInv, NEW v \in Workers, Step(v), NEW w \in Workers,
           pc'[w] = "addParticipants", NEW n \in DOMAIN msgs'
    PROVE  msgs'[n].conv # req'[w].conv
<1>1. CASE w # v
  <2>1. pc[w] = "addParticipants" /\ req'[w] = req[w]
    BY <1>1, OthersKept
  <2>2. req[w].conv \in Convs /\ req[v].conv # req[w].conv
    BY <1>1, <2>1 DEF Kinds, Unshared, TypeInv, LocalOK
  <2>3. CASE n \in DOMAIN msgs
    <3>1. msgs[n].conv # req[w].conv
      BY <2>1, <2>3 DEF MsgInv
    <3>2. msgs'[n].conv = msgs[n].conv \/ msgs'[n].conv = NoConv
      BY <2>3, MessageKept DEF Removed
    <3> QED BY <2>1, <2>2, <3>1, <3>2, ConvsAssumption
  <2>4. CASE n \notin DOMAIN msgs
    BY <2>1, <2>2, <2>4, MessageNew
  <2> QED BY <2>3, <2>4
<1>2. CASE w = v
  <2>1. InsertConversation(v)
    BY <1>2, AddComesFromInsert
  <2>2. PICK c \in Convs : FreshKey(c) /\ req' = [req EXCEPT ![v].conv = c]
    BY <2>1 DEF InsertConversation
  <2>3. req'[v].conv = c /\ msgs' = msgs
    BY <2>1, <2>2 DEF InsertConversation, TypeInv, TypeOK, LocalOK, Request
  <2>4. msgs[n].conv # c
    BY <2>2, <2>3, MessageConv DEF FreshKey, MsgInv, Lies
  <2> QED BY <1>2, <2>3, <2>4
<1> QED BY <1>1, <1>2

LEMMA MsgInvariant == Spec => []MsgInv
<1>1. Init => MsgInv
  BY DEF Init, MsgInv, Writes
<1>2. TypeInv /\ Kinds /\ MsgInv /\ [Next]_vars => MsgInv'
  <2>1. ASSUME TypeInv, Kinds, MsgInv, NEW v \in Workers, Step(v) PROVE MsgInv'
    BY <2>1, TwoStep, WritesStep, BetweenStep, EmptyStep DEF MsgInv, Lies
  <2>2. TypeInv /\ Kinds /\ MsgInv /\ UNCHANGED vars => MsgInv'
    BY DEF vars, MsgInv, Lies, Writes, Member, Exists
  <2> QED BY <2>1, <2>2 DEF Next
<1> QED BY <1>1, <1>2, TypeInvariant, KindsInvariant, PTL DEF Spec

\* A stored message lies in a conversation that exists and that either has the
\* sender and one other as participants or lost them to a deletion that a
\* stale save undid (PrivateMessage, ConversationViewSet).
THEOREM MessagesStayBetweenTwo == Spec => []MessagesBetweenTwo
<1>1. TypeInv /\ MsgInv => MessagesBetweenTwo
  BY MessageConv DEF MsgInv, Lies, Member, MessagesBetweenTwo
<1> QED BY <1>1, TypeInvariant, MsgInvariant, PTL DEF Spec

-----------------------------------------------------------------------------
(* Whose time a conversation shows.                                        *)

\* Message n may be the last of conversation c: who takes part in c sees there
\* a message of c.
Own(c, n) == parts[c] # {} /\ n # 0 => n \in DOMAIN msgs /\ msgs[n].conv = c

\* The same of the times that requests are still to write.
TimeHeld(w) ==
    /\ pc[w] = "touch" => Own(req[w].conv, req[w].sent)
    /\ pc[w] = "saveRow" => Own(req[w].conv, row[w].last)
    /\ pc[w] = "addParticipants" => conv[req[w].conv].last = 0

TimeInv == (\A c \in Convs : Own(c, conv[c].last)) /\ (\A w \in Workers : TimeHeld(w))

\* What may be the last message stays one, unless the conversation is new.
LEMMA OwnKept ==
    ASSUME TypeInv, NEW v \in Workers, Step(v), NEW c \in Convs, NEW n, Own(c, n),
           ~(AddParticipants(v) /\ req[v].conv = c)
    PROVE  Own(c, n)'
<1> SUFFICES ASSUME parts'[c] # {}, n # 0 PROVE n \in DOMAIN msgs' /\ msgs'[n].conv = c
  BY DEF Own
<1>1. parts[c] # {} /\ ~(Delete(v) /\ req[v].conv = c)
  BY PartsStep DEF Delete, TypeInv, TypeOK
<1>2. n \in DOMAIN msgs /\ msgs[n].conv = c
  BY <1>1 DEF Own
<1> QED BY <1>1, <1>2, MessageKept

LEMMA NewLast == \A kind : NewRow(kind).last = 0
BY DEF NewRow, NoRow

\* What the times in the table become.
LEMMA LastStep ==
    ASSUME TypeInv, NEW v \in Workers, Step(v), NEW c \in Convs
    PROVE  \/ conv'[c].last = conv[c].last
           \/ conv'[c].last = 0
           \/ Touch(v) /\ req[v].conv = c /\ conv'[c].last = req[v].sent
           \/ SaveRow(v) /\ req[v].conv = c /\ conv'[c].last = row[v].last
<1>0. conv[c] \in ConversationRow \cup {NoRow}
  BY DEF TypeInv, TypeOK
<1>1. CASE conv' = conv
  BY <1>1
<1>2. CASE InsertConversation(v) \/ CreateEmpty(v)
  <2>1. PICK d, kind : d \in Convs /\ conv' = [conv EXCEPT ![d] = NewRow(kind)]
    BY <1>2 DEF InsertConversation, CreateEmpty
  <2>2. conv'[c] = conv[c] \/ conv'[c] = NewRow(kind)
    BY <2>1 DEF TypeInv, TypeOK
  <2> QED BY <2>2, NewLast
<1>3. CASE Touch(v)
  BY <1>0, <1>3 DEF Touch, TypeInv, TypeOK, ConversationRow, NoRow
<1>4. CASE SaveRow(v)
  <2>1. row[v] \in ConversationRow
    BY <1>4 DEF SaveRow, TypeInv, LocalOK
  <2>2. Saved(req[v].op, req[v].user, row[v]).last = row[v].last
    BY <2>1 DEF Saved, ConversationRow
  <2> QED BY <1>4, <2>2 DEF SaveRow, TypeInv, TypeOK
<1>5. CASE Delete(v)
  BY <1>5 DEF Delete, NoRow, TypeInv, TypeOK
<1>6. CASE BeginContact(v) \/ FindConversation(v) \/ AddParticipants(v) \/ InsertMessage(v)
  BY <1>1, <1>6 DEF BeginContact, FindConversation, AddParticipants, InsertMessage, tables
<1>7. CASE Load(v) \/ MarkRead(v) \/ Abort(v)
  BY <1>1, <1>7 DEF Load, MarkRead, Abort, tables
<1> QED BY <1>2, <1>3, <1>4, <1>5, <1>6, <1>7 DEF Step

LEMMA OwnStep ==
    ASSUME TypeInv, TimeInv, NEW v \in Workers, Step(v), NEW c \in Convs
    PROVE  Own(c, conv[c].last)'
<1>1. CASE AddParticipants(v) /\ req[v].conv = c
  <2>1. conv'[c].last = 0
    BY <1>1 DEF AddParticipants, TimeInv, TimeHeld
  <2> QED BY <2>1 DEF Own
<1>2. CASE ~(AddParticipants(v) /\ req[v].conv = c)
  <2>1. PICK n : n = conv'[c].last
    OBVIOUS
  <2>2. Own(c, n) \/ n = 0
    <3>0. Own(c, conv[c].last) /\ TimeHeld(v)
      BY DEF TimeInv
    <3>1. CASE n = conv[c].last
      BY <3>0, <3>1
    <3>2. CASE Touch(v) /\ req[v].conv = c /\ n = req[v].sent
      <4>1. Own(req[v].conv, req[v].sent)
        BY <3>0, <3>2 DEF Touch, TimeHeld
      <4> QED BY <3>2, <4>1
    <3>3. CASE SaveRow(v) /\ req[v].conv = c /\ n = row[v].last
      <4>1. Own(req[v].conv, row[v].last)
        BY <3>0, <3>3 DEF SaveRow, TimeHeld
      <4> QED BY <3>3, <4>1
    <3> QED BY <2>1, <3>1, <3>2, <3>3, LastStep
  <2>3. Own(c, n)'
    <3>1. CASE Own(c, n)
      BY <1>2, <3>1, OwnKept
    <3>2. CASE n = 0
      BY <3>2 DEF Own
    <3> QED BY <2>2, <3>1, <3>2
  <2> QED BY <2>1, <2>3 DEF Own
<1> QED BY <1>1, <1>2

\* What the step's own worker holds afterwards.
LEMMA HeldOwn ==
    ASSUME TypeInv, TimeInv, NEW v \in Workers, Step(v)
    PROVE  TimeHeld(v)'
<1>1. CASE pc'[v] = "addParticipants"
  <2>1. InsertConversation(v)
    BY <1>1, AddComesFromInsert
  <2>2. PICK c, kind : c \in Convs /\ conv' = [conv EXCEPT ![c] = NewRow(kind)] /\ req' = [req EXCEPT ![v].conv = c]
    BY <2>1 DEF InsertConversation
  <2>3. req[v] \in Request
    BY <2>1 DEF InsertConversation, TypeInv, LocalOK
  <2>4. req'[v].conv = c /\ conv'[c] = NewRow(kind)
    BY <2>2, <2>3 DEF TypeInv, TypeOK, Request
  <2> QED BY <1>1, <2>4, NewLast DEF TimeHeld
<1>2. CASE InsertMessage(v)
  <2>1. CASE pc'[v] = "touch"
    <3>1. req[v] \in Request
      BY <1>2 DEF InsertMessage, TypeInv, LocalOK
    <3> DEFINE m == [conv |-> req[v].conv, sender |-> req[v].user, read |-> FALSE]
    <3>2. msgs' = Append(msgs, m) /\ req' = [req EXCEPT ![v].sent = Len(msgs) + 1]
      BY <1>2, <2>1 DEF InsertMessage, Finish, TypeInv, TypeOK
    <3>3. m.conv = req[v].conv
      OBVIOUS
    <3> HIDE DEF m
    <3>4. Len(msgs) + 1 \in DOMAIN msgs' /\ msgs'[Len(msgs) + 1] = m
      BY <3>2 DEF TypeInv, TypeOK
    <3>5. req'[v].conv = req[v].conv /\ req'[v].sent = Len(msgs) + 1
      BY <3>1, <3>2 DEF TypeInv, TypeOK, Request
    <3> QED BY <2>1, <3>3, <3>4, <3>5 DEF TimeHeld, Own
  <2>2. CASE pc'[v] # "touch"
    <3>1. pc'[v] = "idle"
      BY <1>2, <2>2 DEF InsertMessage, Finish, Goto, TypeInv, TypeOK
    <3> QED BY <3>1 DEF TimeHeld
  <2> QED BY <2>1, <2>2
<1>3. CASE Load(v)
  <2>1. PICK op \in Ops, u \in Users : \E c \in Mine(u) :
            /\ req' = [req EXCEPT ![v] = [op |-> op, user |-> u, peer |-> u, conv |-> c, sent |-> 0]]
            /\ row' = [row EXCEPT ![v] = IF AfterLoad(op) = "saveRow" THEN conv[c] ELSE NoRow]
            /\ Goto(v, AfterLoad(op))
    BY <1>3 DEF Load
  <2>2. PICK c \in Mine(u) :
            /\ req' = [req EXCEPT ![v] = [op |-> op, user |-> u, peer |-> u, conv |-> c, sent |-> 0]]
            /\ row' = [row EXCEPT ![v] = IF AfterLoad(op) = "saveRow" THEN conv[c] ELSE NoRow]
            /\ Goto(v, AfterLoad(op))
    BY <2>1
  <2>3. req'[v].conv = c /\ pc'[v] = AfterLoad(op) /\ (AfterLoad(op) = "saveRow" => row'[v] = conv[c])
    BY <2>2 DEF Goto, TypeInv, TypeOK
  <2>4. c \in Convs /\ Own(c, conv[c].last) /\ UNCHANGED tables
    BY <1>3 DEF Mine, Load, TimeInv
  <2>5. AfterLoad(op) \notin {"touch", "addParticipants"}
    BY DEF AfterLoad
  <2> QED BY <2>3, <2>4, <2>5 DEF TimeHeld, Own, tables
<1>4. CASE BeginContact(v) \/ FindConversation(v) \/ AddParticipants(v)
  <2>1. pc'[v] \in {"find", "insertConversation", "insertMessage"}
    BY <1>4 DEF BeginContact, FindConversation, AddParticipants, Goto, TypeInv, TypeOK
  <2> QED BY <2>1 DEF TimeHeld
<1>5. CASE Touch(v) \/ SaveRow(v) \/ MarkRead(v) \/ Delete(v) \/ Abort(v) \/ CreateEmpty(v)
  <2>1. pc'[v] = "idle"
    BY <1>5 DEF Touch, SaveRow, MarkRead, Delete, Abort, CreateEmpty, Finish, TypeInv, TypeOK
  <2> QED BY <2>1 DEF TimeHeld
<1>6. CASE InsertConversation(v)
  BY <1>1, <1>6 DEF InsertConversation, Goto, TypeInv, TypeOK
<1> QED BY <1>2, <1>3, <1>4, <1>5, <1>6 DEF Step

\* Another worker's step leaves what w holds true.
LEMMA HeldOther ==
    ASSUME TypeInv, Kinds, TimeInv, NEW v \in Workers, Step(v), NEW w \in Workers, w # v
    PROVE  TimeHeld(w)'
<1>1. pc'[w] = pc[w] /\ req'[w] = req[w] /\ row'[w] = row[w] /\ TimeHeld(w)
  BY OthersKept DEF TimeInv
<1>2. CASE pc[w] \in {"touch", "saveRow"}
  <2>1. PICK c, n : c \in Convs /\ c = req[w].conv /\ n = IF pc[w] = "touch" THEN req[w].sent ELSE row[w].last
    BY <1>2 DEF TypeInv, LocalOK
  <2>2. Own(c, n)
    BY <1>1, <1>2, <2>1 DEF TimeHeld
  <2>3. ~(AddParticipants(v) /\ req[v].conv = c)
    BY <2>1 DEF AddParticipants, Kinds, Unshared
  <2>4. c \in Convs
    BY <2>1
  <2>5. Own(c, n)'
    BY <2>2, <2>3, <2>4, OwnKept
  <2> QED BY <1>1, <1>2, <2>1, <2>5 DEF TimeHeld, Own
<1>3. CASE pc[w] = "addParticipants"
  <2>1. PICK c \in Convs : c = req[w].conv
    BY <1>3 DEF TypeInv, LocalOK
  <2>2. req[v].conv # c
    BY <1>3, <2>1 DEF Kinds, Unshared
  <2>3. conv'[c] = conv[c]
    BY <2>1, <2>2, ElsewhereKept
  <2> QED BY <1>1, <1>3, <2>1, <2>3 DEF TimeHeld
<1>4. CASE pc[w] \notin {"touch", "saveRow", "addParticipants"}
  BY <1>1, <1>4 DEF TimeHeld
<1> QED BY <1>2, <1>3, <1>4

\* Whatever order two senders write their times in, and whatever stale close
\* writes one back, who takes part in a conversation sees the time of one of
\* its messages (PrivateMessage.save, Conversation.close).
THEOREM LastTimeIsOwn == Spec => []LastIsOwn
<1>1. Init => TimeInv
  BY DEF Init, TimeInv, TimeHeld, Own, NoRow
<1>2. TypeInv /\ Kinds /\ TimeInv /\ [Next]_vars => TimeInv'
  <2>1. ASSUME TypeInv, Kinds, TimeInv, NEW v \in Workers, Step(v) PROVE TimeInv'
    <3>1. \A c \in Convs : Own(c, conv[c].last)'
      BY <2>1, OwnStep
    <3>2. \A w \in Workers : TimeHeld(w)'
      BY <2>1, HeldOwn, HeldOther
    <3> QED BY <3>1, <3>2 DEF TimeInv
  <2>2. TypeInv /\ Kinds /\ TimeInv /\ UNCHANGED vars => TimeInv'
    BY DEF vars, TimeInv, TimeHeld, Own
  <2> QED BY <2>1, <2>2 DEF Next
<1>3. TimeInv => LastIsOwn
  BY DEF TimeInv, Own, LastIsOwn
<1> QED BY <1>1, <1>2, <1>3, TypeInvariant, KindsInvariant, PTL DEF Spec

=============================================================================
