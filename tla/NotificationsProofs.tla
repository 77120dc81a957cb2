------------------------- MODULE NotificationsProofs -------------------------
(***************************************************************************)
(* Proofs about Notifications: how far concurrent requests may exceed the  *)
(* hourly limit and mail a member who opted out, for any numbers of        *)
(* members, kinds and workers, any limit and any length of the day.        *)
(***************************************************************************)
EXTENDS Notifications, FiniteSetTheorems, TLAPS

\* A running request is one for a member.
Serves == \A w \in Workers : pc[w] # "idle" => req[w] \in Request /\ req[w].user \in Users

\* Each e-mail that is allowed and not yet counted has a worker.
LimitInv ==
    \A u \in Users : recent[u] + Cardinality(Allowed(u)) < MaxPerHour + Cardinality(Workers)

\* After an opt-out the switch is off and no request under way undoes it; each
\* worker that had found it on counts for one e-mail at most. Nothing is counted
\* for the other members.
OutOf(u) ==
    /\ Stored(u) /\ ~pref[u].enabled
    /\ after[u] + Cardinality(Passed(u)) <= Cardinality(Workers)
    /\ \A w \in Workers : ~Undoes(w, u)

OptOutInv == \A u \in Users : IF u \in out THEN OutOf(u) ELSE after[u] = 0

IInv == TypeOK /\ Serves /\ LimitInv /\ OptOutInv

-----------------------------------------------------------------------------
LEMMA SubsetCount ==
    ASSUME NEW S \in SUBSET Workers
    PROVE  IsFiniteSet(S) /\ Cardinality(S) \in Nat /\ Cardinality(Workers) \in Nat
           /\ Cardinality(S) <= Cardinality(Workers)
BY WorkersAssumption, FS_Subset, FS_CardinalityType

\* Of two sets of workers, the smaller one has no more.
LEMMA Fewer ==
    ASSUME NEW S \in SUBSET Workers, NEW T \in SUBSET S
    PROVE  Cardinality(T) <= Cardinality(S)
BY SubsetCount, FS_Subset

LEMMA OneFewer ==
    ASSUME NEW S \in SUBSET Workers, NEW T \in SUBSET S, NEW w \in S, w \notin T
    PROVE  Cardinality(T) < Cardinality(S)
<1>1. T # S /\ IsFiniteSet(S)
  BY SubsetCount
<1> QED BY <1>1, SubsetCount, FS_Subset

LEMMA DefaultTyped == Default \in Preference
BY UsersAssumption DEF Default, Preference

LEMMA LoadedTyped == ASSUME IInv, NEW u \in Users PROVE Loaded(u) \in Preference
BY DefaultTyped DEF Loaded, Stored, IInv, TypeOK

LEMMA Initially == Init => IInv
<1> SUFFICES ASSUME Init PROVE IInv
  OBVIOUS
<1>1. TypeOK
  BY HoursAssumption, LimitAssumption DEF Init, TypeOK, Labels
<1>2. Serves
  BY DEF Init, Serves
<1>3. LimitInv
  <2>1. \A u \in Users : Allowed(u) = {}
    BY DEF Init, Allowed
  <2>2. Cardinality(Workers) \in Nat
    BY SubsetCount
  <2> QED BY <2>1, <2>2, FS_EmptySet, LimitAssumption DEF Init, LimitInv
<1>4. OptOutInv
  BY DEF Init, OptOutInv
<1> QED BY <1>1, <1>2, <1>3, <1>4 DEF IInv

-----------------------------------------------------------------------------
\* What ends or goes on to the next member leaves no worker that had read
\* something of the last one.
LEMMA NextMemberStep ==
    ASSUME IInv, NEW w \in Workers, pc[w] # "idle", NextMember(w) \/ Finish(w)
    PROVE  /\ pc' \in [Workers -> Labels] /\ req' \in [Workers -> Request \cup {NoReq}]
           /\ todo' \in [Workers -> SUBSET Users] /\ Serves'
           /\ \A u \in Users : Allowed(u)' = Allowed(u) \ {w} /\ Passed(u)' = Passed(u) \ {w}
           /\ \A u \in Users, v \in Workers : Undoes(v, u)' => Undoes(v, u)
<1>1. CASE Finish(w)
  BY <1>1 DEF IInv, TypeOK, Serves, Finish, Labels, Allowed, Passed, Undoes
<1>2. CASE ~Finish(w)
  <2>1. PICK u \in Users :
           /\ todo' = [todo EXCEPT ![w] = todo[w] \ {req[w].user}]
           /\ req' = [req EXCEPT ![w].user = u, ![w].row = Default]
           /\ pc' = [pc EXCEPT ![w] = "prefs"]
    BY <1>2 DEF NextMember, Goto, IInv, TypeOK
  <2> DEFINE q == [req[w] EXCEPT !.user = u, !.row = Default]
  <2>2. q \in Request /\ q.user = u
    BY DefaultTyped DEF IInv, Serves, Request
  <2>3. req' = [req EXCEPT ![w] = q]
    BY <2>1
  <2> HIDE DEF q
  <2> QED BY <2>1, <2>2, <2>3, ZenonT(60) DEF IInv, TypeOK, Serves, Labels, Allowed, Passed, Undoes
<1> QED BY <1>1, <1>2

\* A step that mails and counts nothing, and frees no and adds no worker.
LEMMA Quiet ==
    ASSUME IInv, NEW w \in Workers, TypeOK', Serves', UNCHANGED <<recent, out, after>>,
           \A u \in Users : Allowed(u)' \subseteq Allowed(u) /\ Passed(u)' \subseteq Passed(u),
           \A u \in Users : pref'[u] = pref[u] \/ (~Stored(u) /\ pref'[u] = Default),
           \A u \in out, v \in Workers : Undoes(v, u)' => Undoes(v, u)
    PROVE  IInv'
<1>0. \A u \in Users : /\ Allowed(u) \in SUBSET Workers /\ Passed(u) \in SUBSET Workers
                       /\ Allowed(u)' \in SUBSET Workers /\ Passed(u)' \in SUBSET Workers
  BY DEF Allowed, Passed
<1>1. LimitInv'
  <2> SUFFICES ASSUME NEW u \in Users
               PROVE  recent'[u] + Cardinality(Allowed(u)') < MaxPerHour + Cardinality(Workers)
    BY DEF LimitInv
  <2>1. Cardinality(Allowed(u)') <= Cardinality(Allowed(u))
    BY <1>0, Fewer
  <2>2. /\ Cardinality(Allowed(u)) \in Nat /\ Cardinality(Allowed(u)') \in Nat
        /\ Cardinality(Workers) \in Nat
    BY <1>0, SubsetCount
  <2> QED BY <2>1, <2>2, LimitAssumption DEF IInv, TypeOK, LimitInv
<1>2. OptOutInv'
  <2> SUFFICES ASSUME NEW u \in Users
               PROVE  IF u \in out THEN OutOf(u)' ELSE after'[u] = 0
    BY DEF OptOutInv
  <2>1. Cardinality(Passed(u)') <= Cardinality(Passed(u))
    BY <1>0, Fewer
  <2>2. /\ Cardinality(Passed(u)) \in Nat /\ Cardinality(Passed(u)') \in Nat
        /\ Cardinality(Workers) \in Nat /\ after[u] \in Nat
    BY <1>0, SubsetCount, LimitAssumption DEF IInv, TypeOK
  <2>3. CASE pref'[u] = pref[u]
    BY <2>1, <2>2, <2>3 DEF IInv, OptOutInv, OutOf, Stored
  <2>4. CASE ~Stored(u) /\ pref'[u] = Default
    BY <2>4 DEF IInv, OptOutInv, OutOf
  <2> QED BY <2>3, <2>4
<1> QED BY <1>1, <1>2 DEF IInv

-----------------------------------------------------------------------------
LEMMA BeginNotifyKeeps == ASSUME IInv, NEW w \in Workers, BeginNotify(w) PROVE IInv'
<1>1. PICK author \in Users, k \in Kinds : \E u \in Users \ {author} :
         /\ req' = [req EXCEPT ![w] = [op |-> "notify", user |-> u, kind |-> k, row |-> Default]]
         /\ todo' = [todo EXCEPT ![w] = Users \ {author}]
  BY DEF BeginNotify
<1>2. PICK u \in Users \ {author} :
         /\ req' = [req EXCEPT ![w] = [op |-> "notify", user |-> u, kind |-> k, row |-> Default]]
         /\ todo' = [todo EXCEPT ![w] = Users \ {author}]
  BY <1>1
<1> DEFINE q == [op |-> "notify", user |-> u, kind |-> k, row |-> Default]
<1>3. q \in Request /\ q.user \in Users
  BY DefaultTyped DEF Request
<1>4. req' = [req EXCEPT ![w] = q]
  BY <1>2
<1> HIDE DEF q
<1>5. pc[w] = "idle" /\ pc' = [pc EXCEPT ![w] = "prefs"] /\ UNCHANGED <<pref, recent, hour, out, after>>
  BY DEF BeginNotify, Goto
<1>6. TypeOK' /\ Serves'
  BY <1>2, <1>3, <1>4, <1>5 DEF IInv, TypeOK, Serves, Labels
<1>7. /\ \A v \in Users : Allowed(v)' \subseteq Allowed(v) /\ Passed(v)' \subseteq Passed(v)
      /\ \A v \in Users, x \in Workers : Undoes(x, v)' => Undoes(x, v)
  BY <1>4, <1>5 DEF IInv, TypeOK, Allowed, Passed, Undoes
<1>8. out \subseteq Users
  BY DEF IInv, TypeOK
<1> QED BY <1>5, <1>6, <1>7, <1>8, Quiet

LEMMA ReadPrefsKeeps == ASSUME IInv, NEW w \in Workers, ReadPrefs(w) PROVE IInv'
<1> DEFINE u == req[w].user
<1>1. u \in Users /\ pc[w] = "prefs" /\ req[w] \in Request
  BY DEF ReadPrefs, IInv, Serves
<1>2. pref' = [pref EXCEPT ![u] = Loaded(u)] /\ UNCHANGED <<recent, hour, out, after>>
  BY DEF ReadPrefs, WithRow
<1>3. pref' \in [Users -> Preference \cup {NoPref}]
  BY <1>1, <1>2, LoadedTyped DEF IInv, TypeOK
<1>4. \A v \in Users : pref'[v] = pref[v] \/ (~Stored(v) /\ pref'[v] = Default)
  BY <1>1, <1>2 DEF Loaded, IInv, TypeOK
<1>5. CASE NextMember(w)
  <2>1. /\ TypeOK' /\ Serves' /\ \A v \in Users : Allowed(v)' \subseteq Allowed(v) /\ Passed(v)' \subseteq Passed(v)
      /\ \A v \in out, x \in Workers : Undoes(x, v)' => Undoes(x, v)
    BY <1>1, <1>2, <1>3, <1>5, NextMemberStep DEF IInv, TypeOK
  <2> QED BY <1>2, <1>4, <2>1, Quiet
<1>6. CASE Loaded(u).enabled /\ Goto(w, "count") /\ UNCHANGED <<req, todo>>
  <2>1. TypeOK' /\ Serves'
    BY <1>1, <1>2, <1>3, <1>6 DEF IInv, TypeOK, Serves, Goto, Labels
  <2>2. \A v \in Users : /\ Allowed(v)' = Allowed(v) /\ (v # u => Passed(v)' = Passed(v))
                         /\ \A x \in Workers : Undoes(x, v)' => Undoes(x, v)
    BY <1>1, <1>6 DEF IInv, TypeOK, Allowed, Passed, Goto, Undoes
  <2>3. LimitInv'
    BY <1>2, <2>2 DEF IInv, LimitInv
  <2>4. ASSUME NEW v \in Users PROVE IF v \in out THEN OutOf(v)' ELSE after'[v] = 0
    <3>1. CASE v # u
      BY <1>1, <1>2, <2>2, <3>1 DEF IInv, TypeOK, OptOutInv, OutOf, Stored
    <3>2. CASE v = u
      <4>1. u \notin out
        BY <1>1, <1>6 DEF Loaded, IInv, OptOutInv, OutOf
      <4> HIDE DEF u
      <4> QED BY <1>1, <1>2, <3>2, <4>1 DEF IInv, OptOutInv
    <3> QED BY <3>1, <3>2
  <2>5. OptOutInv'
    BY <1>2, <2>4 DEF OptOutInv
  <2> QED BY <2>1, <2>3, <2>5 DEF IInv
<1> QED BY <1>5, <1>6 DEF ReadPrefs

LEMMA CountRecentKeeps == ASSUME IInv, NEW w \in Workers, CountRecent(w) PROVE IInv'
<1> DEFINE u == req[w].user
<1>1. u \in Users /\ pc[w] = "count" /\ req[w] \in Request /\ UNCHANGED <<pref, recent, hour, out, after>>
  BY DEF CountRecent, IInv, Serves
<1>2. CASE NextMember(w)
  <2>1. /\ TypeOK' /\ Serves' /\ \A v \in Users : Allowed(v)' \subseteq Allowed(v) /\ Passed(v)' \subseteq Passed(v)
      /\ \A v \in out, x \in Workers : Undoes(x, v)' => Undoes(x, v)
    BY <1>1, <1>2, NextMemberStep DEF IInv, TypeOK
  <2> QED BY <1>1, <2>1, Quiet
<1>3. CASE recent[u] < MaxPerHour /\ Goto(w, "send") /\ UNCHANGED <<req, todo>>
  <2>1. TypeOK' /\ Serves'
    BY <1>1, <1>3 DEF IInv, TypeOK, Serves, Goto, Labels
  <2>2. \A v \in Users : /\ (v # u => Allowed(v)' = Allowed(v)) /\ Passed(v)' = Passed(v)
                         /\ \A x \in Workers : Undoes(x, v)' => Undoes(x, v)
    BY <1>1, <1>3 DEF IInv, TypeOK, Allowed, Passed, Goto, Undoes
  <2>3. OptOutInv'
    BY <1>1, <2>2 DEF IInv, OptOutInv, OutOf, Stored
  <2>4. ASSUME NEW v \in Users
        PROVE  recent'[v] + Cardinality(Allowed(v)') < MaxPerHour + Cardinality(Workers)
    <3>1. CASE v # u
      BY <1>1, <2>2, <3>1 DEF IInv, LimitInv
    <3>2. CASE v = u
      <4>1. Allowed(v)' \in SUBSET Workers
        BY DEF Allowed
      <4>2. /\ Cardinality(Allowed(v)') \in Nat /\ Cardinality(Workers) \in Nat
            /\ Cardinality(Allowed(v)') <= Cardinality(Workers)
        BY <4>1, SubsetCount
      <4>3. recent'[v] \in Nat /\ recent'[v] < MaxPerHour
        BY <1>1, <1>3, <3>2 DEF IInv, TypeOK
      <4> QED BY <4>2, <4>3, LimitAssumption
    <3> QED BY <3>1, <3>2
  <2>5. LimitInv'
    BY <2>4 DEF LimitInv
  <2> QED BY <2>1, <2>3, <2>5 DEF IInv
<1>4. recent[u] \in Nat
  BY <1>1 DEF IInv, TypeOK
<1> QED BY <1>2, <1>3, <1>4, LimitAssumption DEF CountRecent

LEMMA SendKeeps == ASSUME IInv, NEW w \in Workers, Send(w) PROVE IInv'
<1> DEFINE u == req[w].user
<1>1. u \in Users /\ pc[w] = "send" /\ req[w] \in Request /\ UNCHANGED <<pref, recent, hour, out>>
  BY DEF Send, IInv, Serves
<1>2. CASE NextMember(w) /\ UNCHANGED after
  <2>1. /\ TypeOK' /\ Serves' /\ \A v \in Users : Allowed(v)' \subseteq Allowed(v) /\ Passed(v)' \subseteq Passed(v)
      /\ \A v \in out, x \in Workers : Undoes(x, v)' => Undoes(x, v)
    BY <1>1, <1>2, NextMemberStep DEF IInv, TypeOK
  <2> QED BY <1>1, <1>2, <2>1, Quiet
<1>3. CASE ~(NextMember(w) /\ UNCHANGED after)
  <2>1. /\ pc' = [pc EXCEPT ![w] = "log"] /\ UNCHANGED <<req, todo>>
        /\ after' = IF u \in out /\ after[u] < MaxAfter THEN [after EXCEPT ![u] = @ + 1] ELSE after
    BY <1>3 DEF Send, Goto
  <2>2. after \in [Users -> 0 .. MaxAfter] /\ MaxAfter \in Nat
    BY LimitAssumption DEF IInv, TypeOK
  <2>3. after' \in [Users -> 0 .. MaxAfter]
    BY <1>1, <2>1, <2>2
  <2>4. TypeOK' /\ Serves'
    BY <1>1, <2>1, <2>3 DEF IInv, TypeOK, Serves, Labels
  <2>5. \A v \in Users : /\ Allowed(v)' = Allowed(v) /\ Passed(v)' = Passed(v) \ {w}
                         /\ \A x \in Workers : Undoes(x, v)' => Undoes(x, v)
    BY <1>1, <2>1 DEF IInv, TypeOK, Allowed, Passed, Undoes
  <2>6. LimitInv'
    BY <1>1, <2>5 DEF IInv, LimitInv
  <2>7. ASSUME NEW v \in Users PROVE IF v \in out THEN OutOf(v)' ELSE after'[v] = 0
    <3>1. Stored(v)' = Stored(v) /\ pref'[v] = pref[v] /\ after[v] \in Nat /\ after'[v] \in Nat
      BY <1>1, <2>2, <2>3 DEF Stored
    <3>2. Passed(v) \in SUBSET Workers /\ Passed(v)' \in SUBSET Passed(v)
      BY <2>5 DEF Passed
    <3>3. /\ Cardinality(Passed(v)) \in Nat /\ Cardinality(Passed(v)') \in Nat
          /\ Cardinality(Passed(v)') <= Cardinality(Passed(v)) /\ Cardinality(Workers) \in Nat
      BY <3>2, SubsetCount, Fewer
    <3>4. CASE after'[v] = after[v]
      BY <2>5, <3>1, <3>3, <3>4 DEF IInv, OptOutInv, OutOf
    <3>5. CASE after'[v] # after[v]
      <4>1. v = u /\ v \in out /\ after'[v] = after[v] + 1
        BY <2>1, <2>2, <3>5
      <4>2. w \in Passed(v) /\ w \notin Passed(v)'
        BY <1>1, <2>5, <4>1 DEF Passed
      <4>3. Cardinality(Passed(v)') < Cardinality(Passed(v))
        BY <3>2, <4>2, OneFewer
      <4> QED BY <2>5, <3>1, <3>3, <4>1, <4>3 DEF IInv, OptOutInv, OutOf
    <3> QED BY <3>4, <3>5
  <2>8. OptOutInv'
    BY <1>1, <2>7 DEF OptOutInv
  <2> QED BY <2>4, <2>6, <2>8 DEF IInv
<1> QED BY <1>2, <1>3

LEMMA LogKeeps == ASSUME IInv, NEW w \in Workers, Log(w) PROVE IInv'
<1> DEFINE u == req[w].user
<1>1. u \in Users /\ pc[w] = "log" /\ UNCHANGED <<pref, hour, out, after>> /\ NextMember(w)
  BY DEF Log, IInv, Serves
<1>2. recent' \in {[recent EXCEPT ![u] = @ + 1], recent} /\ recent \in [Users -> Nat]
  BY DEF Log, IInv, TypeOK
<1>3. /\ TypeOK' /\ Serves' /\ \A v \in Users : Allowed(v)' = Allowed(v) \ {w} /\ Passed(v)' = Passed(v) \ {w}
      /\ \A v \in Users, x \in Workers : Undoes(x, v)' => Undoes(x, v)
  BY <1>1, <1>2, NextMemberStep DEF IInv, TypeOK
<1>4. \A v \in Users : Passed(v)' = Passed(v)
  BY <1>1, <1>3 DEF Passed
<1>5. OptOutInv'
  BY <1>1, <1>3, <1>4 DEF IInv, OptOutInv, OutOf, Stored
<1>6. ASSUME NEW v \in Users
      PROVE  recent'[v] + Cardinality(Allowed(v)') < MaxPerHour + Cardinality(Workers)
  <2>1. Allowed(v) \in SUBSET Workers /\ Allowed(v)' \in SUBSET Allowed(v)
    BY <1>3 DEF Allowed
  <2>2. /\ Cardinality(Allowed(v)) \in Nat /\ Cardinality(Allowed(v)') \in Nat
        /\ Cardinality(Allowed(v)') <= Cardinality(Allowed(v)) /\ Cardinality(Workers) \in Nat
    BY <2>1, SubsetCount, Fewer
  <2>3. recent[v] \in Nat /\ recent[v] + Cardinality(Allowed(v)) < MaxPerHour + Cardinality(Workers)
    BY <1>2 DEF IInv, LimitInv
  <2>4. CASE recent'[v] = recent[v]
    BY <2>2, <2>3, <2>4, LimitAssumption
  <2>5. CASE recent'[v] # recent[v]
    <3>1. v = u /\ recent'[v] = recent[v] + 1
      BY <1>1, <1>2, <2>5
    <3>2. w \in Allowed(v) /\ w \notin Allowed(v)'
      BY <1>1, <1>3, <3>1 DEF Allowed
    <3>3. Cardinality(Allowed(v)') < Cardinality(Allowed(v))
      BY <2>1, <3>2, OneFewer
    <3> QED BY <2>2, <2>3, <3>1, <3>3, LimitAssumption
  <2> QED BY <2>4, <2>5
<1>7. LimitInv'
  BY <1>6 DEF LimitInv
<1> QED BY <1>3, <1>5, <1>7 DEF IInv

LEMMA AbortKeeps == ASSUME IInv, NEW w \in Workers, Abort(w) PROVE IInv'
<1>1. pc[w] # "idle" /\ Finish(w) /\ UNCHANGED <<pref, recent, hour, out, after>>
  BY DEF Abort
<1>2. /\ TypeOK' /\ Serves' /\ \A v \in Users : Allowed(v)' \subseteq Allowed(v) /\ Passed(v)' \subseteq Passed(v)
      /\ \A v \in out, x \in Workers : Undoes(x, v)' => Undoes(x, v)
  BY <1>1, NextMemberStep DEF IInv, TypeOK
<1> QED BY <1>1, <1>2, Quiet

LEMMA BeginPatchKeeps == ASSUME IInv, NEW w \in Workers, BeginPatch(w) PROVE IInv'
<1>1. PICK u \in Users, op \in {"switch", "change"} :
         \E row \in IF op = "switch" THEN Switched(Loaded(u)) ELSE Changed(Loaded(u)) :
            /\ pref' = WithRow(u)
            /\ req' = [req EXCEPT ![w] = [op |-> op, user |-> u, kind |-> NoKind, row |-> row]]
  BY DEF BeginPatch
<1>2. Loaded(u) \in Preference
  BY LoadedTyped
<1> DEFINE P == Loaded(u)
<1>3. /\ Switched(P) \subseteq Preference
      /\ \A row \in Changed(P) : row \in Preference /\ row.enabled = P.enabled
  BY <1>2 DEF Switched, Changed, Preference
<1>4. PICK row \in Preference :
         /\ pref' = [pref EXCEPT ![u] = P]
         /\ req' = [req EXCEPT ![w] = [op |-> op, user |-> u, kind |-> NoKind, row |-> row]]
         /\ op = "change" => row.enabled = P.enabled
  <2> DEFINE Q == IF op = "switch" THEN Switched(P) ELSE Changed(P)
  <2>1. Q \subseteq Preference /\ \A row \in Q : op = "change" => row.enabled = P.enabled
    BY <1>3
  <2>2. \E row \in Q :
           /\ pref' = [pref EXCEPT ![u] = P]
           /\ req' = [req EXCEPT ![w] = [op |-> op, user |-> u, kind |-> NoKind, row |-> row]]
    BY <1>1 DEF WithRow
  <2> HIDE DEF Q, P
  <2> QED BY <2>1, <2>2
<1> DEFINE q == [op |-> op, user |-> u, kind |-> NoKind, row |-> row]
<1>5. /\ q \in Request /\ q.user = u
      /\ q.op = "change" => q.row.enabled = P.enabled
  BY <1>4 DEF Request
<1>6. req' = [req EXCEPT ![w] = q]
  BY <1>4
<1> HIDE DEF q
<1>7. pc[w] = "idle" /\ pc' = [pc EXCEPT ![w] = "save"] /\ UNCHANGED <<recent, hour, out, after, todo>>
  BY DEF BeginPatch, Goto
<1>8. TypeOK' /\ Serves'
  BY <1>2, <1>4, <1>5, <1>6, <1>7 DEF IInv, TypeOK, Serves, Labels
<1>9. \A v \in Users : Allowed(v)' \subseteq Allowed(v) /\ Passed(v)' \subseteq Passed(v)
  BY <1>6, <1>7 DEF IInv, TypeOK, Allowed, Passed
<1>10. \A v \in Users : pref'[v] = pref[v] \/ (~Stored(v) /\ pref'[v] = Default)
  BY <1>4 DEF Loaded, IInv, TypeOK
\* Who opted out has the row it loads switched off.
<1>11. \A v \in out, x \in Workers : Undoes(x, v)' => Undoes(x, v)
  <2> SUFFICES ASSUME NEW v \in out, NEW x \in Workers, Undoes(x, v)' PROVE Undoes(x, v)
    OBVIOUS
  <2>1. CASE x # w
    BY <1>6, <1>7, <2>1 DEF IInv, TypeOK, Undoes
  <2>2. CASE x = w
    <3>1. v = u /\ P.enabled
      BY <1>5, <1>6, <1>7, <2>2 DEF IInv, TypeOK, Undoes
    <3>2. v \in Users
      BY DEF IInv, TypeOK
    <3> QED BY <3>1, <3>2 DEF IInv, OptOutInv, OutOf, Loaded
  <2> QED BY <2>1, <2>2
<1> QED BY <1>7, <1>8, <1>9, <1>10, <1>11, Quiet

LEMMA SavePatchKeeps == ASSUME IInv, NEW w \in Workers, SavePatch(w) PROVE IInv'
<1> DEFINE u == req[w].user
           row == req[w].row
           op == req[w].op
<1>1. u \in Users /\ row \in Preference /\ pc[w] = "save" /\ Finish(w)
  BY DEF SavePatch, IInv, Serves, Request
<1>2. /\ pref' = [pref EXCEPT ![u] = row] /\ UNCHANGED <<recent, hour>>
      /\ out' = IF op = "change" THEN out
                ELSE IF row.enabled \/ \E v \in Workers : Undoes(v, u) THEN out \ {u}
                ELSE out \cup {u}
      /\ after' = IF u \in out' THEN after ELSE [after EXCEPT ![u] = 0]
  BY DEF SavePatch
<1>3. pc[w] # "idle" /\ pc[w] \notin {"count", "send", "log"}
  BY <1>1
<1>4. Undoes(w, u) <=> op = "change" /\ row.enabled
  BY <1>1 DEF Undoes
<1> HIDE DEF u, row, op
<1>5. /\ out' \subseteq Users /\ after' \in [Users -> 0 .. MaxAfter]
      /\ pref' \in [Users -> Preference \cup {NoPref}]
  BY <1>1, <1>2, LimitAssumption DEF IInv, TypeOK
<1>6. /\ TypeOK' /\ Serves'
      /\ \A v \in Users : Allowed(v)' = Allowed(v) \ {w} /\ Passed(v)' = Passed(v) \ {w}
      /\ \A v \in Users, x \in Workers : Undoes(x, v)' => Undoes(x, v)
  BY <1>1, <1>2, <1>3, <1>5, NextMemberStep DEF IInv, TypeOK
<1>7. \A v \in Users : Allowed(v)' = Allowed(v) /\ Passed(v)' = Passed(v)
  BY <1>3, <1>6 DEF Allowed, Passed
<1>8. LimitInv'
  BY <1>2, <1>7 DEF IInv, LimitInv
<1>9. ASSUME NEW v \in Users PROVE IF v \in out' THEN OutOf(v)' ELSE after'[v] = 0
  <2>1. CASE v # u
    BY <1>1, <1>2, <1>6, <1>7, <2>1 DEF IInv, TypeOK, OptOutInv, OutOf, Stored
  <2>2. CASE v = u /\ u \notin out'
    BY <1>1, <1>2, <2>2 DEF IInv, TypeOK
  <2>3. CASE v = u /\ u \in out'
    <3>1. ~row.enabled /\ \A x \in Workers : ~Undoes(x, u)
      BY <1>1, <1>2, <1>4, <2>3 DEF IInv, OptOutInv, OutOf
    <3>2. after'[v] = after[v] /\ pref'[v] = row
      BY <1>1, <1>2, <2>3 DEF IInv, TypeOK
    <3>3. Stored(v)'
      BY <1>1, <3>2 DEF Stored, Preference, NoPref
    <3>4. Passed(v) \in SUBSET Workers
      BY DEF Passed
    <3>5. after[v] + Cardinality(Passed(v)) <= Cardinality(Workers)
      BY <3>4, SubsetCount DEF IInv, OptOutInv, OutOf
    <3> QED BY <1>6, <1>7, <2>3, <3>1, <3>2, <3>3, <3>5 DEF OutOf
  <2> QED BY <2>1, <2>2, <2>3
<1>10. OptOutInv'
  BY <1>9 DEF OptOutInv
<1> QED BY <1>6, <1>8, <1>10 DEF IInv

\* The clock moves, and rows of the log leave the hour.
LEMMA ClockKeeps == ASSUME IInv, Tick \/ Age PROVE IInv'
<1>1. UNCHANGED <<pref, out, after, pc, req, todo>> /\ \A u \in Users : Allowed(u)' = Allowed(u) /\ Passed(u)' = Passed(u)
  BY DEF Tick, Age, Allowed, Passed
<1>2. Serves' /\ OptOutInv'
  BY <1>1 DEF IInv, Serves, OptOutInv, OutOf, Undoes, Stored
<1>3. CASE Tick
  <2>1. (hour + 1) % HoursPerDay \in 0 .. HoursPerDay - 1
    BY HoursAssumption DEF IInv, TypeOK
  <2>2. TypeOK'
    BY <1>1, <1>3, <2>1 DEF IInv, TypeOK, Tick
  <2>3. LimitInv'
    BY <1>1, <1>3 DEF IInv, LimitInv, Tick
  <2> QED BY <1>2, <2>2, <2>3 DEF IInv
<1>4. CASE Age
  <2>1. PICK u \in Users : recent[u] > 0 /\ recent' = [recent EXCEPT ![u] = @ - 1]
    BY <1>4 DEF Age
  <2>2. TypeOK' /\ recent \in [Users -> Nat]
    BY <1>1, <1>4, <2>1 DEF IInv, TypeOK, Age
  <2>3. ASSUME NEW v \in Users
        PROVE  recent'[v] + Cardinality(Allowed(v)') < MaxPerHour + Cardinality(Workers)
    <3>1. recent'[v] <= recent[v] /\ recent[v] \in Nat /\ recent'[v] \in Nat
      BY <2>1, <2>2
    <3>2. Allowed(v) \in SUBSET Workers
      BY DEF Allowed
    <3> QED BY <1>1, <3>1, <3>2, SubsetCount, LimitAssumption DEF IInv, LimitInv
  <2>4. LimitInv'
    BY <2>3 DEF LimitInv
  <2> QED BY <1>2, <2>2, <2>4 DEF IInv
<1> QED BY <1>3, <1>4

\* Every step keeps the invariant.
LEMMA Inductive == IInv /\ [Next]_vars => IInv'
<1> SUFFICES ASSUME IInv, [Next]_vars PROVE IInv'
  OBVIOUS
<1>1. ASSUME NEW w \in Workers, Notify(w) PROVE IInv'
  BY <1>1, BeginNotifyKeeps, ReadPrefsKeeps, CountRecentKeeps, SendKeeps, LogKeeps DEF Notify
<1>2. ASSUME NEW w \in Workers, Patch(w) \/ Abort(w) PROVE IInv'
  BY <1>2, BeginPatchKeeps, SavePatchKeeps, AbortKeeps DEF Patch
<1>3. CASE UNCHANGED vars
  BY <1>3 DEF vars, IInv, TypeOK, Serves, LimitInv, Allowed, OptOutInv, OutOf, Undoes, Passed, Stored
<1> QED BY <1>1, <1>2, <1>3, ClockKeeps DEF Next

-----------------------------------------------------------------------------
\* The preference table, the log's counts and the locals of requests stay
\* well-typed; a running loop always serves a member.
THEOREM TypeCorrect == Spec => []TypeOK
<1>1. IInv => TypeOK
  BY DEF IInv
<1> QED BY Initially, Inductive, <1>1, PTL DEF Spec

\* However many requests check the limit together, the e-mails of an hour exceed
\* it by less than the number of workers (_is_rate_limited, _log_notification).
THEOREM LimitHolds == Spec => []LimitOvershootBounded
<1>1. IInv => LimitOvershootBounded
  <2> SUFFICES ASSUME IInv, NEW u \in Users PROVE recent[u] < MaxPerHour + Cardinality(Workers)
    BY DEF LimitOvershootBounded
  <2>1. Allowed(u) \in SUBSET Workers
    BY DEF Allowed
  <2>2. recent[u] \in Nat
    BY DEF IInv, TypeOK
  <2> QED BY <2>1, <2>2, SubsetCount, LimitAssumption DEF IInv, LimitInv
<1> QED BY Initially, Inductive, <1>1, PTL DEF Spec

\* After an opt-out that no request under way undoes, the switch stays off until
\* the member asks for e-mails again, and at most one e-mail per worker still
\* leaves (_send_notification, NotificationPreferenceViewSet).
THEOREM OptOutHolds == Spec => []OptOutTakesEffect
<1>1. IInv => OptOutTakesEffect
  <2> SUFFICES ASSUME IInv, NEW u \in out
               PROVE  ~pref[u].enabled /\ after[u] <= Cardinality(Workers)
    BY DEF OptOutTakesEffect
  <2>1. Passed(u) \in SUBSET Workers
    BY DEF Passed
  <2>2. u \in Users /\ after[u] \in Nat
    BY LimitAssumption DEF IInv, TypeOK
  <2> QED BY <2>1, <2>2, SubsetCount DEF IInv, OptOutInv, OutOf
<1> QED BY Initially, Inductive, <1>1, PTL DEF Spec

=============================================================================
