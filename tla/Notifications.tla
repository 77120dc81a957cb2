---------------------------- MODULE Notifications ----------------------------
(***************************************************************************)
(* E-mails about new content: the receivers that run when a prayer         *)
(* request, a testimony or a scripture is created mail the other members   *)
(* of its group one after the other, each after checking the member's      *)
(* preferences, quiet hours and hourly limit, and log what was sent.       *)
(*                                                                         *)
(* Each query and each INSERT is a statement of its own, so the rows that  *)
(* the limit counts may change before the e-mail it allowed is logged.     *)
(* Rows of the log with another status than 'sent' are never read, and are *)
(* left out.                                                               *)
(***************************************************************************)
EXTENDS Integers, FiniteSets

CONSTANTS
    Users,        \* members of the group
    Kinds,        \* notification types that have a preference of their own
    DefaultKinds, \* those a new preference row enables
    Workers,      \* request-handling threads
    MaxPerHour,   \* MAX_EMAILS_PER_HOUR
    HoursPerDay,  \* length of the day of this instance
    QuietStart, QuietEnd,
    MaxAfter,     \* bound: e-mails counted after an opt-out
    NoUser, NoKind

ASSUME UsersAssumption   == NoUser \notin Users /\ NoKind \notin Kinds /\ DefaultKinds \subseteq Kinds
ASSUME WorkersAssumption == IsFiniteSet(Workers) /\ Workers # {}
ASSUME LimitAssumption   == MaxPerHour \in Nat \ {0} /\ MaxAfter \in Nat
ASSUME HoursAssumption   == /\ HoursPerDay \in Nat \ {0}
                            /\ {QuietStart, QuietEnd} \subseteq 0 .. HoursPerDay - 1

VARIABLES
    pref,    \* the NotificationPreference table
    recent,  \* by user, the rows 'sent' of the log created within the last hour
    hour,    \* the hour of the day
    out,     \* history: members whose switch their last request about it turned
             \* off, with no request under way that Undoes it
    after,   \* history: e-mails sent to a member since
    pc,      \* the statement each worker executes next
    req,     \* the request each worker serves, with the preference row it loaded
    todo     \* the members each worker's loop has still to notify

vars == <<pref, recent, hour, out, after, pc, req, todo>>

Preference == [enabled : BOOLEAN, kinds : SUBSET Kinds, quiet : BOOLEAN]
Default    == [enabled |-> TRUE, kinds |-> DefaultKinds, quiet |-> TRUE]
NoPref     == [enabled |-> FALSE, kinds |-> {}, quiet |-> FALSE, none |-> TRUE]
Request    == [op : {"notify", "switch", "change"}, user : Users \cup {NoUser}, kind : Kinds \cup {NoKind},
               row : Preference]
NoReq      == [op |-> "none", user |-> NoUser, kind |-> NoKind, row |-> Default]
Labels     == {"idle", "prefs", "count", "send", "log", "save"}

TypeOK ==
    /\ pref \in [Users -> Preference \cup {NoPref}]
    /\ recent \in [Users -> Nat]
    /\ hour \in 0 .. HoursPerDay - 1
    /\ out \subseteq Users /\ after \in [Users -> 0 .. MaxAfter]
    /\ pc \in [Workers -> Labels]
    /\ req \in [Workers -> Request \cup {NoReq}]
    /\ todo \in [Workers -> SUBSET Users]

-----------------------------------------------------------------------------
Stored(u) == pref[u] # NoPref

\* Fault: get() in place of get_or_create().
LoadedOnly(u) == pref[u]

\* What get_or_create returns, and what it leaves in the table.
Loaded(u) == IF Stored(u) THEN pref[u] ELSE Default

WithRow(u) == [pref EXCEPT ![u] = Loaded(u)]

\* is_in_quiet_hours: the window may span midnight.
InQuietHours(row) ==
    /\ row.quiet
    /\ IF QuietStart < QuietEnd THEN QuietStart <= hour /\ hour < QuietEnd
                                ELSE QuietStart <= hour \/ hour < QuietEnd

Goto(w, label) == pc' = [pc EXCEPT ![w] = label]

Finish(w) ==
    /\ pc' = [pc EXCEPT ![w] = "idle"]
    /\ req' = [req EXCEPT ![w] = NoReq]
    /\ todo' = [todo EXCEPT ![w] = {}]

\* The loop takes the next member; the member notified last is left out.
NextMember(w) ==
    LET rest == todo[w] \ {req[w].user} IN
    IF rest = {} THEN Finish(w)
    ELSE \E u \in rest :
            /\ todo' = [todo EXCEPT ![w] = rest]
            /\ req' = [req EXCEPT ![w].user = u, ![w].row = Default]
            /\ Goto(w, "prefs")

-----------------------------------------------------------------------------
(* The receivers of a new prayer request, testimony or scripture           *)

\* The active members of the group but the author, loaded once.
BeginNotify(w) ==
    /\ pc[w] = "idle"
    /\ \E author \in Users, k \in Kinds : \E u \in Users \ {author} :
          /\ req' = [req EXCEPT ![w] = [op |-> "notify", user |-> u, kind |-> k, row |-> Default]]
          /\ todo' = [todo EXCEPT ![w] = Users \ {author}]
    /\ Goto(w, "prefs")
    /\ UNCHANGED <<pref, recent, hour, out, after>>

\* Fault: the master switch is not looked at.
ReadPrefsOfKind(w) ==
    /\ pc[w] = "prefs"
    /\ LET u == req[w].user IN
       /\ pref' = WithRow(u)
       /\ IF req[w].kind \notin Loaded(u).kinds THEN NextMember(w)
          ELSE Goto(w, "count") /\ UNCHANGED <<req, todo>>
    /\ UNCHANGED <<recent, hour, out, after>>

\* get_or_create, then the checks on the instance: switch, kind, quiet hours.
ReadPrefs(w) ==
    /\ pc[w] = "prefs"
    /\ LET u == req[w].user
           row == Loaded(u)
       IN /\ pref' = WithRow(u)
          /\ IF ~row.enabled \/ req[w].kind \notin row.kinds \/ InQuietHours(row)
             THEN NextMember(w)
             ELSE Goto(w, "count") /\ UNCHANGED <<req, todo>>
    /\ UNCHANGED <<recent, hour, out, after>>

\* Fault: off by one.
CountOneMore(w) ==
    /\ pc[w] = "count"
    /\ IF recent[req[w].user] > MaxPerHour THEN NextMember(w)
       ELSE Goto(w, "send") /\ UNCHANGED <<req, todo>>
    /\ UNCHANGED <<pref, recent, hour, out, after>>

\* _is_rate_limited.
CountRecent(w) ==
    /\ pc[w] = "count"
    /\ IF recent[req[w].user] >= MaxPerHour THEN NextMember(w)
       ELSE Goto(w, "send") /\ UNCHANGED <<req, todo>>
    /\ UNCHANGED <<pref, recent, hour, out, after>>

\* The e-mail leaves, or sending fails and 'failed' is logged.
Send(w) ==
    /\ pc[w] = "send"
    /\ LET u == req[w].user IN
       \/ /\ after' = IF u \in out /\ after[u] < MaxAfter THEN [after EXCEPT ![u] = @ + 1] ELSE after
          /\ Goto(w, "log")
          /\ UNCHANGED <<req, todo>>
       \/ NextMember(w) /\ UNCHANGED after
    /\ UNCHANGED <<pref, recent, hour, out>>

\* The row 'sent'; if it cannot be written, 'failed' is logged instead although
\* the e-mail left.
Log(w) ==
    /\ pc[w] = "log"
    /\ LET u == req[w].user
       IN recent' \in {[recent EXCEPT ![u] = @ + 1], recent}
    /\ NextMember(w)
    /\ UNCHANGED <<pref, hour, out, after>>

\* Anything raised outside the sending ends the loop; the content stays.
Abort(w) ==
    /\ pc[w] # "idle" /\ Finish(w)
    /\ UNCHANGED <<pref, recent, hour, out, after>>

-----------------------------------------------------------------------------
(* PUT and PATCH /preferences/{id}/                                        *)

\* The columns a request names: the switch, or others.
Switched(row) == {[row EXCEPT !.enabled = b] : b \in BOOLEAN}
Changed(row)  == {[row EXCEPT !.quiet = ~@]} \cup {[row EXCEPT !.kinds = S] : S \in SUBSET Kinds}

\* get_object is a get_or_create of the caller's own row, whatever the id; the
\* request then changes columns of the instance.
BeginPatch(w) ==
    /\ pc[w] = "idle"
    /\ \E u \in Users, op \in {"switch", "change"} :
       \E row \in IF op = "switch" THEN Switched(Loaded(u)) ELSE Changed(Loaded(u)) :
          /\ pref' = WithRow(u)
          /\ req' = [req EXCEPT ![w] = [op |-> op, user |-> u, kind |-> NoKind, row |-> row]]
    /\ Goto(w, "save")
    /\ UNCHANGED <<recent, hour, out, after, todo>>

\* A request for other columns that had loaded the row with the switch on.
Undoes(w, u) == pc[w] = "save" /\ req[w].user = u /\ req[w].op = "change" /\ req[w].row.enabled

\* save() writes the whole instance.
SavePatch(w) ==
    /\ pc[w] = "save"
    /\ LET u == req[w].user IN
       /\ pref' = [pref EXCEPT ![u] = req[w].row]
       /\ out' = IF req[w].op = "change" THEN out
                 ELSE IF req[w].row.enabled \/ \E v \in Workers : Undoes(v, u) THEN out \ {u}
                 ELSE out \cup {u}
       /\ after' = IF u \in out' THEN after ELSE [after EXCEPT ![u] = 0]
    /\ Finish(w)
    /\ UNCHANGED <<recent, hour>>

-----------------------------------------------------------------------------
(* The clock                                                               *)

Tick == hour' = (hour + 1) % HoursPerDay /\ UNCHANGED <<pref, recent, out, after, pc, req, todo>>

\* A row of the log becomes older than an hour.
Age ==
    /\ \E u \in Users : recent[u] > 0 /\ recent' = [recent EXCEPT ![u] = @ - 1]
    /\ UNCHANGED <<pref, hour, out, after, pc, req, todo>>

-----------------------------------------------------------------------------
Init ==
    /\ pref = [u \in Users |-> NoPref] /\ recent = [u \in Users |-> 0]
    /\ hour \in 0 .. HoursPerDay - 1
    /\ out = {} /\ after = [u \in Users |-> 0]
    /\ pc = [w \in Workers |-> "idle"]
    /\ req = [w \in Workers |-> NoReq]
    /\ todo = [w \in Workers |-> {}]

Notify(w) == BeginNotify(w) \/ ReadPrefs(w) \/ CountRecent(w) \/ Send(w) \/ Log(w)
Patch(w)  == BeginPatch(w) \/ SavePatch(w)

Next ==
    \/ \E w \in Workers : Notify(w) \/ Patch(w) \/ Abort(w)
    \/ Tick \/ Age

Spec == Init /\ [][Next]_vars

-----------------------------------------------------------------------------
(* Properties                                                              *)

\* The workers that were told user u may be mailed.
Allowed(u)  == {w \in Workers : pc[w] \in {"send", "log"} /\ req[w].user = u}
\* Those that found the switch on.
Passed(u)   == {w \in Workers : pc[w] \in {"count", "send"} /\ req[w].user = u}

\* The limit is checked before the e-mail is logged, so requests that run
\* together may exceed it, but by less than their number, however many e-mails
\* the group's activity asks for (_is_rate_limited, _log_notification).
LimitOvershootBounded ==
    \A u \in Users : recent[u] < MaxPerHour + Cardinality(Workers)

\* Once a member has switched e-mails off, the switch stays off until the member
\* asks for e-mails again, and only the requests that had read the preferences
\* before may still mail the member, each once. The exception is in `out`: an
\* opt-out is lost for good when a request for other columns had loaded the row
\* before it, for its save writes the switch back
\* (_send_notification, NotificationPreferenceViewSet).
OptOutTakesEffect ==
    \A u \in out : ~pref[u].enabled /\ after[u] <= Cardinality(Workers)

=============================================================================
