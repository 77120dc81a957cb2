----------------------------- MODULE GroupSerial -----------------------------
(***************************************************************************)
(* With one worker the statements of a request follow each other without   *)
(* interference, and the group service implements GroupAbstract.           *)
(***************************************************************************)
EXTENDS GroupService

\* The request whose second effect is still to come.
HalfDone == {w \in Workers : pc[w] \in {"seatLeader", "setCoLeaders"}}

DueOf(w) == [what  |-> IF pc[w] = "seatLeader" THEN "seat" ELSE "coLeaders",
             group |-> req[w].group]

Atomic == INSTANCE GroupAbstract WITH
    seat <- [g \in Groups |-> [u \in Users |-> mem[g][u].status]],
    due  <- IF HalfDone = {} THEN [what |-> "nothing", group |-> NoGroup]
            ELSE DueOf(CHOOSE w \in HalfDone : TRUE)

\* Requests served one at a time take effect atomically: every check the
\* handlers make on what they loaded earlier is a check at the moment the
\* effect happens.
SerialIsAtomic == Atomic!Spec

=============================================================================
