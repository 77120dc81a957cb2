------------------------------ MODULE Serving ------------------------------
(***************************************************************************)
(* The workers that serve the requests about one person: what Accounts and *)
(* People have in common.  Each worker serves one request at a time, one   *)
(* statement after the other.                                              *)
(***************************************************************************)
EXTENDS Integers, FiniteSets

CONSTANTS
    Workers,   \* request-handling threads
    MayAbort   \* whether a statement may fail and end its request

ASSUME AbortAssumption == MayAbort \in BOOLEAN

VARIABLES
    pc,    \* the statement each worker executes next
    req    \* the request each worker serves

Goto(w, label) == pc' = [pc EXCEPT ![w] = label]

=============================================================================
