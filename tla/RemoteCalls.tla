----------------------------- MODULE RemoteCalls -----------------------------
(***************************************************************************)
(* What a model session promises its caller: calls are made one at a time,   *)
(* and each one returns the answer to its own request or breaks the session   *)
(* for good.  A broken or ended session answers nothing more.                *)
(***************************************************************************)
CONSTANTS
    Requests,  \* the requests of a caller, each made at most once
    Nothing

VARIABLES
    phase,    \* where the session is
    request,  \* the request of the call under way
    answers   \* what the calls returned: the request that was answered

vars == <<phase, request, answers>>

Init ==
    /\ phase = "opening"
    /\ request = Nothing
    /\ answers = [q \in Requests |-> Nothing]

Open ==
    /\ phase = "opening"
    /\ phase' = "open"
    /\ UNCHANGED <<request, answers>>

Call(q) ==
    /\ phase = "open" /\ answers[q] = Nothing
    /\ phase' = "calling"
    /\ request' = q
    /\ UNCHANGED answers

Return ==
    /\ phase = "calling"
    /\ phase' = "open"
    /\ answers' = [answers EXCEPT ![request] = request]
    /\ request' = Nothing

\* A call fails, or the caller ends the session, or dies.
Break ==
    /\ phase # "over"
    /\ phase' = "over"
    /\ request' = Nothing
    /\ UNCHANGED answers

Next == Open \/ (\E q \in Requests : Call(q)) \/ Return \/ Break

Spec == Init /\ [][Next]_vars
=============================================================================
