--------------------------- MODULE SettlementWait ---------------------------
(***************************************************************************)
(* Requests that wait for the analysis of the latest text: inlay_hint and   *)
(* AnalysisSettlement::wait_for_current, on top of the scheduler whose      *)
(* passes settle.                                                           *)
(*                                                                         *)
(* settle first raises the settled generation under its mutex and then      *)
(* calls notify_waiters, which wakes the waiters registered at that moment   *)
(* and is not remembered for later ones.                                    *)
(***************************************************************************)
EXTENDS AnalysisScheduler

CONSTANT Waiters    \* requests; each asks for a document again and again

VARIABLES
    waiting,  \* control point of a request
    asked,    \* the document it asks for
    current,  \* the generation it read in this round of its loop
    woken,    \* the requests whose registered Notified has fired
    due       \* settle calls that have not yet called notify_waiters

requests == <<waiting, asked, current, woken>>
allVars == <<vars, requests, due>>

InitRequests ==
    /\ waiting = [w \in Waiters |-> "idle"]
    /\ asked \in [Waiters -> Docs]
    /\ current = [w \in Waiters |-> 0]
    /\ woken = {}
    /\ due = {}

GoTo(w, to) == waiting' = [waiting EXCEPT ![w] = to]

-----------------------------------------------------------------------------
(* wait_for_current.                                                        *)

Request(w) ==
    /\ waiting[w] = "idle"
    /\ \E u \in Docs : asked' = [asked EXCEPT ![w] = u]
    /\ GoTo(w, "round")
    /\ UNCHANGED <<current, woken, due>>

\* A round starts: a new Notified is registered before anything is read.
Enable(w) ==
    /\ waiting[w] = "round"
    /\ woken' = woken \ {w}
    /\ GoTo(w, "enabled")
    /\ UNCHANGED <<asked, current, due>>

ReadGeneration(w) ==
    /\ waiting[w] = "enabled"
    /\ current' = [current EXCEPT ![w] = generation[asked[w]]]
    /\ GoTo(w, "read")
    /\ UNCHANGED <<asked, woken, due>>

\* is_settled decides between the answer and waiting.
CheckSettled(w) ==
    /\ waiting[w] = "read"
    /\ GoTo(w, IF settled[asked[w]] >= current[w] THEN "answer" ELSE "unsettled")
    /\ UNCHANGED <<asked, current, woken, due>>

\* The Notified is polled for the first time.
Sleep(w) ==
    /\ waiting[w] = "unsettled"
    /\ GoTo(w, "asleep")
    /\ UNCHANGED <<asked, current, woken, due>>

Wake(w) ==
    /\ waiting[w] = "asleep"
    /\ w \in woken
    /\ GoTo(w, "round")
    /\ UNCHANGED <<asked, current, woken, due>>

\* CURRENT_ANALYSIS_WAIT elapses.
Elapse(w) ==
    /\ waiting[w] = "asleep"
    /\ GoTo(w, "answer")
    /\ UNCHANGED <<asked, current, woken, due>>

\* inlay_hint answers from whatever is current.
Answer(w) ==
    /\ waiting[w] = "answer"
    /\ GoTo(w, "idle")
    /\ current' = [current EXCEPT ![w] = 0]
    /\ woken' = woken \ {w}
    /\ UNCHANGED <<asked, due>>

-----------------------------------------------------------------------------
(* The scheduler's steps.                                                   *)

\* Mutant: a request registers only when it goes to sleep.
ListeningAsleep == {w \in Waiters : waiting[w] = "asleep"}

Listening == {w \in Waiters : waiting[w] \in {"enabled", "read", "unsettled", "asleep"}}

SettleStep(u, g) ==
    /\ SettlePass(u, g) \/ SettleClose(u, g)
    /\ due' = due \cup {<<u, g>>}
    /\ UNCHANGED requests

OtherStep ==
    /\ Next
    /\ ~ \E u \in Docs, g \in Gens : SettlePass(u, g) \/ SettleClose(u, g)
    /\ UNCHANGED <<requests, due>>

\* The second half of settle: notify_waiters.
NotifyWaiters ==
    \E d \in due :
        /\ due' = due \ {d}
        /\ woken' = woken \cup Listening
        /\ UNCHANGED <<waiting, asked, current>>

-----------------------------------------------------------------------------
RequestStep(w) ==
    \/ Enable(w) \/ ReadGeneration(w) \/ CheckSettled(w) \/ Sleep(w) \/ Wake(w) \/ Answer(w)

WaitNext ==
    \/ \E u \in Docs, g \in Gens : SettleStep(u, g)
    \/ OtherStep
    \/ NotifyWaiters /\ UNCHANGED vars
    \/ \E w \in Waiters : (Request(w) \/ RequestStep(w) \/ Elapse(w)) /\ UNCHANGED vars

WaitSpec == Init /\ InitRequests /\ [][WaitNext]_allVars

\* Requests are polled, and settle calls return.  No request relies on its
\* deadline.
FairWaitSpec ==
    /\ WaitSpec
    /\ Fairness
    /\ WF_allVars(NotifyWaiters /\ UNCHANGED vars)
    /\ \A w \in Waiters : WF_allVars(RequestStep(w) /\ UNCHANGED vars)

-----------------------------------------------------------------------------
(* Properties.                                                              *)

\* A request sleeps without a wake-up under way only while the generation it
\* waits for is not settled: a pass that finishes between the check and the
\* sleep still wakes it ("Register before checking").
NoLostWakeup ==
    \A w \in Waiters :
        /\ waiting[w] = "asleep"
        /\ settled[asked[w]] >= current[w]
        => w \in woken \/ due # {}

\* Every request is answered without the help of its deadline, through edits,
\* retries, closes and timed-out passes.
RequestsAnswered == \A w \in Waiters : waiting[w] # "idle" ~> waiting[w] = "idle"
=============================================================================
