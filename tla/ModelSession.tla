---------------------------- MODULE ModelSession ----------------------------
(***************************************************************************)
(* The batch model protocol: graphcal-model-client's Session drives one      *)
(* `graphcal model serve` process through its stdin and stdout.               *)
(*                                                                         *)
(* Messages are longer than the pipes, so that both processes block in the    *)
(* middle of one.  The operating system is external: a write to a pipe nobody *)
(* reads fails, a read of an empty pipe nobody writes ends, and a process that *)
(* exits closes its pipes before it can be waited for.  Arrow's StreamReader    *)
(* takes the end of the pipe between two messages for the end of the stream.   *)
(* The thread that drains stderr is left out: it never waits for the session.  *)
(***************************************************************************)
EXTENDS Naturals, Sequences

CONSTANTS
    Requests,    \* the requests of the caller, each made at most once
    Rows,        \* their numbers of rows
    Interfaces,  \* interfaces the model file may have
    Size,        \* chunks of a message
    PipeSize,    \* chunks a pipe holds
    MaxEdits,    \* bound: how often the model file is edited
    Nothing, Header, Eos

Messages == Requests \cup {Header, Eos}

ASSUME SessionAssumption ==
    /\ Size \in Nat \ {0} /\ PipeSize \in Nat \ {0} /\ MaxEdits \in Nat
    /\ Rows \in [Requests -> Nat]
    /\ Header \notin Requests \cup {Eos} /\ Eos \notin Requests
    /\ Nothing \notin Messages \cup Interfaces

VARIABLES
    model,      \* the interface of the model file
    edits,      \* how often it was edited
    described,  \* the interface the client has
    client,     \* where the client is
    request,    \* the request of the call under way
    answers,    \* for each request, the request whose result was returned
    written,    \* chunks the client has written of its message
    requests,   \* whether the client holds the write end of stdin
    results,    \* whether the client holds the read end of stdout
    trailing,   \* what shutdown read after the request stream's end
    stdin, stdout, \* chunks under way
    server,     \* where the server is
    serving,    \* the interface it has prepared
    replied,    \* the result it is writing
    output,     \* chunks it has written of its message
    status      \* its exit status

callerVars == <<model, edits, described>>
clientVars == <<client, request, answers, written, requests, results, trailing>>
serverVars == <<server, serving, replied, output, status>>
vars == <<callerVars, clientVars, stdin, stdout, serverVars>>

Chunk == [msg : Messages, last : BOOLEAN]

Alive == server \notin {"none", "closed", "zombie", "reaped"}

TypeOK ==
    /\ model \in Interfaces /\ described \in Interfaces
    /\ edits \in 0 .. MaxEdits
    /\ client \in {"described", "openRead", "openWrite", "openFailed", "ready", "send",
                   "receive", "stopped", "killed", "closed", "finish", "drain", "wait",
                   "ended", "failed", "crashed"}
    /\ request \in Requests \cup {Nothing}
    /\ answers \in [Requests -> Requests \cup {Nothing}]
    /\ written \in 0 .. Size - 1 /\ output \in 0 .. Size - 1
    /\ requests \in BOOLEAN /\ results \in BOOLEAN
    /\ trailing \in Messages \cup {Nothing}
    /\ stdin \in Seq(Chunk) /\ Len(stdin) <= PipeSize
    /\ stdout \in Seq(Chunk) /\ Len(stdout) <= PipeSize
    /\ server \in {"none", "prepare", "header", "readHeader", "read", "write", "finish",
                   "closed", "zombie", "reaped"}
    /\ serving \in Interfaces \cup {Nothing}
    /\ replied \in Requests \cup {Nothing}
    /\ status \in {"none", "success", "failure"}

Init ==
    /\ model \in Interfaces /\ described = model
    /\ edits = 0
    /\ client = "described" /\ request = Nothing
    /\ answers = [q \in Requests |-> Nothing]
    /\ written = 0 /\ output = 0
    /\ requests = FALSE /\ results = FALSE
    /\ trailing = Nothing
    /\ stdin = <<>> /\ stdout = <<>>
    /\ server = "none" /\ serving = Nothing /\ replied = Nothing
    /\ status = "none"

\* Somebody edits the model file after it was described.
EditModel(i) ==
    /\ edits < MaxEdits /\ edits' = edits + 1
    /\ model' = i
    /\ UNCHANGED <<described, clientVars, stdin, stdout, serverVars>>

-----------------------------------------------------------------------------
(* Pipes.                                                                   *)

\* The next chunk of message m, after k of them, and what follows it.
PutChunk(pipe, m, k) == Append(pipe, [msg |-> m, last |-> k = Size - 1])
After(k) == (k + 1) % Size

-----------------------------------------------------------------------------
(* The server: graphcal model serve.                                        *)

\* The process ends: its pipes close first.
Exit(st) == server' = "closed" /\ status' = st

\* prepare, then the fingerprint: setup failures come before any byte on stdout.
Prepare ==
    /\ server = "prepare"
    /\ serving' = model
    /\ IF model = described THEN server' = "header" /\ UNCHANGED status
                            ELSE Exit("failure")
    /\ UNCHANGED <<callerVars, clientVars, stdin, stdout, replied, output>>

PrepareFails ==
    /\ server = "prepare"
    /\ Exit("failure")
    /\ UNCHANGED <<callerVars, clientVars, stdin, stdout, serving, replied, output>>

\* Writes a chunk of m to stdout; with the last one the server goes on.
Emit(m, next) ==
    \/ /\ results
       /\ Len(stdout) < PipeSize
       /\ stdout' = PutChunk(stdout, m, output)
       /\ output' = After(output)
       /\ IF After(output) = 0 THEN next ELSE UNCHANGED <<server, status>>
    \/ /\ ~results
       /\ Exit("failure")
       /\ UNCHANGED <<stdout, output>>

\* Mutant: the request stream is opened before the result stream.
ReadHeaderFirst ==
    /\ server = "header"
    /\ stdin # <<>>
    /\ server' = "readHeader"
    /\ UNCHANGED <<callerVars, clientVars, stdin, stdout, serving, replied, output, status>>

\* The result-stream schema is written before stdin is read.
WriteHeader ==
    /\ server = "header"
    /\ Emit(Header, server' = "readHeader" /\ UNCHANGED status)
    /\ UNCHANGED <<callerVars, clientVars, stdin, serving, replied>>

\* StreamReader::try_new and validate_schema.
ReadHeader ==
    /\ server = "readHeader"
    /\ \/ /\ stdin # <<>>
          /\ server' = IF Head(stdin).last THEN "read" ELSE server
          /\ stdin' = Tail(stdin)
          /\ UNCHANGED status
       \/ /\ stdin = <<>> /\ ~requests
          /\ Exit("failure")
          /\ UNCHANGED stdin
    /\ UNCHANGED <<callerVars, clientVars, stdout, serving, replied, output>>

\* Mutant: the server goes on reading a pipe that was closed.
ReadClosedPipe ==
    /\ server = "read" /\ stdin # <<>>
    /\ LET c == Head(stdin) IN
       /\ replied' = IF c.msg = Eos THEN Nothing ELSE c.msg
       /\ server' = CASE ~c.last -> "read"
                      [] c.last /\ c.msg = Eos -> "finish"
                      [] OTHER -> "write"
    /\ stdin' = Tail(stdin)
    /\ UNCHANGED <<callerVars, clientVars, stdout, serving, output, status>>

\* The next request batch; the end of the stream finishes the result stream.
\* replied holds the request of which part has been read.
ReadRequest ==
    /\ server = "read"
    /\ \/ /\ stdin # <<>>
          /\ LET c == Head(stdin) IN
             /\ replied' = IF c.msg = Eos THEN Nothing ELSE c.msg
             /\ server' = CASE ~c.last -> "read"
                            [] c.last /\ c.msg = Eos -> "finish"
                            [] OTHER -> "write"
          /\ stdin' = Tail(stdin)
          /\ UNCHANGED status
       \/ /\ stdin = <<>> /\ ~requests
          /\ IF replied = Nothing THEN server' = "finish" /\ UNCHANGED status
                                  ELSE Exit("failure")
          /\ UNCHANGED <<stdin, replied>>
    /\ UNCHANGED <<callerVars, clientVars, stdout, serving, output>>

\* evaluate_request failed, or the batch cannot be decoded.
EvaluateFails ==
    /\ server = "write" /\ output = 0
    /\ Exit("failure")
    /\ UNCHANGED <<callerVars, clientVars, stdin, stdout, serving, replied, output>>

WriteResult ==
    /\ server = "write"
    /\ Emit(replied, server' = "read" /\ UNCHANGED status)
    /\ replied' = IF server' = "write" THEN replied ELSE Nothing
    /\ UNCHANGED <<callerVars, clientVars, stdin, serving>>

FinishResults ==
    /\ server = "finish"
    /\ Emit(Eos, Exit("success"))
    /\ UNCHANGED <<callerVars, clientVars, stdin, serving, replied>>

\* The operating system lets the process be waited for.
BecomeZombie ==
    /\ server = "closed"
    /\ server' = "zombie"
    /\ UNCHANGED <<callerVars, clientVars, stdin, stdout, serving, replied, output, status>>

ServerCrash ==
    /\ Alive
    /\ Exit("failure")
    /\ UNCHANGED <<callerVars, clientVars, stdin, stdout, serving, replied, output>>

-----------------------------------------------------------------------------
(* The client: SessionBuilder::spawn and Session.                           *)

Go(to) == client' = to

Spawn ==
    /\ client = "described"
    /\ \/ /\ server' = "prepare" /\ requests' = TRUE /\ results' = TRUE
          /\ Go("openRead")
       \/ /\ Go("failed")
          /\ UNCHANGED <<server, requests, results>>
    /\ UNCHANGED <<callerVars, request, answers, written, trailing, stdin, stdout,
                   serving, replied, output, status>>

\* open_streams fails: both pipes are closed before the child is waited for.
OpenFails == Go("openFailed") /\ requests' = FALSE /\ results' = FALSE

\* The result-stream schema, si_scales, configure and validate_schema.
OpenRead ==
    /\ client = "openRead"
    /\ \/ /\ stdout # <<>>
          /\ stdout' = Tail(stdout)
          /\ \/ /\ Go(IF Head(stdout).last THEN "openWrite" ELSE "openRead")
                /\ UNCHANGED <<requests, results>>
             \/ Head(stdout).last /\ OpenFails
       \/ /\ stdout = <<>> /\ ~Alive
          /\ OpenFails
          /\ UNCHANGED stdout
    /\ UNCHANGED <<callerVars, request, answers, written, trailing, stdin, serverVars>>

\* Writes a chunk of m to stdin; a server that has gone fails the write.
Send(m, done, failed) ==
    \/ /\ Alive
       /\ Len(stdin) < PipeSize
       /\ stdin' = PutChunk(stdin, m, written)
       /\ written' = After(written)
       /\ IF After(written) = 0 THEN done ELSE UNCHANGED <<client, requests, results>>
    \/ /\ ~Alive
       /\ failed
       /\ written' = 0
       /\ UNCHANGED stdin

OpenWrite ==
    /\ client = "openWrite"
    /\ Send(Header, Go("ready") /\ UNCHANGED <<requests, results>>, OpenFails)
    /\ UNCHANGED <<callerVars, request, answers, trailing, stdout, serverVars>>

\* ServerProcess::failure: wait for the server, whose own error is preferred.
OpenFailed ==
    /\ client = "openFailed" /\ server = "zombie"
    /\ server' = "reaped"
    /\ Go("failed")
    /\ UNCHANGED <<callerVars, request, answers, written, requests, results, trailing,
                   stdin, stdout, serving, replied, output, status>>

Evaluate(q) ==
    /\ client = "ready" /\ answers[q] = Nothing
    /\ request' = q
    /\ Go("send")
    /\ UNCHANGED <<callerVars, answers, written, requests, results, trailing, stdin,
                   stdout, serverVars>>

\* Mutant: an exchange that fails leaves the session as it is.
ExchangeAbandoned == Go("ready") /\ UNCHANGED <<requests, results>>

\* exchange fails: the request stream is dropped before the process is looked at.
ExchangeFails == Go("stopped") /\ requests' = FALSE /\ UNCHANGED results

WriteRequest ==
    /\ client = "send"
    /\ Send(request, Go("receive") /\ UNCHANGED <<requests, results>>, ExchangeFails)
    /\ UNCHANGED <<callerVars, request, answers, trailing, stdout, serverVars>>

\* The request cannot be encoded, before anything is written.
EncodeFails ==
    /\ client = "send" /\ written = 0
    /\ ExchangeFails
    /\ UNCHANGED <<callerVars, request, answers, written, trailing, stdin, stdout,
                   serverVars>>

\* The result batch, which must decode and have the request's rows.
ReadResult ==
    /\ client = "receive"
    /\ \/ /\ stdout # <<>> /\ ~Head(stdout).last
          /\ stdout' = Tail(stdout)
          /\ UNCHANGED <<client, request, answers, requests, results>>
       \/ /\ stdout # <<>> /\ Head(stdout).last
          /\ stdout' = Tail(stdout)
          /\ LET m == Head(stdout).msg IN
             \/ /\ m \in Requests /\ Rows[m] = Rows[request]
                /\ answers' = [answers EXCEPT ![request] = m]
                /\ request' = Nothing
                /\ Go("ready")
                /\ UNCHANGED <<requests, results>>
             \/ /\ ExchangeFails
                /\ UNCHANGED <<request, answers>>
       \/ /\ stdout = <<>> /\ ~Alive
          /\ ExchangeFails
          /\ UNCHANGED <<request, answers, stdout>>
    /\ UNCHANGED <<callerVars, written, trailing, stdin, serverVars>>

\* ServerProcess::stopped: a server that cannot be waited for yet is killed.
TryWait ==
    /\ client = "stopped"
    /\ Go("killed")
    /\ IF server = "zombie" \/ server = "closed" THEN UNCHANGED <<server, status>>
                                                  ELSE Exit("failure")
    /\ UNCHANGED <<callerVars, request, answers, written, requests, results, trailing,
                   stdin, stdout, serving, replied, output>>

Reap ==
    /\ client = "killed" /\ server = "zombie"
    /\ server' = "reaped"
    /\ Go("closed")
    /\ request' = Nothing
    /\ UNCHANGED <<callerVars, answers, written, requests, results, trailing, stdin,
                   stdout, serving, replied, output, status>>

\* A session that failed has nothing left to end: evaluate and shutdown report
\* SessionClosed.
EndClosed ==
    /\ client = "closed"
    /\ Go("failed")
    /\ results' = FALSE
    /\ UNCHANGED <<callerVars, request, answers, written, requests, trailing, stdin,
                   stdout, serverVars>>

Shutdown ==
    /\ client = "ready"
    /\ Go("finish")
    /\ UNCHANGED <<callerVars, request, answers, written, requests, results, trailing,
                   stdin, stdout, serverVars>>

\* The request stream is finished and dropped; a failed write is kept for later.
FinishRequests ==
    /\ client = "finish"
    /\ Send(Eos, Go("drain") /\ requests' = FALSE /\ UNCHANGED results,
                 Go("drain") /\ requests' = FALSE /\ UNCHANGED results)
    /\ UNCHANGED <<callerVars, request, answers, trailing, stdout, serverVars>>

\* shutdown reads once more: the end of the stream, of the pipe, or a result.
ReadTrailing ==
    /\ client = "drain"
    /\ \/ /\ stdout # <<>>
          /\ stdout' = Tail(stdout)
          /\ trailing' = Head(stdout).msg
          /\ Go(IF Head(stdout).last THEN "wait" ELSE "drain")
       \/ /\ stdout = <<>> /\ ~Alive
          /\ Go("wait")
          /\ UNCHANGED <<stdout, trailing>>
    /\ UNCHANGED <<callerVars, request, answers, written, requests, results, stdin,
                   serverVars>>

\* Mutant: shutdown does not look at the exit status.
WaitIgnoringStatus ==
    /\ client = "wait" /\ server = "zombie"
    /\ server' = "reaped"
    /\ Go("ended")
    /\ results' = FALSE
    /\ UNCHANGED <<callerVars, request, answers, written, requests, trailing, stdin,
                   stdout, serving, replied, output, status>>

\* shutdown succeeds for a server that succeeded and said nothing more.
WaitShutdown ==
    /\ client = "wait" /\ server = "zombie"
    /\ server' = "reaped"
    /\ Go(IF status = "success" /\ trailing \in {Eos, Nothing} THEN "ended" ELSE "failed")
    /\ results' = FALSE
    /\ UNCHANGED <<callerVars, request, answers, written, requests, trailing, stdin,
                   stdout, serving, replied, output, status>>

\* Drop for Session: the server is killed and waited for.
DropSession ==
    /\ client = "ready"
    /\ Go("killed")
    /\ requests' = FALSE
    /\ IF Alive THEN Exit("failure") ELSE UNCHANGED <<server, status>>
    /\ UNCHANGED <<callerVars, request, answers, written, results, trailing, stdin,
                   stdout, serving, replied, output>>

\* The client's process dies: the system closes its pipes.
ClientCrash ==
    /\ client \notin {"described", "ended", "failed", "crashed"}
    /\ Go("crashed")
    /\ requests' = FALSE /\ results' = FALSE /\ request' = Nothing
    /\ UNCHANGED <<callerVars, answers, written, trailing, stdin, stdout, serverVars>>

-----------------------------------------------------------------------------
ClientStep ==
    \/ OpenRead \/ OpenWrite \/ OpenFailed
    \/ WriteRequest \/ EncodeFails \/ ReadResult \/ TryWait \/ Reap
    \/ FinishRequests \/ ReadTrailing \/ WaitShutdown

CallerStep ==
    \/ Spawn \/ (\E q \in Requests : Evaluate(q))
    \/ Shutdown \/ DropSession \/ EndClosed

ServerStep ==
    \/ Prepare \/ PrepareFails \/ WriteHeader \/ ReadHeader \/ ReadRequest
    \/ EvaluateFails \/ WriteResult \/ FinishResults \/ BecomeZombie

Next ==
    \/ ClientStep \/ CallerStep \/ ServerStep
    \/ ServerCrash \/ ClientCrash
    \/ \E i \in Interfaces : EditModel(i)

Spec == Init /\ [][Next]_vars

\* Both processes and the operating system go on; the caller may stop calling.
FairSpec == Spec /\ WF_vars(ClientStep) /\ WF_vars(ServerStep)

-----------------------------------------------------------------------------
(* Properties.                                                              *)

\* What a caller sees of the two processes.
Calls == INSTANCE RemoteCalls WITH
    phase <- CASE client \in {"described", "openRead", "openWrite"} -> "opening"
               [] client = "ready" -> "open"
               [] client \in {"send", "receive"} -> "calling"
               [] OTHER -> "over",
    request <- IF client \in {"send", "receive"} THEN request ELSE Nothing

\* The session implements RemoteCalls: a call returns the answer to its own request
\* or ends the session, however the server fails, the exchange breaks off or the
\* pipes fill up.
ImplementsRemoteCalls == Calls!Spec

\* A session that was opened is served by the interface that was described, even when
\* the file was edited before the server read it.
ServesDescribedInterface ==
    client \in {"ready", "send", "receive", "finish", "drain", "wait", "ended"} =>
        serving = described

\* A session that failed or ended leaves no process behind, running or unreaped.
ServerReaped ==
    client \in {"closed", "ended", "failed"} => server \in {"none", "reaped"}

\* shutdown reports success only when the server ended by itself, having read the
\* whole request stream, and nothing it wrote was left unread.
CleanShutdown ==
    client = "ended" => /\ status = "success"
                        /\ stdin = <<>> /\ stdout = <<>>
                        /\ replied = Nothing

\* Every call returns: the client never hangs on a pipe or on a process.
CallsReturn ==
    client \in {"openRead", "openWrite", "openFailed", "send", "receive", "stopped",
                "killed", "finish", "drain", "wait"}
        ~> client \in {"ready", "closed", "ended", "failed", "crashed"}

\* The server does not outlive a client that died.
ServerEndsWithClient == client = "crashed" ~> ~Alive
=============================================================================
