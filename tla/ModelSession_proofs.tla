------------------------ MODULE ModelSession_proofs ------------------------
(***************************************************************************)
(* The model session for any requests, interfaces, message and pipe sizes:   *)
(* it implements RemoteCalls, serves the described interface, reaps its       *)
(* server and ends cleanly.                                                  *)
(*                                                                         *)
(* The argument looks at a pipe as two sets: the messages of which it holds a  *)
(* chunk, and those of which it holds the last one.  A request is in one place *)
(* only: being written, in stdin, being read, being answered, or in stdout; so  *)
(* a call that reads the end of a result has read the result of its own request *)
(* and has left nothing behind for the next call.                             *)
(***************************************************************************)
EXTENDS ModelSession, SequenceTheorems, TLAPS

-----------------------------------------------------------------------------
(* Pipes.                                                                   *)

\* The messages a pipe holds a chunk of, and those it holds the last chunk of.
Msgs(pipe) == {pipe[i].msg : i \in DOMAIN pipe}
Whole(pipe) == {pipe[i].msg : i \in {j \in DOMAIN pipe : pipe[j].last}}

\* A message is not continued after its last chunk, a stream's header comes first
\* and its end last.
Ordered(pipe) ==
    \A i, j \in DOMAIN pipe : i < j /\ pipe[i].last =>
        pipe[j].msg # pipe[i].msg /\ pipe[j].msg # Header /\ pipe[i].msg # Eos

\* A chunk joins the end of a pipe.
LEMMA PutProperties ==
    ASSUME NEW pipe \in Seq(Chunk), NEW m \in Messages, NEW k \in 0 .. Size - 1
    PROVE  /\ PutChunk(pipe, m, k) \in Seq(Chunk)
           /\ Len(PutChunk(pipe, m, k)) = Len(pipe) + 1
           /\ Msgs(PutChunk(pipe, m, k)) = Msgs(pipe) \cup {m}
           /\ Whole(PutChunk(pipe, m, k))
                = Whole(pipe) \cup (IF k = Size - 1 THEN {m} ELSE {})
           /\ Ordered(pipe) /\ m \notin Whole(pipe) /\ Eos \notin Whole(pipe)
                /\ (m = Header => Whole(pipe) = {})
              => Ordered(PutChunk(pipe, m, k))
<1> DEFINE c == [msg |-> m, last |-> k = Size - 1]
           P == Append(pipe, c)
<1>1. c \in Chunk /\ c.msg = m /\ (c.last <=> k = Size - 1)
  BY DEF Chunk
<1>2. PutChunk(pipe, m, k) = P
  BY DEF PutChunk
<1> HIDE DEF c
<1>3. /\ P \in Seq(Chunk) /\ Len(P) = Len(pipe) + 1
      /\ \A i \in 1 .. Len(pipe) : P[i] = pipe[i]
      /\ P[Len(pipe) + 1] = c
      /\ DOMAIN P = 1 .. Len(pipe) + 1 /\ DOMAIN pipe = 1 .. Len(pipe)
  BY <1>1
<1> HIDE DEF P
<1>4. Msgs(P) = Msgs(pipe) \cup {m}
  <2>1. ASSUME NEW x \in Msgs(P) PROVE x \in Msgs(pipe) \cup {m}
    BY <1>1, <1>3 DEF Msgs
  <2>2. ASSUME NEW x \in Msgs(pipe) PROVE x \in Msgs(P)
    BY <1>3 DEF Msgs
  <2>3. m \in Msgs(P)
    BY <1>1, <1>3 DEF Msgs
  <2> QED BY <2>1, <2>2, <2>3
<1>5. Whole(P) = Whole(pipe) \cup (IF k = Size - 1 THEN {m} ELSE {})
  <2>1. ASSUME NEW x \in Whole(P)
        PROVE  x \in Whole(pipe) \/ (k = Size - 1 /\ x = m)
    BY <1>1, <1>3 DEF Whole
  <2>2. ASSUME NEW x \in Whole(pipe) PROVE x \in Whole(P)
    BY <1>3 DEF Whole
  <2>3. k = Size - 1 => m \in Whole(P)
    BY <1>1, <1>3 DEF Whole
  <2> QED BY <2>1, <2>2, <2>3
<1>6. ASSUME Ordered(pipe), m \notin Whole(pipe), Eos \notin Whole(pipe),
             m = Header => Whole(pipe) = {}
      PROVE  Ordered(P)
  <2> SUFFICES ASSUME NEW i \in DOMAIN P, NEW j \in DOMAIN P, i < j, P[i].last
               PROVE  P[j].msg # P[i].msg /\ P[j].msg # Header /\ P[i].msg # Eos
    BY DEF Ordered
  <2>1. i \in 1 .. Len(pipe) /\ P[i] = pipe[i]
    BY <1>3
  <2>2. pipe[i].msg \in Whole(pipe)
    BY <1>3, <2>1 DEF Whole
  <2>3. CASE j = Len(pipe) + 1
    BY <1>1, <1>3, <1>6, <2>1, <2>2, <2>3
  <2>4. CASE j # Len(pipe) + 1
    <3>1. j \in 1 .. Len(pipe) /\ P[j] = pipe[j]
      BY <1>3, <2>4
    <3> QED BY <1>3, <1>6, <2>1, <3>1 DEF Ordered
  <2> QED BY <2>3, <2>4
<1> QED BY <1>2, <1>3, <1>4, <1>5, <1>6

\* The first chunk of a pipe is taken.
LEMMA TakeProperties ==
    ASSUME NEW pipe \in Seq(Chunk), pipe # <<>>
    PROVE  /\ Head(pipe) \in Chunk
           /\ Head(pipe).msg \in Msgs(pipe)
           /\ Head(pipe).last => Head(pipe).msg \in Whole(pipe)
           /\ Tail(pipe) \in Seq(Chunk) /\ Len(Tail(pipe)) = Len(pipe) - 1
           /\ Msgs(Tail(pipe)) \subseteq Msgs(pipe)
           /\ Whole(Tail(pipe)) \subseteq Whole(pipe)
           /\ Ordered(pipe) => Ordered(Tail(pipe))
           /\ Ordered(pipe) /\ Head(pipe).last =>
                /\ Head(pipe).msg \notin Msgs(Tail(pipe))
                /\ Header \notin Msgs(Tail(pipe))
                /\ Head(pipe).msg = Eos => Tail(pipe) = <<>>
<1> DEFINE T == Tail(pipe)
<1>1. /\ Len(pipe) \in Nat /\ Len(pipe) >= 1
      /\ Head(pipe) = pipe[1] /\ pipe[1] \in Chunk
      /\ T \in Seq(Chunk) /\ Len(T) = Len(pipe) - 1
      /\ \A i \in 1 .. Len(pipe) - 1 : T[i] = pipe[i + 1]
      /\ DOMAIN T = 1 .. Len(pipe) - 1 /\ DOMAIN pipe = 1 .. Len(pipe)
  OBVIOUS
<1> HIDE DEF T
<1>2. Len(T) = 0 => T = <<>>
  BY <1>1, EmptySeq
<1>3. pipe[1].msg \in Msgs(pipe) /\ (pipe[1].last => pipe[1].msg \in Whole(pipe))
  BY <1>1 DEF Msgs, Whole
<1>4. Msgs(T) \subseteq Msgs(pipe)
  <2> SUFFICES ASSUME NEW i \in 1 .. Len(pipe) - 1 PROVE T[i].msg \in Msgs(pipe)
    BY <1>1 DEF Msgs
  <2>1. i + 1 \in DOMAIN pipe /\ T[i] = pipe[i + 1]
    BY <1>1
  <2> QED BY <2>1 DEF Msgs
<1>5. Whole(T) \subseteq Whole(pipe)
  <2> SUFFICES ASSUME NEW i \in 1 .. Len(pipe) - 1, T[i].last PROVE T[i].msg \in Whole(pipe)
    BY <1>1 DEF Whole
  <2>1. i + 1 \in DOMAIN pipe /\ T[i] = pipe[i + 1]
    BY <1>1
  <2> QED BY <2>1 DEF Whole
<1>6. ASSUME Ordered(pipe) PROVE Ordered(T)
  <2> SUFFICES ASSUME NEW i \in DOMAIN T, NEW j \in DOMAIN T, i < j, T[i].last
               PROVE  T[j].msg # T[i].msg /\ T[j].msg # Header /\ T[i].msg # Eos
    BY DEF Ordered
  <2>1. /\ i + 1 \in DOMAIN pipe /\ T[i] = pipe[i + 1]
        /\ j + 1 \in DOMAIN pipe /\ T[j] = pipe[j + 1]
        /\ i + 1 < j + 1
    BY <1>1
  <2> QED BY <1>6, <2>1 DEF Ordered
<1>7. ASSUME Ordered(pipe), pipe[1].last
      PROVE  /\ pipe[1].msg \notin Msgs(T) /\ Header \notin Msgs(T)
             /\ pipe[1].msg = Eos => Len(T) = 0
  <2>1. ASSUME NEW i \in 1 .. Len(pipe) - 1
        PROVE  T[i].msg # pipe[1].msg /\ T[i].msg # Header /\ pipe[1].msg # Eos
    <3>1. /\ i + 1 \in DOMAIN pipe /\ T[i] = pipe[i + 1] /\ 1 < i + 1
          /\ 1 \in DOMAIN pipe
      BY <1>1
    <3> QED BY <1>7, <3>1 DEF Ordered
  <2>2. pipe[1].msg = Eos => Len(pipe) - 1 = 0
    BY <1>1, <2>1
  <2>3. pipe[1].msg \notin Msgs(T) /\ Header \notin Msgs(T)
    BY <1>1, <2>1 DEF Msgs
  <2> QED BY <1>1, <2>2, <2>3
<1> QED BY <1>1, <1>2, <1>3, <1>4, <1>5, <1>6, <1>7 DEF T

-----------------------------------------------------------------------------
(* The inductive invariant.                                                 *)

In == Msgs(stdin)
InWhole == Whole(stdin)
Out == Msgs(stdout)
OutWhole == Whole(stdout)

PipesOrdered == Ordered(stdin) /\ Ordered(stdout)

\* Nothing is written before the interface was found to be the described one.
Opening ==
    /\ server = "none" => client \in {"described", "failed"} /\ status = "none"
    /\ client = "described" => server = "none"
    /\ server = "prepare" => client \in {"openRead", "crashed"}
    /\ server \in {"none", "prepare"} => Out = {}
    /\ server = "header" => OutWhole = {}
    /\ Out # {} \/ server \in {"header", "readHeader", "read", "write", "finish"}
       \/ client \in {"openWrite", "ready", "send", "receive", "finish", "drain", "wait",
                      "ended"}
       => serving = described

\* The request stream: its header, requests and its end, which closes it.
RequestStream ==
    /\ client \in {"described", "openRead"} => In = {}
    /\ client = "openWrite" => In \subseteq {Header} /\ InWhole = {}
    /\ client \in {"described", "openRead", "openWrite"} =>
         server \notin {"read", "write", "finish"}
    /\ client \in {"openRead", "openWrite", "ready", "send", "receive", "finish"} => requests
    /\ server \in {"read", "write", "finish"} => Header \notin In
    /\ requests => Eos \notin InWhole
    /\ server = "finish" \/ status = "success" =>
         stdin = <<>> /\ ~requests /\ replied = Nothing

\* The result stream: its end is the last thing a server writes.
ResultStream ==
    /\ server = "write" => replied \in Requests
    /\ Alive => Eos \notin OutWhole
    /\ status = "success" => ~Alive
    /\ client = "wait" /\ trailing \in {Eos, Nothing} => stdout = <<>> /\ ~Alive

\* A request is in one place.
OnePlace ==
    /\ \A q \in Requests \cap In : q \notin Out /\ (server = "write" => replied # q)
    /\ replied # Nothing => replied \notin OutWhole
    /\ client = "send" => /\ request \notin InWhole \cup Out
                          /\ server # "write"

\* The only request under way is the one of the call that waits for its result.
OneCall ==
    /\ client \in {"described", "openRead", "openWrite", "ready"} =>
         (In \cup Out) \cap Requests = {} /\ replied = Nothing /\ server # "write"
    /\ client \in {"send", "receive"} =>
         /\ request \in Requests
         /\ (In \cup Out) \cap Requests \subseteq {request}
         /\ replied \in {Nothing, request}

IInv ==
    /\ TypeOK /\ PipesOrdered /\ Opening /\ RequestStream /\ ResultStream
    /\ OnePlace /\ OneCall /\ ServerReaped /\ CleanShutdown

LEMMA InSame ==
    ASSUME stdin' = stdin
    PROVE  In' = In /\ InWhole' = InWhole /\ Ordered(stdin)' = Ordered(stdin)
BY DEF In, InWhole, Msgs, Whole, Ordered

LEMMA InPut ==
    ASSUME TypeOK, NEW m \in Messages, stdin' = PutChunk(stdin, m, written),
           Len(stdin) < PipeSize
    PROVE  /\ stdin' \in Seq(Chunk) /\ Len(stdin') <= PipeSize
           /\ In' = In \cup {m}
           /\ After(written) = 0 => InWhole' = InWhole \cup {m}
           /\ After(written) # 0 => InWhole' = InWhole
           /\ Ordered(stdin) /\ m \notin InWhole /\ Eos \notin InWhole /\ (m = Header => InWhole = {})
              => Ordered(stdin)'
<1>1. stdin \in Seq(Chunk) /\ written \in 0 .. Size - 1
  BY DEF TypeOK
<1>2. Len(stdin) + 1 <= PipeSize
  BY <1>1, SessionAssumption
<1>3. After(written) = 0 <=> written = Size - 1
  BY <1>1, SessionAssumption DEF After
<1>4. In' = Msgs(stdin') /\ InWhole' = Whole(stdin') /\ Ordered(stdin)' = Ordered(stdin')
  BY DEF In, InWhole, Msgs, Whole, Ordered
<1>5. /\ stdin' \in Seq(Chunk) /\ Len(stdin') = Len(stdin) + 1
      /\ Msgs(stdin') = Msgs(stdin) \cup {m}
      /\ Whole(stdin') = Whole(stdin) \cup (IF written = Size - 1 THEN {m} ELSE {})
      /\ Ordered(stdin) /\ m \notin Whole(stdin) /\ Eos \notin Whole(stdin)
           /\ (m = Header => Whole(stdin) = {})
         => Ordered(stdin')
  BY <1>1, PutProperties
<1> QED BY <1>2, <1>3, <1>4, <1>5 DEF In, InWhole

LEMMA InTake ==
    ASSUME TypeOK, stdin # <<>>, stdin' = Tail(stdin)
    PROVE  /\ Head(stdin).msg \in Messages /\ Head(stdin).last \in BOOLEAN
           /\ Head(stdin).msg \in In
           /\ Head(stdin).last => Head(stdin).msg \in InWhole
           /\ stdin' \in Seq(Chunk) /\ Len(stdin') <= PipeSize
           /\ In' \subseteq In /\ InWhole' \subseteq InWhole
           /\ Ordered(stdin) => Ordered(stdin)'
           /\ Ordered(stdin) /\ Head(stdin).last =>
                /\ Head(stdin).msg \notin In'
                /\ Header \notin In'
                /\ Head(stdin).msg = Eos => stdin' = <<>>
<1>1. stdin \in Seq(Chunk) /\ Len(stdin) <= PipeSize
  BY DEF TypeOK
<1>2. In' = Msgs(stdin') /\ InWhole' = Whole(stdin') /\ Ordered(stdin)' = Ordered(stdin')
  BY DEF In, InWhole, Msgs, Whole, Ordered
<1>3. Len(stdin) - 1 <= PipeSize
  BY <1>1, SessionAssumption
<1>4. Head(stdin) \in Chunk => Head(stdin).msg \in Messages /\ Head(stdin).last \in BOOLEAN
  BY DEF Chunk
<1> QED BY <1>1, <1>2, <1>3, <1>4, TakeProperties DEF In, InWhole

LEMMA InEmpty == ASSUME stdin = <<>> PROVE In = {} /\ InWhole = {}
BY DEF In, InWhole, Msgs, Whole

LEMMA OutSame ==
    ASSUME stdout' = stdout
    PROVE  Out' = Out /\ OutWhole' = OutWhole /\ Ordered(stdout)' = Ordered(stdout)
BY DEF Out, OutWhole, Msgs, Whole, Ordered

LEMMA OutPut ==
    ASSUME TypeOK, NEW m \in Messages, stdout' = PutChunk(stdout, m, output),
           Len(stdout) < PipeSize
    PROVE  /\ stdout' \in Seq(Chunk) /\ Len(stdout') <= PipeSize
           /\ Out' = Out \cup {m}
           /\ After(output) = 0 => OutWhole' = OutWhole \cup {m}
           /\ After(output) # 0 => OutWhole' = OutWhole
           /\ Ordered(stdout) /\ m \notin OutWhole /\ Eos \notin OutWhole /\ (m = Header => OutWhole = {})
              => Ordered(stdout)'
<1>1. stdout \in Seq(Chunk) /\ output \in 0 .. Size - 1
  BY DEF TypeOK
<1>2. Len(stdout) + 1 <= PipeSize
  BY <1>1, SessionAssumption
<1>3. After(output) = 0 <=> output = Size - 1
  BY <1>1, SessionAssumption DEF After
<1>4. Out' = Msgs(stdout') /\ OutWhole' = Whole(stdout') /\ Ordered(stdout)' = Ordered(stdout')
  BY DEF Out, OutWhole, Msgs, Whole, Ordered
<1>5. /\ stdout' \in Seq(Chunk) /\ Len(stdout') = Len(stdout) + 1
      /\ Msgs(stdout') = Msgs(stdout) \cup {m}
      /\ Whole(stdout') = Whole(stdout) \cup (IF output = Size - 1 THEN {m} ELSE {})
      /\ Ordered(stdout) /\ m \notin Whole(stdout) /\ Eos \notin Whole(stdout)
           /\ (m = Header => Whole(stdout) = {})
         => Ordered(stdout')
  BY <1>1, PutProperties
<1> QED BY <1>2, <1>3, <1>4, <1>5 DEF Out, OutWhole

LEMMA OutTake ==
    ASSUME TypeOK, stdout # <<>>, stdout' = Tail(stdout)
    PROVE  /\ Head(stdout).msg \in Messages /\ Head(stdout).last \in BOOLEAN
           /\ Head(stdout).msg \in Out
           /\ Head(stdout).last => Head(stdout).msg \in OutWhole
           /\ stdout' \in Seq(Chunk) /\ Len(stdout') <= PipeSize
           /\ Out' \subseteq Out /\ OutWhole' \subseteq OutWhole
           /\ Ordered(stdout) => Ordered(stdout)'
           /\ Ordered(stdout) /\ Head(stdout).last =>
                /\ Head(stdout).msg \notin Out'
                /\ Header \notin Out'
                /\ Head(stdout).msg = Eos => stdout' = <<>>
<1>1. stdout \in Seq(Chunk) /\ Len(stdout) <= PipeSize
  BY DEF TypeOK
<1>2. Out' = Msgs(stdout') /\ OutWhole' = Whole(stdout') /\ Ordered(stdout)' = Ordered(stdout')
  BY DEF Out, OutWhole, Msgs, Whole, Ordered
<1>3. Len(stdout) - 1 <= PipeSize
  BY <1>1, SessionAssumption
<1>4. Head(stdout) \in Chunk => Head(stdout).msg \in Messages /\ Head(stdout).last \in BOOLEAN
  BY DEF Chunk
<1> QED BY <1>1, <1>2, <1>3, <1>4, TakeProperties DEF Out, OutWhole

LEMMA OutEmpty == ASSUME stdout = <<>> PROVE Out = {} /\ OutWhole = {}
BY DEF Out, OutWhole, Msgs, Whole

LEMMA WholeIsPart == InWhole \subseteq In /\ OutWhole \subseteq Out
BY DEF In, InWhole, Out, OutWhole, Msgs, Whole

-----------------------------------------------------------------------------
(* Each step keeps the invariant.                                           *)

LEMMA EditModelStep == ASSUME IInv, NEW i \in Interfaces, EditModel(i) PROVE IInv'
<1>1. stdin' = stdin /\ stdout' = stdout
  BY DEF EditModel, callerVars, clientVars, serverVars
<1>2. In' = In /\ InWhole' = InWhole /\ Ordered(stdin)' = Ordered(stdin)
  BY <1>1, InSame
<1>3. Out' = Out /\ OutWhole' = OutWhole /\ Ordered(stdout)' = Ordered(stdout)
  BY <1>1, OutSame
<1>5. TypeOK'
  BY <1>1, <1>2, <1>3, SessionAssumption, WholeIsPart DEF IInv, TypeOK, EditModel,
     clientVars, serverVars
<1>6. PipesOrdered'
  BY <1>1, <1>2, <1>3, SessionAssumption, WholeIsPart DEF IInv, PipesOrdered, clientVars,
     serverVars
<1>7. Opening'
  BY <1>1, <1>2, <1>3, SessionAssumption, WholeIsPart DEF IInv, Opening, EditModel,
     clientVars, serverVars
<1>8. RequestStream'
  BY <1>1, <1>2, <1>3, SessionAssumption, WholeIsPart DEF IInv, RequestStream, EditModel,
     clientVars, serverVars
<1>9. ResultStream'
  BY <1>1, <1>2, <1>3, SessionAssumption, WholeIsPart DEF IInv, ResultStream, Alive,
     EditModel, callerVars, clientVars, serverVars
<1>10. OnePlace'
  BY <1>1, <1>2, <1>3, SessionAssumption, WholeIsPart DEF IInv, OnePlace, EditModel,
     clientVars, serverVars
<1>11. OneCall'
  BY <1>1, <1>2, <1>3, SessionAssumption, WholeIsPart DEF IInv, OneCall, EditModel,
     clientVars, serverVars
<1>12. ServerReaped'
  BY <1>1, <1>2, <1>3, SessionAssumption, WholeIsPart DEF IInv, ServerReaped, EditModel,
     clientVars, serverVars
<1>13. CleanShutdown'
  BY <1>1, <1>2, <1>3, SessionAssumption, WholeIsPart DEF IInv, CleanShutdown, EditModel,
     clientVars, serverVars
<1> QED BY <1>5, <1>6, <1>7, <1>8, <1>9, <1>10, <1>11, <1>12, <1>13 DEF IInv

LEMMA PrepareFailsStep == ASSUME IInv, PrepareFails PROVE IInv'
<1>1. stdin' = stdin /\ stdout' = stdout
  BY DEF PrepareFails, callerVars, clientVars, serverVars
<1>2. In' = In /\ InWhole' = InWhole /\ Ordered(stdin)' = Ordered(stdin)
  BY <1>1, InSame
<1>3. Out' = Out /\ OutWhole' = OutWhole /\ Ordered(stdout)' = Ordered(stdout)
  BY <1>1, OutSame
<1>5. TypeOK'
  BY <1>1, <1>2, <1>3, SessionAssumption, WholeIsPart DEF IInv, TypeOK, PrepareFails, Exit,
     callerVars, clientVars, serverVars
<1>6. PipesOrdered'
  BY <1>1, <1>2, <1>3, SessionAssumption, WholeIsPart DEF IInv, PipesOrdered, callerVars,
     clientVars, serverVars
<1>7. Opening'
  BY <1>1, <1>2, <1>3, SessionAssumption, WholeIsPart DEF IInv, Opening, PrepareFails, Exit,
     callerVars, clientVars, serverVars
<1>8. RequestStream'
  BY <1>1, <1>2, <1>3, SessionAssumption, WholeIsPart DEF IInv, RequestStream, PrepareFails,
     Exit, callerVars, clientVars, serverVars
<1>9. ResultStream'
  BY <1>1, <1>2, <1>3, SessionAssumption, WholeIsPart DEF IInv, ResultStream, Alive,
     PrepareFails, Exit, callerVars, clientVars, serverVars
<1>10. OnePlace'
  BY <1>1, <1>2, <1>3, SessionAssumption, WholeIsPart DEF IInv, OnePlace, PrepareFails,
     Exit, callerVars, clientVars, serverVars
<1>11. OneCall'
  BY <1>1, <1>2, <1>3, SessionAssumption, WholeIsPart DEF IInv, OneCall, PrepareFails, Exit,
     callerVars, clientVars, serverVars
<1>12. ServerReaped'
  BY <1>1, <1>2, <1>3, SessionAssumption, WholeIsPart DEF IInv, ServerReaped, PrepareFails,
     callerVars, clientVars, serverVars
<1>13. CleanShutdown'
  BY <1>1, <1>2, <1>3, SessionAssumption, WholeIsPart DEF IInv, CleanShutdown, Opening,
     RequestStream, ResultStream, OnePlace, OneCall, ServerReaped, Alive, PrepareFails, Exit,
     callerVars, clientVars, serverVars
<1> QED BY <1>5, <1>6, <1>7, <1>8, <1>9, <1>10, <1>11, <1>12, <1>13 DEF IInv

LEMMA EvaluateFailsStep == ASSUME IInv, EvaluateFails PROVE IInv'
<1>1. stdin' = stdin /\ stdout' = stdout
  BY DEF EvaluateFails, callerVars, clientVars, serverVars
<1>2. In' = In /\ InWhole' = InWhole /\ Ordered(stdin)' = Ordered(stdin)
  BY <1>1, InSame
<1>3. Out' = Out /\ OutWhole' = OutWhole /\ Ordered(stdout)' = Ordered(stdout)
  BY <1>1, OutSame
<1>5. TypeOK'
  BY <1>1, <1>2, <1>3, SessionAssumption, WholeIsPart DEF IInv, TypeOK, EvaluateFails, Exit,
     callerVars, clientVars, serverVars
<1>6. PipesOrdered'
  BY <1>1, <1>2, <1>3, SessionAssumption, WholeIsPart DEF IInv, PipesOrdered, callerVars,
     clientVars, serverVars
<1>7. Opening'
  BY <1>1, <1>2, <1>3, SessionAssumption, WholeIsPart DEF IInv, Opening, EvaluateFails,
     Exit, callerVars, clientVars, serverVars
<1>8. RequestStream'
  BY <1>1, <1>2, <1>3, SessionAssumption, WholeIsPart DEF IInv, RequestStream,
     EvaluateFails, Exit, callerVars, clientVars, serverVars
<1>9. ResultStream'
  BY <1>1, <1>2, <1>3, SessionAssumption, WholeIsPart DEF IInv, ResultStream, Alive,
     EvaluateFails, Exit, callerVars, clientVars, serverVars
<1>10. OnePlace'
  BY <1>1, <1>2, <1>3, SessionAssumption, WholeIsPart DEF IInv, OnePlace, EvaluateFails,
     callerVars, clientVars, serverVars
<1>11. OneCall'
  BY <1>1, <1>2, <1>3, SessionAssumption, WholeIsPart DEF IInv, OneCall, EvaluateFails,
     callerVars, clientVars, serverVars
<1>12. ServerReaped'
  BY <1>1, <1>2, <1>3, SessionAssumption, WholeIsPart DEF IInv, ServerReaped, EvaluateFails,
     callerVars, clientVars, serverVars
<1>13. CleanShutdown'
  BY <1>1, <1>2, <1>3, SessionAssumption, WholeIsPart DEF IInv, CleanShutdown, Opening,
     RequestStream, ResultStream, OnePlace, OneCall, ServerReaped, Alive, EvaluateFails, Exit,
     callerVars, clientVars, serverVars
<1> QED BY <1>5, <1>6, <1>7, <1>8, <1>9, <1>10, <1>11, <1>12, <1>13 DEF IInv

LEMMA BecomeZombieStep == ASSUME IInv, BecomeZombie PROVE IInv'
<1>1. stdin' = stdin /\ stdout' = stdout
  BY DEF BecomeZombie, callerVars, clientVars, serverVars
<1>2. In' = In /\ InWhole' = InWhole /\ Ordered(stdin)' = Ordered(stdin)
  BY <1>1, InSame
<1>3. Out' = Out /\ OutWhole' = OutWhole /\ Ordered(stdout)' = Ordered(stdout)
  BY <1>1, OutSame
<1>5. TypeOK'
  BY <1>1, <1>2, <1>3, SessionAssumption, WholeIsPart DEF IInv, TypeOK, BecomeZombie,
     callerVars, clientVars, serverVars
<1>6. PipesOrdered'
  BY <1>1, <1>2, <1>3, SessionAssumption, WholeIsPart DEF IInv, PipesOrdered, clientVars,
     serverVars
<1>7. Opening'
  BY <1>1, <1>2, <1>3, SessionAssumption, WholeIsPart DEF IInv, Opening, BecomeZombie,
     callerVars, clientVars, serverVars
<1>8. RequestStream'
  BY <1>1, <1>2, <1>3, SessionAssumption, WholeIsPart DEF IInv, RequestStream, BecomeZombie,
     clientVars, serverVars
<1>9. ResultStream'
  BY <1>1, <1>2, <1>3, SessionAssumption, WholeIsPart DEF IInv, ResultStream, Alive,
     BecomeZombie, callerVars, clientVars, serverVars
<1>10. OnePlace'
  BY <1>1, <1>2, <1>3, SessionAssumption, WholeIsPart DEF IInv, OnePlace, BecomeZombie,
     clientVars, serverVars
<1>11. OneCall'
  BY <1>1, <1>2, <1>3, SessionAssumption, WholeIsPart DEF IInv, OneCall, BecomeZombie,
     clientVars, serverVars
<1>12. ServerReaped'
  BY <1>1, <1>2, <1>3, SessionAssumption, WholeIsPart DEF IInv, ServerReaped, BecomeZombie,
     clientVars, serverVars
<1>13. CleanShutdown'
  BY <1>1, <1>2, <1>3, SessionAssumption, WholeIsPart DEF IInv, CleanShutdown, BecomeZombie,
     clientVars, serverVars
<1> QED BY <1>5, <1>6, <1>7, <1>8, <1>9, <1>10, <1>11, <1>12, <1>13 DEF IInv

LEMMA ServerCrashStep == ASSUME IInv, ServerCrash PROVE IInv'
<1>1. stdin' = stdin /\ stdout' = stdout
  BY DEF ServerCrash, callerVars, clientVars, serverVars
<1>2. In' = In /\ InWhole' = InWhole /\ Ordered(stdin)' = Ordered(stdin)
  BY <1>1, InSame
<1>3. Out' = Out /\ OutWhole' = OutWhole /\ Ordered(stdout)' = Ordered(stdout)
  BY <1>1, OutSame
<1>5. TypeOK'
  BY <1>1, <1>2, <1>3, SessionAssumption, WholeIsPart DEF IInv, TypeOK, ServerCrash, Exit,
     callerVars, clientVars, serverVars
<1>6. PipesOrdered'
  BY <1>1, <1>2, <1>3, SessionAssumption, WholeIsPart DEF IInv, PipesOrdered, callerVars,
     clientVars, serverVars
<1>7. Opening'
  BY <1>1, <1>2, <1>3, SessionAssumption, WholeIsPart DEF IInv, Opening, Alive, ServerCrash,
     Exit, callerVars, clientVars, serverVars
<1>8. RequestStream'
  BY <1>1, <1>2, <1>3, SessionAssumption, WholeIsPart DEF IInv, RequestStream, ServerCrash,
     Exit, callerVars, clientVars, serverVars
<1>9. ResultStream'
  BY <1>1, <1>2, <1>3, SessionAssumption, WholeIsPart DEF IInv, ResultStream, ServerCrash,
     Exit, callerVars, clientVars, serverVars
<1>10. OnePlace'
  BY <1>1, <1>2, <1>3, SessionAssumption, WholeIsPart DEF IInv, OnePlace, ServerCrash, Exit,
     callerVars, clientVars, serverVars
<1>11. OneCall'
  BY <1>1, <1>2, <1>3, SessionAssumption, WholeIsPart DEF IInv, OneCall, ServerCrash, Exit,
     callerVars, clientVars, serverVars
<1>12. ServerReaped'
  BY <1>1, <1>2, <1>3, SessionAssumption, WholeIsPart DEF IInv, ServerReaped, Alive,
     ServerCrash, Exit, callerVars, clientVars, serverVars
<1>13. CleanShutdown'
  BY <1>1, <1>2, <1>3, SessionAssumption, WholeIsPart DEF IInv, CleanShutdown, Opening,
     RequestStream, ResultStream, OnePlace, OneCall, ServerReaped, Alive, ServerCrash, Exit,
     callerVars, clientVars, serverVars
<1> QED BY <1>5, <1>6, <1>7, <1>8, <1>9, <1>10, <1>11, <1>12, <1>13 DEF IInv

LEMMA OpenFailedStep == ASSUME IInv, OpenFailed PROVE IInv'
<1>1. stdin' = stdin /\ stdout' = stdout
  BY DEF OpenFailed, callerVars, clientVars, serverVars
<1>2. In' = In /\ InWhole' = InWhole /\ Ordered(stdin)' = Ordered(stdin)
  BY <1>1, InSame
<1>3. Out' = Out /\ OutWhole' = OutWhole /\ Ordered(stdout)' = Ordered(stdout)
  BY <1>1, OutSame
<1>5. TypeOK'
  BY <1>1, <1>2, <1>3, SessionAssumption, WholeIsPart DEF IInv, TypeOK, OpenFailed, Go,
     callerVars, clientVars, serverVars
<1>6. PipesOrdered'
  BY <1>1, <1>2, <1>3, SessionAssumption, WholeIsPart DEF IInv, PipesOrdered, callerVars,
     clientVars, serverVars
<1>7. Opening'
  BY <1>1, <1>2, <1>3, SessionAssumption, WholeIsPart DEF IInv, Opening, OpenFailed, Go,
     callerVars, clientVars, serverVars
<1>8. RequestStream'
  BY <1>1, <1>2, <1>3, SessionAssumption, WholeIsPart DEF IInv, RequestStream, OpenFailed,
     Go, callerVars, clientVars, serverVars
<1>9. ResultStream'
  BY <1>1, <1>2, <1>3, SessionAssumption, WholeIsPart DEF IInv, ResultStream, Alive,
     OpenFailed, Go, callerVars, clientVars, serverVars
<1>10. OnePlace'
  BY <1>1, <1>2, <1>3, SessionAssumption, WholeIsPart DEF IInv, OnePlace, OpenFailed, Go,
     callerVars, clientVars, serverVars
<1>11. OneCall'
  BY <1>1, <1>2, <1>3, SessionAssumption, WholeIsPart DEF IInv, OneCall, OpenFailed, Go,
     callerVars, clientVars, serverVars
<1>12. ServerReaped'
  BY <1>1, <1>2, <1>3, SessionAssumption, WholeIsPart DEF IInv, ServerReaped, OpenFailed,
     callerVars, clientVars, serverVars
<1>13. CleanShutdown'
  BY <1>1, <1>2, <1>3, SessionAssumption, WholeIsPart DEF IInv, CleanShutdown, OpenFailed,
     Go, callerVars, clientVars, serverVars
<1> QED BY <1>5, <1>6, <1>7, <1>8, <1>9, <1>10, <1>11, <1>12, <1>13 DEF IInv

LEMMA EncodeFailsStep == ASSUME IInv, EncodeFails PROVE IInv'
<1>1. stdin' = stdin /\ stdout' = stdout
  BY DEF EncodeFails, callerVars, clientVars, serverVars
<1>2. In' = In /\ InWhole' = InWhole /\ Ordered(stdin)' = Ordered(stdin)
  BY <1>1, InSame
<1>3. Out' = Out /\ OutWhole' = OutWhole /\ Ordered(stdout)' = Ordered(stdout)
  BY <1>1, OutSame
<1>5. TypeOK'
  BY <1>1, <1>2, <1>3, SessionAssumption, WholeIsPart, ZenonT(30) DEF IInv, TypeOK, EncodeFails,
     ExchangeFails, Go, callerVars, clientVars, serverVars
<1>6. PipesOrdered'
  BY <1>1, <1>2, <1>3, SessionAssumption, WholeIsPart DEF IInv, PipesOrdered, Go,
     callerVars, clientVars, serverVars
<1>7. Opening'
  BY <1>1, <1>2, <1>3, SessionAssumption, WholeIsPart DEF IInv, Opening, EncodeFails,
     ExchangeFails, Go, callerVars, clientVars, serverVars
<1>8. RequestStream'
  BY <1>1, <1>2, <1>3, SessionAssumption, WholeIsPart DEF IInv, RequestStream, EncodeFails,
     ExchangeFails, Go, callerVars, clientVars, serverVars
<1>9. ResultStream'
  BY <1>1, <1>2, <1>3, SessionAssumption, WholeIsPart DEF IInv, ResultStream, Alive,
     EncodeFails, ExchangeFails, Go, callerVars, clientVars, serverVars
<1>10. OnePlace'
  BY <1>1, <1>2, <1>3, SessionAssumption, WholeIsPart DEF IInv, OnePlace, EncodeFails, Go,
     callerVars, clientVars, serverVars
<1>11. OneCall'
  BY <1>1, <1>2, <1>3, SessionAssumption, WholeIsPart DEF IInv, OneCall, EncodeFails,
     ExchangeFails, Go, callerVars, clientVars, serverVars
<1>12. ServerReaped'
  BY <1>1, <1>2, <1>3, SessionAssumption, WholeIsPart DEF IInv, ServerReaped, EncodeFails,
     ExchangeFails, Go, callerVars, clientVars, serverVars
<1>13. CleanShutdown'
  BY <1>1, <1>2, <1>3, SessionAssumption, WholeIsPart DEF IInv, CleanShutdown, EncodeFails,
     ExchangeFails, Go, callerVars, clientVars, serverVars
<1> QED BY <1>5, <1>6, <1>7, <1>8, <1>9, <1>10, <1>11, <1>12, <1>13 DEF IInv

LEMMA TryWaitStep == ASSUME IInv, TryWait PROVE IInv'
<1>1. stdin' = stdin /\ stdout' = stdout
  BY DEF TryWait, callerVars, clientVars, serverVars
<1>2. In' = In /\ InWhole' = InWhole /\ Ordered(stdin)' = Ordered(stdin)
  BY <1>1, InSame
<1>3. Out' = Out /\ OutWhole' = OutWhole /\ Ordered(stdout)' = Ordered(stdout)
  BY <1>1, OutSame
<1>5. TypeOK'
  BY <1>1, <1>2, <1>3, SessionAssumption, WholeIsPart DEF IInv, TypeOK, TryWait, Exit, Go,
     callerVars, clientVars, serverVars
<1>6. PipesOrdered'
  BY <1>1, <1>2, <1>3, SessionAssumption, WholeIsPart DEF IInv, PipesOrdered, Go,
     callerVars, clientVars, serverVars
<1>7. Opening'
  BY <1>1, <1>2, <1>3, SessionAssumption, WholeIsPart DEF IInv, Opening, TryWait, Exit, Go,
     callerVars, clientVars, serverVars
<1>8. RequestStream'
  BY <1>1, <1>2, <1>3, SessionAssumption, WholeIsPart DEF IInv, RequestStream, TryWait,
     Exit, Go, callerVars, clientVars, serverVars
<1>9. ResultStream'
  BY <1>1, <1>2, <1>3, SessionAssumption, WholeIsPart DEF IInv, ResultStream, Alive,
     TryWait, Exit, Go, callerVars, clientVars, serverVars
<1>10. OnePlace'
  BY <1>1, <1>2, <1>3, SessionAssumption, WholeIsPart DEF IInv, OnePlace, TryWait, Exit, Go,
     callerVars, clientVars, serverVars
<1>11. OneCall'
  BY <1>1, <1>2, <1>3, SessionAssumption, WholeIsPart DEF IInv, OneCall, TryWait, Go,
     callerVars, clientVars, serverVars
<1>12. ServerReaped'
  BY <1>1, <1>2, <1>3, SessionAssumption, WholeIsPart DEF IInv, ServerReaped, TryWait, Go,
     callerVars, clientVars, serverVars
<1>13. CleanShutdown'
  BY <1>1, <1>2, <1>3, SessionAssumption, WholeIsPart DEF IInv, CleanShutdown, TryWait, Go,
     callerVars, clientVars, serverVars
<1> QED BY <1>5, <1>6, <1>7, <1>8, <1>9, <1>10, <1>11, <1>12, <1>13 DEF IInv

LEMMA ReapStep == ASSUME IInv, Reap PROVE IInv'
<1>1. stdin' = stdin /\ stdout' = stdout
  BY DEF Reap, callerVars, clientVars, serverVars
<1>2. In' = In /\ InWhole' = InWhole /\ Ordered(stdin)' = Ordered(stdin)
  BY <1>1, InSame
<1>3. Out' = Out /\ OutWhole' = OutWhole /\ Ordered(stdout)' = Ordered(stdout)
  BY <1>1, OutSame
<1>5. TypeOK'
  BY <1>1, <1>2, <1>3, SessionAssumption, WholeIsPart DEF IInv, TypeOK, Reap, Go,
     callerVars, clientVars, serverVars
<1>6. PipesOrdered'
  BY <1>1, <1>2, <1>3, SessionAssumption, WholeIsPart DEF IInv, PipesOrdered, callerVars,
     clientVars, serverVars
<1>7. Opening'
  BY <1>1, <1>2, <1>3, SessionAssumption, WholeIsPart DEF IInv, Opening, Reap, Go,
     callerVars, clientVars, serverVars
<1>8. RequestStream'
  BY <1>1, <1>2, <1>3, SessionAssumption, WholeIsPart DEF IInv, RequestStream, Reap, Go,
     callerVars, clientVars, serverVars
<1>9. ResultStream'
  BY <1>1, <1>2, <1>3, SessionAssumption, WholeIsPart DEF IInv, ResultStream, Alive, Reap,
     Go, callerVars, clientVars, serverVars
<1>10. OnePlace'
  BY <1>1, <1>2, <1>3, SessionAssumption, WholeIsPart DEF IInv, OnePlace, Reap, Go,
     callerVars, clientVars, serverVars
<1>11. OneCall'
  BY <1>1, <1>2, <1>3, SessionAssumption, WholeIsPart DEF IInv, OneCall, Reap, Go,
     callerVars, clientVars, serverVars
<1>12. ServerReaped'
  BY <1>1, <1>2, <1>3, SessionAssumption, WholeIsPart DEF IInv, ServerReaped, Reap,
     callerVars, clientVars, serverVars
<1>13. CleanShutdown'
  BY <1>1, <1>2, <1>3, SessionAssumption, WholeIsPart DEF IInv, CleanShutdown, Reap, Go,
     callerVars, clientVars, serverVars
<1> QED BY <1>5, <1>6, <1>7, <1>8, <1>9, <1>10, <1>11, <1>12, <1>13 DEF IInv

LEMMA EndClosedStep == ASSUME IInv, EndClosed PROVE IInv'
<1>1. stdin' = stdin /\ stdout' = stdout
  BY DEF EndClosed, callerVars, clientVars, serverVars
<1>2. In' = In /\ InWhole' = InWhole /\ Ordered(stdin)' = Ordered(stdin)
  BY <1>1, InSame
<1>3. Out' = Out /\ OutWhole' = OutWhole /\ Ordered(stdout)' = Ordered(stdout)
  BY <1>1, OutSame
<1>5. TypeOK'
  BY <1>1, <1>2, <1>3, SessionAssumption, WholeIsPart, ZenonT(30) DEF IInv, TypeOK, EndClosed, Go,
     callerVars, clientVars, serverVars
<1>6. PipesOrdered'
  BY <1>1, <1>2, <1>3, SessionAssumption, WholeIsPart DEF IInv, PipesOrdered, callerVars,
     clientVars, serverVars
<1>7. Opening'
  BY <1>1, <1>2, <1>3, SessionAssumption, WholeIsPart DEF IInv, Opening, EndClosed, Go,
     callerVars, clientVars, serverVars
<1>8. RequestStream'
  BY <1>1, <1>2, <1>3, SessionAssumption, WholeIsPart DEF IInv, RequestStream, EndClosed,
     Go, callerVars, clientVars, serverVars
<1>9. ResultStream'
  BY <1>1, <1>2, <1>3, SessionAssumption, WholeIsPart DEF IInv, ResultStream, Alive,
     EndClosed, Go, callerVars, clientVars, serverVars
<1>10. OnePlace'
  BY <1>1, <1>2, <1>3, SessionAssumption, WholeIsPart DEF IInv, OnePlace, EndClosed, Go,
     callerVars, clientVars, serverVars
<1>11. OneCall'
  BY <1>1, <1>2, <1>3, SessionAssumption, WholeIsPart DEF IInv, OneCall, EndClosed, Go,
     callerVars, clientVars, serverVars
<1>12. ServerReaped'
  BY <1>1, <1>2, <1>3, SessionAssumption, WholeIsPart DEF IInv, ServerReaped, EndClosed,
     callerVars, clientVars, serverVars
<1>13. CleanShutdown'
  BY <1>1, <1>2, <1>3, SessionAssumption, WholeIsPart DEF IInv, CleanShutdown, EndClosed,
     Go, callerVars, clientVars, serverVars
<1> QED BY <1>5, <1>6, <1>7, <1>8, <1>9, <1>10, <1>11, <1>12, <1>13 DEF IInv

LEMMA ShutdownStep == ASSUME IInv, Shutdown PROVE IInv'
<1>1. stdin' = stdin /\ stdout' = stdout
  BY DEF Shutdown, callerVars, clientVars, serverVars
<1>2. In' = In /\ InWhole' = InWhole /\ Ordered(stdin)' = Ordered(stdin)
  BY <1>1, InSame
<1>3. Out' = Out /\ OutWhole' = OutWhole /\ Ordered(stdout)' = Ordered(stdout)
  BY <1>1, OutSame
<1>5. TypeOK'
  BY <1>1, <1>2, <1>3, SessionAssumption, WholeIsPart DEF IInv, TypeOK, Shutdown, Go,
     callerVars, clientVars, serverVars
<1>6. PipesOrdered'
  BY <1>1, <1>2, <1>3, SessionAssumption, WholeIsPart DEF IInv, PipesOrdered, callerVars,
     clientVars, serverVars
<1>7. Opening'
  BY <1>1, <1>2, <1>3, SessionAssumption, WholeIsPart DEF IInv, Opening, Shutdown, Go,
     callerVars, clientVars, serverVars
<1>8. RequestStream'
  BY <1>1, <1>2, <1>3, SessionAssumption, WholeIsPart DEF IInv, RequestStream, Shutdown, Go,
     callerVars, clientVars, serverVars
<1>9. ResultStream'
  BY <1>1, <1>2, <1>3, SessionAssumption, WholeIsPart DEF IInv, ResultStream, Alive,
     Shutdown, Go, callerVars, clientVars, serverVars
<1>10. OnePlace'
  BY <1>1, <1>2, <1>3, SessionAssumption, WholeIsPart DEF IInv, OnePlace, Shutdown, Go,
     callerVars, clientVars, serverVars
<1>11. OneCall'
  BY <1>1, <1>2, <1>3, SessionAssumption, WholeIsPart DEF IInv, OneCall, Shutdown, Go,
     callerVars, clientVars, serverVars
<1>12. ServerReaped'
  BY <1>1, <1>2, <1>3, SessionAssumption, WholeIsPart DEF IInv, ServerReaped, Shutdown, Go,
     callerVars, clientVars, serverVars
<1>13. CleanShutdown'
  BY <1>1, <1>2, <1>3, SessionAssumption, WholeIsPart DEF IInv, CleanShutdown, Shutdown, Go,
     callerVars, clientVars, serverVars
<1> QED BY <1>5, <1>6, <1>7, <1>8, <1>9, <1>10, <1>11, <1>12, <1>13 DEF IInv

LEMMA WaitShutdownStep == ASSUME IInv, WaitShutdown PROVE IInv'
<1>1. stdin' = stdin /\ stdout' = stdout
  BY DEF WaitShutdown, callerVars, clientVars, serverVars
<1>2. In' = In /\ InWhole' = InWhole /\ Ordered(stdin)' = Ordered(stdin)
  BY <1>1, InSame
<1>3. Out' = Out /\ OutWhole' = OutWhole /\ Ordered(stdout)' = Ordered(stdout)
  BY <1>1, OutSame
<1>5. TypeOK'
  BY <1>1, <1>2, <1>3, SessionAssumption, WholeIsPart DEF IInv, TypeOK, WaitShutdown, Go,
     callerVars, clientVars, serverVars
<1>6. PipesOrdered'
  BY <1>1, <1>2, <1>3, SessionAssumption, WholeIsPart DEF IInv, PipesOrdered, callerVars,
     clientVars, serverVars
<1>7. Opening'
  BY <1>1, <1>2, <1>3, SessionAssumption, WholeIsPart DEF IInv, Opening, WaitShutdown, Go,
     callerVars, clientVars, serverVars
<1>8. RequestStream'
  BY <1>1, <1>2, <1>3, SessionAssumption, WholeIsPart DEF IInv, RequestStream, WaitShutdown,
     Go, callerVars, clientVars, serverVars
<1>9. ResultStream'
  BY <1>1, <1>2, <1>3, SessionAssumption, WholeIsPart DEF IInv, ResultStream, Alive,
     WaitShutdown, Go, callerVars, clientVars, serverVars
<1>10. OnePlace'
  BY <1>1, <1>2, <1>3, SessionAssumption, WholeIsPart DEF IInv, OnePlace, WaitShutdown, Go,
     callerVars, clientVars, serverVars
<1>11. OneCall'
  BY <1>1, <1>2, <1>3, SessionAssumption, WholeIsPart DEF IInv, OneCall, WaitShutdown, Go,
     callerVars, clientVars, serverVars
<1>12. ServerReaped'
  BY <1>1, <1>2, <1>3, SessionAssumption, WholeIsPart DEF IInv, ServerReaped, WaitShutdown,
     callerVars, clientVars, serverVars
<1>13. CleanShutdown'
  BY <1>1, <1>2, <1>3, SessionAssumption, WholeIsPart DEF IInv, CleanShutdown, Opening,
     RequestStream, ResultStream, OnePlace, OneCall, ServerReaped, Alive, WaitShutdown, Go,
     callerVars, clientVars, serverVars
<1> QED BY <1>5, <1>6, <1>7, <1>8, <1>9, <1>10, <1>11, <1>12, <1>13 DEF IInv

LEMMA DropSessionStep == ASSUME IInv, DropSession PROVE IInv'
<1>1. stdin' = stdin /\ stdout' = stdout
  BY DEF DropSession, callerVars, clientVars, serverVars
<1>2. In' = In /\ InWhole' = InWhole /\ Ordered(stdin)' = Ordered(stdin)
  BY <1>1, InSame
<1>3. Out' = Out /\ OutWhole' = OutWhole /\ Ordered(stdout)' = Ordered(stdout)
  BY <1>1, OutSame
<1>5. TypeOK'
  BY <1>1, <1>2, <1>3, SessionAssumption, WholeIsPart, ZenonT(30) DEF IInv, TypeOK, DropSession, Exit,
     Go, callerVars, clientVars, serverVars
<1>6. PipesOrdered'
  BY <1>1, <1>2, <1>3, SessionAssumption, WholeIsPart DEF IInv, PipesOrdered, Go,
     callerVars, clientVars, serverVars
<1>7. Opening'
  BY <1>1, <1>2, <1>3, SessionAssumption, WholeIsPart DEF IInv, Opening, DropSession, Exit,
     Go, callerVars, clientVars, serverVars
<1>8. RequestStream'
  BY <1>1, <1>2, <1>3, SessionAssumption, WholeIsPart DEF IInv, RequestStream, DropSession,
     Exit, Go, callerVars, clientVars, serverVars
<1>9. ResultStream'
  BY <1>1, <1>2, <1>3, SessionAssumption, WholeIsPart DEF IInv, ResultStream, Alive,
     DropSession, Exit, Go, callerVars, clientVars, serverVars
<1>10. OnePlace'
  BY <1>1, <1>2, <1>3, SessionAssumption, WholeIsPart DEF IInv, OnePlace, DropSession, Exit,
     Go, callerVars, clientVars, serverVars
<1>11. OneCall'
  BY <1>1, <1>2, <1>3, SessionAssumption, WholeIsPart DEF IInv, OneCall, DropSession, Go,
     callerVars, clientVars, serverVars
<1>12. ServerReaped'
  BY <1>1, <1>2, <1>3, SessionAssumption, WholeIsPart DEF IInv, ServerReaped, DropSession,
     Go, callerVars, clientVars, serverVars
<1>13. CleanShutdown'
  BY <1>1, <1>2, <1>3, SessionAssumption, WholeIsPart DEF IInv, CleanShutdown, DropSession,
     Go, callerVars, clientVars, serverVars
<1> QED BY <1>5, <1>6, <1>7, <1>8, <1>9, <1>10, <1>11, <1>12, <1>13 DEF IInv

LEMMA ClientCrashStep == ASSUME IInv, ClientCrash PROVE IInv'
<1>1. stdin' = stdin /\ stdout' = stdout
  BY DEF ClientCrash, callerVars, clientVars, serverVars
<1>2. In' = In /\ InWhole' = InWhole /\ Ordered(stdin)' = Ordered(stdin)
  BY <1>1, InSame
<1>3. Out' = Out /\ OutWhole' = OutWhole /\ Ordered(stdout)' = Ordered(stdout)
  BY <1>1, OutSame
<1>5. TypeOK'
  BY <1>1, <1>2, <1>3, SessionAssumption, WholeIsPart DEF IInv, TypeOK, ClientCrash, Go,
     callerVars, clientVars, serverVars
<1>6. PipesOrdered'
  BY <1>1, <1>2, <1>3, SessionAssumption, WholeIsPart DEF IInv, PipesOrdered, callerVars,
     clientVars, serverVars
<1>7. Opening'
  BY <1>1, <1>2, <1>3, SessionAssumption, WholeIsPart DEF IInv, Opening, ClientCrash, Go,
     callerVars, clientVars, serverVars
<1>8. RequestStream'
  BY <1>1, <1>2, <1>3, SessionAssumption, WholeIsPart DEF IInv, RequestStream, ClientCrash,
     Go, callerVars, clientVars, serverVars
<1>9. ResultStream'
  BY <1>1, <1>2, <1>3, SessionAssumption, WholeIsPart DEF IInv, ResultStream, Alive,
     ClientCrash, Go, callerVars, clientVars, serverVars
<1>10. OnePlace'
  BY <1>1, <1>2, <1>3, SessionAssumption, WholeIsPart DEF IInv, OnePlace, ClientCrash, Go,
     callerVars, clientVars, serverVars
<1>11. OneCall'
  BY <1>1, <1>2, <1>3, SessionAssumption, WholeIsPart DEF IInv, OneCall, ClientCrash, Go,
     callerVars, clientVars, serverVars
<1>12. ServerReaped'
  BY <1>1, <1>2, <1>3, SessionAssumption, WholeIsPart DEF IInv, ServerReaped, ClientCrash,
     Go, callerVars, clientVars, serverVars
<1>13. CleanShutdown'
  BY <1>1, <1>2, <1>3, SessionAssumption, WholeIsPart DEF IInv, CleanShutdown, ClientCrash,
     Go, callerVars, clientVars, serverVars
<1> QED BY <1>5, <1>6, <1>7, <1>8, <1>9, <1>10, <1>11, <1>12, <1>13 DEF IInv

LEMMA EvaluateStep == ASSUME IInv, NEW q \in Requests, Evaluate(q) PROVE IInv'
<1>1. stdin' = stdin /\ stdout' = stdout
  BY DEF Evaluate, callerVars, clientVars, serverVars
<1>2. In' = In /\ InWhole' = InWhole /\ Ordered(stdin)' = Ordered(stdin)
  BY <1>1, InSame
<1>3. Out' = Out /\ OutWhole' = OutWhole /\ Ordered(stdout)' = Ordered(stdout)
  BY <1>1, OutSame
<1>5. TypeOK'
  BY <1>1, <1>2, <1>3, SessionAssumption, WholeIsPart DEF IInv, TypeOK, Evaluate, Go,
     callerVars, clientVars, serverVars
<1>6. PipesOrdered'
  BY <1>1, <1>2, <1>3, SessionAssumption, WholeIsPart DEF IInv, PipesOrdered, callerVars,
     clientVars, serverVars
<1>7. Opening'
  BY <1>1, <1>2, <1>3, SessionAssumption, WholeIsPart DEF IInv, Opening, Evaluate, Go,
     callerVars, clientVars, serverVars
<1>8. RequestStream'
  BY <1>1, <1>2, <1>3, SessionAssumption, WholeIsPart DEF IInv, RequestStream, Evaluate, Go,
     callerVars, clientVars, serverVars
<1>9. ResultStream'
  BY <1>1, <1>2, <1>3, SessionAssumption, WholeIsPart DEF IInv, ResultStream, Alive,
     Evaluate, Go, callerVars, clientVars, serverVars
<1>10. OnePlace'
  BY <1>1, <1>2, <1>3, SessionAssumption, WholeIsPart DEF IInv, OnePlace, Opening,
     RequestStream, ResultStream, OneCall, ServerReaped, CleanShutdown, Alive, Evaluate, Go,
     callerVars, clientVars, serverVars
<1>11. OneCall'
  BY <1>1, <1>2, <1>3, SessionAssumption, WholeIsPart DEF IInv, OneCall, Evaluate,
     callerVars, clientVars, serverVars
<1>12. ServerReaped'
  BY <1>1, <1>2, <1>3, SessionAssumption, WholeIsPart DEF IInv, ServerReaped, Evaluate, Go,
     callerVars, clientVars, serverVars
<1>13. CleanShutdown'
  BY <1>1, <1>2, <1>3, SessionAssumption, WholeIsPart DEF IInv, CleanShutdown, Evaluate, Go,
     callerVars, clientVars, serverVars
<1> QED BY <1>5, <1>6, <1>7, <1>8, <1>9, <1>10, <1>11, <1>12, <1>13 DEF IInv

LEMMA PrepareStep == ASSUME IInv, Prepare PROVE IInv'
<1>1. CASE model = described
  <2>1. /\ server = "prepare" /\ server' = "header" /\ serving' = described
        /\ UNCHANGED <<model, edits, described, client, request, answers, written,
                        requests, results, trailing, stdin, stdout, replied, output,
                        status>>
    BY <1>1 DEF Prepare, Exit, callerVars, clientVars, serverVars, Exit, Go
  <2>2. TypeOK
    BY DEF IInv
  <2>3. In' = In /\ InWhole' = InWhole /\ Ordered(stdin)' = Ordered(stdin)
    BY <2>1, InSame
  <2>4. Out' = Out /\ OutWhole' = OutWhole /\ Ordered(stdout)' = Ordered(stdout)
    BY <2>1, OutSame
  <2>5. After(output) \in 0 .. Size - 1 /\ After(written) \in 0 .. Size - 1 /\ 0 \in 0 .. Size - 1
    BY <2>2, SessionAssumption DEF TypeOK, After
  <2>6. TypeOK'
    BY <2>1, <2>3, <2>4, <2>5, SessionAssumption, WholeIsPart DEF IInv, TypeOK
  <2>7. PipesOrdered'
    BY <2>3, <2>4, <2>5, SessionAssumption, WholeIsPart DEF IInv, PipesOrdered
  <2>8. Opening'
    BY <2>1, <2>3, <2>4, <2>5, SessionAssumption, WholeIsPart DEF IInv, Opening
  <2>9. RequestStream'
    BY <2>1, <2>3, <2>4, <2>5, SessionAssumption, WholeIsPart DEF IInv, RequestStream
  <2>10. ResultStream'
    BY <2>1, <2>2, <2>3, <2>4, <2>5, SessionAssumption, WholeIsPart DEF IInv, ResultStream,
       Alive
  <2>11. OnePlace'
    BY <2>1, <2>3, <2>4, <2>5, SessionAssumption, WholeIsPart DEF IInv, OnePlace
  <2>12. OneCall'
    BY <2>1, <2>3, <2>4, <2>5, SessionAssumption, WholeIsPart DEF IInv, OneCall
  <2>13. ServerReaped'
    BY <2>1, <2>3, <2>4, <2>5, SessionAssumption, WholeIsPart DEF IInv, ServerReaped
  <2>14. CleanShutdown'
    BY <2>1, <2>3, <2>4, <2>5, SessionAssumption, WholeIsPart DEF IInv, CleanShutdown
  <2> QED BY <2>6, <2>7, <2>8, <2>9, <2>10, <2>11, <2>12, <2>13, <2>14 DEF IInv
<1>2. CASE model # described
  <2>1. /\ server = "prepare" /\ server' = "closed" /\ serving' \in Interfaces
        /\ status' = "failure"
        /\ UNCHANGED <<model, edits, described, client, request, answers, written,
                        requests, results, trailing, stdin, stdout, replied, output>>
    BY <1>2 DEF Prepare, IInv, TypeOK, Exit, callerVars, clientVars, serverVars, Exit, Go
  <2>2. TypeOK
    BY DEF IInv
  <2>3. In' = In /\ InWhole' = InWhole /\ Ordered(stdin)' = Ordered(stdin)
    BY <2>1, InSame
  <2>4. Out' = Out /\ OutWhole' = OutWhole /\ Ordered(stdout)' = Ordered(stdout)
    BY <2>1, OutSame
  <2>5. After(output) \in 0 .. Size - 1 /\ After(written) \in 0 .. Size - 1 /\ 0 \in 0 .. Size - 1
    BY <2>2, SessionAssumption DEF TypeOK, After
  <2>6. TypeOK'
    BY <2>1, <2>3, <2>4, <2>5, SessionAssumption, WholeIsPart DEF IInv, TypeOK
  <2>7. PipesOrdered'
    BY <2>3, <2>4, <2>5, SessionAssumption, WholeIsPart DEF IInv, PipesOrdered
  <2>8. Opening'
    BY <2>1, <2>3, <2>4, <2>5, SessionAssumption, WholeIsPart DEF IInv, Opening
  <2>9. RequestStream'
    BY <2>1, <2>3, <2>4, <2>5, SessionAssumption, WholeIsPart DEF IInv, RequestStream
  <2>10. ResultStream'
    BY <2>1, <2>2, <2>3, <2>4, <2>5, SessionAssumption, WholeIsPart DEF IInv, ResultStream,
       Alive
  <2>11. OnePlace'
    BY <2>1, <2>3, <2>4, <2>5, SessionAssumption, WholeIsPart DEF IInv, OnePlace
  <2>12. OneCall'
    BY <2>1, <2>3, <2>4, <2>5, SessionAssumption, WholeIsPart DEF IInv, OneCall
  <2>13. ServerReaped'
    BY <2>1, <2>3, <2>4, <2>5, SessionAssumption, WholeIsPart DEF IInv, ServerReaped
  <2>14. CleanShutdown'
    BY <2>1, <2>2, <2>3, <2>4, <2>5, SessionAssumption, WholeIsPart DEF IInv, CleanShutdown,
       Opening, RequestStream, ResultStream, OnePlace, OneCall, ServerReaped, Alive
  <2> QED BY <2>6, <2>7, <2>8, <2>9, <2>10, <2>11, <2>12, <2>13, <2>14 DEF IInv
<1> QED BY <1>1, <1>2 DEF Prepare

LEMMA WriteHeaderStep == ASSUME IInv, WriteHeader PROVE IInv'
<1>1. CASE results
  <2>1. /\ server = "header" /\ stdout' = PutChunk(stdout, Header, output)
        /\ Len(stdout) < PipeSize
        /\ output' = After(output)
        /\ server' = IF After(output) = 0 THEN "readHeader" ELSE "header"
        /\ UNCHANGED <<model, edits, described, client, request, answers, written,
                        requests, results, trailing, stdin, serving, replied, status>>
    BY <1>1 DEF WriteHeader, Emit, callerVars, clientVars, serverVars, Exit, Go
  <2>2. TypeOK
    BY DEF IInv
  <2>3. In' = In /\ InWhole' = InWhole /\ Ordered(stdin)' = Ordered(stdin)
    BY <2>1, InSame
  <2>4. /\ Header \in Messages
        /\ stdout' \in Seq(Chunk) /\ Len(stdout') <= PipeSize
        /\ Out' = Out \cup {Header}
        /\ After(output) = 0 => OutWhole' = OutWhole \cup {Header}
        /\ After(output) # 0 => OutWhole' = OutWhole
        /\ Ordered(stdout) /\ Header \notin OutWhole /\ Eos \notin OutWhole /\ (Header = Header => OutWhole = {})
           => Ordered(stdout)'
    <3>1. Header \in Messages
      BY DEF Messages
    <3> QED BY <2>1, <2>2, <3>1, OutPut
  <2>5. After(output) \in 0 .. Size - 1 /\ After(written) \in 0 .. Size - 1 /\ 0 \in 0 .. Size - 1
    BY <2>2, SessionAssumption DEF TypeOK, After
  <2>6. TypeOK'
    BY <2>1, <2>3, <2>4, <2>5, SessionAssumption, WholeIsPart DEF IInv, TypeOK
  <2>7. PipesOrdered'
    BY <2>1, <2>2, <2>3, <2>4, <2>5, SessionAssumption, WholeIsPart DEF IInv, PipesOrdered,
       Opening, RequestStream, ResultStream, OnePlace, OneCall, ServerReaped, CleanShutdown,
       Alive
  <2>8. Opening'
    BY <2>1, <2>3, <2>4, <2>5, SessionAssumption, WholeIsPart DEF IInv, Opening
  <2>9. RequestStream'
    BY <2>1, <2>3, <2>4, <2>5, SessionAssumption, WholeIsPart DEF IInv, RequestStream
  <2>10. ResultStream'
    BY <2>1, <2>2, <2>3, <2>4, <2>5, SessionAssumption, WholeIsPart DEF IInv, ResultStream,
       Alive
  <2>11. OnePlace'
    BY <2>1, <2>2, <2>3, <2>4, <2>5, SessionAssumption, WholeIsPart DEF IInv, OnePlace,
       TypeOK
  <2>12. OneCall'
    BY <2>1, <2>3, <2>4, <2>5, SessionAssumption, WholeIsPart DEF IInv, OneCall
  <2>13. ServerReaped'
    BY <2>1, <2>3, <2>4, <2>5, SessionAssumption, WholeIsPart DEF IInv, ServerReaped
  <2>14. CleanShutdown'
    BY <2>1, <2>2, <2>3, <2>4, <2>5, SessionAssumption, WholeIsPart DEF IInv, CleanShutdown,
       Opening, RequestStream, ResultStream, OnePlace, OneCall, ServerReaped, Alive
  <2> QED BY <2>6, <2>7, <2>8, <2>9, <2>10, <2>11, <2>12, <2>13, <2>14 DEF IInv
<1>2. CASE ~results
  <2>1. /\ server = "header" /\ server' = "closed" /\ status' = "failure"
        /\ UNCHANGED <<model, edits, described, client, request, answers, written,
                        requests, results, trailing, stdin, stdout, serving, replied,
                        output>>
    BY <1>2 DEF WriteHeader, Emit, callerVars, clientVars, serverVars, Exit, Go
  <2>2. TypeOK
    BY DEF IInv
  <2>3. In' = In /\ InWhole' = InWhole /\ Ordered(stdin)' = Ordered(stdin)
    BY <2>1, InSame
  <2>4. Out' = Out /\ OutWhole' = OutWhole /\ Ordered(stdout)' = Ordered(stdout)
    BY <2>1, OutSame
  <2>5. After(output) \in 0 .. Size - 1 /\ After(written) \in 0 .. Size - 1 /\ 0 \in 0 .. Size - 1
    BY <2>2, SessionAssumption DEF TypeOK, After
  <2>6. TypeOK'
    BY <2>1, <2>3, <2>4, <2>5, SessionAssumption, WholeIsPart DEF IInv, TypeOK
  <2>7. PipesOrdered'
    BY <2>3, <2>4, <2>5, SessionAssumption, WholeIsPart DEF IInv, PipesOrdered
  <2>8. Opening'
    BY <2>1, <2>3, <2>4, <2>5, SessionAssumption, WholeIsPart DEF IInv, Opening
  <2>9. RequestStream'
    BY <2>1, <2>3, <2>4, <2>5, SessionAssumption, WholeIsPart DEF IInv, RequestStream
  <2>10. ResultStream'
    BY <2>1, <2>2, <2>3, <2>4, <2>5, SessionAssumption, WholeIsPart DEF IInv, ResultStream,
       Alive
  <2>11. OnePlace'
    BY <2>1, <2>3, <2>4, <2>5, SessionAssumption, WholeIsPart DEF IInv, OnePlace
  <2>12. OneCall'
    BY <2>1, <2>3, <2>4, <2>5, SessionAssumption, WholeIsPart DEF IInv, OneCall
  <2>13. ServerReaped'
    BY <2>1, <2>3, <2>4, <2>5, SessionAssumption, WholeIsPart DEF IInv, ServerReaped
  <2>14. CleanShutdown'
    BY <2>1, <2>2, <2>3, <2>4, <2>5, SessionAssumption, WholeIsPart DEF IInv, CleanShutdown,
       Opening, RequestStream, ResultStream, OnePlace, OneCall, ServerReaped, Alive
  <2> QED BY <2>6, <2>7, <2>8, <2>9, <2>10, <2>11, <2>12, <2>13, <2>14 DEF IInv
<1> QED BY <1>1, <1>2 DEF WriteHeader

LEMMA ReadHeaderStep == ASSUME IInv, ReadHeader PROVE IInv'
<1>1. CASE stdin # <<>>
  <2>1. /\ server = "readHeader" /\ stdin' = Tail(stdin) /\ stdin # <<>>
        /\ server' = IF Head(stdin).last THEN "read" ELSE server
        /\ UNCHANGED <<model, edits, described, client, request, answers, written,
                        requests, results, trailing, stdout, serving, replied, output,
                        status>>
    BY <1>1 DEF ReadHeader, callerVars, clientVars, serverVars, Exit, Go
  <2>2. TypeOK
    BY DEF IInv
  <2>3. /\ Head(stdin).msg \in Messages /\ Head(stdin).last \in BOOLEAN
        /\ Head(stdin).msg \in In /\ (Head(stdin).last => Head(stdin).msg \in InWhole)
        /\ stdin' \in Seq(Chunk) /\ Len(stdin') <= PipeSize
        /\ In' \subseteq In /\ InWhole' \subseteq InWhole
        /\ Ordered(stdin) => Ordered(stdin)'
        /\ Ordered(stdin) /\ Head(stdin).last =>
             /\ Head(stdin).msg \notin In' /\ Header \notin In'
             /\ Head(stdin).msg = Eos => stdin' = <<>>
    BY <2>1, <2>2, InTake
  <2>4. Out' = Out /\ OutWhole' = OutWhole /\ Ordered(stdout)' = Ordered(stdout)
    BY <2>1, OutSame
  <2>5. After(output) \in 0 .. Size - 1 /\ After(written) \in 0 .. Size - 1 /\ 0 \in 0 .. Size - 1
    BY <2>2, SessionAssumption DEF TypeOK, After
  <2>6. TypeOK'
    BY <2>1, <2>3, <2>4, <2>5, SessionAssumption, WholeIsPart DEF IInv, TypeOK
  <2>7. PipesOrdered'
    BY <2>3, <2>4, <2>5, SessionAssumption, WholeIsPart DEF IInv, PipesOrdered
  <2>8. Opening'
    BY <2>1, <2>3, <2>4, <2>5, SessionAssumption, WholeIsPart DEF IInv, Opening
  <2>9. RequestStream'
    BY <2>1, <2>2, <2>3, <2>4, <2>5, SessionAssumption, WholeIsPart DEF IInv, RequestStream,
       PipesOrdered, Opening, ResultStream, OnePlace, OneCall, ServerReaped, CleanShutdown,
       Alive
  <2>10. ResultStream'
    BY <2>1, <2>2, <2>3, <2>4, <2>5, SessionAssumption, WholeIsPart DEF IInv, ResultStream,
       Alive
  <2>11. OnePlace'
    BY <2>1, <2>3, <2>4, <2>5, SessionAssumption, WholeIsPart DEF IInv, OnePlace
  <2>12. OneCall'
    BY <2>1, <2>3, <2>4, <2>5, SessionAssumption, WholeIsPart DEF IInv, OneCall
  <2>13. ServerReaped'
    BY <2>1, <2>3, <2>4, <2>5, SessionAssumption, WholeIsPart DEF IInv, ServerReaped
  <2>14. CleanShutdown'
    BY <2>1, <2>3, <2>4, <2>5, SessionAssumption, WholeIsPart DEF IInv, CleanShutdown
  <2> QED BY <2>6, <2>7, <2>8, <2>9, <2>10, <2>11, <2>12, <2>13, <2>14 DEF IInv
<1>2. CASE stdin = <<>>
  <2>1. /\ server = "readHeader" /\ server' = "closed" /\ status' = "failure"
        /\ UNCHANGED <<model, edits, described, client, request, answers, written,
                        requests, results, trailing, stdin, stdout, serving, replied,
                        output>>
    BY <1>2 DEF ReadHeader, callerVars, clientVars, serverVars, Exit, Go
  <2>2. TypeOK
    BY DEF IInv
  <2>3. In' = In /\ InWhole' = InWhole /\ Ordered(stdin)' = Ordered(stdin)
    BY <2>1, InSame
  <2>4. Out' = Out /\ OutWhole' = OutWhole /\ Ordered(stdout)' = Ordered(stdout)
    BY <2>1, OutSame
  <2>5. After(output) \in 0 .. Size - 1 /\ After(written) \in 0 .. Size - 1 /\ 0 \in 0 .. Size - 1
    BY <2>2, SessionAssumption DEF TypeOK, After
  <2>6. TypeOK'
    BY <2>1, <2>3, <2>4, <2>5, SessionAssumption, WholeIsPart DEF IInv, TypeOK
  <2>7. PipesOrdered'
    BY <2>3, <2>4, <2>5, SessionAssumption, WholeIsPart DEF IInv, PipesOrdered
  <2>8. Opening'
    BY <2>1, <2>3, <2>4, <2>5, SessionAssumption, WholeIsPart DEF IInv, Opening
  <2>9. RequestStream'
    BY <2>1, <2>3, <2>4, <2>5, SessionAssumption, WholeIsPart DEF IInv, RequestStream
  <2>10. ResultStream'
    BY <2>1, <2>2, <2>3, <2>4, <2>5, SessionAssumption, WholeIsPart DEF IInv, ResultStream,
       Alive
  <2>11. OnePlace'
    BY <2>1, <2>3, <2>4, <2>5, SessionAssumption, WholeIsPart DEF IInv, OnePlace
  <2>12. OneCall'
    BY <2>1, <2>3, <2>4, <2>5, SessionAssumption, WholeIsPart DEF IInv, OneCall
  <2>13. ServerReaped'
    BY <2>1, <2>3, <2>4, <2>5, SessionAssumption, WholeIsPart DEF IInv, ServerReaped
  <2>14. CleanShutdown'
    BY <2>1, <2>2, <2>3, <2>4, <2>5, SessionAssumption, WholeIsPart DEF IInv, CleanShutdown,
       Opening, RequestStream, ResultStream, OnePlace, OneCall, ServerReaped, Alive
  <2> QED BY <2>6, <2>7, <2>8, <2>9, <2>10, <2>11, <2>12, <2>13, <2>14 DEF IInv
<1> QED BY <1>1, <1>2 DEF ReadHeader

LEMMA ReadRequestStep == ASSUME IInv, ReadRequest PROVE IInv'
<1>1. CASE stdin # <<>>
  <2>1. /\ server = "read" /\ stdin' = Tail(stdin) /\ stdin # <<>>
        /\ replied' = IF Head(stdin).msg = Eos THEN Nothing ELSE Head(stdin).msg
        /\ ~Head(stdin).last => server' = "read"
        /\ Head(stdin).last => server' = IF Head(stdin).msg = Eos THEN "finish" ELSE "write"
        /\ UNCHANGED <<model, edits, described, client, request, answers, written,
                        requests, results, trailing, stdout, serving, output, status>>
    BY <1>1 DEF ReadRequest, callerVars, clientVars, serverVars, Exit, Go
  <2>2. TypeOK
    BY DEF IInv
  <2>3. /\ Head(stdin).msg \in Messages /\ Head(stdin).last \in BOOLEAN
        /\ Head(stdin).msg \in In /\ (Head(stdin).last => Head(stdin).msg \in InWhole)
        /\ stdin' \in Seq(Chunk) /\ Len(stdin') <= PipeSize
        /\ In' \subseteq In /\ InWhole' \subseteq InWhole
        /\ Ordered(stdin) => Ordered(stdin)'
        /\ Ordered(stdin) /\ Head(stdin).last =>
             /\ Head(stdin).msg \notin In' /\ Header \notin In'
             /\ Head(stdin).msg = Eos => stdin' = <<>>
    BY <2>1, <2>2, InTake
  <2>4. Out' = Out /\ OutWhole' = OutWhole /\ Ordered(stdout)' = Ordered(stdout)
    BY <2>1, OutSame
  <2>5. After(output) \in 0 .. Size - 1 /\ After(written) \in 0 .. Size - 1 /\ 0 \in 0 .. Size - 1
    BY <2>2, SessionAssumption DEF TypeOK, After
  <2>6. Head(stdin).msg \in Requests \cup {Eos} /\ Nothing \notin Requests
    BY <2>1, <2>3, SessionAssumption DEF IInv, RequestStream, Messages
  <2>7. TypeOK'
    BY <2>1, <2>3, <2>4, <2>5, <2>6, SessionAssumption, WholeIsPart DEF IInv, TypeOK
  <2>8. PipesOrdered'
    BY <2>3, <2>4, <2>5, <2>6, SessionAssumption, WholeIsPart DEF IInv, PipesOrdered
  <2>9. Opening'
    BY <2>1, <2>3, <2>4, <2>5, <2>6, SessionAssumption, WholeIsPart DEF IInv, Opening
  <2>10. RequestStream'
    BY <2>1, <2>2, <2>3, <2>4, <2>5, <2>6, SessionAssumption, WholeIsPart DEF IInv,
       RequestStream, PipesOrdered, Opening, ResultStream, OnePlace, OneCall, ServerReaped,
       CleanShutdown, Alive
  <2>11. ResultStream'
    BY <2>1, <2>2, <2>3, <2>4, <2>5, <2>6, SessionAssumption, WholeIsPart DEF IInv,
       ResultStream, Alive
  <2>12. OnePlace'
    BY <2>1, <2>2, <2>3, <2>4, <2>5, <2>6, SessionAssumption, WholeIsPart DEF IInv,
       OnePlace, PipesOrdered, Opening, RequestStream, ResultStream, OneCall, ServerReaped,
       CleanShutdown, Alive
  <2>13. OneCall'
    BY <2>1, <2>3, <2>4, <2>5, <2>6, SessionAssumption, WholeIsPart DEF IInv, OneCall
  <2>14. ServerReaped'
    BY <2>1, <2>3, <2>4, <2>5, <2>6, SessionAssumption, WholeIsPart DEF IInv, ServerReaped
  <2>15. CleanShutdown'
    BY <2>1, <2>3, <2>4, <2>5, <2>6, SessionAssumption, WholeIsPart DEF IInv, CleanShutdown
  <2> QED BY <2>7, <2>8, <2>9, <2>10, <2>11, <2>12, <2>13, <2>14, <2>15 DEF IInv
<1>2. CASE stdin = <<>> /\ replied = Nothing
  <2>1. /\ server = "read" /\ server' = "finish" /\ stdin = <<>> /\ ~requests /\ replied = Nothing
        /\ UNCHANGED <<model, edits, described, client, request, answers, written,
                        requests, results, trailing, stdin, stdout, serving, replied,
                        output, status>>
    BY <1>2 DEF ReadRequest, callerVars, clientVars, serverVars, Exit, Go
  <2>2. TypeOK
    BY DEF IInv
  <2>3. In' = In /\ InWhole' = InWhole /\ Ordered(stdin)' = Ordered(stdin)
    BY <2>1, InSame
  <2>4. Out' = Out /\ OutWhole' = OutWhole /\ Ordered(stdout)' = Ordered(stdout)
    BY <2>1, OutSame
  <2>5. After(output) \in 0 .. Size - 1 /\ After(written) \in 0 .. Size - 1 /\ 0 \in 0 .. Size - 1
    BY <2>2, SessionAssumption DEF TypeOK, After
  <2>6. TypeOK'
    BY <2>1, <2>3, <2>4, <2>5, SessionAssumption, WholeIsPart DEF IInv, TypeOK
  <2>7. PipesOrdered'
    BY <2>3, <2>4, <2>5, SessionAssumption, WholeIsPart DEF IInv, PipesOrdered
  <2>8. Opening'
    BY <2>1, <2>3, <2>4, <2>5, SessionAssumption, WholeIsPart DEF IInv, Opening
  <2>9. RequestStream'
    BY <2>1, <2>3, <2>4, <2>5, SessionAssumption, WholeIsPart DEF IInv, RequestStream
  <2>10. ResultStream'
    BY <2>1, <2>2, <2>3, <2>4, <2>5, SessionAssumption, WholeIsPart DEF IInv, ResultStream,
       Alive
  <2>11. OnePlace'
    BY <2>1, <2>3, <2>4, <2>5, SessionAssumption, WholeIsPart DEF IInv, OnePlace
  <2>12. OneCall'
    BY <2>1, <2>3, <2>4, <2>5, SessionAssumption, WholeIsPart DEF IInv, OneCall
  <2>13. ServerReaped'
    BY <2>1, <2>3, <2>4, <2>5, SessionAssumption, WholeIsPart DEF IInv, ServerReaped
  <2>14. CleanShutdown'
    BY <2>1, <2>3, <2>4, <2>5, SessionAssumption, WholeIsPart DEF IInv, CleanShutdown
  <2> QED BY <2>6, <2>7, <2>8, <2>9, <2>10, <2>11, <2>12, <2>13, <2>14 DEF IInv
<1>3. CASE stdin = <<>> /\ replied # Nothing
  <2>1. /\ server = "read" /\ server' = "closed" /\ status' = "failure"
        /\ UNCHANGED <<model, edits, described, client, request, answers, written,
                        requests, results, trailing, stdin, stdout, serving, replied,
                        output>>
    BY <1>3 DEF ReadRequest, callerVars, clientVars, serverVars, Exit, Go
  <2>2. TypeOK
    BY DEF IInv
  <2>3. In' = In /\ InWhole' = InWhole /\ Ordered(stdin)' = Ordered(stdin)
    BY <2>1, InSame
  <2>4. Out' = Out /\ OutWhole' = OutWhole /\ Ordered(stdout)' = Ordered(stdout)
    BY <2>1, OutSame
  <2>5. After(output) \in 0 .. Size - 1 /\ After(written) \in 0 .. Size - 1 /\ 0 \in 0 .. Size - 1
    BY <2>2, SessionAssumption DEF TypeOK, After
  <2>6. TypeOK'
    BY <2>1, <2>3, <2>4, <2>5, SessionAssumption, WholeIsPart DEF IInv, TypeOK
  <2>7. PipesOrdered'
    BY <2>3, <2>4, <2>5, SessionAssumption, WholeIsPart DEF IInv, PipesOrdered
  <2>8. Opening'
    BY <2>1, <2>3, <2>4, <2>5, SessionAssumption, WholeIsPart DEF IInv, Opening
  <2>9. RequestStream'
    BY <2>1, <2>3, <2>4, <2>5, SessionAssumption, WholeIsPart DEF IInv, RequestStream
  <2>10. ResultStream'
    BY <2>1, <2>2, <2>3, <2>4, <2>5, SessionAssumption, WholeIsPart DEF IInv, ResultStream,
       Alive
  <2>11. OnePlace'
    BY <2>1, <2>3, <2>4, <2>5, SessionAssumption, WholeIsPart DEF IInv, OnePlace
  <2>12. OneCall'
    BY <2>1, <2>3, <2>4, <2>5, SessionAssumption, WholeIsPart DEF IInv, OneCall
  <2>13. ServerReaped'
    BY <2>1, <2>3, <2>4, <2>5, SessionAssumption, WholeIsPart DEF IInv, ServerReaped
  <2>14. CleanShutdown'
    BY <2>1, <2>2, <2>3, <2>4, <2>5, SessionAssumption, WholeIsPart DEF IInv, CleanShutdown,
       Opening, RequestStream, ResultStream, OnePlace, OneCall, ServerReaped, Alive
  <2> QED BY <2>6, <2>7, <2>8, <2>9, <2>10, <2>11, <2>12, <2>13, <2>14 DEF IInv
<1> QED BY <1>1, <1>2, <1>3 DEF ReadRequest

LEMMA WriteResultStep == ASSUME IInv, WriteResult PROVE IInv'
<1>1. CASE results
  <2>1. /\ server = "write" /\ stdout' = PutChunk(stdout, replied, output)
        /\ Len(stdout) < PipeSize
        /\ output' = After(output)
        /\ server' = IF After(output) = 0 THEN "read" ELSE "write"
        /\ replied' = IF After(output) = 0 THEN Nothing ELSE replied
        /\ UNCHANGED <<model, edits, described, client, request, answers, written,
                        requests, results, trailing, stdin, serving, status>>
    BY <1>1 DEF WriteResult, Emit, callerVars, clientVars, serverVars, Exit, Go
  <2>2. TypeOK
    BY DEF IInv
  <2>3. In' = In /\ InWhole' = InWhole /\ Ordered(stdin)' = Ordered(stdin)
    BY <2>1, InSame
  <2>4. /\ replied \in Messages
        /\ stdout' \in Seq(Chunk) /\ Len(stdout') <= PipeSize
        /\ Out' = Out \cup {replied}
        /\ After(output) = 0 => OutWhole' = OutWhole \cup {replied}
        /\ After(output) # 0 => OutWhole' = OutWhole
        /\ Ordered(stdout) /\ replied \notin OutWhole /\ Eos \notin OutWhole /\ (replied = Header => OutWhole = {})
           => Ordered(stdout)'
    <3>1. replied \in Messages
      BY <2>1 DEF Messages, IInv, ResultStream, OneCall
    <3> QED BY <2>1, <2>2, <3>1, OutPut
  <2>5. After(output) \in 0 .. Size - 1 /\ After(written) \in 0 .. Size - 1 /\ 0 \in 0 .. Size - 1
    BY <2>2, SessionAssumption DEF TypeOK, After
  <2>6. TypeOK'
    BY <2>1, <2>3, <2>4, <2>5, SessionAssumption, WholeIsPart DEF IInv, TypeOK
  <2>7. PipesOrdered'
    BY <2>1, <2>2, <2>3, <2>4, <2>5, SessionAssumption, WholeIsPart DEF IInv, PipesOrdered,
       Opening, RequestStream, ResultStream, OnePlace, OneCall, ServerReaped, CleanShutdown,
       Alive
  <2>8. Opening'
    BY <2>1, <2>3, <2>4, <2>5, SessionAssumption, WholeIsPart DEF IInv, Opening
  <2>9. RequestStream'
    BY <2>1, <2>3, <2>4, <2>5, SessionAssumption, WholeIsPart DEF IInv, RequestStream
  <2>10. ResultStream'
    BY <2>1, <2>2, <2>3, <2>4, <2>5, SessionAssumption, WholeIsPart DEF IInv, ResultStream,
       Alive
  <2>11. OnePlace'
    BY <2>1, <2>3, <2>4, <2>5, SessionAssumption, WholeIsPart DEF IInv, OnePlace
  <2>12. OneCall'
    BY <2>1, <2>3, <2>4, <2>5, SessionAssumption, WholeIsPart DEF IInv, OneCall
  <2>13. ServerReaped'
    BY <2>1, <2>3, <2>4, <2>5, SessionAssumption, WholeIsPart DEF IInv, ServerReaped
  <2>14. CleanShutdown'
    BY <2>1, <2>3, <2>4, <2>5, SessionAssumption, WholeIsPart DEF IInv, CleanShutdown
  <2> QED BY <2>6, <2>7, <2>8, <2>9, <2>10, <2>11, <2>12, <2>13, <2>14 DEF IInv
<1>2. CASE ~results
  <2>1. /\ server = "write" /\ server' = "closed" /\ status' = "failure" /\ replied' = Nothing
        /\ UNCHANGED <<model, edits, described, client, request, answers, written,
                        requests, results, trailing, stdin, stdout, serving, output>>
    BY <1>2 DEF WriteResult, Emit, callerVars, clientVars, serverVars, Exit, Go
  <2>2. TypeOK
    BY DEF IInv
  <2>3. In' = In /\ InWhole' = InWhole /\ Ordered(stdin)' = Ordered(stdin)
    BY <2>1, InSame
  <2>4. Out' = Out /\ OutWhole' = OutWhole /\ Ordered(stdout)' = Ordered(stdout)
    BY <2>1, OutSame
  <2>5. After(output) \in 0 .. Size - 1 /\ After(written) \in 0 .. Size - 1 /\ 0 \in 0 .. Size - 1
    BY <2>2, SessionAssumption DEF TypeOK, After
  <2>6. TypeOK'
    BY <2>1, <2>3, <2>4, <2>5, SessionAssumption, WholeIsPart DEF IInv, TypeOK
  <2>7. PipesOrdered'
    BY <2>3, <2>4, <2>5, SessionAssumption, WholeIsPart DEF IInv, PipesOrdered
  <2>8. Opening'
    BY <2>1, <2>3, <2>4, <2>5, SessionAssumption, WholeIsPart DEF IInv, Opening
  <2>9. RequestStream'
    BY <2>1, <2>3, <2>4, <2>5, SessionAssumption, WholeIsPart DEF IInv, RequestStream
  <2>10. ResultStream'
    BY <2>1, <2>2, <2>3, <2>4, <2>5, SessionAssumption, WholeIsPart DEF IInv, ResultStream,
       Alive
  <2>11. OnePlace'
    BY <2>1, <2>3, <2>4, <2>5, SessionAssumption, WholeIsPart DEF IInv, OnePlace
  <2>12. OneCall'
    BY <2>1, <2>3, <2>4, <2>5, SessionAssumption, WholeIsPart DEF IInv, OneCall
  <2>13. ServerReaped'
    BY <2>1, <2>3, <2>4, <2>5, SessionAssumption, WholeIsPart DEF IInv, ServerReaped
  <2>14. CleanShutdown'
    BY <2>1, <2>2, <2>3, <2>4, <2>5, SessionAssumption, WholeIsPart DEF IInv, CleanShutdown,
       Opening, RequestStream, ResultStream, OnePlace, OneCall, ServerReaped, Alive
  <2> QED BY <2>6, <2>7, <2>8, <2>9, <2>10, <2>11, <2>12, <2>13, <2>14 DEF IInv
<1> QED BY <1>1, <1>2 DEF WriteResult

LEMMA FinishResultsStep == ASSUME IInv, FinishResults PROVE IInv'
<1>1. CASE results
  <2>1. /\ server = "finish" /\ stdout' = PutChunk(stdout, Eos, output)
        /\ Len(stdout) < PipeSize
        /\ output' = After(output)
        /\ server' = IF After(output) = 0 THEN "closed" ELSE "finish"
        /\ status' = IF After(output) = 0 THEN "success" ELSE status
        /\ UNCHANGED <<model, edits, described, client, request, answers, written,
                        requests, results, trailing, stdin, serving, replied>>
    BY <1>1 DEF FinishResults, Emit, callerVars, clientVars, serverVars, Exit, Go
  <2>2. TypeOK
    BY DEF IInv
  <2>3. In' = In /\ InWhole' = InWhole /\ Ordered(stdin)' = Ordered(stdin)
    BY <2>1, InSame
  <2>4. /\ Eos \in Messages
        /\ stdout' \in Seq(Chunk) /\ Len(stdout') <= PipeSize
        /\ Out' = Out \cup {Eos}
        /\ After(output) = 0 => OutWhole' = OutWhole \cup {Eos}
        /\ After(output) # 0 => OutWhole' = OutWhole
        /\ Ordered(stdout) /\ Eos \notin OutWhole /\ Eos \notin OutWhole /\ (Eos = Header => OutWhole = {})
           => Ordered(stdout)'
    <3>1. Eos \in Messages
      BY DEF Messages
    <3> QED BY <2>1, <2>2, <3>1, OutPut
  <2>5. After(output) \in 0 .. Size - 1 /\ After(written) \in 0 .. Size - 1 /\ 0 \in 0 .. Size - 1
    BY <2>2, SessionAssumption DEF TypeOK, After
  <2>6. TypeOK'
    BY <2>1, <2>3, <2>4, <2>5, SessionAssumption, WholeIsPart DEF IInv, TypeOK
  <2>7. PipesOrdered'
    BY <2>1, <2>2, <2>3, <2>4, <2>5, SessionAssumption, WholeIsPart DEF IInv, PipesOrdered,
       Opening, RequestStream, ResultStream, OnePlace, OneCall, ServerReaped, CleanShutdown,
       Alive
  <2>8. Opening'
    BY <2>1, <2>3, <2>4, <2>5, SessionAssumption, WholeIsPart DEF IInv, Opening
  <2>9. RequestStream'
    BY <2>1, <2>3, <2>4, <2>5, SessionAssumption, WholeIsPart DEF IInv, RequestStream
  <2>10. ResultStream'
    BY <2>1, <2>2, <2>3, <2>4, <2>5, SessionAssumption, WholeIsPart DEF IInv, ResultStream,
       Alive
  <2>11. OnePlace'
    BY <2>1, <2>2, <2>3, <2>4, <2>5, SessionAssumption, WholeIsPart DEF IInv, OnePlace,
       TypeOK
  <2>12. OneCall'
    BY <2>1, <2>3, <2>4, <2>5, SessionAssumption, WholeIsPart DEF IInv, OneCall
  <2>13. ServerReaped'
    BY <2>1, <2>3, <2>4, <2>5, SessionAssumption, WholeIsPart DEF IInv, ServerReaped
  <2>14. CleanShutdown'
    BY <2>1, <2>2, <2>3, <2>4, <2>5, SessionAssumption, WholeIsPart DEF IInv, CleanShutdown,
       Opening, RequestStream, ResultStream, OnePlace, OneCall, ServerReaped, Alive
  <2> QED BY <2>6, <2>7, <2>8, <2>9, <2>10, <2>11, <2>12, <2>13, <2>14 DEF IInv
<1>2. CASE ~results
  <2>1. /\ server = "finish" /\ server' = "closed" /\ status' = "failure"
        /\ UNCHANGED <<model, edits, described, client, request, answers, written,
                        requests, results, trailing, stdin, stdout, serving, replied,
                        output>>
    BY <1>2 DEF FinishResults, Emit, callerVars, clientVars, serverVars, Exit, Go
  <2>2. TypeOK
    BY DEF IInv
  <2>3. In' = In /\ InWhole' = InWhole /\ Ordered(stdin)' = Ordered(stdin)
    BY <2>1, InSame
  <2>4. Out' = Out /\ OutWhole' = OutWhole /\ Ordered(stdout)' = Ordered(stdout)
    BY <2>1, OutSame
  <2>5. After(output) \in 0 .. Size - 1 /\ After(written) \in 0 .. Size - 1 /\ 0 \in 0 .. Size - 1
    BY <2>2, SessionAssumption DEF TypeOK, After
  <2>6. TypeOK'
    BY <2>1, <2>3, <2>4, <2>5, SessionAssumption, WholeIsPart DEF IInv, TypeOK
  <2>7. PipesOrdered'
    BY <2>3, <2>4, <2>5, SessionAssumption, WholeIsPart DEF IInv, PipesOrdered
  <2>8. Opening'
    BY <2>1, <2>3, <2>4, <2>5, SessionAssumption, WholeIsPart DEF IInv, Opening
  <2>9. RequestStream'
    BY <2>1, <2>3, <2>4, <2>5, SessionAssumption, WholeIsPart DEF IInv, RequestStream
  <2>10. ResultStream'
    BY <2>1, <2>2, <2>3, <2>4, <2>5, SessionAssumption, WholeIsPart DEF IInv, ResultStream,
       Alive
  <2>11. OnePlace'
    BY <2>1, <2>3, <2>4, <2>5, SessionAssumption, WholeIsPart DEF IInv, OnePlace
  <2>12. OneCall'
    BY <2>1, <2>3, <2>4, <2>5, SessionAssumption, WholeIsPart DEF IInv, OneCall
  <2>13. ServerReaped'
    BY <2>1, <2>3, <2>4, <2>5, SessionAssumption, WholeIsPart DEF IInv, ServerReaped
  <2>14. CleanShutdown'
    BY <2>1, <2>2, <2>3, <2>4, <2>5, SessionAssumption, WholeIsPart DEF IInv, CleanShutdown,
       Opening, RequestStream, ResultStream, OnePlace, OneCall, ServerReaped, Alive
  <2> QED BY <2>6, <2>7, <2>8, <2>9, <2>10, <2>11, <2>12, <2>13, <2>14 DEF IInv
<1> QED BY <1>1, <1>2 DEF FinishResults

LEMMA SpawnStep == ASSUME IInv, Spawn PROVE IInv'
<1>1. CASE server' = "prepare"
  <2>1. /\ client = "described" /\ client' = "openRead" /\ server' = "prepare"
        /\ requests' = TRUE /\ results' = TRUE
        /\ UNCHANGED <<model, edits, described, request, answers, written, trailing,
                        stdin, stdout, serving, replied, output, status>>
    BY <1>1 DEF Spawn, Go, IInv, Opening, callerVars, clientVars, serverVars, Alive, Exit,
       Go
  <2>2. TypeOK
    BY DEF IInv
  <2>3. In' = In /\ InWhole' = InWhole /\ Ordered(stdin)' = Ordered(stdin)
    BY <2>1, InSame
  <2>4. Out' = Out /\ OutWhole' = OutWhole /\ Ordered(stdout)' = Ordered(stdout)
    BY <2>1, OutSame
  <2>5. After(output) \in 0 .. Size - 1 /\ After(written) \in 0 .. Size - 1 /\ 0 \in 0 .. Size - 1
    BY <2>2, SessionAssumption DEF TypeOK, After
  <2>6. TypeOK'
    BY <2>1, <2>3, <2>4, <2>5, SessionAssumption, WholeIsPart DEF IInv, TypeOK
  <2>7. PipesOrdered'
    BY <2>3, <2>4, <2>5, SessionAssumption, WholeIsPart DEF IInv, PipesOrdered
  <2>8. Opening'
    BY <2>1, <2>3, <2>4, <2>5, SessionAssumption, WholeIsPart DEF IInv, Opening
  <2>9. RequestStream'
    BY <2>1, <2>2, <2>3, <2>4, <2>5, SessionAssumption, WholeIsPart DEF IInv, RequestStream,
       Opening, ResultStream, OnePlace, OneCall, ServerReaped, CleanShutdown, Alive
  <2>10. ResultStream'
    BY <2>1, <2>2, <2>3, <2>4, <2>5, SessionAssumption, WholeIsPart DEF IInv, ResultStream,
       Opening, RequestStream, OnePlace, OneCall, ServerReaped, CleanShutdown, Alive
  <2>11. OnePlace'
    BY <2>1, <2>3, <2>4, <2>5, SessionAssumption, WholeIsPart DEF IInv, OnePlace
  <2>12. OneCall'
    BY <2>1, <2>3, <2>4, <2>5, SessionAssumption, WholeIsPart DEF IInv, OneCall
  <2>13. ServerReaped'
    BY <2>1, <2>3, <2>4, <2>5, SessionAssumption, WholeIsPart DEF IInv, ServerReaped
  <2>14. CleanShutdown'
    BY <2>1, <2>3, <2>4, <2>5, SessionAssumption, WholeIsPart DEF IInv, CleanShutdown
  <2> QED BY <2>6, <2>7, <2>8, <2>9, <2>10, <2>11, <2>12, <2>13, <2>14 DEF IInv
<1>2. CASE server' # "prepare"
  <2>1. /\ client = "described" /\ client' = "failed"
        /\ UNCHANGED <<model, edits, described, request, answers, written, requests,
                        results, trailing, stdin, stdout, server, serving, replied,
                        output, status>>
    BY <1>2 DEF Spawn, Go, callerVars, clientVars, serverVars, Exit, Go
  <2>2. TypeOK
    BY DEF IInv
  <2>3. In' = In /\ InWhole' = InWhole /\ Ordered(stdin)' = Ordered(stdin)
    BY <2>1, InSame
  <2>4. Out' = Out /\ OutWhole' = OutWhole /\ Ordered(stdout)' = Ordered(stdout)
    BY <2>1, OutSame
  <2>5. After(output) \in 0 .. Size - 1 /\ After(written) \in 0 .. Size - 1 /\ 0 \in 0 .. Size - 1
    BY <2>2, SessionAssumption DEF TypeOK, After
  <2>6. TypeOK'
    BY <2>1, <2>3, <2>4, <2>5, SessionAssumption, WholeIsPart DEF IInv, TypeOK
  <2>7. PipesOrdered'
    BY <2>3, <2>4, <2>5, SessionAssumption, WholeIsPart DEF IInv, PipesOrdered
  <2>8. Opening'
    BY <2>1, <2>3, <2>4, <2>5, SessionAssumption, WholeIsPart DEF IInv, Opening
  <2>9. RequestStream'
    BY <2>1, <2>3, <2>4, <2>5, SessionAssumption, WholeIsPart DEF IInv, RequestStream
  <2>10. ResultStream'
    BY <2>1, <2>2, <2>3, <2>4, <2>5, SessionAssumption, WholeIsPart DEF IInv, ResultStream,
       Alive
  <2>11. OnePlace'
    BY <2>1, <2>3, <2>4, <2>5, SessionAssumption, WholeIsPart DEF IInv, OnePlace
  <2>12. OneCall'
    BY <2>1, <2>3, <2>4, <2>5, SessionAssumption, WholeIsPart DEF IInv, OneCall
  <2>13. ServerReaped'
    BY <2>1, <2>2, <2>3, <2>4, <2>5, SessionAssumption, WholeIsPart DEF IInv, ServerReaped,
       Opening
  <2>14. CleanShutdown'
    BY <2>1, <2>3, <2>4, <2>5, SessionAssumption, WholeIsPart DEF IInv, CleanShutdown
  <2> QED BY <2>6, <2>7, <2>8, <2>9, <2>10, <2>11, <2>12, <2>13, <2>14 DEF IInv
<1> QED BY <1>1, <1>2 DEF Spawn

LEMMA OpenReadStep == ASSUME IInv, OpenRead PROVE IInv'
<1>1. CASE stdout # <<>>
  <2>1. /\ client = "openRead" /\ stdout' = Tail(stdout) /\ stdout # <<>>
        /\ \/ /\ client' = IF Head(stdout).last THEN "openWrite" ELSE "openRead"
              /\ requests' = requests /\ results' = results
           \/ client' = "openFailed" /\ requests' = FALSE /\ results' = FALSE
        /\ UNCHANGED <<model, edits, described, request, answers, written, trailing,
                        stdin, server, serving, replied, output, status>>
    BY <1>1 DEF OpenRead, OpenFails, callerVars, clientVars, serverVars, Exit, Go
  <2>2. TypeOK
    BY DEF IInv
  <2>3. In' = In /\ InWhole' = InWhole /\ Ordered(stdin)' = Ordered(stdin)
    BY <2>1, InSame
  <2>4. /\ Head(stdout).msg \in Messages /\ Head(stdout).last \in BOOLEAN
        /\ Head(stdout).msg \in Out /\ (Head(stdout).last => Head(stdout).msg \in OutWhole)
        /\ stdout' \in Seq(Chunk) /\ Len(stdout') <= PipeSize
        /\ Out' \subseteq Out /\ OutWhole' \subseteq OutWhole
        /\ Ordered(stdout) => Ordered(stdout)'
        /\ Ordered(stdout) /\ Head(stdout).last =>
             /\ Head(stdout).msg \notin Out' /\ Header \notin Out'
             /\ Head(stdout).msg = Eos => stdout' = <<>>
    BY <2>1, <2>2, OutTake
  <2>5. After(output) \in 0 .. Size - 1 /\ After(written) \in 0 .. Size - 1 /\ 0 \in 0 .. Size - 1
    BY <2>2, SessionAssumption DEF TypeOK, After
  <2>6. In = {} /\ InWhole = {} /\ server \notin {"read", "write", "finish"} /\ requests
    BY <2>1, WholeIsPart DEF IInv, RequestStream
  <2>7. TypeOK'
    BY <2>1, <2>2, <2>3, <2>4, <2>5, <2>6, SessionAssumption, WholeIsPart, ZenonT(60) DEF IInv, TypeOK
  <2>8. PipesOrdered'
    BY <2>3, <2>4, <2>5, <2>6, SessionAssumption, WholeIsPart DEF IInv, PipesOrdered
  <2>9. Opening'
    BY <2>1, <2>3, <2>4, <2>5, <2>6, SessionAssumption, WholeIsPart DEF IInv, Opening
  <2>10. RequestStream'
    BY <2>1, <2>3, <2>4, <2>5, <2>6, SessionAssumption, WholeIsPart DEF IInv, RequestStream
  <2>11. ResultStream'
    BY <2>1, <2>2, <2>3, <2>4, <2>5, <2>6, SessionAssumption, WholeIsPart DEF IInv,
       ResultStream, Alive
  <2>12. OnePlace'
    BY <2>1, <2>3, <2>4, <2>5, <2>6, SessionAssumption, WholeIsPart DEF IInv, OnePlace
  <2>13. OneCall'
    BY <2>1, <2>3, <2>4, <2>5, <2>6, SessionAssumption, WholeIsPart DEF IInv, OneCall
  <2>14. ServerReaped'
    BY <2>1, <2>3, <2>4, <2>5, <2>6, SessionAssumption, WholeIsPart DEF IInv, ServerReaped
  <2>15. CleanShutdown'
    BY <2>1, <2>3, <2>4, <2>5, <2>6, SessionAssumption, WholeIsPart DEF IInv, CleanShutdown
  <2> QED BY <2>7, <2>8, <2>9, <2>10, <2>11, <2>12, <2>13, <2>14, <2>15 DEF IInv
<1>2. CASE stdout = <<>>
  <2>1. /\ client = "openRead" /\ client' = "openFailed" /\ ~Alive
        /\ requests' = FALSE /\ results' = FALSE
        /\ UNCHANGED <<model, edits, described, request, answers, written, trailing,
                        stdin, stdout, server, serving, replied, output, status>>
    BY <1>2 DEF OpenRead, OpenFails, callerVars, clientVars, serverVars, Exit, Go
  <2>2. TypeOK
    BY DEF IInv
  <2>3. In' = In /\ InWhole' = InWhole /\ Ordered(stdin)' = Ordered(stdin)
    BY <2>1, InSame
  <2>4. Out' = Out /\ OutWhole' = OutWhole /\ Ordered(stdout)' = Ordered(stdout)
    BY <2>1, OutSame
  <2>5. After(output) \in 0 .. Size - 1 /\ After(written) \in 0 .. Size - 1 /\ 0 \in 0 .. Size - 1
    BY <2>2, SessionAssumption DEF TypeOK, After
  <2>6. TypeOK'
    BY <2>1, <2>3, <2>4, <2>5, SessionAssumption, WholeIsPart DEF IInv, TypeOK
  <2>7. PipesOrdered'
    BY <2>3, <2>4, <2>5, SessionAssumption, WholeIsPart DEF IInv, PipesOrdered
  <2>8. Opening'
    BY <2>1, <2>2, <2>3, <2>4, <2>5, SessionAssumption, WholeIsPart DEF IInv, Opening, Alive
  <2>9. RequestStream'
    BY <2>1, <2>3, <2>4, <2>5, SessionAssumption, WholeIsPart DEF IInv, RequestStream
  <2>10. ResultStream'
    BY <2>1, <2>2, <2>3, <2>4, <2>5, SessionAssumption, WholeIsPart DEF IInv, ResultStream,
       Alive
  <2>11. OnePlace'
    BY <2>1, <2>3, <2>4, <2>5, SessionAssumption, WholeIsPart DEF IInv, OnePlace
  <2>12. OneCall'
    BY <2>1, <2>3, <2>4, <2>5, SessionAssumption, WholeIsPart DEF IInv, OneCall
  <2>13. ServerReaped'
    BY <2>1, <2>3, <2>4, <2>5, SessionAssumption, WholeIsPart DEF IInv, ServerReaped
  <2>14. CleanShutdown'
    BY <2>1, <2>3, <2>4, <2>5, SessionAssumption, WholeIsPart DEF IInv, CleanShutdown
  <2> QED BY <2>6, <2>7, <2>8, <2>9, <2>10, <2>11, <2>12, <2>13, <2>14 DEF IInv
<1> QED BY <1>1, <1>2 DEF OpenRead

LEMMA OpenWriteStep == ASSUME IInv, OpenWrite PROVE IInv'
<1>1. CASE Alive
  <2>1. /\ client = "openWrite" /\ Alive /\ stdin' = PutChunk(stdin, Header, written)
        /\ Len(stdin) < PipeSize /\ written' = After(written)
        /\ client' = IF After(written) = 0 THEN "ready" ELSE "openWrite"
        /\ UNCHANGED <<model, edits, described, request, answers, requests, results,
                        trailing, stdout, server, serving, replied, output, status>>
    BY <1>1 DEF OpenWrite, Send, callerVars, clientVars, serverVars, Exit, Go
  <2>2. TypeOK
    BY DEF IInv
  <2>3. /\ Header \in Messages
        /\ stdin' \in Seq(Chunk) /\ Len(stdin') <= PipeSize
        /\ In' = In \cup {Header}
        /\ After(written) = 0 => InWhole' = InWhole \cup {Header}
        /\ After(written) # 0 => InWhole' = InWhole
        /\ Ordered(stdin) /\ Header \notin InWhole /\ Eos \notin InWhole /\ (Header = Header => InWhole = {})
           => Ordered(stdin)'
    <3>1. Header \in Messages
      BY DEF Messages
    <3> QED BY <2>1, <2>2, <3>1, InPut
  <2>4. Out' = Out /\ OutWhole' = OutWhole /\ Ordered(stdout)' = Ordered(stdout)
    BY <2>1, OutSame
  <2>5. After(output) \in 0 .. Size - 1 /\ After(written) \in 0 .. Size - 1 /\ 0 \in 0 .. Size - 1
    BY <2>2, SessionAssumption DEF TypeOK, After
  <2>6. TypeOK'
    BY <2>1, <2>3, <2>4, <2>5, SessionAssumption, WholeIsPart DEF IInv, TypeOK
  <2>7. PipesOrdered'
    BY <2>1, <2>2, <2>3, <2>4, <2>5, SessionAssumption, WholeIsPart DEF IInv, PipesOrdered,
       Opening, RequestStream, ResultStream, OnePlace, OneCall, ServerReaped, CleanShutdown,
       Alive
  <2>8. Opening'
    BY <2>1, <2>3, <2>4, <2>5, SessionAssumption, WholeIsPart DEF IInv, Opening
  <2>9. RequestStream'
    BY <2>1, <2>3, <2>4, <2>5, SessionAssumption, WholeIsPart DEF IInv, RequestStream
  <2>10. ResultStream'
    BY <2>1, <2>3, <2>4, <2>5, SessionAssumption, WholeIsPart DEF IInv, ResultStream
  <2>11. OnePlace'
    BY <2>1, <2>3, <2>4, <2>5, SessionAssumption, WholeIsPart DEF IInv, OnePlace
  <2>12. OneCall'
    BY <2>1, <2>3, <2>4, <2>5, SessionAssumption, WholeIsPart DEF IInv, OneCall
  <2>13. ServerReaped'
    BY <2>1, <2>3, <2>4, <2>5, SessionAssumption, WholeIsPart DEF IInv, ServerReaped
  <2>14. CleanShutdown'
    BY <2>1, <2>3, <2>4, <2>5, SessionAssumption, WholeIsPart DEF IInv, CleanShutdown
  <2> QED BY <2>6, <2>7, <2>8, <2>9, <2>10, <2>11, <2>12, <2>13, <2>14 DEF IInv
<1>2. CASE ~Alive
  <2>1. /\ client = "openWrite" /\ ~Alive /\ client' = "openFailed" /\ written' = 0
        /\ requests' = FALSE /\ results' = FALSE
        /\ UNCHANGED <<model, edits, described, request, answers, trailing, stdin,
                        stdout, server, serving, replied, output, status>>
    BY <1>2 DEF OpenWrite, Send, OpenFails, callerVars, clientVars, serverVars, Exit, Go
  <2>2. TypeOK
    BY DEF IInv
  <2>3. In' = In /\ InWhole' = InWhole /\ Ordered(stdin)' = Ordered(stdin)
    BY <2>1, InSame
  <2>4. Out' = Out /\ OutWhole' = OutWhole /\ Ordered(stdout)' = Ordered(stdout)
    BY <2>1, OutSame
  <2>5. After(output) \in 0 .. Size - 1 /\ After(written) \in 0 .. Size - 1 /\ 0 \in 0 .. Size - 1
    BY <2>2, SessionAssumption DEF TypeOK, After
  <2>6. TypeOK'
    BY <2>1, <2>3, <2>4, <2>5, SessionAssumption, WholeIsPart DEF IInv, TypeOK
  <2>7. PipesOrdered'
    BY <2>3, <2>4, <2>5, SessionAssumption, WholeIsPart DEF IInv, PipesOrdered
  <2>8. Opening'
    BY <2>1, <2>3, <2>4, <2>5, SessionAssumption, WholeIsPart DEF IInv, Opening
  <2>9. RequestStream'
    BY <2>1, <2>3, <2>4, <2>5, SessionAssumption, WholeIsPart DEF IInv, RequestStream
  <2>10. ResultStream'
    BY <2>1, <2>2, <2>3, <2>4, <2>5, SessionAssumption, WholeIsPart DEF IInv, ResultStream,
       Alive
  <2>11. OnePlace'
    BY <2>1, <2>3, <2>4, <2>5, SessionAssumption, WholeIsPart DEF IInv, OnePlace
  <2>12. OneCall'
    BY <2>1, <2>3, <2>4, <2>5, SessionAssumption, WholeIsPart DEF IInv, OneCall
  <2>13. ServerReaped'
    BY <2>1, <2>3, <2>4, <2>5, SessionAssumption, WholeIsPart DEF IInv, ServerReaped
  <2>14. CleanShutdown'
    BY <2>1, <2>3, <2>4, <2>5, SessionAssumption, WholeIsPart DEF IInv, CleanShutdown
  <2> QED BY <2>6, <2>7, <2>8, <2>9, <2>10, <2>11, <2>12, <2>13, <2>14 DEF IInv
<1> QED BY <1>1, <1>2 DEF OpenWrite

LEMMA WriteRequestStep == ASSUME IInv, WriteRequest PROVE IInv'
<1>1. CASE Alive
  <2>1. /\ client = "send" /\ Alive /\ stdin' = PutChunk(stdin, request, written)
        /\ Len(stdin) < PipeSize /\ written' = After(written)
        /\ client' = IF After(written) = 0 THEN "receive" ELSE "send"
        /\ UNCHANGED <<model, edits, described, request, answers, requests, results,
                        trailing, stdout, server, serving, replied, output, status>>
    BY <1>1 DEF WriteRequest, Send, callerVars, clientVars, serverVars, Exit, Go
  <2>2. TypeOK
    BY DEF IInv
  <2>3. /\ request \in Messages
        /\ stdin' \in Seq(Chunk) /\ Len(stdin') <= PipeSize
        /\ In' = In \cup {request}
        /\ After(written) = 0 => InWhole' = InWhole \cup {request}
        /\ After(written) # 0 => InWhole' = InWhole
        /\ Ordered(stdin) /\ request \notin InWhole /\ Eos \notin InWhole /\ (request = Header => InWhole = {})
           => Ordered(stdin)'
    <3>1. request \in Messages
      BY <2>1 DEF Messages, IInv, OneCall
    <3> QED BY <2>1, <2>2, <3>1, InPut
  <2>4. Out' = Out /\ OutWhole' = OutWhole /\ Ordered(stdout)' = Ordered(stdout)
    BY <2>1, OutSame
  <2>5. After(output) \in 0 .. Size - 1 /\ After(written) \in 0 .. Size - 1 /\ 0 \in 0 .. Size - 1
    BY <2>2, SessionAssumption DEF TypeOK, After
  <2>6. TypeOK'
    BY <2>1, <2>3, <2>4, <2>5, SessionAssumption, WholeIsPart DEF IInv, TypeOK
  <2>7. PipesOrdered'
    BY <2>1, <2>2, <2>3, <2>4, <2>5, SessionAssumption, WholeIsPart DEF IInv, PipesOrdered,
       Opening, RequestStream, ResultStream, OnePlace, OneCall, ServerReaped, CleanShutdown,
       Alive
  <2>8. Opening'
    BY <2>1, <2>3, <2>4, <2>5, SessionAssumption, WholeIsPart DEF IInv, Opening
  <2>9. RequestStream'
    BY <2>1, <2>2, <2>3, <2>4, <2>5, SessionAssumption, WholeIsPart DEF IInv, RequestStream,
       TypeOK
  <2>10. ResultStream'
    BY <2>1, <2>3, <2>4, <2>5, SessionAssumption, WholeIsPart DEF IInv, ResultStream
  <2>11. OnePlace'
    BY <2>1, <2>3, <2>4, <2>5, SessionAssumption, WholeIsPart DEF IInv, OnePlace
  <2>12. OneCall'
    BY <2>1, <2>3, <2>4, <2>5, SessionAssumption, WholeIsPart DEF IInv, OneCall
  <2>13. ServerReaped'
    BY <2>1, <2>3, <2>4, <2>5, SessionAssumption, WholeIsPart DEF IInv, ServerReaped
  <2>14. CleanShutdown'
    BY <2>1, <2>3, <2>4, <2>5, SessionAssumption, WholeIsPart DEF IInv, CleanShutdown
  <2> QED BY <2>6, <2>7, <2>8, <2>9, <2>10, <2>11, <2>12, <2>13, <2>14 DEF IInv
<1>2. CASE ~Alive
  <2>1. /\ client = "send" /\ ~Alive /\ client' = "stopped" /\ written' = 0
        /\ requests' = FALSE
        /\ UNCHANGED <<model, edits, described, request, answers, results, trailing,
                        stdin, stdout, server, serving, replied, output, status>>
    BY <1>2 DEF WriteRequest, Send, ExchangeFails, callerVars, clientVars, serverVars, Exit,
       Go
  <2>2. TypeOK
    BY DEF IInv
  <2>3. In' = In /\ InWhole' = InWhole /\ Ordered(stdin)' = Ordered(stdin)
    BY <2>1, InSame
  <2>4. Out' = Out /\ OutWhole' = OutWhole /\ Ordered(stdout)' = Ordered(stdout)
    BY <2>1, OutSame
  <2>5. After(output) \in 0 .. Size - 1 /\ After(written) \in 0 .. Size - 1 /\ 0 \in 0 .. Size - 1
    BY <2>2, SessionAssumption DEF TypeOK, After
  <2>6. TypeOK'
    BY <2>1, <2>3, <2>4, <2>5, SessionAssumption, WholeIsPart, ZenonT(30) DEF IInv, TypeOK
  <2>7. PipesOrdered'
    BY <2>3, <2>4, <2>5, SessionAssumption, WholeIsPart DEF IInv, PipesOrdered
  <2>8. Opening'
    BY <2>1, <2>3, <2>4, <2>5, SessionAssumption, WholeIsPart DEF IInv, Opening
  <2>9. RequestStream'
    BY <2>1, <2>3, <2>4, <2>5, SessionAssumption, WholeIsPart DEF IInv, RequestStream
  <2>10. ResultStream'
    BY <2>1, <2>2, <2>3, <2>4, <2>5, SessionAssumption, WholeIsPart DEF IInv, ResultStream,
       Alive
  <2>11. OnePlace'
    BY <2>1, <2>3, <2>4, <2>5, SessionAssumption, WholeIsPart DEF IInv, OnePlace
  <2>12. OneCall'
    BY <2>1, <2>3, <2>4, <2>5, SessionAssumption, WholeIsPart DEF IInv, OneCall
  <2>13. ServerReaped'
    BY <2>1, <2>3, <2>4, <2>5, SessionAssumption, WholeIsPart DEF IInv, ServerReaped
  <2>14. CleanShutdown'
    BY <2>1, <2>3, <2>4, <2>5, SessionAssumption, WholeIsPart DEF IInv, CleanShutdown
  <2> QED BY <2>6, <2>7, <2>8, <2>9, <2>10, <2>11, <2>12, <2>13, <2>14 DEF IInv
<1> QED BY <1>1, <1>2 DEF WriteRequest

LEMMA FinishRequestsStep == ASSUME IInv, FinishRequests PROVE IInv'
<1>1. CASE Alive
  <2>1. /\ client = "finish" /\ Alive /\ stdin' = PutChunk(stdin, Eos, written)
        /\ Len(stdin) < PipeSize /\ written' = After(written)
        /\ client' = IF After(written) = 0 THEN "drain" ELSE "finish"
        /\ requests' = IF After(written) = 0 THEN FALSE ELSE requests
        /\ UNCHANGED <<model, edits, described, request, answers, results, trailing,
                        stdout, server, serving, replied, output, status>>
    BY <1>1 DEF FinishRequests, Send, callerVars, clientVars, serverVars, Exit, Go
  <2>2. TypeOK
    BY DEF IInv
  <2>3. /\ Eos \in Messages
        /\ stdin' \in Seq(Chunk) /\ Len(stdin') <= PipeSize
        /\ In' = In \cup {Eos}
        /\ After(written) = 0 => InWhole' = InWhole \cup {Eos}
        /\ After(written) # 0 => InWhole' = InWhole
        /\ Ordered(stdin) /\ Eos \notin InWhole /\ Eos \notin InWhole /\ (Eos = Header => InWhole = {})
           => Ordered(stdin)'
    <3>1. Eos \in Messages
      BY DEF Messages
    <3> QED BY <2>1, <2>2, <3>1, InPut
  <2>4. Out' = Out /\ OutWhole' = OutWhole /\ Ordered(stdout)' = Ordered(stdout)
    BY <2>1, OutSame
  <2>5. After(output) \in 0 .. Size - 1 /\ After(written) \in 0 .. Size - 1 /\ 0 \in 0 .. Size - 1
    BY <2>2, SessionAssumption DEF TypeOK, After
  <2>6. TypeOK'
    BY <2>1, <2>3, <2>4, <2>5, SessionAssumption, WholeIsPart, ZenonT(30) DEF IInv, TypeOK
  <2>7. PipesOrdered'
    BY <2>1, <2>2, <2>3, <2>4, <2>5, SessionAssumption, WholeIsPart DEF IInv, PipesOrdered,
       Opening, RequestStream, ResultStream, OnePlace, OneCall, ServerReaped, CleanShutdown,
       Alive
  <2>8. Opening'
    BY <2>1, <2>3, <2>4, <2>5, SessionAssumption, WholeIsPart DEF IInv, Opening
  <2>9. RequestStream'
    BY <2>1, <2>3, <2>4, <2>5, SessionAssumption, WholeIsPart DEF IInv, RequestStream
  <2>10. ResultStream'
    BY <2>1, <2>3, <2>4, <2>5, SessionAssumption, WholeIsPart DEF IInv, ResultStream
  <2>11. OnePlace'
    BY <2>1, <2>3, <2>4, <2>5, SessionAssumption, WholeIsPart DEF IInv, OnePlace
  <2>12. OneCall'
    BY <2>1, <2>3, <2>4, <2>5, SessionAssumption, WholeIsPart DEF IInv, OneCall
  <2>13. ServerReaped'
    BY <2>1, <2>3, <2>4, <2>5, SessionAssumption, WholeIsPart DEF IInv, ServerReaped
  <2>14. CleanShutdown'
    BY <2>1, <2>3, <2>4, <2>5, SessionAssumption, WholeIsPart DEF IInv, CleanShutdown
  <2> QED BY <2>6, <2>7, <2>8, <2>9, <2>10, <2>11, <2>12, <2>13, <2>14 DEF IInv
<1>2. CASE ~Alive
  <2>1. /\ client = "finish" /\ ~Alive /\ client' = "drain" /\ written' = 0
        /\ requests' = FALSE
        /\ UNCHANGED <<model, edits, described, request, answers, results, trailing,
                        stdin, stdout, server, serving, replied, output, status>>
    BY <1>2 DEF FinishRequests, Send, callerVars, clientVars, serverVars, Exit, Go
  <2>2. TypeOK
    BY DEF IInv
  <2>3. In' = In /\ InWhole' = InWhole /\ Ordered(stdin)' = Ordered(stdin)
    BY <2>1, InSame
  <2>4. Out' = Out /\ OutWhole' = OutWhole /\ Ordered(stdout)' = Ordered(stdout)
    BY <2>1, OutSame
  <2>5. After(output) \in 0 .. Size - 1 /\ After(written) \in 0 .. Size - 1 /\ 0 \in 0 .. Size - 1
    BY <2>2, SessionAssumption DEF TypeOK, After
  <2>6. TypeOK'
    BY <2>1, <2>3, <2>4, <2>5, SessionAssumption, WholeIsPart, ZenonT(30) DEF IInv, TypeOK
  <2>7. PipesOrdered'
    BY <2>3, <2>4, <2>5, SessionAssumption, WholeIsPart DEF IInv, PipesOrdered
  <2>8. Opening'
    BY <2>1, <2>3, <2>4, <2>5, SessionAssumption, WholeIsPart DEF IInv, Opening
  <2>9. RequestStream'
    BY <2>1, <2>3, <2>4, <2>5, SessionAssumption, WholeIsPart DEF IInv, RequestStream
  <2>10. ResultStream'
    BY <2>1, <2>2, <2>3, <2>4, <2>5, SessionAssumption, WholeIsPart DEF IInv, ResultStream,
       Alive
  <2>11. OnePlace'
    BY <2>1, <2>3, <2>4, <2>5, SessionAssumption, WholeIsPart DEF IInv, OnePlace
  <2>12. OneCall'
    BY <2>1, <2>3, <2>4, <2>5, SessionAssumption, WholeIsPart DEF IInv, OneCall
  <2>13. ServerReaped'
    BY <2>1, <2>3, <2>4, <2>5, SessionAssumption, WholeIsPart DEF IInv, ServerReaped
  <2>14. CleanShutdown'
    BY <2>1, <2>3, <2>4, <2>5, SessionAssumption, WholeIsPart DEF IInv, CleanShutdown
  <2> QED BY <2>6, <2>7, <2>8, <2>9, <2>10, <2>11, <2>12, <2>13, <2>14 DEF IInv
<1> QED BY <1>1, <1>2 DEF FinishRequests

LEMMA ReadResultStep == ASSUME IInv, ReadResult PROVE IInv'
<1>1. CASE stdout # <<>> /\ ~Head(stdout).last
  <2>1. /\ client = "receive" /\ stdout' = Tail(stdout) /\ stdout # <<>>
        /\ UNCHANGED <<model, edits, described, client, request, answers, written,
                        requests, results, trailing, stdin, server, serving, replied,
                        output, status>>
    BY <1>1 DEF ReadResult, callerVars, clientVars, serverVars, Exit, Go
  <2>2. TypeOK
    BY DEF IInv
  <2>3. In' = In /\ InWhole' = InWhole /\ Ordered(stdin)' = Ordered(stdin)
    BY <2>1, InSame
  <2>4. /\ Head(stdout).msg \in Messages /\ Head(stdout).last \in BOOLEAN
        /\ Head(stdout).msg \in Out /\ (Head(stdout).last => Head(stdout).msg \in OutWhole)
        /\ stdout' \in Seq(Chunk) /\ Len(stdout') <= PipeSize
        /\ Out' \subseteq Out /\ OutWhole' \subseteq OutWhole
        /\ Ordered(stdout) => Ordered(stdout)'
        /\ Ordered(stdout) /\ Head(stdout).last =>
             /\ Head(stdout).msg \notin Out' /\ Header \notin Out'
             /\ Head(stdout).msg = Eos => stdout' = <<>>
    BY <2>1, <2>2, OutTake
  <2>5. After(output) \in 0 .. Size - 1 /\ After(written) \in 0 .. Size - 1 /\ 0 \in 0 .. Size - 1
    BY <2>2, SessionAssumption DEF TypeOK, After
  <2>6. TypeOK'
    BY <2>1, <2>3, <2>4, <2>5, SessionAssumption, WholeIsPart DEF IInv, TypeOK
  <2>7. PipesOrdered'
    BY <2>3, <2>4, <2>5, SessionAssumption, WholeIsPart DEF IInv, PipesOrdered
  <2>8. Opening'
    BY <2>1, <2>3, <2>4, <2>5, SessionAssumption, WholeIsPart DEF IInv, Opening
  <2>9. RequestStream'
    BY <2>1, <2>3, <2>4, <2>5, SessionAssumption, WholeIsPart DEF IInv, RequestStream
  <2>10. ResultStream'
    BY <2>1, <2>2, <2>3, <2>4, <2>5, SessionAssumption, WholeIsPart DEF IInv, ResultStream,
       Alive
  <2>11. OnePlace'
    BY <2>1, <2>3, <2>4, <2>5, SessionAssumption, WholeIsPart DEF IInv, OnePlace
  <2>12. OneCall'
    BY <2>1, <2>3, <2>4, <2>5, SessionAssumption, WholeIsPart DEF IInv, OneCall
  <2>13. ServerReaped'
    BY <2>1, <2>3, <2>4, <2>5, SessionAssumption, WholeIsPart DEF IInv, ServerReaped
  <2>14. CleanShutdown'
    BY <2>1, <2>3, <2>4, <2>5, SessionAssumption, WholeIsPart DEF IInv, CleanShutdown
  <2> QED BY <2>6, <2>7, <2>8, <2>9, <2>10, <2>11, <2>12, <2>13, <2>14 DEF IInv
<1>2. CASE stdout # <<>> /\ Head(stdout).last /\ client' = "ready"
  <2>1. /\ client = "receive" /\ client' = "ready" /\ stdout' = Tail(stdout) /\ stdout # <<>>
        /\ Head(stdout).last /\ Head(stdout).msg \in Requests
        /\ answers' = [answers EXCEPT ![request] = Head(stdout).msg] /\ request' = Nothing
        /\ UNCHANGED <<model, edits, described, written, requests, results, trailing,
                        stdin, server, serving, replied, output, status>>
    BY <1>2 DEF ReadResult, ExchangeFails, callerVars, clientVars, serverVars, Exit, Go
  <2>2. TypeOK
    BY DEF IInv
  <2>3. In' = In /\ InWhole' = InWhole /\ Ordered(stdin)' = Ordered(stdin)
    BY <2>1, InSame
  <2>4. /\ Head(stdout).msg \in Messages /\ Head(stdout).last \in BOOLEAN
        /\ Head(stdout).msg \in Out /\ (Head(stdout).last => Head(stdout).msg \in OutWhole)
        /\ stdout' \in Seq(Chunk) /\ Len(stdout') <= PipeSize
        /\ Out' \subseteq Out /\ OutWhole' \subseteq OutWhole
        /\ Ordered(stdout) => Ordered(stdout)'
        /\ Ordered(stdout) /\ Head(stdout).last =>
             /\ Head(stdout).msg \notin Out' /\ Header \notin Out'
             /\ Head(stdout).msg = Eos => stdout' = <<>>
    BY <2>1, <2>2, OutTake
  <2>5. After(output) \in 0 .. Size - 1 /\ After(written) \in 0 .. Size - 1 /\ 0 \in 0 .. Size - 1
    BY <2>2, SessionAssumption DEF TypeOK, After
  <2>6. Head(stdout).msg = request /\ request \in Out /\ request \in OutWhole
    BY <2>1, <2>4 DEF IInv, OneCall
  <2>7. request \notin In /\ request \notin Out' /\ replied = Nothing
    BY <2>1, <2>4, <2>6, SessionAssumption DEF IInv, OneCall, OnePlace, PipesOrdered, Messages
  <2>8. server # "write"
    BY <2>7, SessionAssumption DEF IInv, ResultStream, Messages
  <2>9. TypeOK'
    BY <2>1, <2>3, <2>4, <2>5, <2>6, <2>7, <2>8, SessionAssumption, WholeIsPart DEF IInv,
       TypeOK
  <2>10. PipesOrdered'
    BY <2>3, <2>4, <2>5, <2>6, <2>7, <2>8, SessionAssumption, WholeIsPart DEF IInv,
       PipesOrdered
  <2>11. Opening'
    BY <2>1, <2>3, <2>4, <2>5, <2>6, <2>7, <2>8, SessionAssumption, WholeIsPart DEF IInv,
       Opening
  <2>12. RequestStream'
    BY <2>1, <2>3, <2>4, <2>5, <2>6, <2>7, <2>8, SessionAssumption, WholeIsPart DEF IInv,
       RequestStream
  <2>13. ResultStream'
    BY <2>1, <2>2, <2>3, <2>4, <2>5, <2>6, <2>7, <2>8, SessionAssumption, WholeIsPart DEF
       IInv, ResultStream, Alive
  <2>14. OnePlace'
    BY <2>1, <2>3, <2>4, <2>5, <2>6, <2>7, <2>8, SessionAssumption, WholeIsPart DEF IInv,
       OnePlace
  <2>15. OneCall'
    BY <2>1, <2>3, <2>4, <2>5, <2>6, <2>7, <2>8, SessionAssumption, WholeIsPart DEF IInv,
       OneCall
  <2>16. ServerReaped'
    BY <2>1, <2>3, <2>4, <2>5, <2>6, <2>7, <2>8, SessionAssumption, WholeIsPart DEF IInv,
       ServerReaped
  <2>17. CleanShutdown'
    BY <2>1, <2>3, <2>4, <2>5, <2>6, <2>7, <2>8, SessionAssumption, WholeIsPart DEF IInv,
       CleanShutdown
  <2> QED BY <2>9, <2>10, <2>11, <2>12, <2>13, <2>14, <2>15, <2>16, <2>17 DEF IInv
<1>3. CASE stdout # <<>> /\ Head(stdout).last /\ client' # "ready"
  <2>1. /\ client = "receive" /\ client' = "stopped" /\ stdout' = Tail(stdout) /\ stdout # <<>>
        /\ requests' = FALSE
        /\ UNCHANGED <<model, edits, described, request, answers, written, results,
                        trailing, stdin, server, serving, replied, output, status>>
    BY <1>3 DEF ReadResult, ExchangeFails, callerVars, clientVars, serverVars, Exit, Go
  <2>2. TypeOK
    BY DEF IInv
  <2>3. In' = In /\ InWhole' = InWhole /\ Ordered(stdin)' = Ordered(stdin)
    BY <2>1, InSame
  <2>4. /\ Head(stdout).msg \in Messages /\ Head(stdout).last \in BOOLEAN
        /\ Head(stdout).msg \in Out /\ (Head(stdout).last => Head(stdout).msg \in OutWhole)
        /\ stdout' \in Seq(Chunk) /\ Len(stdout') <= PipeSize
        /\ Out' \subseteq Out /\ OutWhole' \subseteq OutWhole
        /\ Ordered(stdout) => Ordered(stdout)'
        /\ Ordered(stdout) /\ Head(stdout).last =>
             /\ Head(stdout).msg \notin Out' /\ Header \notin Out'
             /\ Head(stdout).msg = Eos => stdout' = <<>>
    BY <2>1, <2>2, OutTake
  <2>5. After(output) \in 0 .. Size - 1 /\ After(written) \in 0 .. Size - 1 /\ 0 \in 0 .. Size - 1
    BY <2>2, SessionAssumption DEF TypeOK, After
  <2>6. TypeOK'
    BY <2>1, <2>3, <2>4, <2>5, SessionAssumption, WholeIsPart, ZenonT(30) DEF IInv, TypeOK
  <2>7. PipesOrdered'
    BY <2>3, <2>4, <2>5, SessionAssumption, WholeIsPart DEF IInv, PipesOrdered
  <2>8. Opening'
    BY <2>1, <2>3, <2>4, <2>5, SessionAssumption, WholeIsPart DEF IInv, Opening
  <2>9. RequestStream'
    BY <2>1, <2>3, <2>4, <2>5, SessionAssumption, WholeIsPart DEF IInv, RequestStream
  <2>10. ResultStream'
    BY <2>1, <2>2, <2>3, <2>4, <2>5, SessionAssumption, WholeIsPart DEF IInv, ResultStream,
       Alive
  <2>11. OnePlace'
    BY <2>1, <2>3, <2>4, <2>5, SessionAssumption, WholeIsPart DEF IInv, OnePlace
  <2>12. OneCall'
    BY <2>1, <2>3, <2>4, <2>5, SessionAssumption, WholeIsPart DEF IInv, OneCall
  <2>13. ServerReaped'
    BY <2>1, <2>3, <2>4, <2>5, SessionAssumption, WholeIsPart DEF IInv, ServerReaped
  <2>14. CleanShutdown'
    BY <2>1, <2>3, <2>4, <2>5, SessionAssumption, WholeIsPart DEF IInv, CleanShutdown
  <2> QED BY <2>6, <2>7, <2>8, <2>9, <2>10, <2>11, <2>12, <2>13, <2>14 DEF IInv
<1>4. CASE stdout = <<>>
  <2>1. /\ client = "receive" /\ client' = "stopped" /\ requests' = FALSE
        /\ UNCHANGED <<model, edits, described, request, answers, written, results,
                        trailing, stdin, stdout, server, serving, replied, output,
                        status>>
    BY <1>4 DEF ReadResult, ExchangeFails, callerVars, clientVars, serverVars, Exit, Go
  <2>2. TypeOK
    BY DEF IInv
  <2>3. In' = In /\ InWhole' = InWhole /\ Ordered(stdin)' = Ordered(stdin)
    BY <2>1, InSame
  <2>4. Out' = Out /\ OutWhole' = OutWhole /\ Ordered(stdout)' = Ordered(stdout)
    BY <2>1, OutSame
  <2>5. After(output) \in 0 .. Size - 1 /\ After(written) \in 0 .. Size - 1 /\ 0 \in 0 .. Size - 1
    BY <2>2, SessionAssumption DEF TypeOK, After
  <2>6. TypeOK'
    BY <2>1, <2>3, <2>4, <2>5, SessionAssumption, WholeIsPart, ZenonT(30) DEF IInv, TypeOK
  <2>7. PipesOrdered'
    BY <2>3, <2>4, <2>5, SessionAssumption, WholeIsPart DEF IInv, PipesOrdered
  <2>8. Opening'
    BY <2>1, <2>3, <2>4, <2>5, SessionAssumption, WholeIsPart DEF IInv, Opening
  <2>9. RequestStream'
    BY <2>1, <2>3, <2>4, <2>5, SessionAssumption, WholeIsPart DEF IInv, RequestStream
  <2>10. ResultStream'
    BY <2>1, <2>2, <2>3, <2>4, <2>5, SessionAssumption, WholeIsPart DEF IInv, ResultStream,
       Alive
  <2>11. OnePlace'
    BY <2>1, <2>3, <2>4, <2>5, SessionAssumption, WholeIsPart DEF IInv, OnePlace
  <2>12. OneCall'
    BY <2>1, <2>3, <2>4, <2>5, SessionAssumption, WholeIsPart DEF IInv, OneCall
  <2>13. ServerReaped'
    BY <2>1, <2>3, <2>4, <2>5, SessionAssumption, WholeIsPart DEF IInv, ServerReaped
  <2>14. CleanShutdown'
    BY <2>1, <2>3, <2>4, <2>5, SessionAssumption, WholeIsPart DEF IInv, CleanShutdown
  <2> QED BY <2>6, <2>7, <2>8, <2>9, <2>10, <2>11, <2>12, <2>13, <2>14 DEF IInv
<1> QED BY <1>1, <1>2, <1>3, <1>4 DEF ReadResult

LEMMA ReadTrailingStep == ASSUME IInv, ReadTrailing PROVE IInv'
<1>1. CASE stdout # <<>>
  <2>1. /\ client = "drain" /\ stdout' = Tail(stdout) /\ stdout # <<>>
        /\ trailing' = Head(stdout).msg
        /\ client' = IF Head(stdout).last THEN "wait" ELSE "drain"
        /\ UNCHANGED <<model, edits, described, request, answers, written, requests,
                        results, stdin, server, serving, replied, output, status>>
    BY <1>1 DEF ReadTrailing, callerVars, clientVars, serverVars, Exit, Go
  <2>2. TypeOK
    BY DEF IInv
  <2>3. In' = In /\ InWhole' = InWhole /\ Ordered(stdin)' = Ordered(stdin)
    BY <2>1, InSame
  <2>4. /\ Head(stdout).msg \in Messages /\ Head(stdout).last \in BOOLEAN
        /\ Head(stdout).msg \in Out /\ (Head(stdout).last => Head(stdout).msg \in OutWhole)
        /\ stdout' \in Seq(Chunk) /\ Len(stdout') <= PipeSize
        /\ Out' \subseteq Out /\ OutWhole' \subseteq OutWhole
        /\ Ordered(stdout) => Ordered(stdout)'
        /\ Ordered(stdout) /\ Head(stdout).last =>
             /\ Head(stdout).msg \notin Out' /\ Header \notin Out'
             /\ Head(stdout).msg = Eos => stdout' = <<>>
    BY <2>1, <2>2, OutTake
  <2>5. After(output) \in 0 .. Size - 1 /\ After(written) \in 0 .. Size - 1 /\ 0 \in 0 .. Size - 1
    BY <2>2, SessionAssumption DEF TypeOK, After
  <2>6. TypeOK'
    BY <2>1, <2>3, <2>4, <2>5, SessionAssumption, WholeIsPart DEF IInv, TypeOK
  <2>7. PipesOrdered'
    BY <2>3, <2>4, <2>5, SessionAssumption, WholeIsPart DEF IInv, PipesOrdered
  <2>8. Opening'
    BY <2>1, <2>3, <2>4, <2>5, SessionAssumption, WholeIsPart DEF IInv, Opening
  <2>9. RequestStream'
    BY <2>1, <2>3, <2>4, <2>5, SessionAssumption, WholeIsPart DEF IInv, RequestStream
  <2>10. ResultStream'
    BY <2>1, <2>2, <2>3, <2>4, <2>5, SessionAssumption, WholeIsPart DEF IInv, ResultStream,
       PipesOrdered, Opening, RequestStream, OnePlace, OneCall, ServerReaped, CleanShutdown,
       Alive
  <2>11. OnePlace'
    BY <2>1, <2>3, <2>4, <2>5, SessionAssumption, WholeIsPart DEF IInv, OnePlace
  <2>12. OneCall'
    BY <2>1, <2>3, <2>4, <2>5, SessionAssumption, WholeIsPart DEF IInv, OneCall
  <2>13. ServerReaped'
    BY <2>1, <2>3, <2>4, <2>5, SessionAssumption, WholeIsPart DEF IInv, ServerReaped
  <2>14. CleanShutdown'
    BY <2>1, <2>3, <2>4, <2>5, SessionAssumption, WholeIsPart DEF IInv, CleanShutdown
  <2> QED BY <2>6, <2>7, <2>8, <2>9, <2>10, <2>11, <2>12, <2>13, <2>14 DEF IInv
<1>2. CASE stdout = <<>>
  <2>1. /\ client = "drain" /\ client' = "wait" /\ stdout = <<>> /\ ~Alive
        /\ UNCHANGED <<model, edits, described, request, answers, written, requests,
                        results, trailing, stdin, stdout, server, serving, replied,
                        output, status>>
    BY <1>2 DEF ReadTrailing, callerVars, clientVars, serverVars, Exit, Go
  <2>2. TypeOK
    BY DEF IInv
  <2>3. In' = In /\ InWhole' = InWhole /\ Ordered(stdin)' = Ordered(stdin)
    BY <2>1, InSame
  <2>4. Out' = Out /\ OutWhole' = OutWhole /\ Ordered(stdout)' = Ordered(stdout)
    BY <2>1, OutSame
  <2>5. After(output) \in 0 .. Size - 1 /\ After(written) \in 0 .. Size - 1 /\ 0 \in 0 .. Size - 1
    BY <2>2, SessionAssumption DEF TypeOK, After
  <2>6. TypeOK'
    BY <2>1, <2>3, <2>4, <2>5, SessionAssumption, WholeIsPart DEF IInv, TypeOK
  <2>7. PipesOrdered'
    BY <2>3, <2>4, <2>5, SessionAssumption, WholeIsPart DEF IInv, PipesOrdered
  <2>8. Opening'
    BY <2>1, <2>3, <2>4, <2>5, SessionAssumption, WholeIsPart DEF IInv, Opening
  <2>9. RequestStream'
    BY <2>1, <2>3, <2>4, <2>5, SessionAssumption, WholeIsPart DEF IInv, RequestStream
  <2>10. ResultStream'
    BY <2>1, <2>2, <2>3, <2>4, <2>5, SessionAssumption, WholeIsPart DEF IInv, ResultStream,
       Alive
  <2>11. OnePlace'
    BY <2>1, <2>3, <2>4, <2>5, SessionAssumption, WholeIsPart DEF IInv, OnePlace
  <2>12. OneCall'
    BY <2>1, <2>3, <2>4, <2>5, SessionAssumption, WholeIsPart DEF IInv, OneCall
  <2>13. ServerReaped'
    BY <2>1, <2>3, <2>4, <2>5, SessionAssumption, WholeIsPart DEF IInv, ServerReaped
  <2>14. CleanShutdown'
    BY <2>1, <2>3, <2>4, <2>5, SessionAssumption, WholeIsPart DEF IInv, CleanShutdown
  <2> QED BY <2>6, <2>7, <2>8, <2>9, <2>10, <2>11, <2>12, <2>13, <2>14 DEF IInv
<1> QED BY <1>1, <1>2 DEF ReadTrailing

LEMMA InitIInv == Init => IInv
<1> SUFFICES ASSUME Init PROVE IInv
  OBVIOUS
<1>1. TypeOK
  <2>1. <<>> \in Seq(Chunk) /\ Len(<<>>) = 0
    BY EmptySeq
  <2>2. 0 \in 0 .. Size - 1 /\ 0 \in 0 .. MaxEdits /\ 0 <= PipeSize
    BY SessionAssumption
  <2> QED BY <2>1, <2>2 DEF Init, TypeOK
<1>2. In = {} /\ InWhole = {} /\ Out = {} /\ OutWhole = {}
  BY InEmpty, OutEmpty DEF Init
<1>3. PipesOrdered
  BY DEF Init, PipesOrdered, Ordered
<1>4. Opening /\ RequestStream /\ ResultStream /\ OnePlace /\ OneCall
  BY <1>2 DEF Init, Opening, RequestStream, ResultStream, OnePlace, OneCall, Alive
<1>5. ServerReaped /\ CleanShutdown
  BY DEF Init, ServerReaped, CleanShutdown
<1> QED BY <1>1, <1>3, <1>4, <1>5 DEF IInv

LEMMA NextIInv == IInv /\ [Next]_vars => IInv'
<1> SUFFICES ASSUME IInv, [Next]_vars PROVE IInv'
  OBVIOUS
<1>1. CASE ClientStep
  BY <1>1, OpenReadStep, OpenWriteStep, OpenFailedStep, WriteRequestStep, EncodeFailsStep,
     ReadResultStep, TryWaitStep, ReapStep, FinishRequestsStep, ReadTrailingStep,
     WaitShutdownStep
     DEF ClientStep
<1>2. CASE CallerStep
  BY <1>2, SpawnStep, EvaluateStep, ShutdownStep, DropSessionStep, EndClosedStep
     DEF CallerStep
<1>3. CASE ServerStep
  BY <1>3, PrepareStep, PrepareFailsStep, WriteHeaderStep, ReadHeaderStep, ReadRequestStep,
     EvaluateFailsStep, WriteResultStep, FinishResultsStep, BecomeZombieStep
     DEF ServerStep
<1>4. CASE ServerCrash \/ ClientCrash \/ \E i \in Interfaces : EditModel(i)
  BY <1>4, ServerCrashStep, ClientCrashStep, EditModelStep
<1>5. CASE UNCHANGED vars
  <2>1. stdin' = stdin /\ stdout' = stdout
    BY <1>5 DEF vars
  <2>2. /\ In' = In /\ InWhole' = InWhole /\ Ordered(stdin)' = Ordered(stdin)
        /\ Out' = Out /\ OutWhole' = OutWhole /\ Ordered(stdout)' = Ordered(stdout)
    BY <2>1, InSame, OutSame
  <2>3. TypeOK' /\ PipesOrdered' /\ ServerReaped' /\ CleanShutdown'
    BY <1>5, <2>2 DEF IInv, vars, callerVars, clientVars, serverVars, TypeOK, PipesOrdered,
                      ServerReaped, CleanShutdown
  <2>4. Opening' /\ RequestStream' /\ ResultStream' /\ OnePlace' /\ OneCall'
    BY <1>5, <2>2 DEF IInv, vars, callerVars, clientVars, serverVars, Opening,
                      RequestStream, ResultStream, OnePlace, OneCall, Alive
  <2> QED BY <2>3, <2>4 DEF IInv
<1> QED BY <1>1, <1>2, <1>3, <1>4, <1>5 DEF Next

LEMMA Invariance == Spec => []IInv
BY InitIInv, NextIInv, PTL DEF Spec

-----------------------------------------------------------------------------
(* The refinement.                                                          *)

\* The abstract state that stands for a concrete one.
Phase == CASE client \in {"described", "openRead", "openWrite"} -> "opening"
           [] client = "ready" -> "open"
           [] client \in {"send", "receive"} -> "calling"
           [] OTHER -> "over"
Under == IF client \in {"send", "receive"} THEN request ELSE Nothing

\* A step that changes neither what the client does nor what it was answered.
LEMMA Stutters ==
    ASSUME client' = client, request' = request, answers' = answers
    PROVE  Phase' = Phase /\ Under' = Under
BY DEF Phase, Under

LEMMA PhaseOf ==
    /\ client \in {"described", "openRead", "openWrite"} => Phase = "opening"
    /\ client = "ready" => Phase = "open"
    /\ client \in {"send", "receive"} => Phase = "calling"
    /\ client \notin {"described", "openRead", "openWrite", "ready", "send", "receive"}
       => Phase = "over"
BY DEF Phase

LEMMA PhaseOfNext ==
    /\ client' \in {"described", "openRead", "openWrite"} => Phase' = "opening"
    /\ client' = "ready" => Phase' = "open"
    /\ client' \in {"send", "receive"} => Phase' = "calling"
    /\ client' \notin {"described", "openRead", "openWrite", "ready", "send", "receive"}
       => Phase' = "over"
BY DEF Phase

\* The steps of RemoteCalls under the mapping.
AbstractStep ==
    \/ Phase = "opening" /\ Phase' = "open" /\ Under' = Under /\ answers' = answers
    \/ \E q \in Requests : /\ Phase = "open" /\ answers[q] = Nothing /\ Phase' = "calling"
                           /\ Under' = q /\ answers' = answers
    \/ /\ Phase = "calling" /\ Phase' = "open"
       /\ answers' = [answers EXCEPT ![Under] = Under] /\ Under' = Nothing
    \/ Phase # "over" /\ Phase' = "over" /\ Under' = Nothing /\ answers' = answers
    \/ Phase' = Phase /\ Under' = Under /\ answers' = answers

LEMMA ServerStepStutters ==
    ASSUME ServerStep \/ ServerCrash \/ (\E i \in Interfaces : EditModel(i))
    PROVE  AbstractStep
<1>1. client' = client /\ request' = request /\ answers' = answers
  BY DEF ServerStep, Prepare, PrepareFails, WriteHeader, ReadHeader, ReadRequest,
         EvaluateFails, WriteResult, FinishResults, BecomeZombie, ServerCrash, EditModel,
         clientVars
<1> QED BY <1>1, Stutters DEF AbstractStep

\* A call that returns has read the last chunk of its own request's result.
LEMMA ReadResultAnswers ==
    ASSUME IInv, ReadResult PROVE AbstractStep
<1>1. client = "receive" /\ request \in Requests /\ TypeOK
  BY DEF ReadResult, IInv, OneCall
<1>2. CASE client' = "receive"
  <2>1. request' = request /\ answers' = answers
    BY <1>1, <1>2 DEF ReadResult, ExchangeFails, Go
  <2> QED BY <1>1, <1>2, <2>1, Stutters DEF AbstractStep
<1>3. CASE client' = "ready"
  <2>1. /\ stdout # <<>> /\ stdout' = Tail(stdout) /\ Head(stdout).msg \in Requests
        /\ answers' = [answers EXCEPT ![request] = Head(stdout).msg]
    BY <1>1, <1>3 DEF ReadResult, ExchangeFails, Go
  <2>2. Head(stdout).msg \in Out
    BY <1>1, <2>1, OutTake
  <2>3. Head(stdout).msg = request
    BY <1>1, <2>1, <2>2 DEF IInv, OneCall
  <2>4. Under = request /\ Under' = Nothing /\ Phase = "calling" /\ Phase' = "open"
    BY <1>1, <1>3, PhaseOf, PhaseOfNext DEF Under
  <2> QED BY <2>1, <2>3, <2>4 DEF AbstractStep
<1>4. CASE client' = "stopped"
  <2>1. answers' = answers
    BY <1>1, <1>4 DEF ReadResult, ExchangeFails, Go
  <2> QED BY <1>1, <1>4, <2>1, PhaseOf, PhaseOfNext DEF AbstractStep, Under
<1> QED BY <1>1, <1>2, <1>3, <1>4 DEF ReadResult, ExchangeFails, Go

LEMMA ClientStepMaps ==
    ASSUME IInv, ClientStep PROVE AbstractStep
<1> USE PhaseOf, PhaseOfNext
<1>1. CASE OpenRead
  BY <1>1 DEF OpenRead, OpenFails, Go, AbstractStep, Under
<1>2. CASE OpenWrite
  BY <1>2 DEF OpenWrite, Send, OpenFails, Go, AbstractStep, Under
<1>3. CASE OpenFailed \/ Reap \/ TryWait \/ WaitShutdown
  BY <1>3 DEF OpenFailed, Reap, TryWait, WaitShutdown, Go, AbstractStep, Under
<1>4. CASE WriteRequest
  BY <1>4 DEF WriteRequest, Send, ExchangeFails, Go, AbstractStep, Under
<1>5. CASE EncodeFails
  BY <1>5 DEF EncodeFails, ExchangeFails, Go, AbstractStep, Under
<1>6. CASE ReadResult
  BY <1>6, ReadResultAnswers
<1>7. CASE FinishRequests
  BY <1>7 DEF FinishRequests, Send, Go, AbstractStep, Under
<1>8. CASE ReadTrailing
  BY <1>8 DEF ReadTrailing, Go, AbstractStep, Under
<1> QED BY <1>1, <1>2, <1>3, <1>4, <1>5, <1>6, <1>7, <1>8 DEF ClientStep

LEMMA CallerStepMaps ==
    ASSUME CallerStep \/ ClientCrash PROVE AbstractStep
<1> USE PhaseOf, PhaseOfNext
<1>1. CASE Spawn
  BY <1>1 DEF Spawn, Go, AbstractStep, Under
<1>2. ASSUME NEW q \in Requests, Evaluate(q) PROVE AbstractStep
  BY <1>2 DEF Evaluate, Go, AbstractStep, Under
<1>3. CASE Shutdown \/ DropSession
  BY <1>3 DEF Shutdown, DropSession, Go, AbstractStep, Under
<1>4. CASE EndClosed
  BY <1>4 DEF EndClosed, Go, AbstractStep, Under
<1>5. CASE ClientCrash
  BY <1>5 DEF ClientCrash, Go, AbstractStep, Under
<1> QED BY <1>1, <1>2, <1>3, <1>4, <1>5 DEF CallerStep

LEMMA StepMaps == IInv /\ [Next]_vars => [Calls!Next]_(Calls!vars)
<1> SUFFICES ASSUME IInv, [Next]_vars PROVE [Calls!Next]_(Calls!vars)
  OBVIOUS
<1>1. AbstractStep
  <2>1. CASE UNCHANGED vars
    BY <2>1, Stutters DEF vars, clientVars, AbstractStep
  <2> QED BY <2>1, ServerStepStutters, ClientStepMaps, CallerStepMaps DEF Next
<1> QED BY <1>1 DEF AbstractStep, Phase, Under, Calls!Next, Calls!vars, Calls!Open,
               Calls!Call, Calls!Return, Calls!Break

LEMMA InitMaps == Init => Calls!Init
BY DEF Init, Calls!Init

-----------------------------------------------------------------------------
(* Theorems.                                                                *)

\* The state of the session, its server and the pipes keeps its types.
THEOREM TypeCorrect == Spec => []TypeOK
BY Invariance, PTL DEF IInv

\* Session::evaluate returns the answer to its own request or ends the session for
\* good, whatever the server does and however the pipes fill up.
THEOREM RefinesRemoteCalls == Spec => ImplementsRemoteCalls
<1>1. Init => Calls!Init
  BY InitMaps
<1>2. IInv /\ [Next]_vars => [Calls!Next]_(Calls!vars)
  BY StepMaps
<1> QED BY <1>1, <1>2, Invariance, PTL DEF Spec, ImplementsRemoteCalls, Calls!Spec

\* Session::shutdown reports success only when the server ended by itself, having read
\* the whole request stream, and nothing was left unread.
THEOREM CleanShutdownTheorem == Spec => []CleanShutdown
BY Invariance, PTL DEF IInv

\* A session that SessionBuilder::spawn opened is served by the described interface,
\* however often the model file is edited around the start of the server.
THEOREM ServesDescribedInterfaceTheorem == Spec => []ServesDescribedInterface
<1>1. IInv => ServesDescribedInterface
  BY DEF IInv, Opening, ServesDescribedInterface
<1> QED BY <1>1, Invariance, PTL

\* ServerProcess leaves no process behind when a session has failed or ended.
THEOREM ServerReapedTheorem == Spec => []ServerReaped
BY Invariance, PTL DEF IInv
=============================================================================
