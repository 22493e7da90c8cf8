------------------------------ MODULE McpServer ------------------------------
(***************************************************************************)
(* The MCP server (slha-mcp/src/main.rs): newline-delimited JSON-RPC over  *)
(* a pipe, one message at a time.                                          *)
(*                                                                         *)
(* The client writes lines into the pipe, as fast as it likes; the server  *)
(* reads chunks of any length, so that a line arrives in pieces and a      *)
(* chunk ends anywhere. A payload unit stands for a run of bytes and       *)
(* carries the number of its line. A message is what the checks of handle  *)
(* and of the tools tell apart; texts and numeric results are left out.    *)
(***************************************************************************)
EXTENDS Integers, Sequences, FiniteSets

CONSTANTS
    Messages,        \* the messages the client may send, a sequence
    MAX_FRAME,       \* payload units of the largest frame
    MaxMessages      \* bound: lines sent

ASSUME McpAssumption ==
    /\ MAX_FRAME \in Nat /\ MaxMessages \in Nat
    /\ \A i \in DOMAIN Messages : Messages[i].size \in Nat \ {0}

VARIABLES
    sent,        \* history: the lines sent, as positions in Messages
    pending,     \* units in the pipe: line numbers, and 0 for a newline
    closed,      \* the client closed its end
    buffer,      \* the frame so far
    frame,       \* saw_input and too_large of read_frame
    pc,          \* "read", "handle" or "exit"
    done,        \* history: frames handled
    lifecycle,
    answers      \* responses written: id and kind

pipeVars == <<sent, pending, closed>>
mcpVars == <<pipeVars, buffer, frame, pc, done, lifecycle, answers>>

NEWLINE == 0
NewFrame == [saw_input |-> FALSE, too_large |-> FALSE]

McpInit ==
    /\ sent = <<>> /\ pending = <<>> /\ closed = FALSE
    /\ buffer = <<>> /\ frame = NewFrame /\ pc = "read" /\ done = 0
    /\ lifecycle = "Uninitialized" /\ answers = <<>>

-----------------------------------------------------------------------------
(* The client                                                               *)

Units(line, size) == [i \in 1 .. size |-> line]
Msg(line) == Messages[sent[line]]

Send(m) ==
    /\ ~closed /\ pc # "exit" /\ Len(sent) < MaxMessages
    /\ sent' = Append(sent, m)
    /\ pending' = pending \o Append(Units(Len(sent'), Messages[m].size), NEWLINE)
    /\ UNCHANGED <<closed, buffer, frame, pc, done, lifecycle, answers>>

(* The end of the input, after a last line without its newline or not.      *)
Close ==
    /\ ~closed
    /\ closed' = TRUE
    /\ \/ pending' = pending
       \/ /\ pending # <<>>
          /\ pending' = SubSeq(pending, 1, Len(pending) - 1)
    /\ UNCHANGED <<sent, buffer, frame, pc, done, lifecycle, answers>>

-----------------------------------------------------------------------------
(* read_frame                                                               *)

(* A chunk that does not fit makes the frame too large; the rest of it is   *)
(* read and dropped up to the newline. Mutant: reading stops at once.       *)
AtEnd_oversized(newline, too_large) == newline \/ too_large

(* Mutant: an oversized frame has no end.                                   *)
AtEnd_never(newline, too_large) == newline /\ ~too_large

AtEnd(newline, too_large) == newline

(* fill_buf returns the first k units that are there.                       *)
ReadChunk(k) ==
    LET newlines == {i \in 1 .. k : pending[i] = NEWLINE}
        newline  == newlines # {}
        payload_len == IF newline
                       THEN (CHOOSE i \in newlines : \A j \in newlines : i <= j) - 1
                       ELSE k
        consumed == payload_len + (IF newline THEN 1 ELSE 0)
        too_large == frame.too_large \/ Len(buffer) + payload_len > MAX_FRAME
    IN /\ pc = "read" /\ k \in 1 .. Len(pending)
       /\ frame' = [saw_input |-> TRUE, too_large |-> too_large]
       /\ buffer' = IF too_large THEN <<>>
                    ELSE buffer \o SubSeq(pending, 1, payload_len)
       /\ pending' = SubSeq(pending, consumed + 1, Len(pending))
       /\ pc' = IF AtEnd(newline, too_large) THEN "handle" ELSE "read"
       /\ UNCHANGED <<sent, closed, done, lifecycle, answers>>

(* An empty fill_buf is the end of the input: of the last frame if there is *)
(* one, of the server if not.                                               *)
ReadEof ==
    /\ pc = "read" /\ closed /\ pending = <<>>
    /\ pc' = IF frame.saw_input THEN "handle" ELSE "exit"
    /\ UNCHANGED <<pipeVars, buffer, frame, done, lifecycle, answers>>

(* A read error ends the server.                                            *)
ReadFails ==
    /\ pc = "read"
    /\ pc' = "exit"
    /\ UNCHANGED <<pipeVars, buffer, frame, done, lifecycle, answers>>

-----------------------------------------------------------------------------
(* The tools: "tool_result" or "tool_error"                                 *)

(* validate_object_fields: every property of the object is allowed.         *)
validate_object_fields(fields, allowed) == fields \subseteq allowed

(* f32_dims: an array of 128 numbers, each finite as f32.                   *)
f32_dims(v) == v = "128 finite"

(* bounded_integer_argument: absent, <<>>, or an integer between the bounds.*)
BENCHMARK_MIN_ITERATIONS == 1000
BENCHMARK_MAX_ITERATIONS == 5000000

bounded_integer_argument(n) ==
    \A i \in DOMAIN n : n[i] \in BENCHMARK_MIN_ITERATIONS .. BENCHMARK_MAX_ITERATIONS

tool_compress(a) ==
    /\ validate_object_fields(a.fields, {"key", "codec"})
    /\ f32_dims(a.key)
    /\ a.codec \in {"absent", "int4", "grouped", "nf4", "mixed", "tq3", "mix3"}

(* The score itself may overflow f32.                                       *)
tool_score(a) ==
    /\ validate_object_fields(a.fields, {"key", "query"})
    /\ f32_dims(a.key) /\ f32_dims(a.query)
    /\ ~a.overflows

tool_benchmark(a) ==
    validate_object_fields(a.fields, {"n"}) /\ bounded_integer_argument(a.n)

Succeeds(p) ==
    CASE p.name \in {"slha.audit", "slha.explain"} ->
            validate_object_fields(p.args.fields, {})
      [] p.name = "slha.compress"  -> tool_compress(p.args)
      [] p.name = "slha.score"     -> tool_score(p.args)
      [] p.name = "slha.benchmark" -> tool_benchmark(p.args)
      [] OTHER                     -> FALSE

(* handle_tool_call. A tool's failure is a result, not a JSON-RPC error.    *)
handle_tool_call(p) ==
    IF \/ p.absent \/ ~validate_object_fields(p.fields, {"name", "arguments"})
       \/ p.name = "" \/ ~p.args.object
    THEN "error -32602"
    ELSE IF Succeeds(p) THEN "tool_result" ELSE "tool_error"

-----------------------------------------------------------------------------
(* handle                                                                   *)

(* valid_request_id: a string or an integer that f64 represents exactly.    *)
valid_request_id(id) == id \notin {"none", "fraction", "unsafe", "null"}

(* handle_initialize: params, protocolVersion, capabilities, clientInfo.    *)
Initializes(m) == lifecycle = "Uninitialized" /\ m.params.valid_initialize

handle_initialize(m) ==
    IF lifecycle # "Uninitialized" THEN "error -32600"
    ELSE IF ~m.params.valid_initialize THEN "error -32602" ELSE "result"

Envelope(m) == m.object /\ m.jsonrpc = "2.0" /\ m.method # ""

Answer(id, kind) == <<[id |-> id, kind |-> kind]>>

(* Before the handshake is over only initialize and ping are served.        *)
Ready == lifecycle = "Ready"

Served(m) ==
    CASE m.method = "initialize" -> handle_initialize(m)
      [] m.method = "notifications/initialized" -> "error -32600"
      [] m.method = "ping"       -> "result"
      [] m.method \notin {"initialize", "notifications/initialized", "ping"}
           /\ ~Ready             -> "error -32002"
      [] Ready /\ m.method = "tools/list" -> "result"
      [] Ready /\ m.method = "tools/call" -> handle_tool_call(m.params)
      [] OTHER                   -> "error -32601"

Response(m) ==
    IF ~m.parses THEN Answer("null", "error -32700")
    ELSE IF ~Envelope(m) \/ ~(m.id = "none" \/ valid_request_id(m.id))
    THEN Answer("null", "error -32600")
    ELSE IF m.id = "none" THEN <<>>
    ELSE IF ~m.params.object THEN Answer(m.id, "error -32602")
    ELSE Answer(m.id, Served(m))

lifecycleAfter(m) ==
    IF m.parses /\ Envelope(m) /\ m.params.object
    THEN IF m.method = "initialize" /\ valid_request_id(m.id) /\ Initializes(m)
         THEN "AwaitingInitialized"
         ELSE IF /\ m.method = "notifications/initialized" /\ m.id = "none"
                 /\ lifecycle = "AwaitingInitialized"
         THEN "Ready" ELSE lifecycle
    ELSE lifecycle

(* What the frame holds: a line as it was sent, nothing, or a mixture.      *)
Line == buffer[1]
IsLine == buffer # <<>> /\ buffer = Units(Line, Msg(Line).size)

(* main: one frame. A cut last line parses only if nothing was cut off it,  *)
(* so a closing client cuts the newline alone. The answer may fail to be    *)
(* written, which ends the server.                                          *)
FrameResponse ==
    IF frame.too_large THEN Answer("null", "error -32700")
    ELSE IF buffer = <<>> THEN <<>>
    ELSE IF IsLine THEN Response(Msg(Line))
    ELSE Answer("null", "error -32700")

HandleFrame ==
    /\ pc = "handle"
    /\ lifecycle' = IF ~frame.too_large /\ buffer # <<>> /\ IsLine
                    THEN lifecycleAfter(Msg(Line)) ELSE lifecycle
    /\ \/ answers' = answers \o FrameResponse /\ pc' = "read"
       \/ FrameResponse # <<>> /\ pc' = "exit" /\ UNCHANGED answers
    /\ done' = done + 1
    /\ buffer' = <<>> /\ frame' = NewFrame
    /\ UNCHANGED pipeVars

Server == ReadEof \/ HandleFrame \/ \E k \in 1 .. Len(pending) : ReadChunk(k)

McpNext == \/ \E m \in DOMAIN Messages : Send(m)
        \/ Close \/ ReadFails \/ Server

(* The server is a loop with nothing to wait for but its input.             *)
McpSpec == McpInit /\ [][McpNext]_mcpVars /\ WF_mcpVars(Server)

-----------------------------------------------------------------------------
Answered(i) ==
    LET m == Messages[i]
    IN m.size > MAX_FRAME \/ ~m.parses \/ ~Envelope(m) \/ m.id # "none"

AnswerId(i) ==
    LET m == Messages[i]
    IN IF /\ m.size <= MAX_FRAME /\ m.parses
          /\ Envelope(m) /\ valid_request_id(m.id)
       THEN m.id ELSE "null"

Accepted(m) ==
    /\ m.method = "initialize" /\ m.size <= MAX_FRAME
    /\ m.params.valid_initialize /\ valid_request_id(m.id)

Confirms(m) ==
    m.method = "notifications/initialized" /\ m.id = "none" /\ m.size <= MAX_FRAME

RanATool(answer) == answer.kind \in {"tool_result", "tool_error"}

(* How many of the first i lines get an answer.                             *)
AnswersTo(i) == Cardinality({j \in 1 .. i : Answered(sent[j])})

(* A request is answered once with its own id, a frame that is no request   *)
(* once with a null id, and "JSON-RPC notifications must never receive a    *)
(* response"; in the order they were sent, however the input was cut into   *)
(* chunks and after any number of oversized frames. An answer comes from a  *)
(* tool only after an initialize request was accepted and, after that, the  *)
(* client confirmed it.                                                     *)
OneAnswerEach ==
    /\ done <= Len(sent)
    /\ pc = "read" =>
        /\ Len(answers) = AnswersTo(done)
        /\ \A i \in 1 .. done :
              Answered(sent[i]) => answers[AnswersTo(i)].id = AnswerId(sent[i])
    /\ (\E a \in DOMAIN answers : RanATool(answers[a])) =>
          \E i, j \in 1 .. done : i < j /\ Accepted(Msg(i)) /\ Confirms(Msg(j))

(* Whatever was sent is handled, unless reading or writing fails.           *)
EveryFrameHandled == \A n \in 1 .. MaxMessages : Len(sent) = n ~> (done >= n \/ pc = "exit")

=============================================================================
