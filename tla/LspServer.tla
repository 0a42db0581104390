---- MODULE LspServer ----
(***************************************************************************)
(* lsp_server.c: the language server, which reads requests and             *)
(* notifications of an editor from a pipe and answers on another.  It      *)
(* keeps one document.  The client is what the protocol lets an editor do, *)
(* and may in addition frame a message wrongly or close its end at any     *)
(* time.                                                                   *)
(***************************************************************************)
EXTENDS JsonRpc

CONSTANTS Uris, Texts,       \* sequences of units
          DiagnosticsOf(_),  \* what the schema parser reports of a text
          Plain,             \* requests and notifications without params
          Hows,              \* how a message may be framed
          Spoiled,           \* methods whose messages may be framed wrongly
          MaxSent,           \* messages the client sends
          MaxAhead,          \* messages it is ahead of the server
          OutCap             \* messages the pipe to the client holds

ASSUME BoundsAreNumbers == MaxSent \in Nat /\ MaxAhead \in Nat /\ OutCap \in Nat \ {0}

VARIABLES toServer, toClient,  \* the pipes, of units and of messages
          closed,              \* the client closed its end
          sent,                \* [cmd, how] of every message
          buffers,             \* the client's open documents, a function to texts
          several,             \* it had two of them open at once
          got,                 \* messages the client received
          phase, length,       \* where the server is in its loop,
          body, msg,           \* the body it has read and what it parsed to
          reads,               \* messages it has read
          doc,                 \* [uri, content], {} for a null pointer
          initialized, shutdown
client == <<closed, sent, buffers, several>>
reader == <<phase, length, body, msg, reads>>
flags == <<initialized, shutdown>>
vars == <<toServer, toClient, client, got, reader, doc, flags>>

Whole(how) == how = "whole"
----
(* The client.  A command is [method, id, uri, text]; id is its units.     *)
TextDocument(members) == Member("params", Object(<<Member("textDocument", Object(members))>>))
Params(cmd) ==
    LET uri == Member("uri", EscapeString(cmd.uri))
        text == Member("text", EscapeString(cmd.text))
    IN  CASE cmd.method = "textDocument/didOpen" -> <<TextDocument(<<uri, text>>)>>
          [] cmd.method = "textDocument/didClose" -> <<TextDocument(<<uri>>)>>
          [] cmd.method = "textDocument/didChange" ->
                <<Member("params", Object(<<Member("textDocument", Object(<<uri>>)),
                                            Member("contentChanges", Array(<<Object(<<text>>)>>))>>))>>
          [] cmd.method = "textDocument/didSave" -> <<Member("params", Object(<<uri>> \o
                                                        (IF cmd.text = <<>> THEN <<>> ELSE <<text>>)))>>
          [] OTHER -> <<>>
Body(cmd) == Object((IF cmd.id = <<>> THEN <<>> ELSE <<Member("id", cmd.id)>>)
                      \o <<Member("method", EscapeString(<<cmd.method>>))>> \o Params(cmd))

(* A length that is too small or too great, none, a body that is no JSON.  *)
Framed(cmd, how) ==
    LET b == Body(cmd)
    IN  CASE how = "whole" -> Frame(Len(b), b)
          [] how = "short" -> Frame(Len(b) - 3, b)
          [] how = "long" -> Frame(Len(b) + 3, b)
          [] how = "unframed" -> <<"Content-Type:", "EOL", "EOL">> \o b
          [] how = "broken" -> Frame(Len(b) - 1, Front(b))

Requests == {"initialize", "shutdown", "textDocument/completion", "textDocument/hover", "workspace/symbol"}
Command(method, id, uri, text) == [method |-> method, id |-> id, uri |-> uri, text |-> text]
Notify(method, uri, text) == Command(method, <<>>, uri, text)
NextId == Number(Len(sent) + 1)
IdOf(m) == IF m = "textDocument/hover" THEN EscapeString(<<"id">>) ELSE IF m \in Requests THEN NextId ELSE <<>>

Send(cmd, how) ==
    /\ ~closed /\ Len(sent) < MaxSent /\ Len(sent) < reads + MaxAhead
    /\ ~Whole(how) => cmd.method \in Spoiled /\ \A i \in DOMAIN sent : Whole(sent[i].how)
    /\ sent' = Append(sent, [cmd |-> cmd, how |-> how])
    /\ toServer' = toServer \o Framed(cmd, how)
    /\ UNCHANGED <<toClient, closed, got, reader, doc, flags>>

SendPlain == \E m \in Plain, how \in Hows :
    Send(Command(m, IdOf(m), <<>>, <<>>), how) /\ UNCHANGED <<buffers, several>>
Open(u, t) ==
    /\ u \notin DOMAIN buffers
    /\ \E how \in Hows : Send(Notify("textDocument/didOpen", u, t), how)
    /\ buffers' = (u :> t) @@ buffers
    /\ several' = (several \/ buffers # <<>>)
Change(u, t) ==
    /\ u \in DOMAIN buffers
    /\ \E how \in Hows : Send(Notify("textDocument/didChange", u, t), how)
    /\ buffers' = [buffers EXCEPT ![u] = t]
    /\ UNCHANGED several
Save(u) ==
    /\ u \in DOMAIN buffers
    /\ \E t \in {buffers[u], <<>>} : Send(Notify("textDocument/didSave", u, t), "whole")
    /\ UNCHANGED <<buffers, several>>
Close(u) ==
    /\ u \in DOMAIN buffers
    /\ Send(Notify("textDocument/didClose", u, <<>>), "whole")
    /\ buffers' = [v \in DOMAIN buffers \ {u} |-> buffers[v]]
    /\ UNCHANGED several
Hang == /\ ~closed /\ closed' = TRUE
        /\ UNCHANGED <<toServer, toClient, sent, buffers, several, got, reader, doc, flags>>

(* What the client makes of a message: an answer's id, or what was         *)
(* published about which document.                                         *)
Messages(v) == LET d == Val(Get(v, "diagnostics")) IN [i \in DOMAIN d |-> Val(Get(d[i], "message"))]
Understood(text) ==
    LET m == Parse(text).val
        p == Get(m, "params")
    IN  IF ~Missing(Get(m, "id"))
        THEN [kind |-> IF Missing(Get(m, "error")) THEN "result" ELSE "error",
              id |-> LongOf(Get(m, "id")), uri |-> <<>>, about |-> <<>>]
        ELSE [kind |-> "publish", id |-> 0, uri |-> Val(Get(p, "uri")), about |-> Messages(p)]
Receive ==
    /\ toClient # <<>> /\ toClient' = Tail(toClient)
    /\ got' = Append(got, Understood(Head(toClient)))
    /\ UNCHANGED <<toServer, client, reader, doc, flags>>
----
(* The server's loop: a line of the headers, the body, the handler. *)
End == phase' = "ended" /\ UNCHANGED <<length, body, msg>>
ReadLine ==
    /\ phase = "headers" /\ HasLine(toServer)
    /\ LET n == LineEnd(toServer)
           line == SubSeq(toServer, 1, n - 1)
       IN  /\ toServer' = SubSeq(toServer, n + 1, Len(toServer))
           /\ IF line = <<>>
              THEN IF length <= 0 THEN End ELSE phase' = "body" /\ UNCHANGED <<length, body, msg>>
              ELSE /\ length' = IF IsLength(line) THEN LengthIn(line) ELSE length
                   /\ UNCHANGED <<phase, body, msg>>
    /\ UNCHANGED <<toClient, client, got, reads, doc, flags>>

(* The stream ends within the headers or before the whole of a body. *)
ReadEnd ==
    /\ closed
    /\ \/ phase = "headers" /\ ~HasLine(toServer)
       \/ phase = "body" /\ Len(toServer) < length
    /\ End /\ toServer' = <<>>
    /\ UNCHANGED <<toClient, client, got, reads, doc, flags>>

(* Mutant: the read waits for a byte too many. *)
ReadBodyPastEnd ==
    /\ phase = "body" /\ Len(toServer) > length
    /\ phase' = "parse" /\ body' = SubSeq(toServer, 1, length)
    /\ toServer' = SubSeq(toServer, length + 1, Len(toServer))
    /\ length' = -1 /\ reads' = reads + 1
    /\ UNCHANGED <<toClient, client, got, msg, doc, flags>>
ReadBody ==
    /\ phase = "body" /\ Len(toServer) >= length
    /\ phase' = "parse" /\ body' = SubSeq(toServer, 1, length)
    /\ toServer' = SubSeq(toServer, length + 1, Len(toServer))
    /\ length' = -1 /\ reads' = reads + 1
    /\ UNCHANGED <<toClient, client, got, msg, doc, flags>>

(* Mutants: a body that is no JSON leaves the message before it to be      *)
(* handled again; it ends the server.                                      *)
ParseBodyStale ==
    /\ phase = "parse" /\ phase' = "handle" /\ body' = <<>>
    /\ LET v == Parse(body) IN msg' = IF v.ok THEN v.val ELSE msg
    /\ UNCHANGED <<toServer, toClient, client, got, length, reads, doc, flags>>
ParseBodyStrict ==
    /\ phase = "parse" /\ body' = <<>>
    /\ LET v == Parse(body) IN phase' = (IF v.ok THEN "handle" ELSE "ended") /\ msg' = v.val
    /\ UNCHANGED <<toServer, toClient, client, got, length, reads, doc, flags>>
(* A body that is no JSON is dropped without a word. *)
ParseBody ==
    /\ phase = "parse" /\ body' = <<>>
    /\ LET v == Parse(body) IN phase' = (IF v.ok THEN "handle" ELSE "headers") /\ msg' = v.val
    /\ UNCHANGED <<toServer, toClient, client, got, length, reads, doc, flags>>

Method == Get(msg, "method")
Is(method) == phase = "handle" /\ IsString(Method) /\ Val(Method) = <<method>>
Id == IF Missing(Get(msg, "id")) THEN -1 ELSE LongOf(Get(msg, "id"))
MsgParams == Get(msg, "params")
Done == phase' = "headers" /\ UNCHANGED <<toServer, client, got, length, body, msg, reads>>
Write(m) == Len(toClient) < OutCap /\ toClient' = Append(toClient, m)
Silent == UNCHANGED toClient

(* The parser counts lines and columns from 1, or says 0 for nowhere. *)
Diagnostic(e) ==
    LET from0(n) == Number(IF n > 0 THEN n - 1 ELSE 0)
        col == IF e.col > 0 THEN e.col - 1 ELSE 0
    IN  Object(<<Member("range", Object(<<
                    Member("start", Object(<<Member("line", from0(e.line)), Member("character", from0(e.col))>>)),
                    Member("end", Object(<<Member("line", from0(e.line)), Member("character", Number(col + 1))>>))>>)),
                 Member("severity", Number(e.severity)), Member("source", EscapeString(<<"json-gen-c">>)),
                 Member("message", EscapeString(e.message))>>)
Publish(uri, diagnostics) ==
    Write(Notification("textDocument/publishDiagnostics",
        Object(<<Member("uri", EscapeString(uri)),
                 Member("diagnostics", Array([i \in DOMAIN diagnostics |-> Diagnostic(diagnostics[i])]))>>)))
(* Nothing is published of a document without a name. *)
Validate(d) ==
    IF d.uri = {} \/ d.content = {} THEN Silent
    ELSE \E u \in d.uri, t \in d.content : Publish(u, DiagnosticsOf(t))

Initialize == /\ Is("initialize") /\ Done
              /\ Write(Response(Id, Object(<<Member("capabilities", Object(<<>>))>>)))
              /\ initialized' = TRUE /\ UNCHANGED <<doc, shutdown>>
Initialized == Is("initialized") /\ Done /\ Silent /\ UNCHANGED <<doc, flags>>
Shutdown == /\ Is("shutdown") /\ Done /\ Write(Response(Id, <<"null">>))
            /\ shutdown' = TRUE /\ UNCHANGED <<doc, initialized>>
Exit == /\ Is("exit") /\ End /\ Silent
        /\ UNCHANGED <<toServer, client, got, reads, doc, flags>>

DidOpen ==
    LET td == Get(MsgParams, "textDocument")
        uri == Get(td, "uri")
        text == Get(td, "text")
    IN  /\ Is("textDocument/didOpen") /\ ~Missing(MsgParams) /\ Done
        /\ IF IsString(uri) /\ IsString(text)
           THEN doc' = [uri |-> {Val(uri)}, content |-> {Val(text)}] /\ Validate(doc')
           ELSE Silent /\ UNCHANGED doc
        /\ UNCHANGED flags
(* Which document has changed is not looked at, nor which one was saved. *)
DidChange ==
    LET changes == Get(MsgParams, "contentChanges")
        text == Get(Last(Val(changes)), "text")
    IN  /\ Is("textDocument/didChange") /\ ~Missing(MsgParams) /\ Done
        /\ IF Type(changes) = "array" /\ Val(changes) # <<>> /\ IsString(text)
           THEN doc' = [doc EXCEPT !.content = {Val(text)}] /\ Validate(doc')
           ELSE Silent /\ UNCHANGED doc
        /\ UNCHANGED flags
DidSave ==
    LET text == Get(MsgParams, "text")
    IN  /\ Is("textDocument/didSave") /\ ~Missing(MsgParams) /\ Done
        /\ doc' = IF IsString(text) THEN [doc EXCEPT !.content = {Val(text)}] ELSE doc
        /\ Validate(doc') /\ UNCHANGED flags
DidClose ==
    LET uri == Get(Get(MsgParams, "textDocument"), "uri")
    IN  /\ Is("textDocument/didClose") /\ ~Missing(MsgParams) /\ Done
        /\ IF IsString(uri) /\ doc.uri = {Val(uri)}
           THEN Publish(Val(uri), <<>>) /\ doc' = [uri |-> {}, content |-> {}]
           ELSE Silent /\ UNCHANGED doc
        /\ UNCHANGED flags

(* The same list whatever is being typed; some of its labels. *)
Completions == <<"struct", "enum", "oneof", "int", "sstr_t", "@json", "@tag">>
Completion ==
    /\ Is("textDocument/completion") /\ Id >= 0 /\ Done
    /\ Write(Response(Id, Array([i \in DOMAIN Completions |->
                Object(<<Member("label", EscapeString(<<Completions[i]>>)), Member("kind", Number(14))>>)])))
    /\ UNCHANGED <<doc, flags>>
Hover == /\ Is("textDocument/hover") /\ Id >= 0 /\ Done
         /\ Write(Response(Id, <<"null">>)) /\ UNCHANGED <<doc, flags>>

Handled == {"initialize", "initialized", "shutdown", "exit"}
Notified == {"textDocument/didOpen", "textDocument/didChange", "textDocument/didSave", "textDocument/didClose"}
Asked == {"textDocument/completion", "textDocument/hover"}
NotFound(id) == Object(<<Member("jsonrpc", EscapeString(<<"2.0">>)), Member("id", Number(id)),
                         Member("error", Object(<<Member("code", Number(-32601)),
                                                  Member("message", EscapeString(<<"Method not found">>))>>))>>)
(* Mutant: a notification is answered too. *)
OtherMethodAnswered ==
    /\ phase = "handle"
    /\ ~\E m \in Handled : Is(m)
    /\ ~Missing(MsgParams) => ~\E m \in Notified : Is(m)
    /\ Id >= 0 => ~\E m \in Asked : Is(m)
    /\ Done /\ UNCHANGED <<doc, flags>>
    /\ IF IsString(Method) THEN Write(NotFound(Id)) ELSE Silent
(* Neither of these: a request is told so, a notification is dropped. *)
OtherMethod ==
    /\ phase = "handle"
    /\ ~\E m \in Handled : Is(m)
    /\ ~Missing(MsgParams) => ~\E m \in Notified : Is(m)
    /\ Id >= 0 => ~\E m \in Asked : Is(m)
    /\ Done /\ UNCHANGED <<doc, flags>>
    /\ IF IsString(Method) /\ Id >= 0 THEN Write(NotFound(Id)) ELSE Silent
----
Init ==
    /\ toServer = <<>> /\ toClient = <<>> /\ closed = FALSE /\ sent = <<>>
    /\ buffers = <<>> /\ several = FALSE /\ got = <<>>
    /\ phase = "headers" /\ length = -1 /\ body = <<>> /\ msg = Absent /\ reads = 0
    /\ doc = [uri |-> {}, content |-> {}] /\ initialized = FALSE /\ shutdown = FALSE

Client == SendPlain \/ (\E u \in Uris, t \in Texts : Open(u, t) \/ Change(u, t))
            \/ (\E u \in Uris : Save(u) \/ Close(u)) \/ Hang
Reading == ReadLine \/ ReadEnd \/ ReadBody
Handling == ParseBody \/ Initialize \/ Initialized \/ Shutdown \/ Exit
            \/ DidOpen \/ DidChange \/ DidSave \/ DidClose \/ Completion \/ Hover \/ OtherMethod
Next == Client \/ Receive \/ Reading \/ Handling

(* The server's process runs: its reads return when they can, and what it  *)
(* has read is parsed and handled as soon as the pipe it may write to has  *)
(* room, a condition in place of ENABLED Handling that implies it.  The    *)
(* editor reads what it is sent; it need not send anything.                *)
Ready == phase = "parse" \/ (phase = "handle" /\ Len(toClient) < OutCap)
Handles == []<>(~Ready) \/ []<><<phase \in {"parse", "handle"}>>_phase
ClientReads == []<>(toClient = <<>>) \/ []<><<TRUE>>_got
Spec == Init /\ [][Next]_vars /\ WF_vars(Reading) /\ Handles /\ ClientReads
----
(* What is handled is a message of the client, all of it and in its turn,  *)
(* however the messages before it were framed: the rest of a body that was *)
(* cut is never taken for a message of its own.                            *)
Framing == phase = "handle" => msg = Parse(Body(sent[reads].cmd)).val

(* Every request that can be understood is answered once, in the order of  *)
(* the requests and under its own id, and nothing else is answered.  A     *)
(* string in place of a number is answered as 0.                           *)
Understandable(s) == Whole(s.how) \/ s.how = "long"
IsRequest(s) == s.cmd.id # <<>>
Answer(s) == [kind |-> IF s.cmd.method = "workspace/symbol" THEN "error" ELSE "result",
              id |-> LongOf(ParseValue(s.cmd.id, 1).val)]
Taken == SubSeq(sent, 1, IF phase \in {"parse", "handle"} THEN reads - 1 ELSE reads)
Owed(s) == IsRequest(s) /\ Understandable(s)
Written == got \o [i \in DOMAIN toClient |-> Understood(toClient[i])]
IsAnswer(m) == m.kind # "publish"
Answered == LET a == SelectSeq(Written, IsAnswer) IN [i \in DOMAIN a |-> [kind |-> a[i].kind, id |-> a[i].id]]
AnsweredOnce == LET o == SelectSeq(Taken, Owed) IN Answered = [i \in DOMAIN o |-> Answer(o[i])]

(* As soon as the server has caught up, a client that has one document     *)
(* open at a time was last told of every document what the parser finds in *)
(* the text it has now, and nothing of one that it has closed.             *)
CaughtUp == phase = "headers" /\ toServer = <<>>
Told(u) == LET p == {i \in DOMAIN Written : Written[i].kind = "publish" /\ Written[i].uri = u}
           IN  IF p = {} THEN <<>> ELSE Written[CHOOSE i \in p : \A j \in p : j <= i].about
Findings(u) == LET d == DiagnosticsOf(buffers[u]) IN [i \in DOMAIN d |-> d[i].message]
Fresh ==
    CaughtUp /\ ~several /\ (\A s \in Range(sent) : Whole(s.how))
        => \A u \in Uris : Told(u) = IF u \in DOMAIN buffers THEN Findings(u) ELSE <<>>

(* The server ends only when it is told to, when its input ends or when it *)
(* has lost the frames; a body that is no JSON does not end it.  It exits  *)
(* with 0 only after a shutdown.                                           *)
ExitStatus == IF shutdown THEN 0 ELSE 1
Exits ==
    phase = "ended" =>
        /\ \/ closed
           \/ reads > 0 /\ sent[reads].cmd.method = "exit"
           \/ \E s \in Range(sent) : s.how \in {"short", "long", "unframed"}
        /\ ExitStatus = 0 <=> \E s \in Range(SubSeq(sent, 1, reads)) : s.cmd.method = "shutdown" /\ Understandable(s)

(* A request sent in order, behind messages that leave the server running  *)
(* and in step, is answered in the end, even if nothing follows it.        *)
InStep(i) == \A j \in 1..i : sent[j].how \in {"whole", "broken"} /\ sent[j].cmd.method # "exit"
Due(i) == i \in DOMAIN sent /\ InStep(i) /\ sent[i].how # "broken" /\ sent[i].cmd.id = Number(i)
EveryAnswer == \A i \in 1..MaxSent : Due(i) ~> \E j \in DOMAIN got : got[j].id = i
====
