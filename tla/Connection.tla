----------------------------- MODULE Connection -----------------------------
(***************************************************************************)
(* One client connection of the server: ConnectionHandler and              *)
(* ProtocolParser (server/src/connection_handler.cpp), the responses       *)
(* (server/src/protocol.cpp) and executeCommand of a standalone server     *)
(* (server/src/tcp_server.cpp).                                            *)
(*                                                                         *)
(* The byte stream is a sequence of symbols: a blank, a line end, or a     *)
(* word.  Only blanks and line ends steer the code, so a recv() that ends  *)
(* inside a word is the same as one that ends beside it.  Two words with   *)
(* nothing between them are a longer word.                                 *)
(***************************************************************************)
EXTENDS Integers, Sequences, FiniteSets, FiniteSetsExt, SequencesExt, Functions

CONSTANTS
    Lines,          \* what clients send, each up to and with its line end
    ChunkSize,      \* the size of the buffer given to recv() (4096)
    MaxBuffer,      \* MAX_BUFFER_SIZE (1 MB)
    MaxLines,       \* bound: lines a client sends
    MaxFailures     \* bound: requests in which the engine fails

ASSUME ConnectionAssumption ==
    /\ Lines \subseteq Seq(STRING)
    /\ \A l \in Lines : /\ Len(l) > 0 /\ Last(l) = "LF"
                        /\ \A i \in 1..(Len(l) - 1) : l[i] # "LF"
    /\ ChunkSize \in Nat \ {0} /\ {MaxBuffer, MaxLines, MaxFailures} \subseteq Nat

VARIABLES
    stream,         \* all the client has sent
    received,       \* how much of it recv() has returned
    client,         \* "there", or "gone": closed, reset, or not reading
    read_buffer,    \* read_buffer_
    line,           \* the line run() is at
    data, total,    \* writeResponse: the serialised response, the part sent
    quitting,       \* the response being written is the one to QUIT
    open,           \* run() has not returned
    store,          \* the engine: what each key may hold, <<>> for nothing
    results,        \* history: what the engine did for each line so far
    out             \* all the server has sent, the welcome left out

connectionVars ==
    <<stream, received, client, read_buffer, line, data, total, quitting, open,
      store, results, out>>

ConnectionInit ==
    /\ stream = <<>> /\ received = 0 /\ client = "there"
    /\ read_buffer = <<>> /\ line = <<>> /\ data = <<>> /\ total = 0
    /\ quitting = FALSE /\ open = TRUE
    /\ store = <<>> /\ results = <<>> /\ out = <<>>

-----------------------------------------------------------------------------
(* ProtocolParser *)
Blanks == {"SP", "TAB", "CR", "LF"}

TrimLeft(s) ==                  \* mutant: blanks at the end stay
    LET solid == {i \in DOMAIN s : s[i] \notin Blanks}
    IN  IF solid = {} THEN <<>> ELSE SubSeq(s, Min(solid), Len(s))
Trim(s) ==
    LET solid == {i \in DOMAIN s : s[i] \notin Blanks}
    IN  IF solid = {} THEN <<>> ELSE SubSeq(s, Min(solid), Max(solid))

\* std::string::find; 0 is npos.
Find(s, c) == Min({i \in DOMAIN s : s[i] = c} \cup {Len(s) + 1}) % (Len(s) + 1)

Before(s, i) == IF i = 0 THEN s ELSE SubSeq(s, 1, i - 1)
After(s, i)  == IF i = 0 THEN <<>> ELSE SubSeq(s, i + 1, Len(s))

\* The table has no STATUS, though the server can execute one.
ParseCommand(cmd) ==
    CASE cmd \in {<<"PUT">>, <<"SET">>}    -> "PUT"
      [] cmd = <<"GET">>                   -> "GET"
      [] cmd \in {<<"DELETE">>, <<"DEL">>} -> "DELETE"
      [] cmd = <<"PING">>                  -> "PING"
      [] cmd \in {<<"QUIT">>, <<"EXIT">>}  -> "QUIT"
      [] OTHER                             -> "UNKNOWN"

\* std::optional<Request> is a set of at most one request.
Parse(l) ==
    LET trimmed == Trim(l)
        p    == Find(trimmed, "SP")
        type == ParseCommand(Before(trimmed, p))
        rest == Trim(After(trimmed, p))
        e    == Find(rest, "SP")
        req  == [type  |-> type,
                 key   |-> CASE type = "PUT" -> Before(rest, e)
                             [] type \in {"GET", "DELETE"} -> rest
                             [] OTHER -> <<>>,
                 value |-> IF type = "PUT" THEN Trim(After(rest, e)) ELSE <<>>]
    IN  {r \in {req} : /\ trimmed # <<>>
                       /\ type = "PUT" => e # 0 /\ r.key # <<>> /\ r.value # <<>>
                       /\ type \in {"GET", "DELETE"} => r.key # <<>>}

-----------------------------------------------------------------------------
(* Response::serialize, and executeCommand on a map from keys to values.   *)
Error(msg) == <<"-ERR", msg, "CR", "LF">>
Ok(msg)    == <<"+OK", msg, "CR", "LF">>
ValueResponse(value) == <<"+VALUE">> \o value \o <<"CR", "LF">>

With(f, x, y) == [z \in DOMAIN f \cup {x} |-> IF z = x THEN y ELSE f[z]]

\* A write that has failed may have been made all the same: writerThreadLoop
\* answers false for a whole batch when anything in it throws.  Its key is in
\* doubt until a later write of it succeeds.
Found(kv, key) == IF key \in DOMAIN kv THEN kv[key] ELSE {<<>>}

\* What the engine may do: a future that is false, or an exception, and what
\* get(), or del() before it writes, finds under the key.
EngineMay(req, kv) ==
    CASE req.type = "PUT"    -> [how : {"done", "false", "throws"}, found : {<<>>}]
      [] req.type = "GET"    -> [how : {"done", "throws"}, found : Found(kv, req.key)]
      [] req.type = "DELETE" -> [how : {"done", "false", "throws"},
                                 found : Found(kv, req.key)]
      [] OTHER               -> [how : {"done"}, found : {<<>>}]

\* What is left under a key by writing x to it.
Written(kv, key, x, r) ==
    With(kv, key, IF r.how = "done" THEN {x} ELSE Found(kv, key) \cup {x})

\* del() answers by what it found, and leaves the result of the write unused.
Answer(req, r) ==
    IF r.how = "throws" THEN Error("INTERNAL_ERROR")
    ELSE CASE req.type = "PUT"    -> IF r.how = "done" THEN Ok("STORED")
                                                       ELSE Error("STORE_FAILED")
           [] req.type = "GET"    -> IF r.found = <<>> THEN Error("NOT_FOUND")
                                                       ELSE ValueResponse(r.found)
           [] req.type = "DELETE" -> IF r.found = <<>> THEN Error("DELETE_FAILED")
                                                       ELSE Ok("DELETED")
           [] req.type = "PING"   -> Ok("PONG")
           [] req.type = "QUIT"   -> Ok("BYE")
           [] OTHER               -> Error("UNKNOWN_COMMAND")

Execute(req, kv, r) ==
    [response |-> Answer(req, r),
     kv |-> CASE req.type = "PUT"    -> Written(kv, req.key, req.value, r)
              [] req.type = "DELETE" -> Written(kv, req.key, <<>>, r)
              [] OTHER               -> kv]

\* A line as readLine returns it, its CR dropped, and the requests of the lines
\* that clients send.
StripCR(l) == IF l # <<>> /\ Last(l) = "CR" THEN Front(l) ELSE l

Parsed == [l \in {StripCR(Front(m)) : m \in Lines} |-> Parse(l)]

\* One turn of run()'s loop, on a line.
Unparsed == [type |-> "UNKNOWN", key |-> <<>>, value |-> <<>>]

RequestIn(l) == CHOOSE r \in IF Parsed[l] = {} THEN {Unparsed} ELSE Parsed[l] : TRUE

Handle(l, kv, r) ==
    IF Parsed[l] = {} THEN [kv |-> kv, response |-> Error("INVALID_COMMAND")]
    ELSE Execute(RequestIn(l), kv, r)

IsQuit(l) == \E r \in Parsed[l] : r.type = "QUIT"

-----------------------------------------------------------------------------
(* The client.  What it sends after run() has returned reaches no one.     *)
ClientSend ==
    /\ client = "there" /\ open
    /\ Cardinality({i \in DOMAIN stream : stream[i] = "LF"}) < MaxLines
    /\ \E l \in Lines : stream' = stream \o l
    /\ UNCHANGED <<received, client, read_buffer, line, data, total, quitting, open,
                   store, results, out>>

\* It goes, or has read nothing for the 30 seconds send() waits.
ClientGo ==
    /\ client = "there" /\ client' = "gone"
    /\ UNCHANGED <<stream, received, read_buffer, line, data, total, quitting,
                   open, store, results, out>>

-----------------------------------------------------------------------------
(* readLine: recv() until the buffer holds a line end.  data is empty      *)
(* while run() is reading.                                                 *)
Reading == open /\ data = <<>>

Recv ==
    /\ Reading /\ Find(read_buffer, "LF") = 0
    /\ \E n \in 1..ChunkSize :
           /\ received + n <= Len(stream)
           /\ received' = received + n
           /\ read_buffer' = read_buffer \o SubSeq(stream, received + 1, received + n)
    /\ open' = (Len(read_buffer') <= MaxBuffer)
    /\ UNCHANGED <<stream, client, line, data, total, quitting, store, results, out>>

\* recv() returns 0 at the end of the stream, and fails when the connection is
\* reset or nothing has come for 30 seconds; an interrupted recv() is repeated.
RecvEndEarly ==                 \* mutant: a buffered line is not looked for
    /\ Reading
    /\ client = "gone" \/ received = Len(stream)
    /\ open' = FALSE
    /\ UNCHANGED <<stream, received, client, read_buffer, line, data, total,
                   quitting, store, results, out>>
RecvEnd ==
    /\ Reading /\ Find(read_buffer, "LF") = 0
    /\ client = "gone" \/ received = Len(stream)
    /\ open' = FALSE
    /\ UNCHANGED <<stream, received, client, read_buffer, line, data, total,
                   quitting, store, results, out>>

\* The line is cut off the buffer and executed.
Erase(p) == read_buffer' = After(read_buffer, p)

Failures(rs) == Cardinality({n \in DOMAIN rs : rs[n].how # "done"})

HandleLine ==
    /\ Reading /\ Find(read_buffer, "LF") # 0
    /\ Erase(Find(read_buffer, "LF"))
    /\ \E l \in {StripCR(Before(read_buffer, Find(read_buffer, "LF")))} :
           /\ line' = l
           /\ quitting' = IsQuit(l)
           /\ \E r \in EngineMay(RequestIn(l), store) :
                  /\ Failures(Append(results, r)) <= MaxFailures
                  /\ results' = Append(results, r)
                  /\ store' = Handle(l, store, r).kv
                  /\ data' = Handle(l, store, r).response
    /\ total' = 0
    /\ UNCHANGED <<stream, received, client, open, out>>

(* writeResponse: send() may take any part of what is left.                *)
SendFromStart ==                \* mutant: each send() begins at the start
    /\ open /\ data # <<>>
    /\ \E n \in 1..(Len(data) - total) :
           /\ total' = total + n
           /\ out' = out \o SubSeq(data, 1, n)
    /\ IF total' = Len(data) THEN data' = <<>> /\ open' = ~quitting
                             ELSE UNCHANGED <<data, open>>
    /\ UNCHANGED <<stream, received, client, read_buffer, line, quitting, store, results>>
Send ==
    /\ open /\ data # <<>>
    /\ \E n \in 1..(Len(data) - total) :
           /\ total' = total + n
           /\ out' = out \o SubSeq(data, total + 1, total + n)
    /\ IF total' = Len(data) THEN data' = <<>> /\ open' = ~quitting
                             ELSE UNCHANGED <<data, open>>
    /\ UNCHANGED <<stream, received, client, read_buffer, line, quitting, store, results>>

SendFail ==
    /\ open /\ data # <<>> /\ client = "gone"
    /\ open' = FALSE
    /\ UNCHANGED <<stream, received, client, read_buffer, line, data, total,
                   quitting, store, results, out>>

-----------------------------------------------------------------------------
Handler == Recv \/ RecvEnd \/ HandleLine \/ Send \/ SendFail

ConnectionNext == ClientSend \/ ClientGo \/ Handler

\* The handler's thread runs; what the client does is up to the client.
ConnectionSpec ==
    ConnectionInit /\ [][ConnectionNext]_connectionVars /\ WF_connectionVars(Handler)

-----------------------------------------------------------------------------
ConnectionTypeOK ==
    /\ received \in 0..Len(stream) /\ total \in Nat
    /\ client \in {"there", "gone"} /\ open \in BOOLEAN /\ quitting \in BOOLEAN
    /\ \A k \in DOMAIN store : k # <<>> /\ store[k] # {}

\* The lines of a stream, without their line ends; an unended rest is no line.
Ends(s) == {i \in DOMAIN s : s[i] = "LF"}

Upto(s, i) == Cardinality({j \in Ends(s) : j <= i})

EndOf(s, n) == CHOOSE i \in Ends(s) \cup {0} : Upto(s, i) = n

LinesOf(s) ==
    [n \in 1..Cardinality(Ends(s)) |-> SubSeq(s, EndOf(s, n - 1) + 1, EndOf(s, n) - 1)]

\* What a reader of the protocol expects of a line: blanks around the fields,
\* the key of PUT up to a space, everything else as in README.md's table.
Blank(text, i, j) == \A n \in i..j : text[n] \in Blanks
Field(text, i, j) == i <= j /\ text[i] \notin Blanks /\ text[j] \notin Blanks

\* Where the arguments of one of these commands begin and end.
Args(text, names) ==
    {a \in (1..Len(text)) \X (1..Len(text)) :
        /\ Field(text, a[1], a[2]) /\ Blank(text, a[2] + 1, Len(text))
        /\ \E c \in 1..(a[1] - 2) :
              /\ text[c] \in names /\ Blank(text, 1, c - 1)
              /\ text[c + 1] = "SP" /\ Blank(text, c + 1, a[1] - 1)}

\* For PUT, the space behind the key and the beginning of the value.
Pairs(text, a) ==
    {q \in (1..Len(text)) \X (1..Len(text)) :
        /\ a[1] < q[1] /\ q[1] < q[2] /\ Field(text, q[2], a[2])
        /\ \A n \in a[1]..(q[1] - 1) : text[n] # "SP"
        /\ text[q[1]] = "SP" /\ Blank(text, q[1], q[2] - 1)}

RequestOf(t, k, v) == [type |-> t, key |-> k, value |-> v]

Grammar(text) ==
    (UNION {{RequestOf("PUT", SubSeq(text, a[1], q[1] - 1), SubSeq(text, q[2], a[2])) :
                q \in Pairs(text, a)} : a \in Args(text, {"PUT", "SET"})})
    \cup {RequestOf("GET", SubSeq(text, a[1], a[2]), <<>>) : a \in Args(text, {"GET"})}
    \cup {RequestOf("DELETE", SubSeq(text, a[1], a[2]), <<>>) :
             a \in Args(text, {"DELETE", "DEL"})}

\* The parser takes a line for a PUT, GET or DELETE exactly when it has that
\* form, and finds the key and value the form gives (ProtocolParser::parse).
ParsesGrammar ==
    data # <<>> /\ total = 0 =>
        {r \in Parse(line) : r.type \in {"PUT", "GET", "DELETE"}} = Grammar(line)

\* What one interpreter that reads the stream line by line would answer, up to
\* the first QUIT, the engine doing for it what it did for the server.
Start == [kv |-> <<>>, text |-> <<>>, quit |-> FALSE]

Turn(run, l, r) ==
    IF run.quit THEN run
    ELSE LET done == Handle(StripCR(l), run.kv, r)
         IN  [kv |-> done.kv, text |-> run.text \o done.response,
              quit |-> IsQuit(StripCR(l))]

\* Its state after each of the lines that the engine has seen.
Runs(lines, rs) ==
    LET run[n \in 0..Len(rs)] ==
            IF n = 0 THEN Start ELSE Turn(run[n - 1], lines[n], rs[n])
    IN  run

Answered == Len(LinesOf(out))

\* Whatever the chunks recv() returned and send() took, the client reads the
\* answers to the lines it sent, one line each, in the order it sent them, and
\* nothing after the answer to QUIT: what is sent and what is on its way are the
\* text of one interpreter of the lines, and its engine is the server's.  So no
\* request is executed on the strength of part of a line, nor twice, also when
\* the engine has failed (run, readLine, writeResponse).
AnswersInOrder ==
    /\ ConnectionTypeOK
    /\ Len(results) <= Len(LinesOf(stream))
    /\ LET run == Runs(LinesOf(stream), results)[Len(results)]
       IN  /\ out \o SubSeq(data, total + 1, Len(data)) = run.text
           /\ store = run.kv
    /\ Answered = Len(results) - (IF data = <<>> THEN 0 ELSE 1)

\* A line is short enough if a whole chunk behind it still fits the buffer.
Short(l) == Len(l) + ChunkSize <= MaxBuffer

Due(n) ==
    LET lines == LinesOf(stream)
    IN  /\ n <= Len(lines)
        /\ \A m \in 1..n : Short(lines[m])
        /\ \A m \in 1..(n - 1) : ~IsQuit(StripCR(lines[m]))

\* The lines a client has sent are all answered, up to QUIT, as long as they
\* are short and the client reads its answers; it need not send any more
\* (readLine looks at what is buffered before it waits for recv()).
LinesAnswered ==
    \A n \in 1..MaxLines :
        []<>(Due(n) => Answered >= n \/ client = "gone")
=============================================================================
