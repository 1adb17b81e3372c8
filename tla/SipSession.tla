----------------------------- MODULE SipSession -----------------------------
(***************************************************************************)
(* A SipSession over TCP (src/inner/sip_session.cpp): how it puts the      *)
(* SIP messages of its peer together again, however TCP has cut them, and  *)
(* hands them to libsip, and how it ends.                                  *)
(*                                                                         *)
(* The stream is a sequence of characters.  A message is the shortest text *)
(* that get_sip_message_type() can tell apart: a start line of two         *)
(* characters and its line end, headers with the SIP/2.0 of their Via, and *)
(* a rest that ends with a line end.                                       *)
(***************************************************************************)
EXTENDS Integers, Sequences, FiniteSets, SequencesExt

CONSTANTS Messages,     \* how many messages the peer writes
          Keepalives,   \* bound: messages the peer may put a blank line before
          MaxBuffers    \* bound: received buffers that wait to be handled

ASSUME SessionAssumption ==
    /\ Messages \in Nat
    /\ Keepalives \subseteq 1..Messages
    /\ MaxBuffers \in Nat \ {0}

VARIABLES stream,    \* what the peer writes
          arrived,   \* how many characters of the stream have been received
          open,      \* the socket is connected
          silent,    \* more than 60 s since ticker_ was reset
          recv,      \* _recv_buffers
          handling,  \* _handing_recv
          kept,      \* _message_buffer, <<>> for a null pointer
          wait,      \* _wait_type: "need_more" or "message"
          parsed,    \* what the http parser _sip_parse has taken in
          tasks,     \* what the session has queued on its poller
          agent,     \* what sip_agent_input() was given, Damaged for a wrong text
          cuts,      \* observer: messages whose start line came in two buffers
          overread   \* observer: get_buffer() has read past the end of a buffer

sessionVars == <<stream, arrived, open, silent, recv, handling, kept, wait, parsed,
                 tasks, agent, cuts, overread>>
framing == <<kept, wait, parsed, overread>>
Damaged == 0

-----------------------------------------------------------------------------
\* The stream of the peer.
Parts == <<"method", "version", "eol", "headers", "body">>
Char(m, part) == [msg |-> m, part |-> part]
Text(m) == [i \in DOMAIN Parts |-> Char(m, Parts[i])]
Junk == Char(0, "junk")

\* All messages in order, with a blank line (a keepalive) before some of them.
StreamOf(padded) ==
    FlattenSeq([m \in 1..Messages |->
                   (IF m \in padded THEN <<Char(0, "blank")>> ELSE <<>>) \o Text(m)])

Newlines == {"eol", "body", "blank"}
SipFlags == {"version", "headers"}   \* they contain "SIP/2.0"

-----------------------------------------------------------------------------
\* get_sip_message_type(): where a start line begins in what has been received.

\* check_line: the first SIP/2.0 of the line has to be that of a start line.
CheckLine(line) ==
    LET flag == SelectInSeq(line, LAMBDA c : c.part \in SipFlags)
    IN  IF flag > 1 /\ line[flag].part = "version" /\ line[flag - 1].part = "method"
        THEN flag - 1 ELSE 0

LineEnds(data) == {i \in DOMAIN data : data[i].part \in Newlines}
LineStart(data, end) == Max({0} \cup {i \in LineEnds(data) : i < end}) + 1

\* data.substr(pos, crlf_pos): the line end is an index and is passed as a
\* length, so that all lines but the first reach into those that follow.
Line(data, pos, end) == SubSeq(data, pos, Min({pos + end - 2, Len(data)}))

\* The line that ends at end, as get_sip_message_type() looks at it.
LineAt(data, end) ==
    [pos |-> LineStart(data, end), text |-> Line(data, LineStart(data, end), end)]

\* Where a start line begins in the line, or 0.
StartIn(line) ==
    LET at == CheckLine(line.text) IN IF at = 0 THEN 0 ELSE line.pos - 1 + at

\* Where the text of a message begins in data, or 0: as the first of its lines
\* that holds a start line has it.
Starts(data) ==
    {StartIn(line) : line \in {LineAt(data, end) : end \in LineEnds(data)}} \ {0}
Found(data) == Min(Starts(data) \cup (IF Starts(data) = {} THEN {0} ELSE {}))

\* get_buffer: a buffer that does not begin with the message is copied from
\* there at its full length, past its end.
GetBuffer(data, from) ==
    SubSeq(data, from, Len(data))
        \o (IF kept = <<>> THEN [i \in 1..(from - 1) |-> Junk] ELSE <<>>)

\* What becomes of _message_buffer when there is no start line: it is kept with
\* what has come, up to 8 kB, which the model does not reach; a first buffer is copied
\* and the copy forgotten.
Keep(data) == IF kept = <<>> THEN <<>> ELSE data

-----------------------------------------------------------------------------
\* libsip's http parser.  It asks for more until it has a whole message, and
\* what follows that remains.  Text with bytes of foreign memory in it may be
\* taken, refused or waited for.
HasJunk(text) == \E i \in DOMAIN text : text[i] = Junk
ParserInput(text) ==
    LET size  == Len(Parts)
        first == SubSeq(text, 1, Min({size, Len(text)}))
        rest  == SubSeq(text, size + 1, Len(text))
        result(ret, m, remaining) == [ret |-> ret, msg |-> m, rest |-> remaining]
    IN  IF HasJunk(first)
        THEN {result("more", Damaged, <<>>), result("failed", Damaged, <<>>),
              result("failed", Damaged, rest), result("done", Damaged, rest)}
        ELSE IF Len(text) < size THEN {result("more", Damaged, <<>>)}
        ELSE {result("done", IF first = Text(first[1].msg) THEN first[1].msg ELSE Damaged, rest)}

\* mutant: what is left goes to the end of the queue.
PushRemainingBack(rest, queue) == IF rest = <<>> THEN queue ELSE Append(queue, rest)
\* What is left goes back to the front of the queue.
PushRemaining(rest, queue) == IF rest = <<>> THEN queue ELSE <<rest>> \o queue

\* mutant: one call takes one buffer.
HandledOne(queue) == TRUE
\* handle_recv() goes on until the queue is empty.
Handled(queue) == queue = <<>>

-----------------------------------------------------------------------------
Task(kind, m) == [kind |-> kind, msg |-> m]
IsNext(kind) == tasks # <<>> /\ Head(tasks).kind = kind

SessionInit ==
    /\ \E padded \in SUBSET Keepalives : stream = StreamOf(padded)
    /\ arrived = 0
    /\ open = TRUE /\ silent = FALSE
    /\ recv = <<>> /\ handling = FALSE
    /\ kept = <<>> /\ wait = "need_more" /\ parsed = <<>>
    /\ tasks = <<>> /\ agent = <<>>
    /\ cuts = {} /\ overread = FALSE

\* onRecv: the socket reads up to some character of the stream.
OnRecv ==
    /\ open /\ ~handling /\ Len(recv) < MaxBuffers
    /\ \E to \in (arrived + 1)..Len(stream) :
          /\ recv' = Append(recv, SubSeq(stream, arrived + 1, to))
          /\ arrived' = to
          /\ cuts' = cuts \cup {c.msg : c \in {x \in {stream[to]} : x.part \in {"method", "version"}}}
    /\ silent' = FALSE
    /\ tasks' = Append(tasks, Task("handle", 0))
    /\ UNCHANGED <<stream, open, handling, framing, agent>>

\* handle_recv: one buffer of the loop goes through the parser.
Input(buffer) ==
    \E text \in {parsed \o buffer} : \E result \in ParserInput(text) :
        /\ wait' = IF result.ret = "more" THEN "message" ELSE "need_more"
        /\ parsed' = IF result.ret = "more" THEN text ELSE <<>>
        /\ recv' = PushRemaining(result.rest, Tail(recv))
        /\ tasks' = (IF Handled(recv') THEN Tail(tasks) ELSE tasks)
                      \o (IF result.ret = "done" THEN <<Task("input", result.msg)>> ELSE <<>>)
        /\ handling' = ~Handled(recv')

\* handle_recv: the session waits for a start line.
Search ==
    /\ IsNext("handle") /\ recv # <<>> /\ wait = "need_more"
    /\ \E data \in {kept \o Head(recv)} : \E from \in {Found(data)} :
           IF from = 0
           THEN /\ recv' = Tail(recv)
                /\ kept' = Keep(data)
                /\ tasks' = IF Handled(recv') THEN Tail(tasks) ELSE tasks
                /\ handling' = ~Handled(recv')
                /\ UNCHANGED <<wait, parsed, overread>>
           ELSE /\ Input(GetBuffer(data, from))
                /\ kept' = <<>>
                /\ overread' = (overread \/ (kept = <<>> /\ from > 1))
    /\ UNCHANGED <<stream, arrived, open, silent, agent, cuts>>

\* handle_recv: the parser waits for the rest of a message.
Parse ==
    /\ IsNext("handle") /\ recv # <<>> /\ wait = "message"
    /\ Input(Head(recv))
    /\ UNCHANGED <<stream, arrived, open, silent, kept, agent, cuts, overread>>

\* handle_recv: an earlier call has left nothing to do.
HandleNothing ==
    /\ IsNext("handle") /\ recv = <<>>
    /\ tasks' = Tail(tasks)
    /\ UNCHANGED <<stream, arrived, open, silent, recv, handling, framing, agent, cuts>>

\* The task that handle_recv() queues for a message.
AgentInput ==
    /\ IsNext("input")
    /\ agent' = Append(agent, Head(tasks).msg)
    /\ tasks' = Tail(tasks)
    /\ UNCHANGED <<stream, arrived, open, silent, recv, handling, framing, cuts>>

\* sip_send() has a task write, sip_send_reply() writes at once: either way
\* what is written resets the clock.
Write ==
    /\ open /\ ~handling
    /\ silent' = FALSE
    /\ UNCHANGED <<stream, arrived, open, recv, handling, framing, tasks, agent, cuts>>

\* A minute is longer than any task takes.
Silence ==
    /\ tasks = <<>> /\ ~silent
    /\ silent' = TRUE
    /\ UNCHANGED <<stream, arrived, open, recv, handling, framing, tasks, agent, cuts>>

\* onManager, every 2 s.
OnManager ==
    /\ open /\ silent /\ ~handling
    /\ open' = FALSE
    /\ UNCHANGED <<stream, arrived, silent, recv, handling, framing, tasks, agent, cuts>>

\* onError: the peer or the network ends the connection.
OnError ==
    /\ open /\ ~handling
    /\ open' = FALSE
    /\ UNCHANGED <<stream, arrived, silent, recv, handling, framing, tasks, agent, cuts>>

\* The last reference to a closed session is gone: its tasks find it so.
Destroyed ==
    /\ ~open /\ ~handling /\ tasks # <<>>
    /\ tasks' = <<>> /\ recv' = <<>>
    /\ UNCHANGED <<stream, arrived, open, silent, handling, framing, agent, cuts>>

Poller == Search \/ Parse \/ HandleNothing \/ AgentInput
SessionNext ==
    \/ Poller \/ OnRecv \/ Write
    \/ Silence \/ OnManager \/ OnError \/ Destroyed

\* The poller runs what is queued on it.
SessionSpec == SessionInit /\ [][SessionNext]_sessionVars /\ WF_sessionVars(Poller)

-----------------------------------------------------------------------------
Received == {stream[i] : i \in 1..arrived}
\* The messages that have come in full, with the whole start line in one buffer.
Uncut == {m \in 1..Messages : Char(m, "body") \in Received /\ m \notin cuts}

\* However TCP cuts and joins the stream, libsip gets every message whose
\* start line came in one buffer, whole, once and in order, and no other, until
\* a buffer is copied past its end (sip_session.cpp:417).  That needs a buffer
\* that holds something before a start line: a blank line, or the rest of a
\* message that was lost because its start line was cut.
LostOnlyWhenCut ==
    /\ open /\ tasks = <<>> /\ ~overread =>
          /\ Range(agent) = Uncut
          /\ \A i, j \in DOMAIN agent : i < j => agent[i] < agent[j]
    /\ overread => cuts # {} \/ Char(0, "blank") \in Received

\* A message that has come in full, with an uncut start line, reaches libsip
\* without waiting for anything else to come, unless the session closes.
GetsHandled ==
    \A m \in 1..Messages :
        m \in Uncut ~> (\E i \in DOMAIN agent : agent[i] = m) \/ overread \/ ~open
=============================================================================
