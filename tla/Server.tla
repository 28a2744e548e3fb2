------------------------------- MODULE Server -------------------------------
(***************************************************************************)
(* The server (src/src/server): TcpListener accepts connections,           *)
(* TcpConnection cuts the byte stream of a connection into frames,         *)
(* WireProtocol decodes and encodes messages, Session answers a request    *)
(* with the result of the engine, Server registers the sessions.           *)
(*                                                                         *)
(* Neither src/ nor its tests have a loop that serves connections; the     *)
(* tests call each of these operations once or twice.  The worker is an    *)
(* assumption of this module: each connection has a thread of its own that *)
(* accepts it, calls createSession, then receive and handleRequest in turn *)
(* until receive returns "", then closeSession, and drops its references   *)
(* to session and connection.                                              *)
(*                                                                         *)
(* The sockets block, and nothing in src/ sets a timeout, MSG_NOSIGNAL or  *)
(* a handler for SIGPIPE: a send waits as long as the client leaves a full *)
(* window of bytes unread, and a send to a client that has gone may end    *)
(* the process.                                                            *)
(*                                                                         *)
(* The stream is modelled byte by byte, with small bytes: a frame is a     *)
(* header of two digits of base Radix (four bytes in the code) that holds  *)
(* the length of the payload, and the payload; the payload of a request is *)
(* its type and its id, that of a response too.  Version, query text,      *)
(* error text, columns and rows are left out; a payload of one byte stands *)
(* for all those the decoder refuses.  A recv or a send moves any number   *)
(* of the bytes it could.  The engine's call returns (Statements is about  *)
(* it) with any result it may have, one that is too large to send included.*)
(***************************************************************************)
EXTENDS Naturals, Sequences, FiniteSets

CONSTANTS
    Client,
    Radix,          \* the values of a byte are 0 .. Radix - 1
    MaxFrameSize,   \* kMaxFrameSize
    Window,         \* the bytes the system holds for a client that does not read
    MaxLoad         \* bound on the clients that connect plus the requests they send

ASSUME ServerAssumption ==
    /\ Radix \in Nat /\ Radix > 3
    /\ MaxLoad \in 0 .. Radix - 1
    /\ MaxFrameSize \in 2 .. Radix * Radix - 2
    /\ Window \in Nat \ {0}

VARIABLES
    listening,          \* TcpListener::running_
    running,            \* Server::running_
    sessions,           \* sessions_
    next_session_id,    \* next_session_id_
    peer,               \* the client's end of the connection
    up,                 \* bytes on their way to the server
    down,               \* all bytes the server has sent
    unread,             \* how many of them wait for the client to read them
    killed,             \* a SIGPIPE has ended the process
    is_closed,          \* TcpConnection::is_closed_
    read_buffer,        \* TcpConnection::read_buffer_
    worker,             \* where the worker of a connection is, and its local variables
    sent                \* history: what the client has sent, message by message

registry == <<running, sessions, next_session_id>>
vars == <<listening, registry, peer, up, down, unread, killed, is_closed, read_buffer, worker, sent>>

Byte == 0 .. Radix - 1

QueryRequest == 1
QueryResponse == 2
ErrorResponse == 3

Header == 2

Frame(length, payload) == <<length \div Radix, length % Radix>> \o payload

\* The length in the header at the front of the buffer.
PayloadLen(bytes) == bytes[1] * Radix + bytes[2]

\* What a client may send as its request number id: a query, a message of a type
\* that is no request, one the decoder refuses, an empty one, and the header of a
\* frame above the limit.
Message(id) ==
    {Frame(2, <<QueryRequest, id>>), Frame(2, <<QueryResponse, id>>), Frame(1, <<id>>),
     Frame(0, <<>>), Frame(MaxFrameSize + 1, <<>>)}

\* pc: "none" no connection, "accepted", "receive", "handle", "send", "close"
\* the loop has ended, "release" the session is unregistered, "done".
Worker == [pc : {"none", "accepted", "receive", "handle", "send", "close", "release", "done"},
           session : Nat, payload : Seq(Byte), frame : Seq(Byte)]

TypeOK ==
    /\ listening \in BOOLEAN /\ running \in BOOLEAN
    /\ sessions \subseteq [id : Nat, client : Client] /\ next_session_id \in Nat \ {0}
    /\ peer \in [Client -> {"away", "waiting", "open", "gone"}]
    /\ \A s \in {up, down, read_buffer} : s \in [Client -> Seq(Byte)]
    /\ unread \in [Client -> Nat] /\ killed \in BOOLEAN
    /\ is_closed \in [Client -> BOOLEAN]
    /\ worker \in [Client -> Worker]
    /\ sent \in [Client -> Seq(Seq(Byte))]

Init ==
    /\ listening = TRUE /\ running = TRUE /\ sessions = {} /\ next_session_id = 1
    /\ peer = [c \in Client |-> "away"]
    /\ up = [c \in Client |-> <<>>] /\ down = up /\ read_buffer = up /\ sent = up
    /\ unread = [c \in Client |-> 0] /\ killed = FALSE
    /\ is_closed = [c \in Client |-> FALSE]
    /\ worker = [c \in Client |-> [pc |-> "none", session |-> 0, payload |-> <<>>, frame |-> <<>>]]

Goto(c, pc) == worker' = [worker EXCEPT ![c].pc = pc]

(***************************************************************************)
(* The client.                                                             *)
(***************************************************************************)

Load ==
    Cardinality({c \in Client : peer[c] # "away"})
        + Cardinality(UNION {{c} \X DOMAIN sent[c] : c \in Client})

Connect(c) ==
    /\ peer[c] = "away" /\ listening /\ Load < MaxLoad
    /\ peer' = [peer EXCEPT ![c] = "waiting"]
    /\ UNCHANGED <<listening, registry, up, down, is_closed, read_buffer, worker, sent, unread, killed>>

\* What is sent on a connection the server has closed is lost, and left out.
Submit(c) ==
    /\ peer[c] \in {"waiting", "open"} /\ ~is_closed[c] /\ Load < MaxLoad
    /\ \E m \in Message(Len(sent[c]) + 1) :
         /\ sent' = [sent EXCEPT ![c] = Append(@, m)]
         /\ up' = [up EXCEPT ![c] = @ \o m]
    /\ UNCHANGED <<listening, registry, peer, down, is_closed, read_buffer, worker, unread, killed>>

\* The client goes away, after a part of one more query or between two messages.
HangUp(c) ==
    /\ peer[c] \in {"waiting", "open"}
    /\ peer' = [peer EXCEPT ![c] = "gone"]
    /\ \E n \in 0 .. IF is_closed[c] THEN 0 ELSE Header + 1 :
         up' = [up EXCEPT ![c] = @ \o SubSeq(Frame(2, <<QueryRequest, Radix - 1>>), 1, n)]
    /\ unread' = [unread EXCEPT ![c] = 0]
    /\ UNCHANGED <<listening, registry, down, is_closed, read_buffer, worker, sent, killed>>

\* The client reads what has reached it; it may never do so.  What it reads of a
\* connection the server has closed makes no difference, and is left out.
Read(c) ==
    /\ peer[c] = "open" /\ ~is_closed[c]
    /\ unread[c] > 0
    /\ unread' = [unread EXCEPT ![c] = 0]
    /\ UNCHANGED <<listening, registry, peer, up, down, killed, is_closed, read_buffer, worker, sent>>

(***************************************************************************)
(* Listener and registry.                                                  *)
(***************************************************************************)

\* acceptConnection.  A client that has gone in the backlog is accepted too.
AcceptConnection(c) ==
    /\ listening /\ worker[c].pc = "none" /\ peer[c] \in {"waiting", "gone"}
    /\ peer' = [peer EXCEPT ![c] = IF @ = "waiting" THEN "open" ELSE @]
    /\ Goto(c, "accepted")
    /\ UNCHANGED <<listening, registry, up, down, is_closed, read_buffer, sent, unread, killed>>

\* stop.  The system resets the connections of the backlog.
Stop ==
    /\ listening
    /\ listening' = FALSE
    /\ peer' = [c \in Client |-> IF peer[c] = "waiting" THEN "gone" ELSE peer[c]]
    /\ UNCHANGED <<registry, up, down, is_closed, read_buffer, worker, sent, unread, killed>>

\* createSession; without a session the worker drops the connection, whose
\* destructor closes it.
CreateSession(c) ==
    /\ worker[c].pc = "accepted"
    /\ IF running
         THEN /\ sessions' = sessions \cup {[id |-> next_session_id, client |-> c]}
              /\ next_session_id' = next_session_id + 1
              /\ worker' = [worker EXCEPT ![c].pc = "receive", ![c].session = next_session_id]
              /\ UNCHANGED <<up, is_closed>>
         ELSE /\ Goto(c, "done")
              /\ is_closed' = [is_closed EXCEPT ![c] = TRUE]
              /\ up' = [up EXCEPT ![c] = <<>>]
              /\ UNCHANGED <<sessions, next_session_id>>
    /\ UNCHANGED <<listening, running, peer, down, read_buffer, sent, unread, killed>>

CloseSession(c) ==
    /\ worker[c].pc = "close"
    /\ sessions' = {s \in sessions : s.id # worker[c].session}
    /\ Goto(c, "release")
    /\ UNCHANGED <<listening, running, next_session_id, peer, up, down, is_closed, read_buffer, sent, unread, killed>>

\* The last reference goes: ~Session closes the connection, and it goes too.
Release(c) ==
    /\ worker[c].pc = "release"
    /\ is_closed' = [is_closed EXCEPT ![c] = TRUE]
    /\ up' = [up EXCEPT ![c] = <<>>] /\ read_buffer' = [read_buffer EXCEPT ![c] = <<>>]
    /\ unread' = [unread EXCEPT ![c] = 0]
    /\ Goto(c, "done")
    /\ UNCHANGED <<listening, registry, peer, down, sent, killed>>

\* shutdown.  A session a worker still refers to is unregistered, not destroyed.
Shutdown ==
    /\ running
    /\ running' = FALSE /\ sessions' = {}
    /\ UNCHANGED <<listening, next_session_id, peer, up, down, is_closed, read_buffer, worker, sent, unread, killed>>

(***************************************************************************)
(* TcpConnection::receive, one turn of its loop per step.                  *)
(***************************************************************************)

Oversized(c) == Len(read_buffer[c]) >= Header /\ PayloadLen(read_buffer[c]) > MaxFrameSize

\* Mutant of Complete: bytes that fill the buffer exactly are not a frame yet.
CompleteLate(c) ==
    /\ Len(read_buffer[c]) >= Header /\ ~Oversized(c)
    /\ Len(read_buffer[c]) > Header + PayloadLen(read_buffer[c])

Complete(c) ==
    /\ Len(read_buffer[c]) >= Header /\ ~Oversized(c)
    /\ Len(read_buffer[c]) >= Header + PayloadLen(read_buffer[c])

\* receive returns "", and the loop of the worker ends.
ReceiveNothing(c) ==
    /\ is_closed' = [is_closed EXCEPT ![c] = TRUE]
    /\ Goto(c, "close")
    /\ UNCHANGED <<up, read_buffer>>

\* The payload of an empty frame is "" too, and a caller cannot tell the two apart:
\* it may end its loop here, or hand the payload to handleRequest like any other.
ReceiveFrame(c) ==
    LET buffer == read_buffer[c]
        payload_len == PayloadLen(buffer)
        payload == SubSeq(buffer, Header + 1, Header + payload_len)
    IN  /\ read_buffer' = [read_buffer EXCEPT ![c] = SubSeq(@, Header + payload_len + 1, Len(@))]
        /\ \E pc \in {"handle"} \cup (IF payload = <<>> THEN {"close"} ELSE {}) :
              worker' = [worker EXCEPT ![c].pc = pc, ![c].payload = payload]
        /\ UNCHANGED <<up, is_closed>>

Recv(c) ==
    /\ up[c] # <<>>
    /\ \E n \in 1 .. Len(up[c]) :
         /\ read_buffer' = [read_buffer EXCEPT ![c] = @ \o SubSeq(up[c], 1, n)]
         /\ up' = [up EXCEPT ![c] = SubSeq(@, n + 1, Len(@))]
    /\ UNCHANGED <<is_closed, worker>>

Receive(c) ==
    /\ worker[c].pc = "receive"
    /\ CASE is_closed[c] \/ Oversized(c) -> ReceiveNothing(c)
         [] Complete(c) /\ ~is_closed[c] -> ReceiveFrame(c)
         [] OTHER -> \/ Recv(c)
                     \/ peer[c] = "gone" /\ ReceiveNothing(c)   \* end of file, or a reset
    /\ UNCHANGED <<listening, registry, peer, down, sent, unread, killed>>

(***************************************************************************)
(* Session::handleRequest and TcpConnection::send.                         *)
(***************************************************************************)

\* The response to a payload: the decoder's exceptions are answered with id 0.
\* The engine may succeed or fail with any query.
Responses(payload) ==
    IF Len(payload) < 2 THEN {<<ErrorResponse, 0>>}
    ELSE IF payload[1] # QueryRequest THEN {<<ErrorResponse, payload[2]>>}
    ELSE {<<QueryResponse, payload[2]>>, <<ErrorResponse, payload[2]>>}

HandleRequest(c) ==
    /\ worker[c].pc = "handle"
    /\ \E response \in Responses(worker[c].payload) :
         worker' = [worker EXCEPT ![c].pc = "send", ![c].payload = <<>>,
                                  ![c].frame = Frame(Len(response), response)]
    /\ UNCHANGED <<listening, registry, peer, up, down, is_closed, read_buffer, sent, unread, killed>>

\* The result is larger than a frame may be: send closes the connection.
HandleLargeResult(c) ==
    /\ worker[c].pc = "handle"
    /\ Len(worker[c].payload) >= 2 /\ worker[c].payload[1] = QueryRequest
    /\ is_closed' = [is_closed EXCEPT ![c] = TRUE]
    /\ worker' = [worker EXCEPT ![c].pc = "receive", ![c].payload = <<>>]
    /\ UNCHANGED <<listening, registry, peer, up, down, read_buffer, sent, unread, killed>>

\* Mutant of Unsent: a send that moves a part of the frame starts the frame again.
UnsentAll(frame, n) == IF n = Len(frame) THEN <<>> ELSE frame

\* The part of the frame that is still to be sent after n bytes more.
Unsent(frame, n) == SubSeq(frame, n + 1, Len(frame))

\* ::send takes any part of the frame there is room for, and blocks while there is
\* no room.  Bytes for a client that has gone are lost.
SendPart(c) ==
    LET frame == worker[c].frame
    IN  /\ \E n \in 1 .. Len(frame) :
             /\ unread[c] + n <= Window
             /\ unread' = [unread EXCEPT ![c] = IF peer[c] = "gone" THEN 0 ELSE @ + n]
             /\ down' = [down EXCEPT ![c] = @ \o SubSeq(frame, 1, n)]
             /\ worker' = [worker EXCEPT ![c].pc = IF n = Len(frame) THEN "receive" ELSE "send",
                                         ![c].frame = Unsent(frame, n)]
        /\ UNCHANGED <<killed, is_closed>>

\* The client has gone, and ::send returns an error: the connection is closed.
SendFails(c) ==
    /\ peer[c] = "gone"
    /\ is_closed' = [is_closed EXCEPT ![c] = TRUE]
    /\ worker' = [worker EXCEPT ![c].pc = "receive", ![c].frame = <<>>]
    /\ UNCHANGED <<down, unread, killed>>

\* The client has gone, and ::send raises SIGPIPE, which ends the process.
SendKills(c) ==
    /\ peer[c] = "gone"
    /\ killed' = TRUE
    /\ UNCHANGED <<down, unread, is_closed, worker>>

Send(c) ==
    /\ worker[c].pc = "send"
    /\ SendPart(c) \/ SendFails(c) \/ SendKills(c)
    /\ UNCHANGED <<listening, registry, peer, up, read_buffer, sent>>

Serve(c) ==
    \/ CreateSession(c) \/ Receive(c)
    \/ HandleRequest(c) \/ HandleLargeResult(c) \/ Send(c)
    \/ CloseSession(c) \/ Release(c)

Next ==
    /\ ~killed
    /\ \/ \E c \in Client : Connect(c) \/ Submit(c) \/ Read(c) \/ HangUp(c) \/ AcceptConnection(c) \/ Serve(c)
       \/ Stop \/ Shutdown

\* Every worker is a thread that is scheduled, and the accept loop keeps accepting.
\* Nothing makes a client read.
Fairness ==
    \A c \in Client : WF_vars(~killed /\ Serve(c)) /\ WF_vars(~killed /\ AcceptConnection(c))

Spec == Init /\ [][Next]_vars /\ Fairness

(***************************************************************************)
(* Properties.                                                             *)
(***************************************************************************)

ReplySize == Header + 2

\* The request number k of the client, as the client wrote it.
Asked(c, k) == SubSeq(sent[c][k], Header + 1, Len(sent[c][k]))

\* The bytes sent to a client are, in the order of its requests, one response per
\* request and nothing else, however the stream was cut into calls of recv and
\* send: the response to request k has the id of request k (0 if it could not be
\* decoded), and only a query is answered with a result.  Nothing is answered
\* after a frame above the limit (TcpConnection::receive and send,
\* Session::handleRequest).
AnswersInOrder ==
    \A c \in Client : \A i \in DOMAIN down[c] :
        LET k == (i - 1) \div ReplySize + 1
            asked == Asked(c, k)
        IN  /\ k \in DOMAIN sent[c]
            /\ \A j \in 1 .. k : PayloadLen(sent[c][j]) <= MaxFrameSize
            /\ CASE i % ReplySize = 1 -> down[c][i] = 0
                 [] i % ReplySize = 2 -> down[c][i] = 2
                 [] i % ReplySize = 3 -> \/ down[c][i] = ErrorResponse
                                         \/ down[c][i] = QueryResponse /\ Len(asked) = 2
                                            /\ asked[1] = QueryRequest
                 [] OTHER -> down[c][i] = IF Len(asked) < 2 THEN 0 ELSE asked[2]

\* The connection is closed and its session no longer registered.  (A connection
\* the listener never accepted has no worker and no session.)
Released(c) ==
    \/ worker[c].pc = "done" /\ is_closed[c] /\ \A s \in sessions : s.client # c
    \/ worker[c].pc = "none" /\ ~listening

Settled(c) ==
    \/ Released(c)
    \/ peer[c] # "gone" /\ Len(down[c]) = ReplySize * Len(sent[c])

\* The client stays and leaves a full window unread: its worker waits in ::send,
\* for ever if the client never reads.
Blocked(c) == worker[c].pc = "send" /\ peer[c] # "gone" /\ unread[c] = Window

\* Every connection comes to rest again and again: all its requests are answered,
\* or it is closed and its session no longer registered, and the latter if its
\* client has gone.  A request does not wait in read_buffer_ for bytes that never
\* come, nor does a worker keep the session of a client that is not there
\* (TcpConnection::receive and send, Server::closeSession).  Two things are left
\* out that nothing in the code prevents: a client that does not read its answers
\* holds its worker and its session, and one that goes away before it has got
\* them may end the process, for all clients.
RequestAnswered == \A c \in Client : []<>(Settled(c) \/ Blocked(c) \/ killed)
=============================================================================
