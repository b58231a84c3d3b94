--------------------------------- MODULE Hub ---------------------------------
(***************************************************************************)
(* The WebSocket hub of server/: one bounded broadcast channel, one        *)
(* goroutine that copies each message into every client's bounded buffer   *)
(* without waiting (server_broadcast.go), a write pump and a read pump per *)
(* connection (client_io.go), the handler that registers a connection and  *)
(* replays the terminal's history to it (server_http.go, the reconnect     *)
(* handler of cmd/host.go), and Stop (server_lifecycle.go).                *)
(*                                                                         *)
(* The output of one terminal is cut twice: captureOutput (pty/session.go) *)
(* broadcasts what it reads as it comes, in chunks, and then writes the    *)
(* lines that are complete to the ring buffer, from which they are         *)
(* replayed.  The output is numbered in pieces, a piece ending where a     *)
(* line or a chunk ends; a message is the span of pieces it carries.       *)
(***************************************************************************)
EXTENDS Integers, Sequences, FiniteSets

CONSTANTS
  Conns,        \* connections
  SendCap,      \* channelBufferSize of Client.send
  CastCap,      \* channelBufferSize of Server.broadcast
  HistoryCap,   \* lines the ring buffer keeps
  MaxOutput     \* bound of the run: pieces the terminal prints

VARIABLES
  serving,      \* "new", "up" or "failed": what Start made of the listener
  stopped, clients, broadcast,          \* fields of Server
  phase,        \* where the goroutine that owns the connection is
  send, done,   \* fields of Client
  writer,       \* its write pump: "none", "runs" or "ended"
  open,         \* the WebSocket is open
  capturing,    \* captureOutput has not seen the end of the output
  emitted,      \* pieces captureOutput broadcast
  ends,         \* those that end a line it has still to write
  recorded,     \* pieces captureOutput wrote to the ring buffer
  ring,         \* RingBuffer: the last lines
  since,        \* where the history a handler read began and stopped, and
                \* what was broadcast by then
  replay,       \* the history the handler has still to send
  settled       \* pieces that went out on the WebSocket, or that a full
                \* buffer or a timeout kept from the connection

server == <<serving, stopped, clients, broadcast>>
client == <<phase, send, done, writer, open>>
capture == <<capturing, emitted, ends, recorded, ring>>
vars == <<server, client, capture, since, replay, settled>>

Output == 1..MaxOutput
Messages == [from : 1..(MaxOutput + 1), to : 0..MaxOutput]
Span(m, n) == [from |-> m, to |-> n]
Text(message) == message.from..message.to

Control == Span(1, 0)    \* session.status and the results of requests

TypeOK ==
  /\ serving \in {"new", "up", "failed"} /\ stopped \in BOOLEAN
  /\ clients \subseteq Conns
  /\ broadcast \in Seq(Messages) /\ Len(broadcast) <= CastCap
  /\ phase \in [Conns -> {"out", "upgraded", "registered", "greeted",
                          "replaying", "reading", "gone"}]
  /\ \A c \in Conns : send[c] \in Seq(Messages) /\ Len(send[c]) <= SendCap
  /\ done \in [Conns -> BOOLEAN] /\ open \in [Conns -> BOOLEAN]
  /\ writer \in [Conns -> {"none", "runs", "ended"}]
  /\ capturing \in BOOLEAN
  /\ recorded \in 0..emitted /\ emitted \in 0..MaxOutput
  /\ ends \subseteq (recorded + 1)..emitted
  /\ ring \in Seq(Messages) /\ Len(ring) <= HistoryCap
  /\ \A c \in Conns : /\ since[c].from \in 1..(MaxOutput + 1)
                      /\ since[c].recorded \in 0..MaxOutput
                      /\ since[c].emitted \in 0..MaxOutput
  /\ \A c \in Conns : replay[c] \in Seq(Messages)
  /\ settled \in [Conns -> SUBSET Output]

Init ==
  /\ serving = "new" /\ stopped = FALSE /\ clients = {} /\ broadcast = <<>>
  /\ phase = [c \in Conns |-> "out"]
  /\ send = [c \in Conns |-> <<>>] /\ replay = [c \in Conns |-> <<>>]
  /\ done = [c \in Conns |-> FALSE] /\ open = [c \in Conns |-> FALSE]
  /\ writer = [c \in Conns |-> "none"]
  /\ capturing = TRUE /\ emitted = 0 /\ ends = {} /\ recorded = 0
  /\ ring = <<>>
  /\ since = [c \in Conns |-> [from |-> 1, recorded |-> 0, emitted |-> 0]]
  /\ settled = [c \in Conns |-> {}]

-----------------------------------------------------------------------------
(* Start, Stop, revocation.                                                *)

\* StartAsync and StartAsyncTLS: the listener or the certificate may fail,
\* else the broadcaster and the HTTP server run.
Start ==
  /\ serving = "new"
  /\ serving' \in {"up", "failed"}
  /\ UNCHANGED <<stopped, clients, broadcast, client, capture, since, replay,
                 settled>>

Stop ==
  /\ ~stopped
  /\ stopped' = TRUE
  /\ done' = [c \in Conns |-> done[c] \/ c \in clients]
  /\ clients' = {}
  /\ UNCHANGED <<serving, broadcast, phase, send, writer, open, capture,
                 since, replay, settled>>

\* CloseDeviceConnections: the device was revoked.
CloseDeviceConnections(c) ==
  /\ c \in clients /\ ~done[c]
  /\ done' = [done EXCEPT ![c] = TRUE]
  /\ UNCHANGED <<server, phase, send, writer, open, capture, since, replay,
                 settled>>

-----------------------------------------------------------------------------
(* captureOutput: forward the chunk, then keep its lines for replay.       *)

\* A chunk of some lines and perhaps a part of one: every piece but the last
\* ends a line.  The lines of the chunk before it are all written.
Emit ==
  /\ capturing /\ ends = {}
  /\ \E last \in (emitted + 1)..MaxOutput :
       /\ emitted' = last
       /\ \/ ends' = (emitted + 1)..last
          \/ ends' = (emitted + 1)..(last - 1)
       /\ \/ /\ ~stopped /\ Len(broadcast) < CastCap
             /\ broadcast' = Append(broadcast, Span(emitted + 1, last))
             /\ UNCHANGED settled
          \/ /\ stopped \/ Len(broadcast) = CastCap
             /\ settled' = [c \in Conns |-> settled[c] \cup (emitted + 1)..last]
             /\ UNCHANGED broadcast
  /\ UNCHANGED <<serving, stopped, clients, client, capturing, recorded, ring,
                 since, replay>>

\* RingBuffer.Write: the oldest line makes room.
Write(line) ==
  ring' = IF Len(ring) < HistoryCap THEN Append(ring, line)
                                    ELSE Append(Tail(ring), line)

\* extractAndBufferLines writes the next complete line, which what was pending
\* from the chunks before begins.
Record ==
  /\ \E n \in ends :
       /\ \A m \in ends : n <= m
       /\ Write(Span(recorded + 1, n))
       /\ recorded' = n /\ ends' = ends \ {n}
  /\ UNCHANGED <<server, client, capturing, emitted, since, replay, settled>>

\* The end of the output: what is pending is written as a line.
Flush ==
  /\ capturing /\ ends = {}
  /\ capturing' = FALSE
  /\ recorded' = emitted
  /\ IF recorded < emitted THEN Write(Span(recorded + 1, emitted))
                           ELSE UNCHANGED ring
  /\ UNCHANGED <<server, client, emitted, ends, since, replay, settled>>

-----------------------------------------------------------------------------
(* runBroadcaster: one message to every client, none of which is waited    *)
(* for.  A client that is shutting down may be skipped or served.          *)

\* Wrong on purpose: only a client whose read pump runs is served.
Reached == {c \in clients : phase[c] = "reading"}

Listening == clients

runBroadcaster ==
  /\ serving = "up" /\ broadcast # <<>>
  /\ broadcast' = Tail(broadcast)
  /\ \E skipped \in SUBSET {c \in clients : done[c]} :
       LET served == {c \in Listening \ skipped : Len(send[c]) < SendCap}
       IN  /\ send' = [c \in Conns |->
                         IF c \in served
                         THEN Append(send[c], Head(broadcast)) ELSE send[c]]
           /\ settled' = [c \in Conns |->
                            IF c \in Listening \ served
                            THEN settled[c] \cup Text(Head(broadcast))
                            ELSE settled[c]]
  /\ UNCHANGED <<serving, stopped, clients, phase, done, writer, open,
                 capture, since, replay>>

-----------------------------------------------------------------------------
(* handleWebSocket.                                                        *)

\* A valid token, and the handshake; a rejected request leaves no trace.
Upgrade(c) ==
  /\ phase[c] = "out" /\ serving = "up" /\ ~stopped
  /\ phase' = [phase EXCEPT ![c] = "upgraded"]
  /\ open' = [open EXCEPT ![c] = TRUE]
  /\ UNCHANGED <<server, send, done, writer, capture, since, replay, settled>>

Register(c) ==
  /\ phase[c] = "upgraded"
  /\ clients' = clients \cup {c}
  /\ phase' = [phase EXCEPT ![c] = "registered"]
  /\ UNCHANGED <<serving, stopped, broadcast, send, done, writer, open,
                 capture, since, replay, settled>>

\* The first message goes into a buffer nothing drains yet: the handler
\* waits here for as long as broadcasts have filled it.
Greet(c) ==
  /\ phase[c] = "registered" /\ Len(send[c]) < SendCap
  /\ send' = [send EXCEPT ![c] = Append(@, Control)]
  /\ writer' = [writer EXCEPT ![c] = "runs"]
  /\ phase' = [phase EXCEPT ![c] = "greeted"]
  /\ UNCHANGED <<server, done, open, capture, since, replay, settled>>

\* The reconnect handler takes the lines of the ring buffer ...
HistoryStart == IF ring = <<>> THEN recorded + 1 ELSE Head(ring).from

ReadHistory(c) ==
  /\ phase[c] = "greeted"
  /\ since' = [since EXCEPT ![c] = [from |-> HistoryStart,
                                   recorded |-> recorded,
                                   emitted |-> emitted]]
  /\ replay' = [replay EXCEPT ![c] = ring]
  /\ phase' = [phase EXCEPT ![c] = "replaying"]
  /\ UNCHANGED <<server, send, done, writer, open, capture, settled>>

\* ... and sends them one by one: into the buffer, or past a client that is
\* shutting down, or after five seconds without space past this line.
Replay(c) ==
  /\ phase[c] = "replaying" /\ replay[c] # <<>>
  /\ replay' = [replay EXCEPT ![c] = Tail(@)]
  /\ \/ /\ Len(send[c]) < SendCap
        /\ send' = [send EXCEPT ![c] = Append(@, Head(replay[c]))]
        /\ UNCHANGED settled
     \/ /\ done[c] \/ Len(send[c]) = SendCap
        /\ settled' = [settled EXCEPT ![c] = @ \cup Text(Head(replay[c]))]
        /\ UNCHANGED send
  /\ UNCHANGED <<server, phase, done, writer, open, capture, since>>

StartReading(c) ==
  /\ phase[c] = "replaying" /\ replay[c] = <<>>
  /\ phase' = [phase EXCEPT ![c] = "reading"]
  /\ UNCHANGED <<server, send, done, writer, open, capture, since, replay,
                 settled>>

-----------------------------------------------------------------------------
(* The pumps.                                                              *)

\* writePump sends the next message, or ends because the client is shutting
\* down or the connection fails; ending closes the connection.
WriteNext(c) ==
  /\ writer[c] = "runs" /\ send[c] # <<>> /\ open[c]
  /\ send' = [send EXCEPT ![c] = Tail(@)]
  /\ settled' = [settled EXCEPT ![c] = @ \cup Text(Head(send[c]))]
  /\ UNCHANGED <<server, phase, done, writer, open, capture, since, replay>>

EndWriter(c) ==
  /\ writer[c] = "runs"
  /\ done[c] \/ ~open[c]
  /\ writer' = [writer EXCEPT ![c] = "ended"]
  /\ open' = [open EXCEPT ![c] = FALSE]
  /\ UNCHANGED <<server, phase, send, done, capture, since, replay, settled>>

\* The peer goes away.
HangUp(c) ==
  /\ open[c]
  /\ open' = [open EXCEPT ![c] = FALSE]
  /\ UNCHANGED <<server, phase, send, done, writer, capture, since, replay,
                 settled>>

\* readPump hands a request to its handler; the result goes into the buffer
\* if there is room (trySend) and is dropped if not.
Respond(c) ==
  /\ phase[c] = "reading" /\ open[c] /\ Len(send[c]) < SendCap
  /\ send' = [send EXCEPT ![c] = Append(@, Control)]
  /\ UNCHANGED <<server, phase, done, writer, open, capture, since, replay,
                 settled>>

\* Wrong on purpose: the read pump leaves the client registered.
EndReaderRegistered(c) ==
  /\ phase[c] = "reading" /\ ~open[c]
  /\ done' = [done EXCEPT ![c] = TRUE]
  /\ phase' = [phase EXCEPT ![c] = "gone"]
  /\ UNCHANGED <<server, send, writer, open, capture, since, replay, settled>>

\* readPump ends when reading fails, and takes the client out of the hub.
EndReader(c) ==
  /\ phase[c] = "reading" /\ ~open[c]
  /\ clients' = clients \ {c}
  /\ done' = [done EXCEPT ![c] = TRUE]
  /\ phase' = [phase EXCEPT ![c] = "gone"]
  /\ UNCHANGED <<serving, stopped, broadcast, send, writer, open, capture,
                 since, replay, settled>>

-----------------------------------------------------------------------------
Serve(c) == \/ Register(c) \/ Greet(c) \/ ReadHistory(c) \/ Replay(c)
            \/ StartReading(c) \/ EndReader(c)

Next ==
  \/ Start \/ Stop \/ Emit \/ Record \/ Flush \/ runBroadcaster
  \/ \E c \in Conns : \/ CloseDeviceConnections(c) \/ Upgrade(c)
                      \/ Serve(c) \/ WriteNext(c) \/ EndWriter(c)
                      \/ Respond(c) \/ HangUp(c)

Spec == Init /\ [][Next]_vars

\* Every goroutine of the host runs, and the write pump's select picks among
\* its ready cases at random, so an end that stays ready is picked.
\* Terminals, peers and Stop need not act.
Fairness ==
  /\ WF_vars(Record) /\ WF_vars(runBroadcaster)
  /\ \A c \in Conns : /\ WF_vars(Serve(c))
                     /\ WF_vars(WriteNext(c)) /\ WF_vars(EndWriter(c))

FairSpec == Spec /\ Fairness

-----------------------------------------------------------------------------
(* Properties.                                                             *)

Ahead(s) == UNION {Text(s[i]) : i \in 1..Len(s)}

\* What was broadcast and not in the ring buffer when c read the history: the
\* lines of one chunk that were still to be written, and a line that was not
\* complete.
Between(c) == (since[c].recorded + 1)..since[c].emitted

\* The history and the live stream meet: of the output from the oldest line
\* replayed on, a connection misses only what a full buffer or a timeout took
\* and what captureOutput had broadcast but not yet written to the ring buffer
\* when the history was read (handleWebSocket registers the client before it
\* reads the history, so nothing else falls between the two).
ReplayMeetsLiveStream ==
  \A c \in Conns :
    phase[c] \in {"replaying", "reading"} /\ ~done[c] =>
      \A n \in since[c].from..emitted :
        \/ n \in settled[c] \cup Ahead(send[c])
        \/ n \in Ahead(replay[c]) \cup Ahead(broadcast)
        \/ n \in Between(c)

\* A greeted connection that is closed, by its peer, its revocation or Stop,
\* is given up: its pumps end and the hub forgets it.
GivenUp(c) == phase[c] = "gone" /\ c \notin clients /\ writer[c] = "ended"

ClosedClientIsForgotten ==
  \A c \in Conns :
    (writer[c] # "none" /\ (done[c] \/ ~open[c])) ~> GivenUp(c)
=============================================================================
