----------------------------- MODULE RemoteClient -----------------------------
(***************************************************************************)
(* The client of a piHPSDR server, client.c: the handshake, the thread     *)
(* that decodes the spectrum datagrams and asks for a width once it has    *)
(* seen the server's own, the thread that drains the TCP stream, and the   *)
(* stop that gives the operator of the server his display back.            *)
(*                                                                         *)
(* The server is external: as client.c talks to it, it streams at the      *)
(* width it was last asked for, and what it sends by UDP may be lost,      *)
(* repeated or overtaken.  TCP keeps its order until the link goes.        *)
(***************************************************************************)
EXTENDS Integers

CONSTANTS
  ServerWidths,    \* widths a server may have on its own
  Columns,         \* what client_set_columns is called with; 0 is the server's own
  MaxFrames,       \* bound: frames decoded
  MaxCalls         \* bound: calls of client_set_columns

RemoteAssumption ==
  /\ ServerWidths \subseteq Nat \ {0} /\ ServerWidths # {} /\ Columns \subseteq Nat
  /\ {MaxFrames, MaxCalls} \subseteq Nat

VARIABLES
  main,            \* where the owner of the client is
  tcp,             \* the descriptor: "none", "up", and "down" once the server is gone
  udp,             \* whether the datagram socket is open
  running,         \* c->running
  columns, native, applied,
  rx, drain,       \* where the two threads are
  frame,           \* the width of the datagram in rx_thread's hands
  latest, seen,    \* c->latest with its sequence number, and the caller's last_seq
  server,          \* the server: the width it streams at, and whether it does
  found,           \* history: its width when the client came
  air,             \* widths of datagrams that may still arrive
  calls            \* how often client_set_columns was called

vars == <<main, tcp, udp, running, columns, native, applied, rx, drain, frame, latest, seen,
          server, found, air, calls>>

AnyWidth == ServerWidths \cup Columns \cup {0}

TypeOK ==
  /\ main \in {"new", "dialled", "accepted", "heard", "known", "connected", "started", "stopping", "joined", "told", "ended"}
  /\ tcp \in {"none", "up", "down"} /\ {udp, running} \subseteq BOOLEAN
  /\ {columns, native, applied, frame} \subseteq AnyWidth
  /\ rx \in {"none", "top", "frame", "asked", "over"} /\ drain \in {"none", "top", "over"}
  /\ latest \in [seq : 0..MaxFrames, width : AnyWidth] /\ seen \in 0..MaxFrames
  /\ server \in [width : AnyWidth, streams : BOOLEAN] /\ found \in AnyWidth
  /\ air \subseteq AnyWidth /\ calls \in 0..MaxCalls

Init ==
  /\ \E w \in ServerWidths : server = [width |-> w, streams |-> FALSE] /\ found = w
  /\ main = "new" /\ tcp = "none" /\ udp = FALSE /\ running = FALSE
  /\ columns = 0 /\ native = 0 /\ applied = 0 /\ frame = 0
  /\ rx = "none" /\ drain = "none" /\ latest = [seq |-> 0, width |-> 0] /\ seen = 0
  /\ air = {} /\ calls = 0

-----------------------------------------------------------------------------
(* What the server makes of a message; a dead link carries none.           *)

Asked(w)     == IF tcp = "up" THEN [server EXCEPT !.width = w] ELSE server
Streaming(b) == IF tcp = "up" THEN [server EXCEPT !.streams = b] ELSE server

ServerStreams ==
  /\ server.streams /\ server.width \notin air /\ air' = air \cup {server.width}
  /\ UNCHANGED <<main, tcp, udp, running, columns, native, applied, rx, drain, frame, latest, seen, server, found, calls>>
LinkBreaks ==
  /\ tcp = "up" /\ tcp' = "down" /\ server' = [server EXCEPT !.streams = FALSE]
  /\ UNCHANGED <<main, udp, running, columns, native, applied, rx, drain, frame, latest, seen, found, air, calls>>

-----------------------------------------------------------------------------
(* The owner.                                                              *)

\* client_connect, step by step: a step that fails closes what is open.
Step(from, to, works) ==
  /\ main = from /\ main' = IF works THEN to ELSE "ended"
  /\ UNCHANGED <<running, columns, native, applied, rx, drain, frame, latest, seen, air, calls>>
\* Reading or writing the whole of something takes a link that is there.
Alive(works) == works => tcp = "up"
CloseTcp(works) == tcp' = IF works THEN tcp ELSE "none"

\* tp_tcp_connect: the name, and a connection within the timeout.
TcpConnect(works) ==
  /\ Step("new", "dialled", works)
  /\ tcp' = (IF works THEN "up" ELSE "none") /\ found' = server.width /\ UNCHANGED <<udp, server>>
\* The version, the password and the compression.
Handshake(works) ==
  /\ Step("dialled", "accepted", works) /\ Alive(works)
  /\ CloseTcp(works) /\ UNCHANGED <<udp, server, found>>
\* tp_udp_connect, and the hash sent to register this end.
UdpConnect(works) ==
  /\ Step("accepted", "heard", works)
  /\ udp' = works /\ CloseTcp(works) /\ UNCHANGED <<server, found>>
Register(works) ==
  /\ Step("heard", "known", works)
  /\ udp' = works /\ CloseTcp(works) /\ UNCHANGED <<server, found>>
\* ingest_until_start: every message by its size, up to the radio's start; then the
\* spectrum is asked for.
Ingest(works) ==
  /\ Step("known", "connected", works) /\ Alive(works)
  /\ udp' = works /\ CloseTcp(works) /\ server' = (IF works THEN Streaming(TRUE) ELSE server)
  /\ UNCHANGED found

\* The next session: a client that starts from nothing, on sockets of its own.
Again ==
  /\ main = "ended" /\ main' = "new" /\ air' = {} /\ rx' = "none" /\ drain' = "none"
  /\ running' = FALSE /\ columns' = 0 /\ native' = 0 /\ applied' = 0 /\ frame' = 0
  /\ latest' = [seq |-> 0, width |-> 0] /\ seen' = 0
  /\ UNCHANGED <<tcp, udp, server, found, calls>>

SetColumns(n) ==
  /\ main \in {"new", "connected", "started"} /\ calls < MaxCalls /\ n # columns
  /\ columns' = n /\ calls' = calls + 1
  /\ UNCHANGED <<main, tcp, udp, running, native, applied, rx, drain, frame, latest, seen, server, found, air>>

Start ==
  /\ main = "connected" /\ main' = "started" /\ running' = TRUE /\ rx' = "top" /\ drain' = "top"
  /\ UNCHANGED <<tcp, udp, columns, native, applied, frame, latest, seen, server, found, air, calls>>

\* client_latest.
Latest ==
  /\ main = "started" /\ latest.seq # seen /\ seen' = latest.seq
  /\ UNCHANGED <<main, tcp, udp, running, columns, native, applied, rx, drain, frame, latest, server, found, air, calls>>

\* client_stop: first the datagram thread is joined,
Stop ==
  /\ main \in {"connected", "started"} /\ main' = "stopping" /\ running' = FALSE
  /\ UNCHANGED <<tcp, udp, columns, native, applied, rx, drain, frame, latest, seen, server, found, air, calls>>
\* Mutant: the stop does not wait for it.
Hasty  == main = "stopping"
Joined == main = "stopping" /\ rx \in {"none", "over"}
JoinRx ==
  /\ Joined /\ main' = "joined"
  /\ UNCHANGED <<tcp, udp, running, columns, native, applied, rx, drain, frame, latest, seen, server, found, air, calls>>

\* then the server gets its width back and is told to stop, and the socket is shut,
Restored == IF applied > 0 /\ native > 0 /\ applied # native THEN Asked(native) ELSE server
Tell ==
  /\ main = "joined" /\ main' = "told"
  /\ server' = IF tcp = "up" THEN [Restored EXCEPT !.streams = FALSE] ELSE server
  /\ UNCHANGED <<tcp, udp, running, columns, native, applied, rx, drain, frame, latest, seen, found, air, calls>>

\* which ends the other thread.
JoinTcp ==
  /\ main = "told" /\ drain \in {"none", "over"} /\ main' = "ended" /\ tcp' = "none" /\ udp' = FALSE
  /\ UNCHANGED <<running, columns, native, applied, rx, drain, frame, latest, seen, server, found, air, calls>>

-----------------------------------------------------------------------------
(* rx_thread, tcp_thread.                                                  *)

\* The turn of the loop: a datagram that decodes, or the end.
Receive(w) ==
  /\ rx = "top" /\ running /\ w \in air /\ latest.seq < MaxFrames
  /\ rx' = "frame" /\ frame' = w
  /\ \E last \in BOOLEAN : air' = IF last THEN air \ {w} ELSE air
  /\ UNCHANGED <<main, tcp, udp, running, columns, native, applied, drain, latest, seen, server, found, calls>>
RxEnds ==
  /\ rx = "top" /\ ~running /\ rx' = "over"
  /\ UNCHANGED <<main, tcp, udp, running, columns, native, applied, drain, frame, latest, seen, server, found, air, calls>>

\* The first frame has the server's own width; the width asked for follows it.
AskWidth ==
  /\ rx = "frame" /\ rx' = "asked"
  /\ native' = IF native = 0 THEN frame ELSE native
  /\ IF columns > 0 /\ applied # columns
     THEN applied' = columns /\ server' = Asked(columns)
     ELSE UNCHANGED <<applied, server>>
  /\ UNCHANGED <<main, tcp, udp, running, columns, drain, frame, latest, seen, found, air, calls>>
Deliver ==
  /\ rx = "asked" /\ rx' = "top" /\ latest' = [seq |-> latest.seq + 1, width |-> frame]
  /\ UNCHANGED <<main, tcp, udp, running, columns, native, applied, drain, frame, seen, server, found, air, calls>>

\* A header cannot be read: the link broke, or client_stop shut it.
ReadFails == tcp = "down" \/ main = "told"
DrainEnds ==
  /\ drain = "top" /\ (ReadFails \/ ~running)
  /\ drain' = "over" /\ running' = FALSE
  /\ UNCHANGED <<main, tcp, udp, columns, native, applied, rx, frame, latest, seen, server, found, air, calls>>

-----------------------------------------------------------------------------
Next ==
  \/ ServerStreams \/ LinkBreaks
  \/ \E works \in BOOLEAN :
       TcpConnect(works) \/ Handshake(works) \/ UdpConnect(works) \/ Register(works) \/ Ingest(works)
  \/ \E n \in Columns : SetColumns(n)
  \/ Again \/ Start \/ Latest \/ Stop \/ JoinRx \/ Tell \/ JoinTcp
  \/ \E w \in AnyWidth : Receive(w)
  \/ RxEnds \/ AskWidth \/ Deliver \/ DrainEnds

Spec == Init /\ [][Next]_vars

-----------------------------------------------------------------------------
\* A client that leaves while the server is there leaves it as it was, at the width
\* it had and without a stream to nobody, whatever was asked for and however late its last
\* datagram came; none of its threads is left to ask again, and no socket is left open by
\* whichever step of the connection failed (client_connect, client_stop's order,
\* native_width in rx_thread).
LeftAsFound ==
  /\ main = "told" /\ tcp = "up" => server.width = found /\ ~server.streams
  /\ main = "ended" => rx \in {"none", "over"} /\ drain \in {"none", "over"} /\ tcp = "none" /\ ~udp

-----------------------------------------------------------------------------
(* What makes it so: an inductive invariant.                               *)

Connecting == {"new", "dialled", "accepted", "heard", "known"}
Quiet      == {"joined", "told", "ended"}

\* The sockets are those the step the owner is at has opened, and the server streams
\* over a link only.
Sockets ==
  /\ tcp \in {"none", "up", "down"} /\ udp \in BOOLEAN
  /\ main \in {"new", "ended"} => tcp = "none"
  /\ main \in {"new", "dialled", "accepted", "ended"} => ~udp
  /\ server.streams => tcp = "up" /\ main \notin Connecting \cup {"told", "ended"}

Threads ==
  /\ main \in Connecting \cup {"connected"} => rx = "none" /\ drain = "none" /\ applied = 0 /\ native = 0
  /\ main \in Connecting => air = {}
  /\ main \in Quiet => rx \in {"none", "over"}
  /\ main = "ended" => drain \in {"none", "over"}

\* Until a width is asked for, the server, the air and the first frame have its own;
\* from then on the client knows that, and the server has the width asked for last.
WidthKnown ==
  /\ native \in {0, found}
  /\ IF applied = 0
     THEN server.width = found /\ air \subseteq {found} /\ (rx = "frame" => frame = found)
     ELSE native = found /\ (tcp = "up" /\ main # "told" => server.width = applied)
  /\ main = "told" /\ tcp = "up" => server.width = found

RemoteInv ==
  /\ server \in [width : Nat \ {0}, streams : BOOLEAN] /\ found \in Nat \ {0}
  /\ {columns, native, applied} \subseteq Nat
  /\ Sockets /\ Threads
  /\ main \notin {"new", "ended"} => WidthKnown
=============================================================================
