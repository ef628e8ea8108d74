------------------------------ MODULE LanLink ------------------------------
(***************************************************************************)
(* The connections of LANTransport (transport/lan.py) between peers that   *)
(* hear each other's beacons: dialling, the hello handshake at both ends   *)
(* of a TCP connection, the read and the write loop of a connection and    *)
(* _drop, which both of them end in.                                       *)
(*                                                                         *)
(* A node is one asyncio thread: what runs between two awaits is one       *)
(* action.  A socket is a TCP connection; the pool of Sockets bounds how   *)
(* many exist at a time, and a socket that both ends gave up is used       *)
(* again.  Either end may dial, so two dials can cross.                    *)
(***************************************************************************)
EXTENDS Naturals, Sequences, FiniteSets

CONSTANTS
    Peers,
    Sockets,      \* the TCP connections that may exist at a time
    None,         \* no socket
    Listeners,    \* the peers that hear the beacons of the others
    Connectors,   \* the peers that connect unasked: /connect, port scan
    MaxFrames,    \* bound on the frames one peer sends to another
    MaxFailures   \* bound on broken sockets and on handshakes that time out

ASSUME LanLinkAssumption ==
    /\ None \notin Sockets
    /\ Listeners \subseteq Peers /\ Connectors \subseteq Peers
    /\ MaxFrames \in Nat /\ MaxFailures \in Nat

VARIABLES
    dialing,      \* dialing[x]: the peers x has a connect_host task for
    ends,         \* ends[s]: the two peers of s, {} if it is not in use
    phase,        \* phase[s][x]: how far x's end of s is
    stream,       \* stream[s][x]: what x wrote to s and the other has not read
    queue,        \* queue[s][x]: conn.queue, what x's write loop is to write
    writing,      \* writing[s]: the peers whose write loop on s still runs
    cut,          \* the sockets the network broke, maybe without notice
    retrying,     \* retrying[s]: the peers that wrote to s after it broke
    connections,  \* connections[x][y]: x's registered connection to y, or None
    told,         \* told[x]: the peers Core of x was last told are connected
    sent,         \* sent[x][y]: the frames x's send_frame took for y
    received,     \* received[x][y]: the frames of y that x read, in order
    failures

vars == <<dialing, ends, phase, stream, queue, writing, cut, retrying,
          connections, told, sent, received, failures>>

-----------------------------------------------------------------------------

\* An end has sent its hello and waits for the other's ("greeting"), is a
\* registered connection with a read loop ("open"), or has closed its writer.
Phase == {"unused", "greeting", "open", "closed"}

\* On a socket, 0 is the hello and n > 0 the n-th frame from x to y.
Hello == 0

Uses(s, x) == x \in ends[s]
Other(s, x) == CHOOSE y \in ends[s] : y # x

\* The other end closed, or the network broke the socket: a read may return
\* nothing or fail from now on (a reset discards what is unread).
\* Faulty variant: the end of the stream is no end.
EndedOnError(s, x) == s \in cut

Ended(s, x) == s \in cut \/ phase[s][Other(s, x)] = "closed"

\* A read at x is sure to end only if TCP brings the news: the close of the
\* other end over a network that holds, or, over one that does not, that what
\* x wrote is never acknowledged.  _read_exact has no time limit and nothing
\* sets SO_KEEPALIVE, so an end that only reads may never hear of a break.
TcpTells(s, x) ==
    \/ s \notin cut /\ phase[s][Other(s, x)] = "closed"
    \/ s \in cut /\ x \in retrying[s]

Registered(x) == {y \in Peers : connections[x][y] # None}

Init ==
    /\ dialing = [x \in Peers |-> {}]
    /\ ends = [s \in Sockets |-> {}]
    /\ phase = [s \in Sockets |-> [x \in Peers |-> "unused"]]
    /\ stream = [s \in Sockets |-> [x \in Peers |-> <<>>]]
    /\ queue = [s \in Sockets |-> [x \in Peers |-> <<>>]]
    /\ writing = [s \in Sockets |-> {}]
    /\ cut = {}
    /\ retrying = [s \in Sockets |-> {}]
    /\ connections = [x \in Peers |-> [y \in Peers |-> None]]
    /\ told = [x \in Peers |-> {}]
    /\ sent = [x \in Peers |-> [y \in Peers |-> 0]]
    /\ received = [x \in Peers |-> [y \in Peers |-> <<>>]]
    /\ failures = 0

-----------------------------------------------------------------------------
(***************************************************************************)
(* Dialling.                                                               *)
(***************************************************************************)

\* _discovery_loop: a beacon of a peer that is not connected starts a task.
HearBeacon(x, y) ==
    /\ x \in Listeners /\ x # y
    /\ y \notin Registered(x) \cup dialing[x]
    /\ dialing' = [dialing EXCEPT ![x] = @ \cup {y}]
    /\ UNCHANGED <<ends, phase, stream, queue, writing, cut, retrying,
                   connections, told, sent, received, failures>>

\* /connect, and _probe of an address not known: no such test.
Connect(x, y) ==
    /\ x \in Connectors /\ x # y
    /\ y \notin dialing[x]
    /\ dialing' = [dialing EXCEPT ![x] = @ \cup {y}]
    /\ UNCHANGED <<ends, phase, stream, queue, writing, cut, retrying,
                   connections, told, sent, received, failures>>

\* connect_host at x and _accept at y: open_connection succeeds and both
\* ends start a handshake, which sends a hello before it waits for one.
Dial(x, y) ==
    /\ y \in dialing[x]
    /\ \E s \in Sockets :
          /\ ends[s] = {}
          /\ ends' = [ends EXCEPT ![s] = {x, y}]
          /\ phase' = [phase EXCEPT ![s] = [z \in Peers |->
                IF z \in {x, y} THEN "greeting" ELSE "unused"]]
          /\ stream' = [stream EXCEPT ![s] = [z \in Peers |->
                IF z \in {x, y} THEN <<Hello>> ELSE <<>>]]
    /\ dialing' = [dialing EXCEPT ![x] = @ \ {y}]
    /\ UNCHANGED <<queue, writing, cut, retrying, connections, told, sent,
                   received, failures>>

-----------------------------------------------------------------------------
(***************************************************************************)
(* The handshake.                                                          *)
(***************************************************************************)
\* Faulty variant: a close that is never completed.
BeginClose(s, x) == phase' = [phase EXCEPT ![s][x] = "closing"]

CloseWriter(s, x) == phase' = [phase EXCEPT ![s][x] = "closed"]

\* Faulty variant: a new connection replaces the one there is.
GreetAnyway(s, x) ==
    /\ Uses(s, x)
    /\ phase[s][x] = "greeting"
    /\ LET y == Other(s, x)
       IN  /\ stream[s][y] # <<>>
           /\ stream' = [stream EXCEPT ![s][y] = Tail(@)]
           /\ connections' = [connections EXCEPT ![x][y] = s]
           /\ told' = [told EXCEPT ![x] = @ \cup {y}]
    /\ phase' = [phase EXCEPT ![s][x] = "open"]
    /\ writing' = [writing EXCEPT ![s] = @ \cup {x}]
    /\ UNCHANGED <<dialing, ends, queue, cut, retrying, sent, received,
                   failures>>

\* x reads the hello of y: another connection to y makes it close this one,
\* else this one is registered, Core is told, and its two loops start.
Greet(s, x) ==
    /\ Uses(s, x)
    /\ phase[s][x] = "greeting"
    /\ LET y == Other(s, x)
       IN  /\ stream[s][y] # <<>>
           /\ stream' = [stream EXCEPT ![s][y] = Tail(@)]
           /\ \/ /\ connections[x][y] # None
                 /\ CloseWriter(s, x)
                 /\ UNCHANGED <<connections, told, writing>>
              \/ /\ connections[x][y] = None
                 /\ connections' = [connections EXCEPT ![x][y] = s]
                 /\ told' = [told EXCEPT ![x] = @ \cup {y}]
                 /\ phase' = [phase EXCEPT ![s][x] = "open"]
                 /\ writing' = [writing EXCEPT ![s] = @ \cup {x}]
    /\ UNCHANGED <<dialing, ends, queue, cut, retrying, sent, received,
                   failures>>

\* No hello came: the other end is gone, or HANDSHAKE_TIMEOUT has passed.
HandshakeFails(s, x) ==
    /\ Uses(s, x)
    /\ phase[s][x] = "greeting"
    /\ CloseWriter(s, x)
    /\ \/ Ended(s, x) /\ UNCHANGED failures
       \/ failures < MaxFailures /\ failures' = failures + 1
    /\ UNCHANGED <<dialing, ends, stream, queue, writing, cut, retrying,
                   connections, told, sent, received>>

-----------------------------------------------------------------------------
(***************************************************************************)
(* A connection in use.                                                    *)
(***************************************************************************)

\* Faulty variants: forget the peer whatever its connection; do not tell
\* Core; forget nothing.
ForgetAnyway(s, x) ==
    LET y == Other(s, x)
    IN  /\ connections' = [connections EXCEPT ![x][y] = None]
        /\ told' = [told EXCEPT ![x] = @ \ {y}]
ForgetSilently(s, x) ==
    /\ connections' = [connections EXCEPT ![x][Other(s, x)] =
                         IF @ = s THEN None ELSE @]
    /\ UNCHANGED told
ForgetNever(s, x) == UNCHANGED <<connections, told>>

\* _drop forgets the peer only if s is still its registered connection.
Forget(s, x) ==
    LET y == Other(s, x)
    IN  IF connections[x][y] = s
        THEN /\ connections' = [connections EXCEPT ![x][y] = None]
             /\ told' = [told EXCEPT ![x] = @ \ {y}]
        ELSE UNCHANGED <<connections, told>>

SendFrame(x, y) ==
    /\ connections[x][y] # None
    /\ sent[x][y] < MaxFrames
    /\ sent' = [sent EXCEPT ![x][y] = @ + 1]
    /\ queue' = [queue EXCEPT ![connections[x][y]][x] = Append(@, sent[x][y] + 1)]
    /\ UNCHANGED <<dialing, ends, phase, stream, writing, cut, retrying,
                   connections, told, received, failures>>

\* The write loop writes the next frame; nobody reads it if the socket ended,
\* and TCP repeats it for a time if the network is to blame.
Write(s, x) ==
    /\ x \in writing[s]
    /\ queue[s][x] # <<>>
    /\ queue' = [queue EXCEPT ![s][x] = Tail(@)]
    /\ stream' = IF Ended(s, x) \/ phase[s][x] = "closed" THEN stream
                 ELSE [stream EXCEPT ![s][x] = Append(@, Head(queue[s][x]))]
    /\ retrying' = IF s \in cut
                   THEN [retrying EXCEPT ![s] = @ \cup {x}] ELSE retrying
    /\ UNCHANGED <<dialing, ends, phase, writing, cut, connections, told,
                   sent, received, failures>>

\* write or drain raises: the write loop ends in _drop.  The read loop ends
\* with it, for what the reader had was given to it before.
WriteFails(s, x) ==
    /\ x \in writing[s]
    /\ queue[s][x] # <<>>
    /\ Ended(s, x) \/ phase[s][x] = "closed"
    /\ queue' = [queue EXCEPT ![s][x] = <<>>]
    /\ writing' = [writing EXCEPT ![s] = @ \ {x}]
    /\ Forget(s, x)
    /\ CloseWriter(s, x)
    /\ UNCHANGED <<dialing, ends, stream, cut, retrying, sent, received,
                   failures>>

\* The read loop gives the next frame to the router.
Read(s, x) ==
    /\ Uses(s, x)
    /\ phase[s][x] = "open"
    /\ LET y == Other(s, x)
       IN  /\ stream[s][y] # <<>>
           /\ stream' = [stream EXCEPT ![s][y] = Tail(@)]
           /\ received' = [received EXCEPT ![x][y] = Append(@, Head(stream[s][y]))]
    /\ UNCHANGED <<dialing, ends, phase, queue, writing, cut, retrying,
                   connections, told, sent, failures>>

\* The read loop reads nothing more and ends in _drop.  The write loop is not
\* told: it waits on a queue nobody fills, or fails at its next frame.
ReadEnds(s, x) ==
    /\ Uses(s, x)
    /\ phase[s][x] = "open"
    /\ Ended(s, x)
    /\ Forget(s, x)
    /\ CloseWriter(s, x)
    /\ UNCHANGED <<dialing, ends, stream, queue, writing, cut, retrying,
                   sent, received, failures>>

Cut(s) ==
    /\ ends[s] # {}
    /\ s \notin cut
    /\ failures < MaxFailures
    /\ failures' = failures + 1
    /\ cut' = cut \cup {s}
    /\ UNCHANGED <<dialing, ends, phase, stream, queue, writing, retrying,
                   connections, told, sent, received>>

\* Both ends closed the socket and no write loop has anything left to write.
Recycle(s) ==
    /\ ends[s] # {}
    /\ \A x \in ends[s] :
          /\ phase[s][x] = "closed"
          /\ x \in writing[s] => queue[s][x] = <<>>
    /\ ends' = [ends EXCEPT ![s] = {}]
    /\ phase' = [phase EXCEPT ![s] = [x \in Peers |-> "unused"]]
    /\ stream' = [stream EXCEPT ![s] = [x \in Peers |-> <<>>]]
    /\ queue' = [queue EXCEPT ![s] = [x \in Peers |-> <<>>]]
    /\ writing' = [writing EXCEPT ![s] = {}]
    /\ cut' = cut \ {s}
    /\ retrying' = [retrying EXCEPT ![s] = {}]
    /\ UNCHANGED <<dialing, connections, told, sent, received, failures>>

-----------------------------------------------------------------------------

\* What the two ends of s do by themselves.
Progress(s, x) ==
    \/ Greet(s, x)
    \/ HandshakeFails(s, x)
    \/ Write(s, x)
    \/ WriteFails(s, x)
    \/ Read(s, x)
    \/ ReadEnds(s, x)

Next ==
    \/ \E x, y \in Peers :
          HearBeacon(x, y) \/ Connect(x, y) \/ Dial(x, y) \/ SendFrame(x, y)
    \/ \E s \in Sockets, x \in Peers : Progress(s, x)
    \/ \E s \in Sockets : Cut(s) \/ Recycle(s)

Spec == Init /\ [][Next]_vars

\* Beacons are sent every BEACON_INTERVAL, scheduled tasks run, a handshake
\* has a time limit (HANDSHAKE_TIMEOUT), and TCP delivers what it carries and
\* tells what it can.
Fairness ==
    /\ \A x, y \in Peers : WF_vars(HearBeacon(x, y)) /\ WF_vars(Dial(x, y))
    /\ \A s \in Sockets, x \in Peers :
          /\ WF_vars(Greet(s, x) /\ s \notin cut)
          /\ WF_vars(HandshakeFails(s, x) /\ Ended(s, x))
          /\ WF_vars(Write(s, x))
          /\ WF_vars(Read(s, x) /\ s \notin cut)
          /\ WF_vars(ReadEnds(s, x) /\ TcpTells(s, x))
    /\ \A s \in Sockets : WF_vars(Recycle(s))

FairSpec == Spec /\ Fairness

-----------------------------------------------------------------------------
(***************************************************************************)
(* Properties.                                                             *)
(***************************************************************************)

\* Every variable keeps its type.
TypeOK ==
    /\ dialing \in [Peers -> SUBSET Peers]
    /\ ends \in [Sockets -> SUBSET Peers]
    /\ phase \in [Sockets -> [Peers -> Phase]]
    /\ stream \in [Sockets -> [Peers -> Seq(Nat)]]
    /\ queue \in [Sockets -> [Peers -> Seq(Nat)]]
    /\ writing \in [Sockets -> SUBSET Peers]
    /\ cut \subseteq Sockets
    /\ retrying \in [Sockets -> SUBSET Peers]
    /\ connections \in [Peers -> [Peers -> Sockets \cup {None}]]
    /\ told \in [Peers -> SUBSET Peers]
    /\ sent \in [Peers -> [Peers -> Nat]]
    /\ received \in [Peers -> [Peers -> Seq(Nat)]]
    /\ failures \in Nat

\* An open end is the registered connection of its peer, and the registered
\* connection of a peer is an open end: a write loop that outlives its
\* connection does not take the next connection of the peer away, and no
\* connection is read that send_frame would not write to.
OpenIsRegistered ==
    \A s \in Sockets : \A x \in ends[s] :
        phase[s][x] = "open" <=> connections[x][Other(s, x)] = s

\* What Core was last told of a peer is what the transport holds.
CoreIsTold == \A x \in Peers : told[x] = Registered(x)

\* While at most one socket breaks or handshake times out, Core is given the
\* frames of a peer in the order send_frame took them, through however many
\* connections: no two connections of a peer are read at a time, and none is
\* read after a newer one.  (Two may be, if the hello of the older one was
\* left unread while the newer one came and broke.)
ReadInOrder ==
    failures <= 1 => \A x, y \in Peers : \A i, j \in DOMAIN received[x][y] :
        i < j => received[x][y][i] < received[x][y][j]

\* x and y hold the two ends of one connection that works.
Joined(x, y) ==
    /\ connections[x][y] \notin cut \cup {None}
    /\ connections[x][y] = connections[y][x]

OneSocketInUse == Cardinality({s \in Sockets : ends[s] # {}}) <= 1

\* A read loop waits for a socket that broke.
Unnoticed == \E s \in cut : \E x \in ends[s] : phase[s][x] = "open"

\* README.md:35: machines on one network find each other and connect by
\* themselves.  Two peers get to hold the two ends of one connection, again
\* after each of finitely many failures that both notice, if dials do not
\* overlap for ever: whatever connections were begun, refused and broken
\* before, the next one that is alone succeeds.  (Dials that overlap may
\* close each other's connection, again and again.  While an end takes a
\* broken connection for a good one, it neither dials nor lets the other
\* dial.)
AutoConnectAlone ==
    <>[](OneSocketInUse /\ ~Unnoticed) =>
        \A x \in Peers : \A y \in Peers \ {x} : []<>Joined(x, y)

\* A connection is dropped when its other end has closed it, unless the
\* network breaks before it says so; and a broken one when it is used: the
\* frame a write loop has yet to write makes both loops give up.  The peer
\* at the other end is taken for a neighbor only so long.
HalfOpenDropped ==
    \A s \in Sockets, x \in Peers : \A y \in Peers \ {x} :
        /\ (connections[x][y] = s /\ s \notin cut /\ phase[s][y] = "closed")
              ~> (connections[x][y] # s \/ s \in cut)
        /\ (connections[x][y] = s /\ s \in cut /\ queue[s][x] # <<>>)
              ~> connections[x][y] # s
=============================================================================
