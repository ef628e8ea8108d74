----------------------------- MODULE Bluetooth -----------------------------
(***************************************************************************)
(* BluetoothTransport (transport/bluetooth.py).  Its sockets block, so     *)
(* every accept, connect, sendall and read of a frame is a job for the     *)
(* thread pool of asyncio.to_thread, which has few threads and takes jobs  *)
(* in order: a connection nobody writes to keeps a thread until its read   *)
(* times out.  The other hazard is the stream: a frame is a length and as  *)
(* many bytes, and a read that times out half-way loses its place.         *)
(*                                                                         *)
(* The end of a job and what its coroutine does next, up to the next job,  *)
(* is one action.  Each socket is one attempt to connect.                  *)
(***************************************************************************)
EXTENDS Naturals, Sequences, FiniteSets, SequencesExt

CONSTANTS
    Nodes,
    Sockets,
    None,         \* no socket
    Dialer, Acceptor,  \* the two ends of a socket
    Threads,      \* Threads[n]: how many threads the pool of n has
    Lengths,      \* the lengths that text can be mistaken for
    MaxFrames,    \* MaxFrames[n]: bound on the frames n sends to another
    MaxFailures   \* bound on lost links and on silences of a link in use

ASSUME BluetoothAssumption ==
    /\ None \notin Sockets
    /\ Dialer \in [Sockets -> Nodes] /\ Acceptor \in [Sockets -> Nodes]
    /\ \A s \in Sockets : Dialer[s] # Acceptor[s]
    /\ Threads \in [Nodes -> Nat \ {0}]
    /\ Lengths \subseteq Nat \ {0}
    /\ MaxFrames \in [Nodes -> Nat] /\ MaxFailures \in Nat

VARIABLES
    phase,        \* phase[s][n]: how far n's end of s is
    stream,       \* stream[s][n]: what n wrote to s and the other has not read
    want,         \* want[s][n]: how much n still skips on s, its place lost
    outbox,       \* outbox[s][n]: conn.queue and the frame n is writing
    connections,  \* connections[n]: the sockets n has registered
    jobs,         \* jobs[n]: the jobs of n's pool in order, the running first
    cut,          \* the sockets whose radio link was lost
    sent,         \* sent[n][m]: the frames send_frame of n took for m
    received,     \* received[s][n]: the frames that n read from s, in order
    failures

ends == <<phase, connections>>
data == <<stream, want, outbox, sent, received>>
vars == <<ends, data, jobs, cut, failures>>

-----------------------------------------------------------------------------
Ends(s) == {Dialer[s], Acceptor[s]}
Other(s, n) == CHOOSE m \in Ends(s) : m # n

\* "backlog": connected and not accepted; "hello": the hello is to be sent;
\* "greeting": the other's is to be read; "open": registered.
Phase == {"unused", "connecting", "backlog", "hello", "greeting", "open",
          "closed"}

\* encode_frame: the head of a frame says how long its body is.  Frame 0 is
\* the hello.
Hello == 0
Unit == [frame : Nat, part : {"head", "body"}]
Framed(f) == <<[frame |-> f, part |-> "head"], [frame |-> f, part |-> "body"]>>

\* Faulty variant: the length counts the head.
FrameSizeWithHead == 3

FrameSize == 2

Job(kind, s) == [kind |-> kind, socket |-> s]
Accepting == Job("accept", None)

\* The pool runs its oldest jobs.
Runs(n, job) ==
    \E i \in DOMAIN jobs[n] : i <= Threads[n] /\ jobs[n][i] = job

\* The job ends, and its coroutine submits the next ones.
Finish(n, job, next) ==
    \E i \in DOMAIN jobs[n] :
        jobs[n][i] = job /\ jobs' = [jobs EXCEPT ![n] = RemoveAt(@, i) \o next]

Registered(n) == {Other(s, n) : s \in connections[n]}

\* The other end closed or the link was lost: a read returns nothing or
\* fails, as soon as it likes.
Ended(s, n) == s \in cut \/ phase[s][Other(s, n)] = "closed"

Init ==
    /\ phase = [s \in Sockets |-> [n \in Nodes |-> "unused"]]
    /\ stream = [s \in Sockets |-> [n \in Nodes |-> <<>>]]
    /\ want = [s \in Sockets |-> [n \in Nodes |-> 0]]
    /\ outbox = [s \in Sockets |-> [n \in Nodes |-> <<>>]]
    /\ connections = [n \in Nodes |-> {}]
    /\ jobs = [n \in Nodes |-> <<Accepting>>]
    /\ cut = {}
    /\ sent = [n \in Nodes |-> [m \in Nodes |-> 0]]
    /\ received = [s \in Sockets |-> [n \in Nodes |-> <<>>]]
    /\ failures = 0

-----------------------------------------------------------------------------
(***************************************************************************)
(* Connecting.                                                             *)
(***************************************************************************)

\* _scan_loop, connect_host or scan: they dial connected nodes, too.
Dial(s) ==
    LET n == Dialer[s]
    IN  /\ phase[s][n] = "unused"
        /\ phase' = [phase EXCEPT ![s][n] = "connecting"]
        /\ jobs' = [jobs EXCEPT ![n] = Append(@, Job("connect", s))]
        /\ UNCHANGED <<connections, data, cut, failures>>

\* _autoconnect: the handshake is up to further jobs.
Connect(s) ==
    LET n == Dialer[s]
    IN  /\ Runs(n, Job("connect", s))
        /\ phase' = [phase EXCEPT ![s][n] = "hello", ![s][Acceptor[s]] = "backlog"]
        /\ Finish(n, Job("connect", s), <<Job("send", s)>>)
        /\ UNCHANGED <<connections, data, cut, failures>>

\* _bt_probe_identity: one job connects, sends its hello and reads.
Probe(s) ==
    LET n == Dialer[s]
    IN  /\ Runs(n, Job("connect", s))
        /\ phase' = [phase EXCEPT ![s][n] = "greeting", ![s][Acceptor[s]] = "backlog"]
        /\ stream' = [stream EXCEPT ![s][n] = Framed(Hello)]
        /\ jobs' = [jobs EXCEPT ![n] = [i \in DOMAIN @ |->
                      IF @[i] = Job("connect", s) THEN Job("recv", s) ELSE @[i]]]
        /\ UNCHANGED <<connections, want, outbox, sent, received, cut, failures>>

\* The other device is out of range.
ConnectFails(s) ==
    LET n == Dialer[s]
    IN  /\ Runs(n, Job("connect", s))
        /\ phase' = [phase EXCEPT ![s] = [m \in Nodes |-> "closed"]]
        /\ Finish(n, Job("connect", s), <<>>)
        /\ UNCHANGED <<connections, data, cut, failures>>

\* _accept_loop: accept gets a connection, or times out and is tried again.
Accept(n) ==
    /\ Runs(n, Accepting)
    /\ \E s \in Sockets :
          /\ phase[s][n] = "backlog"
          /\ phase' = [phase EXCEPT ![s][n] = "hello"]
          /\ Finish(n, Accepting, <<Accepting, Job("send", s)>>)
    /\ UNCHANGED <<connections, data, cut, failures>>

AcceptTimesOut(n) ==
    /\ Runs(n, Accepting)
    /\ \A s \in Sockets : phase[s][n] # "backlog"
    /\ Finish(n, Accepting, <<Accepting>>)
    /\ UNCHANGED <<ends, data, cut, failures>>

-----------------------------------------------------------------------------
(***************************************************************************)
(* The end of a socket: _drop, or _close_sock in a handshake.              *)
(***************************************************************************)

\* What n had not read or written is lost.
Close(s, n) ==
    /\ phase' = [phase EXCEPT ![s][n] = "closed"]
    /\ connections' = [connections EXCEPT ![n] = @ \ {s}]
    /\ stream' = [stream EXCEPT ![s][Other(s, n)] = <<>>]
    /\ want' = [want EXCEPT ![s][n] = 0]
    /\ outbox' = [outbox EXCEPT ![s][n] = <<>>]
    /\ UNCHANGED <<sent, received>>

\* The radio is silent for as long as a read or write waits, or for good.
Fails == failures < MaxFailures /\ failures' = failures + 1

LoseLink(s) ==
    /\ Fails
    /\ s \notin cut /\ \E n \in Ends(s) : phase[s][n] = "open"
    /\ cut' = cut \cup {s}
    /\ UNCHANGED <<ends, data, jobs>>

\* A job on a socket that was closed meanwhile fails.
Abandon(s, n, kind) ==
    /\ phase[s][n] = "closed"
    /\ Runs(n, Job(kind, s))
    /\ Finish(n, Job(kind, s), <<>>)
    /\ UNCHANGED <<ends, data, cut, failures>>

-----------------------------------------------------------------------------
(***************************************************************************)
(* Sending.                                                                *)
(***************************************************************************)
Sending(s, n) == Runs(n, Job("send", s)) /\ phase[s][n] # "closed"

SendHello(s, n) ==
    /\ Sending(s, n)
    /\ phase[s][n] = "hello"
    /\ phase' = [phase EXCEPT ![s][n] = "greeting"]
    /\ stream' = [stream EXCEPT ![s][n] = Framed(Hello)]
    /\ Finish(n, Job("send", s), <<Job("recv", s)>>)
    /\ UNCHANGED <<connections, want, outbox, sent, received, cut, failures>>

\* send_frame: the write loop takes a frame as soon as it wrote the last.
SendFrame(n, m) ==
    /\ sent[n][m] < MaxFrames[n]
    /\ \E s \in connections[n] :
          /\ Other(s, n) = m
          /\ outbox' = [outbox EXCEPT ![s][n] = Append(@, sent[n][m] + 1)]
          /\ jobs' = IF outbox[s][n] # <<>> THEN jobs
                     ELSE [jobs EXCEPT ![n] = Append(@, Job("send", s))]
    /\ sent' = [sent EXCEPT ![n][m] = @ + 1]
    /\ UNCHANGED <<ends, stream, want, received, cut, failures>>

\* _write_loop
WriteFrame(s, n) ==
    /\ Sending(s, n)
    /\ phase[s][n] = "open"
    /\ stream' = [stream EXCEPT ![s][n] = @ \o Framed(Head(outbox[s][n]))]
    /\ outbox' = [outbox EXCEPT ![s][n] = Tail(@)]
    /\ Finish(n, Job("send", s),
              IF Tail(outbox[s][n]) = <<>> THEN <<>> ELSE <<Job("send", s)>>)
    /\ UNCHANGED <<ends, want, sent, received, cut, failures>>

\* A broken pipe, or the timeout that the reads set on the socket.
SendFails(s, n) ==
    /\ Sending(s, n)
    /\ \/ Ended(s, n) /\ UNCHANGED failures
       \/ ~Ended(s, n) /\ Fails
    /\ Close(s, n)
    /\ Finish(n, Job("send", s), <<>>)
    /\ UNCHANGED cut

-----------------------------------------------------------------------------
(***************************************************************************)
(* Reading (_bt_read_frame).                                               *)
(***************************************************************************)
Reading(s, n) == Runs(n, Job("recv", s)) /\ phase[s][n] # "closed"

Incoming(s, n) == stream[s][Other(s, n)]
InPlace(s, n) ==
    want[s][n] = 0 /\ Incoming(s, n) # <<>> /\ Head(Incoming(s, n)).part = "head"

Consume(s, n, units) ==
    stream' = [stream EXCEPT ![s][Other(s, n)] = SubSeq(@, units + 1, Len(@))]

\* _read_loop hands a frame to the router and reads on.
ReadFrame(s, n) ==
    /\ Reading(s, n)
    /\ phase[s][n] = "open"
    /\ InPlace(s, n) /\ Len(Incoming(s, n)) >= FrameSize
    /\ received' = [received EXCEPT ![s][n] = Append(@, Head(Incoming(s, n)).frame)]
    /\ Consume(s, n, FrameSize)
    /\ Finish(n, Job("recv", s), <<Job("recv", s)>>)
    /\ UNCHANGED <<ends, want, outbox, sent, cut, failures>>

\* A body that is read in place of a head gives any length.
Misread(s, n) ==
    /\ Reading(s, n)
    /\ want[s][n] = 0 /\ Incoming(s, n) # <<>> /\ ~InPlace(s, n)
    /\ \E length \in Lengths : want' = [want EXCEPT ![s][n] = length]
    /\ Consume(s, n, 1)
    /\ UNCHANGED <<ends, outbox, sent, received, jobs, cut, failures>>

\* Faulty variant: what is left of a length is counted without care.
UnreadLess(left) == left - 2

Unread(left) == left - 1

\* What is read then is no envelope: ValueError, and the loop reads on.
Skip(s, n) ==
    /\ Reading(s, n)
    /\ want[s][n] > 0 /\ Incoming(s, n) # <<>>
    /\ want' = [want EXCEPT ![s][n] = Unread(@)]
    /\ Consume(s, n, 1)
    /\ IF want[s][n] > 1 THEN UNCHANGED jobs
       ELSE Finish(n, Job("recv", s), <<Job("recv", s)>>)
    /\ UNCHANGED <<ends, outbox, sent, received, cut, failures>>

\* Faulty variant: a new connection is registered, too.
TakenNever(s, n) == FALSE

Taken(s, n) == Other(s, n) \in Registered(n)

\* _handshake and _register: one connection for each peer.
ReadHello(s, n) ==
    /\ Reading(s, n)
    /\ phase[s][n] = "greeting"
    /\ Incoming(s, n) # <<>>
    /\ IF Taken(s, n)
       THEN Close(s, n) /\ Finish(n, Job("recv", s), <<>>)
       ELSE /\ phase' = [phase EXCEPT ![s][n] = "open"]
            /\ connections' = [connections EXCEPT ![n] = @ \cup {s}]
            /\ Consume(s, n, FrameSize)
            /\ Finish(n, Job("recv", s), <<Job("recv", s)>>)
            /\ UNCHANGED <<want, outbox, sent, received>>
    /\ UNCHANGED <<cut, failures>>

ReadEnd(s, n) ==
    /\ Reading(s, n)
    /\ Ended(s, n)
    /\ Close(s, n)
    /\ Finish(n, Job("recv", s), <<>>)
    /\ UNCHANGED <<cut, failures>>

\* HANDSHAKE_TIMEOUT and IDLE_TIMEOUT.  A read loop reads on from where the
\* stream is: what it had of a frame, none or all up to a place, is gone.
TimeOut(s, n, had) ==
    /\ Reading(s, n)
    /\ IF phase[s][n] = "greeting"
       THEN Close(s, n) /\ Finish(n, Job("recv", s), <<>>)
       ELSE /\ want' = [want EXCEPT ![s][n] = 0]
            /\ Consume(s, n, had)
            /\ Finish(n, Job("recv", s), <<Job("recv", s)>>)
            /\ UNCHANGED <<ends, outbox, sent, received>>

\* Faulty variant: only a handshake has a timeout.
HelloTimesOut(s, n) ==
    /\ Incoming(s, n) = <<>> /\ ~Ended(s, n)
    /\ phase[s][n] = "greeting"
    /\ TimeOut(s, n, 0)
    /\ UNCHANGED <<cut, failures>>

\* Nothing was sent for as long.
ReadTimesOut(s, n) ==
    /\ Incoming(s, n) = <<>> /\ ~Ended(s, n)
    /\ TimeOut(s, n, 0)
    /\ UNCHANGED <<cut, failures>>

\* The link is silent before or after the head of a frame.
LinkIsSilent(s, n) ==
    /\ Incoming(s, n) # <<>>
    /\ \E had \in {0, 1} : TimeOut(s, n, had)
    /\ Fails
    /\ UNCHANGED cut

-----------------------------------------------------------------------------
\* What ends the job of a running thread, unless the link fails.
AcceptJob(n) == Accept(n) \/ AcceptTimesOut(n)
ConnectJob(s) == Connect(s) \/ Probe(s) \/ ConnectFails(s)
SendJob(s, n) ==
    \/ SendHello(s, n)
    \/ WriteFrame(s, n)
    \/ Abandon(s, n, "send")
RecvJob(s, n) ==
    \/ ReadHello(s, n) \/ ReadFrame(s, n) \/ Misread(s, n) \/ Skip(s, n)
    \/ ReadEnd(s, n)
    \/ ReadTimesOut(s, n)
    \/ Abandon(s, n, "recv")

Next ==
    \/ \E n \in Nodes : AcceptJob(n)
    \/ \E n, m \in Nodes : SendFrame(n, m)
    \/ \E s \in Sockets :
          \/ Dial(s) \/ ConnectJob(s) \/ LoseLink(s)
          \/ \E n \in Ends(s) :
                \/ SendJob(s, n) \/ SendFails(s, n)
                \/ RecvJob(s, n) \/ LinkIsSilent(s, n)

Spec == Init /\ [][Next]_vars

\* Threads run, and a blocking call returns or times out.
Fairness ==
    /\ \A n \in Nodes : WF_vars(AcceptJob(n))
    /\ \A s \in Sockets : WF_vars(ConnectJob(s))
    /\ \A s \in Sockets : \A n \in Ends(s) :
          WF_vars(SendJob(s, n)) /\ WF_vars(RecvJob(s, n))

FairSpec == Spec /\ Fairness

-----------------------------------------------------------------------------
(***************************************************************************)
(* Properties.                                                             *)
(***************************************************************************)

\* Every variable keeps its type.
TypeOK ==
    /\ phase \in [Sockets -> [Nodes -> Phase]]
    /\ stream \in [Sockets -> [Nodes -> Seq(Unit)]]
    /\ want \in [Sockets -> [Nodes -> Nat]]
    /\ outbox \in [Sockets -> [Nodes -> Seq(Nat)]]
    /\ connections \in [Nodes -> SUBSET Sockets]
    /\ jobs \in [Nodes -> Seq([kind : {"accept", "connect", "send", "recv"},
                               socket : Sockets \cup {None}])]
    /\ cut \subseteq Sockets
    /\ sent \in [Nodes -> [Nodes -> Nat]]
    /\ received \in [Sockets -> [Nodes -> Seq(Nat)]]
    /\ failures \in Nat

JobsOf(n, job) == {i \in DOMAIN jobs[n] : jobs[n][i] = job}

\* A node has one connection for each peer, with one read in its pool and,
\* while frames wait to be written, one write: whatever dials cross, links
\* fail and jobs end late.
OneJobForEach ==
    \A n \in Nodes :
        /\ \A s, t \in connections[n] : Other(s, n) = Other(t, n) => s = t
        /\ \A s \in Sockets :
              /\ s \in connections[n] <=> phase[s][n] = "open"
              /\ phase[s][n] = "open" =>
                    /\ Cardinality(JobsOf(n, Job("recv", s))) = 1
                    /\ Cardinality(JobsOf(n, Job("send", s)))
                          = (IF outbox[s][n] = <<>> THEN 0 ELSE 1)

\* A node reads the frames of a connection in the order they were sent, and
\* nothing else; none twice, on whatever connections; and unless links fail, all
\* of one peer on one connection, with no read that loses its place.  (After
\* failures a frame may overtake those of an older connection.)
FramesReadInOrder ==
    /\ \A s \in Sockets : \A n \in Ends(s) :
          \A i, j \in DOMAIN received[s][n] :
              /\ received[s][n][i] # Hello
              /\ i < j => received[s][n][i] < received[s][n][j]
    /\ \A s, t \in Sockets : \A n \in Ends(s) \cap Ends(t) :
          s # t /\ Other(s, n) = Other(t, n) =>
              /\ \A i \in DOMAIN received[s][n], j \in DOMAIN received[t][n] :
                    received[s][n][i] # received[t][n][j]
              /\ failures = 0 => received[s][n] = <<>> \/ received[t][n] = <<>>
    /\ failures = 0 => \A s \in Sockets : \A n \in Ends(s) :
          want[s][n] = 0 /\ (Incoming(s, n) # <<>> => InPlace(s, n))

\* However many reads wait for peers that are silent, a frame gets written,
\* or the connection ends: reads that time out make room in the pool.
FramesGetWritten ==
    \A n \in Nodes :
        (\E s \in Sockets : outbox[s][n] # <<>>)
            ~> (\A s \in Sockets : outbox[s][n] = <<>>)
=============================================================================
