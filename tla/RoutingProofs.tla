--------------------------- MODULE RoutingProofs ---------------------------
(***************************************************************************)
(* Proofs about Routing, for all networks, transports and bounds.          *)
(***************************************************************************)
EXTENDS Routing, SelectionProofs

-----------------------------------------------------------------------------
(***************************************************************************)
(* The inductive invariant.  What the frames on the wires and the messages *)
(* in the queues have in common is said of the set of both.                *)
(***************************************************************************)

\* The wires of all nodes.
Wires == [Nodes -> [Ends -> Seq(Envelope)]]

IsTable(t) == DOMAIN t \subseteq Nodes /\ \A d \in DOMAIN t : t[d] \in Entry

\* Every variable is a function of the nodes, or what TypeOK says.
Typed ==
    /\ neighbors \in [Nodes -> SUBSET Ends]
    /\ DOMAIN table = Nodes /\ \A n \in Nodes : IsTable(table[n])
    /\ seen \in [Nodes -> SUBSET (Nodes \X Nat)]
    /\ seq \in [Nodes -> Nat]
    /\ outbox \in [Nodes -> Seq(Envelope)]
    /\ wire \in Wires
    /\ live \in SUBSET Links
    /\ delivered \in [Nodes -> Seq(Nat)]
    /\ messages \in Seq(Traffic)
    /\ probes \in Nat /\ breaks \in Nat /\ restarts \in Nat

\* The envelopes in the queues ob, and those on the wires w.
InQueues(ob) == UNION {{ob[n][i] : i \in 1..Len(ob[n])} : n \in Nodes}

OnWires(w) ==
    UNION {{w[n][e][i] : i \in 1..Len(w[n][e])} : n \in Nodes, e \in Ends}

Held(ob, w) == InQueues(ob) \cup OnWires(w)

\* A request names at least the node that sent it; what waits is a message.
Begun(env) == env.type = "route_request" => env.route # <<>>

RoutesBegun ==
    /\ \A v \in OnWires(wire) : Begun(v)
    /\ \A v \in InQueues(outbox) : v.type = "msg"

\* The messages in queues and wires, and those delivered, have been written.
GivenAt(held, del, number) ==
    /\ \A env \in held : env.type = "msg" => env.msg \in 1..number
    /\ \A n \in Nodes : \A i \in 1..Len(del[n]) : del[n][i] \in 1..number

Given == GivenAt(Held(outbox, wire), delivered, Len(messages))

\* The message id is the i-th member of the sequence q of envelopes.
Sits(q, i, id) == i \in 1..Len(q) /\ q[i].type = "msg" /\ q[i].msg = id

\* A message is in one place: a queue, a wire, or delivered.
OnceQueued(ob) ==
    \A n, m \in Nodes : \A i, j, id \in Nat :
        Sits(ob[n], i, id) /\ Sits(ob[m], j, id) => n = m /\ i = j

OnceOnWires(w) ==
    \A n, m \in Nodes : \A e, f \in Ends : \A i, j, id \in Nat :
        Sits(w[n][e], i, id) /\ Sits(w[m][f], j, id) => n = m /\ e = f /\ i = j

OnceDelivered(del) ==
    \A n, m \in Nodes : \A i \in 1..Len(del[n]), j \in 1..Len(del[m]) :
        del[n][i] = del[m][j] => n = m /\ i = j

QueuedOrOnWire(ob, w) ==
    \A n, m \in Nodes : \A f \in Ends : \A i, j, id \in Nat :
        ~(Sits(ob[n], i, id) /\ Sits(w[m][f], j, id))

QueuedOrDelivered(ob, del) ==
    \A n, m \in Nodes : \A i \in Nat : \A j \in 1..Len(del[m]) :
        ~Sits(ob[n], i, del[m][j])

OnWireOrDelivered(w, del) ==
    \A n, m \in Nodes : \A e \in Ends : \A i \in Nat : \A j \in 1..Len(del[m]) :
        ~Sits(w[n][e], i, del[m][j])

AloneAt(ob, w, del) ==
    /\ OnceQueued(ob) /\ OnceOnWires(w) /\ OnceDelivered(del)
    /\ QueuedOrOnWire(ob, w) /\ QueuedOrDelivered(ob, del)
    /\ OnWireOrDelivered(w, del)

Alone == AloneAt(outbox, wire, delivered)

\* While no node has forgotten its counter, the numbers in envelopes and in
\* what nodes have seen have been given out; an envelope with the number of
\* a message is a copy of it; and one that its target has seen is delivered.
NumberedAt(held, sn, sq, del) ==
    /\ \A env \in held : env.seq \in 1..sq[env.src]
    /\ \A n \in Nodes : \A k \in sn[n] : k[2] <= sq[k[1]]
    /\ \A u, v \in held : u.type = "msg" /\ Key(u) = Key(v) =>
          v.type = "msg" /\ v.msg = u.msg /\ v.dst = u.dst
    /\ \A v \in held : v.type = "msg" /\ Key(v) \in sn[v.dst] =>
          \E i \in 1..Len(del[v.dst]) : del[v.dst][i] = v.msg

Numbered ==
    restarts = 0 => NumberedAt(Held(outbox, wire), seen, seq, delivered)

-----------------------------------------------------------------------------
(***************************************************************************)
(* What the operators of Routing return.                                   *)
(***************************************************************************)

\* transport_for finds one end of a link to m at most, and one if there is
\* any.
LEMMA WayFacts ==
    ASSUME NEW near \in SUBSET Ends, NEW m
    PROVE  /\ Way(near, m) \subseteq near
           /\ \A e, f \in Way(near, m) : e = f
           /\ \A e \in Way(near, m) : e[2] = m
           /\ Way(near, m) = {} => \A e \in near : e[2] # m
<1>1. Order \in Seq(Transports) /\ Len(Order) \in Nat /\ DOMAIN Order = 1..Len(Order)
  BY RoutingAssumption, LenProperties
<1>2. Way(near, m) \subseteq near /\ \A e \in Way(near, m) : e[2] = m
  <2> SUFFICES ASSUME NEW e \in Way(near, m) PROVE e \in near /\ e[2] = m
    OBVIOUS
  <2>1. PICK i \in DOMAIN Order : e = <<Order[i], m>> /\ <<Order[i], m>> \in near
    BY DEF Way
  <2> QED BY <2>1
<1>3. \A e, f \in Way(near, m) : e = f
  <2> SUFFICES ASSUME NEW e \in Way(near, m), NEW f \in Way(near, m) PROVE e = f
    OBVIOUS
  <2>1. PICK i \in 1..Len(Order) : /\ e = <<Order[i], m>> /\ <<Order[i], m>> \in near
                                   /\ \A j \in 1..(i - 1) : <<Order[j], m>> \notin near
    BY <1>1 DEF Way
  <2>2. PICK k \in 1..Len(Order) : /\ f = <<Order[k], m>> /\ <<Order[k], m>> \in near
                                   /\ \A j \in 1..(k - 1) : <<Order[j], m>> \notin near
    BY <1>1 DEF Way
  <2>3. i = k
    <3>1. ~(i < k)
      <4>1. i < k => i \in 1..(k - 1)
        OBVIOUS
      <4> QED BY <2>1, <2>2, <4>1
    <3>2. ~(k < i)
      <4>1. k < i => k \in 1..(i - 1)
        OBVIOUS
      <4> QED BY <2>1, <2>2, <4>1
    <3> QED BY <3>1, <3>2
  <2> QED BY <2>1, <2>2, <2>3
<1>4. ASSUME NEW e \in near, e[2] = m
      PROVE  Way(near, m) # {}
  <2>1. e = <<e[1], m>> /\ e[1] \in Transports
    BY <1>4 DEF Ends
  <2>2. PICK i \in 1..Len(Order) : Order[i] = e[1]
    BY <1>1, <2>1 DEF Transports
  <2> DEFINE K == {k \in 1..Len(Order) : <<Order[k], m>> \in near}
  <2>3. i \in K /\ K \in SUBSET Nat
    BY <1>1, <2>1, <2>2
  <2> HIDE DEF K
  <2>4. PICK k \in K : \A j \in K : k <= j
    <3>1. K \in SUBSET (1..Len(Order)) /\ IsFiniteSet(1..Len(Order))
      BY <1>1, FS_Interval DEF K
    <3>2. IsFiniteSet(K)
      BY <3>1, FS_Subset
    <3> QED BY <2>3, <3>2, Least
  <2>5. k \in 1..Len(Order) /\ <<Order[k], m>> \in near
    BY DEF K
  <2>6. \A j \in 1..(k - 1) : <<Order[j], m>> \notin near
    <3> TAKE j \in 1..(k - 1)
    <3>1. j \in 1..Len(Order) /\ ~(k <= j)
      BY <1>1, <2>5
    <3>2. j \notin K
      BY <2>4, <3>1
    <3> QED BY <3>1, <3>2 DEF K
  <2>7. <<Order[k], m>> \in Way(near, m)
    BY <1>1, <2>5, <2>6 DEF Way
  <2> QED BY <2>7
<1> QED BY <1>2, <1>3, <1>4

\* What a node sends to the ends of its links.
Sendings == [env : Envelope, to : SUBSET Ends]

\* A request that is begun is an envelope.
LEMMA RequestType ==
    ASSUME NEW n \in Nodes, NEW target \in Nodes, NEW number \in Nat
    PROVE  /\ Request(n, target, number) \in Envelope
           /\ Begun(Request(n, target, number))
<1>1. <<n>> \in Seq(Nodes) /\ <<n>> # <<>> /\ DISCOVERY_TTL \in Nat
  BY RoutingAssumption
<1> QED BY <1>1 DEF Request, Envelope, Begun

\* So is a reply: there is a path to send it back by.
LEMMA ReplyType ==
    ASSUME NEW n \in Nodes, NEW request \in Envelope, request.route # <<>>,
           NEW distance \in Nat, NEW number \in Nat
    PROVE  /\ Reply(n, request, distance, number) \in Envelope
           /\ Begun(Reply(n, request, distance, number))
<1> DEFINE path == request.route
<1>1. path \in Seq(Nodes) /\ path # <<>> /\ request.src \in Nodes /\ request.dst \in Nodes
  BY DEF Envelope
<1> HIDE DEF path
<1>2. Len(path) \in Nat /\ Len(path) # 0 /\ DOMAIN path = 1..Len(path)
  BY <1>1, LenProperties, EmptySeq
<1>3. Reversed(path) \in [1..Len(path) -> Nodes]
  <2>1. \A i \in 1..Len(path) : path[Len(path) - i + 1] \in Nodes
    <3> TAKE i \in 1..Len(path)
    <3>1. Len(path) - i + 1 \in 1..Len(path)
      BY <1>2
    <3> QED BY <1>1, <3>1, ElementOfSeq
  <2> QED BY <1>2, <2>1 DEF Reversed
<1>4. Reversed(path) \in Seq(Nodes) /\ Len(Reversed(path)) = Len(path)
  BY <1>2, <1>3, IsASeq, LenProperties
<1>5. Reversed(path) # <<>>
  BY <1>2, <1>4, EmptySeq
<1>6. Tail(Reversed(path)) \in Seq(Nodes) /\ DISCOVERY_TTL \in Nat
  BY <1>4, <1>5, HeadTailProperties, RoutingAssumption
<1> QED BY <1>1, <1>6 DEF Reply, Envelope, Begun, path

\* u is v on its way: it may have come further, by another path.
Like(u, v) ==
    /\ u.type = v.type /\ u.src = v.src /\ u.dst = v.dst
    /\ u.seq = v.seq /\ u.msg = v.msg

\* What is forwarded is the same envelope, with less to live.
LEMMA OnwardType ==
    ASSUME NEW env \in Envelope, env.ttl > 0
    PROVE  Onward(env) \in Envelope /\ Like(Onward(env), env)
<1> DEFINE path == IF env.route # <<>> THEN Tail(env.route) ELSE env.route
<1>1. env.route \in Seq(Nodes) /\ env.ttl \in Nat
  BY DEF Envelope
<1>2. path \in Seq(Nodes)
  BY <1>1, HeadTailProperties
<1>3. env.ttl - 1 \in Nat
  BY <1>1
<1>4. Onward(env) = [env EXCEPT !.ttl = env.ttl - 1, !.route = path]
  BY DEF Onward
<1> HIDE DEF path
<1> QED BY <1>2, <1>3, <1>4 DEF Envelope, Like

\* A frame is sent on by one link at most, and stays what it was.
LEMMA ForwardingType ==
    ASSUME NEW t, NEW near \in SUBSET Ends, NEW env \in Envelope
    PROVE  /\ Forwarding(t, near, env) \in Seq(Sendings)
           /\ Len(Forwarding(t, near, env)) \in {0, 1}
           /\ \A i \in 1..Len(Forwarding(t, near, env)) :
                 LET s == Forwarding(t, near, env)[i]
                 IN  Like(s.env, env) /\ \A e, f \in s.to : e = f
<1>1. CASE CanForward(t, env)
  <2> DEFINE hop == NextHop(t, env)
  <2>1. env.ttl > 0
    BY <1>1 DEF CanForward
  <2>2. Onward(env) \in Envelope /\ Like(Onward(env), env)
    BY <2>1, OnwardType
  <2>3. Way(near, hop) \subseteq Ends /\ \A e, f \in Way(near, hop) : e = f
    BY WayFacts
  <2>4. Forwarding(t, near, env) = <<Sending(Onward(env), Way(near, hop))>>
    BY <1>1 DEF Forwarding
  <2> HIDE DEF hop
  <2>5. Sending(Onward(env), Way(near, hop)) \in Sendings
    BY <2>2, <2>3 DEF Sending, Sendings
  <2> QED BY <2>2, <2>3, <2>4, <2>5 DEF Sending
<1>2. CASE ~CanForward(t, env)
  BY <1>2 DEF Forwarding
<1> QED BY <1>1, <1>2

\* What Router.send makes of every message of a queue: those that are not
\* refused go on by one link, and the others are replaced by requests with
\* numbers of their own.
SentFor(s, n, queue, refused, last) ==
    /\ s \in Seq(Sendings) /\ Len(s) = Len(queue)
    /\ refused \in SUBSET (1..Len(queue)) /\ Cardinality(refused) \in Nat
    /\ \A i \in 1..Len(queue) :
          /\ Begun(s[i].env)
          /\ i \in refused =>
                /\ s[i].env.type = "route_request" /\ s[i].env.src = n
                /\ s[i].env.seq \in (last + 1)..(last + Cardinality(refused))
          /\ i \notin refused =>
                Like(s[i].env, queue[i]) /\ \A e, f \in s[i].to : e = f

\* Router.send of a queue of messages does that.
LEMMA SendAllType ==
    ASSUME NEW n \in Nodes, NEW t, NEW near \in SUBSET Ends,
           NEW queue \in Seq(Envelope), NEW last \in Nat,
           \A i \in 1..Len(queue) : queue[i].type = "msg"
    PROVE  SentFor(SendAll(n, t, near, queue, last), n, queue,
                   Refused(t, near, queue), last)
<1> DEFINE refused == Refused(t, near, queue)
           s == SendAll(n, t, near, queue, last)
<1>1. Len(queue) \in Nat /\ DOMAIN queue = 1..Len(queue)
  BY LenProperties
<1>2. refused \in SUBSET (1..Len(queue))
  BY <1>1 DEF Refused
<1>3. IsFiniteSet(1..Len(queue)) /\ 1..Len(queue) \subseteq Nat
  BY <1>1, FS_Interval
<1>4. IsFiniteSet(refused) /\ refused \in SUBSET Nat
  <2> HIDE DEF refused
  <2> QED BY <1>2, <1>3, FS_Subset
<1>5. \A i \in 1..Len(queue) : i \in refused <=> ~Accepted(t, near, queue[i])
  BY <1>1 DEF Refused
<1>6. /\ Cardinality(refused) \in Nat
      /\ \A i \in refused : Rank(refused, i) \in 1..Cardinality(refused)
  <2> HIDE DEF refused
  <2> QED BY <1>4, Ranks
<1>7. \A i \in 1..Len(queue) : queue[i] \in Envelope
  BY ElementOfSeq
<1>8. ASSUME NEW i \in 1..Len(queue), i \in refused
      PROVE  /\ s[i] \in Sendings /\ Begun(s[i].env)
             /\ s[i].env.type = "route_request" /\ s[i].env.src = n
             /\ s[i].env.seq \in (last + 1)..(last + Cardinality(refused))
  <2> DEFINE number == last + Rank(refused, i)
  <2>1. s[i] = Sending(Request(n, queue[i].dst, number), near)
    BY <1>1, <1>5, <1>8 DEF SendAll, RefusedUpTo
  <2>2. number \in Nat /\ number \in (last + 1)..(last + Cardinality(refused))
    <3> HIDE DEF refused
    <3>1. Rank(refused, i) \in 1..Cardinality(refused)
      BY <1>6, <1>8
    <3> QED BY <1>6, <3>1
  <2>3. queue[i].dst \in Nodes
    BY <1>7 DEF Envelope
  <2> HIDE DEF number, refused, s
  <2>4. Request(n, queue[i].dst, number) \in Envelope /\ Begun(Request(n, queue[i].dst, number))
    BY <2>2, <2>3, RequestType
  <2>5. /\ Request(n, queue[i].dst, number).type = "route_request"
        /\ Request(n, queue[i].dst, number).src = n
        /\ Request(n, queue[i].dst, number).seq = number
    BY DEF Request
  <2> QED BY <2>1, <2>2, <2>4, <2>5 DEF Sending, Sendings
<1>9. ASSUME NEW i \in 1..Len(queue), i \notin refused
      PROVE  /\ s[i] \in Sendings /\ Begun(s[i].env)
             /\ Like(s[i].env, queue[i]) /\ \A e, f \in s[i].to : e = f
  <2> DEFINE env == queue[i]
             way == Way(near, NextHop(t, env))
  <2>1. Accepted(t, near, env)
    BY <1>5, <1>9
  <2>2. s[i] = Sending(Onward(env), way)
    BY <1>1, <2>1 DEF SendAll
  <2>3. env \in Envelope /\ env.ttl > 0
    BY <1>7, <2>1 DEF Accepted, CanForward
  <2>4. way \subseteq Ends /\ \A e, f \in way : e = f
    BY WayFacts
  <2>5. env.type = "msg"
    OBVIOUS
  <2> HIDE DEF env, way, s
  <2>6. Onward(env) \in Envelope /\ Like(Onward(env), env)
    BY <2>3, OnwardType
  <2>7. Begun(Onward(env))
    BY <2>5, <2>6 DEF Begun, Like
  <2>8. s[i] \in Sendings /\ s[i].env = Onward(env) /\ s[i].to = way
    BY <2>2, <2>4, <2>6 DEF Sending, Sendings
  <2> QED BY <2>4, <2>6, <2>7, <2>8 DEF env
<1>10. s \in Seq(Sendings) /\ Len(s) = Len(queue)
  <2>1. DOMAIN s = 1..Len(queue) /\ s = [i \in 1..Len(queue) |-> s[i]]
    BY <1>1 DEF SendAll
  <2> HIDE DEF s, refused
  <2>2. \A i \in 1..Len(queue) : s[i] \in Sendings
    BY <1>8, <1>9
  <2>3. s \in [1..Len(queue) -> Sendings]
    BY <2>1, <2>2
  <2> QED BY <1>1, <2>3, IsASeq, LenProperties
<1> HIDE DEF s, refused
<1> QED
  <2>1. SentFor(s, n, queue, refused, last)
    BY <1>2, <1>6, <1>8, <1>9, <1>10 DEF SentFor
  <2> QED BY <2>1 DEF s, refused

\* new is old with some of the frames s sent to the end e, in their order.
Added(new, old, e, s) ==
    \E k \in Nat : \E place \in [1..k -> 1..Len(s)] :
        /\ \A i, j \in 1..k : i < j => place[i] < place[j]
        /\ Len(new) = Len(old) + k
        /\ \A i \in 1..Len(old) : new[i] = old[i]
        /\ \A i \in 1..k : /\ e \in s[place[i]].to
                           /\ new[Len(old) + i] = s[place[i]].env

\* Frames are added to the wires of the node that sends, and to no others.
EmitsAt(new, w, n, s) ==
    /\ new \in Wires
    /\ \A m \in Nodes \ {n} : new[m] = w[m]
    /\ \A e \in Ends : Added(new[n][e], w[n][e], e, s)

\* What send_frame does to a wire.
LEMMA AddedFrames ==
    ASSUME NEW old \in Seq(Envelope), NEW e, NEW s \in Seq(Sendings)
    PROVE  LET mine == Picked(s, {i \in DOMAIN s : e \in s[i].to})
               new == old \o [i \in DOMAIN mine |-> mine[i].env]
           IN  new \in Seq(Envelope) /\ Added(new, old, e, s)
<1> DEFINE S == {i \in DOMAIN s : e \in s[i].to}
           k == Cardinality(S)
           mine == Picked(s, S)
           frames == [i \in DOMAIN mine |-> mine[i].env]
           new == old \o frames
<1>1. S \in SUBSET (1..Len(s)) /\ \A i \in S : e \in s[i].to
  BY LenProperties
<1> HIDE DEF S
<1>2. /\ k \in Nat /\ mine \in Seq(Sendings) /\ Len(mine) = k
      /\ \E place : Enumerates(place, S) /\ \A i \in 1..k : mine[i] = s[place[i]]
  BY <1>1, PickedPlaces
<1>3. PICK place : Enumerates(place, S) /\ \A i \in 1..k : mine[i] = s[place[i]]
  BY <1>2
<1>4. /\ place \in [1..k -> S]
      /\ \A i, j \in 1..k : i < j => place[i] < place[j]
  BY <1>3 DEF Enumerates
<1> HIDE DEF k, mine
<1>5. DOMAIN mine = 1..k /\ \A i \in 1..k : mine[i] \in Sendings
  BY <1>2, LenProperties, ElementOfSeq
<1>6. frames \in [1..k -> Envelope] /\ \A i \in 1..k : frames[i] = s[place[i]].env
  BY <1>3, <1>5 DEF Sendings
<1> HIDE DEF frames
<1>7. frames \in Seq(Envelope) /\ Len(frames) = k
  BY <1>2, <1>6, IsASeq, LenProperties
<1>8. /\ new \in Seq(Envelope) /\ Len(new) = Len(old) + k
      /\ \A i \in 1..Len(old) : new[i] = old[i]
      /\ \A i \in 1..k : new[Len(old) + i] = frames[i]
  <2>1. /\ new \in Seq(Envelope) /\ Len(new) = Len(old) + k
        /\ \A i \in 1..(Len(old) + k) :
              new[i] = IF i <= Len(old) THEN old[i] ELSE frames[i - Len(old)]
    BY <1>7, ConcatProperties
  <2>2. Len(old) \in Nat
    BY LenProperties
  <2> HIDE DEF new
  <2>3. \A i \in 1..Len(old) : new[i] = old[i]
    BY <1>2, <2>1, <2>2
  <2>4. \A i \in 1..k : new[Len(old) + i] = frames[i]
    <3> TAKE i \in 1..k
    <3>1. Len(old) + i \in 1..(Len(old) + k) /\ ~(Len(old) + i <= Len(old)) /\ (Len(old) + i) - Len(old) = i
      BY <1>2, <2>2
    <3> QED BY <2>1, <3>1
  <2> QED BY <2>1, <2>3, <2>4
<1> HIDE DEF new
<1>9. place \in [1..k -> 1..Len(s)]
  BY <1>1, <1>4
<1>10. \A i \in 1..k : e \in s[place[i]].to
  BY <1>1, <1>4
<1>11. Added(new, old, e, s)
  <2>1. /\ \A i, j \in 1..k : i < j => place[i] < place[j]
        /\ Len(new) = Len(old) + k
        /\ \A i \in 1..Len(old) : new[i] = old[i]
        /\ \A i \in 1..k : /\ e \in s[place[i]].to
                           /\ new[Len(old) + i] = s[place[i]].env
    BY <1>4, <1>6, <1>8, <1>10
  <2> QED BY <1>2, <1>9, <2>1 DEF Added
<1> QED BY <1>8, <1>11 DEF new, frames, mine, S

\* Where nothing is sent nothing changes.
LEMMA NothingAdded ==
    ASSUME NEW old \in Seq(Envelope), NEW e, NEW s
    PROVE  Added(old, old, e, s)
<1>1. Len(old) \in Nat
  BY LenProperties
<1> DEFINE place == [i \in 1..0 |-> i]
<1>2. 0 \in Nat /\ place \in [1..0 -> 1..Len(s)] /\ 1..0 = {} /\ Len(old) = Len(old) + 0
  BY <1>1
<1> QED BY <1>2 DEF Added

\* Emit, on the wires w of all nodes.
LEMMA EmitWires ==
    ASSUME NEW w \in Wires, NEW n \in Nodes, NEW s \in Seq(Sendings),
           Emit(w, n, s)
    PROVE  EmitsAt(wire', w, n, s)
<1> DEFINE up(e) == e \in neighbors'[n] /\ Link(n, e) \in live'
           mine(e) == Picked(s, {i \in DOMAIN s : e \in s[i].to})
           fuller(e) == w[n][e] \o [i \in DOMAIN mine(e) |-> mine(e)[i].env]
<1>1. wire' = [w EXCEPT ![n] = [e \in Ends |-> IF up(e) THEN fuller(e) ELSE w[n][e]]]
  BY DEF Emit
<1>2. \A e \in Ends : w[n][e] \in Seq(Envelope)
  BY DEF Wires
<1>3. \A e \in Ends : fuller(e) \in Seq(Envelope) /\ Added(fuller(e), w[n][e], e, s)
  BY <1>2, AddedFrames
<1>4. \A e \in Ends : Added(w[n][e], w[n][e], e, s)
  BY <1>2, NothingAdded
<1> HIDE DEF up, fuller, mine
<1>5. \A e \in Ends : wire'[n][e] = IF up(e) THEN fuller(e) ELSE w[n][e]
  BY <1>1 DEF Wires
<1>6. \A m \in Nodes \ {n} : wire'[m] = w[m]
  BY <1>1 DEF Wires
<1>7. wire' \in Wires
  <2>1. [e \in Ends |-> IF up(e) THEN fuller(e) ELSE w[n][e]] \in [Ends -> Seq(Envelope)]
    BY <1>2, <1>3
  <2> QED BY <1>1, <2>1 DEF Wires
<1> QED BY <1>3, <1>4, <1>5, <1>6, <1>7 DEF EmitsAt

-----------------------------------------------------------------------------
(***************************************************************************)
(* Which envelopes are in the queues and on the wires after a step.        *)
(***************************************************************************)

\* An envelope is on the wires if it is on one.
LEMMA OnWiresHas ==
    ASSUME NEW w, NEW v
    PROVE  v \in OnWires(w) <=>
              \E n \in Nodes : \E e \in Ends : \E i \in 1..Len(w[n][e]) : v = w[n][e][i]
<1> DEFINE frames(n, e) == {w[n][e][i] : i \in 1..Len(w[n][e])}
<1>1. OnWires(w) = UNION {frames(n, e) : n \in Nodes, e \in Ends}
  BY DEF OnWires
<1>2. \A n, e : v \in frames(n, e) <=> \E i \in 1..Len(w[n][e]) : v = w[n][e][i]
  OBVIOUS
<1> HIDE DEF frames
<1>3. v \in OnWires(w) <=> \E n \in Nodes : \E e \in Ends : v \in frames(n, e)
  BY <1>1
<1> QED BY <1>2, <1>3

\* An envelope is in the queues if it is in one.
LEMMA InQueuesHas ==
    ASSUME NEW ob, NEW v
    PROVE  v \in InQueues(ob) <=>
              \E n \in Nodes : \E i \in 1..Len(ob[n]) : v = ob[n][i]
BY DEF InQueues

\* What is on the wires after frames were sent was there or was sent.
LEMMA EmitHolds ==
    ASSUME NEW new, NEW w \in Wires, NEW n \in Nodes, NEW s, EmitsAt(new, w, n, s),
           NEW v \in OnWires(new)
    PROVE  v \in OnWires(w) \/ \E i \in 1..Len(s) : v = s[i].env
<1>1. PICK m \in Nodes : \E e \in Ends : \E i \in 1..Len(new[m][e]) : v = new[m][e][i]
  BY OnWiresHas
<1>2. PICK e \in Ends : \E i \in 1..Len(new[m][e]) : v = new[m][e][i]
  BY <1>1
<1>3. PICK i \in 1..Len(new[m][e]) : v = new[m][e][i]
  BY <1>2
<1>4. CASE m # n
  <2>1. new[m] = w[m]
    BY <1>4 DEF EmitsAt
  <2> QED BY <1>3, <2>1, OnWiresHas
<1>5. CASE m = n
  <2>1. Added(new[n][e], w[n][e], e, s)
    BY DEF EmitsAt
  <2>2. PICK k \in Nat : \E place \in [1..k -> 1..Len(s)] :
            /\ Len(new[n][e]) = Len(w[n][e]) + k
            /\ \A j \in 1..Len(w[n][e]) : new[n][e][j] = w[n][e][j]
            /\ \A j \in 1..k : new[n][e][Len(w[n][e]) + j] = s[place[j]].env
    BY <2>1 DEF Added
  <2>3. PICK place \in [1..k -> 1..Len(s)] :
            /\ Len(new[n][e]) = Len(w[n][e]) + k
            /\ \A j \in 1..Len(w[n][e]) : new[n][e][j] = w[n][e][j]
            /\ \A j \in 1..k : new[n][e][Len(w[n][e]) + j] = s[place[j]].env
    BY <2>2
  <2>4. Len(w[n][e]) \in Nat
    BY LenProperties DEF Wires
  <2>5. CASE i <= Len(w[n][e])
    <3>1. i \in 1..Len(w[n][e])
      BY <1>3, <2>4, <2>5
    <3> QED BY <1>3, <1>5, <2>3, <3>1, OnWiresHas
  <2>6. CASE ~(i <= Len(w[n][e]))
    <3> DEFINE j == i - Len(w[n][e])
    <3>1. j \in 1..k /\ i = Len(w[n][e]) + j
      BY <1>5, <2>3, <2>4, <2>6
    <3>2. v = s[place[j]].env
      BY <1>3, <1>5, <2>3, <3>1
    <3> QED BY <2>3, <3>1, <3>2
  <2> QED BY <2>5, <2>6
<1> QED BY <1>4, <1>5

\* The first frame of the wire from m to the end f is taken off.
ConsumesAt(new, w, m, f) ==
    /\ new \in Wires /\ m \in Nodes /\ f \in Ends
    /\ w[m][f] # <<>>
    /\ Len(new[m][f]) = Len(w[m][f]) - 1
    /\ \A i \in 1..Len(new[m][f]) : new[m][f][i] = w[m][f][i + 1]
    /\ \A l \in Nodes : \A e \in Ends : l # m \/ e # f => new[l][e] = w[l][e]

\* The end of a link as the node at the other end names it.
Back(n, e) == <<e[1], n>>

\* What a node does to the wires when it reads a frame.
LEMMA ConsumedWires ==
    ASSUME wire \in Wires, NEW n \in Nodes, NEW e \in Ends, Incoming(n, e) # <<>>
    PROVE  /\ ConsumesAt(Consumed(n, e), wire, e[2], Back(n, e))
           /\ Head(Incoming(n, e)) \in Envelope
           /\ Head(Incoming(n, e)) \in OnWires(wire)
           /\ Head(Incoming(n, e)) = wire[e[2]][Back(n, e)][1]
           /\ Len(wire[e[2]][Back(n, e)]) \in Nat \ {0}
<1> DEFINE m == e[2]
           f == Back(n, e)
           q == wire[m][f]
<1>1. m \in Nodes /\ f \in Ends
  BY DEF Ends, Back
<1>2. q \in Seq(Envelope) /\ q # <<>> /\ q = Incoming(n, e)
  BY <1>1 DEF Wires, Incoming, Back
<1>3. Consumed(n, e) = [wire EXCEPT ![m] = [wire[m] EXCEPT ![f] = Tail(q)]]
  BY DEF Consumed, Back
<1>4. \A x \in Nodes : wire[x] \in [Ends -> Seq(Envelope)]
  BY DEF Wires
<1> HIDE DEF m, f, q
<1>5. /\ Len(q) \in Nat \ {0} /\ Head(q) = q[1] /\ Head(q) \in Envelope
      /\ Tail(q) \in Seq(Envelope) /\ Len(Tail(q)) = Len(q) - 1
      /\ \A i \in 1..Len(Tail(q)) : Tail(q)[i] = q[i + 1]
  BY <1>2, HeadTailProperties, LenProperties, EmptySeq
<1>6. [wire[m] EXCEPT ![f] = Tail(q)] \in [Ends -> Seq(Envelope)]
  BY <1>1, <1>4, <1>5
<1>7. /\ Consumed(n, e) \in Wires
      /\ Consumed(n, e)[m] = [wire[m] EXCEPT ![f] = Tail(q)]
      /\ \A l \in Nodes : l # m => Consumed(n, e)[l] = wire[l]
  BY <1>1, <1>3, <1>6 DEF Wires
<1>8. /\ Consumed(n, e)[m][f] = Tail(q)
      /\ \A l \in Nodes : \A x \in Ends : l # m \/ x # f => Consumed(n, e)[l][x] = wire[l][x]
  BY <1>1, <1>4, <1>7
<1>9. q = wire[m][f]
  BY DEF q
<1>10. ConsumesAt(Consumed(n, e), wire, m, f)
  BY <1>1, <1>2, <1>5, <1>7, <1>8, <1>9 DEF ConsumesAt
<1>11. Head(q) \in OnWires(wire)
  <2>1. 1 \in 1..Len(q)
    BY <1>5
  <2> QED BY <1>1, <1>5, <1>9, <2>1, OnWiresHas
<1> QED BY <1>2, <1>5, <1>9, <1>10, <1>11 DEF m, f

\* What is on the wires then was there before.
LEMMA ConsumeHolds ==
    ASSUME NEW new, NEW w \in Wires, NEW m, NEW f, ConsumesAt(new, w, m, f),
           NEW v \in OnWires(new)
    PROVE  v \in OnWires(w)
<1>1. PICK l \in Nodes : \E e \in Ends : \E i \in 1..Len(new[l][e]) : v = new[l][e][i]
  BY OnWiresHas
<1>2. PICK e \in Ends : \E i \in 1..Len(new[l][e]) : v = new[l][e][i]
  BY <1>1
<1>3. PICK i \in 1..Len(new[l][e]) : v = new[l][e][i]
  BY <1>2
<1>4. CASE l # m \/ e # f
  <2>1. new[l][e] = w[l][e]
    BY <1>4 DEF ConsumesAt
  <2> QED BY <1>3, <2>1, OnWiresHas
<1>5. CASE l = m /\ e = f
  <2>1. Len(new[m][f]) = Len(w[m][f]) - 1 /\ new[m][f][i] = w[m][f][i + 1]
    BY <1>3, <1>5 DEF ConsumesAt
  <2>2. Len(w[m][f]) \in Nat
    BY <1>5, LenProperties DEF Wires
  <2>3. i + 1 \in 1..Len(w[m][f])
    BY <1>3, <1>5, <2>1, <2>2
  <2> QED BY <1>3, <1>5, <2>1, <2>3, OnWiresHas
<1> QED BY <1>4, <1>5

\* Messages that leave a queue leave the others in it.
LEMMA LeaveQueue ==
    ASSUME NEW ob \in [Nodes -> Seq(Envelope)], NEW n \in Nodes,
           NEW S \in SUBSET (1..Len(ob[n]))
    PROVE  LET new == [ob EXCEPT ![n] = Picked(ob[n], S)]
           IN  /\ new \in [Nodes -> Seq(Envelope)]
               /\ \A v \in InQueues(new) : v \in InQueues(ob)
<1> DEFINE rest == Picked(ob[n], S)
           new == [ob EXCEPT ![n] = rest]
<1>1. ob[n] \in Seq(Envelope)
  OBVIOUS
<1>2. /\ rest \in Seq(Envelope) /\ Len(rest) = Cardinality(S)
      /\ \E place : /\ Enumerates(place, S)
                    /\ \A i \in 1..Cardinality(S) : rest[i] = ob[n][place[i]]
  BY <1>1, PickedPlaces
<1>3. PICK place : /\ Enumerates(place, S)
                   /\ \A i \in 1..Cardinality(S) : rest[i] = ob[n][place[i]]
  BY <1>2
<1>4. \A i \in 1..Cardinality(S) : place[i] \in 1..Len(ob[n])
  BY <1>3 DEF Enumerates
<1> HIDE DEF rest
<1>5. new \in [Nodes -> Seq(Envelope)] /\ new[n] = rest /\ \A m \in Nodes : m # n => new[m] = ob[m]
  BY <1>2
<1> HIDE DEF new
<1>6. ASSUME NEW v \in InQueues(new) PROVE v \in InQueues(ob)
  <2>1. PICK m \in Nodes : \E i \in 1..Len(new[m]) : v = new[m][i]
    BY InQueuesHas
  <2>2. PICK i \in 1..Len(new[m]) : v = new[m][i]
    BY <2>1
  <2>3. CASE m # n
    BY <1>5, <2>2, <2>3, InQueuesHas
  <2>4. CASE m = n
    <3>1. i \in 1..Cardinality(S) /\ v = ob[n][place[i]]
      BY <1>2, <1>3, <1>5, <2>2, <2>4
    <3> QED BY <1>4, <3>1, InQueuesHas
  <2> QED BY <2>3, <2>4
<1> QED BY <1>5, <1>6 DEF new, rest

\* A message that joins a queue leaves the others in it.
LEMMA JoinQueue ==
    ASSUME NEW ob \in [Nodes -> Seq(Envelope)], NEW n \in Nodes, NEW env \in Envelope
    PROVE  LET new == [ob EXCEPT ![n] = Append(ob[n], env)]
           IN  /\ new \in [Nodes -> Seq(Envelope)]
               /\ \A v \in InQueues(new) : v \in InQueues(ob) \/ v = env
<1> DEFINE rest == Append(ob[n], env)
           new == [ob EXCEPT ![n] = rest]
<1>1. ob[n] \in Seq(Envelope)
  OBVIOUS
<1>2. /\ rest \in Seq(Envelope) /\ Len(rest) = Len(ob[n]) + 1 /\ Len(ob[n]) \in Nat
      /\ \A i \in 1..Len(ob[n]) : rest[i] = ob[n][i]
      /\ rest[Len(ob[n]) + 1] = env
  BY <1>1, AppendProperties, LenProperties
<1> HIDE DEF rest
<1>5. new \in [Nodes -> Seq(Envelope)] /\ new[n] = rest /\ \A m \in Nodes : m # n => new[m] = ob[m]
  BY <1>2
<1> HIDE DEF new
<1>6. ASSUME NEW v \in InQueues(new) PROVE v \in InQueues(ob) \/ v = env
  <2>1. PICK m \in Nodes : \E i \in 1..Len(new[m]) : v = new[m][i]
    BY InQueuesHas
  <2>2. PICK i \in 1..Len(new[m]) : v = new[m][i]
    BY <2>1
  <2>3. CASE m # n
    BY <1>5, <2>2, <2>3, InQueuesHas
  <2>4. CASE m = n /\ i # Len(ob[n]) + 1
    <3>1. i \in 1..Len(ob[n]) /\ v = ob[n][i]
      BY <1>2, <1>5, <2>2, <2>4
    <3> QED BY <3>1, InQueuesHas
  <2>5. CASE m = n /\ i = Len(ob[n]) + 1
    BY <1>2, <1>5, <2>2, <2>5
  <2> QED BY <2>3, <2>4, <2>5
<1> QED BY <1>5, <1>6 DEF new, rest

-----------------------------------------------------------------------------
(***************************************************************************)
(* What each kind of action does to queues and wires.                      *)
(***************************************************************************)

\* FlushQueued, from the wires w.
FlushEffect(w, n) ==
    \E s, refused :
        /\ SentFor(s, n, outbox[n], refused, seq[n])
        /\ EmitsAt(wire', w, n, s)
        /\ outbox' = [outbox EXCEPT ![n] = Picked(outbox[n], refused)]
        /\ seq' = [seq EXCEPT ![n] = seq[n] + Cardinality(refused)]

\* flush_queued sends every message that is not refused, and keeps the rest.
LEMMA Flushing ==
    ASSUME Typed, RoutesBegun, NEW w \in Wires, NEW n \in Nodes, NEW t,
           NEW near \in SUBSET Ends, FlushQueued(w, n, t, near)
    PROVE  FlushEffect(w, n)
<1> DEFINE refused == Refused(t, near, outbox[n])
           s == SendAll(n, t, near, outbox[n], seq[n])
<1>1. outbox[n] \in Seq(Envelope) /\ seq[n] \in Nat
  BY DEF Typed
<1>2. \A i \in 1..Len(outbox[n]) : outbox[n][i].type = "msg"
  BY InQueuesHas DEF RoutesBegun
<1>3. SentFor(s, n, outbox[n], refused, seq[n])
  BY <1>1, <1>2, SendAllType
<1>4. Emit(w, n, s)
  BY DEF FlushQueued
<1>5. /\ outbox' = [outbox EXCEPT ![n] = Picked(outbox[n], refused)]
      /\ seq' = [seq EXCEPT ![n] = seq[n] + Cardinality(refused)]
  BY DEF FlushQueued, StillQueued
<1> HIDE DEF s, refused
<1>6. s \in Seq(Sendings)
  BY <1>3 DEF SentFor
<1>7. EmitsAt(wire', w, n, s)
  BY <1>4, <1>6, EmitWires
<1> QED BY <1>3, <1>5, <1>7 DEF FlushEffect

\* What a node may send that is no message from a queue: one frame, an
\* envelope of E, by one link if it is a message, else a request or a reply
\* with a new number.
Passes(s, n, E) ==
    /\ s \in Seq(Sendings) /\ Len(s) \in {0, 1}
    /\ \A i \in 1..Len(s) :
          /\ Begun(s[i].env)
          /\ \/ /\ \E env \in E : Like(s[i].env, env)
                /\ s[i].env.type = "msg" => \A e, f \in s[i].to : e = f
             \/ /\ s[i].env.type # "msg" /\ s[i].env.src = n
                /\ s[i].env.seq = seq[n] + 1 /\ seq'[n] = seq[n] + 1

\* A frame is taken off a wire; nothing is queued.
ReadEffect(n, e) ==
    /\ e \in Ends
    /\ Incoming(n, e) # <<>>
    /\ outbox' = outbox
    /\ seq' = seq \/ seq' = [seq EXCEPT ![n] = seq[n] + 1]
    /\ \E s : /\ Passes(s, n, {Head(Incoming(n, e))})
              /\ EmitsAt(wire', Consumed(n, e), n, s)

\* Nothing is sent.
LEMMA Silent ==
    ASSUME NEW w \in Wires, NEW n \in Nodes, NEW E, wire' = w
    PROVE  Passes(<<>>, n, E) /\ EmitsAt(wire', w, n, <<>>)
<1>1. <<>> \in Seq(Sendings) /\ Len(<<>>) = 0 /\ 1..0 = {}
  BY EmptySeq
<1>2. \A e \in Ends : w[n][e] \in Seq(Envelope)
  BY DEF Wires
<1>3. \A e \in Ends : Added(w[n][e], w[n][e], e, <<>>)
  BY <1>2, NothingAdded
<1> QED BY <1>1, <1>3 DEF Passes, EmitsAt

\* One frame is sent.
LEMMA Single ==
    ASSUME NEW n \in Nodes, NEW E, NEW v \in Envelope, NEW to \in SUBSET Ends,
           Begun(v),
           \/ /\ \E env \in E : Like(v, env)
              /\ v.type = "msg" => \A e, f \in to : e = f
           \/ /\ v.type # "msg" /\ v.src = n
              /\ v.seq = seq[n] + 1 /\ seq'[n] = seq[n] + 1
    PROVE  <<Sending(v, to)>> \in Seq(Sendings) /\ Passes(<<Sending(v, to)>>, n, E)
<1> DEFINE s == <<Sending(v, to)>>
<1>1. Sending(v, to) \in Sendings /\ Sending(v, to).env = v /\ Sending(v, to).to = to
  BY DEF Sending, Sendings
<1>2. s \in Seq(Sendings) /\ Len(s) = 1 /\ s[1] = Sending(v, to)
  BY <1>1
<1> HIDE DEF s
<1>3. \A i \in 1..Len(s) : s[i].env = v /\ s[i].to = to
  BY <1>1, <1>2
<1>4. Passes(s, n, E)
  BY <1>2, <1>3 DEF Passes
<1> QED BY <1>2, <1>4 DEF s

\* What a node reads is an envelope; requests have a route.
LEMMA HeadType ==
    ASSUME Typed, RoutesBegun, NEW n \in Nodes, NEW e \in Ends, Incoming(n, e) # <<>>
    PROVE  /\ Head(Incoming(n, e)) \in Envelope /\ Begun(Head(Incoming(n, e)))
           /\ Head(Incoming(n, e)) \in OnWires(wire)
           /\ Consumed(n, e) \in Wires
           /\ ConsumesAt(Consumed(n, e), wire, e[2], Back(n, e))
           /\ e \in Ends /\ e[2] \in Nodes /\ Back(n, e) \in Ends
           /\ neighbors[n] \in SUBSET Ends /\ seq[n] \in Nat /\ IsTable(table[n])
<1>1. wire \in Wires /\ neighbors[n] \in SUBSET Ends /\ seq[n] \in Nat /\ IsTable(table[n])
  BY DEF Typed
<1>2. /\ ConsumesAt(Consumed(n, e), wire, e[2], Back(n, e))
      /\ Head(Incoming(n, e)) \in Envelope
      /\ Head(Incoming(n, e)) \in OnWires(wire)
  BY <1>1, ConsumedWires
<1>3. Begun(Head(Incoming(n, e)))
  BY <1>2 DEF RoutesBegun
<1>4. Consumed(n, e) \in Wires
  BY <1>2 DEF ConsumesAt
<1>5. e[2] \in Nodes /\ Back(n, e) \in Ends
  BY DEF Ends, Back
<1> QED BY <1>1, <1>2, <1>3, <1>4, <1>5

\* Frames that end at the node: replays and messages to it.
LEMMA ReadsSilently ==
    ASSUME Typed, RoutesBegun, NEW n \in Nodes, NEW e \in Ends,
           Incoming(n, e) # <<>>, wire' = Consumed(n, e),
           UNCHANGED <<outbox, seq>>
    PROVE  ReadEffect(n, e)
<1>1. Consumed(n, e) \in Wires
  BY HeadType
<1>2. /\ Passes(<<>>, n, {Head(Incoming(n, e))})
      /\ EmitsAt(wire', Consumed(n, e), n, <<>>)
  BY <1>1, Silent
<1> QED BY <1>2 DEF ReadEffect

\* Frames that go on: messages and replies to others.
LEMMA ReadsAndForwards ==
    ASSUME Typed, RoutesBegun, NEW n \in Nodes, NEW e \in Ends,
           Incoming(n, e) # <<>>, Head(Incoming(n, e)).type # "route_request",
           Emit(Consumed(n, e), n, Forwarding(table[n], neighbors[n], Head(Incoming(n, e)))),
           UNCHANGED <<outbox, seq>>
    PROVE  ReadEffect(n, e)
<1> DEFINE env == Head(Incoming(n, e))
           s == Forwarding(table[n], neighbors[n], env)
<1>1. env \in Envelope /\ Consumed(n, e) \in Wires /\ neighbors[n] \in SUBSET Ends
  BY HeadType
<1>2. /\ s \in Seq(Sendings) /\ Len(s) \in {0, 1}
      /\ \A i \in 1..Len(s) : Like(s[i].env, env) /\ \A x, y \in s[i].to : x = y
  BY <1>1, ForwardingType
<1>3. Emit(Consumed(n, e), n, s) /\ env.type # "route_request"
  OBVIOUS
<1>4. (\E z : Passes(z, n, {env}) /\ EmitsAt(wire', Consumed(n, e), n, z))
         => ReadEffect(n, e)
  BY DEF ReadEffect
<1> HIDE DEF s, env
<1>5. EmitsAt(wire', Consumed(n, e), n, s)
  BY <1>1, <1>2, <1>3, EmitWires
<1>6. \A i \in 1..Len(s) : Begun(s[i].env)
  BY <1>2, <1>3 DEF Like, Begun
<1>7. Passes(s, n, {env})
  BY <1>2, <1>6 DEF Passes
<1> QED BY <1>4, <1>5, <1>7

\* Requests.
LEMMA RequestRead ==
    ASSUME Typed, RoutesBegun, NEW n \in Nodes, NEW e \in Ends, HandleRouteRequest(n, e)
    PROVE  ReadEffect(n, e)
<1> DEFINE request == Head(Incoming(n, e))
           answers == request.dst = n \/ Known(table[n], request.dst)
           distance == IF request.dst = n THEN 0 ELSE table[n][request.dst].hops
           visited == {request.route[i] : i \in DOMAIN request.route}
           flooded == [request EXCEPT !.route = Append(@, n), !.ttl = @ - 1]
           reply == Reply(n, request, distance, seq[n] + 1)
           on == {f \in neighbors[n] : f[2] \notin visited \cup {e[2]}}
<1>1. Incoming(n, e) # <<>> /\ request.type = "route_request" /\ outbox' = outbox
  BY DEF HandleRouteRequest, Receives, Reads
<1>2. /\ request \in Envelope /\ Begun(request)
      /\ Consumed(n, e) \in Wires /\ neighbors[n] \in SUBSET Ends
      /\ seq[n] \in Nat /\ IsTable(table[n])
  BY <1>1, HeadType
<1>3. request.route \in Seq(Nodes) /\ request.route # <<>> /\ request.ttl \in Nat
  BY <1>1, <1>2 DEF Envelope, Begun
<1>4. \/ /\ answers
         /\ Emit(Consumed(n, e), n, <<Sending(reply, Way(neighbors[n], e[2]))>>)
         /\ seq' = [seq EXCEPT ![n] = @ + 1]
      \/ /\ request.ttl > 0
         /\ Emit(Consumed(n, e), n, <<Sending(flooded, on)>>)
         /\ seq' = seq
      \/ wire' = Consumed(n, e) /\ seq' = seq
  BY DEF HandleRouteRequest
<1>5. (\E z : Passes(z, n, {request}) /\ EmitsAt(wire', Consumed(n, e), n, z))
         /\ (seq' = seq \/ seq' = [seq EXCEPT ![n] = seq[n] + 1]) => ReadEffect(n, e)
  BY <1>1 DEF ReadEffect
<1>6. CASE /\ answers
           /\ Emit(Consumed(n, e), n, <<Sending(reply, Way(neighbors[n], e[2]))>>)
           /\ seq' = [seq EXCEPT ![n] = @ + 1]
  <2>1. distance \in Nat
    BY <1>2, <1>6 DEF Known, IsTable, Entry
  <2> HIDE DEF distance
  <2>2. reply \in Envelope /\ Begun(reply)
    BY <1>2, <1>3, <2>1, ReplyType
  <2>3. reply.type # "msg" /\ reply.src = n /\ reply.seq = seq[n] + 1
    BY DEF Reply
  <2>4. Way(neighbors[n], e[2]) \in SUBSET Ends
    BY <1>2, WayFacts
  <2>5. seq'[n] = seq[n] + 1
    BY <1>6 DEF Typed
  <2> HIDE DEF reply, request
  <2>6. /\ <<Sending(reply, Way(neighbors[n], e[2]))>> \in Seq(Sendings)
        /\ Passes(<<Sending(reply, Way(neighbors[n], e[2]))>>, n, {request})
    BY <2>2, <2>3, <2>4, <2>5, Single
  <2>7. EmitsAt(wire', Consumed(n, e), n, <<Sending(reply, Way(neighbors[n], e[2]))>>)
    BY <1>2, <1>6, <2>6, EmitWires
  <2> QED BY <1>5, <1>6, <2>6, <2>7
<1>7. CASE /\ request.ttl > 0
           /\ Emit(Consumed(n, e), n, <<Sending(flooded, on)>>)
           /\ seq' = seq
  <2>1. Append(request.route, n) \in Seq(Nodes) /\ request.ttl - 1 \in Nat
    BY <1>3, <1>7, AppendProperties
  <2>2. flooded = [request EXCEPT !.route = Append(request.route, n), !.ttl = request.ttl - 1]
    OBVIOUS
  <2>3. Append(request.route, n) # <<>>
    BY <1>3, AppendProperties, EmptySeq, LenProperties
  <2> HIDE DEF flooded, request
  <2>4. flooded \in Envelope /\ Like(flooded, request) /\ flooded.route = Append(request.route, n)
    BY <1>2, <2>1, <2>2 DEF Envelope, Like
  <2>5. Begun(flooded) /\ flooded.type # "msg"
    BY <1>1, <2>3, <2>4 DEF Begun, Like
  <2>6. on \in SUBSET Ends
    BY <1>2
  <2> HIDE DEF on
  <2>7. <<Sending(flooded, on)>> \in Seq(Sendings) /\ Passes(<<Sending(flooded, on)>>, n, {request})
    BY <2>4, <2>5, <2>6, Single
  <2>8. EmitsAt(wire', Consumed(n, e), n, <<Sending(flooded, on)>>)
    BY <1>2, <1>7, <2>7, EmitWires
  <2> QED BY <1>5, <1>7, <2>7, <2>8
<1>8. CASE wire' = Consumed(n, e) /\ seq' = seq
  BY <1>1, <1>8, ReadsSilently
<1> QED BY <1>4, <1>6, <1>7, <1>8

\* A node asks for a route.
LEMMA Discovering ==
    ASSUME Typed, NEW n \in Nodes, NEW dst \in Nodes, Discover(n, dst)
    PROVE  /\ \E s : Passes(s, n, {}) /\ EmitsAt(wire', wire, n, s)
           /\ outbox' = outbox /\ seq' = [seq EXCEPT ![n] = seq[n] + 1]
<1> DEFINE request == Request(n, dst, seq[n] + 1)
<1>1. /\ Emit(wire, n, <<Sending(request, neighbors[n])>>)
      /\ outbox' = outbox /\ seq' = [seq EXCEPT ![n] = seq[n] + 1]
  BY DEF Discover
<1>2. /\ seq[n] \in Nat /\ seq[n] + 1 \in Nat /\ seq'[n] = seq[n] + 1
      /\ neighbors[n] \in SUBSET Ends /\ wire \in Wires
  BY <1>1 DEF Typed
<1>3. request \in Envelope /\ Begun(request)
  BY <1>2, RequestType
<1>4. request.type # "msg" /\ request.src = n /\ request.seq = seq[n] + 1
  BY DEF Request
<1> HIDE DEF request
<1>5. /\ <<Sending(request, neighbors[n])>> \in Seq(Sendings)
      /\ Passes(<<Sending(request, neighbors[n])>>, n, {})
  BY <1>2, <1>3, <1>4, Single
<1>6. EmitsAt(wire', wire, n, <<Sending(request, neighbors[n])>>)
  BY <1>1, <1>2, <1>5, EmitWires
<1> QED BY <1>1, <1>5, <1>6

\* A message that is written gets the next number, and is sent or queued;
\* in the latter case a request gets the number after it.
SendEffect(n, dst) ==
    LET env == Message(n, dst, seq[n] + 1, Len(messages) + 1)
    IN  \E s, refused :
          /\ SentFor(s, n, <<env>>, refused, seq[n] + 1)
          /\ EmitsAt(wire', wire, n, s)
          /\ \/ /\ refused = {}
                /\ outbox' = outbox /\ seq' = [seq EXCEPT ![n] = seq[n] + 1]
             \/ /\ refused = {1} /\ Cardinality(refused) = 1
                /\ outbox' = [outbox EXCEPT ![n] = Append(outbox[n], env)]
                /\ seq' = [seq EXCEPT ![n] = seq[n] + 2]

\* A message is an envelope.
LEMMA MessageType ==
    ASSUME NEW n \in Nodes, NEW dst \in Nodes, NEW number \in Nat, NEW id \in Nat
    PROVE  Message(n, dst, number, id) \in Envelope
<1>1. <<>> \in Seq(Nodes) /\ DEFAULT_TTL \in Nat
  BY RoutingAssumption, EmptySeq
<1> QED BY <1>1 DEF Message, Envelope

\* Send does that.
LEMMA Writing ==
    ASSUME Typed, NEW n \in Nodes, NEW dst \in Nodes, Send(n, dst)
    PROVE  SendEffect(n, dst)
<1> DEFINE env == Message(n, dst, seq[n] + 1, Len(messages) + 1)
           refused == Refused(table[n], neighbors[n], <<env>>)
           s == SendAll(n, table[n], neighbors[n], <<env>>, seq[n] + 1)
           taken == Accepted(table[n], neighbors[n], env)
<1>1. /\ seq[n] \in Nat /\ seq[n] + 1 \in Nat /\ neighbors[n] \in SUBSET Ends
      /\ wire \in Wires /\ Len(messages) + 1 \in Nat
  BY LenProperties DEF Typed
<1>2. env \in Envelope
  BY <1>1, MessageType
<1>3. env.type = "msg"
  BY DEF Message
<1>4. /\ Emit(wire, n, s)
      /\ outbox' = IF taken THEN outbox ELSE [outbox EXCEPT ![n] = Append(outbox[n], env)]
      /\ seq' = [seq EXCEPT ![n] = seq[n] + IF taken THEN 1 ELSE 2]
  BY DEF Send
<1>5. refused = IF taken THEN {} ELSE {1}
  BY DEF Refused
<1>6. SendEffect(n, dst) <=>
        \E z, r : /\ SentFor(z, n, <<env>>, r, seq[n] + 1)
                  /\ EmitsAt(wire', wire, n, z)
                  /\ \/ /\ r = {}
                        /\ outbox' = outbox /\ seq' = [seq EXCEPT ![n] = seq[n] + 1]
                     \/ /\ r = {1} /\ Cardinality(r) = 1
                        /\ outbox' = [outbox EXCEPT ![n] = Append(outbox[n], env)]
                        /\ seq' = [seq EXCEPT ![n] = seq[n] + 2]
  BY DEF SendEffect
<1> HIDE DEF env, taken
<1>7. <<env>> \in Seq(Envelope) /\ \A i \in 1..Len(<<env>>) : <<env>>[i].type = "msg"
  BY <1>2, <1>3
<1>8. SentFor(s, n, <<env>>, refused, seq[n] + 1)
  BY <1>1, <1>7, SendAllType
<1> HIDE DEF s, refused
<1>9. s \in Seq(Sendings)
  BY <1>8 DEF SentFor
<1>10. EmitsAt(wire', wire, n, s)
  BY <1>1, <1>4, <1>9, EmitWires
<1>11. CASE taken
  BY <1>4, <1>5, <1>6, <1>8, <1>10, <1>11
<1>12. CASE ~taken
  <2>1. refused = {1} /\ Cardinality(refused) = 1
    BY <1>5, <1>12, FS_Singleton
  <2> QED BY <1>4, <1>6, <1>8, <1>10, <1>12, <2>1
<1> QED BY <1>11, <1>12

-----------------------------------------------------------------------------
(***************************************************************************)
(* Types.                                                                  *)
(***************************************************************************)

\* The queues, counters and wires have their types after the step.
QueuesTyped ==
    /\ seq' \in [Nodes -> Nat]
    /\ outbox' \in [Nodes -> Seq(Envelope)]
    /\ wire' \in Wires
    /\ RoutesBegun'

\* Frames that are begun stay so when others are added.
LEMMA BegunAfter ==
    ASSUME NEW w \in Wires, \A v \in OnWires(w) : Begun(v), NEW n \in Nodes, NEW s,
           EmitsAt(wire', w, n, s), \A i \in 1..Len(s) : Begun(s[i].env)
    PROVE  wire' \in Wires /\ \A v \in OnWires(wire') : Begun(v)
<1>1. wire' \in Wires
  BY DEF EmitsAt
<1>2. ASSUME NEW v \in OnWires(wire') PROVE Begun(v)
  <2>1. v \in OnWires(w) \/ \E i \in 1..Len(s) : v = s[i].env
    BY EmitHolds
  <2> QED BY <2>1
<1> QED BY <1>1, <1>2

\* flush_queued keeps the types.
LEMMA FlushTypes ==
    ASSUME Typed, RoutesBegun, NEW w \in Wires, \A v \in OnWires(w) : Begun(v),
           NEW n \in Nodes, FlushEffect(w, n)
    PROVE  QueuesTyped
<1>1. PICK s, refused :
        /\ SentFor(s, n, outbox[n], refused, seq[n])
        /\ EmitsAt(wire', w, n, s)
        /\ outbox' = [outbox EXCEPT ![n] = Picked(outbox[n], refused)]
        /\ seq' = [seq EXCEPT ![n] = seq[n] + Cardinality(refused)]
  BY DEF FlushEffect
<1>2. /\ \A i \in 1..Len(s) : Begun(s[i].env)
      /\ refused \in SUBSET (1..Len(outbox[n])) /\ Cardinality(refused) \in Nat
  BY <1>1 DEF SentFor
<1>3. wire' \in Wires /\ \A v \in OnWires(wire') : Begun(v)
  BY <1>1, <1>2, BegunAfter
<1>4. seq \in [Nodes -> Nat] /\ outbox \in [Nodes -> Seq(Envelope)]
  BY DEF Typed
<1>5. seq' \in [Nodes -> Nat]
  BY <1>1, <1>2, <1>4
<1>6. outbox' \in [Nodes -> Seq(Envelope)] /\ \A v \in InQueues(outbox') : v \in InQueues(outbox)
  BY <1>1, <1>2, <1>4, LeaveQueue
<1> QED BY <1>3, <1>5, <1>6 DEF QueuesTyped, RoutesBegun

\* So does the reading of a frame,
LEMMA ReadTypes ==
    ASSUME Typed, RoutesBegun, NEW n \in Nodes, NEW e, ReadEffect(n, e)
    PROVE  QueuesTyped
<1>1. e \in Ends /\ Incoming(n, e) # <<>> /\ outbox' = outbox
  BY DEF ReadEffect
<1>2. PICK s : /\ Passes(s, n, {Head(Incoming(n, e))})
               /\ EmitsAt(wire', Consumed(n, e), n, s)
  BY DEF ReadEffect
<1>3. /\ Consumed(n, e) \in Wires
      /\ ConsumesAt(Consumed(n, e), wire, e[2], Back(n, e))
  BY <1>1, HeadType
<1>4. wire \in Wires /\ seq \in [Nodes -> Nat] /\ outbox \in [Nodes -> Seq(Envelope)]
  BY DEF Typed
<1>5. \A v \in OnWires(Consumed(n, e)) : Begun(v)
  BY <1>3, <1>4, ConsumeHolds DEF RoutesBegun
<1>6. \A i \in 1..Len(s) : Begun(s[i].env)
  BY <1>2 DEF Passes
<1>7. wire' \in Wires /\ \A v \in OnWires(wire') : Begun(v)
  BY <1>2, <1>3, <1>5, <1>6, BegunAfter
<1>8. seq' \in [Nodes -> Nat]
  BY <1>4 DEF ReadEffect
<1> QED BY <1>1, <1>4, <1>7, <1>8 DEF QueuesTyped, RoutesBegun

\* discovery,
LEMMA ProbeTypes ==
    ASSUME Typed, RoutesBegun, NEW n \in Nodes, NEW dst \in Nodes, Discover(n, dst)
    PROVE  QueuesTyped
<1>1. PICK s : Passes(s, n, {}) /\ EmitsAt(wire', wire, n, s)
  BY Discovering
<1>2. outbox' = outbox /\ seq' = [seq EXCEPT ![n] = seq[n] + 1]
  BY Discovering
<1>3. \A i \in 1..Len(s) : Begun(s[i].env)
  BY <1>1 DEF Passes
<1>4. wire \in Wires /\ seq \in [Nodes -> Nat] /\ outbox \in [Nodes -> Seq(Envelope)]
  BY DEF Typed
<1>5. wire' \in Wires /\ \A v \in OnWires(wire') : Begun(v)
  BY <1>1, <1>3, <1>4, BegunAfter DEF RoutesBegun
<1>6. seq' \in [Nodes -> Nat]
  BY <1>2, <1>4
<1> QED BY <1>2, <1>4, <1>5, <1>6 DEF QueuesTyped, RoutesBegun

\* and the writing of a message.
LEMMA SendTypes ==
    ASSUME Typed, RoutesBegun, NEW n \in Nodes, NEW dst \in Nodes, Send(n, dst)
    PROVE  QueuesTyped
<1> DEFINE env == Message(n, dst, seq[n] + 1, Len(messages) + 1)
<1>1. SendEffect(n, dst)
  BY Writing
<1>2. PICK s, refused :
          /\ SentFor(s, n, <<env>>, refused, seq[n] + 1)
          /\ EmitsAt(wire', wire, n, s)
          /\ \/ /\ outbox' = outbox /\ seq' = [seq EXCEPT ![n] = seq[n] + 1]
             \/ /\ outbox' = [outbox EXCEPT ![n] = Append(outbox[n], env)]
                /\ seq' = [seq EXCEPT ![n] = seq[n] + 2]
  BY <1>1 DEF SendEffect
<1>3. wire \in Wires /\ seq \in [Nodes -> Nat] /\ outbox \in [Nodes -> Seq(Envelope)]
  BY DEF Typed
<1>4. Len(messages) + 1 \in Nat /\ seq[n] + 1 \in Nat
  BY <1>3, LenProperties DEF Typed
<1>5. env \in Envelope
  BY <1>4, MessageType
<1>6. env.type = "msg"
  BY DEF Message
<1>7. \A i \in 1..Len(s) : Begun(s[i].env)
  BY <1>2 DEF SentFor
<1> HIDE DEF env
<1>8. wire' \in Wires /\ \A v \in OnWires(wire') : Begun(v)
  BY <1>2, <1>3, <1>7, BegunAfter DEF RoutesBegun
<1>9. seq' \in [Nodes -> Nat]
  <2>1. seq[n] + 1 \in Nat /\ seq[n] + 2 \in Nat
    BY <1>3
  <2>2. seq' = [seq EXCEPT ![n] = seq[n] + 1] \/ seq' = [seq EXCEPT ![n] = seq[n] + 2]
    BY <1>2
  <2> QED BY <1>3, <2>1, <2>2
<1>10. outbox' \in [Nodes -> Seq(Envelope)] /\ \A v \in InQueues(outbox') : v.type = "msg"
  <2>1. CASE outbox' = outbox
    BY <1>3, <2>1 DEF RoutesBegun
  <2>2. CASE outbox' = [outbox EXCEPT ![n] = Append(outbox[n], env)]
    BY <1>3, <1>5, <1>6, <2>2, JoinQueue DEF RoutesBegun
  <2> QED BY <1>2, <2>1, <2>2
<1> QED BY <1>8, <1>9, <1>10 DEF QueuesTyped, RoutesBegun

\* A wire that is cleared, or wires that are.
ClearsAt(new, w) ==
    /\ new \in Wires
    /\ \A n \in Nodes : \A e \in Ends : new[n][e] = <<>> \/ new[n][e] = w[n][e]

\* What is on the wires then was there before.
LEMMA ClearHolds ==
    ASSUME NEW new, NEW w, ClearsAt(new, w), NEW v \in OnWires(new)
    PROVE  v \in OnWires(w)
<1>1. PICK l \in Nodes : \E e \in Ends : \E i \in 1..Len(new[l][e]) : v = new[l][e][i]
  BY OnWiresHas
<1>2. PICK e \in Ends : \E i \in 1..Len(new[l][e]) : v = new[l][e][i]
  BY <1>1
<1>3. PICK i \in 1..Len(new[l][e]) : v = new[l][e][i]
  BY <1>2
<1>4. new[l][e] # <<>>
  BY <1>3, EmptySeq
<1>5. new[l][e] = w[l][e]
  BY <1>4 DEF ClearsAt
<1> QED BY <1>3, <1>5, OnWiresHas

\* Drop and Restart clear wires.
LEMMA Clearing ==
    ASSUME Typed,
           \/ \E n \in Nodes, e \in Ends : Drop(n, e)
           \/ \E n \in Nodes : Restart(n)
    PROVE  ClearsAt(wire', wire)
<1>1. \A m \in Nodes : wire[m] \in [Ends -> Seq(Envelope)]
  BY DEF Typed, Wires
<1>2. wire \in Wires /\ <<>> \in Seq(Envelope)
  BY EmptySeq DEF Typed
<1>3. ASSUME NEW n \in Nodes, NEW e \in Ends, Drop(n, e) PROVE ClearsAt(wire', wire)
  <2> DEFINE m == e[2]
             f == <<e[1], n>>
  <2>1. m \in Nodes /\ f \in Ends
    BY DEF Ends
  <2> DEFINE w == [wire EXCEPT ![m] = [wire[m] EXCEPT ![f] = <<>>]]
             rest == IF <<e[1], n>> \in neighbors[e[2]] THEN wire[n][e] ELSE <<>>
  <2>2. wire' = [w EXCEPT ![n] = [w[n] EXCEPT ![e] = rest]]
    BY <1>3 DEF Drop
  <2>3. rest \in {wire[n][e], <<>>}
    OBVIOUS
  <2> HIDE DEF m, f, rest
  <2>4. [wire[m] EXCEPT ![f] = <<>>] \in [Ends -> Seq(Envelope)]
    BY <1>1, <1>2, <2>1
  <2>5. ClearsAt(w, wire)
    <3>1. w \in Wires
      BY <1>2, <2>1, <2>4 DEF Wires
    <3>2. \A l \in Nodes : \A x \in Ends : w[l][x] = <<>> \/ w[l][x] = wire[l][x]
      BY <1>1, <1>2, <2>1 DEF Wires
    <3> QED BY <3>1, <3>2 DEF ClearsAt
  <2> HIDE DEF w
  <2>6. w[n] \in [Ends -> Seq(Envelope)] /\ w \in [Nodes -> [Ends -> Seq(Envelope)]]
    BY <2>5 DEF ClearsAt, Wires
  <2>7. [w[n] EXCEPT ![e] = rest] \in [Ends -> Seq(Envelope)]
    BY <1>1, <1>2, <2>3, <2>6
  <2>8. wire' \in Wires
    BY <2>2, <2>6, <2>7 DEF Wires
  <2>9. \A l \in Nodes : \A x \in Ends :
          \/ wire'[l][x] \in {<<>>, w[l][x]}
          \/ l = n /\ x = e /\ wire'[l][x] = wire[l][x]
    BY <2>2, <2>3, <2>6
  <2> QED BY <2>5, <2>8, <2>9 DEF ClearsAt
<1>4. ASSUME NEW n \in Nodes, Restart(n) PROVE ClearsAt(wire', wire)
  <2>1. wire' = [m \in Nodes |-> [e \in Ends |->
                   IF \/ e[2] = n
                      \/ m = n /\ <<e[1], n>> \notin neighbors[e[2]]
                   THEN <<>> ELSE wire[m][e]]]
    BY <1>4 DEF Restart
  <2>2. wire' \in Wires
    BY <1>1, <1>2, <2>1 DEF Wires
  <2>3. \A l \in Nodes : \A x \in Ends : wire'[l][x] = <<>> \/ wire'[l][x] = wire[l][x]
    BY <2>1
  <2> QED BY <2>2, <2>3 DEF ClearsAt
<1> QED BY <1>3, <1>4

\* They keep the types.
LEMMA ClearTypes ==
    ASSUME Typed, RoutesBegun, UNCHANGED outbox,
           \/ \E n \in Nodes, e \in Ends : Drop(n, e)
           \/ \E n \in Nodes : Restart(n)
    PROVE  QueuesTyped
<1>1. ClearsAt(wire', wire)
  BY Clearing
<1>2. wire' \in Wires /\ \A v \in OnWires(wire') : v \in OnWires(wire)
  BY <1>1, ClearHolds DEF ClearsAt
<1>3. seq' \in [Nodes -> Nat]
  <2>1. seq \in [Nodes -> Nat]
    BY DEF Typed
  <2>2. ASSUME NEW n \in Nodes, NEW e \in Ends, Drop(n, e) PROVE seq' \in [Nodes -> Nat]
    BY <2>1, <2>2 DEF Drop
  <2>3. ASSUME NEW n \in Nodes, Restart(n) PROVE seq' \in [Nodes -> Nat]
    BY <2>1, <2>3 DEF Restart
  <2> QED BY <2>2, <2>3
<1> QED BY <1>2, <1>3 DEF QueuesTyped, RoutesBegun, Typed

-----------------------------------------------------------------------------
(***************************************************************************)
(* The routing tables and the neighbors of one node.                       *)
(***************************************************************************)

Direct(m) == [next_hop |-> m, hops |-> 1]

\* The neighbors near, and no others, have direct entries in the table t.
DirectAt(t, near) ==
    \A m \in Nodes : (\E e \in near : e[2] = m) <=> (m \in DOMAIN t /\ t[m] = Direct(m))

\* NeighborsAreDirect says so of every node.
LEMMA DirectByNode ==
    NeighborsAreDirect <=> \A n \in Nodes : DirectAt(table[n], neighbors[n])
BY DEF NeighborsAreDirect, DirectAt, Adjacent, Direct

\* add_neighbor: a new link.
LEMMA DirectAdded ==
    ASSUME NEW t, NEW near \in SUBSET Ends, IsTable(t), DirectAt(t, near), NEW e \in Ends
    PROVE  /\ IsTable(WithNeighbor(t, e[2]))
           /\ DirectAt(WithNeighbor(t, e[2]), near \cup {e})
<1> DEFINE m == e[2]
           new == WithNeighbor(t, m)
<1>1. m \in Nodes /\ Direct(m) \in Entry
  BY DEF Ends, Direct, Entry
<1>2. /\ DOMAIN new = DOMAIN t \cup {m} /\ new[m] = Direct(m)
      /\ \A d \in DOMAIN t : d # m => new[d] = t[d]
  BY DEF WithNeighbor, Direct
<1> HIDE DEF new
<1>3. IsTable(new)
  BY <1>1, <1>2 DEF IsTable
<1>4. ASSUME NEW d \in Nodes
      PROVE  (\E f \in near \cup {e} : f[2] = d) <=> (d \in DOMAIN new /\ new[d] = Direct(d))
  <2>1. CASE d = m
    BY <1>2, <2>1
  <2>2. CASE d # m
    BY <1>2, <2>2 DEF DirectAt
  <2> QED BY <2>1, <2>2
<1> QED BY <1>3, <1>4 DEF DirectAt, new

\* remove_neighbor: the entry goes with the last link.
LEMMA DirectRemoved ==
    ASSUME NEW t, NEW near \in SUBSET Ends, IsTable(t), DirectAt(t, near), NEW e \in near
    PROVE  /\ IsTable(AfterLoss(t, near \ {e}, e[2]))
           /\ DirectAt(AfterLoss(t, near \ {e}, e[2]), near \ {e})
<1> DEFINE m == e[2]
           rest == near \ {e}
<1>1. rest \in SUBSET Ends /\ \A f \in near : f \in rest \/ f = e
  OBVIOUS
<1>2. CASE Way(rest, m) = {}
  <2>1. \A f \in rest : f[2] # m
    BY <1>1, <1>2, WayFacts
  <2> DEFINE new == Without(t, m)
  <2>2. DOMAIN new = DOMAIN t \ {m} /\ \A d \in DOMAIN t : d # m => new[d] = t[d]
    BY DEF Without
  <2>3. AfterLoss(t, rest, m) = new
    BY <1>2 DEF AfterLoss
  <2> HIDE DEF new
  <2>4. IsTable(new)
    BY <2>2 DEF IsTable
  <2>5. ASSUME NEW d \in Nodes
        PROVE  (\E f \in rest : f[2] = d) <=> (d \in DOMAIN new /\ new[d] = Direct(d))
    <3>1. CASE d = m
      BY <2>1, <2>2, <3>1
    <3>2. CASE d # m
      <4>1. (\E f \in rest : f[2] = d) <=> (\E f \in near : f[2] = d)
        BY <1>1, <3>2
      <4> QED BY <2>2, <3>2, <4>1 DEF DirectAt
    <3> QED BY <3>1, <3>2
  <2> QED BY <2>3, <2>4, <2>5 DEF DirectAt
<1>3. CASE Way(rest, m) # {}
  <2>1. PICK g \in Way(rest, m) : TRUE
    BY <1>3
  <2>2. g \in rest /\ g[2] = m
    BY <1>1, <2>1, WayFacts
  <2>3. AfterLoss(t, rest, m) = t
    BY <1>3 DEF AfterLoss
  <2>4. ASSUME NEW d \in Nodes
        PROVE  (\E f \in rest : f[2] = d) <=> (d \in DOMAIN t /\ t[d] = Direct(d))
    <3>1. (\E f \in rest : f[2] = d) <=> (\E f \in near : f[2] = d)
      BY <1>1, <2>2
    <3> QED BY <3>1 DEF DirectAt
  <2> QED BY <2>3, <2>4 DEF DirectAt
<1> QED BY <1>2, <1>3

\* The table t with a route to the target.
Learned(t, target, via, hops) ==
    [d \in DOMAIN t \cup {target} |->
        IF d = target THEN [next_hop |-> via, hops |-> hops] ELSE t[d]]

\* _handle_route_reply: a reply by a relay replaces no direct entry.
LEMMA DirectLearned ==
    ASSUME NEW t, NEW near \in SUBSET Ends, IsTable(t), DirectAt(t, near),
           NEW e \in near, NEW target \in Nodes, NEW hops \in Nat \ {0},
           Shorter(t, target, hops)
    PROVE  /\ IsTable(Learned(t, target, e[2], hops))
           /\ DirectAt(Learned(t, target, e[2], hops), near)
<1> DEFINE entry == [next_hop |-> e[2], hops |-> hops]
           new == Learned(t, target, e[2], hops)
<1>1. e[2] \in Nodes /\ entry \in Entry /\ (\A m : entry = Direct(m) => e[2] = m)
  BY DEF Ends, Entry, Direct
<1>2. /\ DOMAIN new = DOMAIN t \cup {target} /\ new[target] = entry
      /\ \A d \in DOMAIN t : d # target => new[d] = t[d]
  BY DEF Learned
<1> HIDE DEF new
<1>3. IsTable(new)
  BY <1>1, <1>2 DEF IsTable
<1>4. ASSUME NEW d \in Nodes
      PROVE  (\E f \in near : f[2] = d) <=> (d \in DOMAIN new /\ new[d] = Direct(d))
  <2>1. CASE d = target
    <3>1. ~(\E f \in near : f[2] = target)
      <4>1. SUFFICES ASSUME \E f \in near : f[2] = target PROVE FALSE
        OBVIOUS
      <4>2. target \in DOMAIN t /\ t[target] = Direct(target)
        BY <4>1 DEF DirectAt
      <4>3. hops < 1
        BY <4>2 DEF Shorter, Known, Direct
      <4> QED BY <4>3
    <3> QED BY <1>1, <1>2, <2>1, <3>1
  <2>2. CASE d # target
    BY <1>2, <2>2 DEF DirectAt
  <2> QED BY <2>1, <2>2
<1> QED BY <1>3, <1>4 DEF DirectAt, new, entry

-----------------------------------------------------------------------------
(***************************************************************************)
(* Every action keeps types and direct entries.                            *)
(***************************************************************************)

\* The other variables have their types after the step.
TablesTyped ==
    /\ neighbors' \in [Nodes -> SUBSET Ends]
    /\ DOMAIN table' = Nodes /\ \A n \in Nodes : IsTable(table'[n])
    /\ seen' \in [Nodes -> SUBSET (Nodes \X Nat)]
    /\ live' \in SUBSET Links
    /\ delivered' \in [Nodes -> Seq(Nat)]
    /\ messages' \in Seq(Traffic)
    /\ probes' \in Nat /\ breaks' \in Nat /\ restarts' \in Nat

\* Where the queues keep their types all variables do.
LEMMA TypedParts ==
    QueuesTyped /\ TablesTyped => Typed' /\ RoutesBegun'
BY DEF QueuesTyped, TablesTyped, Typed

\* A change of one node's table and neighbors.
LEMMA OneTable ==
    ASSUME Typed, NeighborsAreDirect, NEW n \in Nodes, NEW t, NEW near \in SUBSET Ends,
           table' = [table EXCEPT ![n] = t], neighbors' = [neighbors EXCEPT ![n] = near],
           IsTable(t), DirectAt(t, near)
    PROVE  /\ neighbors' \in [Nodes -> SUBSET Ends]
           /\ DOMAIN table' = Nodes /\ \A m \in Nodes : IsTable(table'[m])
           /\ NeighborsAreDirect'
<1>1. /\ DOMAIN table = Nodes /\ \A m \in Nodes : IsTable(table[m])
      /\ neighbors \in [Nodes -> SUBSET Ends]
      /\ \A m \in Nodes : DirectAt(table[m], neighbors[m])
  BY DirectByNode DEF Typed
<1>2. /\ DOMAIN table' = Nodes /\ neighbors' \in [Nodes -> SUBSET Ends]
      /\ table'[n] = t /\ neighbors'[n] = near
      /\ \A m \in Nodes : m # n => table'[m] = table[m] /\ neighbors'[m] = neighbors[m]
  BY <1>1
<1>3. \A m \in Nodes : IsTable(table'[m]) /\ DirectAt(table'[m], neighbors'[m])
  BY <1>1, <1>2
<1>4. NeighborsAreDirect'
  <2> SUFFICES ASSUME NEW l \in Nodes, NEW m \in Nodes
               PROVE  m \in {e[2] : e \in neighbors'[l]} <=>
                        (m \in DOMAIN table'[l] /\ table'[l][m] = [next_hop |-> m, hops |-> 1])
    BY DEF NeighborsAreDirect, Adjacent
  <2>1. DirectAt(table'[l], neighbors'[l])
    BY <1>3
  <2>2. m \in {e[2] : e \in neighbors'[l]} <=> \E e \in neighbors'[l] : e[2] = m
    OBVIOUS
  <2> QED BY <2>1, <2>2 DEF DirectAt, Direct
<1> QED BY <1>2, <1>3, <1>4

\* Tables and neighbors that do not change.
LEMMA SameTables ==
    ASSUME Typed, NeighborsAreDirect, UNCHANGED <<table, neighbors>>
    PROVE  /\ neighbors' \in [Nodes -> SUBSET Ends]
           /\ DOMAIN table' = Nodes /\ \A m \in Nodes : IsTable(table'[m])
           /\ NeighborsAreDirect'
BY DEF Typed, NeighborsAreDirect, Adjacent

\* What a node has seen keeps its type.
LEMMA SeenType ==
    ASSUME Typed, NEW n \in Nodes, NEW env \in Envelope
    PROVE  [seen EXCEPT ![n] = seen[n] \cup {Key(env)}] \in [Nodes -> SUBSET (Nodes \X Nat)]
<1>1. Key(env) \in Nodes \X Nat
  BY DEF Key, Envelope
<1>2. seen \in [Nodes -> SUBSET (Nodes \X Nat)]
  BY DEF Typed
<1> QED BY <1>1, <1>2

\* The state after a step has types, and direct entries for neighbors.
Sound == QueuesTyped /\ TablesTyped /\ NeighborsAreDirect'

\* The reading of a frame.
LEMMA SoundReceive ==
    ASSUME Typed, RoutesBegun, NeighborsAreDirect, NEW n \in Nodes, NEW e \in Ends,
           Receive(n, e)
    PROVE  Sound
<1>1. /\ e \in neighbors[n] /\ Incoming(n, e) # <<>>
      /\ UNCHANGED <<neighbors, live, messages, probes, breaks, restarts>>
  BY DEF Receive, Replayed, HandleRouteRequest, ForwardRouteReply, HandleRouteReply,
         Deliver, Relay, Receives, Reads, linkVars, counters
<1> DEFINE env == Head(Incoming(n, e))
<1>2. /\ env \in Envelope /\ Begun(env) /\ Consumed(n, e) \in Wires
      /\ ConsumesAt(Consumed(n, e), wire, e[2], Back(n, e))
      /\ neighbors[n] \in SUBSET Ends /\ IsTable(table[n])
  BY <1>1, HeadType
<1>3. /\ live' \in SUBSET Links /\ messages' \in Seq(Traffic)
      /\ probes' \in Nat /\ breaks' \in Nat /\ restarts' \in Nat
  BY <1>1 DEF Typed
<1>4. /\ seen \in [Nodes -> SUBSET (Nodes \X Nat)] /\ delivered \in [Nodes -> Seq(Nat)]
      /\ wire \in Wires
  BY DEF Typed
<1>5. [seen EXCEPT ![n] = seen[n] \cup {Key(env)}] \in [Nodes -> SUBSET (Nodes \X Nat)]
  BY <1>2, SeenType
<1>6. CASE Replayed(n, e)
  <2>1. /\ wire' = Consumed(n, e)
        /\ UNCHANGED <<table, seen, seq, outbox, delivered>>
    BY <1>6 DEF Replayed, nodeVars
  <2>2. QueuesTyped
    BY <1>1, <2>1, ReadsSilently, ReadTypes
  <2>3. /\ neighbors' \in [Nodes -> SUBSET Ends]
        /\ DOMAIN table' = Nodes /\ \A m \in Nodes : IsTable(table'[m])
        /\ NeighborsAreDirect'
    BY <1>1, <2>1, SameTables
  <2> QED BY <1>3, <1>4, <2>1, <2>2, <2>3 DEF TablesTyped, Sound
<1>7. CASE \/ HandleRouteRequest(n, e) \/ ForwardRouteReply(n, e) \/ Relay(n, e)
           \/ HandleRouteReply(n, e) /\ wire' = Consumed(n, e) /\ UNCHANGED <<table, outbox, seq>>
           \/ Deliver(n, e)
  <2>1. seen' = [seen EXCEPT ![n] = seen[n] \cup {Key(env)}] /\ table' = table
    BY <1>7 DEF HandleRouteRequest, ForwardRouteReply, Relay, HandleRouteReply, Deliver, Receives
  <2>2. ReadEffect(n, e)
    <3>1. CASE HandleRouteRequest(n, e)
      BY <3>1, RequestRead
    <3>2. CASE ForwardRouteReply(n, e) \/ Relay(n, e)
      <4>1. /\ env.type # "route_request" /\ UNCHANGED <<outbox, seq>>
            /\ Emit(Consumed(n, e), n, Forwarding(table[n], neighbors[n], env))
        BY <3>2 DEF ForwardRouteReply, Relay, Receives
      <4> QED BY <1>1, <4>1, ReadsAndForwards
    <3>3. CASE \/ wire' = Consumed(n, e) /\ UNCHANGED <<table, outbox, seq>>
               \/ Deliver(n, e)
      <4>1. wire' = Consumed(n, e) /\ UNCHANGED <<outbox, seq>>
        BY <3>3 DEF Deliver
      <4> QED BY <1>1, <4>1, ReadsSilently
    <3> QED BY <1>7, <3>1, <3>2, <3>3
  <2>3. QueuesTyped
    BY <2>2, ReadTypes
  <2>4. /\ neighbors' \in [Nodes -> SUBSET Ends]
        /\ DOMAIN table' = Nodes /\ \A m \in Nodes : IsTable(table'[m])
        /\ NeighborsAreDirect'
    BY <1>1, <2>1, SameTables
  <2>5. delivered' \in [Nodes -> Seq(Nat)]
    <3>1. delivered' = delivered \/ delivered' = [delivered EXCEPT ![n] = Append(delivered[n], env.msg)]
      BY <1>7 DEF HandleRouteRequest, ForwardRouteReply, Relay, HandleRouteReply, Deliver
    <3>2. env.msg \in Nat
      BY <1>2 DEF Envelope
    <3> HIDE DEF env
    <3>3. Append(delivered[n], env.msg) \in Seq(Nat)
      BY <1>4, <3>2, AppendProperties
    <3> QED BY <1>4, <3>1, <3>3
  <2> HIDE DEF env
  <2> QED BY <1>3, <1>5, <2>1, <2>3, <2>4, <2>5 DEF TablesTyped, Sound
<1>8. CASE HandleRouteReply(n, e) /\ ~(wire' = Consumed(n, e) /\ UNCHANGED <<table, outbox, seq>>)
  <2> DEFINE hops == env.hops + 1
             updated == Learned(table[n], env.target, e[2], hops)
  <2>1. /\ Shorter(table[n], env.target, hops)
        /\ table' = [table EXCEPT ![n] = updated]
        /\ FlushQueued(Consumed(n, e), n, updated, neighbors[n])
    BY <1>8 DEF HandleRouteReply, Learned
  <2>2. seen' = [seen EXCEPT ![n] = seen[n] \cup {Key(env)}] /\ delivered' = delivered
    BY <1>8 DEF HandleRouteReply, Receives
  <2>3. FlushEffect(Consumed(n, e), n)
    BY <1>2, <2>1, Flushing
  <2>4. \A v \in OnWires(Consumed(n, e)) : Begun(v)
    BY <1>2, <1>4, ConsumeHolds DEF RoutesBegun
  <2>5. QueuesTyped
    BY <1>2, <2>3, <2>4, FlushTypes
  <2>6. env.target \in Nodes /\ hops \in Nat \ {0}
    BY <1>2 DEF Envelope
  <2>7. DirectAt(table[n], neighbors[n])
    BY DirectByNode
  <2> HIDE DEF hops, env
  <2>8. IsTable(updated) /\ DirectAt(updated, neighbors[n])
    BY <1>1, <1>2, <2>1, <2>6, <2>7, DirectLearned
  <2>9. neighbors' = [neighbors EXCEPT ![n] = neighbors[n]]
    BY <1>1 DEF Typed
  <2> HIDE DEF updated
  <2>10. /\ neighbors' \in [Nodes -> SUBSET Ends]
         /\ DOMAIN table' = Nodes /\ \A m \in Nodes : IsTable(table'[m])
         /\ NeighborsAreDirect'
    BY <1>2, <2>1, <2>8, <2>9, OneTable
  <2> QED BY <1>3, <1>4, <1>5, <2>2, <2>5, <2>10 DEF TablesTyped, Sound
<1> QED BY <1>6, <1>7, <1>8 DEF Receive

\* What a user or the flush loop makes a node do.
LEMMA SoundLocal ==
    ASSUME Typed, RoutesBegun, NeighborsAreDirect,
           \/ \E n, m \in Nodes : Send(n, m) \/ Discover(n, m)
           \/ \E n \in Nodes : FlushLoop(n)
    PROVE  Sound
<1>1. UNCHANGED <<table, neighbors, seen, live, delivered, breaks, restarts>>
  BY DEF Send, Discover, FlushLoop, linkVars
<1>2. /\ neighbors' \in [Nodes -> SUBSET Ends]
      /\ DOMAIN table' = Nodes /\ \A m \in Nodes : IsTable(table'[m])
      /\ NeighborsAreDirect'
  BY <1>1, SameTables
<1>3. messages' \in Seq(Traffic) /\ probes' \in Nat
  <2>1. messages \in Seq(Traffic) /\ probes \in Nat
    BY DEF Typed
  <2>2. ASSUME NEW n \in Nodes, NEW m \in Nodes, Send(n, m)
        PROVE  messages' \in Seq(Traffic) /\ probes' \in Nat
    <3>1. <<n, m>> \in Traffic /\ messages' = Append(messages, <<n, m>>) /\ probes' = probes
      BY <2>2 DEF Send
    <3> QED BY <2>1, <3>1, AppendProperties
  <2>3. ASSUME NEW n \in Nodes, NEW m \in Nodes, Discover(n, m) \/ FlushLoop(n)
        PROVE  messages' \in Seq(Traffic) /\ probes' \in Nat
    BY <2>1, <2>3 DEF Discover, FlushLoop
  <2> QED BY <2>2, <2>3
<1>4. QueuesTyped
  <2>1. ASSUME NEW n \in Nodes, FlushLoop(n) PROVE QueuesTyped
    <3>1. FlushQueued(wire, n, table[n], neighbors[n])
      BY <2>1 DEF FlushLoop
    <3>2. wire \in Wires /\ neighbors[n] \in SUBSET Ends /\ \A v \in OnWires(wire) : Begun(v)
      BY DEF Typed, RoutesBegun
    <3>3. FlushEffect(wire, n)
      BY <3>1, <3>2, Flushing
    <3> QED BY <3>2, <3>3, FlushTypes
  <2> QED BY <2>1, SendTypes, ProbeTypes
<1> QED BY <1>1, <1>2, <1>3, <1>4 DEF Typed, TablesTyped, Sound

\* A link is registered or dropped, breaks, or a node restarts.
LEMMA SoundLinks ==
    ASSUME Typed, RoutesBegun, NeighborsAreDirect,
           \/ \E n \in Nodes, e \in Ends : Drop(n, e) \/ Register(n, e)
           \/ \E n \in Nodes : Restart(n)
           \/ \E l \in Links : Break(l)
    PROVE  Sound
<1>1. /\ neighbors \in [Nodes -> SUBSET Ends] /\ DOMAIN table = Nodes
      /\ \A n \in Nodes : /\ IsTable(table[n]) /\ DirectAt(table[n], neighbors[n])
                          /\ neighbors[n] \in SUBSET Ends
  BY DirectByNode DEF Typed
<1>2. /\ seen \in [Nodes -> SUBSET (Nodes \X Nat)] /\ live \in SUBSET Links
      /\ delivered \in [Nodes -> Seq(Nat)] /\ messages \in Seq(Traffic)
      /\ probes \in Nat /\ breaks \in Nat /\ restarts \in Nat
  BY DEF Typed
<1>3. ASSUME NEW n \in Nodes, NEW e \in Ends, Drop(n, e) PROVE Sound
  <2> DEFINE near == neighbors[n] \ {e}
             t == AfterLoss(table[n], near, e[2])
  <2>1. /\ e \in neighbors[n]
        /\ neighbors' = [neighbors EXCEPT ![n] = near]
        /\ table' = [table EXCEPT ![n] = t]
        /\ UNCHANGED <<seen, seq, outbox, live, delivered, messages, probes, breaks, restarts>>
    BY <1>3 DEF Drop, counters
  <2>2. IsTable(t) /\ DirectAt(t, near) /\ near \in SUBSET Ends
    BY <1>1, <2>1, DirectRemoved
  <2> HIDE DEF t, near
  <2>3. /\ neighbors' \in [Nodes -> SUBSET Ends]
        /\ DOMAIN table' = Nodes /\ \A m \in Nodes : IsTable(table'[m])
        /\ NeighborsAreDirect'
    BY <2>1, <2>2, OneTable
  <2>4. QueuesTyped
    BY <1>3, <2>1, ClearTypes
  <2> QED BY <1>2, <2>1, <2>3, <2>4 DEF TablesTyped, Sound
<1>4. ASSUME NEW n \in Nodes, NEW e \in Ends, Register(n, e) PROVE Sound
  <2> DEFINE near == neighbors[n] \cup {e}
             t == WithNeighbor(table[n], e[2])
  <2>1. /\ neighbors' = [neighbors EXCEPT ![n] = near]
        /\ table' = [table EXCEPT ![n] = t]
        /\ Link(n, e) \in Links /\ live' = live \cup {Link(n, e)}
        /\ FlushQueued(wire, n, t, near)
        /\ UNCHANGED <<seen, delivered, messages, probes, breaks, restarts>>
    BY <1>4 DEF Register, counters
  <2>2. IsTable(t) /\ DirectAt(t, near) /\ near \in SUBSET Ends
    BY <1>1, DirectAdded
  <2> HIDE DEF t, near
  <2>3. /\ neighbors' \in [Nodes -> SUBSET Ends]
        /\ DOMAIN table' = Nodes /\ \A m \in Nodes : IsTable(table'[m])
        /\ NeighborsAreDirect'
    BY <2>1, <2>2, OneTable
  <2>4. wire \in Wires /\ \A v \in OnWires(wire) : Begun(v)
    BY DEF Typed, RoutesBegun
  <2>5. FlushEffect(wire, n)
    BY <2>1, <2>2, <2>4, Flushing
  <2>6. QueuesTyped
    BY <2>4, <2>5, FlushTypes
  <2> QED BY <1>2, <2>1, <2>3, <2>6 DEF TablesTyped, Sound
<1>5. ASSUME NEW n \in Nodes, Restart(n) PROVE Sound
  <2> DEFINE t == [d \in {} |-> [next_hop |-> n, hops |-> 0]]
  <2>1. /\ neighbors' = [neighbors EXCEPT ![n] = {}]
        /\ table' = [table EXCEPT ![n] = t]
        /\ live' = {l \in live : n \notin l[2]}
        /\ seen' = [seen EXCEPT ![n] = {}]
        /\ restarts' = restarts + 1
        /\ UNCHANGED <<outbox, delivered, messages, probes, breaks>>
    BY <1>5 DEF Restart
  <2>2. IsTable(t) /\ DirectAt(t, {}) /\ {} \in SUBSET Ends
    BY DEF IsTable, DirectAt
  <2> HIDE DEF t
  <2>3. /\ neighbors' \in [Nodes -> SUBSET Ends]
        /\ DOMAIN table' = Nodes /\ \A m \in Nodes : IsTable(table'[m])
        /\ NeighborsAreDirect'
    BY <2>1, <2>2, OneTable
  <2>4. QueuesTyped
    BY <1>5, <2>1, ClearTypes
  <2>5. seen' \in [Nodes -> SUBSET (Nodes \X Nat)] /\ live' \in SUBSET Links /\ restarts' \in Nat
    BY <1>2, <2>1
  <2> QED BY <1>2, <2>1, <2>3, <2>4, <2>5 DEF TablesTyped, Sound
<1>6. ASSUME NEW l \in Links, Break(l) PROVE Sound
  <2>1. /\ live' = live \ {l} /\ breaks' = breaks + 1
        /\ UNCHANGED <<neighbors, table, seen, seq, outbox, wire, delivered, messages, probes, restarts>>
    BY <1>6 DEF Break, nodeVars
  <2>2. /\ neighbors' \in [Nodes -> SUBSET Ends]
        /\ DOMAIN table' = Nodes /\ \A m \in Nodes : IsTable(table'[m])
        /\ NeighborsAreDirect'
    BY <2>1, SameTables
  <2>3. QueuesTyped
    BY <2>1 DEF Typed, RoutesBegun, QueuesTyped
  <2>4. live' \in SUBSET Links /\ breaks' \in Nat
    BY <1>2, <2>1
  <2> QED BY <1>2, <2>1, <2>2, <2>3, <2>4 DEF TablesTyped, Sound
<1> QED BY <1>3, <1>4, <1>5, <1>6

\* Every step.
LEMMA SoundStep ==
    ASSUME Typed, RoutesBegun, NeighborsAreDirect, [Next]_vars
    PROVE  Typed' /\ RoutesBegun' /\ NeighborsAreDirect'
<1>1. CASE Next
  <2>1. CASE \E n \in Nodes, e \in Ends : Receive(n, e)
    BY <2>1, SoundReceive, TypedParts DEF Sound
  <2>2. CASE \/ \E n, m \in Nodes : Send(n, m) \/ Discover(n, m)
             \/ \E n \in Nodes : FlushLoop(n)
    BY <2>2, SoundLocal, TypedParts DEF Sound
  <2>3. CASE \/ \E n \in Nodes, e \in Ends : Drop(n, e) \/ Register(n, e)
             \/ \E n \in Nodes : Restart(n)
             \/ \E l \in Links : Break(l)
    BY <2>3, SoundLinks, TypedParts DEF Sound
  <2> QED BY <1>1, <2>1, <2>2, <2>3 DEF Next
<1>2. CASE UNCHANGED vars
  <2>1. UNCHANGED <<neighbors, table, seen, seq, outbox, wire, live, delivered,
                    messages, probes, breaks, restarts>>
    BY <1>2 DEF vars
  <2>2. NeighborsAreDirect'
    BY <2>1, SameTables
  <2> QED BY <2>1, <2>2 DEF Typed, RoutesBegun
<1> QED BY <1>1, <1>2

\* Every action keeps the types of queues, counters and wires.
LEMMA StepTypes ==
    ASSUME Typed, RoutesBegun, NeighborsAreDirect, Next
    PROVE  QueuesTyped
<1>1. CASE \E n \in Nodes, e \in Ends : Receive(n, e)
  BY <1>1, SoundReceive DEF Sound
<1>2. CASE \/ \E n, m \in Nodes : Send(n, m) \/ Discover(n, m)
           \/ \E n \in Nodes : FlushLoop(n)
  BY <1>2, SoundLocal DEF Sound
<1>3. CASE \/ \E n \in Nodes, e \in Ends : Drop(n, e) \/ Register(n, e)
           \/ \E n \in Nodes : Restart(n)
           \/ \E l \in Links : Break(l)
  BY <1>3, SoundLinks DEF Sound
<1> QED BY <1>1, <1>2, <1>3 DEF Next

\* The first state.
LEMMA SoundInit ==
    ASSUME Init
    PROVE  Typed /\ RoutesBegun /\ NeighborsAreDirect
<1>1. /\ live \in SUBSET Links
      /\ neighbors = [n \in Nodes |-> {e \in Ends : Link(n, e) \in live}]
      /\ \A n \in Nodes : table[n] = [m \in {e[2] : e \in neighbors[n]} |-> Direct(m)]
      /\ DOMAIN table = Nodes
      /\ seen = [n \in Nodes |-> {}] /\ seq = [n \in Nodes |-> 0]
      /\ outbox = [n \in Nodes |-> <<>>] /\ wire = [n \in Nodes |-> [e \in Ends |-> <<>>]]
      /\ delivered = [n \in Nodes |-> <<>>]
      /\ messages = <<>> /\ probes = 0 /\ breaks = 0 /\ restarts = 0
  BY RoutingAssumption DEF Init, Direct
<1>2. /\ <<>> \in Seq(Envelope) /\ <<>> \in Seq(Nat) /\ <<>> \in Seq(Traffic)
      /\ Len(<<>>) = 0 /\ 1..0 = {}
  BY EmptySeq
<1>3. \A n \in Nodes : neighbors[n] \in SUBSET Ends /\ \A e \in neighbors[n] : e[2] \in Nodes
  BY <1>1 DEF Ends
<1>4. \A n \in Nodes : IsTable(table[n]) /\ DirectAt(table[n], neighbors[n])
  <2> TAKE n \in Nodes
  <2>1. \A m \in Nodes : Direct(m) \in Entry
    BY DEF Direct, Entry
  <2> DEFINE adjacent == {e[2] : e \in neighbors[n]}
  <2>2. table[n] = [m \in adjacent |-> Direct(m)]
    BY <1>1
  <2>3. \A m : m \in adjacent <=> \E e \in neighbors[n] : e[2] = m
    OBVIOUS
  <2>4. adjacent \subseteq Nodes
    BY <1>3
  <2> HIDE DEF adjacent
  <2>5. DOMAIN table[n] = adjacent /\ \A m \in adjacent : table[n][m] = Direct(m)
    BY <2>2
  <2>6. IsTable(table[n])
    BY <2>1, <2>4, <2>5 DEF IsTable
  <2>7. DirectAt(table[n], neighbors[n])
    BY <2>3, <2>5 DEF DirectAt
  <2> QED BY <2>6, <2>7
<1>5. Typed
  BY <1>1, <1>2, <1>3, <1>4 DEF Typed, Wires
<1>6. RoutesBegun
  <2>1. \A v : v \notin OnWires(wire)
    BY <1>1, <1>2, OnWiresHas
  <2>2. \A v : v \notin InQueues(outbox)
    BY <1>1, <1>2, InQueuesHas
  <2> QED BY <2>1, <2>2 DEF RoutesBegun
<1>7. NeighborsAreDirect
  BY <1>4, DirectByNode
<1> QED BY <1>5, <1>6, <1>7

\* Typed says no less than TypeOK.
LEMMA TypedImpliesTypeOK == Typed => TypeOK
<1> SUFFICES ASSUME Typed PROVE TypeOK
  OBVIOUS
<1>1. \A n \in Nodes :
        /\ DOMAIN table[n] \subseteq Nodes
        /\ \A d \in DOMAIN table[n] : table[n][d] \in Entry
  BY DEF Typed, IsTable
<1>2. \A n \in Nodes :
        /\ seen[n] \subseteq Nodes \X Nat
        /\ outbox[n] \in Seq(Envelope)
        /\ delivered[n] \in Seq(Nat)
        /\ \A e \in Ends : wire[n][e] \in Seq(Envelope)
  BY DEF Typed, Wires
<1> QED BY <1>1, <1>2 DEF Typed, TypeOK

\* Every variable keeps its type, for all networks, transports and bounds.
THEOREM RoutingTyping == Spec => []TypeOK
<1>1. Init => Typed /\ RoutesBegun /\ NeighborsAreDirect
  BY SoundInit
<1>2. Typed /\ RoutesBegun /\ NeighborsAreDirect /\ [Next]_vars
        => Typed' /\ RoutesBegun' /\ NeighborsAreDirect'
  BY SoundStep
<1>3. Typed => TypeOK
  BY TypedImpliesTypeOK
<1> QED BY <1>1, <1>2, <1>3, PTL DEF Spec

\* remove_neighbor, add_neighbor and _handle_route_reply keep a direct entry
\* for every neighbor on any transport, and for no other node.
THEOREM Directness == Spec => []NeighborsAreDirect
<1>1. Init => Typed /\ RoutesBegun /\ NeighborsAreDirect
  BY SoundInit
<1>2. Typed /\ RoutesBegun /\ NeighborsAreDirect /\ [Next]_vars
        => Typed' /\ RoutesBegun' /\ NeighborsAreDirect'
  BY SoundStep
<1> QED BY <1>1, <1>2, PTL DEF Spec

-----------------------------------------------------------------------------
(***************************************************************************)
(* Envelopes: where those that are there after a step come from.           *)
(***************************************************************************)

\* An envelope of H2 is one of H, or a request or reply to which n gave a
\* number above lo and up to hi.
Flows(H2, H, n, lo, hi) ==
    \A v \in H2 :
        /\ v \in Envelope
        /\ \/ \E u \in H : Like(v, u)
           \/ v.type # "msg" /\ v.src = n /\ v.seq \in (lo + 1)..hi

\* What queues and wires hold are envelopes.
LEMMA HeldType ==
    ASSUME NEW ob \in [Nodes -> Seq(Envelope)], NEW w \in Wires
    PROVE  \A v \in Held(ob, w) : v \in Envelope
<1>1. ASSUME NEW v \in OnWires(w) PROVE v \in Envelope
  <2>1. PICK n \in Nodes : \E e \in Ends : \E i \in 1..Len(w[n][e]) : v = w[n][e][i]
    BY OnWiresHas
  <2>2. PICK e \in Ends : \E i \in 1..Len(w[n][e]) : v = w[n][e][i]
    BY <2>1
  <2>3. w[n][e] \in Seq(Envelope)
    BY DEF Wires
  <2> QED BY <2>2, <2>3, ElementOfSeq
<1>2. ASSUME NEW v \in InQueues(ob) PROVE v \in Envelope
  <2>1. PICK n \in Nodes : \E i \in 1..Len(ob[n]) : v = ob[n][i]
    BY InQueuesHas
  <2>2. ob[n] \in Seq(Envelope)
    OBVIOUS
  <2> QED BY <2>1, <2>2, ElementOfSeq
<1> QED BY <1>1, <1>2 DEF Held

\* They flow by flush_queued,
LEMMA FlushFlows ==
    ASSUME Typed, QueuesTyped, NEW w \in Wires,
           \A v \in OnWires(w) : v \in OnWires(wire),
           NEW n \in Nodes, FlushEffect(w, n)
    PROVE  /\ Flows(Held(outbox', wire'), Held(outbox, wire), n, seq[n], seq'[n])
           /\ seq' = [seq EXCEPT ![n] = seq'[n]] /\ seq[n] <= seq'[n]
<1>1. PICK s, refused :
        /\ SentFor(s, n, outbox[n], refused, seq[n])
        /\ EmitsAt(wire', w, n, s)
        /\ outbox' = [outbox EXCEPT ![n] = Picked(outbox[n], refused)]
        /\ seq' = [seq EXCEPT ![n] = seq[n] + Cardinality(refused)]
  BY DEF FlushEffect
<1>2. /\ Len(s) = Len(outbox[n]) /\ refused \in SUBSET (1..Len(outbox[n]))
      /\ Cardinality(refused) \in Nat
      /\ \A i \in 1..Len(outbox[n]) :
            /\ i \in refused =>
                  /\ s[i].env.type = "route_request" /\ s[i].env.src = n
                  /\ s[i].env.seq \in (seq[n] + 1)..(seq[n] + Cardinality(refused))
            /\ i \notin refused => Like(s[i].env, outbox[n][i])
  BY <1>1 DEF SentFor
<1>3. /\ outbox \in [Nodes -> Seq(Envelope)] /\ wire \in Wires /\ seq \in [Nodes -> Nat]
      /\ outbox' \in [Nodes -> Seq(Envelope)] /\ wire' \in Wires
  BY DEF Typed, QueuesTyped
<1>4. seq'[n] = seq[n] + Cardinality(refused) /\ seq[n] \in Nat
  BY <1>1, <1>3
<1>5. \A v \in InQueues(outbox') : v \in InQueues(outbox)
  BY <1>1, <1>2, <1>3, LeaveQueue
<1>6. \A v \in Held(outbox', wire') : v \in Envelope
  BY <1>3, HeldType
<1>7. ASSUME NEW v \in OnWires(wire')
      PROVE  \/ \E u \in Held(outbox, wire) : Like(v, u)
             \/ v.type # "msg" /\ v.src = n /\ v.seq \in (seq[n] + 1)..seq'[n]
  <2>1. v \in OnWires(w) \/ \E i \in 1..Len(s) : v = s[i].env
    BY <1>1, EmitHolds
  <2>2. CASE v \in OnWires(w)
    BY <2>2 DEF Held, Like
  <2>3. ASSUME NEW i \in 1..Len(s), v = s[i].env
        PROVE  \/ \E u \in Held(outbox, wire) : Like(v, u)
               \/ v.type # "msg" /\ v.src = n /\ v.seq \in (seq[n] + 1)..seq'[n]
    <3>1. i \in 1..Len(outbox[n]) /\ outbox[n][i] \in Held(outbox, wire)
      BY <1>2, InQueuesHas DEF Held
    <3> QED BY <1>2, <1>4, <2>3, <3>1
  <2> QED BY <2>1, <2>2, <2>3
<1>8. ASSUME NEW v \in InQueues(outbox') PROVE \E u \in Held(outbox, wire) : Like(v, u)
  BY <1>5 DEF Held, Like
<1>9. Flows(Held(outbox', wire'), Held(outbox, wire), n, seq[n], seq'[n])
  <2>1. \A v : v \in Held(outbox', wire') <=> v \in InQueues(outbox') \/ v \in OnWires(wire')
    BY DEF Held
  <2> QED BY <1>6, <1>7, <1>8, <2>1 DEF Flows
<1>10. seq' = [seq EXCEPT ![n] = seq'[n]]
  BY <1>1, <1>4
<1>11. seq[n] <= seq'[n]
  BY <1>2, <1>4
<1> QED BY <1>9, <1>10, <1>11

\* by what a node sends when it reads a frame or asks for a route,
LEMMA PassFlows ==
    ASSUME Typed, QueuesTyped, NEW w \in Wires,
           \A v \in OnWires(w) : v \in OnWires(wire),
           NEW n \in Nodes, NEW E, \A v \in E : v \in OnWires(wire),
           NEW s, Passes(s, n, E), EmitsAt(wire', w, n, s), outbox' = outbox,
           seq' = seq \/ seq' = [seq EXCEPT ![n] = seq[n] + 1]
    PROVE  /\ Flows(Held(outbox', wire'), Held(outbox, wire), n, seq[n], seq'[n])
           /\ seq' = [seq EXCEPT ![n] = seq'[n]] /\ seq[n] <= seq'[n]
<1>1. /\ outbox \in [Nodes -> Seq(Envelope)] /\ wire \in Wires /\ seq \in [Nodes -> Nat]
      /\ outbox' \in [Nodes -> Seq(Envelope)] /\ wire' \in Wires
  BY DEF Typed, QueuesTyped
<1>2. /\ seq[n] \in Nat /\ seq'[n] \in Nat /\ seq[n] <= seq'[n]
      /\ seq' = [seq EXCEPT ![n] = seq'[n]]
  BY <1>1
<1>3. \A v \in Held(outbox', wire') : v \in Envelope
  BY <1>1, HeldType
<1>4. ASSUME NEW v \in OnWires(wire')
      PROVE  \/ \E u \in Held(outbox, wire) : Like(v, u)
             \/ v.type # "msg" /\ v.src = n /\ v.seq \in (seq[n] + 1)..seq'[n]
  <2>1. v \in OnWires(w) \/ \E i \in 1..Len(s) : v = s[i].env
    BY EmitHolds
  <2>2. CASE v \in OnWires(w)
    BY <2>2 DEF Held, Like
  <2>3. ASSUME NEW i \in 1..Len(s), v = s[i].env
        PROVE  \/ \E u \in Held(outbox, wire) : Like(v, u)
               \/ v.type # "msg" /\ v.src = n /\ v.seq \in (seq[n] + 1)..seq'[n]
    <3>1. \/ \E u \in E : Like(v, u)
          \/ v.type # "msg" /\ v.src = n /\ v.seq = seq[n] + 1 /\ seq'[n] = seq[n] + 1
      BY <2>3 DEF Passes
    <3>2. CASE \E u \in E : Like(v, u)
      BY <3>2 DEF Held
    <3>3. CASE v.type # "msg" /\ v.src = n /\ v.seq = seq[n] + 1 /\ seq'[n] = seq[n] + 1
      BY <1>2, <3>3
    <3> QED BY <3>1, <3>2, <3>3
  <2> QED BY <2>1, <2>2, <2>3
<1>5. ASSUME NEW v \in InQueues(outbox') PROVE \E u \in Held(outbox, wire) : Like(v, u)
  BY DEF Held, Like
<1>6. Flows(Held(outbox', wire'), Held(outbox, wire), n, seq[n], seq'[n])
  <2>1. \A v : v \in Held(outbox', wire') <=> v \in InQueues(outbox') \/ v \in OnWires(wire')
    BY DEF Held
  <2> QED BY <1>3, <1>4, <1>5, <2>1 DEF Flows
<1> QED BY <1>2, <1>6

\* and by the writing of a message, which is one more.
LEMMA SendFlows ==
    ASSUME Typed, QueuesTyped, NEW n \in Nodes, NEW dst \in Nodes, SendEffect(n, dst)
    PROVE  LET env == Message(n, dst, seq[n] + 1, Len(messages) + 1)
           IN  /\ env \in Envelope
               /\ Flows(Held(outbox', wire'), Held(outbox, wire) \cup {env}, n,
                        seq[n] + 1, seq'[n])
               /\ seq' = [seq EXCEPT ![n] = seq'[n]] /\ seq[n] + 1 <= seq'[n]
<1> DEFINE env == Message(n, dst, seq[n] + 1, Len(messages) + 1)
<1>1. PICK s, refused :
          /\ SentFor(s, n, <<env>>, refused, seq[n] + 1)
          /\ EmitsAt(wire', wire, n, s)
          /\ \/ /\ refused = {}
                /\ outbox' = outbox /\ seq' = [seq EXCEPT ![n] = seq[n] + 1]
             \/ /\ refused = {1} /\ Cardinality(refused) = 1
                /\ outbox' = [outbox EXCEPT ![n] = Append(outbox[n], env)]
                /\ seq' = [seq EXCEPT ![n] = seq[n] + 2]
  BY DEF SendEffect
<1>2. /\ outbox \in [Nodes -> Seq(Envelope)] /\ wire \in Wires /\ seq \in [Nodes -> Nat]
      /\ outbox' \in [Nodes -> Seq(Envelope)] /\ wire' \in Wires
      /\ seq[n] \in Nat /\ Len(messages) + 1 \in Nat
  BY LenProperties DEF Typed, QueuesTyped
<1>3. env \in Envelope
  BY <1>2, MessageType
<1> HIDE DEF env
<1>4. /\ Len(s) = 1
      /\ 1 \in refused =>
            /\ s[1].env.type = "route_request" /\ s[1].env.src = n
            /\ s[1].env.seq \in (seq[n] + 1 + 1)..(seq[n] + 1 + Cardinality(refused))
      /\ 1 \notin refused => Like(s[1].env, env)
  <2>1. Len(<<env>>) = 1 /\ <<env>>[1] = env /\ 1 \in 1..1
    OBVIOUS
  <2> QED BY <1>1, <2>1 DEF SentFor
<1>5. /\ seq[n] + 1 <= seq'[n]
      /\ 1 \in refused => seq'[n] = seq[n] + 2 /\ Cardinality(refused) = 1
  <2>1. CASE refused = {} /\ seq' = [seq EXCEPT ![n] = seq[n] + 1]
    <3>1. seq'[n] = seq[n] + 1
      BY <1>2, <2>1
    <3>2. 1 \notin refused
      BY <2>1
    <3> QED BY <1>2, <3>1, <3>2
  <2>2. CASE /\ refused = {1} /\ Cardinality(refused) = 1
             /\ seq' = [seq EXCEPT ![n] = seq[n] + 2]
    <3>1. seq'[n] = seq[n] + 2
      BY <1>2, <2>2
    <3> QED BY <1>2, <2>2, <3>1
  <2> QED BY <1>1, <2>1, <2>2
<1>11. seq' = [seq EXCEPT ![n] = seq'[n]]
  BY <1>1, <1>2
<1>6. \A v \in InQueues(outbox') : v \in InQueues(outbox) \/ v = env
  BY <1>1, <1>2, <1>3, JoinQueue
<1>7. \A v \in Held(outbox', wire') : v \in Envelope
  BY <1>2, HeldType
<1> DEFINE H == Held(outbox, wire) \cup {env}
<1>8. ASSUME NEW v \in OnWires(wire')
      PROVE  \/ \E u \in H : Like(v, u)
             \/ v.type # "msg" /\ v.src = n /\ v.seq \in (seq[n] + 1 + 1)..seq'[n]
  <2>1. v \in OnWires(wire) \/ \E i \in 1..Len(s) : v = s[i].env
    BY <1>1, <1>2, EmitHolds
  <2>2. CASE v \in OnWires(wire)
    BY <2>2 DEF Held, Like
  <2>3. CASE v = s[1].env
    <3>1. CASE 1 \in refused
      <4>1. seq'[n] = seq[n] + 1 + Cardinality(refused)
        BY <1>2, <1>5, <3>1
      <4> QED BY <1>4, <2>3, <3>1, <4>1
    <3>2. CASE 1 \notin refused
      BY <1>4, <2>3, <3>2
    <3> QED BY <3>1, <3>2
  <2> QED BY <1>4, <2>1, <2>2, <2>3
<1>9. ASSUME NEW v \in InQueues(outbox') PROVE \E u \in H : Like(v, u)
  BY <1>6 DEF Held, Like
<1>10. Flows(Held(outbox', wire'), H, n, seq[n] + 1, seq'[n])
  <2>1. \A v : v \in Held(outbox', wire') <=> v \in InQueues(outbox') \/ v \in OnWires(wire')
    BY DEF Held
  <2> HIDE DEF H
  <2> QED BY <1>7, <1>8, <1>9, <2>1 DEF Flows
<1> QED BY <1>3, <1>5, <1>10, <1>11 DEF env

-----------------------------------------------------------------------------
(***************************************************************************)
(* Numbers: what was given out, seen and delivered.                        *)
(***************************************************************************)

\* What counters, memories and deliveries are.
Records(sn, sq, del) ==
    /\ sn \in [Nodes -> SUBSET (Nodes \X Nat)] /\ sq \in [Nodes -> Nat]
    /\ del \in [Nodes -> Seq(Nat)]

\* New numbers of requests and replies disturb nothing.
LEMMA NumbersFlow ==
    ASSUME NEW H, NEW H2, NEW sn, NEW sq, NEW del, Records(sn, sq, del),
           NumberedAt(H, sn, sq, del), \A u \in H : u \in Envelope,
           NEW n \in Nodes, NEW hi \in Nat, sq[n] <= hi, Flows(H2, H, n, sq[n], hi)
    PROVE  NumberedAt(H2, sn, [sq EXCEPT ![n] = hi], del)
<1> DEFINE sq2 == [sq EXCEPT ![n] = hi]
<1>1. /\ sq \in [Nodes -> Nat] /\ sn \in [Nodes -> SUBSET (Nodes \X Nat)]
      /\ sq2[n] = hi /\ \A m \in Nodes : m # n => sq2[m] = sq[m]
  BY DEF Records
<1>2. \A m \in Nodes : sq[m] \in Nat /\ sq2[m] \in Nat /\ sq[m] <= sq2[m]
  BY <1>1
<1> HIDE DEF sq2
<1>3. \A u \in H : /\ u.src \in Nodes /\ u.dst \in Nodes /\ u.seq \in Nat
                   /\ u.seq \in 1..sq[u.src]
  BY DEF Envelope, NumberedAt
<1>4. \A v \in H2 : /\ v.src \in Nodes /\ v.dst \in Nodes /\ v.seq \in Nat
                    /\ \/ \E u \in H : Like(v, u)
                       \/ v.type # "msg" /\ v.src = n /\ v.seq \in (sq[n] + 1)..hi
  BY DEF Flows, Envelope
<1>5. ASSUME NEW v \in H2 PROVE v.seq \in 1..sq2[v.src]
  <2>1. CASE \E u \in H : Like(v, u)
    <3>1. PICK u \in H : Like(v, u)
      BY <2>1
    <3>2. v.seq \in 1..sq[v.src]
      BY <1>3, <3>1 DEF Like
    <3> QED BY <1>2, <1>4, <3>2
  <2>2. CASE v.src = n /\ v.seq \in (sq[n] + 1)..hi
    BY <1>1, <1>2, <2>2
  <2> QED BY <1>4, <2>1, <2>2
<1>6. ASSUME NEW m \in Nodes, NEW k \in sn[m] PROVE k[2] <= sq2[k[1]]
  <2>1. k \in Nodes \X Nat
    BY <1>1
  <2>2. k[1] \in Nodes /\ k[2] \in Nat /\ k[2] <= sq[k[1]]
    BY <2>1 DEF NumberedAt
  <2> QED BY <1>2, <2>2
<1>7. ASSUME NEW u \in H2, NEW v \in H2, u.type = "msg", Key(u) = Key(v)
      PROVE  v.type = "msg" /\ v.msg = u.msg /\ v.dst = u.dst
  <2>1. PICK a \in H : Like(u, a)
    BY <1>4, <1>7
  <2>2. CASE \E b \in H : Like(v, b)
    <3>1. PICK b \in H : Like(v, b)
      BY <2>2
    <3>2. a.type = "msg" /\ Key(a) = Key(b)
      BY <1>7, <2>1, <3>1 DEF Like, Key
    <3>3. b.type = "msg" /\ b.msg = a.msg /\ b.dst = a.dst
      BY <3>2 DEF NumberedAt
    <3> QED BY <2>1, <3>1, <3>3 DEF Like
  <2>3. CASE v.src = n /\ v.seq \in (sq[n] + 1)..hi
    <3>1. a.src = n /\ a.seq = v.seq
      BY <1>7, <2>1, <2>3 DEF Like, Key
    <3>2. a.seq \in 1..sq[n]
      BY <1>3, <3>1
    <3> QED BY <1>2, <2>3, <3>1, <3>2
  <2> QED BY <1>4, <2>2, <2>3
<1>8. ASSUME NEW v \in H2, v.type = "msg", Key(v) \in sn[v.dst]
      PROVE  \E i \in 1..Len(del[v.dst]) : del[v.dst][i] = v.msg
  <2>1. PICK u \in H : Like(v, u)
    BY <1>4, <1>8
  <2>2. u.type = "msg" /\ Key(u) \in sn[u.dst]
    BY <1>8, <2>1 DEF Like, Key
  <2>3. \E i \in 1..Len(del[u.dst]) : del[u.dst][i] = u.msg
    BY <2>2 DEF NumberedAt
  <2> QED BY <2>1, <2>3 DEF Like
<1>9. NumberedAt(H2, sn, sq2, del)
  BY <1>5, <1>6, <1>7, <1>8 DEF NumberedAt
<1> QED BY <1>9 DEF sq2

\* Nor does the number of a new message.
LEMMA NumbersNew ==
    ASSUME NEW H, NEW sn, NEW sq, NEW del, Records(sn, sq, del),
           NumberedAt(H, sn, sq, del), \A u \in H : u \in Envelope,
           NEW n \in Nodes, NEW env \in Envelope, env.src = n, env.seq = sq[n] + 1
    PROVE  NumberedAt(H \cup {env}, sn, [sq EXCEPT ![n] = sq[n] + 1], del)
<1> DEFINE sq2 == [sq EXCEPT ![n] = sq[n] + 1]
           H2 == H \cup {env}
<1>1. /\ sq \in [Nodes -> Nat] /\ sn \in [Nodes -> SUBSET (Nodes \X Nat)]
      /\ sq2[n] = sq[n] + 1 /\ \A m \in Nodes : m # n => sq2[m] = sq[m]
  BY DEF Records
<1>2. \A m \in Nodes : sq[m] \in Nat /\ sq2[m] \in Nat /\ sq[m] <= sq2[m]
  BY <1>1
<1> HIDE DEF sq2
<1>3. \A u \in H : /\ u.src \in Nodes /\ u.dst \in Nodes /\ u.seq \in Nat
                   /\ u.seq \in 1..sq[u.src]
  BY DEF Envelope, NumberedAt
<1>4. env.src = n /\ env.seq = sq[n] + 1 /\ env.dst \in Nodes
  BY DEF Envelope
<1>5. ASSUME NEW v \in H2 PROVE v.seq \in 1..sq2[v.src]
  <2>1. CASE v \in H
    BY <1>2, <1>3, <2>1
  <2>2. CASE v = env
    BY <1>1, <1>2, <1>4, <2>2
  <2> QED BY <2>1, <2>2
<1>6. ASSUME NEW m \in Nodes, NEW k \in sn[m]
      PROVE  k \in Nodes \X Nat /\ k[2] <= sq[k[1]] /\ k[2] <= sq2[k[1]]
  <2>1. k \in Nodes \X Nat
    BY <1>1
  <2>2. k[1] \in Nodes /\ k[2] \in Nat /\ k[2] <= sq[k[1]]
    BY <2>1 DEF NumberedAt
  <2> QED BY <1>2, <2>1, <2>2
<1>7. \A u \in H : Key(u) # Key(env)
  <2> TAKE u \in H
  <2>1. SUFFICES ASSUME u.src = n /\ u.seq = sq[n] + 1 PROVE FALSE
    BY <1>4 DEF Key
  <2>2. u.seq \in 1..sq[n]
    BY <1>3, <2>1
  <2> QED BY <1>2, <2>1, <2>2
<1>8. ASSUME NEW m \in Nodes PROVE Key(env) \notin sn[m]
  <2>1. SUFFICES ASSUME Key(env) \in sn[m] PROVE FALSE
    OBVIOUS
  <2>2. Key(env)[2] <= sq[Key(env)[1]]
    BY <1>6, <2>1
  <2>3. sq[n] + 1 <= sq[n]
    BY <1>4, <2>2 DEF Key
  <2> QED BY <1>2, <2>3
<1>9. ASSUME NEW u \in H2, NEW v \in H2, u.type = "msg", Key(u) = Key(v)
      PROVE  v.type = "msg" /\ v.msg = u.msg /\ v.dst = u.dst
  <2>1. CASE u \in H /\ v \in H
    BY <1>9, <2>1 DEF NumberedAt
  <2>2. CASE u = env \/ v = env
    <3>1. u = env /\ v = env
      BY <1>7, <1>9, <2>2
    <3> QED BY <1>9, <3>1
  <2> QED BY <2>1, <2>2
<1>10. ASSUME NEW v \in H2, v.type = "msg", Key(v) \in sn[v.dst]
       PROVE  \E i \in 1..Len(del[v.dst]) : del[v.dst][i] = v.msg
  <2>1. v # env
    BY <1>4, <1>8, <1>10
  <2> QED BY <1>10, <2>1 DEF NumberedAt
<1>11. NumberedAt(H2, sn, sq2, del)
  BY <1>5, <1>6, <1>9, <1>10 DEF NumberedAt
<1> QED BY <1>11 DEF sq2

\* What is delivered stays so, and env is delivered if it is a message to n.
DeliversAt(del2, del, n, env) ==
    /\ \A m \in Nodes : \A i \in 1..Len(del[m]) :
          \E j \in 1..Len(del2[m]) : del2[m][j] = del[m][i]
    /\ env.type = "msg" /\ env.dst = n =>
          \E i \in 1..Len(del2[n]) : del2[n][i] = env.msg

\* A node that sees an envelope delivers it if it is a message to the node.
LEMMA NumbersSeen ==
    ASSUME NEW H, NEW sn, NEW sq, NEW del, NEW del2, Records(sn, sq, del),
           NumberedAt(H, sn, sq, del), \A u \in H : u \in Envelope,
           NEW n \in Nodes, NEW env \in H, DeliversAt(del2, del, n, env)
    PROVE  NumberedAt(H, [sn EXCEPT ![n] = sn[n] \cup {Key(env)}], sq, del2)
<1> DEFINE sn2 == [sn EXCEPT ![n] = sn[n] \cup {Key(env)}]
<1>1. /\ sn \in [Nodes -> SUBSET (Nodes \X Nat)] /\ sq \in [Nodes -> Nat]
      /\ sn2[n] = sn[n] \cup {Key(env)} /\ \A m \in Nodes : m # n => sn2[m] = sn[m]
  BY DEF Records
<1> HIDE DEF sn2
<1>2. \A u \in H : u.src \in Nodes /\ u.dst \in Nodes /\ u.seq \in 1..sq[u.src]
  BY DEF Envelope, NumberedAt
<1>3. ASSUME NEW m \in Nodes, NEW k \in sn2[m] PROVE k[2] <= sq[k[1]]
  <2>1. CASE k \in sn[m]
    BY <2>1 DEF NumberedAt
  <2>2. CASE k = Key(env)
    <3>1. env.seq \in 1..sq[env.src] /\ sq[env.src] \in Nat
      BY <1>1, <1>2
    <3>2. k[1] = env.src /\ k[2] = env.seq
      BY <2>2 DEF Key
    <3> QED BY <3>1, <3>2
  <2> QED BY <1>1, <2>1, <2>2
<1>4. ASSUME NEW v \in H, v.type = "msg", Key(v) \in sn2[v.dst]
      PROVE  \E i \in 1..Len(del2[v.dst]) : del2[v.dst][i] = v.msg
  <2>1. CASE Key(v) \in sn[v.dst]
    <3>1. \E i \in 1..Len(del[v.dst]) : del[v.dst][i] = v.msg
      BY <1>4, <2>1 DEF NumberedAt
    <3> QED BY <1>2, <3>1, SMTT(30) DEF DeliversAt
  <2>2. CASE Key(v) \notin sn[v.dst]
    <3>1. v.dst = n /\ Key(v) = Key(env)
      BY <1>1, <1>2, <1>4, <2>2
    <3>2. env.type = "msg" /\ env.msg = v.msg /\ env.dst = n
      BY <1>4, <3>1 DEF NumberedAt
    <3> QED BY <3>1, <3>2 DEF DeliversAt
  <2> QED BY <2>1, <2>2
<1>5. /\ \A v \in H : v.seq \in 1..sq[v.src]
      /\ \A u, v \in H : u.type = "msg" /\ Key(u) = Key(v) =>
            v.type = "msg" /\ v.msg = u.msg /\ v.dst = u.dst
  BY DEF NumberedAt
<1>6. NumberedAt(H, sn2, sq, del2)
  BY <1>3, <1>4, <1>5 DEF NumberedAt
<1> QED BY <1>6 DEF sn2

\* Where fewer envelopes are there, what was said still holds.
LEMMA NumbersFewer ==
    ASSUME NEW H, NEW H2, NEW sn, NEW sq, NEW del, NumberedAt(H, sn, sq, del),
           \A v \in H2 : v \in H
    PROVE  NumberedAt(H2, sn, sq, del)
BY DEF NumberedAt

-----------------------------------------------------------------------------
(***************************************************************************)
(* Every action keeps what is said of numbers and of written messages.     *)
(***************************************************************************)

\* What a step of n did to the envelopes and to its counter.
Flowed(n) ==
    /\ Flows(Held(outbox', wire'), Held(outbox, wire), n, seq[n], seq'[n])
    /\ seq' = [seq EXCEPT ![n] = seq'[n]] /\ seq[n] <= seq'[n]

\* What reading a frame does to what n has seen and delivered.
Remembered(n, env) ==
    \/ seen' = seen /\ delivered' = delivered
    \/ /\ seen' = [seen EXCEPT ![n] = seen[n] \cup {Key(env)}]
       /\ Key(env) \notin seen[n]
       /\ \/ /\ ~(env.type = "msg" /\ env.dst = n)
             /\ delivered' = delivered
          \/ /\ env.type = "msg" /\ env.dst = n
             /\ delivered' = [delivered EXCEPT ![n] = Append(delivered[n], env.msg)]

\* What the reading of a frame does to queues and wires.
LEMMA ReceiveEffect ==
    ASSUME Typed, RoutesBegun, NEW n \in Nodes, NEW e \in Ends, Receive(n, e)
    PROVE  ReadEffect(n, e) \/ FlushEffect(Consumed(n, e), n)
<1> DEFINE env == Head(Incoming(n, e))
<1>1. Incoming(n, e) # <<>>
  BY DEF Receive, Replayed, HandleRouteRequest, ForwardRouteReply, HandleRouteReply,
         Deliver, Relay, Receives, Reads
<1>2. Consumed(n, e) \in Wires /\ neighbors[n] \in SUBSET Ends
  BY <1>1, HeadType
<1>11. CASE HandleRouteRequest(n, e)
  BY <1>11, RequestRead
<1>12. CASE ForwardRouteReply(n, e) \/ Relay(n, e)
  <2>1. /\ env.type # "route_request" /\ UNCHANGED <<outbox, seq>>
        /\ Emit(Consumed(n, e), n, Forwarding(table[n], neighbors[n], env))
    BY <1>12 DEF ForwardRouteReply, Relay, Receives
  <2> QED BY <1>1, <2>1, ReadsAndForwards
<1>13. CASE Replayed(n, e) \/ Deliver(n, e)
  <2>1. wire' = Consumed(n, e) /\ UNCHANGED <<outbox, seq>>
    BY <1>13 DEF Deliver, Replayed, nodeVars
  <2> QED BY <1>1, <2>1, ReadsSilently
<1>14. CASE HandleRouteReply(n, e)
  <2>1. \/ wire' = Consumed(n, e) /\ UNCHANGED <<outbox, seq>>
        \/ \E t : FlushQueued(Consumed(n, e), n, t, neighbors[n])
    BY <1>14 DEF HandleRouteReply
  <2>2. CASE wire' = Consumed(n, e) /\ UNCHANGED <<outbox, seq>>
    BY <1>1, <2>2, ReadsSilently
  <2>3. CASE \E t : FlushQueued(Consumed(n, e), n, t, neighbors[n])
    BY <1>2, <2>3, Flushing
  <2> QED BY <2>1, <2>2, <2>3
<1> QED BY <1>11, <1>12, <1>13, <1>14 DEF Receive

\* The reading of a frame.
LEMMA ReceiveFlows ==
    ASSUME Typed, RoutesBegun, QueuesTyped, NEW n \in Nodes, NEW e \in Ends, Receive(n, e)
    PROVE  /\ Flowed(n)
           /\ Head(Incoming(n, e)) \in Held(outbox, wire)
           /\ Remembered(n, Head(Incoming(n, e)))
           /\ UNCHANGED <<messages, restarts>>
<1>1. e \in neighbors[n] /\ Incoming(n, e) # <<>> /\ UNCHANGED <<messages, restarts>>
  BY DEF Receive, Replayed, HandleRouteRequest, ForwardRouteReply, HandleRouteReply,
         Deliver, Relay, Receives, Reads, linkVars, counters
<1> DEFINE env == Head(Incoming(n, e))
<1>2. /\ env \in Envelope /\ env \in OnWires(wire) /\ Consumed(n, e) \in Wires
      /\ ConsumesAt(Consumed(n, e), wire, e[2], Back(n, e))
      /\ neighbors[n] \in SUBSET Ends /\ wire \in Wires
  BY <1>1, HeadType DEF Typed
<1>3. \A v \in OnWires(Consumed(n, e)) : v \in OnWires(wire)
  BY <1>2, ConsumeHolds
<1>4. env \in Held(outbox, wire)
  BY <1>2 DEF Held
<1>5. Remembered(n, env)
  <2>1. CASE Replayed(n, e)
    BY <2>1 DEF Replayed, nodeVars, Remembered
  <2>2. CASE ~Replayed(n, e)
    <3>1. /\ seen' = [seen EXCEPT ![n] = seen[n] \cup {Key(env)}]
          /\ Key(env) \notin seen[n]
      BY <2>2 DEF Receive, HandleRouteRequest, ForwardRouteReply, HandleRouteReply,
                  Deliver, Relay, Receives
    <3>2. \/ /\ ~(env.type = "msg" /\ env.dst = n)
             /\ delivered' = delivered
          \/ /\ env.type = "msg" /\ env.dst = n
             /\ delivered' = [delivered EXCEPT ![n] = Append(delivered[n], env.msg)]
      BY <2>2 DEF Receive, HandleRouteRequest, ForwardRouteReply, HandleRouteReply,
                  Deliver, Relay, Receives
    <3> HIDE DEF env
    <3> QED BY <3>1, <3>2 DEF Remembered
  <2> QED BY <2>1, <2>2
<1>6. ReadEffect(n, e) \/ FlushEffect(Consumed(n, e), n)
  BY ReceiveEffect
<1>7. CASE ReadEffect(n, e)
  <2>1. PICK s : /\ Passes(s, n, {env})
                 /\ EmitsAt(wire', Consumed(n, e), n, s)
    BY <1>7 DEF ReadEffect
  <2>2. outbox' = outbox /\ (seq' = seq \/ seq' = [seq EXCEPT ![n] = seq[n] + 1])
    BY <1>7 DEF ReadEffect
  <2> HIDE DEF env
  <2>3. \A v \in {env} : v \in OnWires(wire)
    BY <1>2
  <2>4. Flowed(n)
    BY <1>2, <1>3, <2>1, <2>2, <2>3, PassFlows DEF Flowed
  <2> QED BY <1>1, <1>4, <1>5, <2>4 DEF env
<1>8. CASE FlushEffect(Consumed(n, e), n)
  <2>1. Flowed(n)
    BY <1>2, <1>3, <1>8, FlushFlows DEF Flowed
  <2> QED BY <1>1, <1>4, <1>5, <2>1
<1> QED BY <1>6, <1>7, <1>8

\* Discovery, the flush loop and a new link.
LEMMA LocalFlows ==
    ASSUME Typed, RoutesBegun, QueuesTyped, NEW n \in Nodes,
           \/ \E m \in Nodes : Discover(n, m)
           \/ FlushLoop(n)
           \/ \E e \in Ends : Register(n, e)
    PROVE  Flowed(n) /\ UNCHANGED <<messages, restarts, seen, delivered>>
<1>1. UNCHANGED <<messages, restarts, seen, delivered>>
  BY DEF Discover, FlushLoop, Register, counters
<1>2. wire \in Wires /\ \A v \in OnWires(wire) : v \in OnWires(wire)
  BY DEF Typed
<1>3. ASSUME NEW m \in Nodes, Discover(n, m) PROVE Flowed(n)
  <2>1. /\ \E s : Passes(s, n, {}) /\ EmitsAt(wire', wire, n, s)
        /\ outbox' = outbox /\ seq' = [seq EXCEPT ![n] = seq[n] + 1]
    BY <1>3, Discovering
  <2>2. PICK s : Passes(s, n, {}) /\ EmitsAt(wire', wire, n, s)
    BY <2>1
  <2>3. \A v \in {} : v \in OnWires(wire)
    OBVIOUS
  <2> QED BY <1>2, <2>1, <2>2, <2>3, PassFlows DEF Flowed
<1>4. ASSUME NEW t, NEW near \in SUBSET Ends, FlushQueued(wire, n, t, near) PROVE Flowed(n)
  <2>1. FlushEffect(wire, n)
    BY <1>2, <1>4, Flushing
  <2> QED BY <1>2, <2>1, FlushFlows DEF Flowed
<1>5. CASE FlushLoop(n)
  <2>1. FlushQueued(wire, n, table[n], neighbors[n]) /\ neighbors[n] \in SUBSET Ends
    BY <1>5 DEF FlushLoop, Typed
  <2> QED BY <1>1, <1>4, <2>1
<1>6. ASSUME NEW e \in Ends, Register(n, e) PROVE Flowed(n)
  <2>1. /\ FlushQueued(wire, n, WithNeighbor(table[n], e[2]), neighbors[n] \cup {e})
        /\ neighbors[n] \cup {e} \in SUBSET Ends
    BY <1>6 DEF Register, Typed
  <2> QED BY <1>4, <2>1
<1> QED BY <1>1, <1>3, <1>5, <1>6

\* The writing of a message.
LEMMA WritingFlows ==
    ASSUME Typed, RoutesBegun, QueuesTyped, NEW n \in Nodes, NEW dst \in Nodes, Send(n, dst)
    PROVE  LET env == Message(n, dst, seq[n] + 1, Len(messages) + 1)
           IN  /\ env \in Envelope
               /\ Flows(Held(outbox', wire'), Held(outbox, wire) \cup {env}, n,
                        seq[n] + 1, seq'[n])
               /\ seq' = [seq EXCEPT ![n] = seq'[n]] /\ seq[n] + 1 <= seq'[n]
               /\ UNCHANGED <<restarts, seen, delivered>>
               /\ Len(messages') = Len(messages) + 1
<1>1. UNCHANGED <<restarts, seen, delivered>> /\ messages' = Append(messages, <<n, dst>>)
      /\ <<n, dst>> \in Traffic
  BY DEF Send
<1>2. Len(messages') = Len(messages) + 1
  BY <1>1, AppendProperties DEF Typed
<1>3. SendEffect(n, dst)
  BY Writing
<1> QED BY <1>1, <1>2, <1>3, SendFlows

\* The loss of links, and of what is on them.
LEMMA LossHolds ==
    ASSUME Typed, QueuesTyped,
           \/ \E n \in Nodes, e \in Ends : Drop(n, e)
           \/ \E n \in Nodes : Restart(n)
           \/ \E l \in Links : Break(l)
    PROVE  /\ \A v \in Held(outbox', wire') : v \in Held(outbox, wire)
           /\ UNCHANGED <<messages, delivered, outbox>>
           /\ restarts' = 0 => UNCHANGED <<restarts, seen, seq>>
<1>1. UNCHANGED <<messages, delivered, outbox>>
  BY DEF Drop, Restart, Break, counters, nodeVars
<1>2. restarts' = 0 => UNCHANGED <<restarts, seen, seq>>
  <2>1. ASSUME NEW n \in Nodes, Restart(n) PROVE restarts' # 0
    BY <2>1 DEF Restart, Typed
  <2>2. ASSUME \/ \E n \in Nodes, e \in Ends : Drop(n, e)
               \/ \E l \in Links : Break(l)
        PROVE  UNCHANGED <<restarts, seen, seq>>
    BY <2>2 DEF Drop, Break, counters, nodeVars
  <2> QED BY <2>1, <2>2
<1>3. \A v \in OnWires(wire') : v \in OnWires(wire)
  <2>1. CASE \E l \in Links : Break(l)
    BY <2>1 DEF Break
  <2>2. CASE \/ \E n \in Nodes, e \in Ends : Drop(n, e)
             \/ \E n \in Nodes : Restart(n)
    <3>1. ClearsAt(wire', wire)
      BY <2>2, Clearing
    <3> QED BY <3>1, ClearHolds
  <2> QED BY <2>1, <2>2
<1> QED BY <1>1, <1>2, <1>3 DEF Held

\* Messages that were written stay so.
LEMMA GivenFlows ==
    ASSUME NEW H, NEW H2, NEW del, NEW del2, NEW number, NEW n, NEW lo, NEW hi,
           GivenAt(H, del, number), Flows(H2, H, n, lo, hi),
           \A m \in Nodes : \A i \in 1..Len(del2[m]) : del2[m][i] \in 1..number
    PROVE  GivenAt(H2, del2, number)
<1>1. ASSUME NEW v \in H2, v.type = "msg" PROVE v.msg \in 1..number
  <2>1. PICK u \in H : Like(v, u)
    BY <1>1 DEF Flows
  <2> QED BY <1>1, <2>1 DEF Like, GivenAt
<1> QED BY <1>1 DEF GivenAt

\* What is delivered when a frame is read: what was, and the frame.
LEMMA Delivering ==
    ASSUME Typed, NEW n \in Nodes, NEW env \in Envelope, Remembered(n, env)
    PROVE  /\ \A m \in Nodes : \A i \in 1..Len(delivered[m]) :
                 \E j \in 1..Len(delivered'[m]) : delivered'[m][j] = delivered[m][i]
           /\ \A m \in Nodes : \A i \in 1..Len(delivered'[m]) :
                 \/ i \in 1..Len(delivered[m]) /\ delivered'[m][i] = delivered[m][i]
                 \/ /\ m = n /\ i = Len(delivered[n]) + 1 /\ env.type = "msg" /\ env.dst = n
                    /\ delivered' # delivered /\ delivered'[n][i] = env.msg
           /\ seen' # seen /\ env.type = "msg" /\ env.dst = n =>
                 \E i \in 1..Len(delivered'[n]) : delivered'[n][i] = env.msg
<1>1. delivered \in [Nodes -> Seq(Nat)] /\ env.msg \in Nat
  BY DEF Typed, Envelope
<1>2. CASE /\ delivered' = delivered
           /\ seen' = seen \/ ~(env.type = "msg" /\ env.dst = n)
  BY <1>2
<1>3. CASE /\ env.type = "msg" /\ env.dst = n
           /\ delivered' = [delivered EXCEPT ![n] = Append(delivered[n], env.msg)]
  <2> DEFINE k == Len(delivered[n])
  <2>1. /\ k \in Nat /\ Len(delivered'[n]) = k + 1 /\ delivered'[n][k + 1] = env.msg
        /\ \A i \in 1..k : delivered'[n][i] = delivered[n][i]
        /\ \A m \in Nodes : m # n => delivered'[m] = delivered[m]
    BY <1>1, <1>3, AppendProperties, LenProperties
  <2>2. delivered' # delivered
    BY <2>1
  <2> HIDE DEF k
  <2>3. \A i \in 1..(k + 1) : i \in 1..k \/ i = k + 1
    BY <2>1
  <2>4. /\ k + 1 \in 1..(k + 1)
        /\ \A i \in 1..k : i \in 1..(k + 1)
    BY <2>1
  <2>5. k = Len(delivered[n])
    BY DEF k
  <2>6. ASSUME NEW m \in Nodes, NEW i \in 1..Len(delivered[m])
        PROVE  \E j \in 1..Len(delivered'[m]) : delivered'[m][j] = delivered[m][i]
    BY <2>1, <2>4, <2>5
  <2>7. ASSUME NEW m \in Nodes, NEW i \in 1..Len(delivered'[m])
        PROVE  \/ i \in 1..Len(delivered[m]) /\ delivered'[m][i] = delivered[m][i]
               \/ /\ m = n /\ i = Len(delivered[n]) + 1 /\ env.type = "msg" /\ env.dst = n
                  /\ delivered' # delivered /\ delivered'[n][i] = env.msg
    <3>1. CASE m # n
      BY <2>1, <3>1
    <3>2. CASE m = n
      BY <1>3, <2>1, <2>2, <2>3, <2>5, <3>2
    <3> QED BY <3>1, <3>2
  <2> QED BY <2>1, <2>4, <2>6, <2>7
<1> QED BY <1>2, <1>3 DEF Remembered

\* Given is kept.
LEMMA GivenStep ==
    ASSUME Typed, RoutesBegun, QueuesTyped, Given, Next
    PROVE  Given'
<1>1. /\ Len(messages) \in Nat /\ outbox \in [Nodes -> Seq(Envelope)] /\ wire \in Wires
  BY LenProperties DEF Typed
<1> DEFINE H == Held(outbox, wire)
           H2 == Held(outbox', wire')
           number == Len(messages)
<1>2. \A v \in H : v \in Envelope
  BY <1>1, HeldType
<1>3. GivenAt(H, delivered, number)
  BY DEF Given
<1>4. GivenAt(H2, delivered', Len(messages')) => Given'
  BY DEF Given
<1>5. \A m \in Nodes : \A i \in 1..Len(delivered[m]) : delivered[m][i] \in 1..number
  BY <1>3 DEF GivenAt
<1> HIDE DEF H, H2
<1>6. ASSUME NEW n \in Nodes, NEW e \in Ends, Receive(n, e) PROVE Given'
  <2> DEFINE env == Head(Incoming(n, e))
  <2>1. Flowed(n) /\ env \in H /\ Remembered(n, env) /\ messages' = messages
    BY <1>6, ReceiveFlows DEF H
  <2>2. Flows(H2, H, n, seq[n], seq'[n])
    BY <2>1 DEF Flowed, H, H2
  <2> HIDE DEF env
  <2>3. env \in Envelope /\ (env.type = "msg" => env.msg \in 1..number)
    BY <1>2, <1>3, <2>1 DEF GivenAt
  <2>4. \A m \in Nodes : \A i \in 1..Len(delivered'[m]) : delivered'[m][i] \in 1..number
    <3> SUFFICES ASSUME NEW m \in Nodes, NEW i \in 1..Len(delivered'[m])
                 PROVE  delivered'[m][i] \in 1..number
      OBVIOUS
    <3>1. \/ i \in 1..Len(delivered[m]) /\ delivered'[m][i] = delivered[m][i]
          \/ m = n /\ env.type = "msg" /\ delivered'[n][i] = env.msg
      BY <2>1, <2>3, Delivering
    <3> HIDE DEF number
    <3> QED BY <1>5, <2>3, <3>1
  <2> HIDE DEF number
  <2>5. GivenAt(H2, delivered', number)
    BY <1>3, <2>2, <2>4, GivenFlows
  <2> QED BY <1>4, <2>1, <2>5 DEF number
<1>7. ASSUME NEW n \in Nodes,
             \/ \E m \in Nodes : Discover(n, m)
             \/ FlushLoop(n)
             \/ \E e \in Ends : Register(n, e)
      PROVE  Given'
  <2>1. Flowed(n) /\ messages' = messages /\ delivered' = delivered
    BY <1>7, LocalFlows
  <2>2. Flows(H2, H, n, seq[n], seq'[n])
    BY <2>1 DEF Flowed, H, H2
  <2> HIDE DEF number
  <2>3. GivenAt(H2, delivered', number)
    BY <1>3, <1>5, <2>1, <2>2, GivenFlows
  <2> QED BY <1>4, <2>1, <2>3 DEF number
<1>8. ASSUME NEW n \in Nodes, NEW dst \in Nodes, Send(n, dst) PROVE Given'
  <2> DEFINE env == Message(n, dst, seq[n] + 1, number + 1)
  <2>1. /\ Flows(H2, H \cup {env}, n, seq[n] + 1, seq'[n])
        /\ delivered' = delivered /\ Len(messages') = number + 1
    BY <1>8, WritingFlows DEF H, H2
  <2>2. env.msg = number + 1
    BY DEF Message
  <2> HIDE DEF env
  <2>3. \A k \in 1..number : k \in 1..(number + 1)
    BY <1>1
  <2>4. number + 1 \in 1..(number + 1)
    BY <1>1
  <2> HIDE DEF number
  <2>5. GivenAt(H \cup {env}, delivered, number + 1)
    BY <1>3, <2>2, <2>3, <2>4 DEF GivenAt
  <2>6. \A m \in Nodes : \A i \in 1..Len(delivered'[m]) : delivered'[m][i] \in 1..(number + 1)
    BY <1>5, <2>1, <2>3
  <2>7. GivenAt(H2, delivered', number + 1)
    BY <2>1, <2>5, <2>6, GivenFlows
  <2> QED BY <1>4, <2>1, <2>7
<1>9. ASSUME \/ \E n \in Nodes, e \in Ends : Drop(n, e)
             \/ \E n \in Nodes : Restart(n)
             \/ \E l \in Links : Break(l)
      PROVE  Given'
  <2>1. (\A v \in H2 : v \in H) /\ messages' = messages /\ delivered' = delivered
    BY <1>9, LossHolds DEF H, H2
  <2>2. GivenAt(H2, delivered', number)
    BY <1>3, <2>1 DEF GivenAt
  <2> QED BY <1>4, <2>1, <2>2
<1> QED BY <1>6, <1>7, <1>8, <1>9 DEF Next

\* What is said of numbers is kept.
LEMMA NumberedStep ==
    ASSUME Typed, RoutesBegun, QueuesTyped, Numbered, Next
    PROVE  Numbered'
<1>1. /\ outbox \in [Nodes -> Seq(Envelope)] /\ wire \in Wires
      /\ seq \in [Nodes -> Nat] /\ seq' \in [Nodes -> Nat]
  BY DEF Typed, QueuesTyped
<1> DEFINE H == Held(outbox, wire)
           H2 == Held(outbox', wire')
<1>2. \A v \in H : v \in Envelope
  BY <1>1, HeldType
<1>3. Records(seen, seq, delivered)
  BY DEF Typed, Records
<1>4. restarts = 0 => NumberedAt(H, seen, seq, delivered)
  BY DEF Numbered
<1>5. (restarts' = 0 => NumberedAt(H2, seen', seq', delivered')) => Numbered'
  BY DEF Numbered
<1> HIDE DEF H, H2
<1>6. ASSUME NEW n \in Nodes, NEW e \in Ends, Receive(n, e) PROVE Numbered'
  <2> DEFINE env == Head(Incoming(n, e))
  <2>1. Flowed(n) /\ env \in H /\ Remembered(n, env) /\ restarts' = restarts
    BY <1>6, ReceiveFlows DEF H
  <2>2. /\ Flows(H2, H, n, seq[n], seq'[n]) /\ seq[n] <= seq'[n]
        /\ seq' = [seq EXCEPT ![n] = seq'[n]] /\ seq'[n] \in Nat
    BY <1>1, <2>1 DEF Flowed, H, H2
  <2> HIDE DEF env
  <2>3. env \in Envelope
    BY <1>2, <2>1
  <2>4. SUFFICES ASSUME NumberedAt(H, seen, seq, delivered)
                 PROVE  NumberedAt(H2, seen', seq', delivered')
    BY <1>4, <1>5, <2>1
  <2>5. NumberedAt(H, seen', seq, delivered') /\ Records(seen', seq, delivered')
    <3>1. CASE seen' = seen /\ delivered' = delivered
      BY <1>3, <2>4, <3>1
    <3>2. CASE ~(seen' = seen /\ delivered' = delivered)
      <4>1. /\ seen' = [seen EXCEPT ![n] = seen[n] \cup {Key(env)}]
            /\ Key(env) \notin seen[n]
            /\ \/ delivered' = delivered
               \/ delivered' = [delivered EXCEPT ![n] = Append(delivered[n], env.msg)]
        BY <2>1, <3>2 DEF Remembered
      <4>2. seen \in [Nodes -> SUBSET (Nodes \X Nat)] /\ delivered \in [Nodes -> Seq(Nat)]
        BY <1>3 DEF Records
      <4>3. Key(env) \in Nodes \X Nat /\ env.msg \in Nat
        BY <2>3 DEF Key, Envelope
      <4>4. seen'[n] = seen[n] \cup {Key(env)}
        BY <4>1, <4>2
      <4>5. seen' # seen
        BY <4>1, <4>4
      <4>6. /\ \A m \in Nodes : \A i \in 1..Len(delivered[m]) :
                  \E j \in 1..Len(delivered'[m]) : delivered'[m][j] = delivered[m][i]
            /\ env.type = "msg" /\ env.dst = n =>
                  \E i \in 1..Len(delivered'[n]) : delivered'[n][i] = env.msg
        BY <2>1, <2>3, <4>5, Delivering
      <4>7. NumberedAt(H, [seen EXCEPT ![n] = seen[n] \cup {Key(env)}], seq, delivered')
        <5>1. DeliversAt(delivered', delivered, n, env)
          BY <4>6 DEF DeliversAt
        <5>2. env \in H
          BY <2>1
        <5> QED BY <1>2, <1>3, <2>4, <5>1, <5>2, NumbersSeen
      <4>8. seen' \in [Nodes -> SUBSET (Nodes \X Nat)]
        <5>1. seen[n] \cup {Key(env)} \in SUBSET (Nodes \X Nat)
          BY <4>2, <4>3
        <5> QED BY <4>1, <4>2, <5>1
      <4>9. delivered' \in [Nodes -> Seq(Nat)]
        <5>1. Append(delivered[n], env.msg) \in Seq(Nat)
          BY <4>2, <4>3, AppendProperties
        <5> QED BY <4>1, <4>2, <5>1
      <4> QED BY <1>1, <4>1, <4>7, <4>8, <4>9 DEF Records
    <3> QED BY <3>1, <3>2
  <2>6. NumberedAt(H2, seen', [seq EXCEPT ![n] = seq'[n]], delivered')
    BY <1>2, <2>2, <2>5, NumbersFlow
  <2> QED BY <2>2, <2>6
<1>7. ASSUME NEW n \in Nodes,
             \/ \E m \in Nodes : Discover(n, m)
             \/ FlushLoop(n)
             \/ \E e \in Ends : Register(n, e)
      PROVE  Numbered'
  <2>1. Flowed(n) /\ UNCHANGED <<restarts, seen, delivered>>
    BY <1>7, LocalFlows
  <2>2. /\ Flows(H2, H, n, seq[n], seq'[n]) /\ seq[n] <= seq'[n]
        /\ seq' = [seq EXCEPT ![n] = seq'[n]] /\ seq'[n] \in Nat
    BY <1>1, <2>1 DEF Flowed, H, H2
  <2>3. SUFFICES ASSUME NumberedAt(H, seen, seq, delivered)
                 PROVE  NumberedAt(H2, seen', seq', delivered')
    BY <1>4, <1>5, <2>1
  <2>4. NumberedAt(H2, seen, [seq EXCEPT ![n] = seq'[n]], delivered)
    BY <1>2, <1>3, <2>2, <2>3, NumbersFlow
  <2> QED BY <2>1, <2>2, <2>4
<1>8. ASSUME NEW n \in Nodes, NEW dst \in Nodes, Send(n, dst) PROVE Numbered'
  <2> DEFINE env == Message(n, dst, seq[n] + 1, Len(messages) + 1)
             sq == [seq EXCEPT ![n] = seq[n] + 1]
             G == H \cup {env}
  <2>1. /\ env \in Envelope
        /\ Flows(H2, G, n, seq[n] + 1, seq'[n])
        /\ seq' = [seq EXCEPT ![n] = seq'[n]] /\ seq[n] + 1 <= seq'[n]
        /\ UNCHANGED <<restarts, seen, delivered>>
    BY <1>8, WritingFlows DEF H, H2
  <2>2. env.src = n /\ env.seq = seq[n] + 1
    BY DEF Message
  <2> HIDE DEF env
  <2>3. SUFFICES ASSUME NumberedAt(H, seen, seq, delivered)
                 PROVE  NumberedAt(H2, seen', seq', delivered')
    BY <1>4, <1>5, <2>1
  <2>4. NumberedAt(G, seen, sq, delivered)
    BY <1>2, <1>3, <2>1, <2>2, <2>3, NumbersNew
  <2>5. \A v \in G : v \in Envelope
    BY <1>2, <2>1
  <2>6. sq[n] = seq[n] + 1 /\ sq \in [Nodes -> Nat] /\ seq'[n] \in Nat
    BY <1>1
  <2>7. [sq EXCEPT ![n] = seq'[n]] = seq'
    <3> DEFINE b == seq'[n]
    <3>1. seq' = [seq EXCEPT ![n] = b]
      BY <2>1
    <3> HIDE DEF b
    <3>2. [sq EXCEPT ![n] = b] = [seq EXCEPT ![n] = b]
      BY <1>1
    <3> QED BY <3>1, <3>2 DEF b
  <2> HIDE DEF sq, G
  <2>8. Records(seen, sq, delivered)
    BY <1>3, <2>6 DEF Records
  <2>9. Flows(H2, G, n, sq[n], seq'[n]) /\ sq[n] <= seq'[n]
    BY <2>1, <2>6
  <2>10. NumberedAt(H2, seen, [sq EXCEPT ![n] = seq'[n]], delivered)
    BY <2>4, <2>5, <2>6, <2>8, <2>9, NumbersFlow
  <2> QED BY <2>1, <2>7, <2>10
<1>9. ASSUME \/ \E n \in Nodes, e \in Ends : Drop(n, e)
             \/ \E n \in Nodes : Restart(n)
             \/ \E l \in Links : Break(l)
      PROVE  Numbered'
  <2>1. /\ \A v \in H2 : v \in H
        /\ delivered' = delivered
        /\ restarts' = 0 => UNCHANGED <<restarts, seen, seq>>
    BY <1>9, LossHolds DEF H, H2
  <2>2. SUFFICES ASSUME restarts' = 0 PROVE NumberedAt(H2, seen', seq', delivered')
    BY <1>5
  <2>3. NumberedAt(H, seen, seq, delivered)
    BY <1>4, <2>1, <2>2
  <2>4. NumberedAt(H2, seen, seq, delivered)
    BY <2>1, <2>3, NumbersFewer
  <2> QED BY <2>1, <2>2, <2>4
<1> QED BY <1>6, <1>7, <1>8, <1>9 DEF Next

\* The first state: nothing is held, seen or delivered.
LEMMA NumberedInit ==
    ASSUME Init
    PROVE  Given /\ Numbered
<1>1. /\ outbox = [n \in Nodes |-> <<>>] /\ wire = [n \in Nodes |-> [e \in Ends |-> <<>>]]
      /\ delivered = [n \in Nodes |-> <<>>] /\ seen = [n \in Nodes |-> {}]
  BY DEF Init
<1>2. Len(<<>>) = 0 /\ 1..0 = {}
  BY EmptySeq
<1>3. \A v : v \notin OnWires(wire)
  BY <1>1, <1>2, OnWiresHas
<1>4. \A v : v \notin InQueues(outbox)
  BY <1>1, <1>2, InQueuesHas
<1>5. \A v : v \notin Held(outbox, wire)
  BY <1>3, <1>4 DEF Held
<1>6. Given
  BY <1>1, <1>2, <1>5 DEF Given, GivenAt
<1>7. Numbered
  BY <1>1, <1>5 DEF Numbered, NumberedAt
<1> QED BY <1>6, <1>7

\* Given is inductive,
LEMMA GivenInductive ==
    ASSUME Typed, RoutesBegun, NeighborsAreDirect, Given, [Next]_vars
    PROVE  Given'
<1>1. CASE Next
  <2>1. QueuesTyped
    BY <1>1, StepTypes
  <2> QED BY <1>1, <2>1, GivenStep
<1>2. CASE UNCHANGED vars
  BY <1>2 DEF vars, Given
<1> QED BY <1>1, <1>2

\* and so is Numbered.
LEMMA NumberedInductive ==
    ASSUME Typed, RoutesBegun, NeighborsAreDirect, Numbered, [Next]_vars
    PROVE  Numbered'
<1>1. CASE Next
  <2>1. QueuesTyped
    BY <1>1, StepTypes
  <2> QED BY <1>1, <2>1, NumberedStep
<1>2. CASE UNCHANGED vars
  BY <1>2 DEF vars, Numbered
<1> QED BY <1>1, <1>2

\* What an envelope that is taken for a replay carries has been received:
\* while no node restarts _replay_check rejects copies only.
THEOREM ReplaysOnly == Spec => []OnlyReplaysRejectedInOneLife
<1> DEFINE Inv == Typed /\ RoutesBegun /\ NeighborsAreDirect /\ Numbered
<1>1. Init => Inv
  BY SoundInit, NumberedInit
<1>2. Inv /\ [Next]_vars => Inv'
  BY SoundStep, NumberedInductive
<1>3. ASSUME Typed, RoutesBegun, Numbered PROVE OnlyReplaysRejectedInOneLife
  <2> SUFFICES ASSUME restarts = 0, NEW n \in Nodes, NEW e \in Ends, Incoming(n, e) # <<>>,
                      Head(Incoming(n, e)).type = "msg", Head(Incoming(n, e)).dst = n,
                      Key(Head(Incoming(n, e))) \in seen[n]
               PROVE  Received(n, Head(Incoming(n, e)).msg)
    BY DEF OnlyReplaysRejectedInOneLife
  <2> DEFINE env == Head(Incoming(n, e))
  <2>1. env \in Held(outbox, wire)
    BY <1>3, HeadType DEF Held
  <2>2. NumberedAt(Held(outbox, wire), seen, seq, delivered)
    BY <1>3 DEF Numbered
  <2>3. \E i \in 1..Len(delivered[env.dst]) : delivered[env.dst][i] = env.msg
    BY <2>1, <2>2 DEF NumberedAt
  <2>4. delivered[n] \in Seq(Nat)
    BY <1>3 DEF Typed
  <2>5. DOMAIN delivered[n] = 1..Len(delivered[n])
    BY <2>4, LenProperties
  <2> QED BY <2>3, <2>5 DEF Received
<1> QED
  <2>1. Inv => OnlyReplaysRejectedInOneLife
    BY <1>3
  <2> QED BY <1>1, <1>2, <2>1, PTL DEF Spec

-----------------------------------------------------------------------------
(***************************************************************************)
(* A message is in one place.                                              *)
(***************************************************************************)

\* The message id is nowhere.
Absent(ob, w, del, id) ==
    /\ \A n \in Nodes : \A i \in Nat : ~Sits(ob[n], i, id)
    /\ \A n \in Nodes : \A e \in Ends : \A i \in Nat : ~Sits(w[n][e], i, id)
    /\ \A n \in Nodes : \A i \in 1..Len(del[n]) : del[n][i] # id

\* A message that is read is nowhere else, and the others are where they were.
LEMMA AloneConsumes ==
    ASSUME NEW ob, NEW w \in Wires, NEW del, AloneAt(ob, w, del),
           NEW new, NEW m, NEW f, ConsumesAt(new, w, m, f)
    PROVE  /\ AloneAt(ob, new, del)
           /\ w[m][f][1] \in Envelope /\ w[m][f][1].type = "msg" =>
                 Absent(ob, new, del, w[m][f][1].msg)
<1> DEFINE was(l, e, i) == IF l = m /\ e = f THEN i + 1 ELSE i
<1>1. m \in Nodes /\ f \in Ends /\ w[m][f] \in Seq(Envelope)
  BY DEF ConsumesAt, Wires
<1>2. Len(w[m][f]) \in Nat \ {0}
  BY <1>1, LenProperties, EmptySeq DEF ConsumesAt
<1>3. ASSUME NEW l \in Nodes, NEW e \in Ends, NEW i \in Nat, NEW id,
             Sits(new[l][e], i, id)
      PROVE  was(l, e, i) \in Nat /\ Sits(w[l][e], was(l, e, i), id)
  <2>1. CASE l = m /\ e = f
    <3>1. /\ i \in 1..Len(new[m][f]) /\ Len(new[m][f]) = Len(w[m][f]) - 1
          /\ new[m][f][i] = w[m][f][i + 1]
      BY <1>3, <2>1 DEF ConsumesAt, Sits
    <3>2. i + 1 \in 1..Len(w[m][f])
      BY <1>2, <3>1
    <3> QED BY <1>3, <2>1, <3>1, <3>2 DEF Sits
  <2>2. CASE ~(l = m /\ e = f)
    BY <1>3, <2>2 DEF ConsumesAt
  <2> QED BY <2>1, <2>2
<1>4. \A l \in Nodes : \A e \in Ends : \A i, j \in Nat :
        /\ was(l, e, i) = was(l, e, j) => i = j
        /\ was(m, f, i) # 1 \/ i = 0
  OBVIOUS
<1> HIDE DEF was
<1>5. OnceOnWires(new)
  <2> SUFFICES ASSUME NEW l \in Nodes, NEW k \in Nodes, NEW e \in Ends, NEW g \in Ends,
                      NEW i \in Nat, NEW j \in Nat, NEW id \in Nat,
                      Sits(new[l][e], i, id), Sits(new[k][g], j, id)
               PROVE  l = k /\ e = g /\ i = j
    BY DEF OnceOnWires
  <2>1. /\ was(l, e, i) \in Nat /\ Sits(w[l][e], was(l, e, i), id)
        /\ was(k, g, j) \in Nat /\ Sits(w[k][g], was(k, g, j), id)
    BY <1>3
  <2>2. l = k /\ e = g /\ was(l, e, i) = was(k, g, j)
    BY <2>1 DEF AloneAt, OnceOnWires
  <2> QED BY <1>4, <2>2
<1>6. QueuedOrOnWire(ob, new) /\ OnWireOrDelivered(new, del)
  <2>1. QueuedOrOnWire(ob, new)
    <3> SUFFICES ASSUME NEW n \in Nodes, NEW l \in Nodes, NEW e \in Ends,
                        NEW i \in Nat, NEW j \in Nat, NEW id \in Nat,
                        Sits(ob[n], i, id), Sits(new[l][e], j, id)
                 PROVE  FALSE
      BY DEF QueuedOrOnWire
    <3>1. was(l, e, j) \in Nat /\ Sits(w[l][e], was(l, e, j), id)
      BY <1>3
    <3> QED BY <3>1 DEF AloneAt, QueuedOrOnWire
  <2>2. OnWireOrDelivered(new, del)
    <3> SUFFICES ASSUME NEW n \in Nodes, NEW l \in Nodes, NEW e \in Ends,
                        NEW i \in Nat, NEW j \in 1..Len(del[n]),
                        Sits(new[l][e], i, del[n][j])
                 PROVE  FALSE
      BY DEF OnWireOrDelivered
    <3>1. was(l, e, i) \in Nat /\ Sits(w[l][e], was(l, e, i), del[n][j])
      BY <1>3
    <3> QED BY <3>1 DEF AloneAt, OnWireOrDelivered
  <2> QED BY <2>1, <2>2
<1>7. AloneAt(ob, new, del)
  BY <1>5, <1>6 DEF AloneAt
<1>8. ASSUME w[m][f][1] \in Envelope, w[m][f][1].type = "msg"
      PROVE  Absent(ob, new, del, w[m][f][1].msg)
  <2> DEFINE id == w[m][f][1].msg
  <2>1. id \in Nat /\ 1 \in Nat /\ Sits(w[m][f], 1, id)
    BY <1>2, <1>8 DEF Envelope, Sits
  <2> HIDE DEF id
  <2>2. \A n \in Nodes : \A i \in Nat : ~Sits(ob[n], i, id)
    BY <1>1, <2>1 DEF AloneAt, QueuedOrOnWire
  <2>3. \A n \in Nodes : \A i \in 1..Len(del[n]) : del[n][i] # id
    BY <1>1, <2>1 DEF AloneAt, OnWireOrDelivered
  <2>4. ASSUME NEW n \in Nodes, NEW e \in Ends, NEW i \in Nat, Sits(new[n][e], i, id)
        PROVE  FALSE
    <3>1. was(n, e, i) \in Nat /\ Sits(w[n][e], was(n, e, i), id)
      BY <1>3, <2>4
    <3>2. n = m /\ e = f /\ was(n, e, i) = 1
      BY <1>1, <2>1, <3>1 DEF AloneAt, OnceOnWires
    <3>3. i # 0
      BY <2>4 DEF Sits
    <3> QED BY <1>1, <1>4, <3>2, <3>3
  <2> QED BY <2>2, <2>3, <2>4 DEF Absent, id
<1> QED BY <1>7, <1>8

\* Wires that are cleared leave the other messages where they were.
LEMMA AloneClears ==
    ASSUME NEW ob, NEW w, NEW del, AloneAt(ob, w, del), NEW new, ClearsAt(new, w)
    PROVE  AloneAt(ob, new, del)
<1>1. ASSUME NEW l \in Nodes, NEW e \in Ends, NEW i \in Nat, NEW id,
             Sits(new[l][e], i, id)
      PROVE  Sits(w[l][e], i, id)
  <2>1. new[l][e] # <<>>
    BY <1>1, EmptySeq DEF Sits
  <2> QED BY <1>1, <2>1 DEF ClearsAt
<1>2. OnceOnWires(new)
  <2> SUFFICES ASSUME NEW l \in Nodes, NEW k \in Nodes, NEW e \in Ends, NEW g \in Ends,
                      NEW i \in Nat, NEW j \in Nat, NEW id \in Nat,
                      Sits(new[l][e], i, id), Sits(new[k][g], j, id)
               PROVE  l = k /\ e = g /\ i = j
    BY DEF OnceOnWires
  <2>1. Sits(w[l][e], i, id) /\ Sits(w[k][g], j, id)
    BY <1>1
  <2> QED BY <2>1 DEF AloneAt, OnceOnWires
<1>3. QueuedOrOnWire(ob, new)
  BY <1>1 DEF AloneAt, QueuedOrOnWire
<1>4. OnWireOrDelivered(new, del)
  BY <1>1 DEF AloneAt, OnWireOrDelivered
<1> QED BY <1>2, <1>3, <1>4 DEF AloneAt

\* A message that was nowhere joins a queue.
LEMMA AloneQueues ==
    ASSUME NEW ob \in [Nodes -> Seq(Envelope)], NEW w, NEW del, AloneAt(ob, w, del),
           NEW n \in Nodes, NEW env \in Envelope, Absent(ob, w, del, env.msg)
    PROVE  AloneAt([ob EXCEPT ![n] = Append(ob[n], env)], w, del)
<1> DEFINE new == [ob EXCEPT ![n] = Append(ob[n], env)]
           k == Len(ob[n]) + 1
<1>1. /\ \A m \in Nodes : m # n => new[m] = ob[m]
      /\ Len(new[n]) = k /\ new[n][k] = env /\ k \in Nat
      /\ \A i \in 1..Len(new[n]) : i = k \/ (i \in 1..Len(ob[n]) /\ new[n][i] = ob[n][i])
  <2>1. /\ ob[n] \in Seq(Envelope) /\ new[n] = Append(ob[n], env)
        /\ \A m \in Nodes : m # n => new[m] = ob[m]
    OBVIOUS
  <2> HIDE DEF new
  <2>2. /\ Len(new[n]) = k /\ new[n][k] = env /\ Len(ob[n]) \in Nat
        /\ \A i \in 1..Len(ob[n]) : new[n][i] = ob[n][i]
    BY <2>1, AppendProperties, LenProperties
  <2> QED BY <2>1, <2>2
<1> HIDE DEF new, k
<1>2. ASSUME NEW m \in Nodes, NEW i \in Nat, NEW id, Sits(new[m], i, id)
      PROVE  Sits(ob[m], i, id) \/ (m = n /\ i = k /\ id = env.msg)
  BY <1>1, <1>2 DEF Sits
<1>3. OnceQueued(new)
  <2> SUFFICES ASSUME NEW l \in Nodes, NEW m \in Nodes,
                      NEW i \in Nat, NEW j \in Nat, NEW id \in Nat,
                      Sits(new[l], i, id), Sits(new[m], j, id)
               PROVE  l = m /\ i = j
    BY DEF OnceQueued
  <2>1. /\ Sits(ob[l], i, id) \/ (l = n /\ i = k /\ id = env.msg)
        /\ Sits(ob[m], j, id) \/ (m = n /\ j = k /\ id = env.msg)
    BY <1>2
  <2> QED BY <2>1 DEF AloneAt, OnceQueued, Absent
<1>4. QueuedOrOnWire(new, w)
  <2> SUFFICES ASSUME NEW l \in Nodes, NEW m \in Nodes, NEW f \in Ends,
                      NEW i \in Nat, NEW j \in Nat, NEW id \in Nat,
                      Sits(new[l], i, id), Sits(w[m][f], j, id)
               PROVE  FALSE
    BY DEF QueuedOrOnWire
  <2>1. Sits(ob[l], i, id) \/ id = env.msg
    BY <1>2
  <2> QED BY <2>1 DEF AloneAt, QueuedOrOnWire, Absent
<1>5. QueuedOrDelivered(new, del)
  <2> SUFFICES ASSUME NEW l \in Nodes, NEW m \in Nodes,
                      NEW i \in Nat, NEW j \in 1..Len(del[m]),
                      Sits(new[l], i, del[m][j])
               PROVE  FALSE
    BY DEF QueuedOrDelivered
  <2>1. Sits(ob[l], i, del[m][j]) \/ del[m][j] = env.msg
    BY <1>2
  <2> QED BY <2>1 DEF AloneAt, QueuedOrDelivered, Absent
<1>6. AloneAt(new, w, del)
  BY <1>3, <1>4, <1>5 DEF AloneAt
<1> QED BY <1>6 DEF new

\* A message that was nowhere is delivered.
LEMMA AloneDelivers ==
    ASSUME NEW ob, NEW w, NEW del \in [Nodes -> Seq(Nat)], AloneAt(ob, w, del),
           NEW n \in Nodes, NEW id \in Nat, Absent(ob, w, del, id)
    PROVE  AloneAt(ob, w, [del EXCEPT ![n] = Append(del[n], id)])
<1> DEFINE new == [del EXCEPT ![n] = Append(del[n], id)]
           k == Len(del[n]) + 1
<1>1. /\ \A m \in Nodes : m # n => new[m] = del[m]
      /\ Len(new[n]) = k /\ new[n][k] = id /\ k \in Nat
      /\ \A i \in 1..Len(new[n]) : i = k \/ (i \in 1..Len(del[n]) /\ new[n][i] = del[n][i])
  <2>1. /\ del[n] \in Seq(Nat) /\ new[n] = Append(del[n], id)
        /\ \A m \in Nodes : m # n => new[m] = del[m]
    OBVIOUS
  <2> HIDE DEF new
  <2>2. /\ Len(new[n]) = k /\ new[n][k] = id /\ Len(del[n]) \in Nat
        /\ \A i \in 1..Len(del[n]) : new[n][i] = del[n][i]
    BY <2>1, AppendProperties, LenProperties
  <2> QED BY <2>1, <2>2
<1> HIDE DEF new, k
<1>2. ASSUME NEW m \in Nodes, NEW i \in 1..Len(new[m])
      PROVE  \/ i \in 1..Len(del[m]) /\ new[m][i] = del[m][i]
             \/ m = n /\ i = k /\ new[m][i] = id
  BY <1>1, <1>2
<1>3. OnceDelivered(new)
  <2> SUFFICES ASSUME NEW l \in Nodes, NEW m \in Nodes,
                      NEW i \in 1..Len(new[l]), NEW j \in 1..Len(new[m]),
                      new[l][i] = new[m][j]
               PROVE  l = m /\ i = j
    BY DEF OnceDelivered
  <2>1. \/ i \in 1..Len(del[l]) /\ new[l][i] = del[l][i]
        \/ l = n /\ i = k /\ new[l][i] = id
    BY <1>2
  <2>2. \/ j \in 1..Len(del[m]) /\ new[m][j] = del[m][j]
        \/ m = n /\ j = k /\ new[m][j] = id
    BY <1>2
  <2>3. \A x \in Nodes : \A y \in 1..Len(del[x]) : del[x][y] # id
    BY DEF Absent
  <2>4. OnceDelivered(del)
    BY DEF AloneAt
  <2>5. CASE l = n /\ i = k /\ new[l][i] = id
    BY <2>2, <2>3, <2>5
  <2>6. CASE m = n /\ j = k /\ new[m][j] = id
    BY <2>1, <2>3, <2>6
  <2> QED BY <2>1, <2>2, <2>4, <2>5, <2>6 DEF OnceDelivered
<1>4. QueuedOrDelivered(ob, new)
  <2> SUFFICES ASSUME NEW l \in Nodes, NEW m \in Nodes,
                      NEW i \in Nat, NEW j \in 1..Len(new[m]),
                      Sits(ob[l], i, new[m][j])
               PROVE  FALSE
    BY DEF QueuedOrDelivered
  <2>1. \/ j \in 1..Len(del[m]) /\ new[m][j] = del[m][j]
        \/ new[m][j] = id
    BY <1>2
  <2>2. new[m][j] # id
    BY DEF Absent
  <2> QED BY <2>1, <2>2 DEF AloneAt, QueuedOrDelivered
<1>5. OnWireOrDelivered(w, new)
  <2> SUFFICES ASSUME NEW l \in Nodes, NEW m \in Nodes, NEW e \in Ends,
                      NEW i \in Nat, NEW j \in 1..Len(new[m]),
                      Sits(w[l][e], i, new[m][j])
               PROVE  FALSE
    BY DEF OnWireOrDelivered
  <2>1. \/ j \in 1..Len(del[m]) /\ new[m][j] = del[m][j]
        \/ new[m][j] = id
    BY <1>2
  <2>2. new[m][j] # id
    BY DEF Absent
  <2> QED BY <2>1, <2>2 DEF AloneAt, OnWireOrDelivered
<1>6. AloneAt(ob, w, new)
  BY <1>3, <1>4, <1>5 DEF AloneAt
<1> QED BY <1>6 DEF new

\* from tells for every frame that was added to old which of the frames s it
\* is: each of them once at most, in the order of s.
Origins(from, new, old, e, s) ==
    /\ \A i \in 1..Len(new) :
          \/ i \in 1..Len(old) /\ new[i] = old[i]
          \/ /\ i \notin 1..Len(old) /\ from[i] \in 1..Len(s)
             /\ e \in s[from[i]].to /\ new[i] = s[from[i]].env
    /\ \A i, j \in 1..Len(new) :
          i \notin 1..Len(old) /\ j \notin 1..Len(old) /\ from[i] = from[j] => i = j

\* Every frame that was added has an origin.
LEMMA AddedOrigins ==
    ASSUME NEW new, NEW old \in Seq(Envelope), NEW e, NEW s, Added(new, old, e, s),
           Len(s) \in Nat
    PROVE  \E from : Origins(from, new, old, e, s)
<1>1. PICK k \in Nat : \E place \in [1..k -> 1..Len(s)] :
        /\ \A i, j \in 1..k : i < j => place[i] < place[j]
        /\ Len(new) = Len(old) + k
        /\ \A i \in 1..Len(old) : new[i] = old[i]
        /\ \A i \in 1..k : /\ e \in s[place[i]].to
                           /\ new[Len(old) + i] = s[place[i]].env
  BY DEF Added
<1>2. PICK place \in [1..k -> 1..Len(s)] :
        /\ \A i, j \in 1..k : i < j => place[i] < place[j]
        /\ Len(new) = Len(old) + k
        /\ \A i \in 1..Len(old) : new[i] = old[i]
        /\ \A i \in 1..k : /\ e \in s[place[i]].to
                           /\ new[Len(old) + i] = s[place[i]].env
  BY <1>1
<1> DEFINE o == Len(old)
           from == [i \in 1..(o + k) |-> place[i - o]]
<1>3. o \in Nat
  BY LenProperties
<1>4. ASSUME NEW i \in 1..Len(new), i \notin 1..o
      PROVE  i - o \in 1..k /\ from[i] = place[i - o] /\ o + (i - o) = i
  <2>1. i \in Nat /\ i > o /\ i <= o + k
    BY <1>2, <1>3, <1>4
  <2> QED BY <1>3, <2>1
<1> HIDE DEF from, o
<1>5. ASSUME NEW i \in 1..Len(new), i \notin 1..o
      PROVE  /\ from[i] \in 1..Len(s) /\ e \in s[from[i]].to
             /\ new[i] = s[from[i]].env
  <2>1. i - o \in 1..k /\ from[i] = place[i - o] /\ o + (i - o) = i
    BY <1>4, <1>5
  <2>2. o = Len(old)
    BY DEF o
  <2> QED BY <1>2, <2>1, <2>2
<1>6. ASSUME NEW i \in 1..Len(new), NEW j \in 1..Len(new),
             i \notin 1..o, j \notin 1..o, from[i] = from[j]
      PROVE  i = j
  <2> DEFINE a == i - o
             b == j - o
  <2>1. a \in 1..k /\ b \in 1..k /\ from[i] = place[a] /\ from[j] = place[b] /\ o + a = i /\ o + b = j
    BY <1>4, <1>6
  <2> HIDE DEF a, b
  <2>2. place[a] = place[b] /\ place[a] \in Nat /\ place[b] \in Nat
    <3>1. place[a] = place[b]
      BY <1>6, <2>1
    <3>2. place[a] \in 1..Len(s) /\ place[b] \in 1..Len(s)
      BY <1>2, <2>1
    <3> QED BY <3>1, <3>2
  <2>3. ~(a < b) /\ ~(b < a)
    BY <1>2, <2>1, <2>2
  <2>4. a = b
    BY <2>1, <2>3
  <2> QED BY <2>1, <2>4
<1>7. \A i \in 1..o : new[i] = old[i]
  BY <1>2 DEF o
<1> QED
  <2>1. Origins(from, new, old, e, s)
    BY <1>5, <1>6, <1>7 DEF Origins, o
  <2> QED BY <2>1

\* from[e] does, for every end e of a link of n.
AllOrigins(from, new, w, n, s) ==
    \A e \in Ends : Origins(from[e], new[n][e], w[n][e], e, s)

\* So it is on all wires of the node that sends.
LEMMA EmitOrigins ==
    ASSUME NEW w \in Wires, NEW new, NEW n \in Nodes, NEW s, Len(s) \in Nat,
           EmitsAt(new, w, n, s)
    PROVE  \E from : AllOrigins(from, new, w, n, s)
<1>1. \A e \in Ends : w[n][e] \in Seq(Envelope) /\ Added(new[n][e], w[n][e], e, s)
  BY DEF EmitsAt, Wires
<1>2. \A e \in Ends : \E f : Origins(f, new[n][e], w[n][e], e, s)
  BY <1>1, AddedOrigins
<1> DEFINE from == [e \in Ends |-> CHOOSE f : Origins(f, new[n][e], w[n][e], e, s)]
<1>3. AllOrigins(from, new, w, n, s)
  BY <1>2 DEF AllOrigins
<1> QED BY <1>3

\* The i-th frame from l to the end e is new and is the message id.
Found(from, new, w, n, s, l, e, i, id) ==
    /\ l = n /\ i \in 1..Len(new[n][e]) /\ i \notin 1..Len(w[n][e])
    /\ from[e][i] \in 1..Len(s) /\ e \in s[from[e][i]].to
    /\ s[from[e][i]].env.type = "msg" /\ s[from[e][i]].env.msg = id

\* Where a message on a wire was before.
LEMMA SitsAfter ==
    ASSUME NEW w, NEW new, NEW n \in Nodes, NEW s, EmitsAt(new, w, n, s),
           NEW from, AllOrigins(from, new, w, n, s),
           NEW l \in Nodes, NEW e \in Ends, NEW i \in Nat, NEW id, Sits(new[l][e], i, id)
    PROVE  Sits(w[l][e], i, id) \/ Found(from, new, w, n, s, l, e, i, id)
<1>1. CASE l # n
  BY <1>1 DEF EmitsAt
<1>2. CASE l = n
  <2>1. i \in 1..Len(new[n][e]) /\ new[n][e][i].type = "msg" /\ new[n][e][i].msg = id
    BY <1>2 DEF Sits
  <2>2. Origins(from[e], new[n][e], w[n][e], e, s)
    BY DEF AllOrigins
  <2>3. \/ i \in 1..Len(w[n][e]) /\ new[n][e][i] = w[n][e][i]
        \/ /\ i \notin 1..Len(w[n][e]) /\ from[e][i] \in 1..Len(s)
           /\ e \in s[from[e][i]].to /\ new[n][e][i] = s[from[e][i]].env
    BY <2>1, <2>2 DEF Origins
  <2> QED BY <1>2, <2>1, <2>3 DEF Sits, Found
<1> QED BY <1>1, <1>2

\* At most one frame is sent, and a message that was nowhere by one link.
LEMMA AlonePasses ==
    ASSUME NEW ob, NEW w \in Wires, NEW del, AloneAt(ob, w, del),
           NEW new, NEW n \in Nodes, NEW s, EmitsAt(new, w, n, s), Len(s) \in {0, 1},
           \A k \in 1..Len(s) : s[k].env.type = "msg" =>
              /\ Absent(ob, w, del, s[k].env.msg)
              /\ \A e, f \in s[k].to : e = f
    PROVE  AloneAt(ob, new, del)
<1>1. Len(s) \in Nat
  OBVIOUS
<1>2. PICK from : AllOrigins(from, new, w, n, s)
  BY <1>1, EmitOrigins
<1> DEFINE fresh(l, e, i, id) ==
              /\ l = n /\ i \in 1..Len(new[n][e]) /\ i \notin 1..Len(w[n][e])
              /\ from[e][i] = 1 /\ 1 \in 1..Len(s) /\ e \in s[1].to
              /\ s[1].env.type = "msg" /\ s[1].env.msg = id
<1>3. \A l \in Nodes : \A e \in Ends : \A i \in Nat : \A id :
        Sits(new[l][e], i, id) => Sits(w[l][e], i, id) \/ fresh(l, e, i, id)
  <2> SUFFICES ASSUME NEW l \in Nodes, NEW e \in Ends, NEW i \in Nat, NEW id,
                      Sits(new[l][e], i, id), ~Sits(w[l][e], i, id)
               PROVE  fresh(l, e, i, id)
    OBVIOUS
  <2>1. Found(from, new, w, n, s, l, e, i, id)
    BY <1>2, SitsAfter
  <2>2. from[e][i] = 1
    BY <2>1 DEF Found
  <2> QED BY <2>1, <2>2 DEF Found
<1>4. \A l \in Nodes : \A e \in Ends : \A i \in Nat : \A id :
        fresh(l, e, i, id) => Absent(ob, w, del, id)
  OBVIOUS
<1>5. \A l, k \in Nodes : \A e, g \in Ends : \A i, j \in Nat : \A id :
        fresh(l, e, i, id) /\ fresh(k, g, j, id) => l = k /\ e = g /\ i = j
  <2> SUFFICES ASSUME NEW e \in Ends, NEW g \in Ends, NEW i \in Nat, NEW j \in Nat, NEW id,
                      fresh(n, e, i, id), fresh(n, g, j, id)
               PROVE  e = g /\ i = j
    OBVIOUS
  <2>1. e = g
    OBVIOUS
  <2>2. Origins(from[e], new[n][e], w[n][e], e, s)
    BY <1>2 DEF AllOrigins
  <2> QED BY <2>1, <2>2 DEF Origins
<1> HIDE DEF fresh
<1>6. OnceOnWires(new)
  <2> SUFFICES ASSUME NEW l \in Nodes, NEW k \in Nodes, NEW e \in Ends, NEW g \in Ends,
                      NEW i \in Nat, NEW j \in Nat, NEW id \in Nat,
                      Sits(new[l][e], i, id), Sits(new[k][g], j, id)
               PROVE  l = k /\ e = g /\ i = j
    BY DEF OnceOnWires
  <2>1. /\ Sits(w[l][e], i, id) \/ fresh(l, e, i, id)
        /\ Sits(w[k][g], j, id) \/ fresh(k, g, j, id)
    BY <1>3
  <2>2. CASE Sits(w[l][e], i, id) /\ Sits(w[k][g], j, id)
    BY <2>2 DEF AloneAt, OnceOnWires
  <2>3. CASE fresh(l, e, i, id) /\ fresh(k, g, j, id)
    BY <1>5, <2>3
  <2>4. CASE Absent(ob, w, del, id)
    BY <2>1, <2>4, <1>5 DEF Absent
  <2> QED BY <1>4, <2>1, <2>2, <2>3, <2>4
<1>7. QueuedOrOnWire(ob, new)
  <2> SUFFICES ASSUME NEW m \in Nodes, NEW l \in Nodes, NEW e \in Ends,
                      NEW i \in Nat, NEW j \in Nat, NEW id \in Nat,
                      Sits(ob[m], i, id), Sits(new[l][e], j, id)
               PROVE  FALSE
    BY DEF QueuedOrOnWire
  <2>1. Sits(w[l][e], j, id) \/ Absent(ob, w, del, id)
    BY <1>3, <1>4
  <2> QED BY <2>1 DEF AloneAt, QueuedOrOnWire, Absent
<1>8. OnWireOrDelivered(new, del)
  <2> SUFFICES ASSUME NEW m \in Nodes, NEW l \in Nodes, NEW e \in Ends,
                      NEW i \in Nat, NEW j \in 1..Len(del[m]),
                      Sits(new[l][e], i, del[m][j])
               PROVE  FALSE
    BY DEF OnWireOrDelivered
  <2>1. Sits(w[l][e], i, del[m][j]) \/ Absent(ob, w, del, del[m][j])
    BY <1>3, <1>4
  <2> QED BY <2>1 DEF AloneAt, OnWireOrDelivered, Absent
<1> QED BY <1>6, <1>7, <1>8 DEF AloneAt

\* A queue is flushed: what is not refused goes by one link each.
LEMMA AloneFlushes ==
    ASSUME NEW ob \in [Nodes -> Seq(Envelope)], NEW w \in Wires, NEW del,
           AloneAt(ob, w, del),
           NEW new, NEW n \in Nodes, NEW s, NEW refused, NEW last,
           EmitsAt(new, w, n, s), SentFor(s, n, ob[n], refused, last)
    PROVE  AloneAt([ob EXCEPT ![n] = Picked(ob[n], refused)], new, del)
<1> DEFINE ob2 == [ob EXCEPT ![n] = Picked(ob[n], refused)]
<1>1. /\ ob[n] \in Seq(Envelope) /\ refused \in SUBSET (1..Len(ob[n]))
      /\ Len(ob[n]) \in Nat /\ Len(s) = Len(ob[n])
  BY LenProperties DEF SentFor
<1>0. \A r \in refused : r \in 1..Len(ob[n]) /\ r \in Nat
  BY <1>1
<1>2. PICK from : AllOrigins(from, new, w, n, s)
  BY <1>1, EmitOrigins
<1>3. /\ Len(Picked(ob[n], refused)) = Cardinality(refused)
      /\ Cardinality(refused) \in Nat
      /\ \E place : /\ Enumerates(place, refused)
                    /\ \A i \in 1..Cardinality(refused) :
                          Picked(ob[n], refused)[i] = ob[n][place[i]]
  BY <1>1, PickedPlaces
<1>4. PICK place : /\ Enumerates(place, refused)
                   /\ \A i \in 1..Cardinality(refused) :
                          Picked(ob[n], refused)[i] = ob[n][place[i]]
  BY <1>3
<1> DEFINE was(m, i) == IF m = n THEN place[i] ELSE i
<1>5. \A m \in Nodes : m # n => ob2[m] = ob[m]
  OBVIOUS
<1>6. ob2[n] = Picked(ob[n], refused)
  OBVIOUS
<1> HIDE DEF ob2
<1>7. ASSUME NEW m \in Nodes, NEW i \in Nat, NEW id, Sits(ob2[m], i, id)
      PROVE  /\ was(m, i) \in Nat /\ Sits(ob[m], was(m, i), id)
             /\ m = n => i \in 1..Cardinality(refused) /\ was(m, i) \in refused
  <2>1. CASE m # n
    BY <1>5, <1>7, <2>1
  <2>2. CASE m = n
    <3>1. i \in 1..Cardinality(refused) /\ ob2[n][i] = ob[n][place[i]]
      BY <1>3, <1>4, <1>6, <1>7, <2>2 DEF Sits
    <3>2. place[i] \in refused
      BY <1>4, <3>1 DEF Enumerates
    <3>3. place[i] \in 1..Len(ob[n]) /\ place[i] \in Nat
      BY <1>0, <3>2
    <3> QED BY <1>7, <2>2, <3>1, <3>2, <3>3 DEF Sits
  <2> QED BY <2>1, <2>2
<1>8. \A i, j \in 1..Cardinality(refused) : place[i] = place[j] => i = j
  <2> SUFFICES ASSUME NEW i \in 1..Cardinality(refused), NEW j \in 1..Cardinality(refused),
                      place[i] = place[j]
               PROVE  i = j
    OBVIOUS
  <2>1. place[i] \in refused /\ place[j] \in refused
    BY <1>4 DEF Enumerates
  <2>2. place[i] \in Nat /\ place[j] \in Nat
    BY <1>0, <2>1
  <2>3. ~(i < j) /\ ~(j < i)
    BY <1>4, <2>2 DEF Enumerates
  <2> QED BY <1>3, <2>3
\* What is new on a wire was in the queue, and was not refused.
<1> DEFINE moved(l, e, i, id) ==
              /\ l = n /\ i \in 1..Len(new[n][e]) /\ i \notin 1..Len(w[n][e])
              /\ from[e][i] \in Nat /\ from[e][i] \notin refused
              /\ Sits(ob[n], from[e][i], id)
              /\ e \in s[from[e][i]].to /\ \A x, y \in s[from[e][i]].to : x = y
<1>9. ASSUME NEW l \in Nodes, NEW e \in Ends, NEW i \in Nat, NEW id, Sits(new[l][e], i, id)
      PROVE  Sits(w[l][e], i, id) \/ moved(l, e, i, id)
  <2> SUFFICES ASSUME ~Sits(w[l][e], i, id) PROVE moved(l, e, i, id)
    OBVIOUS
  <2>0. Found(from, new, w, n, s, l, e, i, id)
    BY <1>2, <1>9, SitsAfter
  <2>1. /\ l = n /\ i \in 1..Len(new[n][e]) /\ i \notin 1..Len(w[n][e])
        /\ from[e][i] \in 1..Len(s) /\ e \in s[from[e][i]].to
        /\ s[from[e][i]].env.type = "msg" /\ s[from[e][i]].env.msg = id
    BY <2>0 DEF Found
  <2> DEFINE p == from[e][i]
  <2>2. p \in 1..Len(ob[n]) /\ p \in Nat
    BY <1>1, <2>1
  <2> HIDE DEF p
  <2>3. s[p].env.type = "msg" /\ s[p].env.msg = id
    BY <2>1 DEF p
  <2>4. p \notin refused
    BY <2>2, <2>3 DEF SentFor
  <2>5. Like(s[p].env, ob[n][p]) /\ \A x, y \in s[p].to : x = y
    BY <2>2, <2>4 DEF SentFor
  <2>6. Sits(ob[n], p, id)
    BY <2>2, <2>3, <2>5 DEF Sits, Like
  <2> QED BY <2>1, <2>2, <2>4, <2>5, <2>6 DEF p
<1>10. ASSUME NEW e \in Ends, NEW g \in Ends, NEW i, NEW j, NEW id \in Nat,
              moved(n, e, i, id), moved(n, g, j, id)
       PROVE  e = g /\ i = j
  <2>1. from[e][i] = from[g][j]
    BY <1>10 DEF AloneAt, OnceQueued
  <2>2. e = g
    BY <1>10, <2>1
  <2>3. Origins(from[e], new[n][e], w[n][e], e, s)
    BY <1>2 DEF AllOrigins
  <2> QED BY <1>10, <2>1, <2>2, <2>3 DEF Origins
<1>11. \A l, e, i, id : moved(l, e, i, id) =>
          /\ l = n /\ from[e][i] \in Nat /\ Sits(ob[n], from[e][i], id)
          /\ from[e][i] \notin refused
  OBVIOUS
<1> HIDE DEF moved, was
<1>12. OnceQueued(ob2)
  <2> SUFFICES ASSUME NEW l \in Nodes, NEW m \in Nodes,
                      NEW i \in Nat, NEW j \in Nat, NEW id \in Nat,
                      Sits(ob2[l], i, id), Sits(ob2[m], j, id)
               PROVE  l = m /\ i = j
    BY DEF OnceQueued
  <2>1. /\ was(l, i) \in Nat /\ Sits(ob[l], was(l, i), id)
        /\ was(m, j) \in Nat /\ Sits(ob[m], was(m, j), id)
        /\ l = n => i \in 1..Cardinality(refused)
        /\ m = n => j \in 1..Cardinality(refused)
    BY <1>7
  <2>2. l = m /\ was(l, i) = was(m, j)
    BY <2>1 DEF AloneAt, OnceQueued
  <2> QED BY <1>8, <2>1, <2>2 DEF was
<1>13. QueuedOrDelivered(ob2, del)
  <2> SUFFICES ASSUME NEW l \in Nodes, NEW m \in Nodes,
                      NEW i \in Nat, NEW j \in 1..Len(del[m]), Sits(ob2[l], i, del[m][j])
               PROVE  FALSE
    BY DEF QueuedOrDelivered
  <2>1. was(l, i) \in Nat /\ Sits(ob[l], was(l, i), del[m][j])
    BY <1>7
  <2> QED BY <2>1 DEF AloneAt, QueuedOrDelivered
<1>14. OnceOnWires(new)
  <2> SUFFICES ASSUME NEW l \in Nodes, NEW k \in Nodes, NEW e \in Ends, NEW g \in Ends,
                      NEW i \in Nat, NEW j \in Nat, NEW id \in Nat,
                      Sits(new[l][e], i, id), Sits(new[k][g], j, id)
               PROVE  l = k /\ e = g /\ i = j
    BY DEF OnceOnWires
  <2>1. /\ Sits(w[l][e], i, id) \/ moved(l, e, i, id)
        /\ Sits(w[k][g], j, id) \/ moved(k, g, j, id)
    BY <1>9
  <2>2. CASE Sits(w[l][e], i, id) /\ Sits(w[k][g], j, id)
    BY <2>2 DEF AloneAt, OnceOnWires
  <2>3. CASE moved(l, e, i, id) /\ moved(k, g, j, id)
    BY <1>10, <1>11, <2>3
  <2>4. CASE Sits(w[l][e], i, id) /\ moved(k, g, j, id)
    BY <1>11, <2>4 DEF AloneAt, QueuedOrOnWire
  <2>5. CASE moved(l, e, i, id) /\ Sits(w[k][g], j, id)
    BY <1>11, <2>5 DEF AloneAt, QueuedOrOnWire
  <2> QED BY <2>1, <2>2, <2>3, <2>4, <2>5
<1>15. QueuedOrOnWire(ob2, new)
  <2> SUFFICES ASSUME NEW m \in Nodes, NEW l \in Nodes, NEW e \in Ends,
                      NEW i \in Nat, NEW j \in Nat, NEW id \in Nat,
                      Sits(ob2[m], i, id), Sits(new[l][e], j, id)
               PROVE  FALSE
    BY DEF QueuedOrOnWire
  <2>1. /\ was(m, i) \in Nat /\ Sits(ob[m], was(m, i), id)
        /\ m = n => was(m, i) \in refused
    BY <1>7
  <2>2. CASE Sits(w[l][e], j, id)
    BY <2>1, <2>2 DEF AloneAt, QueuedOrOnWire
  <2>3. CASE moved(l, e, j, id)
    <3>1. m = n /\ was(m, i) = from[e][j]
      BY <1>11, <2>1, <2>3 DEF AloneAt, OnceQueued
    <3> QED BY <1>11, <2>1, <2>3, <3>1
  <2> QED BY <1>9, <2>2, <2>3
<1>16. OnWireOrDelivered(new, del)
  <2> SUFFICES ASSUME NEW m \in Nodes, NEW l \in Nodes, NEW e \in Ends,
                      NEW i \in Nat, NEW j \in 1..Len(del[m]),
                      Sits(new[l][e], i, del[m][j])
               PROVE  FALSE
    BY DEF OnWireOrDelivered
  <2>1. CASE Sits(w[l][e], i, del[m][j])
    BY <2>1 DEF AloneAt, OnWireOrDelivered
  <2>2. CASE moved(l, e, i, del[m][j])
    BY <1>11, <2>2 DEF AloneAt, QueuedOrDelivered
  <2> QED BY <1>9, <2>1, <2>2
<1>17. OnceDelivered(del)
  BY DEF AloneAt
<1>18. AloneAt(ob2, new, del)
  BY <1>12, <1>13, <1>14, <1>15, <1>16, <1>17 DEF AloneAt
<1> QED BY <1>18 DEF ob2

\* So it is in the specification.
LEMMA AloneFlushing ==
    ASSUME Typed, NEW w \in Wires, AloneAt(outbox, w, delivered), NEW n \in Nodes,
           FlushEffect(w, n), delivered' = delivered
    PROVE  Alone'
<1>1. PICK s, refused :
        /\ SentFor(s, n, outbox[n], refused, seq[n])
        /\ EmitsAt(wire', w, n, s)
        /\ outbox' = [outbox EXCEPT ![n] = Picked(outbox[n], refused)]
  BY DEF FlushEffect
<1>2. outbox \in [Nodes -> Seq(Envelope)]
  BY DEF Typed
<1>3. AloneAt([outbox EXCEPT ![n] = Picked(outbox[n], refused)], wire', delivered)
  BY <1>1, <1>2, AloneFlushes
<1> QED BY <1>1, <1>3 DEF Alone

\* What is read is in one place afterwards, wherever it goes.
LEMMA AloneReceives ==
    ASSUME Typed, RoutesBegun, Alone, NEW n \in Nodes, NEW e \in Ends, Receive(n, e)
    PROVE  Alone'
<1> DEFINE env == Head(Incoming(n, e))
           w == Consumed(n, e)
<1>1. Incoming(n, e) # <<>>
  BY DEF Receive, Replayed, HandleRouteRequest, ForwardRouteReply, HandleRouteReply,
         Deliver, Relay, Receives, Reads
<1>2. /\ wire \in Wires /\ outbox \in [Nodes -> Seq(Envelope)]
      /\ delivered \in [Nodes -> Seq(Nat)]
      /\ AloneAt(outbox, wire, delivered)
  BY DEF Typed, Alone
<1>3. /\ ConsumesAt(w, wire, e[2], Back(n, e))
      /\ env \in Envelope /\ env = wire[e[2]][Back(n, e)][1]
      /\ w \in Wires
  BY <1>1, <1>2, ConsumedWires DEF ConsumesAt
<1>4. AloneAt(outbox', wire', delivered') => Alone'
  BY DEF Alone
<1>5. ReadEffect(n, e) \/ FlushEffect(w, n)
  BY ReceiveEffect
<1>6. ReadEffect(n, e) => \E s : Passes(s, n, {env}) /\ EmitsAt(wire', w, n, s)
  BY DEF ReadEffect
<1>7. CASE Deliver(n, e)
  <2>1. /\ wire' = w /\ outbox' = outbox /\ env.type = "msg"
        /\ delivered' = [delivered EXCEPT ![n] = Append(delivered[n], env.msg)]
    BY <1>7 DEF Deliver, Receives
  <2> HIDE DEF env, w
  <2>2. AloneAt(outbox, w, delivered) /\ Absent(outbox, w, delivered, env.msg)
    BY <1>2, <1>3, <2>1, AloneConsumes
  <2>3. env.msg \in Nat
    BY <1>3 DEF Envelope
  <2>4. AloneAt(outbox, w, [delivered EXCEPT ![n] = Append(delivered[n], env.msg)])
    BY <1>2, <2>2, <2>3, AloneDelivers
  <2> QED BY <1>4, <2>1, <2>4
<1>8. CASE ~Deliver(n, e)
  <2>1. delivered' = delivered
    BY <1>8 DEF Receive, Replayed, HandleRouteRequest, ForwardRouteReply,
                HandleRouteReply, Relay
  <2>2. ReadEffect(n, e) => outbox' = outbox
    BY DEF ReadEffect
  <2> HIDE DEF env, w
  <2>3. AloneAt(outbox, w, delivered)
    BY <1>2, <1>3, AloneConsumes
  <2>4. CASE ReadEffect(n, e)
    <3>1. PICK s : Passes(s, n, {env}) /\ EmitsAt(wire', w, n, s)
      BY <1>6, <2>4
    <3>2. Len(s) \in {0, 1}
      BY <3>1 DEF Passes
    <3>3. ASSUME NEW k \in 1..Len(s), s[k].env.type = "msg"
          PROVE  /\ Absent(outbox, w, delivered, s[k].env.msg)
                 /\ \A x, y \in s[k].to : x = y
      <4>1. Like(s[k].env, env) /\ \A x, y \in s[k].to : x = y
        BY <3>1, <3>3 DEF Passes
      <4>2. env.type = "msg" /\ env.msg = s[k].env.msg
        BY <3>3, <4>1 DEF Like
      <4>3. Absent(outbox, w, delivered, env.msg)
        BY <1>2, <1>3, <4>2, AloneConsumes
      <4> QED BY <4>1, <4>2, <4>3
    <3>4. AloneAt(outbox, wire', delivered)
      BY <1>3, <2>3, <3>1, <3>2, <3>3, AlonePasses
    <3> QED BY <1>4, <2>1, <2>2, <2>4, <3>4
  <2>5. CASE FlushEffect(w, n)
    BY <1>2, <1>3, <2>1, <2>3, <2>5, AloneFlushing
  <2> QED BY <1>5, <2>4, <2>5
<1> QED BY <1>7, <1>8

\* Nothing is delivered or queued by a node that asks for a route; the loop
\* and a new link flush the queue.
LEMMA AloneLocal ==
    ASSUME Typed, RoutesBegun, Alone, NEW n \in Nodes,
           \/ \E m \in Nodes : Discover(n, m)
           \/ FlushLoop(n)
           \/ \E e \in Ends : Register(n, e)
    PROVE  Alone'
<1>1. delivered' = delivered
  BY DEF Discover, FlushLoop, Register, counters
<1>2. wire \in Wires /\ AloneAt(outbox, wire, delivered)
  BY DEF Typed, Alone
<1>3. ASSUME NEW m \in Nodes, Discover(n, m) PROVE Alone'
  <2>1. /\ \E s : Passes(s, n, {}) /\ EmitsAt(wire', wire, n, s)
        /\ outbox' = outbox
    BY <1>3, Discovering
  <2>2. PICK s : Passes(s, n, {}) /\ EmitsAt(wire', wire, n, s)
    BY <2>1
  <2>3. Len(s) \in {0, 1} /\ \A k \in 1..Len(s) : s[k].env.type # "msg"
    BY <2>2 DEF Passes
  <2>4. AloneAt(outbox, wire', delivered)
    BY <1>2, <2>2, <2>3, AlonePasses
  <2> QED BY <1>1, <2>1, <2>4 DEF Alone
<1>4. ASSUME NEW t, NEW near \in SUBSET Ends, FlushQueued(wire, n, t, near) PROVE Alone'
  <2>1. FlushEffect(wire, n)
    BY <1>2, <1>4, Flushing
  <2> QED BY <1>1, <1>2, <2>1, AloneFlushing
<1>5. CASE FlushLoop(n)
  <2>1. FlushQueued(wire, n, table[n], neighbors[n]) /\ neighbors[n] \in SUBSET Ends
    BY <1>5 DEF FlushLoop, Typed
  <2> QED BY <1>4, <2>1
<1>6. ASSUME NEW e \in Ends, Register(n, e) PROVE Alone'
  <2>1. /\ FlushQueued(wire, n, WithNeighbor(table[n], e[2]), neighbors[n] \cup {e})
        /\ neighbors[n] \cup {e} \in SUBSET Ends
    BY <1>6 DEF Register, Typed
  <2> QED BY <1>4, <2>1
<1> QED BY <1>3, <1>5, <1>6

\* A message that is written is sent by one link, or queued.
LEMMA AloneSends ==
    ASSUME Typed, Given, Alone, NEW n \in Nodes, NEW dst \in Nodes, Send(n, dst)
    PROVE  Alone'
<1> DEFINE env == Message(n, dst, seq[n] + 1, Len(messages) + 1)
           id == Len(messages) + 1
<1>1. /\ seq[n] + 1 \in Nat /\ Len(messages) \in Nat /\ id \in Nat
      /\ wire \in Wires /\ outbox \in [Nodes -> Seq(Envelope)]
  BY LenProperties DEF Typed
<1>2. env \in Envelope
  BY <1>1, MessageType
<1>3. env.type = "msg" /\ env.msg = id
  BY DEF Message
<1>4. delivered' = delivered
  BY DEF Send
<1>5. SendEffect(n, dst)
  BY Writing
<1>6. PICK s, refused :
          /\ SentFor(s, n, <<env>>, refused, seq[n] + 1)
          /\ EmitsAt(wire', wire, n, s)
          /\ \/ refused = {} /\ outbox' = outbox
             \/ /\ refused = {1}
                /\ outbox' = [outbox EXCEPT ![n] = Append(outbox[n], env)]
  BY <1>5 DEF SendEffect
<1>7. id \notin 1..Len(messages)
  BY <1>1
<1> HIDE DEF env, id
<1>8. AloneAt(outbox, wire, delivered)
  BY DEF Alone
<1>9. Absent(outbox, wire, delivered, id)
  <2>1. GivenAt(Held(outbox, wire), delivered, Len(messages))
    BY DEF Given
  <2>2. \A m \in Nodes : \A i \in 1..Len(delivered[m]) : delivered[m][i] # id
    BY <1>7, <2>1 DEF GivenAt
  <2>3. ASSUME NEW m \in Nodes, NEW i \in Nat, Sits(outbox[m], i, id) PROVE FALSE
    <3>1. outbox[m][i] \in Held(outbox, wire)
      BY <2>3, InQueuesHas DEF Held, Sits
    <3> QED BY <1>7, <2>1, <2>3, <3>1 DEF GivenAt, Sits
  <2>4. ASSUME NEW m \in Nodes, NEW e \in Ends, NEW i \in Nat, Sits(wire[m][e], i, id)
        PROVE  FALSE
    <3>1. wire[m][e][i] \in Held(outbox, wire)
      BY <2>4, OnWiresHas DEF Held, Sits
    <3> QED BY <1>7, <2>1, <2>4, <3>1 DEF GivenAt, Sits
  <2> QED BY <2>2, <2>3, <2>4 DEF Absent
<1>10. Len(<<env>>) = 1 /\ <<env>>[1] = env /\ \A k \in 1..1 : k = 1
  OBVIOUS
<1>11. Len(s) = 1
  BY <1>6, <1>10 DEF SentFor
<1>12. CASE refused = {} /\ outbox' = outbox
  <2>1. ASSUME NEW k \in 1..Len(s)
        PROVE  Like(s[k].env, env) /\ \A e, f \in s[k].to : e = f
    <3>1. k = 1 /\ k \notin refused /\ k \in 1..Len(<<env>>)
      BY <1>10, <1>11, <1>12
    <3> QED BY <1>6, <1>10, <3>1 DEF SentFor
  <2>2. \A k \in 1..Len(s) : Absent(outbox, wire, delivered, s[k].env.msg)
    BY <1>3, <1>9, <2>1 DEF Like
  <2>3. AloneAt(outbox, wire', delivered)
    BY <1>1, <1>6, <1>8, <1>11, <2>1, <2>2, AlonePasses
  <2> QED BY <1>4, <1>12, <2>3 DEF Alone
<1>13. CASE /\ refused = {1}
            /\ outbox' = [outbox EXCEPT ![n] = Append(outbox[n], env)]
  <2>1. AloneAt(outbox', wire, delivered)
    BY <1>1, <1>2, <1>3, <1>8, <1>9, <1>13, AloneQueues
  <2>2. ASSUME NEW k \in 1..Len(s) PROVE s[k].env.type # "msg"
    <3>1. k = 1 /\ k \in refused /\ k \in 1..Len(<<env>>)
      BY <1>10, <1>11, <1>13
    <3> QED BY <1>6, <3>1 DEF SentFor
  <2>3. AloneAt(outbox', wire', delivered)
    BY <1>1, <1>6, <1>11, <2>1, <2>2, AlonePasses
  <2> QED BY <1>4, <2>3 DEF Alone
<1> QED BY <1>6, <1>12, <1>13

\* Every message stays in one place.
LEMMA AloneStep ==
    ASSUME Typed, RoutesBegun, Given, Alone, [Next]_vars
    PROVE  Alone'
<1>1. CASE \E n \in Nodes, e \in Ends : Receive(n, e)
  BY <1>1, AloneReceives
<1>2. CASE \E n, m \in Nodes : Send(n, m)
  BY <1>2, AloneSends
<1>3. CASE \/ \E n, m \in Nodes : Discover(n, m)
           \/ \E n \in Nodes : FlushLoop(n)
           \/ \E n \in Nodes, e \in Ends : Register(n, e)
  BY <1>3, AloneLocal
<1>4. CASE \/ \E n \in Nodes, e \in Ends : Drop(n, e)
           \/ \E n \in Nodes : Restart(n)
  <2>1. outbox' = outbox /\ delivered' = delivered
    BY <1>4 DEF Drop, Restart, counters
  <2>2. ClearsAt(wire', wire)
    BY <1>4, Clearing
  <2>3. AloneAt(outbox, wire', delivered)
    BY <2>2, AloneClears DEF Alone
  <2> QED BY <2>1, <2>3 DEF Alone
<1>5. CASE \E l \in Links : Break(l)
  BY <1>5 DEF Break, nodeVars, Alone
<1>6. CASE UNCHANGED vars
  BY <1>6 DEF vars, Alone
<1> QED BY <1>1, <1>2, <1>3, <1>4, <1>5, <1>6 DEF Next

\* At first there is no message.
LEMMA AloneInit ==
    ASSUME Init
    PROVE  Alone
<1>1. /\ outbox = [n \in Nodes |-> <<>>] /\ wire = [n \in Nodes |-> [e \in Ends |-> <<>>]]
      /\ delivered = [n \in Nodes |-> <<>>]
  BY DEF Init
<1>2. Len(<<>>) = 0 /\ 1..0 = {}
  BY EmptySeq
<1>3. \A n \in Nodes : \A i, id : ~Sits(outbox[n], i, id)
  BY <1>1, <1>2 DEF Sits
<1>4. \A n \in Nodes : \A e \in Ends : \A i, id : ~Sits(wire[n][e], i, id)
  BY <1>1, <1>2 DEF Sits
<1>5. \A n \in Nodes : 1..Len(delivered[n]) = {}
  BY <1>1, <1>2
<1>6. OnceQueued(outbox) /\ QueuedOrOnWire(outbox, wire) /\ QueuedOrDelivered(outbox, delivered)
  BY <1>3 DEF OnceQueued, QueuedOrOnWire, QueuedOrDelivered
<1>7. OnceOnWires(wire) /\ OnWireOrDelivered(wire, delivered)
  BY <1>4 DEF OnceOnWires, OnWireOrDelivered
<1>8. OnceDelivered(delivered)
  BY <1>5 DEF OnceDelivered
<1> QED BY <1>6, <1>7, <1>8 DEF Alone, AloneAt

\* No message is delivered twice, whatever breaks and whoever restarts: a
\* message is in one queue, on one wire or delivered, and in one place only,
\* so neither a queue that outlives its node nor a node that forgot what it
\* has seen brings it a second time.
THEOREM OnceOnly == Spec => []DeliveredOnce
<1> DEFINE Inv == Typed /\ RoutesBegun /\ NeighborsAreDirect /\ Given /\ Alone
<1>1. Init => Inv
  BY SoundInit, NumberedInit, AloneInit
<1>2. Inv /\ [Next]_vars => Inv'
  BY SoundStep, GivenInductive, AloneStep
<1>3. ASSUME Typed, Alone PROVE DeliveredOnce
  <2> SUFFICES ASSUME NEW n \in Nodes, NEW i \in DOMAIN delivered[n],
                      NEW j \in DOMAIN delivered[n], delivered[n][i] = delivered[n][j]
               PROVE  i = j
    BY DEF DeliveredOnce
  <2>1. delivered[n] \in Seq(Nat)
    BY <1>3 DEF Typed
  <2>2. DOMAIN delivered[n] = 1..Len(delivered[n])
    BY <2>1, LenProperties
  <2>3. OnceDelivered(delivered)
    BY <1>3 DEF Alone, AloneAt
  <2> QED BY <2>2, <2>3 DEF OnceDelivered
<1> QED
  <2>1. Inv => DeliveredOnce
    BY <1>3
  <2> QED BY <1>1, <1>2, <2>1, PTL DEF Spec
-----------------------------------------------------------------------------
(***************************************************************************)
(* The way of a reply back to the node that asked.  It is the trail of the *)
(* request, read from the other end; both are followed frame by frame.     *)
(***************************************************************************)

\* While no link breaks and no node restarts, the pairs of a node and a
\* neighbor of it; then all pairs.
Paths ==
    IF breaks = 0 /\ restarts = 0
    THEN {p \in Nodes \X Nodes : p[2] \in Adjacent(p[1])}
    ELSE Nodes \X Nodes

\* No member is there twice.
Simple(s) == \A j, k \in 1..Len(s) : s[j] = s[k] => j = k

\* The nodes a request has been at and the one it goes to; the nodes a reply
\* goes to, from the one that hands it on.
Trail(e, request) == Append(request.route, e[2])
WayBack(n, e, reply) == <<n, e[2]>> \o reply.route

\* A request on the wire from n to the end e names every node it was at,
\* from its source to n, and every one has the one before as a neighbor.
Trails(A, n, e, request) ==
    LET trail == Trail(e, request)
    IN  /\ request.route # <<>>
        /\ trail[1] = request.src /\ trail[Len(trail) - 1] = n
        /\ Simple(trail)
        /\ Len(trail) + request.ttl <= DISCOVERY_TTL + 2
        /\ \A k \in 1..(Len(trail) - 2) : <<trail[k + 1], trail[k]>> \in A

\* What RepliesReturn says of a reply on the wire from n to the end e.
Returns(A, n, e, reply) ==
    LET way == WayBack(n, e, reply)
    IN  /\ way[Len(way)] = reply.dst
        /\ Len(way) <= reply.ttl + 2
        /\ Simple(way)
        /\ \A k \in 1..(Len(way) - 1) : <<way[k], way[k + 1]>> \in A

OnCourse(A, n, e, env) ==
    /\ env.type = "route_request" => Trails(A, n, e, env)
    /\ env.type = "route_reply" => Returns(A, n, e, env)

WiresOnCourse(A, w) ==
    \A n \in Nodes, e \in Ends : \A i \in 1..Len(w[n][e]) :
        OnCourse(A, n, e, w[n][e][i])

\* A neighbor is at the other end of a link there can be, and, while no link
\* breaks and no node restarts, of one that is up.
LinksKept ==
    \A n \in Nodes : \A e \in neighbors[n] :
        /\ Link(n, e) \in Links
        /\ breaks = 0 /\ restarts = 0 => Link(n, e) \in live

\* The members of a trail.
LEMMA TrailMembers ==
    ASSUME NEW e \in Ends, NEW env \in Envelope
    PROVE  /\ Trail(e, env) \in Seq(Nodes)
           /\ Len(env.route) \in Nat /\ DOMAIN env.route = 1..Len(env.route)
           /\ Len(Trail(e, env)) = Len(env.route) + 1
           /\ \A k \in 1..Len(env.route) : Trail(e, env)[k] = env.route[k]
           /\ Trail(e, env)[Len(env.route) + 1] = e[2]
           /\ env.route # <<>> => Len(env.route) >= 1
<1>1. env.route \in Seq(Nodes) /\ e[2] \in Nodes
  BY DEF Envelope, Ends
<1> QED BY <1>1, AppendProperties, LenProperties, EmptySeq DEF Trail

\* The members of a way back.
LEMMA WayBackMembers ==
    ASSUME NEW n \in Nodes, NEW e \in Ends, NEW env \in Envelope
    PROVE  /\ WayBack(n, e, env) \in Seq(Nodes)
           /\ Len(env.route) \in Nat
           /\ Len(WayBack(n, e, env)) = Len(env.route) + 2
           /\ WayBack(n, e, env)[1] = n /\ WayBack(n, e, env)[2] = e[2]
           /\ \A k \in 1..Len(env.route) : WayBack(n, e, env)[k + 2] = env.route[k]
<1> DEFINE first == <<n, e[2]>>
           path == env.route
           way == first \o path
<1>1. path \in Seq(Nodes) /\ e[2] \in Nodes
  BY DEF Envelope, Ends
<1>2. first \in Seq(Nodes) /\ Len(first) = 2 /\ first[1] = n /\ first[2] = e[2]
  BY <1>1
<1> HIDE DEF first, path
<1>3. Len(path) \in Nat
  BY <1>1, LenProperties
<1>4. /\ way \in Seq(Nodes) /\ Len(way) = 2 + Len(path)
      /\ \A i \in 1..(2 + Len(path)) : way[i] = IF i <= 2 THEN first[i] ELSE path[i - 2]
  <2>1. first \in Seq(Nodes) /\ path \in Seq(Nodes)
    BY <1>1, <1>2
  <2>2. /\ way \in Seq(Nodes) /\ Len(way) = Len(first) + Len(path)
        /\ \A i \in 1..(Len(first) + Len(path)) :
              way[i] = IF i <= Len(first) THEN first[i] ELSE path[i - Len(first)]
    BY <2>1, ConcatProperties
  <2> HIDE DEF way
  <2> QED BY <1>2, <2>2
<1> HIDE DEF way
<1>5. way[1] = n /\ way[2] = e[2]
  BY <1>2, <1>3, <1>4
<1>6. \A k \in 1..Len(path) : way[k + 2] = path[k]
  <2> TAKE k \in 1..Len(path)
  <2>1. k + 2 \in 1..(2 + Len(path)) /\ ~(k + 2 <= 2) /\ (k + 2) - 2 = k
    BY <1>3
  <2> QED BY <1>4, <2>1
<1>7. WayBack(n, e, env) = way /\ path = env.route
  BY DEF WayBack, way, first, path
<1> QED BY <1>3, <1>4, <1>5, <1>6, <1>7

\* A request that starts out leaves one trail.
LEMMA RequestTrails ==
    ASSUME NEW A, NEW n \in Nodes, NEW target \in Nodes, NEW number \in Nat,
           NEW e \in Ends, e[2] # n
    PROVE  Trails(A, n, e, Request(n, target, number))
<1> DEFINE request == Request(n, target, number)
           trail == Trail(e, request)
<1>1. request \in Envelope /\ request.route = <<n>> /\ request.src = n
      /\ request.ttl = DISCOVERY_TTL
  BY RequestType DEF Request
<1>2. Len(<<n>>) = 1 /\ <<n>>[1] = n /\ <<n>> # <<>>
  OBVIOUS
<1> HIDE DEF request
<1>3. Len(trail) = 2 /\ trail[1] = n /\ trail[2] = e[2]
  <2>1. Len(request.route) = 1 /\ request.route[1] = n
    BY <1>1, <1>2
  <2>2. /\ Len(trail) = Len(request.route) + 1
        /\ \A k \in 1..Len(request.route) : trail[k] = request.route[k]
        /\ trail[Len(request.route) + 1] = e[2]
    BY <1>1, TrailMembers
  <2> HIDE DEF trail
  <2>3. 1 \in 1..Len(request.route) /\ Len(request.route) + 1 = 2
    BY <2>1
  <2> QED BY <2>1, <2>2, <2>3
<1>4. DISCOVERY_TTL \in Nat
  BY RoutingAssumption
<1> HIDE DEF trail
<1>5. Simple(trail)
  BY <1>3 DEF Simple
<1>6. /\ trail[1] = request.src /\ trail[Len(trail) - 1] = n /\ request.route # <<>>
      /\ Len(trail) + request.ttl <= DISCOVERY_TTL + 2
      /\ \A k \in 1..(Len(trail) - 2) : <<trail[k + 1], trail[k]>> \in A
  BY <1>1, <1>2, <1>3, <1>4
<1> QED
  <2>1. Trails(A, n, e, request)
    BY <1>5, <1>6 DEF Trails, trail
  <2> QED BY <2>1 DEF request

\* A request that is flooded on leaves a longer one.
LEMMA FloodedTrails ==
    ASSUME NEW A, NEW n \in Nodes, NEW e \in Ends, NEW request \in Envelope,
           Trails(A, e[2], Back(n, e), request), request.ttl > 0,
           <<n, e[2]>> \in A,
           NEW f \in Ends, f[2] # n, f[2] # e[2],
           \A i \in DOMAIN request.route : f[2] # request.route[i],
           NEW flooded \in Envelope, flooded.src = request.src,
           flooded.route = Append(request.route, n),
           flooded.ttl = request.ttl - 1
    PROVE  Trails(A, n, f, flooded)
<1> DEFINE L == Len(request.route)
           old == Trail(Back(n, e), request)
           new == Trail(f, flooded)
<1>1. Back(n, e) \in Ends /\ Back(n, e)[2] = n
  BY DEF Back, Ends
<1>2. /\ L \in Nat /\ DOMAIN request.route = 1..L
      /\ Len(old) = L + 1 /\ old[L + 1] = n
      /\ \A k \in 1..L : old[k] = request.route[k]
      /\ request.route # <<>> => L >= 1
  BY <1>1, TrailMembers
<1>3. /\ request.route # <<>>
      /\ old[1] = request.src /\ old[Len(old) - 1] = e[2]
      /\ Simple(old)
      /\ Len(old) + request.ttl <= DISCOVERY_TTL + 2
      /\ \A k \in 1..(Len(old) - 2) : <<old[k + 1], old[k]>> \in A
  BY DEF Trails
<1>4. request.route \in Seq(Nodes) /\ request.ttl \in Nat /\ DISCOVERY_TTL \in Nat
  BY RoutingAssumption DEF Envelope
<1>5. Len(flooded.route) = L + 1
      /\ \A k \in 1..(L + 1) : flooded.route[k] = old[k]
  <2>1. /\ Len(Append(request.route, n)) = L + 1
        /\ \A k \in 1..L : Append(request.route, n)[k] = request.route[k]
        /\ Append(request.route, n)[L + 1] = n
    BY <1>4, AppendProperties
  <2> HIDE DEF L, old
  <2> QED BY <1>2, <2>1
<1>6. /\ Len(new) = L + 2 /\ new[L + 2] = f[2]
      /\ \A k \in 1..(L + 1) : new[k] = old[k]
  <2>1. /\ Len(new) = Len(flooded.route) + 1 /\ new[Len(flooded.route) + 1] = f[2]
        /\ \A k \in 1..Len(flooded.route) : new[k] = flooded.route[k]
    BY TrailMembers
  <2> HIDE DEF L, old, new
  <2>2. (L + 1) + 1 = L + 2
    BY <1>2
  <2> QED BY <1>5, <2>1, <2>2
<1>7. flooded.route # <<>>
  BY <1>2, <1>5, EmptySeq
<1>8. \A k \in 1..(L + 1) : old[k] # f[2]
  <2>1. \A k \in 1..L : request.route[k] # f[2]
    BY <1>2
  <2> HIDE DEF L, old
  <2> TAKE k \in 1..(L + 1)
  <2>2. CASE k = L + 1
    BY <1>2, <2>2
  <2>3. CASE k # L + 1
    <3>1. k \in 1..L
      BY <1>2, <2>3
    <3> QED BY <1>2, <2>1, <3>1
  <2> QED BY <2>2, <2>3
<1> HIDE DEF L, old, new
<1>9. Simple(new)
  <2> SUFFICES ASSUME NEW j \in 1..(L + 2), NEW k \in 1..(L + 2), new[j] = new[k]
               PROVE  j = k
    BY <1>6 DEF Simple
  <2>1. CASE j \in 1..(L + 1) /\ k \in 1..(L + 1)
    BY <1>2, <1>3, <1>6, <2>1 DEF Simple
  <2>2. CASE j = L + 2 /\ k \in 1..(L + 1)
    BY <1>6, <1>8, <2>2
  <2>3. CASE k = L + 2 /\ j \in 1..(L + 1)
    BY <1>6, <1>8, <2>3
  <2> QED BY <1>2, <2>1, <2>2, <2>3
<1>10. new[1] = flooded.src /\ new[Len(new) - 1] = n
  <2>1. 1 \in 1..(L + 1) /\ L + 1 \in 1..(L + 1) /\ Len(new) - 1 = L + 1
    BY <1>2, <1>6
  <2> QED BY <1>2, <1>3, <1>6, <2>1
<1>11. Len(new) + flooded.ttl <= DISCOVERY_TTL + 2
  BY <1>2, <1>3, <1>4, <1>6
<1>12. \A k \in 1..(Len(new) - 2) : <<new[k + 1], new[k]>> \in A
  <2> TAKE k \in 1..(Len(new) - 2)
  <2>1. k \in 1..L /\ k + 1 \in 1..(L + 1) /\ k \in 1..(L + 1)
    BY <1>2, <1>6
  <2>2. new[k] = old[k] /\ new[k + 1] = old[k + 1]
    BY <1>6, <2>1
  <2>3. CASE k = L
    <3>1. old[k + 1] = n /\ old[k] = e[2]
      BY <1>2, <1>3, <2>3
    <3> QED BY <2>2, <3>1
  <2>4. CASE k # L
    <3>1. k \in 1..(Len(old) - 2)
      BY <1>2, <2>1, <2>4
    <3> QED BY <1>3, <2>2, <3>1
  <2> QED BY <2>3, <2>4
<1> QED BY <1>7, <1>9, <1>10, <1>11, <1>12 DEF Trails, new

\* The reply goes back along the trail.
LEMMA ReplyReturns ==
    ASSUME NEW A, NEW n \in Nodes, NEW e \in Ends, NEW request \in Envelope,
           Trails(A, e[2], Back(n, e), request),
           NEW f \in Ends, f[2] = e[2], <<n, e[2]>> \in A,
           request.ttl > 0, NEW distance \in Nat, NEW number \in Nat
    PROVE  Returns(A, n, f, Reply(n, request, distance, number))
<1> DEFINE L == Len(request.route)
           trail == Trail(Back(n, e), request)
           reply == Reply(n, request, distance, number)
           way == WayBack(n, f, reply)
<1>1. Back(n, e) \in Ends /\ Back(n, e)[2] = n
  BY DEF Back, Ends
<1>2. /\ L \in Nat /\ DOMAIN request.route = 1..L
      /\ Len(trail) = L + 1 /\ trail[L + 1] = n
      /\ \A k \in 1..L : trail[k] = request.route[k]
      /\ request.route # <<>> => L >= 1
  BY <1>1, TrailMembers
<1>3. /\ request.route # <<>>
      /\ trail[1] = request.src /\ trail[Len(trail) - 1] = e[2]
      /\ Simple(trail)
      /\ Len(trail) + request.ttl <= DISCOVERY_TTL + 2
      /\ \A k \in 1..(Len(trail) - 2) : <<trail[k + 1], trail[k]>> \in A
  BY DEF Trails
<1>4. request.route \in Seq(Nodes) /\ request.ttl \in Nat /\ DISCOVERY_TTL \in Nat
  BY RoutingAssumption DEF Envelope
<1>5. /\ reply \in Envelope /\ reply.dst = request.src /\ reply.ttl = DISCOVERY_TTL
      /\ reply.route = Tail(Reversed(request.route))
  BY <1>3, ReplyType DEF Reply
<1>6. /\ Len(reply.route) = L - 1
      /\ \A k \in 1..(L - 1) : reply.route[k] = trail[L - k]
  <2> DEFINE rev == Reversed(request.route)
  <2>1. rev = [i \in 1..L |-> request.route[L - i + 1]]
    BY <1>2 DEF Reversed
  <2> HIDE DEF rev
  <2>2. \A i \in 1..L : request.route[L - i + 1] \in Nodes
    <3> TAKE i \in 1..L
    <3>1. L - i + 1 \in 1..L
      BY <1>2
    <3> QED BY <1>4, <3>1, ElementOfSeq
  <2>3. rev \in [1..L -> Nodes] /\ \A i \in 1..L : rev[i] = request.route[L - i + 1]
    BY <2>1, <2>2
  <2>4. rev \in Seq(Nodes) /\ Len(rev) = L
    <3> HIDE DEF L, trail, reply
    <3> QED BY <1>2, <2>3, IsASeq, LenProperties
  <2>5. rev # <<>>
    BY <1>2, <1>3, <2>4, EmptySeq
  <2>6. /\ Len(Tail(rev)) = L - 1
        /\ \A k \in 1..(L - 1) : Tail(rev)[k] = rev[k + 1]
    BY <2>4, <2>5, HeadTailProperties
  <2>7. \A k \in 1..(L - 1) : Tail(rev)[k] = trail[L - k]
    <3> TAKE k \in 1..(L - 1)
    <3>1. k + 1 \in 1..L /\ L - (k + 1) + 1 = L - k /\ L - k \in 1..L
      BY <1>2
    <3>2. Tail(rev)[k] = request.route[L - k]
      BY <2>3, <2>6, <3>1
    <3> QED BY <1>2, <3>1, <3>2
  <2>8. reply.route = Tail(rev)
    BY <1>5 DEF rev
  <2> HIDE DEF L, trail, reply
  <2> QED BY <2>6, <2>7, <2>8
<1> HIDE DEF L, trail, reply
<1>7. /\ Len(way) = Len(reply.route) + 2 /\ way[1] = n /\ way[2] = f[2]
      /\ \A k \in 1..Len(reply.route) : way[k + 2] = reply.route[k]
  <2>1. reply \in Envelope
    BY <1>5
  <2> QED BY <2>1, WayBackMembers
<1> HIDE DEF way
<1>8. Len(way) = L + 1 /\ \A k \in 1..(L + 1) : way[k] = trail[L + 2 - k]
  <2>1. L >= 1 /\ Len(way) = L + 1
    BY <1>2, <1>3, <1>6, <1>7
  <2> SUFFICES ASSUME NEW k \in 1..(L + 1) PROVE way[k] = trail[L + 2 - k]
    BY <2>1
  <2>2. CASE k = 1
    <3>1. L + 2 - k = L + 1
      BY <1>2, <2>2
    <3> QED BY <1>2, <1>7, <2>2, <3>1
  <2>3. CASE k = 2
    <3>1. L + 2 - k = Len(trail) - 1
      BY <1>2, <2>3
    <3> QED BY <1>3, <1>7, <2>3, <3>1
  <2>4. CASE k > 2
    <3>1. k - 2 \in 1..(L - 1) /\ (k - 2) + 2 = k /\ L - (k - 2) = L + 2 - k
      BY <1>2, <2>4
    <3>2. way[(k - 2) + 2] = reply.route[k - 2]
      BY <1>6, <1>7, <3>1
    <3> QED BY <1>6, <3>1, <3>2
  <2> QED BY <1>2, <2>2, <2>3, <2>4
<1>9. way[Len(way)] = reply.dst
  <2>1. L + 1 \in 1..(L + 1) /\ L + 2 - (L + 1) = 1
    BY <1>2
  <2> QED BY <1>3, <1>5, <1>8, <2>1
<1>10. Len(way) <= reply.ttl + 2
  BY <1>2, <1>3, <1>4, <1>5, <1>8
<1>11. Simple(way)
  <2> SUFFICES ASSUME NEW j \in 1..(L + 1), NEW k \in 1..(L + 1), way[j] = way[k]
               PROVE  j = k
    BY <1>8 DEF Simple
  <2>1. L + 2 - j \in 1..Len(trail) /\ L + 2 - k \in 1..Len(trail)
    BY <1>2
  <2>2. trail[L + 2 - j] = trail[L + 2 - k]
    BY <1>8
  <2>3. L + 2 - j = L + 2 - k
    BY <1>3, <2>1, <2>2 DEF Simple
  <2> QED BY <1>2, <2>3
<1>12. \A k \in 1..(Len(way) - 1) : <<way[k], way[k + 1]>> \in A
  <2> TAKE k \in 1..(Len(way) - 1)
  <2>1. k \in 1..L /\ k \in 1..(L + 1) /\ k + 1 \in 1..(L + 1)
    BY <1>2, <1>8
  <2>2. way[k] = trail[L + 2 - k] /\ way[k + 1] = trail[L + 2 - (k + 1)]
    BY <1>8, <2>1
  <2>3. CASE k = 1
    BY <1>7, <2>3
  <2>4. CASE k # 1
    <3> DEFINE j == L + 1 - k
    <3>1. j \in 1..(Len(trail) - 2) /\ L + 2 - k = j + 1 /\ L + 2 - (k + 1) = j
      BY <1>2, <2>1, <2>4
    <3>2. <<trail[j + 1], trail[j]>> \in A
      BY <1>3, <3>1
    <3> QED BY <2>2, <3>1, <3>2
  <2> QED BY <2>3, <2>4
<1> QED
  <2>1. Returns(A, n, f, reply)
    BY <1>9, <1>10, <1>11, <1>12 DEF Returns, way
  <2> QED BY <2>1 DEF reply

\* A reply that is handed on has one node less to visit.
LEMMA OnwardReturns ==
    ASSUME NEW A, NEW n \in Nodes, NEW e \in Ends, NEW reply \in Envelope,
           Returns(A, e[2], Back(n, e), reply), reply.dst # n,
           NEW f \in Ends, reply.route # <<>> => f[2] = Head(reply.route),
           reply.ttl > 0
    PROVE  Returns(A, n, f, Onward(reply))
<1> DEFINE L == Len(reply.route)
           old == WayBack(e[2], Back(n, e), reply)
           new == WayBack(n, f, Onward(reply))
<1>1. Back(n, e) \in Ends /\ Back(n, e)[2] = n /\ e[2] \in Nodes
  BY DEF Back, Ends
<1>2. /\ L \in Nat /\ Len(old) = L + 2 /\ old[1] = e[2] /\ old[2] = n
      /\ \A k \in 1..L : old[k + 2] = reply.route[k]
  <2>1. /\ Len(reply.route) \in Nat /\ Len(old) = Len(reply.route) + 2
        /\ old[1] = e[2] /\ old[2] = Back(n, e)[2]
        /\ \A k \in 1..Len(reply.route) : old[k + 2] = reply.route[k]
    BY <1>1, WayBackMembers, SMTT(60)
  <2> QED BY <1>1, <2>1
<1>3. /\ old[Len(old)] = reply.dst /\ Len(old) <= reply.ttl + 2 /\ Simple(old)
      /\ \A k \in 1..(Len(old) - 1) : <<old[k], old[k + 1]>> \in A
  BY DEF Returns
<1>4. reply.route \in Seq(Nodes) /\ reply.ttl \in Nat
  BY DEF Envelope
<1>5. L >= 1 /\ reply.route # <<>>
  <2>1. L # 0
    BY <1>2, <1>3
  <2>2. Len(<<>>) = 0
    BY EmptySeq
  <2> QED BY <1>2, <2>1, <2>2
<1>6. Onward(reply) = [reply EXCEPT !.ttl = reply.ttl - 1, !.route = Tail(reply.route)]
  BY <1>5 DEF Onward
<1>7. /\ Tail(reply.route) \in Seq(Nodes) /\ Len(Tail(reply.route)) = L - 1
      /\ \A k \in 1..(L - 1) : Tail(reply.route)[k] = reply.route[k + 1]
      /\ Head(reply.route) = reply.route[1]
  BY <1>4, <1>5, HeadTailProperties
<1>8. /\ Onward(reply) \in Envelope /\ Onward(reply).route = Tail(reply.route)
      /\ Onward(reply).ttl = reply.ttl - 1 /\ Onward(reply).dst = reply.dst
  BY <1>6, OnwardType DEF Envelope
<1>9. /\ Len(new) = Len(Onward(reply).route) + 2 /\ new[1] = n /\ new[2] = f[2]
      /\ \A k \in 1..Len(Onward(reply).route) : new[k + 2] = Onward(reply).route[k]
  <2>1. Onward(reply) \in Envelope
    BY <1>8
  <2> QED BY <2>1, WayBackMembers
<1> HIDE DEF L, old, new
<1>10. Len(new) = L + 1 /\ \A k \in 1..(L + 1) : new[k] = old[k + 1]
  <2>1. Len(new) = L + 1
    BY <1>2, <1>7, <1>8, <1>9
  <2> SUFFICES ASSUME NEW k \in 1..(L + 1) PROVE new[k] = old[k + 1]
    BY <2>1
  <2>2. CASE k = 1
    BY <1>2, <1>9, <2>2
  <2>3. CASE k = 2
    <3>1. 1 \in 1..L /\ f[2] = reply.route[1] /\ k + 1 = 1 + 2
      BY <1>2, <1>5, <1>7, <2>3
    <3> QED BY <1>2, <1>9, <2>3, <3>1
  <2>4. CASE k > 2
    <3>1. k - 2 \in 1..(L - 1) /\ (k - 2) + 2 = k /\ (k - 2) + 1 \in 1..L
          /\ ((k - 2) + 1) + 2 = k + 1
      BY <1>2, <2>4
    <3>2. new[(k - 2) + 2] = reply.route[(k - 2) + 1]
      BY <1>7, <1>8, <1>9, <3>1
    <3>3. old[((k - 2) + 1) + 2] = reply.route[(k - 2) + 1]
      BY <1>2, <3>1
    <3> QED BY <3>1, <3>2, <3>3
  <2> QED BY <1>2, <2>2, <2>3, <2>4
<1>11. new[Len(new)] = Onward(reply).dst
  <2>1. L + 1 \in 1..(L + 1) /\ (L + 1) + 1 = Len(old)
    BY <1>2
  <2> QED BY <1>3, <1>8, <1>10, <2>1
<1>12. Len(new) <= Onward(reply).ttl + 2
  BY <1>2, <1>3, <1>4, <1>8, <1>10
<1>13. Simple(new)
  <2> SUFFICES ASSUME NEW j \in 1..(L + 1), NEW k \in 1..(L + 1), new[j] = new[k]
               PROVE  j = k
    BY <1>10 DEF Simple
  <2>1. j + 1 \in 1..Len(old) /\ k + 1 \in 1..Len(old) /\ old[j + 1] = old[k + 1]
    BY <1>2, <1>10
  <2>2. j + 1 = k + 1
    BY <1>3, <2>1 DEF Simple
  <2> QED BY <1>2, <2>2
<1>14. \A k \in 1..(Len(new) - 1) : <<new[k], new[k + 1]>> \in A
  <2> TAKE k \in 1..(Len(new) - 1)
  <2>1. k \in 1..(L + 1) /\ k + 1 \in 1..(L + 1) /\ k + 1 \in 1..(Len(old) - 1)
    BY <1>2, <1>10
  <2>2. new[k] = old[k + 1] /\ new[k + 1] = old[(k + 1) + 1]
    BY <1>10, <2>1
  <2> QED BY <1>3, <2>1, <2>2
<1> QED BY <1>11, <1>12, <1>13, <1>14 DEF Returns, new

\* More pairs do no harm.
LEMMA WidePaths ==
    ASSUME NEW A, NEW B, A \subseteq B, NEW w, WiresOnCourse(A, w)
    PROVE  WiresOnCourse(B, w)
<1> SUFFICES ASSUME NEW n \in Nodes, NEW e \in Ends, NEW i \in 1..Len(w[n][e])
             PROVE  OnCourse(B, n, e, w[n][e][i])
  BY DEF WiresOnCourse
<1>1. OnCourse(A, n, e, w[n][e][i])
  BY DEF WiresOnCourse
<1> QED BY <1>1 DEF OnCourse, Trails, Returns

\* Reading a frame leaves the others on course, and so does a cleared wire.
LEMMA StillOnCourse ==
    ASSUME NEW A, NEW new, NEW w \in Wires, WiresOnCourse(A, w),
           ClearsAt(new, w) \/ \E m \in Nodes, f \in Ends : ConsumesAt(new, w, m, f)
    PROVE  WiresOnCourse(A, new)
<1> SUFFICES ASSUME NEW n \in Nodes, NEW e \in Ends, NEW i \in 1..Len(new[n][e])
             PROVE  OnCourse(A, n, e, new[n][e][i])
  BY DEF WiresOnCourse
<1>1. \A j \in 1..Len(w[n][e]) : OnCourse(A, n, e, w[n][e][j])
  BY DEF WiresOnCourse
<1>2. Len(w[n][e]) \in Nat
  BY LenProperties DEF Wires
<1>3. CASE ClearsAt(new, w)
  <2>1. new[n][e] = <<>> \/ new[n][e] = w[n][e]
    BY <1>3 DEF ClearsAt
  <2>2. Len(<<>>) = 0 /\ 1..0 = {}
    BY EmptySeq
  <2> QED BY <1>1, <2>1, <2>2
<1>4. ASSUME NEW m \in Nodes, NEW f \in Ends, ConsumesAt(new, w, m, f)
      PROVE  OnCourse(A, n, e, new[n][e][i])
  <2>1. CASE n # m \/ e # f
    <3>1. new[n][e] = w[n][e]
      BY <1>4, <2>1 DEF ConsumesAt
    <3> QED BY <1>1, <3>1
  <2>2. CASE n = m /\ e = f
    <3>1. Len(new[n][e]) = Len(w[n][e]) - 1 /\ new[n][e][i] = w[n][e][i + 1]
      BY <1>4, <2>2 DEF ConsumesAt
    <3>2. i + 1 \in 1..Len(w[n][e])
      BY <1>2, <3>1
    <3> QED BY <1>1, <3>1, <3>2
  <2> QED BY <2>1, <2>2
<1> QED BY <1>3, <1>4

\* So do frames that are on course.
LEMMA EmitOnCourse ==
    ASSUME NEW A, NEW new, NEW w \in Wires, WiresOnCourse(A, w), NEW n \in Nodes, NEW s,
           EmitsAt(new, w, n, s),
           \A i \in 1..Len(s) : \A e \in s[i].to : OnCourse(A, n, e, s[i].env)
    PROVE  WiresOnCourse(A, new)
<1> SUFFICES ASSUME NEW m \in Nodes, NEW e \in Ends, NEW i \in 1..Len(new[m][e])
             PROVE  OnCourse(A, m, e, new[m][e][i])
  BY DEF WiresOnCourse
<1>1. \A j \in 1..Len(w[m][e]) : OnCourse(A, m, e, w[m][e][j])
  BY DEF WiresOnCourse
<1>2. Len(w[m][e]) \in Nat
  BY LenProperties DEF Wires
<1>3. CASE m # n
  <2>1. new[m] = w[m]
    BY <1>3 DEF EmitsAt
  <2> QED BY <1>1, <2>1
<1>4. CASE m = n
  <2>1. Added(new[m][e], w[m][e], e, s)
    BY <1>4 DEF EmitsAt
  <2>2. PICK k \in Nat : \E place \in [1..k -> 1..Len(s)] :
            /\ Len(new[m][e]) = Len(w[m][e]) + k
            /\ \A j \in 1..Len(w[m][e]) : new[m][e][j] = w[m][e][j]
            /\ \A j \in 1..k : /\ e \in s[place[j]].to
                               /\ new[m][e][Len(w[m][e]) + j] = s[place[j]].env
    BY <2>1 DEF Added
  <2>3. PICK place \in [1..k -> 1..Len(s)] :
            /\ Len(new[m][e]) = Len(w[m][e]) + k
            /\ \A j \in 1..Len(w[m][e]) : new[m][e][j] = w[m][e][j]
            /\ \A j \in 1..k : /\ e \in s[place[j]].to
                               /\ new[m][e][Len(w[m][e]) + j] = s[place[j]].env
    BY <2>2
  <2>4. CASE i <= Len(w[m][e])
    <3>1. i \in 1..Len(w[m][e])
      BY <1>2, <2>4
    <3> QED BY <1>1, <2>3, <3>1
  <2>5. CASE ~(i <= Len(w[m][e]))
    <3> DEFINE j == i - Len(w[m][e])
    <3>1. j \in 1..k /\ i = Len(w[m][e]) + j
      BY <1>2, <2>5, <2>3
    <3>2. place[j] \in 1..Len(s) /\ e \in s[place[j]].to /\ new[m][e][i] = s[place[j]].env
      BY <2>3, <3>1
    <3> QED BY <1>4, <3>2
  <2> QED BY <2>4, <2>5
<1> QED BY <1>3, <1>4

\* One frame that is sent.
LEMMA OneOnCourse ==
    ASSUME NEW A, NEW w \in Wires, WiresOnCourse(A, w), NEW n \in Nodes,
           NEW env \in Envelope, NEW to \in SUBSET Ends,
           Emit(w, n, <<Sending(env, to)>>), \A e \in to : OnCourse(A, n, e, env)
    PROVE  WiresOnCourse(A, wire')
<1> DEFINE s == <<Sending(env, to)>>
<1>1. s \in Seq(Sendings) /\ \A i \in 1..Len(s) : s[i].env = env /\ s[i].to = to
  BY DEF Sending, Sendings
<1>2. Emit(w, n, s)
  OBVIOUS
<1> HIDE DEF s
<1>3. EmitsAt(wire', w, n, s)
  BY <1>1, <1>2, EmitWires
<1> QED BY <1>1, <1>3, EmitOnCourse

\* Router.send of messages: messages, and requests that start out.
LEMMA SendAllOnCourse ==
    ASSUME NEW A, NEW w \in Wires, WiresOnCourse(A, w), NEW n \in Nodes, NEW t,
           NEW near \in SUBSET Ends, \A e \in near : e[2] # n,
           NEW queue \in Seq(Envelope), NEW last \in Nat,
           \A i \in 1..Len(queue) : queue[i].type = "msg",
           Emit(w, n, SendAll(n, t, near, queue, last))
    PROVE  WiresOnCourse(A, wire')
<1> DEFINE s == SendAll(n, t, near, queue, last)
           refused == Refused(t, near, queue)
<1>1. Len(queue) \in Nat /\ DOMAIN queue = 1..Len(queue)
  BY LenProperties
<1>2. SentFor(s, n, queue, refused, last)
  BY SendAllType
<1>3. /\ s \in Seq(Sendings) /\ Len(s) = Len(queue)
      /\ \A i \in 1..Len(s) : s[i].env \in Envelope
  <2> HIDE DEF s, refused
  <2>1. s \in Seq(Sendings) /\ Len(s) = Len(queue)
    BY <1>2 DEF SentFor
  <2>2. \A i \in 1..Len(s) : s[i] \in Sendings
    BY <2>1, ElementOfSeq
  <2> QED BY <2>1, <2>2 DEF Sendings
<1>4. ASSUME NEW i \in 1..Len(queue), NEW e \in s[i].to
      PROVE  OnCourse(A, n, e, s[i].env)
  <2>1. queue[i] \in Envelope /\ queue[i].type = "msg"
    BY ElementOfSeq
  <2>2. CASE Accepted(t, near, queue[i])
    <3>1. s[i].env = Onward(queue[i])
      BY <1>1, <2>2 DEF SendAll, Sending
    <3>2. Onward(queue[i]).type = "msg"
      BY <2>1, <2>2, OnwardType DEF Accepted, CanForward, Like
    <3> QED BY <3>1, <3>2 DEF OnCourse
  <2>3. CASE ~Accepted(t, near, queue[i])
    <3> DEFINE number == last + RefusedUpTo(t, near, queue, i)
    <3>1. s[i].env = Request(n, queue[i].dst, number) /\ s[i].to = near
      BY <1>1, <2>3 DEF SendAll, Sending
    <3>2. s[i].env \in Envelope
      BY <1>3
    <3>3. s[i].env.seq = number /\ s[i].env.dst = queue[i].dst
      BY <3>1 DEF Request
    <3>4. number \in Nat /\ queue[i].dst \in Nodes /\ e \in Ends /\ e[2] # n
      BY <3>1, <3>2, <3>3 DEF Envelope
    <3> HIDE DEF number, s
    <3>5. Trails(A, n, e, s[i].env)
      BY <3>1, <3>4, RequestTrails
    <3>6. s[i].env.type = "route_request"
      BY <3>1 DEF Request
    <3> QED BY <3>5, <3>6 DEF OnCourse
  <2> QED BY <2>2, <2>3
<1> HIDE DEF s, refused
<1>5. Emit(w, n, s)
  BY DEF s
<1>6. EmitsAt(wire', w, n, s)
  BY <1>3, <1>5, EmitWires
<1> QED BY <1>3, <1>4, <1>6, EmitOnCourse

\* flush_queued.
LEMMA FlushOnCourse ==
    ASSUME Typed, RoutesBegun, NEW A, NEW w \in Wires, WiresOnCourse(A, w),
           NEW n \in Nodes, NEW t, NEW near \in SUBSET Ends, \A e \in near : e[2] # n,
           FlushQueued(w, n, t, near)
    PROVE  WiresOnCourse(A, wire')
<1>1. outbox[n] \in Seq(Envelope) /\ seq[n] \in Nat
  BY DEF Typed
<1>2. \A i \in 1..Len(outbox[n]) : outbox[n][i].type = "msg"
  BY InQueuesHas DEF RoutesBegun
<1>3. Emit(w, n, SendAll(n, t, near, outbox[n], seq[n]))
  BY DEF FlushQueued
<1> QED BY <1>1, <1>2, <1>3, SendAllOnCourse

\* A link is between two nodes.
LEMMA TwoEnds ==
    ASSUME NEW n, NEW e, Link(n, e) \in Links
    PROVE  e[2] # n
<1>1. Cardinality({n, e[2]}) = 2
  BY RoutingAssumption DEF Link
<1>2. Cardinality({n}) = 1
  BY FS_Singleton
<1>3. n = e[2] => {n, e[2]} = {n}
  OBVIOUS
<1> QED BY <1>1, <1>2, <1>3

\* What a node answers to a request, or floods, is on course.
LEMMA RequestOnCourse ==
    ASSUME Typed, RoutesBegun, LinksKept, WiresOnCourse(Paths, wire),
           NEW n \in Nodes, NEW e \in Ends, HandleRouteRequest(n, e)
    PROVE  WiresOnCourse(Paths, wire')
<1> DEFINE request == Head(Incoming(n, e))
           answers == request.dst = n \/ Known(table[n], request.dst)
           distance == IF request.dst = n THEN 0 ELSE table[n][request.dst].hops
           visited == {request.route[i] : i \in DOMAIN request.route}
           flooded == [request EXCEPT !.route = Append(@, n), !.ttl = @ - 1]
           reply == Reply(n, request, distance, seq[n] + 1)
           on == {f \in neighbors[n] : f[2] \notin visited \cup {e[2]}}
<1>1. /\ Incoming(n, e) # <<>> /\ request.type = "route_request"
      /\ e \in neighbors[n]
  BY DEF HandleRouteRequest, Receives, Reads
<1>2. /\ request \in Envelope /\ Begun(request)
      /\ Consumed(n, e) \in Wires /\ ConsumesAt(Consumed(n, e), wire, e[2], Back(n, e))
      /\ neighbors[n] \in SUBSET Ends /\ seq[n] \in Nat /\ IsTable(table[n])
      /\ e[2] \in Nodes /\ Back(n, e) \in Ends /\ wire \in Wires
  BY <1>1, HeadType DEF Typed
<1>3. request.route \in Seq(Nodes) /\ request.route # <<>> /\ request.ttl \in Nat
  BY <1>1, <1>2 DEF Envelope, Begun
<1>4. Trails(Paths, e[2], Back(n, e), request)
  <2>1. /\ request = wire[e[2]][Back(n, e)][1]
        /\ Len(wire[e[2]][Back(n, e)]) \in Nat \ {0}
    BY <1>1, <1>2, ConsumedWires
  <2>2. 1 \in 1..Len(wire[e[2]][Back(n, e)])
    BY <2>1
  <2>3. OnCourse(Paths, e[2], Back(n, e), wire[e[2]][Back(n, e)][1])
    BY <1>2, <2>2 DEF WiresOnCourse
  <2> QED BY <1>1, <2>1, <2>3 DEF OnCourse
<1>5. WiresOnCourse(Paths, Consumed(n, e))
  BY <1>2, StillOnCourse
<1>6. <<n, e[2]>> \in Paths
  BY <1>1, <1>2 DEF Paths, Adjacent
<1>7. \A f \in neighbors[n] : f[2] # n
  BY TwoEnds DEF LinksKept
<1>8. \/ /\ request.ttl > 0 /\ answers
         /\ Emit(Consumed(n, e), n, <<Sending(reply, Way(neighbors[n], e[2]))>>)
      \/ request.ttl > 0 /\ Emit(Consumed(n, e), n, <<Sending(flooded, on)>>)
      \/ wire' = Consumed(n, e)
  BY DEF HandleRouteRequest
<1>9. CASE /\ request.ttl > 0 /\ answers
           /\ Emit(Consumed(n, e), n, <<Sending(reply, Way(neighbors[n], e[2]))>>)
  <2>1. distance \in Nat /\ seq[n] + 1 \in Nat
    BY <1>2, <1>9 DEF Known, IsTable, Entry
  <2> HIDE DEF distance
  <2>2. reply \in Envelope /\ reply.type = "route_reply"
    BY <1>2, <1>3, <2>1, ReplyType DEF Reply
  <2>3. /\ Way(neighbors[n], e[2]) \in SUBSET Ends
        /\ \A f \in Way(neighbors[n], e[2]) : f[2] = e[2]
    BY <1>2, WayFacts
  <2> HIDE DEF request
  <2>4. \A f \in Way(neighbors[n], e[2]) : Returns(Paths, n, f, reply)
    BY <1>2, <1>4, <1>6, <1>9, <2>1, <2>3, ReplyReturns
  <2> HIDE DEF reply
  <2>5. \A f \in Way(neighbors[n], e[2]) : OnCourse(Paths, n, f, reply)
    BY <2>2, <2>4 DEF OnCourse
  <2> QED BY <1>2, <1>5, <1>9, <2>2, <2>3, <2>5, OneOnCourse
<1>10. CASE request.ttl > 0 /\ Emit(Consumed(n, e), n, <<Sending(flooded, on)>>)
  <2>1. Append(request.route, n) \in Seq(Nodes) /\ request.ttl - 1 \in Nat
    BY <1>3, <1>10, AppendProperties
  <2>2. flooded = [request EXCEPT !.route = Append(request.route, n), !.ttl = request.ttl - 1]
    OBVIOUS
  <2> HIDE DEF flooded, request
  <2>3. /\ flooded \in Envelope /\ flooded.type = "route_request"
        /\ flooded.src = request.src /\ flooded.route = Append(request.route, n)
        /\ flooded.ttl = request.ttl - 1
    BY <1>1, <1>2, <2>1, <2>2 DEF Envelope
  <2>4. ASSUME NEW f \in on PROVE OnCourse(Paths, n, f, flooded)
    <3>1. /\ f \in Ends /\ f[2] # n /\ f[2] # e[2]
          /\ \A i \in DOMAIN request.route : f[2] # request.route[i]
      BY <1>2, <1>7
    <3>2. Trails(Paths, n, f, flooded)
      BY <1>2, <1>4, <1>6, <1>10, <2>3, <3>1, FloodedTrails
    <3> QED BY <2>3, <3>2 DEF OnCourse
  <2>5. on \in SUBSET Ends
    BY <1>2
  <2> HIDE DEF on
  <2> QED BY <1>2, <1>5, <1>10, <2>3, <2>4, <2>5, OneOnCourse
<1>11. CASE wire' = Consumed(n, e)
  BY <1>5, <1>11
<1> QED BY <1>8, <1>9, <1>10, <1>11

\* What is forwarded, a reply or a message, is on course.
LEMMA ForwardOnCourse ==
    ASSUME Typed, RoutesBegun, LinksKept, WiresOnCourse(Paths, wire),
           NEW n \in Nodes, NEW e \in Ends, ForwardRouteReply(n, e) \/ Relay(n, e)
    PROVE  WiresOnCourse(Paths, wire')
<1> DEFINE env == Head(Incoming(n, e))
           hop == NextHop(table[n], env)
           way == Way(neighbors[n], hop)
<1>1. /\ Incoming(n, e) # <<>> /\ env.type \in {"route_reply", "msg"} /\ env.dst # n
      /\ Emit(Consumed(n, e), n, Forwarding(table[n], neighbors[n], env))
  BY DEF ForwardRouteReply, Relay, Receives, Reads
<1>2. /\ env \in Envelope /\ neighbors[n] \in SUBSET Ends /\ wire \in Wires
      /\ Consumed(n, e) \in Wires /\ ConsumesAt(Consumed(n, e), wire, e[2], Back(n, e))
      /\ e[2] \in Nodes /\ Back(n, e) \in Ends
  BY <1>1, HeadType DEF Typed
<1>3. OnCourse(Paths, e[2], Back(n, e), env)
  <2>1. /\ env = wire[e[2]][Back(n, e)][1]
        /\ Len(wire[e[2]][Back(n, e)]) \in Nat \ {0}
    BY <1>1, <1>2, ConsumedWires
  <2>2. 1 \in 1..Len(wire[e[2]][Back(n, e)])
    BY <2>1
  <2> QED BY <1>2, <2>1, <2>2 DEF WiresOnCourse
<1>4. WiresOnCourse(Paths, Consumed(n, e))
  BY <1>2, StillOnCourse
<1>5. way \in SUBSET Ends /\ \A f \in way : f[2] = hop
  BY <1>2, WayFacts
<1> HIDE DEF env
<1>6. CASE CanForward(table[n], env)
  <2>1. env.ttl > 0
    BY <1>6 DEF CanForward
  <2>2. Onward(env) \in Envelope /\ Onward(env).type = env.type
    BY <1>2, <2>1, OnwardType DEF Like
  <2>3. Emit(Consumed(n, e), n, <<Sending(Onward(env), way)>>)
    BY <1>1, <1>6 DEF Forwarding
  <2>4. env.route # <<>> => hop = Head(env.route)
    BY DEF NextHop
  <2> HIDE DEF way, hop
  <2>5. ASSUME NEW f \in way PROVE OnCourse(Paths, n, f, Onward(env))
    <3>1. CASE env.type = "msg"
      BY <2>2, <3>1 DEF OnCourse
    <3>2. CASE env.type = "route_reply"
      <4>1. Returns(Paths, e[2], Back(n, e), env)
        BY <1>3, <3>2 DEF OnCourse
      <4>2. Returns(Paths, n, f, Onward(env))
        BY <1>1, <1>2, <1>5, <2>1, <2>4, <4>1, OnwardReturns
      <4> QED BY <2>2, <3>2, <4>2 DEF OnCourse
    <3> QED BY <1>1, <3>1, <3>2
  <2> QED BY <1>2, <1>4, <1>5, <2>2, <2>3, <2>5, OneOnCourse
<1>7. CASE ~CanForward(table[n], env)
  <2>1. Emit(Consumed(n, e), n, <<>>)
    BY <1>1, <1>7 DEF Forwarding
  <2>2. <<>> \in Seq(Sendings) /\ Len(<<>>) = 0 /\ 1..0 = {}
    BY EmptySeq
  <2>3. EmitsAt(wire', Consumed(n, e), n, <<>>)
    BY <1>2, <2>1, <2>2, EmitWires
  <2> QED BY <1>2, <1>4, <2>2, <2>3, EmitOnCourse
<1> QED BY <1>6, <1>7

\* Links stay between two nodes, and pairs are never lost: links are only
\* dropped once one broke or a node restarted.
LEMMA LinksStep ==
    ASSUME Typed, LinksKept, [Next]_vars
    PROVE  LinksKept' /\ Paths \subseteq Paths'
<1>1. /\ neighbors \in [Nodes -> SUBSET Ends] /\ live \in SUBSET Links
      /\ breaks \in Nat /\ restarts \in Nat
  BY DEF Typed
<1>2. ASSUME live \subseteq live',
             \A n \in Nodes : \A e \in neighbors'[n] :
                e \in neighbors[n] \/ (Link(n, e) \in Links /\ Link(n, e) \in live'),
             \A n \in Nodes : neighbors[n] \subseteq neighbors'[n],
             UNCHANGED <<breaks, restarts>>
      PROVE  LinksKept' /\ Paths \subseteq Paths'
  <2>1. LinksKept'
    <3> SUFFICES ASSUME NEW n \in Nodes, NEW e \in neighbors'[n]
                 PROVE  /\ Link(n, e) \in Links
                        /\ breaks' = 0 /\ restarts' = 0 => Link(n, e) \in live'
      BY DEF LinksKept, Link
    <3> QED BY <1>2 DEF LinksKept
  <2>2. Paths \subseteq Paths'
    BY <1>2 DEF Paths, Adjacent
  <2> QED BY <2>1, <2>2
<1>3. ASSUME neighbors' = neighbors, live' = live, UNCHANGED <<breaks, restarts>>
      PROVE  LinksKept' /\ Paths \subseteq Paths'
  BY <1>2, <1>3
<1>4. ASSUME \A n \in Nodes : neighbors'[n] \subseteq neighbors[n],
             breaks' # 0 \/ restarts' # 0
      PROVE  LinksKept' /\ Paths \subseteq Paths'
  <2>1. LinksKept'
    <3> SUFFICES ASSUME NEW n \in Nodes, NEW e \in neighbors'[n]
                 PROVE  Link(n, e) \in Links
      BY <1>4 DEF LinksKept, Link
    <3> QED BY <1>4 DEF LinksKept
  <2>2. Paths' = Nodes \X Nodes
    BY <1>4 DEF Paths
  <2>3. Paths \subseteq Nodes \X Nodes
    BY DEF Paths
  <2> QED BY <2>1, <2>2, <2>3
<1>5. ASSUME NEW n \in Nodes, NEW e \in Ends, Receive(n, e)
      PROVE  LinksKept' /\ Paths \subseteq Paths'
  <2>1. neighbors' = neighbors /\ live' = live /\ UNCHANGED <<breaks, restarts>>
    BY <1>5, SMTT(30) DEF Receive, Replayed, HandleRouteRequest,
       ForwardRouteReply, HandleRouteReply, Deliver, Relay, Receives, Reads,
       linkVars, counters
  <2> QED BY <1>3, <2>1
<1>6. ASSUME \/ \E n, m \in Nodes : Send(n, m) \/ Discover(n, m)
             \/ \E n \in Nodes : FlushLoop(n)
      PROVE  LinksKept' /\ Paths \subseteq Paths'
  <2>1. neighbors' = neighbors /\ live' = live /\ UNCHANGED <<breaks, restarts>>
    BY <1>6 DEF Send, Discover, FlushLoop, linkVars
  <2> QED BY <1>3, <2>1
<1>7. ASSUME NEW n \in Nodes, NEW e \in Ends, Register(n, e)
      PROVE  LinksKept' /\ Paths \subseteq Paths'
  <2>1. /\ Link(n, e) \in Links
        /\ neighbors' = [neighbors EXCEPT ![n] = neighbors[n] \cup {e}]
        /\ live' = live \cup {Link(n, e)} /\ UNCHANGED <<breaks, restarts>>
    BY <1>7 DEF Register, counters
  <2> DEFINE near == neighbors[n] \cup {e}
  <2>2. neighbors'[n] = near /\ \A m \in Nodes : m # n => neighbors'[m] = neighbors[m]
    BY <1>1, <2>1
  <2>3. Link(n, e) \in live' /\ live \subseteq live'
    BY <2>1
  <2> QED BY <1>2, <2>1, <2>2, <2>3
<1>8. ASSUME NEW n \in Nodes, NEW e \in Ends, Drop(n, e)
      PROVE  LinksKept' /\ Paths \subseteq Paths'
  <2>1. /\ e \in neighbors[n] /\ Link(n, e) \notin live
        /\ neighbors' = [neighbors EXCEPT ![n] = neighbors[n] \ {e}]
        /\ UNCHANGED <<breaks, restarts>>
    BY <1>8 DEF Drop, counters
  <2>2. breaks' # 0 \/ restarts' # 0
    BY <2>1 DEF LinksKept
  <2>3. \A m \in Nodes : neighbors'[m] \subseteq neighbors[m]
    BY <1>1, <2>1
  <2> QED BY <1>4, <2>2, <2>3
<1>9. ASSUME NEW n \in Nodes, Restart(n)
      PROVE  LinksKept' /\ Paths \subseteq Paths'
  <2>1. neighbors' = [neighbors EXCEPT ![n] = {}] /\ restarts' # 0
    BY <1>1, <1>9 DEF Restart
  <2>2. \A m \in Nodes : neighbors'[m] \subseteq neighbors[m]
    BY <1>1, <2>1
  <2> QED BY <1>4, <2>1, <2>2
<1>10. ASSUME NEW l \in Links, Break(l)
       PROVE  LinksKept' /\ Paths \subseteq Paths'
  <2>1. neighbors' = neighbors /\ breaks' # 0
    BY <1>1, <1>10 DEF Break
  <2> QED BY <1>4, <2>1
<1>11. CASE UNCHANGED vars
  BY <1>3, <1>11 DEF vars
<1> QED BY <1>5, <1>6, <1>7, <1>8, <1>9, <1>10, <1>11 DEF Next

\* Every step keeps the frames on course.
LEMMA OnCourseStep ==
    ASSUME Typed, RoutesBegun, LinksKept, WiresOnCourse(Paths, wire), [Next]_vars
    PROVE  WiresOnCourse(Paths, wire)'
<1>1. /\ wire \in Wires
      /\ \A n \in Nodes : neighbors[n] \in SUBSET Ends /\ seq[n] \in Nat
  BY DEF Typed
<1>2. LinksKept' /\ Paths \subseteq Paths'
  BY LinksStep
<1>3. WiresOnCourse(Paths, wire') => WiresOnCourse(Paths, wire)'
  <2>1. WiresOnCourse(Paths, wire') => WiresOnCourse(Paths', wire')
    BY <1>2, WidePaths
  <2> QED BY <2>1
<1>4. \A n \in Nodes : \A e \in neighbors[n] : e[2] # n
  BY TwoEnds DEF LinksKept
<1>5. ASSUME NEW n \in Nodes, NEW e \in Ends, Receive(n, e)
      PROVE  WiresOnCourse(Paths, wire')
  <2>1. CASE HandleRouteRequest(n, e)
    BY <2>1, RequestOnCourse
  <2>2. CASE ForwardRouteReply(n, e) \/ Relay(n, e)
    BY <2>2, ForwardOnCourse
  <2>3. CASE Replayed(n, e) \/ Deliver(n, e) \/ HandleRouteReply(n, e)
    <3>1. Incoming(n, e) # <<>>
      BY <2>3 DEF Replayed, Deliver, HandleRouteReply, Receives, Reads
    <3>2. /\ Consumed(n, e) \in Wires /\ e[2] \in Nodes /\ Back(n, e) \in Ends
          /\ ConsumesAt(Consumed(n, e), wire, e[2], Back(n, e))
      BY <3>1, HeadType
    <3>3. WiresOnCourse(Paths, Consumed(n, e))
      BY <1>1, <3>2, StillOnCourse
    <3>4. \/ wire' = Consumed(n, e)
          \/ \E t : FlushQueued(Consumed(n, e), n, t, neighbors[n])
      BY <2>3 DEF Replayed, Deliver, HandleRouteReply
    <3> QED BY <1>1, <1>4, <3>2, <3>3, <3>4, FlushOnCourse
  <2> QED BY <1>5, <2>1, <2>2, <2>3 DEF Receive
<1>6. ASSUME NEW n \in Nodes, NEW m \in Nodes, Send(n, m)
      PROVE  WiresOnCourse(Paths, wire')
  <2> DEFINE env == Message(n, m, seq[n] + 1, Len(messages) + 1)
             queue == <<env>>
  <2>1. Emit(wire, n, SendAll(n, table[n], neighbors[n], queue, seq[n] + 1))
    BY <1>6 DEF Send
  <2>2. Len(messages) + 1 \in Nat /\ seq[n] + 1 \in Nat
    BY <1>1, LenProperties DEF Typed
  <2>3. env \in Envelope /\ env.type = "msg"
    BY <2>2, MessageType DEF Message
  <2> HIDE DEF env
  <2>4. queue \in Seq(Envelope) /\ \A i \in 1..Len(queue) : queue[i].type = "msg"
    BY <2>3
  <2> HIDE DEF queue
  <2> QED BY <1>1, <1>4, <2>1, <2>2, <2>4, SendAllOnCourse
<1>7. ASSUME NEW n \in Nodes, NEW m \in Nodes, Discover(n, m)
      PROVE  WiresOnCourse(Paths, wire')
  <2> DEFINE request == Request(n, m, seq[n] + 1)
  <2>1. Emit(wire, n, <<Sending(request, neighbors[n])>>)
    BY <1>7 DEF Discover
  <2>2. seq[n] + 1 \in Nat
    BY <1>1
  <2>3. request \in Envelope /\ request.type = "route_request"
    BY <2>2, RequestType DEF Request
  <2>4. \A e \in neighbors[n] : Trails(Paths, n, e, request)
    BY <1>1, <1>4, <2>2, RequestTrails
  <2> HIDE DEF request
  <2>5. \A e \in neighbors[n] : OnCourse(Paths, n, e, request)
    BY <2>3, <2>4 DEF OnCourse
  <2> QED BY <1>1, <2>1, <2>3, <2>5, OneOnCourse
<1>8. ASSUME NEW n \in Nodes, FlushLoop(n)
      PROVE  WiresOnCourse(Paths, wire')
  BY <1>1, <1>4, <1>8, FlushOnCourse DEF FlushLoop
<1>9. ASSUME NEW n \in Nodes, NEW e \in Ends, Register(n, e)
      PROVE  WiresOnCourse(Paths, wire')
  <2> DEFINE near == neighbors[n] \cup {e}
             t == WithNeighbor(table[n], e[2])
  <2>1. FlushQueued(wire, n, t, near) /\ e[2] # n
    BY <1>9, TwoEnds DEF Register
  <2>2. near \in SUBSET Ends /\ \A f \in near : f[2] # n
    BY <1>1, <1>4, <2>1
  <2> HIDE DEF near, t
  <2> QED BY <1>1, <2>1, <2>2, FlushOnCourse
<1>10. ASSUME \/ \E n \in Nodes, e \in Ends : Drop(n, e)
              \/ \E n \in Nodes : Restart(n)
       PROVE  WiresOnCourse(Paths, wire')
  BY <1>1, <1>10, Clearing, StillOnCourse
<1>11. ASSUME (\E l \in Links : Break(l)) \/ UNCHANGED vars
       PROVE  WiresOnCourse(Paths, wire')
  BY <1>11 DEF Break, vars
<1> QED BY <1>3, <1>5, <1>6, <1>7, <1>8, <1>9, <1>10, <1>11 DEF Next

\* The first state.
LEMMA OnCourseInit ==
    ASSUME Init
    PROVE  LinksKept /\ WiresOnCourse(Paths, wire)
<1>1. /\ live \in SUBSET Links
      /\ \A n \in Nodes : neighbors[n] = {e \in Ends : Link(n, e) \in live}
      /\ \A n \in Nodes, e \in Ends : wire[n][e] = <<>>
  <2>1. live \in SUBSET Links
    BY RoutingAssumption DEF Init
  <2>2. \A n \in Nodes : neighbors[n] = {e \in Ends : Link(n, e) \in live}
    BY DEF Init
  <2>3. \A n \in Nodes, e \in Ends : wire[n][e] = <<>>
    BY DEF Init
  <2> QED BY <2>1, <2>2, <2>3
<1>2. Len(<<>>) = 0 /\ 1..0 = {}
  BY EmptySeq
<1>3. LinksKept
  <2> SUFFICES ASSUME NEW n \in Nodes, NEW e \in neighbors[n]
               PROVE  Link(n, e) \in Links /\ Link(n, e) \in live
    BY DEF LinksKept
  <2>1. e \in {g \in Ends : Link(n, g) \in live}
    BY <1>1
  <2> QED BY <1>1, <2>1
<1> QED BY <1>1, <1>2, <1>3 DEF WiresOnCourse

\* A reply that is on course can get back.
LEMMA OnCourseReturns == Typed /\ WiresOnCourse(Paths, wire) => RepliesReturn
<1> SUFFICES ASSUME Typed, WiresOnCourse(Paths, wire), NEW n \in Nodes, NEW e \in Ends,
                    NEW i \in DOMAIN wire[n][e], wire[n][e][i].type = "route_reply"
             PROVE  LET reply == wire[n][e][i]
                        way == <<n, e[2]>> \o reply.route
                    IN  /\ way[Len(way)] = reply.dst
                        /\ Len(reply.route) <= reply.ttl
                        /\ \A j, k \in DOMAIN way : way[j] = way[k] => j = k
                        /\ breaks = 0 /\ restarts = 0 =>
                              \A k \in 1..(Len(way) - 1) : way[k + 1] \in Adjacent(way[k])
  BY DEF RepliesReturn
<1> DEFINE reply == wire[n][e][i]
           way == <<n, e[2]>> \o reply.route
<1>1. wire[n][e] \in Seq(Envelope)
  BY DEF Typed, Wires
<1>2. i \in 1..Len(wire[n][e]) /\ reply \in Envelope
  BY <1>1, LenProperties, ElementOfSeq
<1>3. Returns(Paths, n, e, reply)
  BY <1>2 DEF WiresOnCourse, OnCourse
<1> HIDE DEF reply
<1>4. way = WayBack(n, e, reply)
  BY DEF WayBack
<1>5. /\ way \in Seq(Nodes) /\ Len(reply.route) \in Nat /\ Len(way) = Len(reply.route) + 2
      /\ reply.ttl \in Nat
  BY <1>2, <1>4, WayBackMembers DEF Envelope
<1>6. /\ way[Len(way)] = reply.dst
      /\ Len(way) <= reply.ttl + 2
      /\ Simple(way)
      /\ \A k \in 1..(Len(way) - 1) : <<way[k], way[k + 1]>> \in Paths
  BY <1>3, <1>4 DEF Returns
<1> HIDE DEF way
<1>7. DOMAIN way = 1..Len(way)
  BY <1>5, LenProperties
<1>8. /\ way[Len(way)] = reply.dst
      /\ Len(reply.route) <= reply.ttl
      /\ \A j, k \in DOMAIN way : way[j] = way[k] => j = k
      /\ breaks = 0 /\ restarts = 0 =>
            \A k \in 1..(Len(way) - 1) : way[k + 1] \in Adjacent(way[k])
  <2>1. Len(reply.route) <= reply.ttl
    BY <1>5, <1>6
  <2>2. \A j, k \in DOMAIN way : way[j] = way[k] => j = k
    BY <1>6, <1>7 DEF Simple
  <2>3. ASSUME breaks = 0, restarts = 0, NEW k \in 1..(Len(way) - 1)
        PROVE  way[k + 1] \in Adjacent(way[k])
    <3>1. <<way[k], way[k + 1]>> \in Paths
      BY <1>6
    <3> QED BY <2>3, <3>1 DEF Paths
  <2>4. way[Len(way)] = reply.dst
    BY <1>6
  <2> QED BY <2>1, <2>2, <2>3, <2>4, Zenon
<1> QED BY <1>8, ZenonT(60) DEF way, reply

\* A route reply can get back to the node that asked, in every network,
\* whatever breaks and whoever restarts: the trail of a request visits no
\* node twice, is no longer than its ttl has allowed and is made of links, and
\* the reply follows it back.
THEOREM WaysBack == Spec => []RepliesReturn
<1> DEFINE Inv == /\ Typed /\ RoutesBegun /\ NeighborsAreDirect
                  /\ LinksKept /\ WiresOnCourse(Paths, wire)
<1>1. Init => Inv
  BY SoundInit, OnCourseInit
<1>2. Inv /\ [Next]_vars => Inv'
  BY SoundStep, LinksStep, OnCourseStep
<1>3. Inv => RepliesReturn
  BY OnCourseReturns
<1> QED BY <1>1, <1>2, <1>3, PTL DEF Spec
=============================================================================
