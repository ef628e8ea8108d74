------------------------------ MODULE Routing ------------------------------
(***************************************************************************)
(* The Router of every node (routing.py) over the links of its transports, *)
(* each of which carries frames in order, with the offline queue that Core *)
(* keeps for envelopes the router refuses (Core._dispatch, flush_queued).  *)
(* Two nodes may be linked by several transports at once.                  *)
(*                                                                         *)
(* A node handles one frame at a time and Router never awaits, so a frame  *)
(* read from a link is one action, with all that it makes the node send.   *)
(* A link breaks first and its two ends notice one after the other; frames *)
(* given to a link that is broken are lost.  A node may be restarted: its  *)
(* table, its _seen and its sequence counter are gone, its queued.json is  *)
(* not.                                                                    *)
(***************************************************************************)
EXTENDS Naturals, Sequences, FiniteSets, Selection

CONSTANTS
    Nodes,
    Order,          \* the transports, in the order of router.transports
    Links,          \* <<transport, pair of nodes>>: the links there can be
    Up,             \* the sets of links that may be up at first
    Traffic,        \* the pairs <<source, destination>> of messages
    DEFAULT_TTL,    \* of a message
    DISCOVERY_TTL,  \* of a route request and of a route reply
    MaxMessages,    \* bound on the messages of all the nodes
    MaxProbes,      \* bound on the retries of the queues and on /hop
    MaxBreaks,      \* bound on the links that break
    MaxRestarts     \* bound on the nodes that restart

Transports == {Order[i] : i \in DOMAIN Order}

ASSUME RoutingAssumption ==
    /\ Order \in Seq(Transports)
    /\ Links \subseteq Transports \X {l \in SUBSET Nodes : Cardinality(l) = 2}
    /\ Up \subseteq SUBSET Links
    /\ Traffic \subseteq {t \in Nodes \X Nodes : t[1] # t[2]}
    /\ DEFAULT_TTL \in Nat \ {0} /\ DISCOVERY_TTL \in Nat \ {0}
    /\ MaxMessages \in Nat /\ MaxProbes \in Nat
    /\ MaxBreaks \in Nat /\ MaxRestarts \in Nat

VARIABLES
    neighbors,  \* neighbors[n]: <<t, m>>, m being among t.neighbors() at n
    table,      \* table[n]: the known destinations of n, each with its entry
    seen,       \* seen[n]: <<src, seq>> of the envelopes n has handled
    seq,        \* seq[n]: the last sequence number n gave out
    outbox,     \* outbox[n]: the messages in n's queued.json
    wire,       \* wire[n][<<t, m>>]: frames on their way from n to m by t
    live,       \* the links that still carry bytes
    delivered,  \* delivered[n]: the messages n's Core was given, in order
    messages,   \* source and destination of every message written so far
    probes, breaks, restarts

nodeVars == <<table, seen, seq, outbox>>
linkVars == <<neighbors, live>>
counters == <<messages, probes, breaks, restarts>>
vars == <<neighbors, table, seen, seq, outbox, wire, live, delivered,
          messages, probes, breaks, restarts>>

-----------------------------------------------------------------------------

\* A table entry: the neighbor to hand an envelope to, and the distance.
Entry == [next_hop : Nodes, hops : Nat]

\* An envelope.  route is the path flooded so far in a request and the hops
\* left to go in a reply; hops and target matter in a reply only, msg (the
\* message itself) in a message only.
Envelope == [type : {"route_request", "route_reply", "msg"},
             src : Nodes, dst : Nodes, route : Seq(Nodes), ttl : Nat,
             seq : Nat, target : Nodes, hops : Nat, msg : Nat]

\* Faulty variant: the sender counts as a hop.
RequestOneHopShort(n, target, number) ==
    [type |-> "route_request", src |-> n, dst |-> target, route |-> <<n>>,
     ttl |-> DISCOVERY_TTL - 1, seq |-> number, target |-> target, hops |-> 0,
     msg |-> 0]

Request(n, target, number) ==
    [type |-> "route_request", src |-> n, dst |-> target, route |-> <<n>>,
     ttl |-> DISCOVERY_TTL, seq |-> number, target |-> target, hops |-> 0,
     msg |-> 0]

\* The way back is the flooded path, reversed, without the neighbor (via)
\* the reply is handed to.
Reversed(path) == [i \in DOMAIN path |-> path[Len(path) - i + 1]]

\* Faulty variant: a distance that is one short.
ReplyOneHopShort(n, request, distance, number) ==
    [type |-> "route_reply", src |-> n, dst |-> request.src,
     route |-> Tail(Reversed(request.route)), ttl |-> DISCOVERY_TTL,
     seq |-> number, target |-> request.dst, hops |-> distance - 1, msg |-> 0]

Reply(n, request, distance, number) ==
    [type |-> "route_reply", src |-> n, dst |-> request.src,
     route |-> Tail(Reversed(request.route)), ttl |-> DISCOVERY_TTL,
     seq |-> number, target |-> request.dst, hops |-> distance, msg |-> 0]

Message(n, target, number, id) ==
    [type |-> "msg", src |-> n, dst |-> target, route |-> <<>>,
     ttl |-> DEFAULT_TTL, seq |-> number, target |-> target, hops |-> 0,
     msg |-> id]

Key(env) == <<env.src, env.seq>>

\* The end of a link at a node: the transport and the node at the other end.
Ends == Transports \X Nodes
Link(n, e) == <<e[1], {n, e[2]}>>

\* What a node sends is a list of frames, each for some ends of its links.
Sending(env, to) == [env |-> env, to |-> to]

\* transport_for: the first transport that has m as a neighbor, if any has.
Way(near, m) ==
    {<<Order[i], m>> : i \in {k \in DOMAIN Order :
        /\ <<Order[k], m>> \in near
        /\ \A j \in 1..(k - 1) : <<Order[j], m>> \notin near}}

-----------------------------------------------------------------------------

\* Before the first message: some links are up and routers know them.
Init ==
    /\ live \in Up
    /\ neighbors = [n \in Nodes |-> {e \in Ends : Link(n, e) \in live}]
    /\ table = [n \in Nodes |->
                  [m \in {e[2] : e \in {f \in Ends : Link(n, f) \in live}} |->
                      [next_hop |-> m, hops |-> 1]]]
    /\ seen = [n \in Nodes |-> {}]
    /\ seq = [n \in Nodes |-> 0]
    /\ outbox = [n \in Nodes |-> <<>>]
    /\ wire = [n \in Nodes |-> [e \in Ends |-> <<>>]]
    /\ delivered = [n \in Nodes |-> <<>>]
    /\ messages = <<>> /\ probes = 0 /\ breaks = 0 /\ restarts = 0

-----------------------------------------------------------------------------
(***************************************************************************)
(* Router.send, discover, _forward.                                        *)
(***************************************************************************)

\* send_frame hands a frame to the queue of a registered connection and
\* returns True; with a broken link it is lost.
Emit(w, n, sendings) ==
    wire' = [w EXCEPT ![n] = [e \in Ends |->
               IF e \in neighbors'[n] /\ Link(n, e) \in live'
               THEN LET mine == Picked(sendings, {i \in DOMAIN sendings :
                                                  e \in sendings[i].to})
                    IN  w[n][e] \o [i \in DOMAIN mine |-> mine[i].env]
               ELSE w[n][e]]]

Known(t, dst) == dst \in DOMAIN t

\* _handle_route_reply records a first or a shorter route.
Shorter(t, dst, hops) == Known(t, dst) => hops < t[dst].hops

\* add_neighbor
WithNeighbor(t, m) ==
    [d \in DOMAIN t \cup {m} |->
        IF d = m THEN [next_hop |-> m, hops |-> 1] ELSE t[d]]

\* _forward: the next hop comes from the route in the envelope, else from
\* the table; nothing is sent at the end of the ttl or without a next hop.
CanForward(t, env) ==
    /\ env.ttl > 0
    /\ env.route # <<>> \/ Known(t, env.dst)

NextHop(t, env) ==
    IF env.route # <<>> THEN Head(env.route) ELSE t[env.dst].next_hop

\* Faulty variant: the hop taken stays in the route.
OnwardWithWholeRoute(env) == [env EXCEPT !.ttl = @ - 1]

Onward(env) ==
    [env EXCEPT !.ttl = @ - 1,
                !.route = IF @ # <<>> THEN Tail(@) ELSE @]

Forwarding(t, near, env) ==
    IF CanForward(t, env)
    THEN <<Sending(Onward(env), Way(near, NextHop(t, env)))>>
    ELSE <<>>

\* Router.send accepts a message if its next hop is a registered neighbor.
Accepted(t, near, env) ==
    CanForward(t, env) /\ Way(near, NextHop(t, env)) # {}

\* Router.send of every message of a queue in turn: one that is refused
\* starts a discovery of its destination, with the next sequence number.
Refused(t, near, queue) ==
    {i \in DOMAIN queue : ~Accepted(t, near, queue[i])}

RefusedUpTo(t, near, queue, i) == Rank(Refused(t, near, queue), i)

SendAll(n, t, near, queue, last) ==
    [i \in DOMAIN queue |->
        IF Accepted(t, near, queue[i])
        THEN Sending(Onward(queue[i]), Way(near, NextHop(t, queue[i])))
        ELSE Sending(Request(n, queue[i].dst,
                             last + RefusedUpTo(t, near, queue, i)), near)]

\* Faulty variant: nothing is cleared.
NothingCleared(t, near, queue) == queue

StillQueued(t, near, queue) == Picked(queue, Refused(t, near, queue))

\* Faulty variant: nobody is told that there is a route.
NoFlush(w, n, t, near) ==
    /\ Emit(w, n, <<>>)
    /\ UNCHANGED <<outbox, seq>>

\* Core.flush_queued, with the table t and the neighbors near.
FlushQueued(w, n, t, near) ==
    /\ Emit(w, n, SendAll(n, t, near, outbox[n], seq[n]))
    /\ outbox' = [outbox EXCEPT ![n] = StillQueued(t, near, @)]
    /\ seq' = [seq EXCEPT ![n] = @ + Cardinality(Refused(t, near, outbox[n]))]

-----------------------------------------------------------------------------

\* A message to dst: Core gives it a sequence number and Router.send either
\* takes it or starts a discovery, and Core._dispatch queues it.
Send(n, dst) ==
    /\ <<n, dst>> \in Traffic
    /\ Len(messages) < MaxMessages
    /\ messages' = Append(messages, <<n, dst>>)
    /\ LET env == Message(n, dst, seq[n] + 1, Len(messages) + 1)
           taken == Accepted(table[n], neighbors[n], env)
       IN  /\ UNCHANGED linkVars
           /\ Emit(wire, n, SendAll(n, table[n], neighbors[n], <<env>>,
                                    seq[n] + 1))
           /\ outbox' = IF taken THEN outbox
                        ELSE [outbox EXCEPT ![n] = Append(@, env)]
           /\ seq' = [seq EXCEPT ![n] = @ + IF taken THEN 1 ELSE 2]
    /\ UNCHANGED <<table, seen, delivered, probes, breaks, restarts>>

\* Faulty variant: the number of the request is given out again.
DiscoverWithoutNumber(n, dst) ==
    /\ <<n, dst>> \in Traffic
    /\ probes < MaxProbes
    /\ probes' = probes + 1
    /\ UNCHANGED linkVars
    /\ Emit(wire, n, <<Sending(Request(n, dst, seq[n] + 1), neighbors[n])>>)
    /\ UNCHANGED <<seq, table, seen, outbox, delivered, messages, breaks, restarts>>

\* /hop: Router.discover.
Discover(n, dst) ==
    /\ <<n, dst>> \in Traffic
    /\ probes < MaxProbes
    /\ probes' = probes + 1
    /\ UNCHANGED linkVars
    /\ Emit(wire, n, <<Sending(Request(n, dst, seq[n] + 1), neighbors[n])>>)
    /\ seq' = [seq EXCEPT ![n] = @ + 1]
    /\ UNCHANGED <<table, seen, outbox, delivered, messages, breaks, restarts>>

\* _flush_loop, every FLUSH_INTERVAL.
FlushLoop(n) ==
    /\ outbox[n] # <<>>
    /\ probes < MaxProbes
    /\ probes' = probes + 1
    /\ UNCHANGED linkVars
    /\ FlushQueued(wire, n, table[n], neighbors[n])
    /\ UNCHANGED <<table, seen, delivered, messages, breaks, restarts>>

-----------------------------------------------------------------------------
(***************************************************************************)
(* Router.forward: n handles the next frame it reads at the end e of a     *)
(* link, from the neighbor via = e[2].                                     *)
(***************************************************************************)
Incoming(n, e) == wire[e[2]][<<e[1], n>>]
Consumed(n, e) == [wire EXCEPT ![e[2]][<<e[1], n>>] = Tail(@)]

Reads(n, e) ==
    /\ e \in neighbors[n]
    /\ Incoming(n, e) # <<>>
    /\ UNCHANGED <<linkVars, counters>>

\* _replay_check raises, and the read loop goes on with the next frame.
Replayed(n, e) ==
    /\ Reads(n, e)
    /\ Key(Head(Incoming(n, e))) \in seen[n]
    /\ wire' = Consumed(n, e)
    /\ UNCHANGED <<nodeVars, delivered>>

Receives(n, e, type) ==
    /\ Reads(n, e)
    /\ Head(Incoming(n, e)).type = type
    /\ Key(Head(Incoming(n, e))) \notin seen[n]
    /\ seen' = [seen EXCEPT ![n] = @ \cup {Key(Head(Incoming(n, e)))}]

\* The target answers with distance 0, a node with an entry for it with the
\* distance of the entry, and any other node floods the request on.
HandleRouteRequest(n, e) ==
    /\ Receives(n, e, "route_request")
    /\ LET request == Head(Incoming(n, e))
           answers == request.dst = n \/ Known(table[n], request.dst)
           distance == IF request.dst = n THEN 0
                       ELSE table[n][request.dst].hops
           visited == {request.route[i] : i \in DOMAIN request.route}
           flooded == [request EXCEPT !.route = Append(@, n), !.ttl = @ - 1]
       IN  \/ /\ request.ttl > 0 /\ answers
              /\ Emit(Consumed(n, e), n,
                      <<Sending(Reply(n, request, distance, seq[n] + 1), Way(neighbors[n], e[2]))>>)
              /\ seq' = [seq EXCEPT ![n] = @ + 1]
           \/ /\ request.ttl > 0 /\ ~answers /\ n \notin visited
              /\ Emit(Consumed(n, e), n,
                      <<Sending(flooded, {f \in neighbors[n] :
                                      f[2] \notin visited \cup {e[2]}})>>)
              /\ UNCHANGED seq
           \/ /\ request.ttl = 0 \/ (~answers /\ n \in visited)
              /\ wire' = Consumed(n, e)
              /\ UNCHANGED seq
    /\ UNCHANGED <<table, outbox, delivered>>

\* A reply for another node goes on along its route.
ForwardRouteReply(n, e) ==
    /\ Receives(n, e, "route_reply")
    /\ Head(Incoming(n, e)).dst # n
    /\ Emit(Consumed(n, e), n, Forwarding(table[n], neighbors[n], Head(Incoming(n, e))))
    /\ UNCHANGED <<table, outbox, seq, delivered>>

\* _handle_route_reply: a first or a shorter route is recorded, and on_route
\* flushes the queue.
HandleRouteReply(n, e) ==
    /\ Receives(n, e, "route_reply")
    /\ Head(Incoming(n, e)).dst = n
    /\ LET reply == Head(Incoming(n, e))
           hops == reply.hops + 1
           better == Shorter(table[n], reply.target, hops)
           updated == [d \in DOMAIN table[n] \cup {reply.target} |->
                          IF d = reply.target
                          THEN [next_hop |-> e[2], hops |-> hops]
                          ELSE table[n][d]]
       IN  \/ /\ better
              /\ table' = [table EXCEPT ![n] = updated]
              /\ FlushQueued(Consumed(n, e), n, updated, neighbors[n])
           \/ /\ ~better
              /\ wire' = Consumed(n, e)
              /\ UNCHANGED <<table, outbox, seq>>
    /\ UNCHANGED delivered

Deliver(n, e) ==
    /\ Receives(n, e, "msg")
    /\ Head(Incoming(n, e)).dst = n
    /\ delivered' = [delivered EXCEPT ![n] = Append(@, Head(Incoming(n, e)).msg)]
    /\ wire' = Consumed(n, e)
    /\ UNCHANGED <<table, outbox, seq>>

\* What a relay cannot forward it drops, and tells nobody.
Relay(n, e) ==
    /\ Receives(n, e, "msg")
    /\ Head(Incoming(n, e)).dst # n
    /\ Emit(Consumed(n, e), n, Forwarding(table[n], neighbors[n], Head(Incoming(n, e))))
    /\ UNCHANGED <<table, outbox, seq, delivered>>

Receive(n, e) ==
    \/ Replayed(n, e)
    \/ HandleRouteRequest(n, e)
    \/ ForwardRouteReply(n, e)
    \/ HandleRouteReply(n, e)
    \/ Deliver(n, e)
    \/ Relay(n, e)

-----------------------------------------------------------------------------
(***************************************************************************)
(* The links, and the life of a process.                                   *)
(***************************************************************************)
Break(l) ==
    /\ l \in live
    /\ breaks < MaxBreaks
    /\ breaks' = breaks + 1
    /\ live' = live \ {l}
    /\ UNCHANGED <<neighbors, nodeVars, wire, delivered, messages, probes,
                   restarts>>

Without(t, m) == [d \in DOMAIN t \ {m} |-> t[d]]

\* Faulty variant: remove_neighbor without the look at other transports.
AfterLossOfOne(t, near, m) == Without(t, m)

\* remove_neighbor takes m, and only m, out of the table, unless another
\* transport still has it.
AfterLoss(t, near, m) == IF Way(near, m) = {} THEN Without(t, m) ELSE t

\* One end of a broken link is closed: what it had not read is lost, and so is
\* what it wrote, if there is no other end.
Drop(n, e) ==
    /\ e \in neighbors[n]
    /\ Link(n, e) \notin live
    /\ LET near == neighbors[n] \ {e}
       IN  /\ neighbors' = [neighbors EXCEPT ![n] = near]
           /\ table' = [table EXCEPT ![n] = AfterLoss(@, near, e[2])]
    /\ wire' = [wire EXCEPT ![e[2]][<<e[1], n>>] = <<>>,
                            ![n][e] = IF <<e[1], n>> \in neighbors[e[2]]
                                      THEN wire[n][e] ELSE <<>>]
    /\ UNCHANGED <<seen, seq, outbox, live, delivered, counters>>

\* add_neighbor, then Core._on_peer_change flushes the queue.  The second end
\* of a link joins the first; the first makes a new one, on a fresh socket.
Register(n, e) ==
    /\ Link(n, e) \in Links
    /\ e \notin neighbors[n]
    /\ <<e[1], n>> \in neighbors[e[2]] => Link(n, e) \in live
    /\ LET near == neighbors[n] \cup {e}
           t == WithNeighbor(table[n], e[2])
       IN  /\ neighbors' = [neighbors EXCEPT ![n] = near]
           /\ live' = live \cup {Link(n, e)}
           /\ table' = [table EXCEPT ![n] = t]
           /\ FlushQueued(wire, n, t, near)
    /\ UNCHANGED <<seen, delivered, counters>>

\* The process of n ends and starts again on the same data directory.
Restart(n) ==
    /\ restarts < MaxRestarts
    /\ restarts' = restarts + 1
    /\ live' = {l \in live : n \notin l[2]}
    /\ neighbors' = [neighbors EXCEPT ![n] = {}]
    /\ table' = [table EXCEPT ![n] = [d \in {} |-> [next_hop |-> n, hops |-> 0]]]
    /\ seen' = [seen EXCEPT ![n] = {}]
    /\ seq' = [seq EXCEPT ![n] = 0]
    /\ wire' = [m \in Nodes |-> [e \in Ends |->
                  IF \/ e[2] = n
                     \/ m = n /\ <<e[1], n>> \notin neighbors[e[2]]
                  THEN <<>> ELSE wire[m][e]]]
    /\ UNCHANGED <<outbox, delivered, messages, probes, breaks>>

-----------------------------------------------------------------------------

Next ==
    \/ \E n, m \in Nodes : Send(n, m) \/ Discover(n, m)
    \/ \E n \in Nodes, e \in Ends :
          Receive(n, e) \/ Drop(n, e) \/ Register(n, e)
    \/ \E n \in Nodes : FlushLoop(n) \/ Restart(n)
    \/ \E l \in Links : Break(l)

Spec == Init /\ [][Next]_vars

\* A registered link has a read loop: what is on the wire gets read.
FairSpec == Spec /\ \A n \in Nodes, e \in Ends : WF_vars(Receive(n, e))
-----------------------------------------------------------------------------
(***************************************************************************)
(* Properties.                                                             *)
(***************************************************************************)

\* Every variable keeps its type.
TypeOK ==
    /\ neighbors \in [Nodes -> SUBSET Ends]
    /\ \A n \in Nodes :
          /\ DOMAIN table[n] \subseteq Nodes
          /\ \A d \in DOMAIN table[n] : table[n][d] \in Entry
          /\ seen[n] \subseteq Nodes \X Nat
          /\ outbox[n] \in Seq(Envelope)
          /\ delivered[n] \in Seq(Nat)
          /\ \A e \in Ends : wire[n][e] \in Seq(Envelope)
    /\ seq \in [Nodes -> Nat]
    /\ live \subseteq Links
    /\ messages \in Seq(Traffic)
    /\ {probes, breaks, restarts} \subseteq Nat

\* router.neighbors(): the peers n has a link to, by whatever transport.
Adjacent(n) == {e[2] : e \in neighbors[n]}

\* The neighbors on any transport, and no others, have a direct entry: no
\* route reply replaces it, registration replaces the stale entry of a peer
\* that was reached by a relay, the loss of one of two links to a peer
\* leaves it and the loss of the last removes it.
NeighborsAreDirect ==
    \A n, m \in Nodes :
        m \in Adjacent(n) <=>
            m \in DOMAIN table[n] /\ table[n][m] = [next_hop |-> m, hops |-> 1]

Near(n, m) == \E t \in Transports : <<t, {n, m}>> \in Links

Carries(frames, id) ==
    \E i \in DOMAIN frames : frames[i].type = "msg" /\ frames[i].msg = id

Received(n, id) == \E i \in DOMAIN delivered[n] : delivered[n][i] = id

\* The second node is a neighbor of every neighbor of the first, so that
\* any relay the first may choose has it in its table.
OneRelay(pair) ==
    \A m \in Nodes \ {pair[2]} : Near(pair[1], m) => Near(m, pair[2])

InHand(id) ==
    \/ \E n \in Nodes : Received(n, id) \/ Carries(outbox[n], id)
    \/ \E n \in Nodes, e \in Ends : Carries(wire[n][e], id)

\* README.md: a message reaches a target that is not connected by way of
\* relays.  Where links do not change it is in its sender's queue, on its
\* way or delivered: no relay drops it, no replay check takes it for old.
NothingLost == \A id \in DOMAIN messages : InHand(id)

\* README.md: replays are told by the sender's sequence numbers.  While no
\* node restarts, whatever the links do, an envelope a node is about to
\* reject as a replay is a message it has received.
OnlyReplaysRejectedInOneLife ==
    restarts = 0 => \A n \in Nodes, e \in Ends :
        LET env == Head(Incoming(n, e))
        IN  (Incoming(n, e) # <<>> /\ env.type = "msg" /\ env.dst = n
                /\ Key(env) \in seen[n])
              => Received(n, env.msg)

\* A message is delivered at most once, though its envelope may be sent from
\* a queue that outlives its sender and received by a node that forgot what
\* it had seen.
DeliveredOnce ==
    \A n \in Nodes : \A i, j \in DOMAIN delivered[n] :
        delivered[n][i] = delivered[n][j] => i = j

\* A route reply can get back to the node that asked: the rest of its way,
\* from the node that handed it on last, visits no node twice, ends at the
\* one that asked and is not longer than its ttl; while no link breaks and
\* no node restarts, every node on it has the next one as a neighbor.
RepliesReturn ==
    \A n \in Nodes, e \in Ends : \A i \in DOMAIN wire[n][e] :
        LET reply == wire[n][e][i]
            way == <<n, e[2]>> \o reply.route
        IN  reply.type = "route_reply" =>
              /\ way[Len(way)] = reply.dst
              /\ Len(reply.route) <= reply.ttl
              /\ \A j, k \in DOMAIN way : way[j] = way[k] => j = k
              /\ breaks = 0 /\ restarts = 0 =>
                    \A k \in 1..(Len(way) - 1) : way[k + 1] \in Adjacent(way[k])

\* Where links do not change and every target is within DISCOVERY_TTL + 1
\* hops, a queue empties: discovery finds a route and on_route sends what
\* waits.
QueueDrains ==
    \A n \in Nodes : outbox[n] # <<>> ~> outbox[n] = <<>>

\* Where links do not change, every message to the other side of any one
\* relay is delivered.
Delivery ==
    \A id \in 1..MaxMessages :
        (id \in DOMAIN messages /\ OneRelay(messages[id]))
            ~> \E n \in Nodes : Received(n, id)
=============================================================================
