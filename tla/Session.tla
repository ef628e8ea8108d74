------------------------------ MODULE Session ------------------------------
(***************************************************************************)
(* The friend mechanism, the texts and the offline queue of Core (core.py) *)
(* over the contacts, history and queue of Store (store.py), for a group   *)
(* of peers with direct links, during one lifetime of their processes.     *)
(*                                                                         *)
(* A node is one asyncio thread and no handler of Core awaits, so a        *)
(* command, a delivered envelope or a change of a link is one action.  The *)
(* transport is what Core sees of it: a peer is in connections[p] from the *)
(* transport's on_peer_change(connected) to its on_peer_change(lost), the  *)
(* router accepts an envelope exactly when its destination is there, and   *)
(* wire[p][q] holds the frames p handed to the link and q has not read.    *)
(* Links has no cycle, so a pair without a link has no relay either:       *)
(* Router.discover finds nothing (Routing models relays).                  *)
(***************************************************************************)
EXTENDS Naturals, Sequences, FiniteSets

CONSTANTS
    Peers,        \* the nodes
    Links,        \* the pairs of nodes that can get a direct link
    MaxTexts,     \* bound on the texts one user sends
    MaxCommands,  \* bounds on the friend commands of all the users, by command
    MaxBreaks     \* bound on the links that break

\* /add, /accept and /reject.
Commands == {"add", "accept", "reject"}

ASSUME SessionAssumption ==
    /\ Links \subseteq {l \in SUBSET Peers : Cardinality(l) = 2}
    /\ MaxCommands \in [Commands -> Nat]
    /\ MaxTexts \in Nat /\ MaxBreaks \in Nat

VARIABLES
    status,       \* status[p][q]: what p's contacts say of q
    pendingAuto,  \* pendingAuto[p][q]: p's texts that wait for q's friendship
    queued,       \* queued[p][q]: p's queued.json, split by destination
    history,      \* history[p]: the texts p sent, as p's histories show them
    inbox,        \* inbox[p][q]: the texts of q in p's history
    connections,  \* connections[p]: the peers p has a registered link to
    live,         \* the links whose two ends can still exchange bytes
    wire,         \* wire[p][q]: frames on their way from p to q
    commands,     \* how often each friend command was given so far
    breaks        \* the links broken so far

contactVars == <<status, pendingAuto>>
linkVars == <<connections, live, breaks>>
vars == <<status, pendingAuto, queued, history, inbox, connections, live,
          wire, commands, breaks>>

-----------------------------------------------------------------------------

Status == {"unknown", "stranger", "pending", "friend", "blocked"}

FrameType == {"friend_request", "friend_accept", "friend_decline",
              "peer_list", "text"}

\* An envelope: a text is named by its place in its sender's history.
Frame == [type : FrameType, text : Nat, peers : SUBSET Peers]

Control(type) == [type |-> type, text |-> 0, peers |-> {}]
Text(n) == [type |-> "text", text |-> n, peers |-> {}]
PeerList(introduced) ==
    [type |-> "peer_list", text |-> 0, peers |-> introduced]

\* A record of the queue: uid is the history entry it marks when it leaves,
\* 0 when no entry of the history carries its uid.
QueueRecord == [frame : Frame, uid : Nat]

\* Faulty variant: the queue forgets the uid.
QueueingWithoutUid(frame, uid) == [frame |-> frame, uid |-> 0]

Queueing(frame, uid) == [frame |-> frame, uid |-> uid]
Anonymous(frames) == [i \in DOMAIN frames |-> Queueing(frames[i], 0)]
Frames(records) == [i \in DOMAIN records |-> records[i].frame]
Uids(records) == {records[i].uid : i \in DOMAIN records}

Texts(numbers) == [i \in DOMAIN numbers |-> Text(numbers[i])]
Members(numbers) == {numbers[i] : i \in DOMAIN numbers}

HistoryEntry == [to : Peers, status : {"queued", "sent"}]

Friends(p) == {q \in Peers : status[p][q] = "friend"}
Linked(p, q) == {p, q} \in Links

-----------------------------------------------------------------------------

\* Contacts survive the process: two peers that met in an earlier session
\* start as strangers or as friends, with each other's keys.
Init ==
    /\ \E met \in [Links -> {"unknown", "stranger", "friend"}] :
          status = [p \in Peers |-> [q \in Peers |->
                      IF Linked(p, q) THEN met[{p, q}] ELSE "unknown"]]
    /\ pendingAuto = [p \in Peers |-> [q \in Peers |-> <<>>]]
    /\ queued = [p \in Peers |-> [q \in Peers |-> <<>>]]
    /\ history = [p \in Peers |-> <<>>]
    /\ inbox = [p \in Peers |-> [q \in Peers |-> <<>>]]
    /\ connections = [p \in Peers |-> {}]
    /\ live = {}
    /\ wire = [p \in Peers |-> [q \in Peers |-> <<>>]]
    /\ commands = [command \in Commands |-> 0]
    /\ breaks = 0

-----------------------------------------------------------------------------
(***************************************************************************)
(* Sending.  out[r] is what a handler of p passes to Router.send for r, in *)
(* order.  What goes to a registered peer is on the wire if the link still *)
(* works and is lost, unnoticed, if it does not; what goes to another peer *)
(* stays in the queue if it went through _dispatch (kept) and is dropped   *)
(* if it is a peer list, which calls Router.send itself.                   *)
(***************************************************************************)
Transmit(w, p, out) ==
    wire' = [w EXCEPT ![p] = [r \in Peers |->
               IF r \in connections'[p] /\ {p, r} \in live'
               THEN w[p][r] \o out[r]
               ELSE w[p][r]]]

\* Faulty variants: queue what was sent, too; queue in front.
KeepAlways(p, q, kept) == queued' = [queued EXCEPT ![p][q] = @ \o kept]
KeepInFront(p, q, kept) ==
    queued' = IF q \in connections'[p]
              THEN queued
              ELSE [queued EXCEPT ![p][q] = kept \o @]

Keep(p, q, kept) ==
    queued' = IF q \in connections'[p]
              THEN queued
              ELSE [queued EXCEPT ![p][q] = @ \o kept]

Only(q, frames) == [r \in Peers |-> IF r = q THEN frames ELSE <<>>]

\* Faulty variant: a status no history knows.
MarkDelivered(entries, sent) ==
    [n \in DOMAIN entries |->
        IF n \in sent THEN [to |-> entries[n].to, status |-> "delivered"]
                      ELSE entries[n]]

\* Store.mark_history_sent for every uid in sent.
MarkSent(entries, sent) ==
    [n \in DOMAIN entries |->
        IF n \in sent THEN [to |-> entries[n].to, status |-> "sent"]
                      ELSE entries[n]]

\* Faulty variant: only friends who are online are introduced.
IntroductionOfOnline(p, q) ==
    LET others == (Friends(p) \cap connections[p]) \ {q}
    IN  IF others = {} THEN <<>> ELSE <<PeerList(others)>>

\* _send_peer_list(q), p being a friend of q: nothing if p has no other friend.
Introduction(p, q) ==
    LET others == Friends(p) \ {q}
    IN  IF others = {} THEN <<>> ELSE <<PeerList(others)>>

\* Faulty variant: friend_accept is forgotten.
Unannounced(p, q, first, introduce, waiting) ==
    [r \in Peers |-> IF r = q THEN Texts(waiting) ELSE <<>>]

\* What p sends once q is its friend: `first` and the texts that waited go
\* to q, and with introduce a peer list to q and q's keys to the others.
Announcement(p, q, first, introduce, waiting) ==
    [r \in Peers |->
        IF r = q
        THEN first \o (IF introduce THEN Introduction(p, q) ELSE <<>>)
                   \o Texts(waiting)
        ELSE IF introduce /\ r \in Friends(p) THEN <<PeerList({q})>> ELSE <<>>]

\* _become_friends, accept_friend and _flush_pending_auto: w is the wire
\* before p sends, first the acceptance if there is one.
BecomeFriends(w, p, q, first) ==
    LET waiting == pendingAuto[p][q]
    IN  /\ status' = [status EXCEPT ![p][q] = "friend"]
        /\ Transmit(w, p, Announcement(p, q, first,
                                       status[p][q] # "friend", waiting))
        /\ Keep(p, q, Anonymous(first \o Texts(waiting)))
        /\ history' = IF q \in connections[p]
                      THEN [history EXCEPT ![p] = MarkSent(@, Members(waiting))]
                      ELSE history
        /\ pendingAuto' = [pendingAuto EXCEPT ![p][q] = <<>>]

-----------------------------------------------------------------------------
(***************************************************************************)
(* What a user does.                                                       *)
(***************************************************************************)
CanSendText(p, q) ==
    /\ Linked(p, q)
    /\ Len(history[p]) < MaxTexts
    /\ status[p][q] \notin {"unknown", "blocked"}

NewText(p) == Len(history[p]) + 1

SendTextToFriend(p, q) ==
    /\ CanSendText(p, q)
    /\ status[p][q] = "friend"
    /\ UNCHANGED <<connections, live>>
    /\ Transmit(wire, p, Only(q, <<Text(NewText(p))>>))
    /\ Keep(p, q, <<Queueing(Text(NewText(p)), NewText(p))>>)
    /\ history' = [history EXCEPT ![p] = Append(@,
                     [to |-> q, status |-> IF q \in connections[p]
                                           THEN "sent" ELSE "queued"])]
    /\ UNCHANGED <<contactVars, inbox, commands, breaks>>

\* send_text to anyone else asks for their friendship first.
SendTextToStranger(p, q) ==
    /\ CanSendText(p, q)
    /\ status[p][q] # "friend"
    /\ UNCHANGED <<connections, live>>
    /\ status' = [status EXCEPT ![p][q] = "pending"]
    /\ Transmit(wire, p, Only(q, <<Control("friend_request")>>))
    /\ Keep(p, q, Anonymous(<<Control("friend_request")>>))
    /\ pendingAuto' = [pendingAuto EXCEPT ![p][q] = Append(@, NewText(p))]
    /\ history' = [history EXCEPT ![p] =
                     Append(@, [to |-> q, status |-> "queued"])]
    /\ UNCHANGED <<inbox, commands, breaks>>

Command(p, q, command) ==
    /\ Linked(p, q)
    /\ commands[command] < MaxCommands[command]
    /\ commands' = [commands EXCEPT ![command] = @ + 1]
    /\ UNCHANGED <<inbox, linkVars>>

RequestFriend(p, q) ==
    /\ Command(p, q, "add")
    /\ status[p][q] \in {"stranger", "pending"}
    /\ status' = [status EXCEPT ![p][q] = "pending"]
    /\ Transmit(wire, p, Only(q, <<Control("friend_request")>>))
    /\ Keep(p, q, Anonymous(<<Control("friend_request")>>))
    /\ UNCHANGED <<pendingAuto, history>>

AcceptFriend(p, q) ==
    /\ Command(p, q, "accept")
    /\ status[p][q] \in {"stranger", "pending"}
    /\ BecomeFriends(wire, p, q, <<Control("friend_accept")>>)

DeclineFriend(p, q) ==
    /\ Command(p, q, "reject")
    /\ status[p][q] # "unknown"
    /\ status' = [status EXCEPT ![p][q] = "blocked"]
    /\ Transmit(wire, p, Only(q, <<Control("friend_decline")>>))
    /\ Keep(p, q, Anonymous(<<Control("friend_decline")>>))
    /\ UNCHANGED <<pendingAuto, history>>

-----------------------------------------------------------------------------
(***************************************************************************)
(* What a node does with the next frame from p (Core._handle_body).  A     *)
(* registered link gave q the keys of p, so q can decrypt what it reads.   *)
(***************************************************************************)
Receives(q, p, type) ==
    /\ p \in connections[q]
    /\ wire[p][q] # <<>>
    /\ Head(wire[p][q]).type = type
    /\ UNCHANGED <<linkVars, commands>>

Consumed(q, p) == [wire EXCEPT ![p][q] = Tail(@)]

HandleFriendRequest(q, p) ==
    /\ Receives(q, p, "friend_request")
    /\ \/ /\ status[q][p] = "blocked"
          /\ wire' = Consumed(q, p)
          /\ UNCHANGED <<contactVars, queued, history>>
       \/ /\ status[q][p] = "friend"
          /\ Transmit(Consumed(q, p), q, Only(p, <<Control("friend_accept")>>))
          /\ Keep(q, p, Anonymous(<<Control("friend_accept")>>))
          /\ UNCHANGED <<contactVars, history>>
       \/ /\ status[q][p] \notin {"blocked", "friend"}
          /\ BecomeFriends(Consumed(q, p), q, p, <<Control("friend_accept")>>)
    /\ UNCHANGED inbox

\* Faulty variant: what waits for the friendship is not released.
AcceptWithoutRelease(q, p) ==
    /\ Receives(q, p, "friend_accept")
    /\ status' = [status EXCEPT ![q][p] = "friend"]
    /\ wire' = Consumed(q, p)
    /\ UNCHANGED <<pendingAuto, queued, history, inbox>>

HandleFriendAccept(q, p) ==
    /\ Receives(q, p, "friend_accept")
    /\ BecomeFriends(Consumed(q, p), q, p, <<>>)
    /\ UNCHANGED inbox

\* Faulty variant: only a request of one's own can be declined.
DeclineOfRequest(q, p) ==
    /\ Receives(q, p, "friend_decline")
    /\ status' = [status EXCEPT ![q][p] = IF @ = "pending" THEN "stranger" ELSE @]
    /\ wire' = Consumed(q, p)
    /\ UNCHANGED <<pendingAuto, queued, history, inbox>>

HandleFriendDecline(q, p) ==
    /\ Receives(q, p, "friend_decline")
    /\ status' = [status EXCEPT ![q][p] = "stranger"]
    /\ wire' = Consumed(q, p)
    /\ UNCHANGED <<pendingAuto, queued, history, inbox>>

\* The keys of peers never heard of make them contacts.
HandlePeerList(q, p) ==
    /\ Receives(q, p, "peer_list")
    /\ status' = [status EXCEPT ![q] = [r \in Peers |->
                    IF /\ status[q][p] = "friend"
                       /\ r \in Head(wire[p][q]).peers \ {q}
                       /\ status[q][r] = "unknown"
                    THEN "stranger" ELSE status[q][r]]]
    /\ wire' = Consumed(q, p)
    /\ UNCHANGED <<pendingAuto, queued, history, inbox>>

HandleText(q, p) ==
    /\ Receives(q, p, "text")
    /\ inbox' = IF status[q][p] = "friend"
                THEN [inbox EXCEPT ![q][p] = Append(@, Head(wire[p][q]).text)]
                ELSE inbox
    /\ wire' = Consumed(q, p)
    /\ UNCHANGED <<contactVars, queued, history>>

Deliver(q, p) ==
    \/ HandleFriendRequest(q, p)
    \/ HandleFriendAccept(q, p)
    \/ HandleFriendDecline(q, p)
    \/ HandlePeerList(q, p)
    \/ HandleText(q, p)

-----------------------------------------------------------------------------
(***************************************************************************)
(* What the transport does.  The first end to finish a handshake registers *)
(* a new link and the second one joins it; a new handshake, on a fresh     *)
(* socket, succeeds once neither end has the old link (LanLink models the  *)
(* handshake).                                                             *)
(***************************************************************************)
Handshaken(p, q) == p \in connections[q] => {p, q} \in live

\* Everything queued for a peer in reach leaves: Core.flush_queued.
FlushedTo(reach, p) ==
    [r \in Peers |-> IF r \in reach THEN Frames(queued[p][r]) ELSE <<>>]

FlushedUids(reach, p) == UNION {Uids(queued[p][r]) : r \in reach}

\* What p, a friend of q, sends when q connects.
Greeting(p, q) ==
    [r \in Peers |->
        IF status[p][q] # "friend" THEN <<>>
        ELSE IF r = q THEN Texts(pendingAuto[p][q]) \o Introduction(p, q)
        ELSE IF r \in Friends(p) THEN <<PeerList({q})>> ELSE <<>>]

\* _on_peer_change(q, connected = True)
Register(p, q) ==
    /\ Linked(p, q)
    /\ q \notin connections[p]
    /\ Handshaken(p, q)
    /\ LET reach == connections[p] \cup {q}
           released == IF status[p][q] = "friend"
                       THEN pendingAuto[p][q] ELSE <<>>
       IN  /\ connections' = [connections EXCEPT ![p] = reach]
           /\ live' = live \cup {{p, q}}
           /\ status' = [status EXCEPT ![p][q] =
                           IF @ = "unknown" THEN "stranger" ELSE @]
           /\ Transmit(wire, p, [r \in Peers |->
                                   FlushedTo(reach, p)[r] \o Greeting(p, q)[r]])
           /\ queued' = [queued EXCEPT ![p] = [r \in Peers |->
                           IF r \in reach THEN <<>> ELSE queued[p][r]]]
           /\ history' = [history EXCEPT ![p] = MarkSent(@,
                            FlushedUids(reach, p) \cup Members(released))]
           /\ pendingAuto' = IF status[p][q] = "friend"
                             THEN [pendingAuto EXCEPT ![p][q] = <<>>]
                             ELSE pendingAuto
    /\ UNCHANGED <<inbox, commands, breaks>>

\* The link stops carrying bytes; neither end knows yet.
Break(l) ==
    /\ l \in live
    /\ breaks < MaxBreaks
    /\ breaks' = breaks + 1
    /\ live' = live \ {l}
    /\ UNCHANGED <<contactVars, queued, history, inbox, connections, wire,
                   commands>>

\* on_peer_change(q, False): p closes its end, and what it had not read of
\* the broken link is lost; so is what it wrote, if q has no end of it.
Drop(p, q) ==
    /\ q \in connections[p]
    /\ {p, q} \notin live
    /\ connections' = [connections EXCEPT ![p] = @ \ {q}]
    /\ wire' = [wire EXCEPT ![q][p] = <<>>,
                            ![p][q] = IF p \in connections[q] THEN @ ELSE <<>>]
    /\ UNCHANGED <<contactVars, queued, history, inbox, live, commands, breaks>>

\* _flush_loop, every FLUSH_INTERVAL.
FlushLoop(p) ==
    /\ UNCHANGED <<contactVars, inbox, linkVars, commands>>
    /\ Transmit(wire, p, FlushedTo(connections[p], p))
    /\ queued' = [queued EXCEPT ![p] = [r \in Peers |->
                    IF r \in connections[p] THEN <<>> ELSE queued[p][r]]]
    /\ history' = [history EXCEPT ![p] =
                     MarkSent(@, FlushedUids(connections[p], p))]

-----------------------------------------------------------------------------

Next ==
    \/ \E p, q \in Peers :
          \/ SendTextToFriend(p, q)
          \/ SendTextToStranger(p, q)
          \/ RequestFriend(p, q)
          \/ AcceptFriend(p, q)
          \/ DeclineFriend(p, q)
          \/ Deliver(q, p)
          \/ Register(p, q)
          \/ Drop(p, q)
    \/ \E l \in Links : Break(l)
    \/ \E p \in Peers : FlushLoop(p)

Spec == Init /\ [][Next]_vars

\* A registered link has a read loop: what is on the wire gets read.
Fairness == \A p, q \in Peers : WF_vars(Deliver(q, p))

FairSpec == Spec /\ Fairness

-----------------------------------------------------------------------------
(***************************************************************************)
(* Properties.                                                             *)
(***************************************************************************)

\* Every variable keeps its type.
TypeOK ==
    /\ status \in [Peers -> [Peers -> Status]]
    /\ pendingAuto \in [Peers -> [Peers -> Seq(Nat)]]
    /\ queued \in [Peers -> [Peers -> Seq(QueueRecord)]]
    /\ history \in [Peers -> Seq(HistoryEntry)]
    /\ inbox \in [Peers -> [Peers -> Seq(Nat)]]
    /\ connections \in [Peers -> SUBSET Peers]
    /\ live \subseteq Links
    /\ wire \in [Peers -> [Peers -> Seq(Frame)]]
    /\ commands \in [Commands -> Nat]
    /\ breaks \in Nat

\* No text goes on waiting for a friendship that exists: whichever of the
\* three ways p came to regard q as a friend, _flush_pending_auto ran.
ReleasedToFriends ==
    \A p, q \in Peers : status[p][q] = "friend" => pendingAuto[p][q] = <<>>

\* Nothing is left in the queue for a peer that is connected: a connection
\* flushes it and no handler queues for a connected peer (so _flush_loop
\* finds nothing to do between direct peers).
QueuedOnlyForUnreachable ==
    \A p, q \in Peers : q \in connections[p] => queued[p][q] = <<>>

Addressees == [p \in Peers |-> [n \in DOMAIN history[p] |-> history[p][n].to]]

Mail == INSTANCE Mailbox WITH written <- Addressees, read <- inbox

\* A user reads the texts of another in the order they were written, each at
\* most once and only those written to it, whether they waited for a
\* friendship, in the queue, or neither: Session implements Mailbox.
ImplementsMailbox == Mail!Spec

Carried(frames) ==
    {frames[i].text : i \in {k \in DOMAIN frames : frames[k].type = "text"}}

Given(command) == commands[command] > 0

\* Nobody rejected and no link broke.
Calm == ~Given("reject") /\ breaks = 0

\* While nobody rejects and no link breaks, each text written for q is read
\* by q, on its way, in the queue or waiting for q's friendship: in no order
\* of requests, acceptances and connections does a receiver that is not yet
\* a friend discard it (_handle_body ignores texts of non-friends).
NothingLost ==
    Calm => \A p \in Peers : \A n \in DOMAIN history[p] :
        LET q == history[p][n].to
        IN  n \in Members(inbox[q][p]) \cup Carried(wire[p][q])
                  \cup Carried(Frames(queued[p][q])) \cup Members(pendingAuto[p][q])

Announces(frames, type) == \E i \in DOMAIN frames : frames[i].type = type

OnItsWay(p, q, type) ==
    Announces(wire[p][q], type) \/ Announces(Frames(queued[p][q]), type)

\* tests/test_core.py:308: an entry shown as queued becomes sent.  So it is
\* held somewhere that will mark it: in _pending_auto, or in the queue under
\* the uid of the entry, across rejections and broken links, as long as
\* nobody befriends by /accept a peer out of reach.
QueuedIsHeldInReach ==
    ~Given("accept") => \A p \in Peers : \A n \in DOMAIN history[p] :
        history[p][n].status = "queued" =>
            LET q == history[p][n].to
            IN  n \in Members(pendingAuto[p][q]) \cup Uids(queued[p][q])

\* While nobody rejects and no link breaks, a friendship only one side knows
\* of has its friend_accept on the way to the other.
FriendshipBacked ==
    Calm => \A p, q \in Peers :
        (status[p][q] = "friend" /\ status[q][p] # "friend")
            => OnItsWay(p, q, "friend_accept")

\* While no link breaks and nobody accepts by hand, a peer that blocks
\* another, with nothing more on its way, is no friend of the one it blocks:
\* the friend_decline undoes what the other made of a friend_accept sent
\* before.
BlockIsHeard ==
    breaks = 0 /\ ~Given("accept") => \A p, q \in Peers :
        (/\ status[p][q] = "blocked"
         /\ wire[p][q] = <<>>
         /\ queued[p][q] = <<>>)
            => status[q][p] # "friend"

\* Friends of a common friend learn each other's keys from it: once h, a
\* friend of p and q, has nothing more on the wire to its friend p, p has
\* q among its contacts, whoever came first.
HubIntroduces ==
    Calm => \A h, p, q \in Peers :
        (/\ p # q
         /\ {p, q} \subseteq Friends(h)
         /\ h \in Friends(p)
         /\ p \in connections[h] /\ h \in connections[p]
         /\ wire[h][p] = <<>>)
            => status[p][q] # "unknown"

\* README.md: /reject rejects and blocks the peer.  No user command lifts a
\* block, so a contact that is blocked stays so.
BlockedStaysBlocked ==
    [][\A p, q \in Peers :
          status[p][q] = "blocked" => status'[p][q] = "blocked"]_vars

\* Where nobody rejects and no link breaks, what waits for the friendship of
\* a connected peer is read by that peer.
AutoDelivery ==
    \A p \in Peers : \A q \in {r \in Peers : Linked(p, r)} :
      \A n \in 1..MaxTexts :
        (/\ n \in Members(pendingAuto[p][q])
         /\ q \in connections[p] /\ p \in connections[q])
            ~> n \in Members(inbox[q][p])
=============================================================================
