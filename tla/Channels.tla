------------------------------ MODULE Channels ------------------------------
(***************************************************************************)
(* A group chat: send_group and _ensure_channel of Core (core.py) over the *)
(* channel table, history and queue of Store (store.py), with /join and    *)
(* /leave (tui/app.py), for one channel and peers with direct links.       *)
(*                                                                         *)
(* A group has no server: each peer keeps its own list of members, and a   *)
(* text is sent to each of the writer's friends on it as an envelope of    *)
(* its own, with the list.  A handler is one action.  The link between two *)
(* peers is registered at one end, then at the other, and lost at both (see *)
(* Session and LanLink for what happens in between).                       *)
(***************************************************************************)
EXTENDS Naturals, Sequences, FiniteSets, Selection

CONSTANTS
    Peers,
    Friendships,  \* the ways in which the peers may regard each other
    MaxTexts,     \* bound on the texts of all the peers
    MaxJoins, MaxLeaves, MaxBreaks  \* bounds on what their names say

ASSUME ChannelsAssumption ==
    /\ IsFiniteSet(Peers)
    /\ Friendships \subseteq [Peers -> SUBSET Peers]
    /\ \A friends \in Friendships : \A p \in Peers : p \notin friends[p]
    /\ MaxTexts \in Nat /\ MaxJoins \in Nat
    /\ MaxLeaves \in Nat /\ MaxBreaks \in Nat

VARIABLES
    friends,      \* friends[p]: the peers p regards as friends
    members,      \* members[p]: the channel's entry in p's channels.json
    history,      \* history[p]: p's own texts in the channel, as p sees them
    inbox,        \* inbox[p]: the texts of others in p's channel, in order
    queued,       \* queued[p]: p's queued.json
    wire,         \* wire[p][q]: texts on their way from p to q
    connections,  \* connections[p]: the peers p has a registered link to
    joins, leaves, breaks

vars == <<friends, members, history, inbox, queued, wire, connections, joins,
          leaves, breaks>>

-----------------------------------------------------------------------------

\* A text, with the members its writer knew of.
Text == [from : Peers, number : Nat, members : SUBSET Peers]

\* A record of the queue is a copy of a text for one member.
Copy == [text : Text, to : Peers]

\* An entry keeps the uid of one queued copy: of the copy for that member.
Entry == [text : Text, status : {"queued", "sent"}, uid : SUBSET Peers]

Init ==
    /\ friends \in Friendships
    /\ members = [p \in Peers |-> {}]
    /\ history = [p \in Peers |-> <<>>]
    /\ inbox = [p \in Peers |-> <<>>]
    /\ queued = [p \in Peers |-> <<>>]
    /\ wire = [p \in Peers |-> [q \in Peers |-> <<>>]]
    /\ connections = [p \in Peers |-> {}]
    /\ joins = 0 /\ leaves = 0 /\ breaks = 0

-----------------------------------------------------------------------------
Written == UNION {{history[p][n].text : n \in DOMAIN history[p]} : p \in Peers}

(***************************************************************************)
(* What a user does.                                                       *)
(***************************************************************************)

\* /join with some members, or with the neighbors; the dialog does the same.
Join(p) ==
    /\ joins < MaxJoins
    /\ joins' = joins + 1
    /\ \E chosen \in SUBSET Peers :
          members' = [members EXCEPT ![p] = @ \cup {p} \cup chosen]
    /\ UNCHANGED <<friends, history, inbox, queued, wire, connections, leaves,
                   breaks>>

\* /leave takes the user off its own list; nobody is told.
Leave(p) ==
    /\ p \in members[p]
    /\ leaves < MaxLeaves
    /\ leaves' = leaves + 1
    /\ members' = [members EXCEPT ![p] = @ \ {p}]
    /\ UNCHANGED <<friends, history, inbox, queued, wire, connections, joins,
                   breaks>>

\* The iteration over a set of friends takes them in any order.
Orders(S) ==
    {order \in [1..Cardinality(S) -> S] : {order[i] : i \in DOMAIN order} = S}

Copies(text, order) ==
    [i \in DOMAIN order |-> [text |-> text, to |-> order[i]]]

\* Faulty variant: the uid of the first copy, queued or not.
FirstOfAll(to, order) == {CHOOSE m \in to : TRUE}

\* first_uid: that of the first copy that was queued.
FirstUid(to, order) == IF order = <<>> THEN {} ELSE {order[1]}

\* Faulty variant: the mark of a file that waits for an answer.
MarkWaiting(order) == IF order = <<>> THEN "sent" ELSE "waiting"

Mark(order) == IF order = <<>> THEN "sent" ELSE "queued"

\* send_group makes the writer a member (again), then sends a copy to each
\* member that is a friend: by the link if there is one, else by the queue.
\* (Without such a member the new list is kept and the user gets an error.)
SendGroup(p) ==
    /\ Cardinality(Written) < MaxTexts
    /\ LET all == members[p] \cup {p}
           to == all \cap friends[p]
           text == [from |-> p, number |-> Len(history[p]) + 1, members |-> all]
       IN  /\ members' = [members EXCEPT ![p] = all]
           /\ \E order \in Orders(to \ connections[p]) :
                 /\ queued' = [queued EXCEPT ![p] = @ \o Copies(text, order)]
                 /\ history' = IF to = {} THEN history
                       ELSE [history EXCEPT ![p] = Append(@,
                              [text |-> text, uid |-> FirstUid(to, order),
                               status |-> Mark(order)])]
           /\ wire' = [wire EXCEPT ![p] = [q \in Peers |->
                 IF q \in to \cap connections[p] THEN Append(@[q], text)
                                                 ELSE @[q]]]
    /\ UNCHANGED <<friends, inbox, connections, joins, leaves, breaks>>

-----------------------------------------------------------------------------

\* Faulty variant: only those the writer knew of that the reader can reach.
MergedInReach(q, text) ==
    members[q] \cup {q, text.from} \cup (text.members \cap connections[q])

\* _ensure_channel: lists only grow.
Merged(q, text) == members[q] \cup {q, text.from} \cup text.members

\* _handle_body with a text of the group.
ReceiveText(q, p) ==
    /\ p \in connections[q]
    /\ wire[p][q] # <<>>
    /\ wire' = [wire EXCEPT ![p][q] = Tail(@)]
    /\ IF p \in friends[q]
       THEN LET text == Head(wire[p][q])
            IN  /\ members' = [members EXCEPT ![q] = Merged(q, text)]
                /\ inbox' = [inbox EXCEPT ![q] = Append(@, text)]
       ELSE UNCHANGED <<members, inbox>>
    /\ UNCHANGED <<friends, history, queued, connections, joins, leaves, breaks>>

-----------------------------------------------------------------------------

\* Faulty variants: the queue is sent last first; a text leaves the queue as
\* soon as one copy of it does.
LeavingLastFirst(copies, q) ==
    LET those == Picked(copies, {i \in DOMAIN copies : copies[i].to = q})
    IN  [i \in DOMAIN those |-> those[Len(those) - i + 1]]

StayingWithoutText(copies, q) ==
    Picked(copies, {i \in DOMAIN copies :
        \A j \in DOMAIN copies :
            copies[j].to = q => copies[j].text # copies[i].text})

Leaving(copies, q) ==
    Picked(copies, {i \in DOMAIN copies : copies[i].to = q})

Staying(copies, q) ==
    Picked(copies, {i \in DOMAIN copies : copies[i].to # q})

\* _on_peer_change(q, connected): flush_queued sends the copies for q and
\* marks the entries that carry the uid of one of them.
Register(p, q) ==
    /\ p # q
    /\ q \notin connections[p]
    /\ connections' = [connections EXCEPT ![p] = @ \cup {q}]
    /\ LET leaving == Leaving(queued[p], q)
       IN  /\ wire' = [wire EXCEPT ![p][q] =
                         @ \o [i \in DOMAIN leaving |-> leaving[i].text]]
           /\ queued' = [queued EXCEPT ![p] = Staying(@, q)]
           /\ history' = [history EXCEPT ![p] = [n \in DOMAIN @ |->
                 IF \E i \in DOMAIN leaving : /\ leaving[i].text = @[n].text
                                              /\ leaving[i].to \in @[n].uid
                 THEN [@[n] EXCEPT !.status = "sent"] ELSE @[n]]]
    /\ UNCHANGED <<friends, members, inbox, joins, leaves, breaks>>

\* The link between p and q is lost, with what is on it.
Break(p, q) ==
    /\ q \in connections[p]
    /\ breaks < MaxBreaks
    /\ breaks' = breaks + 1
    /\ connections' = [connections EXCEPT ![p] = @ \ {q}, ![q] = @ \ {p}]
    /\ wire' = [wire EXCEPT ![p][q] = <<>>, ![q][p] = <<>>]
    /\ UNCHANGED <<friends, members, history, inbox, queued, joins, leaves>>

-----------------------------------------------------------------------------

Next ==
    \/ \E p \in Peers : Join(p) \/ Leave(p) \/ SendGroup(p)
    \/ \E p, q \in Peers : ReceiveText(q, p) \/ Register(p, q) \/ Break(p, q)

Spec == Init /\ [][Next]_vars

-----------------------------------------------------------------------------
(***************************************************************************)
(* Properties.                                                             *)
(***************************************************************************)

\* Every variable keeps its type.
TypeOK ==
    /\ friends \in Friendships
    /\ members \in [Peers -> SUBSET Peers]
    /\ history \in [Peers -> Seq(Entry)]
    /\ inbox \in [Peers -> Seq(Text)]
    /\ queued \in [Peers -> Seq(Copy)]
    /\ wire \in [Peers -> [Peers -> Seq(Text)]]
    /\ connections \in [Peers -> SUBSET Peers]
    /\ {joins, leaves, breaks} \subseteq Nat

\* The readers of a text: the members its writer regards as friends.
Readers(text) == text.members \cap friends[text.from]

Has(texts, text) == \E i \in DOMAIN texts : texts[i] = text
IsQueued(text, m) ==
    \E i \in DOMAIN queued[text.from] : queued[text.from][i] = [text |-> text, to |-> m]

\* A member reads the texts of one writer in the order they were written,
\* each once, though some come by the queue and some by the link.  (Texts of
\* different writers come in any order, an answer before what it answers.)
WritersInOrder ==
    \A p \in Peers : \A i, j \in DOMAIN inbox[p] :
        i < j /\ inbox[p][i].from = inbox[p][j].from
            => inbox[p][i].number < inbox[p][j].number

\* While no link breaks, no copy of a text is lost because another one went
\* a different way: each is queued, on its way or read, unless its reader
\* does not regard the writer as a friend.
EveryCopyCounts ==
    breaks = 0 => \A p \in Peers : \A n \in DOMAIN history[p] :
        LET text == history[p][n].text
        IN  \A m \in Readers(text) :
              \/ IsQueued(text, m)
              \/ Has(wire[p][m], text)
              \/ Has(inbox[m], text)
              \/ p \notin friends[m]

\* tests/test_core.py:308: an entry shown as queued becomes sent.  The entry
\* of a text with many copies is queued only while a copy is in the queue,
\* the one that will mark it, and sent only after a copy has left.  (It does
\* not tell that every copy has left: the first one marks it.)
EntryTells ==
    \A p \in Peers : \A n \in DOMAIN history[p] :
        LET entry == history[p][n]
            waits == {m \in Readers(entry.text) : IsQueued(entry.text, m)}
        IN  /\ entry.status = "queued" => entry.uid \cap waits # {}
            /\ entry.status = "sent" => waits # Readers(entry.text)

\* tests/test_core.py:247: the member list spreads with the texts.  Whoever
\* read a text keeps its writer and everyone its writer knew of on its list,
\* whatever it reads, writes and joins later, itself excepted if it left.
RosterSpreads ==
    \A p \in Peers : \A i \in DOMAIN inbox[p] :
        (inbox[p][i].members \cup {inbox[p][i].from}) \ {p} \subseteq members[p]
=============================================================================
