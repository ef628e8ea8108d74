# A verification project for howchat

howchat is a serverless chat program: every user runs one process, processes
on one network find each other by UDP beacons (or by Bluetooth), connect, and
send each other signed and encrypted envelopes, over relays when there is no
direct link. This directory models the part of it where order, failure and
concurrency matter, checks the models with TLC on small instances and proves,
with TLAPS, the safety properties that it checks for instances of every size.

Contents: [the system](#the-system) · [modules](#the-modules) ·
[runs](#the-runs) · [fairness](#fairness) · [proofs](#proofs) ·
[disagreements found](#disagreements-found) ·
[what is left out](#what-is-left-out) · [plan](#plan) ·
[how to run](#how-to-run)

## The system

| component | source | state | operations |
|---|---|---|---|
| Friends, texts, offline queue | `core.py`, `store.py` | contacts and their status, `_pending_auto`, `queued.json`, histories, `_peer_addr` | `send_text`, `request_friend`, `accept_friend`, `decline_friend`, `_handle_body`, `_on_peer_change`, `flush_queued`, `_flush_loop`, `_send_peer_list` |
| File transfer | `core.py`, dialog in `tui/app.py` | `_file_out`, `_pending_file_req`, `_file_rcv`, the dialogs | `send_file`, `accept_file`, `reject_file`, `_handle_file_ack`, `_assemble_file` |
| Routing | `routing.py` | the transports, neighbour table, `_seen`, `_seq` | `send`, `discover`, `forward`, `_handle_route_request`, `_handle_route_reply`, `add_neighbor`, `remove_neighbor` |
| LAN transport | `transport/lan.py` | `_connections`, a queue and two loops per connection | beacons, `connect_host`, handshake, read loop, write loop, `_drop`, `send_frame` |
| Bluetooth transport | `transport/bluetooth.py` | `_connections`, a queue and two loops per connection, jobs in the thread pool of `asyncio.to_thread` | `scan`, `connect_host`, accept loop, handshake, both loops, `_drop`, `send_frame` |
| Groups | `core.py`, `store.py` | `channels.json` | `send_group`, `_ensure_channel`, `/join`, `/leave` |
| Frames and envelopes | `protocol.py` | none | encode, decode, sign, verify |
| Encryption, identity | `crypto.py`, `identity.py` | key files | seal, open |
| Terminal interface | `tui/app.py` | a queue of events, the conversation on the screen, the list of contacts, dialogs | commands, opening a conversation, handlers of Core's callbacks |

**How they interact.** A process is one asyncio thread. A transport calls
`on_frame` for each frame its read loop reads, and `on_peer_change` when a
connection is registered or dropped; both run to their end before anything else
does, because no handler of `Core` or `Router` awaits. `Core` calls
`Router.send`; what that refuses goes to `queued.json` and is tried again when a
peer connects, when a route is found (`on_route`) and every 5 seconds. `Router`
calls `send_frame`, which only appends to the queue of a connection: that a
frame was taken says nothing of its arrival. There is no acknowledgement of a
text anywhere. Two things are outside that one thread of control: the sockets of
the Bluetooth transport block, so each of their operations runs in a thread
pool, and what Core tells the terminal is posted as an event and handled later.

**What is hard.** What follows from that design: two users act at the same time
on one friendship, whose two halves are kept on two machines and change by
messages that cross, wait in queues, or get lost with a link; a text may wait in
two different places for two different reasons, and either wait must end in
delivery, once and in order; the two ends of a link notice its end at different
times; two peers dial each other at once; a relay that cannot pass a message on
drops it silently; a group has as many lists of members as members, and a text
to it as many ways as readers; reads of quiet peers hold the threads that writes
need; the screen shows what was true when it was posted; a process that restarts
forgets part of its state and keeps the rest. `PROJECT.json` lists these hazards
line by line with the properties that cover each.

What makes each component correct:

* *Friends and texts*: a text is read once, in the order written, whatever its
  detour; none goes on waiting when nothing is missing any more; the two halves
  of a friendship come to agree; a rejected peer stops being a friend.
* *Files*: no data before consent; both histories tell the same story; an
  accepted file arrives.
* *Routing*: nothing is delivered twice or mistaken for a replay, discovery
  terminates and finds routes, replies find their way back, a message that is
  accepted is not lost.
* *Groups*: the texts of one writer are read in order, no copy is lost because
  another went a different way, members stay on the lists they got on, the mark
  of an entry means something.
* *LAN transport*: at most one connection per peer is in use, what Core
  believes is what is registered, frames keep their order, peers in range get
  connected.
* *Bluetooth transport*: the same, on a stream whose readers must not lose their
  place, and frames get written with a pool of any size.
* *Terminal*: what is on the screen is what is in the history, or about to be;
  a text goes where its user entered it.

## The modules

| module | models | extends |
|---|---|---|
| `Mailbox` | abstract: what the texts of one user promise another | |
| `Selection` | helper: the members of a sequence with a property, in their order | |
| `Session` | friends, texts, offline queue, between peers with direct links; implements `Mailbox` | |
| `Channels` | a group chat between peers with direct links | |
| `Routing` | the router of each node over the links of its transports, with its queue | |
| `LanLink` | TCP connections of the LAN transport | |
| `Bluetooth` | connections, thread pool and stream of the Bluetooth transport | |
| `FileTransfer` | the files one peer sends to another over one link | |
| `Terminal` | what the terminal shows of the histories and the neighbours | |
| `MCSession`, `MCRouting`, `MCLanLink`, `MCFileTransfer`, `MCChannels`, `MCBluetooth`, `MCTerminal` | small instances | the module of that name |
| `SelectionProofs` | lemmas about `Selection` | `Selection` |
| `SessionProofs`, `ChannelsProofs`, `RoutingProofs`, `LanLinkProofs`, `BluetoothProofs`, `FileTransferProofs`, `TerminalProofs` | theorems | the module of that name, `TLAPS` |

`Session` contains `Mailbox` (`INSTANCE ... WITH`). `Routing` and `Channels` use
`Selection` for what a flush takes out of a queue. The others stand on each
other by assumption: `LanLink` and `Bluetooth` show when frames are read in the
order they were sent and when connections get made and dropped; `Routing`,
`Session`, `Channels` and `FileTransfer` assume just that of a link:
`wire[p][q]` is first-in first-out, an end registers and drops it in steps of
its own, a break loses what is unread. `Session` and `Channels` further assume
of the router that an envelope for a connected peer goes to it and any other is
refused. That is so when no two peers share a relay, and the `Links` of
`Session` therefore never contain a cycle. `Routing` models what they leave out.

Operators introduced by a comment *Faulty variant* are not part of any
specification. Each is a definition with a plausible mistake; `PROJECT.json`
("mutants") names the property that notices it.

### Session

One variable for each piece of state in the code: `status` is
`contact.status` ("unknown" for no contact), `pendingAuto` is `_pending_auto`,
`queued` is `queued.json` split by destination, `history` the own texts of a
user with their queued/sent mark, `inbox` what the other's history shows,
`connections` the peers with a registered link. `live` and `wire` are the
network. A text is named by its place in its sender's history.

One action per command (`SendTextToFriend` and `SendTextToStranger` are the two
halves of `send_text`), per type of frame (`HandleFriendRequest`, ...), for a
connection (`Register`), its end at one side (`Drop`), the moment it stops
carrying bytes (`Break`), and the periodic flush (`FlushLoop`). Every action
makes all the calls its handler makes: `BecomeFriends` is `_become_friends`
with the peer lists it sends and `_flush_pending_auto`; `Register` is the
connected half of `_on_peer_change` with `flush_queued`, the greeting of a
friend and the introductions. `Break` also stands for a connection that is
registered at one end and refused at the other when two dials cross. A new
connection is made once neither end has the old one (`Handshaken`), and starts
empty: what was written to the old one and not read is lost with its last end
(`Drop`; the same in `Routing` and `FileTransfer`).

`Init` has every pair that may be linked as strangers to each other, as
friends, or not acquainted. Histories start empty. A restart of a process is
not modelled here: it would empty `pendingAuto`, which the code keeps in
memory, and make neighbours take the first envelopes for replays, which needs
the sequence numbers of `Routing` (hazard list).

`ImplementsMailbox` is the refinement: the texts of `Mailbox` are the entries of
the histories (`written <- Addressees`) and what is read is the inbox
(`read <- inbox`). A command to send maps to `Write`, a text that a friend
hands to its Core to `Read`, and every other action - requests, releases of
waiting texts, flushes, breaks - to a stutter. `Mailbox` lets a text get lost
and forbids all else: to be read twice, before an older one, or by the wrong
peer. `NothingLost` says when none is lost.

### Channels

One channel. `members` is its entry in each peer's `channels.json`, `history`
the own texts with their mark and uid, `queued` the copies in `queued.json`. A
text carries the list its writer had (`members` of the body), one copy of it
goes to each friend on that list, and `Orders` is the iteration over a set of
them, so that any of the queued copies may be the first one, whose uid the entry
keeps. `Merged` is `_ensure_channel`: lists only grow, except by one's own
/leave, and the writer of a text becomes a member even if there is nobody to
send it to and the user gets an error. Friendships are constant during a
behaviour and need not be mutual. `Peers` is assumed finite
(`ChannelsAssumption`): the members of a list are visited one after another.
`Break` takes the link and both its ends in one step; what lies between is in
`Session` and `LanLink`.

### Routing

A node reads one frame at a time; `Receive` splits by what `forward` does with
it. An end of a link is a transport and a neighbour, and `Way` is
`transport_for`: the first transport, in the order of registration, that has the
neighbour. `Emit` is `send_frame` to some ends at once; a request goes to every
neighbour on every transport. `FlushQueued` is `Core.flush_queued`, with the
discovery every refused message starts and the sequence number that discovery
uses. `Drop` is the end of one link at one side: `AfterLoss` keeps the entry
while another transport has the neighbour. `Restart` empties the table, `_seen`
and the counter and keeps the queue. `_seen` is never trimmed, as it is only
above 100000 keys. `Up` are the sets of links that may be up at first, with
nothing sent yet.

### LanLink

`phase[s][x]` is how far end `x` of socket `s` is; `Dial` makes a TCP
connection and both hellos, `Greet` is the end of a handshake at one side:
register, or close because there is a connection to that peer already. The read
loop (`Read`, `ReadEnds`) and the write loop (`Write`, `WriteFails`) of a
connection are separate because they end separately: `_drop` is called by
both, maybe twice, maybe after the peer has a new connection. `Cut` breaks a
socket, maybe in silence; `retrying` are the ends that wrote to it since, which
TCP will tell. Tasks that dial
one peer are collapsed into one (`dialing` is a set); `stop()` is left out.

### Bluetooth

Every accept, connect, `sendall` and read of a frame is a job of the node's
thread pool. `jobs[n]` is that pool with its queue: the first `Threads[n]` jobs
run. An action is the end of a job with what its coroutine does next, up to the
job it submits; `_read_loop` submits a read again and again, `_write_loop` a
write while `outbox` has something. `scan` connects, greets and reads in one job
(`Probe`, whose job turns from "connect" to "recv"), a dial in three. The stream
of a socket is a sequence of heads and bodies. A read that times out gives up
what it had (`TimeOut`): nothing, if the link was quiet, or a head, if it was
silent within a frame (`LinkIsSilent`), after which a body is read as a head
(`Misread`) and as many units as it seems to say are skipped (`Skip`). Lengths
are 1 and 3, one less and one more than a frame. `SendFails` covers the timeout
that the reads of the same socket set for its writes.

### Terminal

`events` is the queue of the app: messages posted by Core's callbacks (`Posted`,
`Updated`, `PeerEvent`) and what the user does (`Selected`, `Submitted`), in one
queue, in the order of the keys. `screen` is what was written since it was
cleared, `listed` the contacts marked as online. `HandleIncoming` writes an
entry whatever conversation is open, as the code does; `Open` shows the history
as it is at that moment. `chosen` is what the user opened last, to say what a
text entered then is meant for.

### FileTransfer

The offer, the dialog (a stack, since a newer dialog is shown on top and
Escape closes it without an answer), acknowledgement, chunks and assembly,
with the end of the friendship, a broken link and a restart of either process.
The sender's two variables `offer` and `answer` are the two things its history
shows of a file; a refused file keeps "waiting" and gets a second entry. One
direction and one link; the queue is empty while the link is up, so the
periodic flush does nothing and is left out, and so is the replay check, which
after a restart would refuse frames (see below).

## The runs

| run | instance | checks |
|---|---|---|
| `SessionPair` | 2 peers, 2 texts each, one /add, one /accept, two /reject, 1 break | `TypeOK`, `ReleasedToFriends`, `QueuedOnlyForUnreachable`, `FriendshipBacked`, `NothingLost`, `QueuedIsHeldInReach`, `BlockIsHeard`, `ImplementsMailbox` |
| `SessionHub` | a hub and two peers, 1 text each, one /accept | `HubIntroduces`, `AutoDelivery` |
| `Channels` | 3 peers: all friends, a hub, or one friendship one-sided; 2 texts, 1 /join, 1 /leave, 1 break | `TypeOK`, `WritersInOrder`, `EveryCopyCounts`, `EntryTells`, `RosterSpreads` |
| `RoutingKite` | 6 nodes, two ways to d, with e and f behind it, 2 messages, discovery ttl 3 | `RepliesReturn`, `QueueDrains`, `Delivery` |
| `RoutingChurn` | 3 nodes all linked, two of them by two transports, 1 message, 1 retry or /hop, 1 break, 1 restart | `TypeOK`, `NeighborsAreDirect`, `OnlyReplaysRejectedInOneLife`, `DeliveredOnce` |
| `LanLinkSafety` | 2 peers, 2 sockets, 2 frames each way, 2 failures | `TypeOK`, `OpenIsRegistered`, `CoreIsTold`, `ReadInOrder` |
| `LanLinkLive` | 2 peers, 2 sockets, 1 frame each way, 1 failure | `AutoConnectAlone`, `HalfOpenDropped` |
| `Bluetooth` | 2 devices, one socket dialled by each, pools of 1 and 2 threads, 2 frames, 1 failure | `TypeOK`, `OneJobForEach`, `FramesReadInOrder`, `FramesGetWritten` |
| `FileTransfer` | 2 files of 2 chunks, 1 break, 1 restart, 1 /reject | `TypeOK`, `DataOnlyAfterConsent`, `HistoriesAgree`, `TransferInHand`, `AcceptedArrives` |
| `Terminal` | a contact and a channel, 3 entries, 2 openings, 2 changes of a peer | `TypeOK`, `ScreenFollows`, `SentWhereEntered` |
| `SessionBlockUndone`, `RoutingTwoRelays` | | one property each, violated: see below |

Conditions inside properties. Several hold only of part of the behaviours, and
the run nevertheless explores the rest: `Calm` (nobody rejected, no link broke)
in `NothingLost`, `FriendshipBacked`, `HubIntroduces` and `TransferInHand`; no
break in `EveryCopyCounts` and, with no /accept, in `BlockIsHeard`; no /accept
in `QueuedIsHeldInReach`; no restart in `OnlyReplaysRejectedInOneLife`; no break
or restart in the last part of `RepliesReturn` (whose run has neither, and whose
theorem covers both); no failure in the second half of `FramesReadInOrder`; at
most one in `ReadInOrder`. Each condition is needed: an envelope on a broken
link is lost without notice, a text that reaches a peer that has rejected its
sender is ignored, and with two failures an end may finish the handshake of a
broken connection, and read the frames that were left in it, after it has read
newer frames from a connection that came and broke in between. For the rest see
[disagreements](#disagreements-found).

Why the bounds are enough.

* *Two peers* are all that is in a friendship, its texts and its queue. Two
  texts are needed for an order; one command of each kind by either peer, and a
  second /reject, lets both users act on the same friendship at the same time
  and take back what they did; a break separates what was sent before it from
  what is queued after it, and the link can come back any number of times.
* *A hub and two others* is the least in which a peer list says anything.
* The *kite* has a relay choice (b or c), replies that travel over two relays,
  and traffic in both directions. `DISCOVERY_TTL` is 3 instead of 5 so that a is
  at the last distance from f, ttl + 1, that a request reaches: an off-by-one
  there shows. Two relays are what it takes for a reply to turn back.
* *A group of three* is the least in which a text has two copies that go
  different ways and a list says something of a third. Two texts are needed for
  an order; the three circles of friendship are those in which readers, members
  and friends differ.
* *Three nodes in a triangle*, two of which start with one of their two
  transports and may get the other, go through every change between direct by
  either transport, direct by both, relayed and unreachable, with the restart of
  one that others have routes to. A restart takes all links of a node. What the
  run checks is about a node, its links and the envelopes it has seen. A stale
  route over a relay that lost the target needs a fourth node; it does happen,
  and no property says that it does not (see [disagreements](#disagreements-found)).
* *Two sockets* are a crossing pair, or an old connection that one end has not
  dropped and a new one. A third adds another that is refused: an end has
  one registered connection per peer and treats every other socket alike (the
  same invariants hold with three sockets, one frame each way and one failure).
* *Two Bluetooth devices* whose dials cross, with a pool of one thread, as many
  as the connections it may have, and one of two; the second end of the same
  stream is alike. One failure loses a link or a place.
* *A contact and a channel* are two conversations to move between, of which one
  has a mark in the list; a history starts empty or with a queued text.
* *Two files of two chunks*: the dialogs stack and a file has a first and a
  last chunk.

Symmetry is used in `SessionPair` (both peers are alike) and `LanLinkSafety`
(sockets are alike). They check invariants and `ImplementsMailbox`, which has no
liveness part and treats peers alike.
Deadlock is checked in `LanLinkSafety`, where the beacons go on for ever. The
other instances end when the bounded commands, breaks and messages are used up
and every queue is empty, hence `CHECK_DEADLOCK FALSE`.

## Fairness

* `Session`, `Routing`, `FileTransfer`: weak fairness of handling the next
  frame of each registered link. A connection has a read loop task that is
  scheduled whenever there is something to read, and no handler blocks. No
  fairness of users, breaks, drops, connections or the periodic flush is
  assumed, so `AutoDelivery` and `Delivery` are promises about peers that are
  connected; `QueueDrains` and `Delivery` are checked without breaks.
* `LanLink`: weak fairness of hearing beacons (sent every `BEACON_INTERVAL`, 5
  seconds, for ever), of dialling tasks, of both loops while the network
  carries what they write, and of a handshake's end: by the hello that has
  arrived, or, when none can come, by the time limit (`wait_for` with
  `HANDSHAKE_TIMEOUT`, lan.py:270), which makes it certain even on a connection
  that broke in silence. A read has no time limit (lan.py:310) and nothing sets
  `SO_KEEPALIVE`, so the end of a read is fair only when TCP tells it
  (`TcpTells`): the other end closed while the network held, or this end wrote
  to a broken connection (`retrying`) and nobody acknowledges. An idle end of a
  broken connection may keep it for ever; `ReadEnds` lets it notice but does not
  make it. The properties say so: `AutoConnectAlone` has the conditions that
  from some time on at most one socket is in use, since dials may cross for
  ever, and no read loop waits for a broken one (`Unnoticed`);
  `HalfOpenDropped` is about a close that comes through, and about a broken
  connection with a frame to write.
* `Bluetooth`: weak fairness of the jobs that the pool runs. Threads are
  scheduled, `accept`, `recv` and a write to a link that holds come back or
  reach their timeouts, and the loop then runs the coroutine that waits for the
  job. Nobody has to dial, send or fail. `FramesGetWritten` needs the idle
  timeout: without it the quiet read of the one thread of `b` would keep its
  write waiting for ever.

## Proofs

Every invariant that a passing run checks is also a theorem, for every value of
the constants that the `...Assumption` of its module allows (TLC evaluates these
in each run), and so is the refinement `ImplementsMailbox`. The bounds on
messages, breaks and commands are constants like the others: the theorems hold
for every bound, hence for any number of steps of each kind. Each invariant
below was checked by TLC, as an invariant of the run of its module, before it
was proved.

| module | theorem | states | by |
|---|---|---|---|
| `SessionProofs` | `Typing`, `Released`, `QueueFlushed` | `TypeOK`, `ReleasedToFriends`, `QueuedOnlyForUnreachable` | each is inductive, given those before it |
| | `Refinement` | `ImplementsMailbox` | `Lines` |
| | `EntriesHeld` | `QueuedIsHeldInReach` | `AllHeld` |
| | `Backed`, `Lossless`, `HubTells` | `FriendshipBacked`, `NothingLost`, `HubIntroduces` | `Courtesy`, `EveryTextTraced`, `Introductions` |
| | `BlockHeard` | `BlockIsHeard` | `Rebuffs` |
| `ChannelsProofs` | `ChannelsTyping`, `Spreading` | `TypeOK`, `RosterSpreads` | inductive |
| | `ReadAsWritten` | `WritersInOrder` | `Counted`, `Lines` |
| | `NoCopyLost`, `MarksTell` | `EveryCopyCounts`, `EntryTells` | `UidsRead`, and the two above |
| `RoutingProofs` | `RoutingTyping`, `Directness` | `TypeOK`, `NeighborsAreDirect` | inductive together, with `RoutesBegun` |
| | `ReplaysOnly` | `OnlyReplaysRejectedInOneLife` | `Given`, `Numbered` |
| | `OnceOnly` | `DeliveredOnce` | `Given`, `Alone` |
| | `WaysBack` | `RepliesReturn` | `LinksKept`, `WiresOnCourse` |
| `LanLinkProofs` | `LanTyping`, `Registering`, `Telling` | `TypeOK`, `OpenIsRegistered`, `CoreIsTold` | `LanInvariant` |
| | `FramesInOrder` | `ReadInOrder` | `Sequence` |
| `BluetoothProofs` | `BluetoothTyping`, `OneJob` | `TypeOK`, `OneJobForEach` | `PoolInvariant` |
| | `FramesInOrder` | `FramesReadInOrder` | `DataInvariant` |
| `FileTransferProofs` | `FileTyping`, `Consent`, `Agreement`, `Transfers` | `TypeOK`, `DataOnlyAfterConsent`, `HistoriesAgree`, `TransferInHand` | `FileInvariant` |
| `TerminalProofs` | `TerminalTyping`, `Follows`, `SentThere` | `TypeOK`, `ScreenFollows`, `SentWhereEntered` | `TerminalInvariant` |

In all of them there is one step per action, and under it one per part of the
invariant that the action can disturb.

**Session.** `status[p][q]` becomes "friend" only in `BecomeFriends`, which
empties `pendingAuto[p][q]` in the same step, and a text is added to it only in
`SendTextToStranger`, which makes the status "pending"; a connection is added
only by `Register`, which empties the queue of everybody then connected. So the
first three are inductive. For the refinement, the texts of p for q stand in
one line: what q read, what is on the wire, in the queue, and waiting for the
friendship, with rising numbers within each and from each to the next (`Lines`).
It needs `Released`, since a text sent to a friend would overtake one that
waits, and `QueueFlushed`, since one sent to a connected peer would overtake one
in the queue. Every step then is a `Write`, a `Read` or a stutter of `Mailbox`
(`NextMail`).

The other properties speak of what is *on its way*, and only while no link
breaks. Then wire and queue together are one line of frames, `Way(p, q)`, whose
front q reads and to whose end p adds, whatever connections come and go:
`NextTurns` shows that every step is one peer's turn (`Turn`), in which it reads
from some ways, adds to its own and changes its own status, and says what it may
add for which change (`Speaks`). On that one fact rest four invariants:
`Courtesy` (a friendship one side does not know of has a friend_accept on its
way, and a text or peer list comes after it), `EveryTextTraced`,
`Introductions` and `Rebuffs` (what is on its way to a blocked peer ends with
the rejection). The properties themselves are not inductive: each says that
something is on its way and leaves open what is before it.

**Channels.** As `Lines` above, with the copies for all readers in one queue: a
flush takes those for connected peers and leaves the others, in their order.
What it takes and leaves is given by `Picked`, about which `SelectionProofs` has
the lemmas (`Ranks`, and what is picked keeps its order and is all there is). A
definition by recursion would need induction over data, which cannot be proved
here, hence that form. `EntryTells` needs that the uid an entry keeps is that of
a copy for one of its readers (`UidsRead`).

**Routing.** A reply has gone over a link at least, so its entry never replaces
a direct one; a request carries the nodes it has passed, its sender first
(`RoutesBegun`), so a reply has somewhere to go. `DeliveredOnce` holds across
breaks and restarts, hence not because of `_seen`, which a restart empties: a
message is in one queue, on one wire or delivered, and at one place only
(`Alone`). For `OnlyReplaysRejectedInOneLife`, a number is given out once while
nobody restarts, so two envelopes with the same number are copies of one
message, and one its target has seen is delivered (`Numbered`). `RepliesReturn`
says of a reply what holds already of the request it answers: the nodes a
request has passed and the one that is to read it are a trail of links that
visits no node twice and is no longer than its ttl allows, and the reply is sent
with that trail reversed (`WiresOnCourse`). That every relay still has the next
node for a neighbor needs that, while nothing breaks, a neighbor is the other
end of a link that is up (`LinksKept`), so that no end is dropped. The lemmas
`FlushEffect`, `ReadEffect` and `EmitsAt` say what a handler does to queues and
wires, so that the proofs of the three do not repeat it.

**LanLink.** `OpenIsRegistered` speaks of `Other(s, x)`, so the induction needs
that a socket in use has exactly two ends (`TwoEnds`), hence that nobody dials
itself (`OthersDialled`), that write loops belong to ends (`WritersAreEnds`),
and the reverse direction for sockets that are not between the right peers
(`RegisteredIsOpen`). `GreetStep` (a handshake ends), `CloseStep` (a connection
ends, by whichever loop and however late) and `SocketStep` (a socket is taken or
given up) carry the argument. The order of frames across connections needs more,
as a peer may have several sockets to another with unread frames on each. The
sender of frames on a socket that is not broken still holds it (`SenderHolds`),
so it has only one such; frames on a broken socket are older than those on
another (`BrokenIsOlder`); and what a peer may still read on a socket is newer
than all it has read, or it will refuse that socket, since the connection the
two have will last (`NewerToRead`).

**Bluetooth.** The pool of a device never holds a job twice, and the phase of a
socket says which jobs there may be for it (`JobsFit`). What an end writes is a
line again: read, in the stream, to be written; in the stream each head is
followed by its body (`Line`). No frame is in the lines of two sockets
(`Numbered`), nothing but the hello is read or written before an end is open
(`Hellos`), and while no link fails no reader loses its place (`Calm`). That a
read which has lost its place reads no frame at all until it has skipped
something is what makes the first half of `FramesReadInOrder` hold after
failures.

**FileTransfer.** An offer is in one place at a time: not made, on its way, in a
dialog, or answered (`OfferedOnce`). It is then answered once, so that what an
acknowledgement (`AcksTell`) or a chunk (`ChunksTell`) says of the answer stays
true while it is on its way.

**Terminal.** The invariant says of the whole queue of events what the
properties say of its head: which conversation will be on the screen when an
event is handled (`Entered`), that posted entries of a conversation are in order
(`InOrder`), that an entry not on the screen is among them (`Covered`), and that
one whose mark has changed since is followed by an update (`MarksIn`).

**Not proved.** Liveness under fairness is beyond the prover: `AutoDelivery`,
`QueueDrains`, `Delivery`, `AutoConnectAlone`, `HalfOpenDropped`,
`FramesGetWritten` and `AcceptedArrives` are checked by TLC only. The two runs
that expect a violation are counterexamples.

## Disagreements found

Two are runs in which TLC finds a statement of the repository violated.

1. `SessionBlockUndone`: `/reject` "rejects and blocks" (README.md:63, 79), but
   `_become_friends` sets the status to friend whatever it was. A
   `friend_accept` that is on its way when the user rejects lifts the block.
2. `RoutingTwoRelays`: a route reply updates only the table of the node that
   asked. Over two relays the first has no entry for the target and drops the
   message, which its sender shows as sent (README.md:8 promises relays).

The others are in the conditions of properties, or in what they allow: stated
without that, TLC finds the behaviour described.

3. `QueuedIsHeldInReach`: `_flush_pending_auto` (core.py:209) drops the uid
   `_dispatch` returns when it queues. After `/accept` of a peer out of reach,
   texts that waited are delivered later and shown as queued for ever
   (tests/test_core.py:308 expects "sent").
4. `OnlyReplaysRejectedInOneLife`: sequence numbers start at 0 in every process
   (routing.py:25) while the neighbours remember the old ones: after a restart
   the first envelopes are rejected as replays (README.md:84).
5. `AutoConnectAlone`: of two crossing connections each end keeps the one whose
   hello it read first (lan.py:289). If they choose differently both close, and
   the next dials may cross again (README.md:35 promises that peers connect).
   The same holds of Bluetooth (bluetooth.py:196). And an end that has nothing
   to write does not notice a silent break (lan.py:310): it does not dial again
   (lan.py:191) and refuses the other's new connection (lan.py:289).
6. `NeighborsAreDirect` speaks of direct entries only: a route over a relay that
   lost the target stays in the table, and a new one that is not shorter does
   not replace it (routing.py:54, 179), so that from four nodes on messages are
   given to a relay that drops them although there is another (README.md:8).
7. `EntryTells`: a group text is marked sent when the first queued copy leaves,
   while others still wait (core.py:293).
8. `RosterSpreads`: `/leave` tells nobody, and the next text of the group that
   arrives puts the user back on its own list (core.py:611). `/join` without
   members takes the neighbours, friends or not (app.py:935), where README.md:64
   says friends that are online.
9. `FramesReadInOrder`: a Bluetooth read that times out within a frame continues
   in its middle (bluetooth.py:213), and what it takes for a length decides how
   much is skipped.
10. `ScreenFollows`: an entry posted while another conversation is being opened
    is written to whatever is on the screen, and twice if the opened history
    already has it (app.py:463).

Met on the way, without a property: a friend request lost with a link is not
sent again unless the user writes once more (README.md:77).

## What is left out

* *Content*: texts, names and file bytes are abstract, cryptography is perfect
  (an envelope is what its sender made), a checksum always matches.
* *Writes to disk* are atomic (`_atomic_write` replaces a file), so a crash
  inside one is not modelled. A restart between two handlers is, in `Routing`
  and `FileTransfer`.
* *Discovery*: the sockets of the LAN beacons, the interface scan and the search
  for Bluetooth devices and services, of which only the attempts to connect
  they start are modelled; `start()` and `stop()` of both transports.
* *The frames of the LAN transport*: `asyncio` reads exactly as many bytes as
  asked for and a read loop has no timeout, so no place can be lost; only the
  Bluetooth stream is modelled in heads and bodies. `decode_frame_buffer` is
  called by a test only.
* *LAN and Bluetooth in `Session`*: one link for each pair of peers. What two
  transports change is in `Routing`: the neighbours, the table, and that frames
  may overtake each other.
* *The mark of a stranger* in the list of contacts, and refreshes that nothing
  posts: a contact whose status changed by a frame is shown as before until the
  next event (app.py:474). `ScreenFollows` is about the marks of friends as
  online only.
* *The queues of the widgets*: a selection and a text reach the app by the list
  and the input line (app.py:520, 575), each with a queue of its own. `Terminal`
  has one queue, in the order of the keys, which assumes that a widget handles a
  key before the next one is pressed.
* *Texts over a relay in `Session`*: a text is written to peers to which there
  can be a direct link (`CanSendText`), while the code asks only for the key
  (core.py:239). Which relay a message takes, and
  whether it arrives, is in `Routing`.
* *A crash between two statements of a handler*, as between the ack of
  `accept_file` and its history entry (core.py:401, 410): a process restarts
  between handlers only.
* *A `recv` in progress* on a Bluetooth socket that its own write loop closed: in
  the code it is not interrupted and may still give a frame to the router after
  the peer was dropped (bluetooth.py:212); in `Bluetooth` it ends with the
  socket.
* *Rendering, menus, argument parsing, key generation*: no property is about
  them.

## Plan

Order of modules, all done: `Session`, `Routing`, `LanLink`, `FileTransfer`,
then `Mailbox` with the refinement, `Channels`, `Bluetooth`, `Terminal`, and
`Routing` over several transports. The proofs followed in the order of the table
above: the refinement first, then one component after another.

Next: `Session` with the restart of a process, which empties `pendingAuto` and
keeps the queue, together with the replay check, if a run of it can share an
instance; then which of the theorems survive it. Those of `FileTransfer` and of
`Routing` are about processes that restart already.

## How to run

    tlc -workers 2 -config SessionPair.cfg MCSession
    tlapm SessionProofs.tla

and so on for the other runs, in the table above, and the other modules whose
name ends in `Proofs`. Each run takes at most about two minutes on two cores.
From nothing, `SessionProofs` takes eight to ten minutes, `BluetoothProofs`,
`ChannelsProofs` and `RoutingProofs` a few, the others less.
