---------------------------- MODULE FileTransfer ----------------------------
(***************************************************************************)
(* The files one peer sends to another (core.py: send_file, accept_file,   *)
(* reject_file, _handle_file_ack, _handle_body, _assemble_file; the dialog *)
(* of tui/app.py), over one direct link with the offline queue.            *)
(*                                                                         *)
(* The two peers start as friends.  Either may end the friendship; its     *)
(* renewal is Session's.  _file_out, _pending_file_req, _file_rcv and the  *)
(* dialogs live in memory and are gone after a restart; the queue, the     *)
(* histories and files/ are not.                                           *)
(***************************************************************************)
EXTENDS Naturals, Sequences, FiniteSets

CONSTANTS
    Files,        \* what the sender may send, each once
    Chunks,       \* the number of chunks of a file
    MaxBreaks,    \* bound on the times the link breaks
    MaxRestarts,  \* bound on the restarts of the two processes
    MaxDeclines   \* bound on /reject

ASSUME FileTransferAssumption ==
    /\ Chunks \in Nat \ {0}
    /\ MaxBreaks \in Nat /\ MaxRestarts \in Nat /\ MaxDeclines \in Nat

VARIABLES
    fileOut,      \* _file_out of the sender: the offers without an answer
    offer,        \* offer[f]: the status of the sender's history entry of f
    answer,       \* answer[f]: the answer to f the sender's history shows
    dialogs,      \* the confirmation dialogs of the receiver, a stack
    requests,     \* _pending_file_req of the receiver
    parts,        \* _file_rcv of the receiver: files to the chunks received
    shown,        \* shown[f]: what the receiver's history says of f
    friend,       \* friend[p]: p regards the other as a friend
    connected,    \* the peers with a registered link to the other
    live,         \* the link carries bytes
    queued,       \* queued[p]: p's queued.json
    wire,         \* wire[p]: frames on their way from p
    breaks, restarts, declines

senderVars == <<fileOut, offer, answer>>
receiverVars == <<dialogs, requests, parts, shown>>
linkVars == <<connected, live>>
counters == <<breaks, restarts, declines>>
vars == <<fileOut, offer, answer, dialogs, requests, parts, shown, friend,
          connected, live, queued, wire, breaks, restarts, declines>>

-----------------------------------------------------------------------------

Peers == {"sender", "receiver"}
Peer(p) == CHOOSE q \in Peers : q # p

\* n is the number of a chunk, and 1 or 0 for an ack that accepts or refuses.
FileFrame == [type : {"file_meta", "file_ack", "file_chunk"}, file : Files,
              n : Nat]
DeclineFrame == [type : {"friend_decline"}]

Meta(f) == [type |-> "file_meta", file |-> f, n |-> 0]
\* Faulty variant: every answer is yes.
AckAlways(f, n) == [type |-> "file_ack", file |-> f, n |-> 1]

Ack(f, n) == [type |-> "file_ack", file |-> f, n |-> n]

\* Faulty variants: chunks are numbered from 0; the last one is missed.
ChunksFromZero(f) == [i \in 1..Chunks |->
                         [type |-> "file_chunk", file |-> f, n |-> i - 1]]
AllButLast(f) == [i \in 1..(Chunks - 1) |->
                     [type |-> "file_chunk", file |-> f, n |-> i]]

AllChunks(f) == [i \in 1..Chunks |->
                    [type |-> "file_chunk", file |-> f, n |-> i]]
Decline == [type |-> "friend_decline"]

NoParts == [f \in {} |-> {}]
Without(function, x) == [y \in DOMAIN function \ {x} |-> function[y]]

Init ==
    /\ fileOut = {}
    /\ offer = [f \in Files |-> "none"]
    /\ answer = [f \in Files |-> "none"]
    /\ dialogs = <<>>
    /\ requests = {}
    /\ parts = NoParts
    /\ shown = [f \in Files |-> {}]
    /\ friend = [p \in Peers |-> TRUE]
    /\ connected = {}
    /\ live = FALSE
    /\ queued = [p \in Peers |-> <<>>]
    /\ wire = [p \in Peers |-> <<>>]
    /\ breaks = 0 /\ restarts = 0 /\ declines = 0

-----------------------------------------------------------------------------

\* _dispatch of every frame of frames by p, with w on the wire before.
Dispatch(w, p, frames) ==
    /\ wire' = IF p \in connected /\ live
               THEN [w EXCEPT ![p] = @ \o frames] ELSE w
    /\ queued' = IF p \notin connected
                 THEN [queued EXCEPT ![p] = @ \o frames] ELSE queued

\* Faulty variant: the data follows the metadata.
SendFileAtOnce(f) ==
    /\ friend["sender"]
    /\ offer[f] = "none"
    /\ Dispatch(wire, "sender", <<Meta(f)>> \o AllChunks(f))
    /\ fileOut' = fileOut \cup {f}
    /\ offer' = [offer EXCEPT ![f] = "waiting"]
    /\ UNCHANGED <<answer, receiverVars, friend, linkVars, counters>>

\* send_file: the metadata only.
SendFile(f) ==
    /\ friend["sender"]
    /\ offer[f] = "none"
    /\ Dispatch(wire, "sender", <<Meta(f)>>)
    /\ fileOut' = fileOut \cup {f}
    /\ offer' = [offer EXCEPT ![f] = "waiting"]
    /\ UNCHANGED <<answer, receiverVars, friend, linkVars, counters>>

\* The dialog on top is answered: accept_file or reject_file.  Neither asks
\* whether the sender is still a friend.
AnswerDialog ==
    /\ dialogs # <<>>
    /\ dialogs' = SubSeq(dialogs, 1, Len(dialogs) - 1)
    /\ UNCHANGED <<senderVars, friend, linkVars, counters>>

\* Faulty variant: nothing is prepared for the chunks.
AcceptUnprepared ==
    /\ AnswerDialog
    /\ LET f == dialogs[Len(dialogs)]
       IN  /\ requests' = requests \ {f}
           /\ Dispatch(wire, "receiver", <<Ack(f, 1)>>)
           /\ shown' = [shown EXCEPT ![f] = @ \cup {"receiving"}]
    /\ UNCHANGED parts

AcceptFile ==
    /\ AnswerDialog
    /\ LET f == dialogs[Len(dialogs)]
       IN  /\ requests' = requests \ {f}
           /\ parts' = [g \in DOMAIN parts \cup {f} |->
                           IF g = f THEN {} ELSE parts[g]]
           /\ Dispatch(wire, "receiver", <<Ack(f, 1)>>)
           /\ shown' = [shown EXCEPT ![f] = @ \cup {"receiving"}]

RejectFile ==
    /\ AnswerDialog
    /\ LET f == dialogs[Len(dialogs)]
       IN  /\ requests' = requests \ {f}
           /\ Dispatch(wire, "receiver", <<Ack(f, 0)>>)
           /\ shown' = [shown EXCEPT ![f] = @ \cup {"rejected"}]
    /\ UNCHANGED parts

\* Escape closes the dialog and tells Core nothing.
EscapeDialog ==
    /\ AnswerDialog
    /\ UNCHANGED <<requests, parts, shown, wire, queued>>

\* /reject of the other peer.
DeclineFriend(p) ==
    /\ declines < MaxDeclines
    /\ declines' = declines + 1
    /\ friend' = [friend EXCEPT ![p] = FALSE]
    /\ Dispatch(wire, p, <<Decline>>)
    /\ UNCHANGED <<senderVars, receiverVars, linkVars, breaks, restarts>>

-----------------------------------------------------------------------------

\* _handle_body of the next frame for p.
Reads(p, type) ==
    /\ p \in connected
    /\ wire[Peer(p)] # <<>>
    /\ Head(wire[Peer(p)]).type = type
    /\ UNCHANGED <<linkVars, counters>>

Consumed(p) == [wire EXCEPT ![Peer(p)] = Tail(@)]

HandleFriendDecline(p) ==
    /\ Reads(p, "friend_decline")
    /\ friend' = [friend EXCEPT ![p] = FALSE]
    /\ wire' = Consumed(p)
    /\ UNCHANGED <<senderVars, receiverVars, queued>>

\* Everything else from a peer that is no friend is ignored.
Ignore(p) ==
    /\ \E type \in {"file_meta", "file_ack", "file_chunk"} : Reads(p, type)
    /\ ~friend[p]
    /\ wire' = Consumed(p)
    /\ UNCHANGED <<senderVars, receiverVars, friend, queued>>

HandleFileMeta ==
    /\ Reads("receiver", "file_meta")
    /\ friend["receiver"]
    /\ LET f == Head(wire["sender"]).file
       IN  /\ requests' = requests \cup {f}
           /\ dialogs' = Append(dialogs, f)
    /\ wire' = Consumed("receiver")
    /\ UNCHANGED <<senderVars, parts, shown, friend, queued>>

\* _handle_file_ack: an ack for an offer not in memory is ignored.
HandleFileAck ==
    /\ Reads("sender", "file_ack")
    /\ friend["sender"]
    /\ LET f == Head(wire["receiver"]).file
           accepted == Head(wire["receiver"]).n = 1
       IN  \/ /\ f \notin fileOut
              /\ wire' = Consumed("sender")
              /\ UNCHANGED <<senderVars, queued>>
           \/ /\ f \in fileOut /\ accepted
              /\ fileOut' = fileOut \ {f}
              /\ Dispatch(Consumed("sender"), "sender", AllChunks(f))
              /\ offer' = [offer EXCEPT ![f] = "sent"]
              /\ answer' = [answer EXCEPT ![f] = "accepted"]
           \/ /\ f \in fileOut /\ ~accepted
              /\ fileOut' = fileOut \ {f}
              /\ wire' = Consumed("sender")
              /\ answer' = [answer EXCEPT ![f] = "rejected"]
              /\ UNCHANGED <<offer, queued>>
    /\ UNCHANGED <<receiverVars, friend>>

\* A chunk of a file that is not being received is ignored; the last one
\* that is missing makes _assemble_file save the file.
HandleFileChunk ==
    /\ Reads("receiver", "file_chunk")
    /\ friend["receiver"]
    /\ LET f == Head(wire["sender"]).file
           got == parts[f] \cup {Head(wire["sender"]).n}
       IN  \/ /\ f \notin DOMAIN parts
              /\ UNCHANGED <<parts, shown>>
           \/ /\ f \in DOMAIN parts /\ ~(1..Chunks \subseteq got)
              /\ parts' = [parts EXCEPT ![f] = got]
              /\ UNCHANGED shown
           \/ /\ f \in DOMAIN parts /\ 1..Chunks \subseteq got
              /\ parts' = Without(parts, f)
              /\ shown' = [shown EXCEPT ![f] = @ \cup {"received"}]
    /\ wire' = Consumed("receiver")
    /\ UNCHANGED <<senderVars, dialogs, requests, friend, queued>>

Deliver ==
    \/ \E p \in Peers : HandleFriendDecline(p) \/ Ignore(p)
    \/ HandleFileMeta
    \/ HandleFileAck
    \/ HandleFileChunk

-----------------------------------------------------------------------------
(***************************************************************************)
(* The link and the processes.                                             *)
(***************************************************************************)

\* on_peer_change(connected): the queue is flushed.  A new link is made, on a
\* fresh socket, once neither end has the old one.
Register(p) ==
    /\ p \notin connected
    /\ Peer(p) \in connected => live
    /\ connected' = connected \cup {p}
    /\ live' = TRUE
    /\ wire' = [wire EXCEPT ![p] = @ \o queued[p]]
    /\ queued' = [queued EXCEPT ![p] = <<>>]
    /\ UNCHANGED <<senderVars, receiverVars, friend, counters>>

Break ==
    /\ live
    /\ breaks < MaxBreaks
    /\ breaks' = breaks + 1
    /\ live' = FALSE
    /\ UNCHANGED <<senderVars, receiverVars, friend, connected, queued, wire,
                   restarts, declines>>

\* p's end of the link is closed: what p had not read is lost, and so is what
\* it wrote, if there is no other end.
CloseEnd(p) ==
    /\ connected' = connected \ {p}
    /\ wire' = [q \in Peers |->
                  IF q = p /\ Peer(p) \in connected THEN wire[p] ELSE <<>>]

Drop(p) ==
    /\ p \in connected
    /\ ~live
    /\ CloseEnd(p)
    /\ UNCHANGED <<senderVars, receiverVars, friend, live, queued, counters>>

Restart(p) ==
    /\ restarts < MaxRestarts
    /\ restarts' = restarts + 1
    /\ CloseEnd(p)
    /\ live' = FALSE
    /\ \/ /\ p = "sender"
          /\ fileOut' = {}
          /\ UNCHANGED <<offer, answer, receiverVars>>
       \/ /\ p = "receiver"
          /\ dialogs' = <<>> /\ requests' = {} /\ parts' = NoParts
          /\ UNCHANGED <<senderVars, shown>>
    /\ UNCHANGED <<friend, queued, breaks, declines>>

-----------------------------------------------------------------------------

Next ==
    \/ \E f \in Files : SendFile(f)
    \/ AcceptFile \/ RejectFile \/ EscapeDialog
    \/ Deliver
    \/ \E p \in Peers :
          DeclineFriend(p) \/ Register(p) \/ Drop(p) \/ Restart(p)
    \/ Break

Spec == Init /\ [][Next]_vars

\* A registered link has a read loop: what is on the wire gets read.
FairSpec == Spec /\ WF_vars(Deliver)

-----------------------------------------------------------------------------
(***************************************************************************)
(* Properties.                                                             *)
(***************************************************************************)

\* Every variable keeps its type.
TypeOK ==
    /\ fileOut \subseteq Files
    /\ offer \in [Files -> {"none", "waiting", "sent"}]
    /\ answer \in [Files -> {"none", "accepted", "rejected"}]
    /\ dialogs \in Seq(Files)
    /\ requests \subseteq Files
    /\ DOMAIN parts \subseteq Files
    /\ \A f \in DOMAIN parts : parts[f] \subseteq 1..Chunks
    /\ shown \in [Files -> SUBSET {"receiving", "rejected", "received"}]
    /\ friend \in [Peers -> BOOLEAN]
    /\ connected \subseteq Peers
    /\ live \in BOOLEAN
    /\ queued \in [Peers -> Seq(FileFrame \cup DeclineFrame)]
    /\ wire \in [Peers -> Seq(FileFrame \cup DeclineFrame)]
    /\ {breaks, restarts, declines} \subseteq Nat

Holds(frames, type, f) ==
    \E i \in DOMAIN frames : frames[i].type = type /\ frames[i].file = f

OnItsWay(p, type, f) ==
    Holds(wire[p], type, f) \/ Holds(queued[p], type, f)

\* README.md: data is sent only after the receiver agreed, and none of a file
\* that was refused reaches the receiver.  Across broken links and restarts,
\* a chunk exists outside the sender only of files the receiver accepted.
DataOnlyAfterConsent ==
    \A f \in Files :
        (OnItsWay("sender", "file_chunk", f) \/ f \in DOMAIN parts)
            => shown[f] \cap {"receiving", "rejected"} = {"receiving"}

\* The two histories agree: the sender's shows an offer as answered only the
\* way the receiver's says it was.
HistoriesAgree ==
    \A f \in Files :
        /\ answer[f] = "accepted" => "receiving" \in shown[f]
        /\ answer[f] = "rejected" => "rejected" \in shown[f]
        /\ offer[f] = "sent" <=> answer[f] = "accepted"

Calm == breaks = 0 /\ restarts = 0 /\ declines = 0

Accepted(f) == "receiving" \in shown[f]
Received(f) == "received" \in shown[f]

ChunkInHand(f, i) ==
    LET frames == wire["sender"] \o queued["sender"]
    IN  \/ f \in DOMAIN parts /\ i \in parts[f]
        \/ \E k \in DOMAIN frames :
              frames[k] = [type |-> "file_chunk", file |-> f, n |-> i]

\* While no link breaks, no process restarts and no friendship ends, what is
\* left of an accepted file is in the sender's memory with the ack under way,
\* or every chunk that has not arrived is on its way to a receiver that still
\* waits for it.
TransferInHand ==
    Calm => \A f \in Files : Accepted(f) /\ ~Received(f) =>
        /\ f \in DOMAIN parts
        /\ \/ f \in fileOut /\ OnItsWay("receiver", "file_ack", f)
           \/ \A i \in 1..Chunks : ChunkInHand(f, i)

\* A file accepted while both ends are connected is received, unless a link
\* breaks, a process restarts or a friendship ends first.
AcceptedArrives ==
    \A f \in Files :
        Accepted(f) /\ connected = Peers ~> Received(f) \/ ~Calm
=============================================================================
