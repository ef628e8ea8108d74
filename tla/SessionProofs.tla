--------------------------- MODULE SessionProofs ---------------------------
(***************************************************************************)
(* Safety of Session for every set of peers, every set of links and every  *)
(* bound: types, no text held back from a friend, no record left in the    *)
(* queue for a connected peer, the refinement of Mailbox, no text shown as *)
(* queued that nobody will send; and, while links last, that friendships   *)
(* are mutual, no text is lost, hubs introduce and blocks are heard.       *)
(***************************************************************************)
EXTENDS Session, FiniteSetTheorems, TLAPS

-----------------------------------------------------------------------------
(***************************************************************************)
(* The operators of the model keep their types.                            *)
(***************************************************************************)

\* Frames are frames.
LEMMA FrameTypes ==
    /\ \A t \in FrameType : Control(t) \in Frame
    /\ \A n \in Nat : Text(n) \in Frame
    /\ \A S \in SUBSET Peers : PeerList(S) \in Frame
BY DEF Control, Text, PeerList, Frame, FrameType

\* The empty sequence is a sequence of anything.
LEMMA EmptySeq == \A S : <<>> \in Seq(S)
OBVIOUS

\* Numbered texts are a sequence of frames.
LEMMA TextsType ==
    ASSUME NEW numbers \in Seq(Nat)
    PROVE  Texts(numbers) \in Seq(Frame)
BY FrameTypes DEF Texts

\* Queueing frames without a uid gives records of the queue.
LEMMA AnonymousType ==
    ASSUME NEW frames \in Seq(Frame)
    PROVE  Anonymous(frames) \in Seq(QueueRecord)
<1>1. \A i \in 1..Len(frames) : Queueing(frames[i], 0) \in QueueRecord
  BY DEF Queueing, QueueRecord
<1>2. DOMAIN frames = 1..Len(frames) /\ Len(frames) \in Nat
  OBVIOUS
<1> QED
  BY <1>1, <1>2 DEF Anonymous

\* What leaves the queue is a sequence of frames.
LEMMA FramesType ==
    ASSUME NEW records \in Seq(QueueRecord)
    PROVE  Frames(records) \in Seq(Frame)
<1>1. \A i \in 1..Len(records) : records[i] \in QueueRecord
  OBVIOUS
<1>2. \A i \in 1..Len(records) : records[i].frame \in Frame
  BY <1>1 DEF QueueRecord
<1>3. DOMAIN records = 1..Len(records) /\ Len(records) \in Nat
  OBVIOUS
<1> QED
  BY <1>2, <1>3 DEF Frames

\* Marking entries sent keeps a history a history of the same length.
LEMMA MarkSentType ==
    ASSUME NEW entries \in Seq(HistoryEntry), NEW sent
    PROVE  /\ MarkSent(entries, sent) \in Seq(HistoryEntry)
           /\ Len(MarkSent(entries, sent)) = Len(entries)
<1>1. DOMAIN entries = 1..Len(entries) /\ Len(entries) \in Nat
  OBVIOUS
<1>2. \A n \in 1..Len(entries) : entries[n] \in HistoryEntry
  OBVIOUS
<1>3. \A n \in 1..Len(entries) :
          [to |-> entries[n].to, status |-> "sent"] \in HistoryEntry
  BY <1>2 DEF HistoryEntry
<1> QED
  BY <1>1, <1>2, <1>3 DEF MarkSent

\* What BecomeFriends and Register send are sequences of frames.
LEMMA OutTypes ==
    ASSUME TypeOK, NEW p \in Peers, NEW q \in Peers
    PROVE  /\ Introduction(p, q) \in Seq(Frame)
           /\ \A first \in Seq(Frame), introduce \in BOOLEAN :
                Announcement(p, q, first, introduce, pendingAuto[p][q])
                    \in [Peers -> Seq(Frame)]
           /\ Greeting(p, q) \in [Peers -> Seq(Frame)]
           /\ \A reach \in SUBSET Peers :
                FlushedTo(reach, p) \in [Peers -> Seq(Frame)]
<1>1. Introduction(p, q) \in Seq(Frame)
  BY FrameTypes DEF Introduction, Friends
<1>2. Texts(pendingAuto[p][q]) \in Seq(Frame)
  BY TextsType DEF TypeOK
<1>3. <<PeerList({q})>> \in Seq(Frame)
  BY FrameTypes
<1>4. ASSUME NEW first \in Seq(Frame), NEW introduce \in BOOLEAN
      PROVE  Announcement(p, q, first, introduce, pendingAuto[p][q])
                 \in [Peers -> Seq(Frame)]
  BY <1>1, <1>2, <1>3 DEF Announcement
<1>5. Greeting(p, q) \in [Peers -> Seq(Frame)]
  BY <1>1, <1>2, <1>3 DEF Greeting
<1>6. ASSUME NEW reach \in SUBSET Peers
      PROVE  FlushedTo(reach, p) \in [Peers -> Seq(Frame)]
  BY FramesType DEF FlushedTo, TypeOK
<1> QED
  BY <1>1, <1>4, <1>5, <1>6

\* Sending keeps the type of the wire.
LEMMA TransmitType ==
    ASSUME NEW w \in [Peers -> [Peers -> Seq(Frame)]], NEW p \in Peers,
           NEW out \in [Peers -> Seq(Frame)], Transmit(w, p, out)
    PROVE  wire' \in [Peers -> [Peers -> Seq(Frame)]]
<1> DEFINE row == [r \in Peers |->
               IF r \in connections'[p] /\ {p, r} \in live'
               THEN w[p][r] \o out[r]
               ELSE w[p][r]]
<1>1. ASSUME NEW r \in Peers
      PROVE  w[p][r] \o out[r] \in Seq(Frame) /\ w[p][r] \in Seq(Frame)
  OBVIOUS
<1>2. row \in [Peers -> Seq(Frame)]
  BY <1>1
<1>3. wire' = [w EXCEPT ![p] = row]
  BY DEF Transmit
<1> QED
  BY <1>2, <1>3

\* Queueing keeps the type of the queue.
LEMMA KeepType ==
    ASSUME queued \in [Peers -> [Peers -> Seq(QueueRecord)]],
           NEW p \in Peers, NEW q \in Peers,
           NEW kept \in Seq(QueueRecord), Keep(p, q, kept)
    PROVE  queued' \in [Peers -> [Peers -> Seq(QueueRecord)]]
<1>1. queued[p][q] \o kept \in Seq(QueueRecord)
  OBVIOUS
<1> QED
  BY <1>1 DEF Keep

\* Reading a frame keeps the type of the wire.
LEMMA ConsumedType ==
    ASSUME TypeOK, NEW p \in Peers, NEW q \in Peers, wire[p][q] # <<>>
    PROVE  /\ Consumed(q, p) \in [Peers -> [Peers -> Seq(Frame)]]
           /\ Head(wire[p][q]) \in Frame
BY DEF Consumed, TypeOK

-----------------------------------------------------------------------------
(***************************************************************************)
(* Type correctness.                                                       *)
(***************************************************************************)

\* BecomeFriends keeps the types of all it changes.
LEMMA BecomeFriendsType ==
    ASSUME TypeOK, NEW p \in Peers, NEW q \in Peers,
           NEW w \in [Peers -> [Peers -> Seq(Frame)]],
           NEW first \in Seq(Frame), BecomeFriends(w, p, q, first)
    PROVE  /\ status' \in [Peers -> [Peers -> Status]]
           /\ pendingAuto' \in [Peers -> [Peers -> Seq(Nat)]]
           /\ queued' \in [Peers -> [Peers -> Seq(QueueRecord)]]
           /\ history' \in [Peers -> Seq(HistoryEntry)]
           /\ wire' \in [Peers -> [Peers -> Seq(Frame)]]
<1> DEFINE waiting == pendingAuto[p][q]
<1>1. /\ status' = [status EXCEPT ![p][q] = "friend"]
      /\ Transmit(w, p, Announcement(p, q, first,
                                     status[p][q] # "friend", waiting))
      /\ Keep(p, q, Anonymous(first \o Texts(waiting)))
      /\ history' = IF q \in connections[p]
                    THEN [history EXCEPT ![p] =
                            MarkSent(history[p], Members(waiting))]
                    ELSE history
      /\ pendingAuto' = [pendingAuto EXCEPT ![p][q] = <<>>]
  BY DEF BecomeFriends
<1>2. status' \in [Peers -> [Peers -> Status]]
  BY <1>1 DEF TypeOK, Status
<1>3. pendingAuto' \in [Peers -> [Peers -> Seq(Nat)]]
  BY <1>1, EmptySeq DEF TypeOK
<1>4. Announcement(p, q, first, status[p][q] # "friend", waiting)
          \in [Peers -> Seq(Frame)]
  BY OutTypes
<1>5. wire' \in [Peers -> [Peers -> Seq(Frame)]]
  BY <1>1, <1>4, TransmitType
<1>6. Texts(waiting) \in Seq(Frame)
  BY TextsType DEF TypeOK
<1>7. Anonymous(first \o Texts(waiting)) \in Seq(QueueRecord)
  <2>1. first \o Texts(waiting) \in Seq(Frame)
    BY <1>6
  <2> QED
    BY <2>1, AnonymousType
<1>8. queued' \in [Peers -> [Peers -> Seq(QueueRecord)]]
  BY <1>1, <1>7, KeepType DEF TypeOK
<1>9. MarkSent(history[p], Members(waiting)) \in Seq(HistoryEntry)
  BY MarkSentType DEF TypeOK
<1>10. history' \in [Peers -> Seq(HistoryEntry)]
  BY <1>1, <1>9 DEF TypeOK
<1> QED
  BY <1>2, <1>3, <1>5, <1>8, <1>10

\* The initial state is well typed.
LEMMA InitTypeOK == Init => TypeOK
<1> SUFFICES ASSUME Init PROVE TypeOK
  OBVIOUS
<1>1. PICK met \in [Links -> {"unknown", "stranger", "friend"}] :
          status = [p \in Peers |-> [q \in Peers |->
                      IF Linked(p, q) THEN met[{p, q}] ELSE "unknown"]]
  BY DEF Init
<1>2. status \in [Peers -> [Peers -> Status]]
  BY <1>1 DEF Linked, Status
<1>3. commands \in [Commands -> Nat]
  BY DEF Init
<1> QED
  BY <1>2, <1>3, EmptySeq DEF Init, TypeOK

\* Counting a command keeps the type of the counts.
LEMMA CommandType ==
    ASSUME TypeOK, NEW p \in Peers, NEW q \in Peers,
           NEW command \in Commands, Command(p, q, command)
    PROVE  /\ UNCHANGED <<inbox, connections, live, breaks>>
           /\ commands' \in [Commands -> Nat]
<1>1. commands \in [Commands -> Nat]
  BY DEF TypeOK
<1>2. commands[command] + 1 \in Nat
  BY <1>1
<1>3. commands' = [commands EXCEPT ![command] = commands[command] + 1]
  BY DEF Command
<1>4. commands' \in [Commands -> Nat]
  BY <1>1, <1>2, <1>3
<1> QED
  BY <1>4 DEF Command, linkVars

\* One step of a user.
LEMMA UserTypeOK ==
    ASSUME TypeOK, NEW p \in Peers, NEW q \in Peers,
           \/ SendTextToFriend(p, q) \/ SendTextToStranger(p, q)
           \/ RequestFriend(p, q) \/ AcceptFriend(p, q) \/ DeclineFriend(p, q)
    PROVE  TypeOK'
<1>0. /\ history[p] \in Seq(HistoryEntry)
      /\ wire \in [Peers -> [Peers -> Seq(Frame)]]
      /\ queued \in [Peers -> [Peers -> Seq(QueueRecord)]]
  BY DEF TypeOK
<1>1. NewText(p) \in Nat
  BY <1>0 DEF NewText
<1>2. ASSUME NEW f \in Frame
      PROVE  /\ Only(q, <<f>>) \in [Peers -> Seq(Frame)]
             /\ Anonymous(<<f>>) \in Seq(QueueRecord)
  <2>1. <<f>> \in Seq(Frame)
    OBVIOUS
  <2> QED
    BY <2>1, EmptySeq, AnonymousType DEF Only
<1>3. \A t \in FrameType : Control(t) \in Frame
  BY FrameTypes
<1>4. {"friend_request", "friend_accept", "friend_decline"} \subseteq FrameType
  BY DEF FrameType
<1>4a. {"add", "accept", "reject"} \subseteq Commands
  BY DEF Commands
<1>5. CASE SendTextToFriend(p, q)
  <2>1. Text(NewText(p)) \in Frame
    BY <1>1, FrameTypes
  <2>2. <<Queueing(Text(NewText(p)), NewText(p))>> \in Seq(QueueRecord)
    BY <1>1, <2>1 DEF Queueing, QueueRecord
  <2>3. wire' \in [Peers -> [Peers -> Seq(Frame)]]
    BY <1>0, <1>2, <1>5, <2>1, TransmitType DEF SendTextToFriend
  <2>4. queued' \in [Peers -> [Peers -> Seq(QueueRecord)]]
    BY <1>0, <1>5, <2>2, KeepType DEF SendTextToFriend
  <2>5. [to |-> q, status |-> IF q \in connections[p] THEN "sent" ELSE "queued"]
            \in HistoryEntry
    BY DEF HistoryEntry
  <2>6. history' \in [Peers -> Seq(HistoryEntry)]
    BY <1>0, <1>5, <2>5 DEF SendTextToFriend, TypeOK
  <2> QED
    BY <1>5, <2>3, <2>4, <2>6 DEF SendTextToFriend, contactVars, TypeOK
<1>6. CASE SendTextToStranger(p, q)
  <2>1. wire' \in [Peers -> [Peers -> Seq(Frame)]]
    BY <1>0, <1>2, <1>3, <1>4, <1>6, TransmitType DEF SendTextToStranger
  <2>2. queued' \in [Peers -> [Peers -> Seq(QueueRecord)]]
    BY <1>0, <1>2, <1>3, <1>4, <1>6, KeepType DEF SendTextToStranger
  <2>3. [to |-> q, status |-> "queued"] \in HistoryEntry
    BY DEF HistoryEntry
  <2>4. history' \in [Peers -> Seq(HistoryEntry)]
    BY <1>0, <1>6, <2>3 DEF SendTextToStranger, TypeOK
  <2>5. pendingAuto' \in [Peers -> [Peers -> Seq(Nat)]]
    <3>1. Append(pendingAuto[p][q], NewText(p)) \in Seq(Nat)
      BY <1>1 DEF TypeOK
    <3> QED
      BY <1>6, <3>1 DEF SendTextToStranger, TypeOK
  <2>6. status' \in [Peers -> [Peers -> Status]]
    BY <1>6 DEF SendTextToStranger, TypeOK, Status
  <2> QED
    BY <1>6, <2>1, <2>2, <2>4, <2>5, <2>6 DEF SendTextToStranger, TypeOK
<1>7. CASE RequestFriend(p, q)
  <2>1. wire' \in [Peers -> [Peers -> Seq(Frame)]]
    BY <1>0, <1>2, <1>3, <1>4, <1>7, TransmitType DEF RequestFriend
  <2>2. queued' \in [Peers -> [Peers -> Seq(QueueRecord)]]
    BY <1>0, <1>2, <1>3, <1>4, <1>7, KeepType DEF RequestFriend
  <2>3. status' \in [Peers -> [Peers -> Status]]
    BY <1>7 DEF RequestFriend, TypeOK, Status
  <2>4. /\ UNCHANGED <<pendingAuto, history, inbox, connections, live, breaks>>
        /\ commands' \in [Commands -> Nat]
    <3>1. Command(p, q, "add") /\ UNCHANGED <<pendingAuto, history>>
      BY <1>7 DEF RequestFriend
    <3> QED
      BY <1>4a, <3>1, CommandType
  <2> QED
    BY <2>1, <2>2, <2>3, <2>4 DEF TypeOK
<1>8. CASE AcceptFriend(p, q)
  <2>1. <<Control("friend_accept")>> \in Seq(Frame)
    BY <1>3, <1>4
  <2>2. BecomeFriends(wire, p, q, <<Control("friend_accept")>>)
    BY <1>8 DEF AcceptFriend
  <2>3. /\ UNCHANGED <<inbox, connections, live, breaks>>
        /\ commands' \in [Commands -> Nat]
    <3>1. Command(p, q, "accept")
      BY <1>8 DEF AcceptFriend
    <3> QED
      BY <1>4a, <3>1, CommandType
  <2> QED
    BY <1>0, <2>1, <2>2, <2>3, BecomeFriendsType DEF TypeOK
<1>9. CASE DeclineFriend(p, q)
  <2>1. wire' \in [Peers -> [Peers -> Seq(Frame)]]
    BY <1>0, <1>2, <1>3, <1>4, <1>9, TransmitType DEF DeclineFriend
  <2>2. queued' \in [Peers -> [Peers -> Seq(QueueRecord)]]
    BY <1>0, <1>2, <1>3, <1>4, <1>9, KeepType DEF DeclineFriend
  <2>3. status' \in [Peers -> [Peers -> Status]]
    BY <1>9 DEF DeclineFriend, TypeOK, Status
  <2>4. /\ UNCHANGED <<pendingAuto, history, inbox, connections, live, breaks>>
        /\ commands' \in [Commands -> Nat]
    <3>1. Command(p, q, "reject") /\ UNCHANGED <<pendingAuto, history>>
      BY <1>9 DEF DeclineFriend
    <3> QED
      BY <1>4a, <3>1, CommandType
  <2> QED
    BY <2>1, <2>2, <2>3, <2>4 DEF TypeOK
<1> QED
  BY <1>5, <1>6, <1>7, <1>8, <1>9

\* One frame delivered.
LEMMA DeliverTypeOK ==
    ASSUME TypeOK, NEW p \in Peers, NEW q \in Peers, Deliver(q, p)
    PROVE  TypeOK'
<1>1. /\ p \in connections[q] /\ wire[p][q] # <<>>
      /\ UNCHANGED <<connections, live, breaks, commands>>
  BY DEF Deliver, HandleFriendRequest, HandleFriendAccept,
         HandleFriendDecline, HandlePeerList, HandleText, Receives, linkVars
<1>2. /\ Consumed(q, p) \in [Peers -> [Peers -> Seq(Frame)]]
      /\ Head(wire[p][q]) \in Frame
  BY <1>1, ConsumedType
<1>3. Control("friend_accept") \in Frame
  BY FrameTypes DEF FrameType
<1>4. <<Control("friend_accept")>> \in Seq(Frame) /\ <<>> \in Seq(Frame)
  BY <1>3, EmptySeq
<1>5. CASE HandleFriendRequest(q, p)
  <2>1. inbox' = inbox
    BY <1>5 DEF HandleFriendRequest
  <2>2. CASE wire' = Consumed(q, p) /\ UNCHANGED <<contactVars, queued, history>>
    BY <1>1, <1>2, <2>1, <2>2 DEF contactVars, TypeOK
  <2>3. CASE /\ Transmit(Consumed(q, p), q, Only(p, <<Control("friend_accept")>>))
             /\ Keep(q, p, Anonymous(<<Control("friend_accept")>>))
             /\ UNCHANGED <<contactVars, history>>
    <3>1. Only(p, <<Control("friend_accept")>>) \in [Peers -> Seq(Frame)]
      BY <1>4 DEF Only
    <3>2. Anonymous(<<Control("friend_accept")>>) \in Seq(QueueRecord)
      BY <1>4, AnonymousType
    <3>3. wire' \in [Peers -> [Peers -> Seq(Frame)]]
      BY <1>2, <2>3, <3>1, TransmitType
    <3>4. queued' \in [Peers -> [Peers -> Seq(QueueRecord)]]
      BY <2>3, <3>2, KeepType DEF TypeOK
    <3> QED
      BY <1>1, <2>1, <2>3, <3>3, <3>4 DEF contactVars, TypeOK
  <2>4. CASE BecomeFriends(Consumed(q, p), q, p, <<Control("friend_accept")>>)
    BY <1>1, <1>2, <1>4, <2>1, <2>4, BecomeFriendsType DEF TypeOK
  <2> QED
    BY <1>5, <2>2, <2>3, <2>4 DEF HandleFriendRequest
<1>6. CASE HandleFriendAccept(q, p)
  <2>1. BecomeFriends(Consumed(q, p), q, p, <<>>) /\ inbox' = inbox
    BY <1>6 DEF HandleFriendAccept
  <2> QED
    BY <1>1, <1>2, <1>4, <2>1, BecomeFriendsType DEF TypeOK
<1>7. CASE HandleFriendDecline(q, p)
  <2>1. status' \in [Peers -> [Peers -> Status]]
    BY <1>7 DEF HandleFriendDecline, TypeOK, Status
  <2> QED
    BY <1>1, <1>2, <1>7, <2>1 DEF HandleFriendDecline, TypeOK
<1>8. CASE HandlePeerList(q, p)
  <2>1. status' \in [Peers -> [Peers -> Status]]
    BY <1>8 DEF HandlePeerList, TypeOK, Status
  <2> QED
    BY <1>1, <1>2, <1>8, <2>1 DEF HandlePeerList, TypeOK
<1>9. CASE HandleText(q, p)
  <2>1. Append(inbox[q][p], Head(wire[p][q]).text) \in Seq(Nat)
    <3>1. Head(wire[p][q]).text \in Nat
      BY <1>2 DEF Frame
    <3>2. inbox[q][p] \in Seq(Nat)
      BY DEF TypeOK
    <3> QED
      BY <3>1, <3>2
  <2>2. inbox' \in [Peers -> [Peers -> Seq(Nat)]]
    BY <1>9, <2>1 DEF HandleText, TypeOK
  <2> QED
    BY <1>1, <1>2, <1>9, <2>2 DEF HandleText, contactVars, TypeOK
<1> QED
  BY <1>5, <1>6, <1>7, <1>8, <1>9 DEF Deliver

\* One step of p's transport, or of its flush loop.
LEMMA LinkTypeOK ==
    ASSUME TypeOK, NEW p \in Peers, NEW q \in Peers,
           Register(p, q) \/ Drop(p, q) \/ FlushLoop(p)
    PROVE  TypeOK'
<1>0. /\ wire \in [Peers -> [Peers -> Seq(Frame)]]
      /\ queued \in [Peers -> [Peers -> Seq(QueueRecord)]]
      /\ history \in [Peers -> Seq(HistoryEntry)]
      /\ connections \in [Peers -> SUBSET Peers]
  BY DEF TypeOK
<1>1. \A sent : [history EXCEPT ![p] = MarkSent(history[p], sent)]
                    \in [Peers -> Seq(HistoryEntry)]
  BY <1>0, MarkSentType
<1>2. \A reach : [queued EXCEPT ![p] = [r \in Peers |->
                     IF r \in reach THEN <<>> ELSE queued[p][r]]]
                   \in [Peers -> [Peers -> Seq(QueueRecord)]]
  BY <1>0, EmptySeq
<1>3. CASE Register(p, q)
  <2> DEFINE reach == connections[p] \cup {q}
             out == [r \in Peers |->
                        FlushedTo(reach, p)[r] \o Greeting(p, q)[r]]
  <2> HIDE DEF reach
  <2>0. reach \in SUBSET Peers
    BY <1>0 DEF reach
  <2>1. /\ FlushedTo(reach, p) \in [Peers -> Seq(Frame)]
        /\ Greeting(p, q) \in [Peers -> Seq(Frame)]
    BY <2>0, OutTypes
  <2>2. out \in [Peers -> Seq(Frame)]
    <3>1. \A r \in Peers :
             FlushedTo(reach, p)[r] \o Greeting(p, q)[r] \in Seq(Frame)
      BY <2>1
    <3> QED
      BY <3>1
  <2>3. Transmit(wire, p, out)
    BY <1>3 DEF Register, reach
  <2>4. wire' \in [Peers -> [Peers -> Seq(Frame)]]
    BY <1>0, <2>2, <2>3, TransmitType
  <2>5. queued' \in [Peers -> [Peers -> Seq(QueueRecord)]]
    BY <1>2, <1>3 DEF Register, reach
  <2>6. history' \in [Peers -> Seq(HistoryEntry)]
    BY <1>1, <1>3 DEF Register, reach
  <2>7. pendingAuto' \in [Peers -> [Peers -> Seq(Nat)]]
    BY <1>3, EmptySeq DEF Register, TypeOK
  <2>8. status' \in [Peers -> [Peers -> Status]]
    BY <1>3 DEF Register, TypeOK, Status
  <2>9. connections' \in [Peers -> SUBSET Peers] /\ live' \subseteq Links
    BY <1>3 DEF Register, Linked, TypeOK
  <2>10. inbox' = inbox /\ commands' = commands /\ breaks' = breaks
    BY <1>3 DEF Register
  <2> QED
    BY <2>4, <2>5, <2>6, <2>7, <2>8, <2>9, <2>10 DEF TypeOK
<1>4. CASE Drop(p, q)
  <2>1. connections' \in [Peers -> SUBSET Peers]
    BY <1>0, <1>4 DEF Drop
  <2>2. wire' \in [Peers -> [Peers -> Seq(Frame)]]
    BY <1>0, <1>4, EmptySeq DEF Drop
  <2> QED
    BY <1>4, <2>1, <2>2 DEF Drop, contactVars, TypeOK
<1>5. CASE FlushLoop(p)
  <2>1. FlushedTo(connections[p], p) \in [Peers -> Seq(Frame)]
    BY <1>0, OutTypes
  <2>2. wire' \in [Peers -> [Peers -> Seq(Frame)]]
    BY <1>0, <1>5, <2>1, TransmitType DEF FlushLoop
  <2>3. queued' \in [Peers -> [Peers -> Seq(QueueRecord)]]
    BY <1>2, <1>5 DEF FlushLoop
  <2>4. history' \in [Peers -> Seq(HistoryEntry)]
    BY <1>1, <1>5 DEF FlushLoop
  <2> QED
    BY <1>5, <2>2, <2>3, <2>4 DEF FlushLoop, contactVars, linkVars, TypeOK
<1> QED
  BY <1>3, <1>4, <1>5

\* A link that breaks changes nothing of the nodes.
LEMMA BreakTypeOK ==
    ASSUME TypeOK, NEW l \in Links, Break(l)
    PROVE  TypeOK'
<1>1. breaks' \in Nat /\ live' \subseteq Links
  BY DEF Break, TypeOK
<1>2. UNCHANGED <<contactVars, queued, history, inbox, connections, wire,
                  commands>>
  BY DEF Break
<1> QED
  BY <1>1, <1>2 DEF contactVars, TypeOK

\* A stuttering step changes no type.
LEMMA StutterTypeOK == TypeOK /\ UNCHANGED vars => TypeOK'
BY DEF TypeOK, vars

\* Every step keeps the types.
LEMMA NextTypeOK == TypeOK /\ [Next]_vars => TypeOK'
<1> SUFFICES ASSUME TypeOK, [Next]_vars PROVE TypeOK'
  OBVIOUS
<1>1. CASE UNCHANGED vars
  BY <1>1, StutterTypeOK
<1>2. ASSUME NEW p \in Peers, NEW q \in Peers,
             \/ SendTextToFriend(p, q) \/ SendTextToStranger(p, q)
             \/ RequestFriend(p, q) \/ AcceptFriend(p, q)
             \/ DeclineFriend(p, q)
      PROVE  TypeOK'
  BY <1>2, UserTypeOK
<1>3. ASSUME NEW p \in Peers, NEW q \in Peers, Deliver(q, p)
      PROVE  TypeOK'
  BY <1>3, DeliverTypeOK
<1>4. ASSUME NEW p \in Peers, NEW q \in Peers, Register(p, q) \/ Drop(p, q)
      PROVE  TypeOK'
  BY <1>4, LinkTypeOK
<1>5. ASSUME NEW l \in Links, Break(l)
      PROVE  TypeOK'
  BY <1>5, BreakTypeOK
<1>6. ASSUME NEW p \in Peers, FlushLoop(p)
      PROVE  TypeOK'
  BY <1>6, LinkTypeOK
<1> QED
  BY <1>1, <1>2, <1>3, <1>4, <1>5, <1>6 DEF Next

\* Every reachable state is well typed.
THEOREM Typing == Spec => []TypeOK
<1>1. Init => TypeOK
  BY InitTypeOK
<1>2. TypeOK /\ [Next]_vars => TypeOK'
  BY NextTypeOK
<1> QED
  BY <1>1, <1>2, PTL DEF Spec

-----------------------------------------------------------------------------
(***************************************************************************)
(* ReleasedToFriends and QueuedOnlyForUnreachable are inductive given the  *)
(* types: a step that makes a friend releases the texts that waited, a     *)
(* step that queues found its destination unregistered, and a step that    *)
(* registers a peer empties its queue.                                     *)
(***************************************************************************)

\* A friend who is made gets what waited for it.
LEMMA BecomeFriendsReleases ==
    ASSUME TypeOK, NEW p \in Peers, NEW q \in Peers, NEW w, NEW first,
           ReleasedToFriends, BecomeFriends(w, p, q, first)
    PROVE  ReleasedToFriends'
BY DEF BecomeFriends, ReleasedToFriends, TypeOK

\* Every step leaves friends without texts that wait for them.
LEMMA NextReleased ==
    TypeOK /\ ReleasedToFriends /\ [Next]_vars => ReleasedToFriends'
<1> SUFFICES ASSUME TypeOK, ReleasedToFriends, [Next]_vars
             PROVE  ReleasedToFriends'
  OBVIOUS
<1>1. ASSUME UNCHANGED <<status, pendingAuto>>
      PROVE  ReleasedToFriends'
  BY <1>1 DEF ReleasedToFriends
<1>2. ASSUME NEW p \in Peers, NEW q \in Peers, SendTextToStranger(p, q)
      PROVE  ReleasedToFriends'
  BY <1>2 DEF SendTextToStranger, ReleasedToFriends, TypeOK
<1>3. ASSUME NEW p \in Peers, NEW q \in Peers,
             RequestFriend(p, q) \/ DeclineFriend(p, q)
      PROVE  ReleasedToFriends'
  <2>1. PICK s \in {"pending", "blocked"} :
            status' = [status EXCEPT ![p][q] = s]
    BY <1>3 DEF RequestFriend, DeclineFriend
  <2>2. pendingAuto' = pendingAuto
    BY <1>3 DEF RequestFriend, DeclineFriend
  <2>3. ASSUME NEW a \in Peers, NEW b \in Peers, status'[a][b] = "friend"
        PROVE  status[a][b] = "friend"
    <3>1. s # "friend"
      OBVIOUS
    <3>2. status \in [Peers -> [Peers -> Status]]
      BY DEF TypeOK
    <3> QED
      BY <2>1, <2>3, <3>1, <3>2
  <2> QED
    BY <2>2, <2>3 DEF ReleasedToFriends
<1>4. ASSUME NEW p \in Peers, NEW q \in Peers, AcceptFriend(p, q)
      PROVE  ReleasedToFriends'
  BY <1>4, BecomeFriendsReleases DEF AcceptFriend
<1>5. ASSUME NEW p \in Peers, NEW q \in Peers, Deliver(q, p)
      PROVE  ReleasedToFriends'
  <2>1. CASE HandleFriendRequest(q, p) \/ HandleFriendAccept(q, p)
    BY <2>1, BecomeFriendsReleases, <1>1
    DEF HandleFriendRequest, HandleFriendAccept, contactVars
  <2>2. CASE HandleFriendDecline(q, p) \/ HandlePeerList(q, p)
    <3>1. pendingAuto' = pendingAuto
      BY <2>2 DEF HandleFriendDecline, HandlePeerList
    <3>2. ASSUME NEW a \in Peers, NEW b \in Peers, status'[a][b] = "friend"
          PROVE  status[a][b] = "friend"
      <4>1. CASE HandleFriendDecline(q, p)
        BY <3>2, <4>1 DEF HandleFriendDecline, TypeOK
      <4>2. CASE HandlePeerList(q, p)
        BY <3>2, <4>2 DEF HandlePeerList, TypeOK
      <4> QED
        BY <2>2, <4>1, <4>2
    <3> QED
      BY <3>1, <3>2 DEF ReleasedToFriends
  <2>3. CASE HandleText(q, p)
    BY <2>3, <1>1 DEF HandleText, contactVars
  <2> QED
    BY <1>5, <2>1, <2>2, <2>3 DEF Deliver
<1>6. ASSUME NEW p \in Peers, NEW q \in Peers, Register(p, q)
      PROVE  ReleasedToFriends'
  BY <1>6 DEF Register, ReleasedToFriends, TypeOK
<1>7. ASSUME NEW p \in Peers, NEW q \in Peers,
             SendTextToFriend(p, q) \/ Drop(p, q)
      PROVE  ReleasedToFriends'
  BY <1>7, <1>1 DEF SendTextToFriend, Drop, contactVars
<1>8. ASSUME (\E l \in Links : Break(l)) \/ (\E p \in Peers : FlushLoop(p))
      PROVE  ReleasedToFriends'
  BY <1>8, <1>1 DEF Break, FlushLoop, contactVars
<1>9. CASE UNCHANGED vars
  BY <1>9, <1>1 DEF vars
<1> QED
  BY <1>2, <1>3, <1>4, <1>5, <1>6, <1>7, <1>8, <1>9 DEF Next

\* Queueing for an unregistered peer, with registrations unchanged.
LEMMA KeepOnlyForUnreachable ==
    ASSUME TypeOK, NEW p \in Peers, NEW q \in Peers, NEW kept,
           QueuedOnlyForUnreachable, Keep(p, q, kept),
           connections' = connections
    PROVE  QueuedOnlyForUnreachable'
BY DEF Keep, QueuedOnlyForUnreachable, TypeOK

\* Every step leaves the queues of connected peers empty.
LEMMA NextQueued ==
    TypeOK /\ QueuedOnlyForUnreachable /\ [Next]_vars
        => QueuedOnlyForUnreachable'
<1> SUFFICES ASSUME TypeOK, QueuedOnlyForUnreachable, [Next]_vars
             PROVE  QueuedOnlyForUnreachable'
  OBVIOUS
<1>1. ASSUME UNCHANGED <<queued, connections>>
      PROVE  QueuedOnlyForUnreachable'
  BY <1>1 DEF QueuedOnlyForUnreachable
<1>2. ASSUME NEW p \in Peers, NEW q \in Peers,
             \/ SendTextToFriend(p, q) \/ SendTextToStranger(p, q)
             \/ RequestFriend(p, q) \/ AcceptFriend(p, q)
             \/ DeclineFriend(p, q)
      PROVE  QueuedOnlyForUnreachable'
  BY <1>2, KeepOnlyForUnreachable
  DEF SendTextToFriend, SendTextToStranger, RequestFriend, AcceptFriend,
      DeclineFriend, BecomeFriends, Command, linkVars
<1>3. ASSUME NEW p \in Peers, NEW q \in Peers, Deliver(q, p)
      PROVE  QueuedOnlyForUnreachable'
  <2>1. connections' = connections
    BY <1>3 DEF Deliver, HandleFriendRequest, HandleFriendAccept,
                HandleFriendDecline, HandlePeerList, HandleText, Receives,
                linkVars
  <2>2. CASE HandleFriendRequest(q, p) \/ HandleFriendAccept(q, p)
    BY <2>1, <2>2, <1>1, KeepOnlyForUnreachable
    DEF HandleFriendRequest, HandleFriendAccept, BecomeFriends
  <2>3. CASE HandleFriendDecline(q, p) \/ HandlePeerList(q, p) \/ HandleText(q, p)
    BY <2>1, <2>3, <1>1
    DEF HandleFriendDecline, HandlePeerList, HandleText
  <2> QED
    BY <1>3, <2>2, <2>3 DEF Deliver
<1>4. ASSUME NEW p \in Peers, NEW q \in Peers,
             Register(p, q) \/ Drop(p, q) \/ FlushLoop(p)
      PROVE  QueuedOnlyForUnreachable'
  <2>1. CASE Register(p, q)
    BY <2>1 DEF Register, QueuedOnlyForUnreachable, TypeOK
  <2>2. CASE Drop(p, q)
    BY <2>2 DEF Drop, QueuedOnlyForUnreachable, TypeOK
  <2>3. CASE FlushLoop(p)
    BY <2>3 DEF FlushLoop, linkVars, QueuedOnlyForUnreachable, TypeOK
  <2> QED
    BY <1>4, <2>1, <2>2, <2>3
<1>5. ASSUME NEW l \in Links, Break(l)
      PROVE  QueuedOnlyForUnreachable'
  BY <1>5, <1>1 DEF Break
<1>6. CASE UNCHANGED vars
  BY <1>6, <1>1 DEF vars
<1> QED
  BY <1>2, <1>3, <1>4, <1>5, <1>6 DEF Next

\* No text waits for the friendship of a friend: a text written before the
\* friendship leaves p the moment p regards q as a friend.
THEOREM Released == Spec => []ReleasedToFriends
<1>1. Init => ReleasedToFriends
  BY DEF Init, ReleasedToFriends
<1>2. TypeOK /\ ReleasedToFriends /\ [Next]_vars => ReleasedToFriends'
  BY NextReleased
<1> QED
  BY <1>1, <1>2, Typing, PTL DEF Spec

\* The queue holds nothing for a connected peer.
THEOREM QueueFlushed == Spec => []QueuedOnlyForUnreachable
<1>1. Init => QueuedOnlyForUnreachable
  BY DEF Init, QueuedOnlyForUnreachable
<1>2. TypeOK /\ QueuedOnlyForUnreachable /\ [Next]_vars
          => QueuedOnlyForUnreachable'
  BY NextQueued
<1> QED
  BY <1>1, <1>2, Typing, PTL DEF Spec

-----------------------------------------------------------------------------
(***************************************************************************)
(* Session implements Mailbox, for every set of peers, every set of links  *)
(* and every bound.  The texts of p for q stand in line: those q read, on  *)
(* the wire, in the queue and waiting for the friendship, oldest first.    *)
(* Every step only moves the line on, loses some of it, or appends to it.  *)
(***************************************************************************)
IsText(frame) == frame.type = "text"

\* The texts among frames are in the order they were written.
Rising(frames) ==
    \A i, j \in DOMAIN frames :
        i < j /\ IsText(frames[i]) /\ IsText(frames[j])
            => frames[i].text < frames[j].text

\* Every text of `older` was written before every text of `newer`.
Before(older, newer) ==
    \A m \in Carried(older), n \in Carried(newer) : m < n

\* Texts read, on the wire, in the queue and waiting, all of them `own`.
InLine(own, read, onWire, kept, waiting) ==
    /\ Rising(read) /\ Rising(onWire) /\ Rising(kept) /\ Rising(waiting)
    /\ Before(read, onWire) /\ Before(read, kept) /\ Before(read, waiting)
    /\ Before(onWire, kept) /\ Before(onWire, waiting)
    /\ Before(kept, waiting)
    /\ Carried(read) \subseteq own /\ Carried(onWire) \subseteq own
    /\ Carried(kept) \subseteq own /\ Carried(waiting) \subseteq own

\* The numbers of the texts p wrote to q.
Written(p, q) == {n \in DOMAIN Addressees[p] : Addressees[p][n] = q}

\* The line of p's texts for q, with `onWire` on the wire.
Line(p, q, onWire) ==
    InLine(Written(p, q), Texts(inbox[q][p]), onWire, Frames(queued[p][q]),
           Texts(pendingAuto[p][q]))

LinesOver(w) == \A p, q \in Peers : Line(p, q, w[p][q])

Lines == LinesOver(wire)

-----------------------------------------------------------------------------
(***************************************************************************)
(* The texts among frames.                                                 *)
(***************************************************************************)

\* The texts of a sequence of frames are those of its two parts.
LEMMA CarriedConcat ==
    ASSUME NEW A \in Seq(Frame), NEW B \in Seq(Frame)
    PROVE  Carried(A \o B) = Carried(A) \cup Carried(B)
<1>1. /\ Len(A) \in Nat /\ Len(B) \in Nat
      /\ DOMAIN A = 1..Len(A) /\ DOMAIN B = 1..Len(B)
      /\ DOMAIN (A \o B) = 1..(Len(A) + Len(B))
      /\ \A i \in 1..Len(A) : (A \o B)[i] = A[i]
      /\ \A i \in 1..Len(B) : (A \o B)[Len(A) + i] = B[i]
  OBVIOUS
<1>2. ASSUME NEW n \in Carried(A) PROVE n \in Carried(A \o B)
  BY <1>1 DEF Carried
<1>3. ASSUME NEW n \in Carried(B) PROVE n \in Carried(A \o B)
  <2>1. PICK i \in 1..Len(B) : B[i].type = "text" /\ n = B[i].text
    BY <1>1 DEF Carried
  <2>2. Len(A) + i \in DOMAIN (A \o B)
    BY <1>1
  <2> QED
    BY <1>1, <2>1, <2>2 DEF Carried
<1>4. ASSUME NEW n \in Carried(A \o B) PROVE n \in Carried(A) \cup Carried(B)
  <2>1. PICK i \in 1..(Len(A) + Len(B)) :
            (A \o B)[i].type = "text" /\ n = (A \o B)[i].text
    BY <1>1 DEF Carried
  <2>2. CASE i \in 1..Len(A)
    BY <1>1, <2>1, <2>2 DEF Carried
  <2>3. CASE i \notin 1..Len(A)
    <3>1. i - Len(A) \in 1..Len(B) /\ i = Len(A) + (i - Len(A))
      BY <1>1, <2>3
    <3>2. (A \o B)[i] = B[i - Len(A)]
      BY <1>1, <3>1
    <3> QED
      BY <1>1, <2>1, <3>1, <3>2 DEF Carried
  <2> QED
    BY <2>2, <2>3
<1> QED
  BY <1>2, <1>3, <1>4

\* One behind the other behind a third.
LEMMA ConcatAssociates ==
    ASSUME NEW A \in Seq(Frame), NEW B \in Seq(Frame), NEW C \in Seq(Frame)
    PROVE  (A \o B) \o C = A \o (B \o C)
<1>1. /\ (A \o B) \o C \in Seq(Frame) /\ A \o (B \o C) \in Seq(Frame)
      /\ Len((A \o B) \o C) = Len(A) + Len(B) + Len(C)
      /\ Len(A \o (B \o C)) = Len(A) + Len(B) + Len(C)
      /\ Len(A) \in Nat /\ Len(B) \in Nat /\ Len(C) \in Nat
  OBVIOUS
<1>2. ASSUME NEW i \in 1..(Len(A) + Len(B) + Len(C))
      PROVE  ((A \o B) \o C)[i] = (A \o (B \o C))[i]
  OBVIOUS
<1>3. \A S, T \in Seq(Frame) :
          Len(S) = Len(T) /\ (\A i \in 1..Len(S) : S[i] = T[i]) => S = T
  OBVIOUS
<1> QED
  BY <1>1, <1>2, <1>3

\* Frames in order behind older frames in order are in order.
LEMMA RisingConcat ==
    ASSUME NEW A \in Seq(Frame), NEW B \in Seq(Frame),
           Rising(A), Rising(B), Before(A, B)
    PROVE  Rising(A \o B)
<1>1. /\ Len(A) \in Nat /\ Len(B) \in Nat
      /\ DOMAIN A = 1..Len(A) /\ DOMAIN B = 1..Len(B)
      /\ DOMAIN (A \o B) = 1..(Len(A) + Len(B))
      /\ \A i \in 1..Len(A) : (A \o B)[i] = A[i]
      /\ \A i \in 1..(Len(A) + Len(B)) :
            i > Len(A) => i - Len(A) \in 1..Len(B) /\ (A \o B)[i] = B[i - Len(A)]
  OBVIOUS
<1> SUFFICES ASSUME NEW i \in 1..(Len(A) + Len(B)),
                    NEW j \in 1..(Len(A) + Len(B)),
                    i < j, IsText((A \o B)[i]), IsText((A \o B)[j])
             PROVE  (A \o B)[i].text < (A \o B)[j].text
  BY <1>1 DEF Rising
<1>2. CASE j \leq Len(A)
  BY <1>1, <1>2 DEF Rising
<1>3. CASE i > Len(A)
  BY <1>1, <1>3 DEF Rising
<1>4. CASE i \leq Len(A) /\ j > Len(A)
  <2>1. A[i].text \in Carried(A) /\ B[j - Len(A)].text \in Carried(B)
    <3>1. i \in DOMAIN A /\ j - Len(A) \in DOMAIN B
      BY <1>1, <1>4
    <3>2. IsText(A[i]) /\ IsText(B[j - Len(A)])
      BY <1>1, <1>4
    <3> QED
      BY <3>1, <3>2 DEF Carried, IsText
  <2> QED
    BY <1>1, <1>4, <2>1 DEF Before
<1> QED
  BY <1>2, <1>3, <1>4

\* Nothing but requests, acceptances, rejections and peer lists.
Silent(frames) == \A i \in DOMAIN frames : ~IsText(frames[i])

\* Silent frames carry no text.
LEMMA SilentFrames ==
    ASSUME NEW frames, Silent(frames)
    PROVE  Carried(frames) = {} /\ Rising(frames)
BY DEF Silent, Carried, Rising, IsText

\* Frames without texts.
LEMMA NoTexts ==
    /\ Silent(<<>>)
    /\ \A t \in FrameType \ {"text"} : Silent(<<Control(t)>>)
    /\ \A S : Silent(<<PeerList(S)>>)
BY DEF Silent, Control, PeerList, IsText

\* One text.
LEMMA OneText ==
    ASSUME NEW n \in Nat
    PROVE  Carried(<<Text(n)>>) = {n} /\ Rising(<<Text(n)>>)
BY DEF Carried, Rising, Text, IsText

\* The texts of numbers are those numbers.
LEMMA CarriedTexts ==
    ASSUME NEW numbers \in Seq(Nat)
    PROVE  Carried(Texts(numbers)) = Members(numbers)
BY DEF Carried, Texts, Text, Members

\* Queueing frames and taking them out again gives the frames.
LEMMA FramesAnonymous ==
    ASSUME NEW frames \in Seq(Frame)
    PROVE  Frames(Anonymous(frames)) = frames
<1>1. DOMAIN Anonymous(frames) = DOMAIN frames
  BY DEF Anonymous
<1>2. \A i \in DOMAIN frames : Anonymous(frames)[i].frame = frames[i]
  BY DEF Anonymous, Queueing
<1>3. Frames(Anonymous(frames)) = [i \in DOMAIN frames |-> frames[i]]
  BY <1>1, <1>2 DEF Frames
<1> QED
  BY <1>3

\* The frames of two queues, one behind the other.
LEMMA FramesConcat ==
    ASSUME NEW A \in Seq(QueueRecord), NEW B \in Seq(QueueRecord)
    PROVE  Frames(A \o B) = Frames(A) \o Frames(B)
<1>1. /\ Len(A) \in Nat /\ Len(B) \in Nat
      /\ DOMAIN A = 1..Len(A) /\ DOMAIN B = 1..Len(B)
      /\ A \o B \in Seq(QueueRecord)
      /\ DOMAIN (A \o B) = 1..(Len(A) + Len(B))
      /\ Len(A \o B) = Len(A) + Len(B)
  OBVIOUS
<1>2. Frames(A) \in Seq(Frame) /\ Frames(B) \in Seq(Frame)
      /\ Frames(A \o B) \in Seq(Frame)
  BY <1>1, FramesType
<1>3. DOMAIN Frames(A) = 1..Len(A) /\ DOMAIN Frames(B) = 1..Len(B)
      /\ DOMAIN Frames(A \o B) = 1..(Len(A) + Len(B))
  BY <1>1 DEF Frames
<1>4. Len(Frames(A)) = Len(A) /\ Len(Frames(B)) = Len(B)
      /\ Len(Frames(A \o B)) = Len(A) + Len(B)
  BY <1>1, <1>2, <1>3
<1>5. ASSUME NEW i \in 1..(Len(A) + Len(B))
      PROVE  Frames(A \o B)[i] = (Frames(A) \o Frames(B))[i]
  <2>1. CASE i \leq Len(A)
    <3>1. (A \o B)[i] = A[i] /\ (Frames(A) \o Frames(B))[i] = Frames(A)[i]
      BY <1>1, <1>2, <1>4, <2>1
    <3> QED
      BY <1>1, <2>1, <3>1 DEF Frames
  <2>2. CASE i > Len(A)
    <3>1. (A \o B)[i] = B[i - Len(A)] /\ i - Len(A) \in 1..Len(B)
          /\ (Frames(A) \o Frames(B))[i] = Frames(B)[i - Len(A)]
      BY <1>1, <1>2, <1>4, <2>2
    <3> QED
      BY <1>1, <2>2, <3>1 DEF Frames
  <2>3. i \leq Len(A) \/ i > Len(A)
    BY <1>1
  <2> QED
    BY <2>1, <2>2, <2>3
<1>6. \A S, T \in Seq(Frame) :
          S \o T \in Seq(Frame) /\ Len(S \o T) = Len(S) + Len(T)
  OBVIOUS
<1>7. Frames(A) \o Frames(B) \in Seq(Frame)
      /\ Len(Frames(A) \o Frames(B)) = Len(A) + Len(B)
  BY <1>2, <1>4, <1>6
<1>8. \A S, T \in Seq(Frame) :
          Len(S) = Len(T) /\ (\A i \in 1..Len(S) : S[i] = T[i]) => S = T
  OBVIOUS
<1> QED
  BY <1>2, <1>4, <1>5, <1>7, <1>8

\* What is left when the first frame is read.
LEMMA TailOrder ==
    ASSUME NEW A \in Seq(Frame), A # <<>>
    PROVE  /\ Tail(A) \in Seq(Frame)
           /\ Carried(Tail(A)) \subseteq Carried(A)
           /\ Rising(A) => Rising(Tail(A))
           /\ IsText(Head(A)) => Head(A).text \in Carried(A)
           /\ Rising(A) /\ IsText(Head(A))
                => \A n \in Carried(Tail(A)) : Head(A).text < n
<1>1. /\ Len(A) \in Nat \ {0} /\ DOMAIN A = 1..Len(A) /\ Head(A) = A[1]
      /\ Tail(A) \in Seq(Frame) /\ DOMAIN Tail(A) = 1..(Len(A) - 1)
      /\ \A i \in 1..(Len(A) - 1) : Tail(A)[i] = A[i + 1]
  OBVIOUS
<1>2. \A i \in 1..(Len(A) - 1) : i + 1 \in 1..Len(A)
  BY <1>1
<1>3. \A n \in Carried(Tail(A)) : \E i \in 1..(Len(A) - 1) :
            n = A[i + 1].text /\ IsText(A[i + 1])
  BY <1>1 DEF Carried, IsText
<1>4. Carried(Tail(A)) \subseteq Carried(A)
  BY <1>1, <1>2, <1>3 DEF Carried, IsText
<1>5. Rising(A) => Rising(Tail(A))
  <2> SUFFICES ASSUME Rising(A), NEW i \in 1..(Len(A) - 1),
                      NEW j \in 1..(Len(A) - 1), i < j,
                      IsText(Tail(A)[i]), IsText(Tail(A)[j])
               PROVE  Tail(A)[i].text < Tail(A)[j].text
    BY <1>1 DEF Rising
  <2>1. i + 1 < j + 1
    OBVIOUS
  <2> QED
    BY <1>1, <1>2, <2>1 DEF Rising
<1>6. 1 \in 1..Len(A)
  BY <1>1
<1>7. IsText(Head(A)) => Head(A).text \in Carried(A)
  BY <1>1, <1>6 DEF Carried, IsText
<1>8. Rising(A) /\ IsText(Head(A))
         => \A n \in Carried(Tail(A)) : Head(A).text < n
  BY <1>1, <1>2, <1>3, <1>6 DEF Rising
<1> QED
  BY <1>1, <1>4, <1>5, <1>7, <1>8
\* One more number is one more text.
LEMMA TextsAppend ==
    ASSUME NEW numbers \in Seq(Nat), NEW n \in Nat
    PROVE  Texts(Append(numbers, n)) = Texts(numbers) \o <<Text(n)>>
<1>1. /\ Append(numbers, n) \in Seq(Nat)
      /\ Len(numbers) \in Nat /\ DOMAIN numbers = 1..Len(numbers)
      /\ DOMAIN Append(numbers, n) = 1..(Len(numbers) + 1)
      /\ \A i \in 1..Len(numbers) : Append(numbers, n)[i] = numbers[i]
      /\ Append(numbers, n)[Len(numbers) + 1] = n
  OBVIOUS
<1>2. Texts(numbers) \in Seq(Frame) /\ Texts(Append(numbers, n)) \in Seq(Frame)
  BY <1>1, TextsType
<1>3. Text(n) \in Frame
  BY FrameTypes
<1>4. DOMAIN Texts(numbers) = 1..Len(numbers)
      /\ DOMAIN Texts(Append(numbers, n)) = 1..(Len(numbers) + 1)
  BY <1>1 DEF Texts
<1>5. Len(Texts(numbers)) = Len(numbers)
      /\ Len(Texts(Append(numbers, n))) = Len(numbers) + 1
  BY <1>1, <1>2, <1>4
<1>6. \A S \in Seq(Frame), f \in Frame :
          /\ S \o <<f>> \in Seq(Frame) /\ Len(S \o <<f>>) = Len(S) + 1
          /\ \A i \in 1..Len(S) : (S \o <<f>>)[i] = S[i]
          /\ (S \o <<f>>)[Len(S) + 1] = f
  OBVIOUS
<1>7. /\ Texts(numbers) \o <<Text(n)>> \in Seq(Frame)
      /\ Len(Texts(numbers) \o <<Text(n)>>) = Len(numbers) + 1
      /\ \A i \in 1..Len(numbers) :
            (Texts(numbers) \o <<Text(n)>>)[i] = Texts(numbers)[i]
      /\ (Texts(numbers) \o <<Text(n)>>)[Len(numbers) + 1] = Text(n)
  BY <1>2, <1>3, <1>5, <1>6
<1>8. ASSUME NEW i \in 1..(Len(numbers) + 1)
      PROVE  Texts(Append(numbers, n))[i] = (Texts(numbers) \o <<Text(n)>>)[i]
  <2>1. CASE i = Len(numbers) + 1
    BY <1>1, <1>7, <2>1 DEF Texts
  <2>2. CASE i # Len(numbers) + 1
    <3>1. i \in 1..Len(numbers)
      BY <1>1, <2>2
    <3> QED
      BY <1>1, <1>7, <3>1 DEF Texts
  <2> QED
    BY <2>1, <2>2
<1>9. \A S, T \in Seq(Frame) :
          Len(S) = Len(T) /\ (\A i \in 1..Len(S) : S[i] = T[i]) => S = T
  OBVIOUS
<1> QED
  BY <1>2, <1>5, <1>7, <1>8, <1>9

-----------------------------------------------------------------------------
(***************************************************************************)
(* How a line moves on.                                                    *)
(***************************************************************************)

\* Silent frames behind what is on the wire or in the queue change no order.
LEMMA SilentMoves ==
    ASSUME NEW own, NEW i \in Seq(Frame), NEW w \in Seq(Frame),
           NEW k \in Seq(Frame), NEW a \in Seq(Frame), NEW x \in Seq(Frame),
           InLine(own, i, w, k, a), Silent(x)
    PROVE  /\ InLine(own, i, w \o x, k, a)
           /\ InLine(own, i, w, k \o x, a)
<1>1. Carried(x) = {} /\ Rising(x)
  BY SilentFrames
<1>2. ASSUME NEW A \in Seq(Frame), Rising(A)
      PROVE  Carried(A \o x) = Carried(A) /\ Rising(A \o x)
  <2>1. Before(A, x)
    BY <1>1 DEF Before
  <2> QED
    BY <1>1, <1>2, <2>1, CarriedConcat, RisingConcat
<1>3. /\ Carried(w \o x) = Carried(w) /\ Rising(w \o x)
      /\ Carried(k \o x) = Carried(k) /\ Rising(k \o x)
  BY <1>2 DEF InLine
<1> QED
  BY <1>3 DEF InLine, Before

\* What leaves the queue goes on the wire, or is lost.
LEMMA FlushMoves ==
    ASSUME NEW own, NEW i \in Seq(Frame), NEW w \in Seq(Frame),
           NEW k \in Seq(Frame), NEW a \in Seq(Frame), InLine(own, i, w, k, a)
    PROVE  /\ InLine(own, i, w \o k, <<>>, a)
           /\ InLine(own, i, w, <<>>, a)
<1>1. Carried(<<>>) = {} /\ Rising(<<>>)
  BY NoTexts, SilentFrames
<1>2. Carried(w \o k) = Carried(w) \cup Carried(k) /\ Rising(w \o k)
  BY CarriedConcat, RisingConcat DEF InLine
<1> QED
  BY <1>1, <1>2 DEF InLine, Before

\* With an empty queue, what waits goes on the wire; otherwise behind the
\* queue; or it is lost.
LEMMA ReleaseMoves ==
    ASSUME NEW own, NEW i \in Seq(Frame), NEW w \in Seq(Frame),
           NEW k \in Seq(Frame), NEW a \in Seq(Frame), InLine(own, i, w, k, a)
    PROVE  /\ k = <<>> => InLine(own, i, w \o a, <<>>, <<>>)
           /\ InLine(own, i, w, k \o a, <<>>)
           /\ InLine(own, i, w, k, <<>>)
<1>1. Carried(<<>>) = {} /\ Rising(<<>>)
  BY NoTexts, SilentFrames
<1>2. Carried(w \o a) = Carried(w) \cup Carried(a) /\ Rising(w \o a)
  BY CarriedConcat, RisingConcat DEF InLine
<1>3. Carried(k \o a) = Carried(k) \cup Carried(a) /\ Rising(k \o a)
  BY CarriedConcat, RisingConcat DEF InLine
<1> QED
  BY <1>1, <1>2, <1>3 DEF InLine, Before

\* What a connection makes of a line: the queue leaves, then what waited for
\* a friend, then frames without texts.
LEMMA GreetingMoves ==
    ASSUME NEW own, NEW i \in Seq(Frame), NEW w \in Seq(Frame),
           NEW k \in Seq(Frame), NEW a \in Seq(Frame), NEW x \in Seq(Frame),
           InLine(own, i, w, k, a), Silent(x)
    PROVE  /\ InLine(own, i, w \o (k \o x), <<>>, a)
           /\ InLine(own, i, w \o (k \o (a \o x)), <<>>, <<>>)
           /\ InLine(own, i, w, <<>>, <<>>)
<1>0. \A S, T \in Seq(Frame) : S \o T \in Seq(Frame)
  OBVIOUS
<1>1. /\ w \o k \in Seq(Frame) /\ <<>> \in Seq(Frame) /\ a \o x \in Seq(Frame)
      /\ (w \o k) \o a \in Seq(Frame)
  BY <1>0, EmptySeq
<1>2. InLine(own, i, w \o k, <<>>, a)
  BY FlushMoves
<1>3. InLine(own, i, (w \o k) \o x, <<>>, a)
  BY <1>1, <1>2, SilentMoves
<1>4. InLine(own, i, (w \o k) \o a, <<>>, <<>>)
  BY <1>1, <1>2, ReleaseMoves
<1>5. InLine(own, i, ((w \o k) \o a) \o x, <<>>, <<>>)
  BY <1>1, <1>4, SilentMoves
<1>6. /\ (w \o k) \o x = w \o (k \o x)
      /\ ((w \o k) \o a) \o x = w \o (k \o (a \o x))
  <2>1. (w \o k) \o x = w \o (k \o x)
    BY ConcatAssociates
  <2>2. ASSUME NEW S \in Seq(Frame) PROVE (S \o a) \o x = S \o (a \o x)
    BY ConcatAssociates
  <2>3. ASSUME NEW S \in Seq(Frame) PROVE (w \o k) \o S = w \o (k \o S)
    BY SMTT(30), ConcatAssociates
  <2> QED
    BY <1>1, <2>1, <2>2, <2>3
<1>7. InLine(own, i, w, <<>>, <<>>)
  BY <1>1, FlushMoves, ReleaseMoves
<1> QED
  BY <1>3, <1>5, <1>6, <1>7

\* A text newer than all of a line goes to its end: on the wire if nothing is
\* in the queue or waits, in the queue if nothing waits, or among what waits.
LEMMA NewMoves ==
    ASSUME NEW own \in SUBSET Nat, NEW i \in Seq(Frame), NEW w \in Seq(Frame),
           NEW k \in Seq(Frame), NEW a \in Seq(Frame), NEW n \in Nat,
           InLine(own, i, w, k, a), \A m \in own : m < n
    PROVE  /\ InLine(own \cup {n}, i, w, k, a)
           /\ k = <<>> /\ a = <<>>
                => InLine(own \cup {n}, i, w \o <<Text(n)>>, k, a)
           /\ a = <<>> => InLine(own \cup {n}, i, w, k \o <<Text(n)>>, a)
           /\ InLine(own \cup {n}, i, w, k, a \o <<Text(n)>>)
<1>1. Carried(<<Text(n)>>) = {n} /\ Rising(<<Text(n)>>)
  BY OneText
<1>2. <<Text(n)>> \in Seq(Frame)
  BY FrameTypes
<1>3. ASSUME NEW A \in Seq(Frame), Rising(A), Carried(A) \subseteq own
      PROVE  /\ Carried(A \o <<Text(n)>>) = Carried(A) \cup {n}
             /\ Rising(A \o <<Text(n)>>)
  <2>1. Before(A, <<Text(n)>>)
    BY <1>1, <1>3 DEF Before
  <2>2. Carried(A \o <<Text(n)>>) = Carried(A) \cup Carried(<<Text(n)>>)
    BY <1>2, CarriedConcat
  <2>3. Rising(A \o <<Text(n)>>)
    BY <1>1, <1>2, <1>3, <2>1, RisingConcat
  <2> QED
    BY <1>1, <2>2, <2>3
<1>4. /\ Carried(w \o <<Text(n)>>) = Carried(w) \cup {n}
      /\ Carried(k \o <<Text(n)>>) = Carried(k) \cup {n}
      /\ Carried(a \o <<Text(n)>>) = Carried(a) \cup {n}
      /\ Rising(w \o <<Text(n)>>) /\ Rising(k \o <<Text(n)>>)
      /\ Rising(a \o <<Text(n)>>)
  BY <1>3 DEF InLine
<1>5. Carried(<<>>) = {}
  BY NoTexts, SilentFrames
<1> QED
  BY <1>4, <1>5 DEF InLine, Before

\* The first frame on the wire is read and its text, if there is one, shown
\* or discarded.
LEMMA ReadMoves ==
    ASSUME NEW own \in SUBSET Nat, NEW i \in Seq(Frame), NEW w \in Seq(Frame),
           NEW k \in Seq(Frame), NEW a \in Seq(Frame),
           InLine(own, i, w, k, a), w # <<>>
    PROVE  /\ InLine(own, i, Tail(w), k, a)
           /\ IsText(Head(w)) =>
                InLine(own, i \o <<Text(Head(w).text)>>, Tail(w), k, a)
<1>1. /\ Tail(w) \in Seq(Frame)
      /\ Carried(Tail(w)) \subseteq Carried(w) /\ Rising(Tail(w))
      /\ IsText(Head(w)) => /\ Head(w).text \in Carried(w)
                            /\ \A n \in Carried(Tail(w)) : Head(w).text < n
  BY TailOrder DEF InLine
<1>2. InLine(own, i, Tail(w), k, a)
  BY <1>1 DEF InLine, Before
<1>3. ASSUME IsText(Head(w))
      PROVE  InLine(own, i \o <<Text(Head(w).text)>>, Tail(w), k, a)
  <2> DEFINE n == Head(w).text
  <2>1. n \in Carried(w) /\ n \in own /\ n \in Nat
    BY <1>1, <1>3 DEF InLine
  <2> HIDE DEF n
  <2>2. Carried(<<Text(n)>>) = {n} /\ Rising(<<Text(n)>>)
        /\ <<Text(n)>> \in Seq(Frame)
    BY <2>1, OneText, FrameTypes
  <2>3. Before(i, <<Text(n)>>)
    BY <2>1, <2>2 DEF InLine, Before
  <2>4. /\ Carried(i \o <<Text(n)>>) = Carried(i) \cup {n}
        /\ Rising(i \o <<Text(n)>>)
    BY <2>2, <2>3, CarriedConcat, RisingConcat DEF InLine
  <2>5. \A m \in Carried(Tail(w)) : n < m
    BY <1>1, <1>3 DEF n
  <2>6. InLine(own, i \o <<Text(n)>>, Tail(w), k, a)
    BY <1>1, <2>1, <2>4, <2>5 DEF InLine, Before
  <2> QED
    BY <2>6 DEF n
<1> QED
  BY <1>2, <1>3

-----------------------------------------------------------------------------
(***************************************************************************)
(* How the steps of Session move the lines.                                *)
(***************************************************************************)

\* The stages of a line are sequences of frames, its numbers naturals.
LEMMA StageTypes ==
    ASSUME TypeOK, NEW p \in Peers, NEW q \in Peers
    PROVE  /\ Texts(inbox[q][p]) \in Seq(Frame)
           /\ Frames(queued[p][q]) \in Seq(Frame)
           /\ Texts(pendingAuto[p][q]) \in Seq(Frame)
           /\ wire[p][q] \in Seq(Frame)
           /\ Written(p, q) \in SUBSET (1..Len(history[p]))
           /\ Len(history[p]) \in Nat
<1>1. /\ inbox[q][p] \in Seq(Nat) /\ pendingAuto[p][q] \in Seq(Nat)
      /\ queued[p][q] \in Seq(QueueRecord) /\ history[p] \in Seq(HistoryEntry)
      /\ wire[p][q] \in Seq(Frame)
  BY DEF TypeOK
<1>2. DOMAIN history[p] = 1..Len(history[p]) /\ Len(history[p]) \in Nat
  BY <1>1
<1>3. DOMAIN Addressees[p] = 1..Len(history[p])
  BY <1>2 DEF Addressees
<1> QED
  BY <1>1, <1>2, <1>3, TextsType, FramesType DEF Written

\* Marking entries sent leaves their addressees alone.
LEMMA MarkSentAddressees ==
    ASSUME TypeOK, NEW p \in Peers, NEW sent,
           history' = [history EXCEPT ![p] = MarkSent(history[p], sent)]
    PROVE  Addressees' = Addressees
<1>1. /\ DOMAIN history = Peers
      /\ DOMAIN MarkSent(history[p], sent) = DOMAIN history[p]
      /\ \A n \in DOMAIN history[p] :
            MarkSent(history[p], sent)[n].to = history[p][n].to
  BY DEF TypeOK, MarkSent
<1>2. ASSUME NEW r \in Peers
      PROVE  /\ DOMAIN history'[r] = DOMAIN history[r]
             /\ \A n \in DOMAIN history[r] :
                   history'[r][n].to = history[r][n].to
  BY <1>1
<1>3. ASSUME NEW r \in Peers
      PROVE  [n \in DOMAIN history'[r] |-> history'[r][n].to]
                 = [n \in DOMAIN history[r] |-> history[r][n].to]
  BY <1>2
<1> QED
  BY <1>3 DEF Addressees

\* A text written is one more addressee.
LEMMA AppendAddressees ==
    ASSUME TypeOK, NEW p \in Peers, NEW q \in Peers, NEW s \in {"queued", "sent"},
           history' = [history EXCEPT ![p] =
                          Append(history[p], [to |-> q, status |-> s])]
    PROVE  /\ Addressees' = [Addressees EXCEPT ![p] = Append(Addressees[p], q)]
           /\ Written(p, q)' = Written(p, q) \cup {NewText(p)}
           /\ \A a, b \in Peers : a # p \/ b # q => Written(a, b)' = Written(a, b)
           /\ NewText(p) \in Nat /\ \A m \in Written(p, q) : m < NewText(p)
<1> DEFINE h == history[p]
           e == [to |-> q, status |-> s]
           to == [n \in DOMAIN h |-> h[n].to]
<1>1. h \in Seq(HistoryEntry) /\ e \in HistoryEntry
  BY DEF TypeOK, HistoryEntry
<1> HIDE DEF h, e
<1>3. Len(h) \in Nat /\ DOMAIN h = 1..Len(h)
  BY <1>1
<1>2. \A n \in DOMAIN h : h[n].to \in Peers
  <2>1. \A n \in DOMAIN h : h[n] \in HistoryEntry
    BY <1>1
  <2> QED
    BY <2>1 DEF HistoryEntry
<1>4. to \in Seq(Peers) /\ Len(to) = Len(h)
  BY <1>2, <1>3
<1>5. /\ DOMAIN Append(h, e) = 1..(Len(h) + 1)
      /\ \A n \in 1..Len(h) : Append(h, e)[n] = h[n]
      /\ Append(h, e)[Len(h) + 1] = e
  BY <1>1
<1>6. [n \in DOMAIN Append(h, e) |-> Append(h, e)[n].to] = Append(to, q)
  <2>1. Append(to, q) = [n \in 1..(Len(h) + 1) |->
                            IF n = Len(h) + 1 THEN q ELSE to[n]]
    BY <1>4
  <2>2. \A n \in 1..(Len(h) + 1) : n # Len(h) + 1 => n \in 1..Len(h)
    BY <1>3
  <2>3. \A n \in 1..(Len(h) + 1) : Append(h, e)[n].to
                                      = IF n = Len(h) + 1 THEN q ELSE to[n]
    BY <1>3, <1>5, <2>2 DEF e
  <2> QED
    BY <1>5, <2>1, <2>3
<1>7. /\ history \in [Peers -> Seq(HistoryEntry)]
      /\ history' = [history EXCEPT ![p] = Append(h, e)]
  BY DEF TypeOK, h, e
<1>8. /\ Addressees'[p] = Append(to, q)
      /\ \A a \in Peers : a # p => Addressees'[a] = Addressees[a]
      /\ Addressees[p] = to
  BY <1>6, <1>7 DEF Addressees, h
<1>9. Addressees' = [Addressees EXCEPT ![p] = Append(Addressees[p], q)]
  BY <1>8 DEF Addressees
<1>10. /\ DOMAIN Append(to, q) = 1..(Len(h) + 1)
       /\ \A n \in 1..Len(h) : Append(to, q)[n] = to[n]
       /\ Append(to, q)[Len(h) + 1] = q
  BY <1>4
<1>11. DOMAIN to = 1..Len(h)
  BY <1>3
<1>12. ASSUME NEW b \in Peers
       PROVE  /\ Written(p, b)' = {n \in 1..(Len(h) + 1) : Append(to, q)[n] = b}
              /\ Written(p, b) = {n \in 1..Len(h) : to[n] = b}
  BY <1>8, <1>10, <1>11 DEF Written
<1> HIDE DEF to
<1>13. ASSUME NEW n \in 1..(Len(h) + 1)
       PROVE  n = Len(h) + 1 \/ n \in 1..Len(h)
  BY <1>3
<1>14. Len(h) + 1 \in 1..(Len(h) + 1) /\ 1..Len(h) \subseteq 1..(Len(h) + 1)
  BY <1>3
<1>15. Written(p, q)' = Written(p, q) \cup {NewText(p)}
  BY <1>10, <1>12, <1>13, <1>14 DEF NewText, h
<1>16. ASSUME NEW b \in Peers, b # q PROVE Written(p, b)' = Written(p, b)
  <2>1. ASSUME NEW n \in 1..(Len(h) + 1)
        PROVE  Append(to, q)[n] = b <=> n \in 1..Len(h) /\ to[n] = b
    <3>1. CASE n = Len(h) + 1
      <4>1. n \notin 1..Len(h)
        BY <1>3, <3>1
      <4> QED
        BY <1>10, <1>16, <3>1, <4>1
    <3>2. CASE n \in 1..Len(h)
      BY <1>10, <3>2
    <3> QED
      BY <1>13, <3>1, <3>2
  <2> QED
    BY <1>12, <1>14, <2>1
<1>17. ASSUME NEW a \in Peers, NEW b \in Peers, a # p
       PROVE  Written(a, b)' = Written(a, b)
  BY <1>8, <1>17 DEF Written
<1>18. NewText(p) \in Nat /\ \A m \in Written(p, q) : m < NewText(p)
  <2>1. NewText(p) = Len(h) + 1
    BY DEF NewText, h
  <2>2. \A m \in 1..Len(h) : m < Len(h) + 1
    BY <1>3
  <2> QED
    BY <1>3, <1>12, <2>1, <2>2
<1> QED
  BY <1>9, <1>15, <1>16, <1>17, <1>18

\* A step of p alone moves the lines of p alone.
LEMMA OwnLines ==
    ASSUME TypeOK, NEW w \in [Peers -> [Peers -> Seq(Frame)]], LinesOver(w),
           NEW p \in Peers, inbox' = inbox,
           \A a, b \in Peers : a # p =>
               /\ wire'[a][b] = w[a][b]
               /\ queued'[a][b] = queued[a][b]
               /\ pendingAuto'[a][b] = pendingAuto[a][b]
               /\ Written(a, b)' = Written(a, b),
           \A r \in Peers : Line(p, r, wire[p][r])'
    PROVE  Lines'
<1>1. ASSUME NEW a \in Peers, NEW b \in Peers, a # p
      PROVE  Line(a, b, wire[a][b])'
  BY <1>1 DEF LinesOver, Line
<1> QED
  BY <1>1 DEF Lines, LinesOver
\* What p sends to a peer goes behind what is on the wire, or is lost.
LEMMA TransmitMoves ==
    ASSUME NEW w \in [Peers -> [Peers -> Seq(Frame)]], NEW p \in Peers,
           NEW out \in [Peers -> Seq(Frame)], Transmit(w, p, out)
    PROVE  /\ \A r \in Peers :
                 \/ wire'[p][r] = w[p][r]
                 \/ r \in connections'[p] /\ wire'[p][r] = w[p][r] \o out[r]
           /\ \A a, b \in Peers : a # p => wire'[a][b] = w[a][b]
BY DEF Transmit

\* A step that writes no text leaves what was written alone.
LEMMA SameWritten ==
    ASSUME Addressees' = Addressees
    PROVE  \A a, b \in Peers : Written(a, b)' = Written(a, b)
BY DEF Written

\* A request, an acceptance or a rejection sent keeps the lines.
LEMMA SilentSend ==
    ASSUME TypeOK, NEW w \in [Peers -> [Peers -> Seq(Frame)]], LinesOver(w),
           NEW p \in Peers, NEW q \in Peers, NEW type \in FrameType \ {"text"},
           Transmit(w, p, Only(q, <<Control(type)>>)),
           Keep(p, q, Anonymous(<<Control(type)>>)),
           UNCHANGED <<pendingAuto, inbox>>, Addressees' = Addressees
    PROVE  Lines'
<1> DEFINE f == <<Control(type)>>
<1>1. f \in Seq(Frame) /\ Silent(f) /\ Silent(<<>>)
  BY FrameTypes, NoTexts
<1>2. Anonymous(f) \in Seq(QueueRecord) /\ Frames(Anonymous(f)) = f
  BY <1>1, AnonymousType, FramesAnonymous
<1>2a. Anonymous(<<Control(type)>>) = Anonymous(f)
  OBVIOUS
<1> HIDE DEF f
<1>3. \A a, b \in Peers : Written(a, b)' = Written(a, b)
  BY SameWritten
<1>4. ASSUME NEW a \in Peers, NEW b \in Peers
      PROVE  \/ queued'[a][b] = queued[a][b]
             \/ a = p /\ b = q /\ queued'[a][b] = queued[a][b] \o Anonymous(f)
  BY <1>2a DEF Keep, TypeOK
<1>5. /\ \A r \in Peers : \/ wire'[p][r] = w[p][r]
                          \/ wire'[p][r] = w[p][r] \o Only(q, f)[r]
      /\ \A a, b \in Peers : a # p => wire'[a][b] = w[a][b]
  <2>1. Transmit(w, p, Only(q, f))
    BY DEF f
  <2>2. Only(q, f) \in [Peers -> Seq(Frame)]
    BY <1>1, EmptySeq DEF Only
  <2> QED
    BY <2>1, <2>2, TransmitMoves
<1>6. ASSUME NEW r \in Peers
      PROVE  Line(p, r, wire[p][r])'
  <2> DEFINE own == Written(p, r)
             i == Texts(inbox[r][p])
             k == Frames(queued[p][r])
             a == Texts(pendingAuto[p][r])
  <2>1. i \in Seq(Frame) /\ k \in Seq(Frame) /\ a \in Seq(Frame)
        /\ w[p][r] \in Seq(Frame)
    BY StageTypes
  <2>2. InLine(own, i, w[p][r], k, a)
    BY DEF LinesOver, Line
  <2>3. Only(q, f)[r] \in Seq(Frame) /\ Silent(Only(q, f)[r])
    BY <1>1 DEF Only
  <2>4. Frames(queued'[p][r]) = k \/ Frames(queued'[p][r]) = k \o f
    <3>1. CASE queued'[p][r] = queued[p][r]
      BY <3>1
    <3>2. CASE queued'[p][r] = queued[p][r] \o Anonymous(f)
      <4>1. queued[p][r] \in Seq(QueueRecord)
        BY DEF TypeOK
      <4> QED
        BY <1>2, <3>2, <4>1, FramesConcat
    <3> QED
      BY <1>4, <3>1, <3>2
  <2> HIDE DEF own, i, k, a
  <2>5. wire'[p][r] \in Seq(Frame) /\ InLine(own, i, wire'[p][r], k, a)
    <3>1. InLine(own, i, w[p][r] \o Only(q, f)[r], k, a)
      BY <2>1, <2>2, <2>3, SilentMoves
    <3>2. w[p][r] \o Only(q, f)[r] \in Seq(Frame)
      BY <2>1, <2>3
    <3> QED
      BY <1>5, <2>1, <2>2, <3>1, <3>2
  <2>6. InLine(own, i, wire'[p][r], Frames(queued'[p][r]), a)
    <3>1. InLine(own, i, wire'[p][r], k \o f, a)
      BY <1>1, <2>1, <2>5, SilentMoves
    <3> QED
      BY <2>4, <2>5, <3>1
  <2> QED
    BY <1>3, <2>6 DEF Line, own, i, k, a
<1>7. \A a, b \in Peers : a # p =>
               /\ wire'[a][b] = w[a][b]
               /\ queued'[a][b] = queued[a][b]
               /\ pendingAuto'[a][b] = pendingAuto[a][b]
               /\ Written(a, b)' = Written(a, b)
  BY <1>3, <1>4, <1>5
<1>8. \A r \in Peers : Line(p, r, wire[p][r])'
  BY <1>6
<1>9. inbox' = inbox
  OBVIOUS
<1> QED
  BY <1>7, <1>8, <1>9, OwnLines

\* Friends who are made get what waited for them, behind the rest of the line.
LEMMA BecomeFriendsLines ==
    ASSUME TypeOK, QueuedOnlyForUnreachable,
           NEW w \in [Peers -> [Peers -> Seq(Frame)]], LinesOver(w),
           NEW p \in Peers, NEW q \in Peers,
           NEW first \in Seq(Frame), Silent(first),
           BecomeFriends(w, p, q, first), UNCHANGED <<inbox, connections>>
    PROVE  Lines' /\ Addressees' = Addressees
<1> DEFINE waiting == pendingAuto[p][q]
           introduce == status[p][q] # "friend"
           out == Announcement(p, q, first, introduce, waiting)
           intro == IF introduce THEN Introduction(p, q) ELSE <<>>
<1>1. /\ Transmit(w, p, out)
      /\ Keep(p, q, Anonymous(first \o Texts(waiting)))
      /\ history' = IF q \in connections[p]
                    THEN [history EXCEPT ![p] =
                            MarkSent(history[p], Members(waiting))]
                    ELSE history
      /\ pendingAuto' = [pendingAuto EXCEPT ![p][q] = <<>>]
  BY DEF BecomeFriends
<1>1a. out \in [Peers -> Seq(Frame)]
  BY OutTypes
<1> HIDE DEF out
<1>2. /\ \A r \in Peers :
            \/ wire'[p][r] = w[p][r]
            \/ r \in connections[p] /\ wire'[p][r] = w[p][r] \o out[r]
      /\ \A a, b \in Peers : a # p => wire'[a][b] = w[a][b]
  BY <1>1, <1>1a, TransmitMoves
<1>3. intro \in Seq(Frame) /\ Silent(intro) /\ out[q] = (first \o intro) \o Texts(waiting)
  <2>1. Introduction(p, q) \in Seq(Frame) /\ Silent(Introduction(p, q))
    BY OutTypes, NoTexts DEF Introduction
  <2>2. Silent(<<>>) /\ <<>> \in Seq(Frame)
    BY NoTexts, EmptySeq
  <2> QED
    BY <2>1, <2>2 DEF Announcement, out
<1>4. ASSUME NEW r \in Peers, r # q
      PROVE  out[r] \in Seq(Frame) /\ Silent(out[r])
  <2>1. \A S \in SUBSET Peers : <<PeerList(S)>> \in Seq(Frame)
    BY FrameTypes
  <2>2. Silent(<<PeerList({q})>>) /\ Silent(<<>>) /\ <<>> \in Seq(Frame)
    BY NoTexts, EmptySeq
  <2> QED
    BY <1>4, <2>1, <2>2 DEF Announcement, out
<1> HIDE DEF intro, introduce
<1>5. Addressees' = Addressees
  <2>1. CASE q \in connections[p]
    BY <1>1, <2>1, MarkSentAddressees
  <2>2. CASE q \notin connections[p]
    BY <1>1, <2>2 DEF Addressees
  <2> QED
    BY <2>1, <2>2
<1>6. \A a, b \in Peers : Written(a, b)' = Written(a, b)
  BY <1>5, SameWritten
<1>7. Texts(waiting) \in Seq(Frame) /\ first \o Texts(waiting) \in Seq(Frame)
  BY StageTypes
<1>8. \A a, b \in Peers : a # p \/ b # q =>
         queued'[a][b] = queued[a][b] /\ pendingAuto'[a][b] = pendingAuto[a][b]
  BY <1>1 DEF Keep, TypeOK
<1>9. ASSUME NEW r \in Peers, r # q
      PROVE  Line(p, r, wire[p][r])'
  <2>1. InLine(Written(p, r), Texts(inbox[r][p]), w[p][r],
               Frames(queued[p][r]), Texts(pendingAuto[p][r]))
    BY DEF LinesOver, Line
  <2>2. InLine(Written(p, r), Texts(inbox[r][p]), wire'[p][r],
               Frames(queued[p][r]), Texts(pendingAuto[p][r]))
    <3>1. InLine(Written(p, r), Texts(inbox[r][p]), w[p][r] \o out[r],
                 Frames(queued[p][r]), Texts(pendingAuto[p][r]))
      BY <1>4, <1>9, <2>1, StageTypes, SilentMoves
    <3> QED
      BY <1>2, <2>1, <3>1
  <2> QED
    BY <1>6, <1>8, <1>9, <2>2 DEF Line
<1>10. Line(p, q, wire[p][q])'
  <2> DEFINE own == Written(p, q)
             i == Texts(inbox[q][p])
             k == Frames(queued[p][q])
             a == Texts(waiting)
  <2>1. i \in Seq(Frame) /\ k \in Seq(Frame) /\ a \in Seq(Frame)
        /\ w[p][q] \in Seq(Frame)
    BY StageTypes
  <2>2. InLine(own, i, w[p][q], k, a)
    BY DEF LinesOver, Line
  <2>3. pendingAuto'[p][q] = <<>> /\ Texts(<<>>) = <<>> /\ Frames(<<>>) = <<>>
    BY <1>1 DEF TypeOK, Texts, Frames
  <2>4. CASE q \in connections[p]
    <3>1. queued'[p][q] = queued[p][q] /\ k = <<>>
      BY <1>1, <2>3, <2>4 DEF Keep, QueuedOnlyForUnreachable
    <3> DEFINE x == first \o intro
    <3>2. x \in Seq(Frame) /\ Silent(x)
      BY <1>3 DEF Silent
    <3> HIDE DEF x
    <3>3. InLine(own, i, w[p][q] \o x, k, a)
      BY <2>1, <2>2, <3>2, SilentMoves
    <3>4. w[p][q] \o x \in Seq(Frame)
      BY <2>1, <3>2
    <3>5. InLine(own, i, (w[p][q] \o x) \o a, <<>>, <<>>)
      BY <2>1, <3>1, <3>3, <3>4, ReleaseMoves
    <3>6. (w[p][q] \o x) \o a = w[p][q] \o (x \o a)
      BY <2>1, <3>2, ConcatAssociates
    <3>7. InLine(own, i, w[p][q], <<>>, <<>>)
      BY <2>1, <2>2, <3>1, ReleaseMoves
    <3>8. InLine(own, i, wire'[p][q], <<>>, <<>>)
      BY <1>2, <1>3, <3>5, <3>6, <3>7 DEF x
    <3> QED
      BY <1>6, <2>3, <3>1, <3>8 DEF Line
  <2>5. CASE q \notin connections[p]
    <3>1. wire'[p][q] = w[p][q]
      BY <1>2, <2>5
    <3>2. queued'[p][q] = queued[p][q] \o Anonymous(first \o a)
      BY <1>1, <2>5 DEF Keep, TypeOK
    <3>3. Frames(queued'[p][q]) = k \o (first \o a)
      BY <1>7, <3>2, AnonymousType, FramesAnonymous, FramesConcat DEF TypeOK
    <3>4. k \o (first \o a) = (k \o first) \o a /\ k \o first \in Seq(Frame)
      <4>1. (k \o first) \o a = k \o (first \o a)
        BY <2>1, ConcatAssociates
      <4>2. \A S, T \in Seq(Frame) : S \o T \in Seq(Frame)
        OBVIOUS
      <4> QED
        BY <2>1, <4>1, <4>2
    <3>5. InLine(own, i, w[p][q], k \o first, a)
      BY <2>1, <2>2, SilentMoves
    <3>6. InLine(own, i, w[p][q], (k \o first) \o a, <<>>)
      BY <2>1, <3>4, <3>5, ReleaseMoves
    <3> QED
      BY <1>6, <2>3, <3>1, <3>3, <3>4, <3>6 DEF Line
  <2> QED
    BY <2>4, <2>5
<1>11. \A r \in Peers : Line(p, r, wire[p][r])'
  BY <1>9, <1>10
<1>12. \A a, b \in Peers : a # p =>
               /\ wire'[a][b] = w[a][b]
               /\ queued'[a][b] = queued[a][b]
               /\ pendingAuto'[a][b] = pendingAuto[a][b]
               /\ Written(a, b)' = Written(a, b)
  BY <1>2, <1>6, <1>8
<1>13. inbox' = inbox
  OBVIOUS
<1>14. Lines'
  BY <1>11, <1>12, <1>13, OwnLines
<1> QED
  BY <1>5, <1>14
\* A frame read from the wire leaves the lines in order.
LEMMA ConsumedLines ==
    ASSUME TypeOK, Lines, NEW p \in Peers, NEW q \in Peers, wire[p][q] # <<>>
    PROVE  /\ LinesOver(Consumed(q, p))
           /\ IsText(Head(wire[p][q])) =>
                LET n == Head(wire[p][q]).text
                IN  /\ n \in Written(p, q)
                    /\ \A m \in Members(inbox[q][p]) : m < n
                    /\ InLine(Written(p, q), Texts(Append(inbox[q][p], n)),
                              Tail(wire[p][q]), Frames(queued[p][q]),
                              Texts(pendingAuto[p][q]))
<1> DEFINE own == Written(p, q)
           i == Texts(inbox[q][p])
           k == Frames(queued[p][q])
           a == Texts(pendingAuto[p][q])
           w == wire[p][q]
<1>1. /\ own \in SUBSET Nat /\ i \in Seq(Frame) /\ k \in Seq(Frame)
      /\ a \in Seq(Frame) /\ w \in Seq(Frame) /\ w # <<>>
  BY StageTypes
<1>2. InLine(own, i, w, k, a)
  BY DEF Lines, LinesOver, Line
<1>3. /\ InLine(own, i, Tail(w), k, a)
      /\ IsText(Head(w)) =>
           InLine(own, i \o <<Text(Head(w).text)>>, Tail(w), k, a)
  BY <1>1, <1>2, ReadMoves
<1>4. LinesOver(Consumed(q, p))
  <2> SUFFICES ASSUME NEW b \in Peers, NEW c \in Peers
               PROVE  Line(b, c, Consumed(q, p)[b][c])
    BY DEF LinesOver
  <2>1. CASE b = p /\ c = q
    <3>1. Consumed(q, p)[b][c] = Tail(w)
      BY <2>1 DEF Consumed, TypeOK
    <3> QED
      BY <1>3, <2>1, <3>1 DEF Line
  <2>2. CASE ~(b = p /\ c = q)
    <3>1. Consumed(q, p)[b][c] = wire[b][c]
      BY <2>2 DEF Consumed, TypeOK
    <3> QED
      BY <3>1 DEF Lines, LinesOver
  <2> QED
    BY <2>1, <2>2
<1>5. ASSUME IsText(Head(w))
      PROVE  /\ Head(w).text \in own
             /\ \A m \in Members(inbox[q][p]) : m < Head(w).text
             /\ InLine(own, Texts(Append(inbox[q][p], Head(w).text)), Tail(w), k, a)
  <2>1. Head(w).text \in Carried(w)
    BY <1>1, <1>5, TailOrder
  <2>2. Head(w).text \in own /\ Head(w).text \in Nat
    BY <1>1, <1>2, <2>1 DEF InLine
  <2>3. inbox[q][p] \in Seq(Nat)
    BY DEF TypeOK
  <2>4. \A m \in Members(inbox[q][p]) : m < Head(w).text
    BY <1>2, <2>1, <2>3, CarriedTexts DEF InLine, Before
  <2> QED
    BY <1>3, <1>5, <2>2, <2>3, <2>4, TextsAppend
<1> QED
  BY <1>4, <1>5

\* A user's text joins the end of its line.
LEMMA SendTextLines ==
    ASSUME TypeOK, ReleasedToFriends, QueuedOnlyForUnreachable, Lines,
           NEW p \in Peers, NEW q \in Peers,
           SendTextToFriend(p, q) \/ SendTextToStranger(p, q)
    PROVE  /\ Lines'
           /\ Addressees' = [Addressees EXCEPT ![p] = Append(Addressees[p], q)]
           /\ inbox' = inbox
<1> DEFINE n == NewText(p)
           i == Texts(inbox[q][p])
           k == Frames(queued[p][q])
           a == Texts(pendingAuto[p][q])
           w == wire[p][q]
           own == Written(p, q)
<1>1. PICK s \in {"queued", "sent"} :
          history' = [history EXCEPT ![p] =
                        Append(history[p], [to |-> q, status |-> s])]
  BY DEF SendTextToFriend, SendTextToStranger
<1>2. /\ Addressees' = [Addressees EXCEPT ![p] = Append(Addressees[p], q)]
      /\ Written(p, q)' = Written(p, q) \cup {n}
      /\ \A b, c \in Peers : b # p \/ c # q => Written(b, c)' = Written(b, c)
      /\ n \in Nat /\ \A m \in Written(p, q) : m < n
  BY <1>1, AppendAddressees
<1>3. UNCHANGED <<inbox, connections>>
  BY DEF SendTextToFriend, SendTextToStranger
<1>4. /\ i \in Seq(Frame) /\ k \in Seq(Frame) /\ a \in Seq(Frame)
      /\ w \in Seq(Frame) /\ own \in SUBSET Nat
  BY StageTypes
<1>5. InLine(own, i, w, k, a)
  BY DEF Lines, LinesOver, Line
<1>6. /\ InLine(own \cup {n}, i, w, k, a)
      /\ k = <<>> /\ a = <<>> => InLine(own \cup {n}, i, w \o <<Text(n)>>, k, a)
      /\ a = <<>> => InLine(own \cup {n}, i, w, k \o <<Text(n)>>, a)
      /\ InLine(own \cup {n}, i, w, k, a \o <<Text(n)>>)
  BY <1>2, <1>4, <1>5, NewMoves
<1>7. Text(n) \in Frame
  BY <1>2, FrameTypes
<1> HIDE DEF n
<1>8. wire \in [Peers -> [Peers -> Seq(Frame)]] /\ LinesOver(wire)
  BY DEF TypeOK, Lines
<1>9. CASE SendTextToFriend(p, q)
  <2> DEFINE out == Only(q, <<Text(n)>>)
             kept == <<Queueing(Text(n), n)>>
  <2>1. Transmit(wire, p, out) /\ Keep(p, q, kept) /\ pendingAuto' = pendingAuto
    BY <1>9 DEF SendTextToFriend, n, contactVars
  <2>2. out \in [Peers -> Seq(Frame)]
    BY <1>7, EmptySeq DEF Only
  <2>3. kept \in Seq(QueueRecord) /\ Frames(kept) = <<Text(n)>>
    BY <1>2, <1>7 DEF Queueing, QueueRecord, Frames
  <2>4. out[q] = <<Text(n)>> /\ \A r \in Peers : r # q => out[r] = <<>>
    BY DEF Only
  <2> HIDE DEF out, kept
  <2>5. /\ \A r \in Peers :
             \/ wire'[p][r] = wire[p][r]
             \/ r \in connections[p] /\ wire'[p][r] = wire[p][r] \o out[r]
        /\ \A b, c \in Peers : b # p => wire'[b][c] = wire[b][c]
    BY <1>3, <1>8, <2>1, <2>2, TransmitMoves
  <2>6. a = <<>>
    BY <1>9 DEF SendTextToFriend, ReleasedToFriends, Texts
  <2>7. Line(p, q, wire[p][q])'
    <3>1. CASE q \in connections[p]
      <4>1. queued'[p][q] = queued[p][q] /\ k = <<>>
        BY <1>3, <2>1, <3>1 DEF Keep, QueuedOnlyForUnreachable, Frames
      <4>2. InLine(own \cup {n}, i, wire'[p][q], k, a)
        BY <1>6, <2>4, <2>5, <2>6, <4>1
      <4> QED
        BY <1>2, <1>3, <2>1, <4>1, <4>2 DEF Line
    <3>2. CASE q \notin connections[p]
      <4>1. queued'[p][q] = queued[p][q] \o kept
        BY <1>3, <2>1, <3>2 DEF Keep, TypeOK
      <4>2. Frames(queued'[p][q]) = k \o <<Text(n)>>
        BY <2>3, <4>1, FramesConcat DEF TypeOK
      <4>3. wire'[p][q] = w
        BY <2>5, <3>2
      <4>4. InLine(own \cup {n}, i, wire'[p][q], k \o <<Text(n)>>, a)
        BY <1>6, <2>6, <4>3
      <4> QED
        BY <1>2, <1>3, <2>1, <4>2, <4>4 DEF Line
    <3> QED
      BY <3>1, <3>2
  <2>8. \A b, c \in Peers : b # p \/ c # q => queued'[b][c] = queued[b][c]
    BY <2>1 DEF Keep, TypeOK
  <2>9. ASSUME NEW r \in Peers, r # q
        PROVE  Line(p, r, wire[p][r])'
    <3>1. wire[p][r] \o <<>> = wire[p][r]
      BY StageTypes
    <3>2. wire'[p][r] = wire[p][r]
      BY <2>4, <2>5, <2>9, <3>1
    <3> QED
      BY <1>2, <1>3, <1>8, <2>1, <2>8, <2>9, <3>2 DEF Line, LinesOver
  <2> QED
    <3>1. \A b, c \in Peers : b # p =>
               /\ wire'[b][c] = wire[b][c]
               /\ queued'[b][c] = queued[b][c]
               /\ pendingAuto'[b][c] = pendingAuto[b][c]
               /\ Written(b, c)' = Written(b, c)
      BY <1>2, <2>1, <2>5, <2>8
    <3>2. \A r \in Peers : Line(p, r, wire[p][r])'
      BY <2>7, <2>9
    <3>3. inbox' = inbox
      BY <1>3
    <3>4. Lines'
      BY <1>8, <3>1, <3>2, <3>3, OwnLines
    <3> QED
      BY <1>2, <3>3, <3>4
<1>10. CASE SendTextToStranger(p, q)
  <2> DEFINE f == <<Control("friend_request")>>
  <2>1. /\ Transmit(wire, p, Only(q, f)) /\ Keep(p, q, Anonymous(f))
        /\ pendingAuto' = [pendingAuto EXCEPT ![p][q] =
                              Append(pendingAuto[p][q], n)]
    BY <1>10 DEF SendTextToStranger, n
  <2>2. f \in Seq(Frame) /\ Silent(f) /\ Silent(<<>>) /\ <<>> \in Seq(Frame)
    BY FrameTypes, NoTexts DEF FrameType
  <2>3. Anonymous(f) \in Seq(QueueRecord) /\ Frames(Anonymous(f)) = f
    BY <2>2, AnonymousType, FramesAnonymous
  <2> HIDE DEF f
  <2>4. Only(q, f) \in [Peers -> Seq(Frame)]
        /\ \A r \in Peers : Silent(Only(q, f)[r])
    BY <2>2 DEF Only
  <2>5. /\ \A r \in Peers :
             \/ wire'[p][r] = wire[p][r]
             \/ wire'[p][r] = wire[p][r] \o Only(q, f)[r]
        /\ \A b, c \in Peers : b # p => wire'[b][c] = wire[b][c]
    BY <1>8, <2>1, <2>4, TransmitMoves
  <2>6. \A b, c \in Peers : b # p \/ c # q =>
           queued'[b][c] = queued[b][c] /\ pendingAuto'[b][c] = pendingAuto[b][c]
    BY <2>1 DEF Keep, TypeOK
  <2>7. Texts(pendingAuto'[p][q]) = a \o <<Text(n)>>
    BY <1>2, <2>1, TextsAppend DEF TypeOK
  <2>8. Frames(queued'[p][q]) = k \/ Frames(queued'[p][q]) = k \o f
    <3>1. \/ queued'[p][q] = queued[p][q]
          \/ queued'[p][q] = queued[p][q] \o Anonymous(f)
      BY <2>1 DEF Keep, TypeOK
    <3>2. queued[p][q] \in Seq(QueueRecord)
      BY DEF TypeOK
    <3> QED
      BY <2>3, <3>1, <3>2, FramesConcat
  <2>9. Line(p, q, wire[p][q])'
    <3> DEFINE a1 == a \o <<Text(n)>>
    <3>1. a1 \in Seq(Frame) /\ InLine(own \cup {n}, i, w, k, a1)
      BY <1>4, <1>6, <1>7
    <3> HIDE DEF i, k, a, w, own, a1
    <3>2. InLine(own \cup {n}, i, wire'[p][q], k, a1) /\ wire'[p][q] \in Seq(Frame)
      <4>1. InLine(own \cup {n}, i, w \o Only(q, f)[q], k, a1)
        BY <1>4, <2>4, <3>1, SilentMoves
      <4>2. w \o Only(q, f)[q] \in Seq(Frame)
        BY <1>4, <2>4
      <4> QED
        BY <1>4, <2>5, <3>1, <4>1, <4>2 DEF w
    <3>3. InLine(own \cup {n}, i, wire'[p][q], k \o f, a1)
      BY <1>4, <2>2, <3>1, <3>2, SilentMoves
    <3> QED
      BY <1>2, <1>3, <2>7, <2>8, <3>2, <3>3 DEF Line, i, k, a, own, a1
  <2>10. ASSUME NEW r \in Peers, r # q
         PROVE  Line(p, r, wire[p][r])'
    <3>1. Line(p, r, wire[p][r])
      BY DEF Lines, LinesOver
    <3>2. InLine(Written(p, r), Texts(inbox[r][p]), wire[p][r] \o Only(q, f)[r],
                 Frames(queued[p][r]), Texts(pendingAuto[p][r]))
      BY <2>4, <3>1, StageTypes, SilentMoves DEF Line
    <3> QED
      BY <1>2, <1>3, <2>5, <2>6, <2>10, <3>1, <3>2 DEF Line
  <2> QED
    <3>1. \A b, c \in Peers : b # p =>
               /\ wire'[b][c] = wire[b][c]
               /\ queued'[b][c] = queued[b][c]
               /\ pendingAuto'[b][c] = pendingAuto[b][c]
               /\ Written(b, c)' = Written(b, c)
      BY <1>2, <2>5, <2>6
    <3>2. \A r \in Peers : Line(p, r, wire[p][r])'
      BY <2>9, <2>10
    <3>3. inbox' = inbox
      BY <1>3
    <3>4. Lines'
      BY <1>8, <3>1, <3>2, <3>3, OwnLines
    <3> QED
      BY <1>2, <3>3, <3>4
<1> QED
  BY <1>2, <1>3, <1>9, <1>10
\* A connection moves queues and waiting texts to the wire, in this order.
LEMMA RegisterLines ==
    ASSUME TypeOK, Lines, NEW p \in Peers, NEW q \in Peers, Register(p, q)
    PROVE  Lines' /\ Addressees' = Addressees
<1> DEFINE reach == connections[p] \cup {q}
           greeting == Greeting(p, q)
           out == [r \in Peers |-> FlushedTo(reach, p)[r] \o greeting[r]]
<1>1. /\ Transmit(wire, p, out)
      /\ queued' = [queued EXCEPT ![p] = [r \in Peers |->
                       IF r \in reach THEN <<>> ELSE queued[p][r]]]
      /\ pendingAuto' = IF status[p][q] = "friend"
                        THEN [pendingAuto EXCEPT ![p][q] = <<>>]
                        ELSE pendingAuto
      /\ inbox' = inbox
  BY DEF Register
<1>2. Addressees' = Addressees
  BY MarkSentAddressees DEF Register
<1>3. \A b, c \in Peers : Written(b, c)' = Written(b, c)
  BY <1>2, SameWritten
<1>4. wire \in [Peers -> [Peers -> Seq(Frame)]] /\ LinesOver(wire)
  BY DEF TypeOK, Lines
<1>5. reach \in SUBSET Peers
  BY DEF TypeOK
<1>6. FlushedTo(reach, p) \in [Peers -> Seq(Frame)]
      /\ greeting \in [Peers -> Seq(Frame)]
  BY <1>5, OutTypes
<1> HIDE DEF reach, greeting
<1>7. out \in [Peers -> Seq(Frame)]
  <2>1. \A r \in Peers : FlushedTo(reach, p)[r] \o greeting[r] \in Seq(Frame)
    BY <1>6
  <2> QED
    BY <2>1
<1>8. ASSUME NEW r \in Peers
      PROVE  /\ out[r] = (IF r \in reach THEN Frames(queued[p][r]) ELSE <<>>)
                            \o greeting[r]
             /\ greeting[r] \in Seq(Frame)
  BY <1>6 DEF FlushedTo
<1> HIDE DEF out
<1>9. /\ \A r \in Peers :
            wire'[p][r] = wire[p][r] \/ wire'[p][r] = wire[p][r] \o out[r]
      /\ \A b, c \in Peers : b # p => wire'[b][c] = wire[b][c]
  BY <1>1, <1>4, <1>7, TransmitMoves
<1>10. \A b, c \in Peers : b # p =>
          /\ wire'[b][c] = wire[b][c]
          /\ queued'[b][c] = queued[b][c]
          /\ pendingAuto'[b][c] = pendingAuto[b][c]
          /\ Written(b, c)' = Written(b, c)
  BY <1>1, <1>3, <1>9 DEF TypeOK
<1>11. ASSUME NEW r \in Peers
       PROVE  Line(p, r, wire[p][r])'
  <2> DEFINE own == Written(p, r)
             i == Texts(inbox[r][p])
             k == Frames(queued[p][r])
             a == Texts(pendingAuto[p][r])
             w == wire[p][r]
  <2>1. /\ i \in Seq(Frame) /\ k \in Seq(Frame) /\ a \in Seq(Frame)
        /\ w \in Seq(Frame)
    BY StageTypes
  <2>2. InLine(own, i, w, k, a)
    BY <1>4 DEF LinesOver, Line
  <2>3. Frames(<<>>) = <<>> /\ Texts(<<>>) = <<>>
    BY DEF Frames, Texts
  <2>4. queued'[p][r] = IF r \in reach THEN <<>> ELSE queued[p][r]
    BY <1>1 DEF TypeOK
  <2>5. ASSUME Silent(greeting[r]), pendingAuto'[p][r] = pendingAuto[p][r]
        PROVE  Line(p, r, wire[p][r])'
    <3>1. CASE r \in reach
      <4>1. InLine(own, i, w \o (k \o greeting[r]), <<>>, a)
            /\ InLine(own, i, w, <<>>, a)
        BY <1>8, <2>1, <2>2, <2>5, GreetingMoves, FlushMoves
      <4>2. InLine(own, i, wire'[p][r], <<>>, a)
        BY <1>8, <1>9, <3>1, <4>1
      <4> QED
        BY <1>1, <1>3, <2>3, <2>4, <2>5, <3>1, <4>2 DEF Line
    <3>2. CASE r \notin reach
      <4>1. InLine(own, i, w \o greeting[r], k, a)
        BY <1>8, <2>1, <2>2, <2>5, SilentMoves
      <4>2. <<>> \o greeting[r] = greeting[r]
        BY <1>8
      <4>3. InLine(own, i, wire'[p][r], k, a)
        BY <1>8, <1>9, <2>2, <3>2, <4>1, <4>2
      <4> QED
        BY <1>1, <1>3, <2>4, <2>5, <3>2, <4>3 DEF Line
    <3> QED
      BY <3>1, <3>2
  <2>6. CASE r = q /\ status[p][q] = "friend"
    <3> DEFINE x == Introduction(p, q)
    <3>1. x \in Seq(Frame) /\ Silent(x)
      BY OutTypes, NoTexts DEF Introduction
    <3>2. greeting[r] = a \o x
      BY <2>6 DEF Greeting, greeting
    <3>3. r \in reach
      BY <2>6 DEF reach
    <3> HIDE DEF x
    <3>4. InLine(own, i, w \o (k \o (a \o x)), <<>>, <<>>)
          /\ InLine(own, i, w, <<>>, <<>>)
      BY <2>1, <2>2, <3>1, GreetingMoves
    <3>5. InLine(own, i, wire'[p][r], <<>>, <<>>)
      BY <1>8, <1>9, <3>2, <3>3, <3>4
    <3>6. pendingAuto'[p][r] = <<>>
      BY <1>1, <2>6 DEF TypeOK
    <3> QED
      BY <1>1, <1>3, <2>3, <2>4, <3>3, <3>5, <3>6 DEF Line
  <2>7. CASE ~(r = q /\ status[p][q] = "friend")
    <3>1. Silent(greeting[r])
      BY <2>7, NoTexts DEF Greeting, greeting
    <3>2. pendingAuto'[p][r] = pendingAuto[p][r]
      BY <1>1, <2>7 DEF TypeOK
    <3> QED
      BY <2>5, <3>1, <3>2
  <2> QED
    BY <2>6, <2>7
<1>12. inbox' = inbox
  BY <1>1
<1>13. Lines'
  BY <1>4, <1>10, <1>11, <1>12, OwnLines
<1> QED
  BY <1>2, <1>13

\* The flush loop moves queues to the wire.
LEMMA FlushLines ==
    ASSUME TypeOK, Lines, NEW p \in Peers, FlushLoop(p)
    PROVE  Lines' /\ Addressees' = Addressees /\ inbox' = inbox
<1> DEFINE out == FlushedTo(connections[p], p)
<1>1. /\ Transmit(wire, p, out)
      /\ queued' = [queued EXCEPT ![p] = [r \in Peers |->
                       IF r \in connections[p] THEN <<>> ELSE queued[p][r]]]
      /\ UNCHANGED <<inbox, pendingAuto, connections>>
  BY DEF FlushLoop, contactVars, linkVars
<1>2. Addressees' = Addressees
  BY MarkSentAddressees DEF FlushLoop
<1>3. \A b, c \in Peers : Written(b, c)' = Written(b, c)
  BY <1>2, SameWritten
<1>4. wire \in [Peers -> [Peers -> Seq(Frame)]] /\ LinesOver(wire)
  BY DEF TypeOK, Lines
<1>5. out \in [Peers -> Seq(Frame)]
  BY OutTypes DEF TypeOK
<1>6. \A r \in Peers : r \in connections[p] => out[r] = Frames(queued[p][r])
  BY DEF FlushedTo
<1> HIDE DEF out
<1>7. /\ \A r \in Peers :
            \/ wire'[p][r] = wire[p][r]
            \/ r \in connections[p] /\ wire'[p][r] = wire[p][r] \o out[r]
      /\ \A b, c \in Peers : b # p => wire'[b][c] = wire[b][c]
  BY <1>1, <1>4, <1>5, TransmitMoves
<1>8. \A b, c \in Peers : b # p =>
          /\ wire'[b][c] = wire[b][c]
          /\ queued'[b][c] = queued[b][c]
          /\ pendingAuto'[b][c] = pendingAuto[b][c]
          /\ Written(b, c)' = Written(b, c)
  BY <1>1, <1>3, <1>7 DEF TypeOK
<1>9. ASSUME NEW r \in Peers
      PROVE  Line(p, r, wire[p][r])'
  <2>1. InLine(Written(p, r), Texts(inbox[r][p]), wire[p][r],
               Frames(queued[p][r]), Texts(pendingAuto[p][r]))
    BY <1>4 DEF LinesOver, Line
  <2>2. queued'[p][r] = IF r \in connections[p] THEN <<>> ELSE queued[p][r]
    BY <1>1 DEF TypeOK
  <2>3. Frames(<<>>) = <<>>
    BY DEF Frames
  <2>4. CASE r \in connections[p]
    <3>1. InLine(Written(p, r), Texts(inbox[r][p]), wire'[p][r], <<>>,
                 Texts(pendingAuto[p][r]))
      <4>1. /\ InLine(Written(p, r), Texts(inbox[r][p]),
                      wire[p][r] \o Frames(queued[p][r]), <<>>,
                      Texts(pendingAuto[p][r]))
            /\ InLine(Written(p, r), Texts(inbox[r][p]), wire[p][r], <<>>,
                      Texts(pendingAuto[p][r]))
        BY <2>1, StageTypes, FlushMoves
      <4> QED
        BY <1>6, <1>7, <2>4, <4>1
    <3> QED
      BY <1>1, <1>3, <2>2, <2>3, <2>4, <3>1 DEF Line
  <2>5. CASE r \notin connections[p]
    BY <1>1, <1>3, <1>7, <2>1, <2>2, <2>5 DEF Line
  <2> QED
    BY <2>4, <2>5
<1>10. inbox' = inbox
  BY <1>1
<1>11. Lines'
  BY <1>4, <1>8, <1>9, <1>10, OwnLines
<1> QED
  BY <1>2, <1>10, <1>11

\* What a closed end had not read is lost.
LEMMA DropLines ==
    ASSUME TypeOK, Lines, NEW p \in Peers, NEW q \in Peers, Drop(p, q)
    PROVE  Lines' /\ Addressees' = Addressees /\ inbox' = inbox
<1>1. /\ wire' = [wire EXCEPT ![q][p] = <<>>,
                              ![p][q] = IF p \in connections[q] THEN @ ELSE <<>>]
      /\ UNCHANGED <<pendingAuto, queued, history, inbox>>
  BY DEF Drop, contactVars
<1>2. Addressees' = Addressees /\ \A b, c \in Peers : Written(b, c)' = Written(b, c)
  BY <1>1, SameWritten DEF Addressees
<1>3. ASSUME NEW b \in Peers, NEW c \in Peers
      PROVE  Line(b, c, wire[b][c])'
  <2>1. Line(b, c, wire[b][c])
    BY DEF Lines, LinesOver
  <2>2. wire'[b][c] = wire[b][c] \/ wire'[b][c] = <<>>
    BY <1>1 DEF TypeOK
  <2>3. Carried(<<>>) = {} /\ Rising(<<>>)
    BY NoTexts, SilentFrames
  <2>4. Line(b, c, <<>>)
    BY <2>1, <2>3 DEF Line, InLine, Before
  <2>5. Line(b, c, wire'[b][c])
    BY <2>1, <2>2, <2>4
  <2> QED
    BY <1>1, <1>2, <2>5 DEF Line
<1> QED
  BY <1>1, <1>2, <1>3 DEF Lines, LinesOver
\* A delivered frame: a text of a friend is read, nothing else is.
LEMMA DeliverLines ==
    ASSUME TypeOK, QueuedOnlyForUnreachable, Lines,
           NEW p \in Peers, NEW q \in Peers, Deliver(q, p)
    PROVE  /\ Lines' /\ Addressees' = Addressees
           /\ \/ inbox' = inbox
              \/ \E n \in Written(p, q) :
                    /\ \A m \in Members(inbox[q][p]) : m < n
                    /\ inbox' = [inbox EXCEPT ![q][p] = Append(inbox[q][p], n)]
<1> DEFINE C == Consumed(q, p)
           f == Head(wire[p][q])
           accept == <<Control("friend_accept")>>
<1>1. /\ wire[p][q] # <<>>
      /\ UNCHANGED <<connections, live>>
  BY DEF Deliver, HandleFriendRequest, HandleFriendAccept,
         HandleFriendDecline, HandlePeerList, HandleText, Receives, linkVars
<1>2. C \in [Peers -> [Peers -> Seq(Frame)]]
  BY <1>1, ConsumedType
<1>3. /\ LinesOver(C)
      /\ IsText(f) =>
            /\ f.text \in Written(p, q)
            /\ \A m \in Members(inbox[q][p]) : m < f.text
            /\ InLine(Written(p, q), Texts(Append(inbox[q][p], f.text)),
                      Tail(wire[p][q]), Frames(queued[p][q]),
                      Texts(pendingAuto[p][q]))
  BY <1>1, ConsumedLines
<1>4. accept \in Seq(Frame) /\ Silent(accept) /\ <<>> \in Seq(Frame) /\ Silent(<<>>)
  BY FrameTypes, NoTexts, EmptySeq DEF FrameType
<1>5. ASSUME wire' = C, UNCHANGED <<pendingAuto, queued, history, inbox>>
      PROVE  Lines' /\ Addressees' = Addressees
  <2>1. Addressees' = Addressees
    BY <1>5 DEF Addressees
  <2>2. \A b, c \in Peers : Written(b, c)' = Written(b, c)
    BY <2>1, SameWritten
  <2>3. ASSUME NEW b \in Peers, NEW c \in Peers
        PROVE  Line(b, c, wire[b][c])'
    <3>1. Line(b, c, C[b][c])
      BY <1>3 DEF LinesOver
    <3> QED
      BY <1>5, <2>2, <3>1 DEF Line
  <2> QED
    BY <2>1, <2>3 DEF Lines, LinesOver
<1>6. ASSUME NEW first \in Seq(Frame), Silent(first),
             BecomeFriends(C, q, p, first), inbox' = inbox
      PROVE  Lines' /\ Addressees' = Addressees
  BY <1>1, <1>2, <1>3, <1>6, BecomeFriendsLines
<1>7. CASE HandleFriendRequest(q, p)
  <2>1. inbox' = inbox
    BY <1>7 DEF HandleFriendRequest
  <2>2. CASE wire' = C /\ UNCHANGED <<contactVars, queued, history>>
    BY <1>5, <2>1, <2>2 DEF contactVars
  <2>3. CASE /\ Transmit(C, q, Only(p, accept)) /\ Keep(q, p, Anonymous(accept))
             /\ UNCHANGED <<contactVars, history>>
    <3>1. Addressees' = Addressees /\ pendingAuto' = pendingAuto
      BY <2>3 DEF Addressees, contactVars
    <3>2. "friend_accept" \in FrameType \ {"text"}
      BY DEF FrameType
    <3>3. Lines'
      BY <1>2, <1>3, <2>1, <2>3, <3>1, <3>2, SilentSend
    <3> QED
      BY <2>1, <3>1, <3>3
  <2>4. CASE BecomeFriends(C, q, p, accept)
    BY <1>4, <1>6, <2>1, <2>4
  <2> QED
    BY <1>7, <2>1, <2>2, <2>3, <2>4 DEF HandleFriendRequest
<1>8. CASE HandleFriendAccept(q, p)
  BY <1>4, <1>6, <1>8 DEF HandleFriendAccept
<1>9. CASE HandleFriendDecline(q, p) \/ HandlePeerList(q, p)
  BY <1>5, <1>9 DEF HandleFriendDecline, HandlePeerList
<1>10. CASE HandleText(q, p)
  <2>1. /\ wire' = C /\ UNCHANGED <<contactVars, queued, history>>
        /\ inbox' = IF status[q][p] = "friend"
                    THEN [inbox EXCEPT ![q][p] = Append(inbox[q][p], f.text)]
                    ELSE inbox
        /\ IsText(f)
    BY <1>10 DEF HandleText, Receives, IsText
  <2>2. CASE status[q][p] # "friend"
    BY <1>5, <2>1, <2>2 DEF contactVars
  <2>3. CASE status[q][p] = "friend"
    <3>1. Addressees' = Addressees /\ UNCHANGED <<queued, pendingAuto>>
      BY <2>1 DEF Addressees, contactVars
    <3>2. \A b, c \in Peers : Written(b, c)' = Written(b, c)
      BY <3>1, SameWritten
    <3>3. inbox' = [inbox EXCEPT ![q][p] = Append(inbox[q][p], f.text)]
      BY <2>1, <2>3
    <3>4. ASSUME NEW b \in Peers, NEW c \in Peers
          PROVE  Line(b, c, wire[b][c])'
      <4>1. CASE b = p /\ c = q
        <5>1. wire'[b][c] = Tail(wire[p][q])
              /\ inbox'[c][b] = Append(inbox[q][p], f.text)
          <6>1. C[p][q] = Tail(wire[p][q])
            BY DEF Consumed, TypeOK
          <6>2. inbox'[q][p] = Append(inbox[q][p], f.text)
            BY <3>3 DEF TypeOK
          <6> QED
            BY <2>1, <4>1, <6>1, <6>2
        <5> QED
          BY <1>3, <2>1, <3>1, <3>2, <4>1, <5>1 DEF Line
      <4>2. CASE ~(b = p /\ c = q)
        <5>1. inbox'[c][b] = inbox[c][b]
          BY <3>3, <4>2 DEF TypeOK
        <5>2. Line(b, c, C[b][c])
          BY <1>3 DEF LinesOver
        <5> QED
          BY <2>1, <3>1, <3>2, <5>1, <5>2 DEF Line
      <4> QED
        BY <4>1, <4>2
    <3>5. Lines'
      BY <3>4 DEF Lines, LinesOver
    <3> QED
      BY <1>3, <2>1, <3>1, <3>3, <3>5
  <2> QED
    BY <2>2, <2>3
<1> QED
  BY <1>7, <1>8, <1>9, <1>10 DEF Deliver, HandleFriendAccept,
                                HandleFriendDecline, HandlePeerList

\* A friend command writes no text.
LEMMA CommandLines ==
    ASSUME TypeOK, QueuedOnlyForUnreachable, Lines,
           NEW p \in Peers, NEW q \in Peers,
           RequestFriend(p, q) \/ AcceptFriend(p, q) \/ DeclineFriend(p, q)
    PROVE  Lines' /\ Addressees' = Addressees /\ inbox' = inbox
<1>1. UNCHANGED <<inbox, connections>>
  BY DEF RequestFriend, AcceptFriend, DeclineFriend, Command, linkVars
<1>2. wire \in [Peers -> [Peers -> Seq(Frame)]] /\ LinesOver(wire)
  BY DEF TypeOK, Lines
<1>3. CASE AcceptFriend(p, q)
  <2>1. <<Control("friend_accept")>> \in Seq(Frame)
        /\ Silent(<<Control("friend_accept")>>)
    BY FrameTypes, NoTexts DEF FrameType
  <2>2. BecomeFriends(wire, p, q, <<Control("friend_accept")>>)
    BY <1>3 DEF AcceptFriend
  <2> QED
    BY <1>1, <1>2, <2>1, <2>2, BecomeFriendsLines
<1>4. CASE RequestFriend(p, q) \/ DeclineFriend(p, q)
  <2>1. PICK type \in FrameType \ {"text"} :
            /\ Transmit(wire, p, Only(q, <<Control(type)>>))
            /\ Keep(p, q, Anonymous(<<Control(type)>>))
    BY <1>4 DEF RequestFriend, DeclineFriend, FrameType
  <2>2. UNCHANGED <<pendingAuto, history>>
    BY <1>4 DEF RequestFriend, DeclineFriend
  <2>3. Addressees' = Addressees
    BY <2>2 DEF Addressees
  <2>4. UNCHANGED <<pendingAuto, inbox>>
    BY <1>1, <2>2
  <2>5. Lines'
    BY <1>2, <2>1, <2>3, <2>4, SilentSend
  <2> QED
    BY <1>1, <2>3, <2>5
<1> QED
  BY <1>3, <1>4

\* A step that changes none of the stages.
LEMMA StillLines ==
    ASSUME Lines, UNCHANGED <<pendingAuto, queued, history, inbox, wire>>
    PROVE  Lines' /\ Addressees' = Addressees /\ inbox' = inbox
<1>1. Addressees' = Addressees
  BY DEF Addressees
<1>2. \A b, c \in Peers : Written(b, c)' = Written(b, c)
  BY <1>1, SameWritten
<1>3. ASSUME NEW b \in Peers, NEW c \in Peers
      PROVE  Line(b, c, wire[b][c])'
  BY <1>2 DEF Lines, LinesOver, Line
<1> QED
  BY <1>1, <1>3 DEF Lines, LinesOver

-----------------------------------------------------------------------------
(***************************************************************************)
(* The refinement.                                                         *)
(***************************************************************************)

\* A text read is a Read of Mailbox.
LEMMA MailRead ==
    ASSUME TypeOK, NEW p \in Peers, NEW q \in Peers, NEW n \in Written(p, q),
           \A m \in Members(inbox[q][p]) : m < n, Addressees' = Addressees,
           inbox' = [inbox EXCEPT ![q][p] = Append(inbox[q][p], n)]
    PROVE  Mail!Read(q, p)
BY DEF Mail!Read, Mail!Newer, Written, Members

\* Every step keeps the lines and is a Write, a Read or a stutter of Mailbox.
LEMMA NextMail ==
    TypeOK /\ ReleasedToFriends /\ QueuedOnlyForUnreachable /\ Lines
      /\ [Next]_vars
        => Lines' /\ [Mail!Next]_<<Addressees, inbox>>
<1> SUFFICES ASSUME TypeOK, ReleasedToFriends, QueuedOnlyForUnreachable, Lines,
                    [Next]_vars
             PROVE  Lines' /\ [Mail!Next]_<<Addressees, inbox>>
  OBVIOUS
<1>1. ASSUME NEW p \in Peers, NEW q \in Peers,
             SendTextToFriend(p, q) \/ SendTextToStranger(p, q)
      PROVE  Lines' /\ Mail!Next
  <2>1. Lines' /\ Mail!Write(p, q)
    BY <1>1, SendTextLines DEF Mail!Write
  <2> QED
    BY <2>1 DEF Mail!Next
<1>2. ASSUME NEW p \in Peers, NEW q \in Peers,
             RequestFriend(p, q) \/ AcceptFriend(p, q) \/ DeclineFriend(p, q)
      PROVE  Lines' /\ UNCHANGED <<Addressees, inbox>>
  BY <1>2, CommandLines
<1>3. ASSUME NEW p \in Peers, NEW q \in Peers, Deliver(q, p)
      PROVE  Lines' /\ [Mail!Next]_<<Addressees, inbox>>
  <2>1. /\ Lines' /\ Addressees' = Addressees
        /\ \/ inbox' = inbox
           \/ \E n \in Written(p, q) :
                 /\ \A m \in Members(inbox[q][p]) : m < n
                 /\ inbox' = [inbox EXCEPT ![q][p] = Append(inbox[q][p], n)]
    BY <1>3, DeliverLines
  <2>2. CASE inbox' = inbox
    BY <2>1, <2>2
  <2>3. CASE inbox' # inbox
    <3>1. Mail!Read(q, p)
      BY <2>1, <2>3, MailRead
    <3> QED
      BY <2>1, <3>1 DEF Mail!Next
  <2> QED
    BY <2>2, <2>3
<1>4. ASSUME NEW p \in Peers, NEW q \in Peers, Register(p, q)
      PROVE  Lines' /\ UNCHANGED <<Addressees, inbox>>
  BY <1>4, RegisterLines DEF Register
<1>5. ASSUME NEW p \in Peers, NEW q \in Peers, Drop(p, q)
      PROVE  Lines' /\ UNCHANGED <<Addressees, inbox>>
  BY <1>5, DropLines
<1>6. ASSUME NEW l \in Links, Break(l)
      PROVE  Lines' /\ UNCHANGED <<Addressees, inbox>>
  BY <1>6, StillLines DEF Break, contactVars
<1>7. ASSUME NEW p \in Peers, FlushLoop(p)
      PROVE  Lines' /\ UNCHANGED <<Addressees, inbox>>
  BY <1>7, FlushLines
<1>8. CASE UNCHANGED vars
  BY <1>8, StillLines DEF vars
<1> QED
  BY <1>1, <1>2, <1>3, <1>4, <1>5, <1>6, <1>7, <1>8 DEF Next

\* At the start nothing is written, so every line is empty.
LEMMA InitMail == Init => Lines /\ Mail!Init
<1> SUFFICES ASSUME Init PROVE Lines /\ Mail!Init
  OBVIOUS
<1>1. /\ pendingAuto = [p \in Peers |-> [q \in Peers |-> <<>>]]
      /\ queued = [p \in Peers |-> [q \in Peers |-> <<>>]]
      /\ history = [p \in Peers |-> <<>>]
      /\ inbox = [p \in Peers |-> [q \in Peers |-> <<>>]]
      /\ wire = [p \in Peers |-> [q \in Peers |-> <<>>]]
  BY DEF Init
<1>2. Carried(<<>>) = {} /\ Rising(<<>>)
  BY NoTexts, SilentFrames
<1>3. Texts(<<>>) = <<>> /\ Frames(<<>>) = <<>>
  BY DEF Texts, Frames
<1>4. \A p, q \in Peers : Line(p, q, wire[p][q])
  BY <1>1, <1>2, <1>3 DEF Line, InLine, Before
<1>5. Addressees = [p \in Peers |-> <<>>]
  BY <1>1 DEF Addressees
<1> QED
  BY <1>1, <1>4, <1>5 DEF Lines, LinesOver, Mail!Init

\* A user reads the texts of another in the order they were written, each at
\* most once and only those written to it (Core.send_text, _flush_pending_auto,
\* flush_queued, _handle_body): every behaviour of Session is one of Mailbox.
THEOREM Refinement == Spec => ImplementsMailbox
<1>1. Init => Lines /\ Mail!Init
  BY InitMail
<1>2. TypeOK /\ ReleasedToFriends /\ QueuedOnlyForUnreachable /\ Lines
        /\ [Next]_vars
          => Lines' /\ [Mail!Next]_<<Addressees, inbox>>
  BY NextMail
<1> QED
  BY <1>1, <1>2, Typing, Released, QueueFlushed, PTL
  DEF Spec, ImplementsMailbox, Mail!Spec
-----------------------------------------------------------------------------
(***************************************************************************)
(* QueuedIsHeldInReach is inductive given the types: what a step takes out *)
(* of the queue or of _pending_auto, it marks sent in the history.         *)
(***************************************************************************)

\* What a peer's queue and _pending_auto hold of the entries for q.
Holding(waiting, kept, q) == Members(waiting[q]) \cup Uids(kept[q])

\* Every entry shown as queued is held.
Held(entries, waiting, kept) ==
    \A n \in 1..Len(entries) :
        entries[n].status = "queued" => n \in Holding(waiting, kept, entries[n].to)

AllHeld == \A p \in Peers : Held(history[p], pendingAuto[p], queued[p])

\* What a property of the histories says of the numbers of the entries.
LEMMA HeldMeaning == TypeOK => (QueuedIsHeldInReach <=> (~Given("accept") => AllHeld))
<1> SUFFICES ASSUME TypeOK
             PROVE  QueuedIsHeldInReach <=> (~Given("accept") => AllHeld)
  OBVIOUS
<1>1. \A p \in Peers : DOMAIN history[p] = 1..Len(history[p])
  BY DEF TypeOK
<1> QED
  BY <1>1 DEF QueuedIsHeldInReach, AllHeld, Held, Holding

\* The uids of records behind others.
LEMMA UidsConcat ==
    ASSUME NEW A \in Seq(QueueRecord), NEW B \in Seq(QueueRecord)
    PROVE  Uids(A) \subseteq Uids(A \o B) /\ Uids(B) \subseteq Uids(A \o B)
<1>1. /\ Len(A) \in Nat /\ Len(B) \in Nat
      /\ DOMAIN A = 1..Len(A) /\ DOMAIN B = 1..Len(B)
      /\ DOMAIN (A \o B) = 1..(Len(A) + Len(B))
      /\ \A i \in 1..Len(A) : (A \o B)[i] = A[i]
      /\ \A i \in 1..Len(B) : (A \o B)[Len(A) + i] = B[i]
  OBVIOUS
<1>2. \A i \in 1..Len(A) : i \in DOMAIN (A \o B)
  BY <1>1
<1>3. \A i \in 1..Len(B) : Len(A) + i \in DOMAIN (A \o B)
  BY <1>1
<1>4. ASSUME NEW i \in DOMAIN A PROVE A[i].uid \in Uids(A \o B)
  BY <1>1, <1>2 DEF Uids
<1>5. ASSUME NEW i \in DOMAIN B PROVE B[i].uid \in Uids(A \o B)
  <2>1. (A \o B)[Len(A) + i].uid = B[i].uid /\ Len(A) + i \in DOMAIN (A \o B)
    BY <1>1, <1>3
  <2> QED
    BY <2>1 DEF Uids
<1> QED
  BY <1>4, <1>5 DEF Uids

\* What is no longer held is marked sent.
LEMMA MarkSentHeld ==
    ASSUME NEW entries \in Seq(HistoryEntry), NEW waiting, NEW kept,
           NEW waiting2, NEW kept2, NEW sent,
           Held(entries, waiting, kept),
           \A q \in Peers : Holding(waiting, kept, q)
                                \subseteq sent \cup Holding(waiting2, kept2, q)
    PROVE  Held(MarkSent(entries, sent), waiting2, kept2)
<1>1. /\ DOMAIN entries = 1..Len(entries)
      /\ Len(MarkSent(entries, sent)) = Len(entries)
      /\ \A n \in 1..Len(entries) : entries[n] \in HistoryEntry
  BY MarkSentType
<1>2. \A n \in 1..Len(entries) :
         /\ MarkSent(entries, sent)[n].to = entries[n].to
         /\ n \in sent => MarkSent(entries, sent)[n].status = "sent"
         /\ n \notin sent => MarkSent(entries, sent)[n] = entries[n]
         /\ entries[n].to \in Peers
  BY <1>1 DEF MarkSent, HistoryEntry
<1> QED
  BY <1>1, <1>2 DEF Held

\* Nothing marked, nothing let go of.
LEMMA StillHeld ==
    ASSUME NEW entries \in Seq(HistoryEntry), NEW waiting, NEW kept,
           NEW waiting2, NEW kept2, Held(entries, waiting, kept),
           \A q \in Peers : Holding(waiting, kept, q) \subseteq Holding(waiting2, kept2, q)
    PROVE  Held(entries, waiting2, kept2)
<1>1. \A n \in 1..Len(entries) : entries[n] \in HistoryEntry
  OBVIOUS
<1>2. \A n \in 1..Len(entries) : entries[n].to \in Peers
  BY <1>1 DEF HistoryEntry
<1> QED
  BY <1>2 DEF Held

\* A new entry is sent, or held.
LEMMA AppendHeld ==
    ASSUME NEW entries \in Seq(HistoryEntry), NEW waiting, NEW kept,
           NEW waiting2, NEW kept2, NEW e \in HistoryEntry,
           Held(entries, waiting, kept),
           \A q \in Peers : Holding(waiting, kept, q) \subseteq Holding(waiting2, kept2, q),
           e.status = "queued" => Len(entries) + 1 \in Holding(waiting2, kept2, e.to)
    PROVE  Held(Append(entries, e), waiting2, kept2)
<1>1. Held(entries, waiting2, kept2)
  BY StillHeld
<1>2. /\ Len(entries) \in Nat /\ Len(Append(entries, e)) = Len(entries) + 1
      /\ \A n \in 1..Len(entries) : Append(entries, e)[n] = entries[n]
      /\ Append(entries, e)[Len(entries) + 1] = e
      /\ \A n \in 1..(Len(entries) + 1) : n # Len(entries) + 1 => n \in 1..Len(entries)
  OBVIOUS
<1> QED
  BY <1>1, <1>2 DEF Held

\* Queueing only adds to what is held.
LEMMA KeepHolds ==
    ASSUME TypeOK, NEW p \in Peers, NEW q \in Peers,
           NEW kept \in Seq(QueueRecord), Keep(p, q, kept)
    PROVE  /\ \A r \in Peers : r # p => queued'[r] = queued[r]
           /\ \A r \in Peers : Uids(queued[p][r]) \subseteq Uids(queued'[p][r])
           /\ q \notin connections'[p] => Uids(kept) \subseteq Uids(queued'[p][q])
<1>1. queued \in [Peers -> [Peers -> Seq(QueueRecord)]]
  BY DEF TypeOK
<1>2. queued[p][q] \in Seq(QueueRecord)
  BY <1>1
<1>3. /\ Uids(queued[p][q]) \subseteq Uids(queued[p][q] \o kept)
      /\ Uids(kept) \subseteq Uids(queued[p][q] \o kept)
  BY <1>2, UidsConcat
<1> QED
  BY <1>1, <1>3 DEF Keep

\* Steps of p alone leave what the others hold alone.
LEMMA OwnHeld ==
    ASSUME AllHeld, NEW p \in Peers,
           \A r \in Peers : r # p =>
               /\ history'[r] = history[r] /\ pendingAuto'[r] = pendingAuto[r]
               /\ queued'[r] = queued[r],
           Held(history'[p], pendingAuto'[p], queued'[p])
    PROVE  AllHeld'
BY DEF AllHeld

\* What a new friend in reach is sent is marked so.
LEMMA BecomeFriendsHeld ==
    ASSUME TypeOK, AllHeld, NEW p \in Peers, NEW q \in connections[p],
           NEW w, NEW first \in Seq(Frame), BecomeFriends(w, p, q, first),
           connections' = connections
    PROVE  AllHeld'
<1> DEFINE waiting == pendingAuto[p][q]
<1>1. /\ pendingAuto' = [pendingAuto EXCEPT ![p][q] = <<>>]
      /\ history' = [history EXCEPT ![p] = MarkSent(history[p], Members(waiting))]
      /\ queued' = queued
  BY DEF BecomeFriends, Keep
<1>2. /\ pendingAuto \in [Peers -> [Peers -> Seq(Nat)]] /\ q \in Peers
      /\ history \in [Peers -> Seq(HistoryEntry)]
  BY DEF TypeOK
<1>3. ASSUME NEW r \in Peers
      PROVE  Holding(pendingAuto[p], queued[p], r)
                 \subseteq Members(waiting) \cup Holding(pendingAuto'[p], queued'[p], r)
  BY <1>1, <1>2 DEF Holding
<1>4. Held(history[p], pendingAuto[p], queued[p]) /\ history[p] \in Seq(HistoryEntry)
  BY <1>2 DEF AllHeld
<1>5. Held(MarkSent(history[p], Members(waiting)), pendingAuto'[p], queued'[p])
  BY <1>3, <1>4, MarkSentHeld
<1> QED
  BY <1>1, <1>2, <1>5, OwnHeld

\* A command other than an acceptance, or a text, holds what it does not send.
LEMMA UserHeld ==
    ASSUME TypeOK, AllHeld, NEW p \in Peers, NEW q \in Peers,
           \/ SendTextToFriend(p, q) \/ SendTextToStranger(p, q)
           \/ RequestFriend(p, q) \/ DeclineFriend(p, q)
    PROVE  AllHeld'
<1>1. /\ history \in [Peers -> Seq(HistoryEntry)]
      /\ pendingAuto \in [Peers -> [Peers -> Seq(Nat)]]
      /\ Held(history[p], pendingAuto[p], queued[p])
      /\ history[p] \in Seq(HistoryEntry) /\ pendingAuto[p][q] \in Seq(Nat)
      /\ NewText(p) \in Nat
  BY DEF TypeOK, AllHeld, NewText
<1>2. \A type \in FrameType : Anonymous(<<Control(type)>>) \in Seq(QueueRecord)
  <2>1. \A type \in FrameType : <<Control(type)>> \in Seq(Frame)
    BY FrameTypes
  <2> QED
    BY <2>1, AnonymousType
<1>3. CASE SendTextToFriend(p, q)
  <2> DEFINE record == Queueing(Text(NewText(p)), NewText(p))
             e == [to |-> q, status |-> IF q \in connections[p]
                                           THEN "sent" ELSE "queued"]
  <2>1. /\ Keep(p, q, <<record>>) /\ UNCHANGED <<connections, pendingAuto>>
        /\ history' = [history EXCEPT ![p] = Append(history[p], e)]
    BY <1>3 DEF SendTextToFriend, contactVars
  <2>2. record \in QueueRecord /\ Uids(<<record>>) = {NewText(p)}
    BY <1>1, FrameTypes DEF Queueing, QueueRecord, Uids
  <2>3. e \in HistoryEntry /\ e.to = q
        /\ (e.status = "queued" => q \notin connections[p])
    BY DEF HistoryEntry
  <2> HIDE DEF record, e
  <2>4. /\ \A r \in Peers : r # p => queued'[r] = queued[r]
        /\ \A r \in Peers : Uids(queued[p][r]) \subseteq Uids(queued'[p][r])
        /\ q \notin connections[p] => NewText(p) \in Uids(queued'[p][q])
    <3>1. <<record>> \in Seq(QueueRecord)
      BY <2>2
    <3> QED
      BY <2>1, <2>2, <3>1, KeepHolds
  <2>5. \A r \in Peers : Holding(pendingAuto[p], queued[p], r)
                             \subseteq Holding(pendingAuto'[p], queued'[p], r)
    BY <2>1, <2>4 DEF Holding
  <2>6. e.status = "queued" => Len(history[p]) + 1 \in Holding(pendingAuto'[p], queued'[p], e.to)
    BY <2>3, <2>4 DEF Holding, NewText
  <2>7. Held(Append(history[p], e), pendingAuto'[p], queued'[p])
    BY <1>1, <2>3, <2>5, <2>6, AppendHeld
  <2> QED
    BY <1>1, <2>1, <2>4, <2>7, OwnHeld
<1>4. CASE SendTextToStranger(p, q)
  <2> DEFINE e == [to |-> q, status |-> "queued"]
  <2>1. /\ Keep(p, q, Anonymous(<<Control("friend_request")>>))
        /\ pendingAuto' = [pendingAuto EXCEPT ![p][q] =
                              Append(pendingAuto[p][q], NewText(p))]
        /\ history' = [history EXCEPT ![p] = Append(history[p], e)]
    BY <1>4 DEF SendTextToStranger
  <2>2. e \in HistoryEntry /\ e.to = q
    BY DEF HistoryEntry
  <2> HIDE DEF e
  <2>3. /\ \A r \in Peers : r # p => queued'[r] = queued[r]
        /\ \A r \in Peers : Uids(queued[p][r]) \subseteq Uids(queued'[p][r])
    BY <1>2, <2>1, KeepHolds DEF FrameType
  <2>4. /\ pendingAuto'[p][q] = Append(pendingAuto[p][q], NewText(p))
        /\ \A r \in Peers : r # q => pendingAuto'[p][r] = pendingAuto[p][r]
        /\ \A r \in Peers : r # p => pendingAuto'[r] = pendingAuto[r]
    BY <1>1, <2>1
  <2>5. /\ Members(pendingAuto[p][q]) \subseteq Members(pendingAuto'[p][q])
        /\ NewText(p) \in Members(pendingAuto'[p][q])
    <3>1. ASSUME NEW s \in Seq(Nat), NEW n \in Nat
          PROVE  Members(s) \subseteq Members(Append(s, n)) /\ n \in Members(Append(s, n))
      <4>1. /\ \A i \in DOMAIN s : i \in DOMAIN Append(s, n) /\ Append(s, n)[i] = s[i]
            /\ Len(s) + 1 \in DOMAIN Append(s, n) /\ Append(s, n)[Len(s) + 1] = n
        OBVIOUS
      <4> QED
        BY <4>1 DEF Members
    <3> QED
      BY <1>1, <2>4, <3>1
  <2>6. \A r \in Peers : Holding(pendingAuto[p], queued[p], r)
                             \subseteq Holding(pendingAuto'[p], queued'[p], r)
    BY <2>3, <2>4, <2>5 DEF Holding
  <2>7. Len(history[p]) + 1 \in Holding(pendingAuto'[p], queued'[p], e.to)
    BY <2>2, <2>5 DEF Holding, NewText
  <2>8. Held(Append(history[p], e), pendingAuto'[p], queued'[p])
    BY <1>1, <2>2, <2>6, <2>7, AppendHeld
  <2> QED
    BY <1>1, <2>1, <2>3, <2>4, <2>8, OwnHeld
<1>5. CASE RequestFriend(p, q) \/ DeclineFriend(p, q)
  <2>1. PICK type \in FrameType : Keep(p, q, Anonymous(<<Control(type)>>))
    BY <1>5 DEF RequestFriend, DeclineFriend, FrameType
  <2>2. UNCHANGED <<history, pendingAuto>>
    BY <1>5 DEF RequestFriend, DeclineFriend
  <2>3. /\ \A r \in Peers : r # p => queued'[r] = queued[r]
        /\ \A r \in Peers : Uids(queued[p][r]) \subseteq Uids(queued'[p][r])
    BY <1>2, <2>1, KeepHolds
  <2>4. \A r \in Peers : Holding(pendingAuto[p], queued[p], r)
                             \subseteq Holding(pendingAuto'[p], queued'[p], r)
    BY <2>2, <2>3 DEF Holding
  <2>5. Held(history'[p], pendingAuto'[p], queued'[p])
    BY <1>1, <2>2, <2>4, StillHeld
  <2> QED
    BY <2>2, <2>3, <2>5, OwnHeld
<1> QED
  BY <1>3, <1>4, <1>5

\* A flush marks what it takes from the queue, a registration also what it
\* releases.
LEMMA FlushHeld ==
    ASSUME TypeOK, AllHeld, NEW p \in Peers, NEW marked,
           history' = [history EXCEPT ![p] = MarkSent(history[p], marked)],
           \A r \in Peers : r # p =>
               pendingAuto'[r] = pendingAuto[r] /\ queued'[r] = queued[r],
           \A r \in Peers : Holding(pendingAuto[p], queued[p], r)
                                \subseteq marked \cup Holding(pendingAuto'[p], queued'[p], r)
    PROVE  AllHeld'
<1>1. /\ history \in [Peers -> Seq(HistoryEntry)]
      /\ Held(history[p], pendingAuto[p], queued[p])
      /\ history[p] \in Seq(HistoryEntry)
  BY DEF TypeOK, AllHeld
<1>2. Held(MarkSent(history[p], marked), pendingAuto'[p], queued'[p])
  BY <1>1, MarkSentHeld
<1>3. Held(history'[p], pendingAuto'[p], queued'[p])
  BY <1>1, <1>2
<1> QED
  BY <1>1, <1>3, OwnHeld

\* A step counts one command or none.
LEMMA NextCommands ==
    [Next]_vars => \/ commands' = commands
                   \/ \E c \in Commands : commands' = [commands EXCEPT ![c] = @ + 1]
<1>1. \A p, q \in Peers :
         SendTextToFriend(p, q) \/ SendTextToStranger(p, q) => commands' = commands
  BY DEF SendTextToFriend, SendTextToStranger
<1>2. \A p, q \in Peers :
         RequestFriend(p, q) \/ AcceptFriend(p, q) \/ DeclineFriend(p, q)
           => \E c \in Commands : commands' = [commands EXCEPT ![c] = @ + 1]
  BY DEF RequestFriend, AcceptFriend, DeclineFriend, Command, Commands
<1>3. \A p, q \in Peers : Deliver(q, p) => commands' = commands
  BY DEF Deliver, HandleFriendRequest, HandleFriendAccept, HandleFriendDecline,
         HandlePeerList, HandleText, Receives
<1>4. \A p, q \in Peers : Register(p, q) \/ Drop(p, q) => commands' = commands
  BY DEF Register, Drop
<1>5. \A l \in Links : Break(l) => commands' = commands
  BY DEF Break
<1>6. \A p \in Peers : FlushLoop(p) => commands' = commands
  BY DEF FlushLoop
<1>7. UNCHANGED vars => commands' = commands
  BY DEF vars
<1> QED
  BY <1>1, <1>2, <1>3, <1>4, <1>5, <1>6, <1>7 DEF Next

\* Every step keeps queued entries held while nobody accepts by hand.
LEMMA NextHeld ==
    TypeOK /\ QueuedIsHeldInReach /\ [Next]_vars => QueuedIsHeldInReach'
<1> SUFFICES ASSUME TypeOK, QueuedIsHeldInReach, [Next]_vars, ~Given("accept")'
             PROVE  AllHeld'
  <2>1. ASSUME TypeOK, [Next]_vars PROVE TypeOK'
    BY <2>1, NextTypeOK
  <2>2. TypeOK' => (QueuedIsHeldInReach' <=> (~Given("accept")' => AllHeld'))
    BY HeldMeaning, PTL
  <2> QED
    BY <2>1, <2>2
<1>1. \A command \in Commands : Given(command) => Given(command)'
  <2>1. commands \in [Commands -> Nat] /\ commands' \in [Commands -> Nat]
    BY NextTypeOK DEF TypeOK
  <2>2. CASE commands' = commands
    BY <2>2 DEF Given
  <2>3. CASE \E c \in Commands : commands' = [commands EXCEPT ![c] = @ + 1]
    BY <2>1, <2>3 DEF Given
  <2>4. commands' = commands
        \/ \E c \in Commands : commands' = [commands EXCEPT ![c] = @ + 1]
    BY NextCommands
  <2> QED
    BY <2>2, <2>3, <2>4
<1>2. AllHeld
  BY <1>1, HeldMeaning DEF Commands
<1>3. ASSUME UNCHANGED <<history, pendingAuto, queued>> PROVE AllHeld'
  BY <1>2, <1>3 DEF AllHeld
<1>4. ASSUME NEW p \in Peers, NEW q \in Peers,
             \/ SendTextToFriend(p, q) \/ SendTextToStranger(p, q)
             \/ RequestFriend(p, q) \/ DeclineFriend(p, q)
      PROVE  AllHeld'
  BY <1>2, <1>4, UserHeld
<1>5. ASSUME NEW p \in Peers, NEW q \in Peers, AcceptFriend(p, q)
      PROVE  AllHeld'
  <2>1. Given("accept")'
    BY <1>5 DEF AcceptFriend, Command, Given, TypeOK, Commands
  <2> QED
    BY <2>1
<1>6. ASSUME NEW p \in Peers, NEW q \in Peers, Deliver(q, p)
      PROVE  AllHeld'
  <2>1. CASE UNCHANGED <<history, pendingAuto, queued>>
    BY <1>3, <2>1
  <2>2. CASE \E first \in Seq(Frame) : BecomeFriends(Consumed(q, p), q, p, first)
    <3>1. p \in connections[q] /\ connections' = connections
      BY <1>6 DEF Deliver, HandleFriendRequest, HandleFriendAccept,
                  HandleFriendDecline, HandlePeerList, HandleText, Receives, linkVars
    <3> QED
      BY <1>2, <2>2, <3>1, BecomeFriendsHeld
  <2>3. CASE HandleFriendRequest(q, p)
    <3>1. <<Control("friend_accept")>> \in Seq(Frame)
      BY FrameTypes DEF FrameType
    <3>2. p \in connections[q] /\ connections' = connections
      BY <2>3 DEF HandleFriendRequest, Receives, linkVars
    <3> QED
      BY <2>1, <2>2, <2>3, <3>1, <3>2 DEF HandleFriendRequest, contactVars, Keep
  <2>4. CASE HandleFriendAccept(q, p)
    BY <2>2, <2>4, EmptySeq DEF HandleFriendAccept
  <2>5. CASE HandleFriendDecline(q, p) \/ HandlePeerList(q, p) \/ HandleText(q, p)
    BY <2>1, <2>5 DEF HandleFriendDecline, HandlePeerList, HandleText, contactVars
  <2> QED
    BY <1>6, <2>3, <2>4, <2>5 DEF Deliver
<1>7. ASSUME NEW p \in Peers, NEW q \in Peers, Register(p, q)
      PROVE  AllHeld'
  <2> DEFINE reach == connections[p] \cup {q}
             released == IF status[p][q] = "friend" THEN pendingAuto[p][q] ELSE <<>>
             marked == FlushedUids(reach, p) \cup Members(released)
  <2>1. /\ queued' = [queued EXCEPT ![p] = [r \in Peers |->
                        IF r \in reach THEN <<>> ELSE queued[p][r]]]
        /\ history' = [history EXCEPT ![p] = MarkSent(history[p], marked)]
        /\ pendingAuto' = IF status[p][q] = "friend"
                          THEN [pendingAuto EXCEPT ![p][q] = <<>>]
                          ELSE pendingAuto
    BY <1>7 DEF Register
  <2>2. /\ pendingAuto \in [Peers -> [Peers -> Seq(Nat)]]
        /\ queued \in [Peers -> [Peers -> Seq(QueueRecord)]]
    BY DEF TypeOK
  <2>3. \A r \in Peers : r # p =>
            pendingAuto'[r] = pendingAuto[r] /\ queued'[r] = queued[r]
    BY <2>1, <2>2
  <2>4. ASSUME NEW r \in Peers
        PROVE  Holding(pendingAuto[p], queued[p], r)
                   \subseteq marked \cup Holding(pendingAuto'[p], queued'[p], r)
    <3>1. Members(pendingAuto[p][r]) \subseteq Members(released) \cup Members(pendingAuto'[p][r])
      BY <2>1, <2>2
    <3>2. queued'[p][r] = IF r \in reach THEN <<>> ELSE queued[p][r]
      BY <2>1, <2>2
    <3>3. Uids(queued[p][r]) \subseteq FlushedUids(reach, p) \cup Uids(queued'[p][r])
      BY <3>2 DEF FlushedUids
    <3> QED
      BY <3>1, <3>3 DEF Holding
  <2> HIDE DEF marked
  <2> QED
    BY <1>2, <2>1, <2>3, <2>4, FlushHeld
<1>8. ASSUME NEW p \in Peers, FlushLoop(p) PROVE AllHeld'
  <2> DEFINE marked == FlushedUids(connections[p], p)
  <2>1. /\ queued' = [queued EXCEPT ![p] = [r \in Peers |->
                        IF r \in connections[p] THEN <<>> ELSE queued[p][r]]]
        /\ history' = [history EXCEPT ![p] = MarkSent(history[p], marked)]
        /\ pendingAuto' = pendingAuto
    BY <1>8 DEF FlushLoop, contactVars
  <2>2. queued \in [Peers -> [Peers -> Seq(QueueRecord)]]
    BY DEF TypeOK
  <2>3. \A r \in Peers : r # p =>
            pendingAuto'[r] = pendingAuto[r] /\ queued'[r] = queued[r]
    BY <2>1, <2>2
  <2>4. ASSUME NEW r \in Peers
        PROVE  Holding(pendingAuto[p], queued[p], r)
                   \subseteq marked \cup Holding(pendingAuto'[p], queued'[p], r)
    <3>1. queued'[p][r] = IF r \in connections[p] THEN <<>> ELSE queued[p][r]
      BY <2>1, <2>2
    <3>2. Uids(queued[p][r]) \subseteq marked \cup Uids(queued'[p][r])
      BY <3>1 DEF FlushedUids
    <3> QED
      BY <2>1, <3>2 DEF Holding
  <2> HIDE DEF marked
  <2> QED
    BY <1>2, <2>1, <2>3, <2>4, FlushHeld
<1>9. ASSUME (\E p, q \in Peers : Drop(p, q)) \/ (\E l \in Links : Break(l))
             \/ UNCHANGED vars
      PROVE  AllHeld'
  BY <1>3, <1>9 DEF Drop, Break, contactVars, vars
<1> QED
  BY <1>4, <1>5, <1>6, <1>7, <1>8, <1>9 DEF Next

\* An entry shown as queued is held by the queue under its uid or by
\* _pending_auto, which will mark it sent (Core.flush_queued,
\* _flush_pending_auto, _become_friends), across rejections and broken links.
THEOREM EntriesHeld == Spec => []QueuedIsHeldInReach
<1>1. Init => QueuedIsHeldInReach
  BY DEF Init, QueuedIsHeldInReach
<1>2. TypeOK /\ QueuedIsHeldInReach /\ [Next]_vars => QueuedIsHeldInReach'
  BY NextHeld
<1> QED
  BY <1>1, <1>2, Typing, PTL DEF Spec
-----------------------------------------------------------------------------
(***************************************************************************)
(* While no link breaks, the frames from p to q are one line: what is on   *)
(* the wire, then what is in the queue.  A step lets one peer read the     *)
(* front of one line and add to the ends of its own lines.                 *)
(***************************************************************************)
Way(p, q) == wire[p][q] \o Frames(queued[p][q])

\* Links work and connect different peers, who write to each other.
Connected ==
    /\ \A p, q \in Peers : q \in connections[p] => p # q
    /\ breaks = 0 => \A p, q \in Peers : q \in connections[p] => {p, q} \in live
    /\ \A p \in Peers : \A n \in 1..Len(history[p]) : history[p][n].to # p

HasType(line, type) == \E i \in 1..Len(line) : line[i].type = type

\* A peer list with q is among the frames.
Lists(line, q) == \E i \in 1..Len(line) : line[i].type = "peer_list" /\ q \in line[i].peers

\* Only what is meant for a friend.
ForFriends(line) == \A i \in 1..Len(line) : line[i].type \in {"text", "peer_list"}

\* Linked peers are different ones.
LEMMA LinkedDiffer == \A p, q \in Peers : Linked(p, q) => p # q
<1> SUFFICES ASSUME NEW p \in Peers, Linked(p, p) PROVE FALSE
  OBVIOUS
<1>1. Cardinality({p, p}) = 2
  BY SessionAssumption DEF Linked
<1>2. {p, p} = {p}
  OBVIOUS
<1>3. Cardinality({p}) = 1
  BY FS_Singleton
<1> QED
  BY <1>1, <1>2, <1>3

\* Nothing behind or in front of frames.
LEMMA ConcatNothing ==
    ASSUME NEW A \in Seq(Frame)
    PROVE  A \o <<>> = A /\ <<>> \o A = A
OBVIOUS

\* What a sequence in two parts holds.
LEMMA Parts ==
    ASSUME NEW A \in Seq(Frame), NEW B \in Seq(Frame)
    PROVE  /\ A \o B \in Seq(Frame)
           /\ Len(A) \in Nat /\ Len(B) \in Nat /\ Len(A \o B) = Len(A) + Len(B)
           /\ \A i \in 1..Len(A) : i \in 1..(Len(A) + Len(B)) /\ (A \o B)[i] = A[i]
           /\ \A i \in 1..Len(B) : /\ Len(A) + i \in 1..(Len(A) + Len(B))
                                   /\ (A \o B)[Len(A) + i] = B[i]
           /\ \A i \in 1..(Len(A) + Len(B)) :
                 i \in 1..Len(A) \/ (i > Len(A) /\ i - Len(A) \in 1..Len(B)
                                     /\ (A \o B)[i] = B[i - Len(A)])
OBVIOUS

\* What a sequence and the rest behind its head hold.
LEMMA TailParts ==
    ASSUME NEW A \in Seq(Frame), A # <<>>
    PROVE  /\ Tail(A) \in Seq(Frame) /\ Len(A) \in Nat /\ Len(Tail(A)) \in Nat
           /\ Len(A) = Len(Tail(A)) + 1
           /\ Head(A) = A[1] /\ 1 \in 1..Len(A)
           /\ \A i \in 1..Len(Tail(A)) : i + 1 \in 1..Len(A) /\ Tail(A)[i] = A[i + 1]
           /\ \A i \in 1..Len(A) :
                 i = 1 \/ (i - 1 \in 1..Len(Tail(A)) /\ A[i] = Tail(A)[i - 1])
OBVIOUS

\* The rest of two parts is the rest of the first, and the second.
LEMMA TailConcat ==
    ASSUME NEW A \in Seq(Frame), NEW B \in Seq(Frame), A # <<>>
    PROVE  /\ Tail(A \o B) = Tail(A) \o B
           /\ Head(A \o B) = Head(A) /\ A \o B # <<>>
<1>1. /\ A \o B \in Seq(Frame) /\ Tail(A) \in Seq(Frame)
      /\ Len(A \o B) = Len(A) + Len(B) /\ Len(Tail(A)) = Len(A) - 1
      /\ Len(A) \in Nat /\ Len(B) \in Nat /\ Len(A) > 0
  OBVIOUS
<1>2. A \o B # <<>> /\ Head(A \o B) = Head(A)
  BY <1>1
<1>3. /\ Tail(A \o B) \in Seq(Frame) /\ Len(Tail(A \o B)) = Len(A) + Len(B) - 1
      /\ Tail(A) \o B \in Seq(Frame) /\ Len(Tail(A) \o B) = Len(A) + Len(B) - 1
  BY <1>1, <1>2
<1>4. ASSUME NEW i \in 1..(Len(A) + Len(B) - 1)
      PROVE  Tail(A \o B)[i] = (Tail(A) \o B)[i]
  BY <1>1, <1>2
<1>5. \A S, T \in Seq(Frame) :
          Len(S) = Len(T) /\ (\A i \in 1..Len(S) : S[i] = T[i]) => S = T
  OBVIOUS
<1> QED
  BY <1>2, <1>3, <1>4, <1>5

\* Frames of one kind, or listing a peer, among those of two parts.
LEMMA AmongParts ==
    ASSUME NEW A \in Seq(Frame), NEW B \in Seq(Frame)
    PROVE  /\ \A type : HasType(A \o B, type) <=> HasType(A, type) \/ HasType(B, type)
           /\ \A q : Lists(A \o B, q) <=> Lists(A, q) \/ Lists(B, q)
           /\ ForFriends(A \o B) <=> ForFriends(A) /\ ForFriends(B)
<1>1. ASSUME NEW type
      PROVE  HasType(A \o B, type) <=> HasType(A, type) \/ HasType(B, type)
  BY Parts DEF HasType
<1>2. ASSUME NEW q PROVE Lists(A \o B, q) <=> Lists(A, q) \/ Lists(B, q)
  BY Parts DEF Lists
<1>3. ForFriends(A \o B) <=> ForFriends(A) /\ ForFriends(B)
  <2>1. ForFriends(A \o B) => ForFriends(A) /\ ForFriends(B)
    <3>1. \A i \in 1..Len(A) : i \in 1..Len(A \o B) /\ (A \o B)[i] = A[i]
      BY Parts
    <3>2. \A i \in 1..Len(B) : Len(A) + i \in 1..Len(A \o B) /\ (A \o B)[Len(A) + i] = B[i]
      BY Parts
    <3> QED
      BY <3>1, <3>2 DEF ForFriends
  <2>2. ForFriends(A) /\ ForFriends(B) => ForFriends(A \o B)
    BY Parts DEF ForFriends
  <2> QED
    BY <2>1, <2>2
<1> QED
  BY <1>1, <1>2, <1>3

\* The frames on the way are frames.
LEMMA WayType ==
    ASSUME TypeOK
    PROVE  \A p, q \in Peers : Way(p, q) \in Seq(Frame)
<1> SUFFICES ASSUME NEW p \in Peers, NEW q \in Peers PROVE Way(p, q) \in Seq(Frame)
  OBVIOUS
<1>1. wire[p][q] \in Seq(Frame) /\ Frames(queued[p][q]) \in Seq(Frame)
  BY StageTypes
<1> QED
  BY <1>1, Parts DEF Way

\* What reaches the ends of its lines when p hands `out` to the router, and
\* what goes to q through _dispatch, `kept`, is queued if q is out of reach.
Effect(reach, q, out, kept) ==
    [r \in Peers |-> IF r \in reach THEN out[r] ELSE IF r = q THEN kept ELSE <<>>]

\* What p sends joins the ends of its lines over w.
Joins(p, w, out) ==
    /\ out \in [Peers -> Seq(Frame)]
    /\ \A b \in Peers : wire'[p][b] \o Frames(queued'[p][b])
                            = (w[p][b] \o Frames(queued[p][b])) \o out[b]
    /\ \A a, b \in Peers : a # p =>
          wire'[a][b] \o Frames(queued'[a][b]) = w[a][b] \o Frames(queued[a][b])

\* While its links work, what a handler sends joins the ends of its lines.
LEMMA SentWays ==
    ASSUME TypeOK, QueuedOnlyForUnreachable,
           NEW w \in [Peers -> [Peers -> Seq(Frame)]], NEW p \in Peers, NEW q \in Peers,
           NEW out \in [Peers -> Seq(Frame)], NEW kept \in Seq(Frame),
           NEW records \in Seq(QueueRecord), Frames(records) = kept,
           Transmit(w, p, out), Keep(p, q, records),
           connections' = connections, live' = live,
           \A r \in connections[p] : {p, r} \in live
    PROVE  Joins(p, w, Effect(connections[p], q, out, kept))
<1>1. /\ queued \in [Peers -> [Peers -> Seq(QueueRecord)]]
      /\ Frames(<<>>) = <<>> /\ <<>> \in Seq(Frame)
      /\ connections \in [Peers -> SUBSET Peers]
  <2>1. Frames(<<>>) = <<>>
    BY DEF Frames
  <2> QED
    BY <2>1, EmptySeq DEF TypeOK
<1>2. Effect(connections[p], q, out, kept) \in [Peers -> Seq(Frame)]
  BY <1>1 DEF Effect
<1>3. /\ \A b \in Peers : wire'[p][b] = IF b \in connections[p]
                                       THEN w[p][b] \o out[b] ELSE w[p][b]
      /\ \A a, b \in Peers : a # p => wire'[a][b] = w[a][b]
  BY DEF Transmit
<1>4. \A a, b \in Peers : queued'[a][b] = IF a = p /\ b = q /\ q \notin connections[p]
                                         THEN queued[p][q] \o records ELSE queued[a][b]
  BY <1>1 DEF Keep
<1>5. ASSUME NEW b \in Peers
      PROVE  wire'[p][b] \o Frames(queued'[p][b])
                = (w[p][b] \o Frames(queued[p][b])) \o Effect(connections[p], q, out, kept)[b]
  <2> DEFINE k == Frames(queued[p][b])
             x == w[p][b]
  <2>1. k \in Seq(Frame) /\ x \in Seq(Frame) /\ out[b] \in Seq(Frame) /\ x \o k \in Seq(Frame)
    <3>1. k \in Seq(Frame)
      BY <1>1, FramesType
    <3>2. x \in Seq(Frame) /\ out[b] \in Seq(Frame)
      OBVIOUS
    <3> HIDE DEF k, x
    <3> QED
      BY <3>1, <3>2
  <2>2. CASE b \in connections[p]
    <3>1. k = <<>> /\ queued'[p][b] = queued[p][b]
      BY <1>1, <1>4, <2>2 DEF QueuedOnlyForUnreachable
    <3>2. wire'[p][b] = x \o out[b] /\ Effect(connections[p], q, out, kept)[b] = out[b]
      BY <1>3, <2>2 DEF Effect
    <3>3. (x \o out[b]) \o <<>> = (x \o <<>>) \o out[b]
      <4> HIDE DEF x, k
      <4>1. x \o out[b] \in Seq(Frame)
        BY <2>1
      <4> QED
        BY <2>1, <4>1, ConcatNothing
    <3> QED
      BY <3>1, <3>2, <3>3
  <2>3. CASE b = q /\ b \notin connections[p]
    <3>1. Frames(queued'[p][b]) = k \o kept
      <4>1. queued'[p][b] = queued[p][b] \o records /\ queued[p][b] \in Seq(QueueRecord)
        <5>1. q \notin connections[p] /\ b = q
          BY <2>3
        <5>2. queued'[p][b] = queued[p][q] \o records
          BY <1>4, <5>1
        <5> QED
          BY <1>1, <5>1, <5>2
      <4> QED
        BY <4>1, FramesConcat
    <3>2. wire'[p][b] = x /\ Effect(connections[p], q, out, kept)[b] = kept
      BY <1>3, <2>3 DEF Effect
    <3>3. x \o (k \o kept) = (x \o k) \o kept
      BY <2>1, ConcatAssociates
    <3> QED
      BY <3>1, <3>2, <3>3
  <2>4. CASE b # q /\ b \notin connections[p]
    <3>1. /\ wire'[p][b] = x /\ queued'[p][b] = queued[p][b]
          /\ Effect(connections[p], q, out, kept)[b] = <<>>
      BY <1>3, <1>4, <2>4 DEF Effect
    <3>2. (x \o k) \o <<>> = x \o k
      <4> HIDE DEF x, k
      <4> QED
        BY <2>1, ConcatNothing
    <3> QED
      BY <3>1, <3>2
  <2> QED
    BY <2>2, <2>3, <2>4
<1>6. ASSUME NEW a \in Peers, NEW b \in Peers, a # p
      PROVE  wire'[a][b] \o Frames(queued'[a][b]) = w[a][b] \o Frames(queued[a][b])
  BY <1>3, <1>4, <1>6
<1> QED
  BY <1>2, <1>5, <1>6 DEF Joins

\* A flush moves what is queued to the wire, and more goes behind it.
LEMMA FlushedWays ==
    ASSUME TypeOK, NEW p \in Peers, NEW reach \in SUBSET Peers,
           NEW extra \in [Peers -> Seq(Frame)],
           Transmit(wire, p, [r \in Peers |-> FlushedTo(reach, p)[r] \o extra[r]]),
           queued' = [queued EXCEPT ![p] = [r \in Peers |->
                         IF r \in reach THEN <<>> ELSE queued[p][r]]],
           connections'[p] = reach, \A r \in reach : {p, r} \in live'
    PROVE  Joins(p, wire, Effect(reach, p, extra, <<>>))
<1>1. /\ queued \in [Peers -> [Peers -> Seq(QueueRecord)]]
      /\ wire \in [Peers -> [Peers -> Seq(Frame)]]
      /\ Frames(<<>>) = <<>> /\ <<>> \in Seq(Frame)
  <2>1. Frames(<<>>) = <<>>
    BY DEF Frames
  <2> QED
    BY <2>1, EmptySeq DEF TypeOK
<1>2. Effect(reach, p, extra, <<>>) \in [Peers -> Seq(Frame)]
  BY <1>1 DEF Effect
<1>3. /\ \A b \in Peers : wire'[p][b] = IF b \in reach
                                       THEN wire[p][b] \o (Frames(queued[p][b]) \o extra[b])
                                       ELSE wire[p][b]
      /\ \A a, b \in Peers : a # p => wire'[a][b] = wire[a][b]
  BY <1>1 DEF Transmit, FlushedTo
<1>4. \A a, b \in Peers : queued'[a][b] = IF a = p /\ b \in reach THEN <<>> ELSE queued[a][b]
  BY <1>1
<1>5. ASSUME NEW b \in Peers
      PROVE  wire'[p][b] \o Frames(queued'[p][b])
                = Way(p, b) \o Effect(reach, p, extra, <<>>)[b]
  <2> DEFINE k == Frames(queued[p][b])
             x == wire[p][b]
  <2>1. k \in Seq(Frame) /\ x \in Seq(Frame) /\ extra[b] \in Seq(Frame)
    BY <1>1, FramesType
  <2>2. Way(p, b) = x \o k
    BY DEF Way
  <2> HIDE DEF k, x
  <2>3. /\ (x \o k) \o extra[b] = x \o (k \o extra[b])
        /\ (x \o (k \o extra[b])) \o <<>> = x \o (k \o extra[b])
        /\ (x \o k) \o <<>> = x \o k
    <3>1. k \o extra[b] \in Seq(Frame) /\ x \o k \in Seq(Frame)
      BY <2>1
    <3>2. x \o (k \o extra[b]) \in Seq(Frame)
      BY <2>1, <3>1
    <3> QED
      BY <2>1, <3>1, <3>2, ConcatAssociates, ConcatNothing
  <2>4. CASE b \in reach
    BY <1>1, <1>3, <1>4, <2>2, <2>3, <2>4 DEF Effect, k, x
  <2>5. CASE b \notin reach
    BY <1>1, <1>3, <1>4, <2>2, <2>3, <2>5 DEF Effect, k, x
  <2> QED
    BY <2>4, <2>5
<1>6. ASSUME NEW a \in Peers, NEW b \in Peers, a # p
      PROVE  wire'[a][b] \o Frames(queued'[a][b]) = Way(a, b)
  <2>1. wire'[a][b] = wire[a][b] /\ queued'[a][b] = queued[a][b]
    BY <1>3, <1>4, <1>6
  <2> QED
    BY <2>1 DEF Way
<1> QED
  BY <1>2, <1>5, <1>6 DEF Joins, Way

\* Reading takes the first frame of a line.
LEMMA ReadWays ==
    ASSUME TypeOK, NEW p \in Peers, NEW q \in Peers, wire[p][q] # <<>>
    PROVE  /\ Way(p, q) # <<>> /\ Head(Way(p, q)) = Head(wire[p][q])
           /\ \A a, b \in Peers : Consumed(q, p)[a][b] \o Frames(queued[a][b])
                 = IF a = p /\ b = q THEN Tail(Way(a, b)) ELSE Way(a, b)
<1>1. wire \in [Peers -> [Peers -> Seq(Frame)]] /\ Frames(queued[p][q]) \in Seq(Frame)
  BY StageTypes DEF TypeOK
<1>2. /\ Consumed(q, p)[p][q] = Tail(wire[p][q])
      /\ \A a, b \in Peers : a # p \/ b # q => Consumed(q, p)[a][b] = wire[a][b]
  BY <1>1 DEF Consumed
<1>3. wire[p][q] \in Seq(Frame)
  BY <1>1
<1>4. /\ Way(p, q) # <<>> /\ Head(Way(p, q)) = Head(wire[p][q])
      /\ Tail(wire[p][q]) \o Frames(queued[p][q]) = Tail(Way(p, q))
  BY <1>1, <1>3, TailConcat DEF Way
<1>5. ASSUME NEW a \in Peers, NEW b \in Peers
      PROVE  Consumed(q, p)[a][b] \o Frames(queued[a][b])
                = IF a = p /\ b = q THEN Tail(Way(a, b)) ELSE Way(a, b)
  <2>1. CASE a = p /\ b = q
    BY <1>2, <1>4, <2>1
  <2>2. CASE ~(a = p /\ b = q)
    BY <1>2, <2>2 DEF Way
  <2> QED
    BY <2>1, <2>2
<1> QED
  BY <1>4, <1>5
-----------------------------------------------------------------------------
(***************************************************************************)
(* What a step says while links work: p read the front of the lines from   *)
(* `from`, at most one, and added out[b] to its line to each b.            *)
(***************************************************************************)

\* What p hears from b.
Heard(from, b, p) == IF b \in from THEN Head(Way(b, p)).type ELSE "nothing"

\* What a peer says to another, whose status it takes from `mine` to `mine2`,
\* hearing `heard` from it, `rejecting` and `accepting` if such commands were
\* given.
Speaks(line, mine, mine2, heard, rejecting, accepting) ==
    /\ HasType(line, "friend_decline") => rejecting
    /\ HasType(line, "friend_accept") => mine2 = "friend"
    /\ \A i \in 1..Len(line) : line[i].type \in {"text", "peer_list"} =>
          \/ mine = "friend" \/ heard = "friend_accept"
          \/ \E j \in 1..(i - 1) : line[j].type = "friend_accept"
    /\ mine2 = "friend" /\ mine # "friend" =>
          /\ HasType(line, "friend_accept") \/ heard = "friend_accept"
          /\ accepting \/ heard \in {"friend_request", "friend_accept"}
    /\ mine = "friend" /\ mine2 # "friend" => rejecting \/ heard = "friend_decline"
    /\ heard = "friend_accept" => mine2 = "friend"
    /\ heard = "friend_decline" => mine2 # "friend"
    /\ mine2 = "blocked" =>
          \/ line = <<Control("friend_decline")>>
          \/ mine = "blocked" /\ ForFriends(line)

\* The lines of p grow at the end, those it reads lose their front.
WaysMove(p, out, from) ==
    \A a, b \in Peers : a # b =>
        /\ a = p => Way(a, b)' = Way(a, b) \o out[b]
        /\ a # p => Way(a, b)' = IF b = p /\ a \in from THEN Tail(Way(a, b)) ELSE Way(a, b)

\* The other peers do nothing.
OthersRest(p) ==
    \A r \in Peers : r # p =>
        /\ status'[r] = status[r] /\ pendingAuto'[r] = pendingAuto[r]
        /\ history'[r] = history[r] /\ inbox'[r] = inbox[r]
        /\ connections'[r] = connections[r]

\* A text leaves _pending_auto for the line of its addressee, and a new one
\* joins either.
TextsMove(p, out) ==
    /\ \A b \in Peers : Members(pendingAuto[p][b])
                            \subseteq Carried(out[b]) \cup Members(pendingAuto'[p][b])
    /\ \A n \in 1..Len(history'[p]) :
          \/ n \in 1..Len(history[p]) /\ history[p][n].to = history'[p][n].to
          \/ n \in Carried(out[history'[p][n].to])
                    \cup Members(pendingAuto'[p][history'[p][n].to])

\* A text from a friend is in the inbox once read, and the peers of a friend's
\* list are contacts.
ReadsMove(p, from) ==
    /\ \A b \in Peers : Members(inbox[p][b]) \subseteq Members(inbox'[p][b])
    /\ \A b \in Peers : status[p][b] # "unknown" => status'[p][b] # "unknown"
    /\ \A b \in from : status[p][b] = "friend" =>
          /\ Head(Way(b, p)).type = "text"
                => Head(Way(b, p)).text \in Members(inbox'[p][b])
          /\ Head(Way(b, p)).type = "peer_list"
                => \A r \in Head(Way(b, p)).peers \ {p} : status'[p][r] # "unknown"

\* A connected friend who is told of another, new in one way or the other.
Introduces(p, out) ==
    \A b, c \in Peers :
        (/\ b # c /\ status'[p][b] = "friend" /\ status'[p][c] = "friend"
         /\ b \in connections'[p])
            => \/ status[p][b] = "friend" /\ status[p][c] = "friend" /\ b \in connections[p]
               \/ Lists(out[b], c)

Turn(p, out, from) ==
    /\ out \in [Peers -> Seq(Frame)]
    /\ from \subseteq {b \in Peers : b # p /\ Way(b, p) # <<>>}
    /\ WaysMove(p, out, from) /\ OthersRest(p)
    /\ \A b \in Peers : b # p => Speaks(out[b], status[p][b], status'[p][b],
                                        Heard(from, b, p),
                                        Given("reject")', Given("accept")')
    /\ TextsMove(p, out) /\ ReadsMove(p, from) /\ Introduces(p, out)

\* Somebody's turn.
Turns == \E p \in Peers, out \in [Peers -> Seq(Frame)], from \in SUBSET Peers :
            Turn(p, out, from)

\* What holds before a step while links work.
Working ==
    /\ TypeOK /\ QueuedOnlyForUnreachable /\ Connected
    /\ breaks = 0

\* Saying nothing.
LEMMA SpeaksNothing ==
    ASSUME NEW mine, NEW mine2, NEW heard, NEW rejecting, NEW accepting,
           mine = "friend" <=> mine2 = "friend", mine2 = "blocked" => mine = "blocked",
           heard = "friend_accept" => mine2 = "friend",
           heard = "friend_decline" => mine2 # "friend"
    PROVE  Speaks(<<>>, mine, mine2, heard, rejecting, accepting)
BY DEF Speaks, HasType, ForFriends

\* A decline heard.
LEMMA SpeaksDeclined ==
    ASSUME NEW mine, NEW rejecting, NEW accepting
    PROVE  Speaks(<<>>, mine, "stranger", "friend_decline", rejecting, accepting)
BY DEF Speaks, HasType, ForFriends

\* Telling a friend something, with no answer heard.
LEMMA SpeaksToFriend ==
    ASSUME NEW line \in Seq(Frame), ForFriends(line), NEW rejecting, NEW accepting
    PROVE  Speaks(line, "friend", "friend", "nothing", rejecting, accepting)
BY DEF Speaks, HasType, ForFriends

\* Asking for a friendship.
LEMMA SpeaksRequest ==
    ASSUME NEW mine, mine # "friend", NEW rejecting, NEW accepting
    PROVE  Speaks(<<Control("friend_request")>>, mine, "pending", "nothing",
                  rejecting, accepting)
BY DEF Speaks, HasType, ForFriends, Control

\* Rejecting.
LEMMA SpeaksDecline ==
    ASSUME NEW mine, NEW rejecting, rejecting, NEW accepting
    PROVE  Speaks(<<Control("friend_decline")>>, mine, "blocked", "nothing",
                  rejecting, accepting)
BY DEF Speaks, HasType, Control

\* Accepting, or greeting one who accepted.
LEMMA SpeaksAccept ==
    ASSUME NEW mine, NEW heard, NEW rejecting, NEW accepting,
           NEW first \in {<<>>, <<Control("friend_accept")>>},
           NEW rest \in Seq(Frame), ForFriends(rest),
           heard = "friend_accept" \/ first = <<Control("friend_accept")>>,
           heard # "friend_decline",
           accepting \/ heard \in {"friend_request", "friend_accept"}
    PROVE  Speaks(first \o rest, mine, "friend", heard, rejecting, accepting)
<1>1. first \in Seq(Frame) /\ Control("friend_accept") \in Frame
  <2>1. Control("friend_accept") \in Frame
    BY FrameTypes DEF FrameType
  <2>2. <<Control("friend_accept")>> \in Seq(Frame)
    BY <2>1
  <2> QED
    BY <2>1, <2>2, EmptySeq
<1>2. ASSUME first = <<>>
      PROVE  Speaks(rest, mine, "friend", heard, rejecting, accepting)
  BY <1>2 DEF Speaks, HasType, ForFriends
<1>3. ASSUME first = <<Control("friend_accept")>>
      PROVE  Speaks(first \o rest, mine, "friend", heard, rejecting, accepting)
  <2> DEFINE line == first \o rest
  <2>1. /\ Len(line) = Len(rest) + 1 /\ Len(rest) \in Nat /\ line \in Seq(Frame)
        /\ line[1] = Control("friend_accept")
        /\ \A i \in 1..Len(line) : i # 1 => i - 1 \in 1..Len(rest) /\ line[i] = rest[i - 1]
    BY <1>1, <1>3
  <2> HIDE DEF line
  <2>2. line[1].type = "friend_accept"
    BY <2>1 DEF Control
  <2>3. \A i \in 1..Len(line) : i # 1 => line[i].type \in {"text", "peer_list"}
    BY <2>1 DEF ForFriends
  <2>4. ~HasType(line, "friend_decline") /\ HasType(line, "friend_accept")
    <3>1. \A i \in 1..Len(line) : line[i].type # "friend_decline"
      BY <2>2, <2>3
    <3>2. 1 \in 1..Len(line)
      BY <2>1
    <3> QED
      BY <2>2, <3>1, <3>2 DEF HasType
  <2>5. \A i \in 1..Len(line) : line[i].type \in {"text", "peer_list"} =>
            \E j \in 1..(i - 1) : line[j].type = "friend_accept"
    <3>1. ASSUME NEW i \in 1..Len(line), line[i].type \in {"text", "peer_list"}
          PROVE  1 \in 1..(i - 1)
      <4>1. i # 1
        BY <2>2, <3>1
      <4> QED
        BY <2>1, <4>1
    <3> QED
      BY <2>2, <3>1
  <2>6. Speaks(line, mine, "friend", heard, rejecting, accepting)
    BY <2>4, <2>5 DEF Speaks
  <2> QED
    BY <2>6 DEF line
<1>4. first = <<>> => first \o rest = rest
  BY ConcatNothing
<1> QED
  BY <1>2, <1>3, <1>4

\* What goes to a friend with its announcement or its greeting.
LEMMA ForFriendsTypes ==
    ASSUME TypeOK, NEW p \in Peers, NEW q \in Peers
    PROVE  /\ Introduction(p, q) \in Seq(Frame) /\ ForFriends(Introduction(p, q))
           /\ Texts(pendingAuto[p][q]) \in Seq(Frame) /\ ForFriends(Texts(pendingAuto[p][q]))
           /\ Carried(Texts(pendingAuto[p][q])) = Members(pendingAuto[p][q])
           /\ <<PeerList({q})>> \in Seq(Frame) /\ ForFriends(<<PeerList({q})>>)
           /\ Lists(<<PeerList({q})>>, q)
           /\ \A c \in Friends(p) \ {q} : Lists(Introduction(p, q), c)
           /\ <<>> \in Seq(Frame) /\ ForFriends(<<>>)
<1>1. Introduction(p, q) \in Seq(Frame) /\ Texts(pendingAuto[p][q]) \in Seq(Frame)
      /\ <<>> \in Seq(Frame)
  BY OutTypes, StageTypes, EmptySeq
<1>2. pendingAuto[p][q] \in Seq(Nat)
  BY DEF TypeOK
<1>3. \A S : ForFriends(<<PeerList(S)>>) /\ \A c \in S : Lists(<<PeerList(S)>>, c)
  BY DEF ForFriends, PeerList, Lists
<1>4. ForFriends(<<>>)
  BY DEF ForFriends
<1>5. ForFriends(Introduction(p, q)) /\ \A c \in Friends(p) \ {q} : Lists(Introduction(p, q), c)
  BY <1>3, <1>4 DEF Introduction
<1>6. ForFriends(Texts(pendingAuto[p][q]))
  <2>1. Len(Texts(pendingAuto[p][q])) = Len(pendingAuto[p][q])
    BY <1>1, <1>2 DEF Texts
  <2> QED
    BY <1>2, <2>1 DEF ForFriends, Texts, Text
<1>7. Carried(Texts(pendingAuto[p][q])) = Members(pendingAuto[p][q])
  BY <1>2, CarriedTexts
<1>8. <<PeerList({q})>> \in Seq(Frame)
  BY FrameTypes
<1> QED
  BY <1>1, <1>3, <1>4, <1>5, <1>6, <1>7, <1>8

\* What p starts from: the wire, or the wire without the frame it reads.
Start(p, from, w) ==
    \/ from = {} /\ w = wire
    \/ \E q \in connections[p] : from = {q} /\ wire[q][p] # <<>> /\ w = Consumed(p, q)

\* What is sent behind a line moves the ways.
LEMMA StartMoves ==
    ASSUME Working, NEW p \in Peers, NEW from, NEW w, Start(p, from, w), NEW out,
           Joins(p, w, out)
    PROVE  /\ out \in [Peers -> Seq(Frame)] /\ WaysMove(p, out, from)
           /\ from \subseteq {b \in Peers : b # p /\ Way(b, p) # <<>>}
           /\ from \in SUBSET Peers
           /\ \A b \in from : Head(Way(b, p)) = Head(wire[b][p])
<1>1. TypeOK /\ Connected /\ wire \in [Peers -> [Peers -> Seq(Frame)]]
      /\ connections[p] \subseteq Peers
  BY DEF Working, TypeOK
<1>2. CASE from = {} /\ w = wire
  <2>1. \A a, b \in Peers : w[a][b] \o Frames(queued[a][b]) = Way(a, b)
    BY <1>2 DEF Way
  <2>2. WaysMove(p, out, from)
    BY <1>2, <2>1 DEF WaysMove, Way, Joins
  <2> QED
    BY <1>1, <1>2, <2>2 DEF Joins
<1>3. CASE \E q \in connections[p] : from = {q} /\ wire[q][p] # <<>> /\ w = Consumed(p, q)
  <2>1. PICK q \in connections[p] : from = {q} /\ wire[q][p] # <<>> /\ w = Consumed(p, q)
    BY <1>3
  <2>2. q \in Peers /\ q # p
    BY <1>1 DEF Connected
  <2>3. /\ Way(q, p) # <<>> /\ Head(Way(q, p)) = Head(wire[q][p])
        /\ \A a, b \in Peers : Consumed(p, q)[a][b] \o Frames(queued[a][b])
              = IF a = q /\ b = p THEN Tail(Way(a, b)) ELSE Way(a, b)
    BY <1>1, <2>1, <2>2, ReadWays
  <2>4. \A a, b \in Peers : w[a][b] \o Frames(queued[a][b])
            = IF a = q /\ b = p THEN Tail(Way(a, b)) ELSE Way(a, b)
    BY <2>1, <2>3
  <2>5. \A b \in Peers : w[p][b] \o Frames(queued[p][b]) = Way(p, b)
    BY <2>2, <2>4
  <2>6. \A a, b \in Peers : a # p =>
            w[a][b] \o Frames(queued[a][b]) = IF b = p /\ a \in from THEN Tail(Way(a, b)) ELSE Way(a, b)
    BY <2>1, <2>4
  <2>7. \A b \in Peers : wire'[p][b] \o Frames(queued'[p][b]) = Way(p, b) \o out[b]
    BY <2>5 DEF Joins
  <2>8. \A a, b \in Peers : a # p => wire'[a][b] \o Frames(queued'[a][b])
            = IF b = p /\ a \in from THEN Tail(Way(a, b)) ELSE Way(a, b)
    BY <2>6 DEF Joins
  <2>9. \A a, b \in Peers : Way(a, b)' = wire'[a][b] \o Frames(queued'[a][b])
    BY DEF Way
  <2>10. WaysMove(p, out, from)
    BY <2>7, <2>8, <2>9 DEF WaysMove
  <2> QED
    BY <2>1, <2>2, <2>3, <2>10 DEF Joins
<1> QED
  BY <1>2, <1>3 DEF Start

\* Nothing sent.
LEMMA QuietMoves ==
    ASSUME Working, NEW p \in Peers, NEW from, NEW w, Start(p, from, w),
           wire' = w, queued' = queued
    PROVE  /\ [r \in Peers |-> <<>>] \in [Peers -> Seq(Frame)]
           /\ WaysMove(p, [r \in Peers |-> <<>>], from)
           /\ from \subseteq {b \in Peers : b # p /\ Way(b, p) # <<>>}
           /\ from \in SUBSET Peers
           /\ \A b \in from : Head(Way(b, p)) = Head(wire[b][p])
<1> DEFINE out == [r \in Peers |-> <<>>]
<1>1. TypeOK /\ wire \in [Peers -> [Peers -> Seq(Frame)]] /\ connections[p] \subseteq Peers
  BY DEF Working, TypeOK
<1>2. w \in [Peers -> [Peers -> Seq(Frame)]]
  <2>1. CASE from = {} /\ w = wire
    BY <1>1, <2>1
  <2>2. CASE \E q \in connections[p] : from = {q} /\ wire[q][p] # <<>> /\ w = Consumed(p, q)
    BY <1>1, <2>2, ConsumedType
  <2> QED
    BY <2>1, <2>2 DEF Start
<1>3. out \in [Peers -> Seq(Frame)] /\ \A b \in Peers : out[b] = <<>>
  BY EmptySeq
<1>4. ASSUME NEW b \in Peers
      PROVE  w[p][b] \o Frames(queued[p][b]) = (w[p][b] \o Frames(queued[p][b])) \o <<>>
  <2>1. w[p][b] \in Seq(Frame) /\ Frames(queued[p][b]) \in Seq(Frame)
    BY <1>1, <1>2, StageTypes
  <2>2. w[p][b] \o Frames(queued[p][b]) \in Seq(Frame)
    BY <2>1, Parts
  <2> QED
    BY <2>2, ConcatNothing
<1> HIDE DEF out
<1>5. Joins(p, w, out)
  BY <1>3, <1>4 DEF Joins
<1>7. /\ WaysMove(p, out, from)
      /\ from \subseteq {b \in Peers : b # p /\ Way(b, p) # <<>>}
      /\ from \in SUBSET Peers
      /\ \A b \in from : Head(Way(b, p)) = Head(wire[b][p])
  BY <1>5, StartMoves
<1> QED
  BY <1>3, <1>7 DEF out

\* Something sent to one peer only.
LEMMA OnlyMoves ==
    ASSUME Working, NEW p \in Peers, NEW q \in Peers, NEW from, NEW w, Start(p, from, w),
           NEW frame \in Frame, NEW records \in Seq(QueueRecord), Frames(records) = <<frame>>,
           Transmit(w, p, Only(q, <<frame>>)), Keep(p, q, records),
           connections' = connections, live' = live
    PROVE  /\ Only(q, <<frame>>) \in [Peers -> Seq(Frame)]
           /\ WaysMove(p, Only(q, <<frame>>), from)
           /\ from \subseteq {b \in Peers : b # p /\ Way(b, p) # <<>>}
           /\ from \in SUBSET Peers
           /\ \A b \in from : Head(Way(b, p)) = Head(wire[b][p])
<1> DEFINE out == Only(q, <<frame>>)
<1>1. TypeOK /\ QueuedOnlyForUnreachable /\ Connected
      /\ wire \in [Peers -> [Peers -> Seq(Frame)]] /\ connections[p] \subseteq Peers
      /\ \A r \in connections[p] : {p, r} \in live
  BY DEF Working, TypeOK, Connected
<1>2. w \in [Peers -> [Peers -> Seq(Frame)]]
  <2>1. CASE from = {} /\ w = wire
    BY <1>1, <2>1
  <2>2. CASE \E r \in connections[p] : from = {r} /\ wire[r][p] # <<>> /\ w = Consumed(p, r)
    BY <1>1, <2>2, ConsumedType
  <2> QED
    BY <2>1, <2>2 DEF Start
<1>3. out \in [Peers -> Seq(Frame)] /\ <<frame>> \in Seq(Frame)
  BY EmptySeq DEF Only
<1>4. Effect(connections[p], q, out, <<frame>>) = out
  BY DEF Effect, Only
<1> HIDE DEF out
<1>5. Joins(p, w, Effect(connections[p], q, out, <<frame>>))
  <2>1. Transmit(w, p, out)
    BY DEF out
  <2> QED
    BY <1>1, <1>2, <1>3, <2>1, SentWays
<1>6. Joins(p, w, out)
  BY <1>4, <1>5
<1>7. /\ WaysMove(p, out, from)
      /\ from \subseteq {b \in Peers : b # p /\ Way(b, p) # <<>>}
      /\ from \in SUBSET Peers
      /\ \A b \in from : Head(Way(b, p)) = Head(wire[b][p])
  BY <1>6, StartMoves
<1> QED
  BY <1>3, <1>7 DEF out

\* A step that reads nothing and only adds to the contacts.
LEMMA ReadsNothing ==
    ASSUME NEW p \in Peers, inbox' = inbox,
           \A b \in Peers : status[p][b] # "unknown" => status'[p][b] # "unknown"
    PROVE  ReadsMove(p, {})
BY DEF ReadsMove

\* A step that makes no friend and no connection.
LEMMA IntroducesNobody ==
    ASSUME NEW p \in Peers, NEW out, connections' = connections,
           \A b \in Peers : status'[p][b] = "friend" => status[p][b] = "friend"
    PROVE  Introduces(p, out)
<1> SUFFICES ASSUME NEW b \in Peers, NEW c \in Peers, status'[p][b] = "friend",
                    status'[p][c] = "friend", b \in connections'[p]
             PROVE  /\ status[p][b] = "friend" /\ status[p][c] = "friend"
                    /\ b \in connections[p]
  BY DEF Introduces
<1> QED
  OBVIOUS

\* Marking entries sent leaves their addressees alone.
LEMMA SameEntries ==
    ASSUME TypeOK, NEW p \in Peers,
           \/ history' = history
           \/ \E sent : history' = [history EXCEPT ![p] = MarkSent(history[p], sent)]
    PROVE  /\ \A n \in 1..Len(history'[p]) :
                 n \in 1..Len(history[p]) /\ history[p][n].to = history'[p][n].to
           /\ \A r \in Peers : r # p => history'[r] = history[r]
<1>1. history \in [Peers -> Seq(HistoryEntry)]
  BY DEF TypeOK
<1>2. CASE history' = history
  BY <1>2
<1>3. CASE \E sent : history' = [history EXCEPT ![p] = MarkSent(history[p], sent)]
  <2>1. PICK sent : history' = [history EXCEPT ![p] = MarkSent(history[p], sent)]
    BY <1>3
  <2>2. /\ history'[p] = MarkSent(history[p], sent) /\ history[p] \in Seq(HistoryEntry)
        /\ \A r \in Peers : r # p => history'[r] = history[r]
    BY <1>1, <2>1
  <2>3. Len(history'[p]) = Len(history[p]) /\ DOMAIN history[p] = 1..Len(history[p])
    BY <2>2, MarkSentType
  <2>4. \A n \in DOMAIN history[p] : MarkSent(history[p], sent)[n].to = history[p][n].to
    BY DEF MarkSent
  <2> QED
    BY <2>2, <2>3, <2>4
<1> QED
  BY <1>2, <1>3

\* A step that leaves the texts that wait and the entries' addressees alone.
LEMMA TextsStay ==
    ASSUME TypeOK, NEW p \in Peers, NEW out, pendingAuto' = pendingAuto,
           \/ history' = history
           \/ \E sent : history' = [history EXCEPT ![p] = MarkSent(history[p], sent)]
    PROVE  TextsMove(p, out)
BY SameEntries DEF TextsMove

\* A user's text is a turn.
LEMMA SendTextTurn ==
    ASSUME Working, NEW p \in Peers, NEW q \in Peers, SendTextToFriend(p, q)
    PROVE  Turns
<1> DEFINE frame == Text(NewText(p))
           record == Queueing(frame, NewText(p))
           out == Only(q, <<frame>>)
           s == IF q \in connections[p] THEN "sent" ELSE "queued"
           e == [to |-> q, status |-> s]
<1>1. /\ TypeOK /\ Linked(p, q) /\ status[p][q] = "friend"
      /\ UNCHANGED <<connections, live, status, pendingAuto, inbox>>
      /\ Transmit(wire, p, out) /\ Keep(p, q, <<record>>)
      /\ history' = [history EXCEPT ![p] = Append(history[p], e)]
  BY DEF Working, SendTextToFriend, CanSendText, contactVars
<1>2. history \in [Peers -> Seq(HistoryEntry)] /\ history[p] \in Seq(HistoryEntry)
      /\ NewText(p) \in Nat /\ e \in HistoryEntry
  <2>1. history \in [Peers -> Seq(HistoryEntry)] /\ history[p] \in Seq(HistoryEntry)
    BY <1>1 DEF TypeOK
  <2>2. NewText(p) \in Nat
    BY <2>1 DEF NewText
  <2>3. e \in HistoryEntry
    BY DEF HistoryEntry
  <2> QED BY <2>1, <2>2, <2>3
<1>3. frame \in Frame /\ record \in QueueRecord
  BY <1>2, FrameTypes DEF Queueing, QueueRecord
<1>4. <<record>> \in Seq(QueueRecord) /\ Frames(<<record>>) = <<frame>>
  BY <1>3 DEF Frames, Queueing
<1>5. p # q
  BY <1>1, LinkedDiffer
<1>6. Start(p, {}, wire)
  BY DEF Start
<1>7. Carried(<<frame>>) = {NewText(p)} /\ ForFriends(<<frame>>) /\ <<frame>> \in Seq(Frame)
  <2>1. Carried(<<frame>>) = {NewText(p)}
    BY <1>2, OneText
  <2>2. <<frame>> \in Seq(Frame)
    BY <1>3
  <2>3. ForFriends(<<frame>>)
    BY DEF ForFriends, Text
  <2> QED
    BY <2>1, <2>2, <2>3
<1> HIDE DEF frame, record, s
<1>8. /\ out \in [Peers -> Seq(Frame)]
      /\ WaysMove(p, out, {})
  <2>1. PICK records \in Seq(QueueRecord) : records = <<record>>
    BY <1>4
  <2>2. Frames(records) = <<frame>> /\ Keep(p, q, records)
    BY <1>1, <1>4, <2>1
  <2>3. connections' = connections /\ live' = live /\ Transmit(wire, p, Only(q, <<frame>>))
    BY <1>1
  <2> QED
    BY <1>3, <1>6, <2>2, <2>3, OnlyMoves
<1>9. \A b \in Peers : out[b] = IF b = q THEN <<frame>> ELSE <<>>
  BY DEF Only
<1> HIDE DEF out
<1>10. OthersRest(p)
  BY <1>1, <1>2 DEF OthersRest
<1>11. ASSUME NEW b \in Peers, b # p
       PROVE  Speaks(out[b], status[p][b], status'[p][b], Heard({}, b, p),
                     Given("reject")', Given("accept")')
  <2>1. Heard({}, b, p) = "nothing" /\ status'[p][b] = status[p][b]
    BY <1>1 DEF Heard
  <2>2. CASE b = q
    BY <1>1, <1>7, <1>9, <2>1, <2>2, SpeaksToFriend
  <2>3. CASE b # q
    BY <1>9, <2>1, <2>3, SpeaksNothing
  <2> QED
    BY <2>2, <2>3
<1>12. TextsMove(p, out)
  <2>1. history'[p] = Append(history[p], e)
    BY <1>1, <1>2
  <2> HIDE DEF e
  <2>2. /\ Len(history[p]) \in Nat /\ Len(history'[p]) = Len(history[p]) + 1
        /\ \A n \in 1..Len(history[p]) : history'[p][n] = history[p][n]
        /\ history'[p][Len(history[p]) + 1] = e
        /\ \A n \in 1..(Len(history[p]) + 1) : n = Len(history[p]) + 1 \/ n \in 1..Len(history[p])
    BY <1>2, <2>1
  <2>3. NewText(p) \in Carried(out[e.to]) /\ e.to = q
    BY <1>7, <1>9 DEF e
  <2>4. ASSUME NEW n \in 1..Len(history'[p])
        PROVE  \/ n \in 1..Len(history[p]) /\ history[p][n].to = history'[p][n].to
               \/ n \in Carried(out[history'[p][n].to])
    BY <2>2, <2>3 DEF NewText
  <2> QED
    BY <1>1, <2>4 DEF TextsMove
<1>13. ReadsMove(p, {}) /\ Introduces(p, out)
  BY <1>1, ReadsNothing, IntroducesNobody
<1>14. Turn(p, out, {})
  BY <1>8, <1>10, <1>11, <1>12, <1>13 DEF Turn
<1> QED
  BY <1>8, <1>14 DEF Turns

\* A request, with or without a text that waits, or a rejection is a turn.
LEMMA ControlTurn ==
    ASSUME Working, NEW p \in Peers, NEW q \in Peers,
           SendTextToStranger(p, q) \/ RequestFriend(p, q) \/ DeclineFriend(p, q)
    PROVE  Turns
<1> DEFINE type == IF DeclineFriend(p, q) THEN "friend_decline" ELSE "friend_request"
           mine2 == IF DeclineFriend(p, q) THEN "blocked" ELSE "pending"
           out == Only(q, <<Control(type)>>)
<1>0. /\ TypeOK /\ status \in [Peers -> [Peers -> Status]]
      /\ history \in [Peers -> Seq(HistoryEntry)] /\ history[p] \in Seq(HistoryEntry)
      /\ pendingAuto \in [Peers -> [Peers -> Seq(Nat)]] /\ pendingAuto[p][q] \in Seq(Nat)
      /\ commands \in [Commands -> Nat]
  <2>1. TypeOK
    BY DEF Working
  <2>2. /\ pendingAuto \in [Peers -> [Peers -> Seq(Nat)]]
        /\ history \in [Peers -> Seq(HistoryEntry)]
    BY <2>1 DEF TypeOK
  <2>3. pendingAuto[p][q] \in Seq(Nat) /\ history[p] \in Seq(HistoryEntry)
    BY <2>2
  <2> QED
    BY <2>1, <2>2, <2>3 DEF TypeOK
<1>1. /\ Linked(p, q)
      /\ status' = [status EXCEPT ![p][q] = mine2]
      /\ UNCHANGED <<connections, live, inbox>>
      /\ Transmit(wire, p, out) /\ Keep(p, q, Anonymous(<<Control(type)>>))
      /\ DeclineFriend(p, q) \/ status[p][q] # "friend"
  <2>1. CASE DeclineFriend(p, q)
    BY <2>1 DEF DeclineFriend, Command, linkVars
  <2>2. CASE ~DeclineFriend(p, q) /\ SendTextToStranger(p, q)
    BY <2>2 DEF SendTextToStranger, CanSendText
  <2>3. CASE ~DeclineFriend(p, q) /\ RequestFriend(p, q)
    BY <2>3 DEF RequestFriend, Command, linkVars
  <2> QED
    BY <2>1, <2>2, <2>3
<1>2. DeclineFriend(p, q) => Given("reject")'
  BY <1>0 DEF DeclineFriend, Command, Given, Commands
<1>3. type \in FrameType /\ <<Control(type)>> \in Seq(Frame) /\ Control(type) \in Frame
  <2>1. type \in FrameType
    BY DEF FrameType
  <2>2. Control(type) \in Frame
    BY <2>1, FrameTypes
  <2> QED
    BY <2>1, <2>2
<1>4. /\ Anonymous(<<Control(type)>>) \in Seq(QueueRecord)
      /\ Frames(Anonymous(<<Control(type)>>)) = <<Control(type)>>
  BY <1>3, AnonymousType, FramesAnonymous
<1>5. p # q
  BY <1>1, LinkedDiffer
<1>6. Start(p, {}, wire)
  BY DEF Start
<1>7. \A b \in Peers : out[b] = IF b = q THEN <<Control(type)>> ELSE <<>>
  BY DEF Only
<1>8. /\ out \in [Peers -> Seq(Frame)]
      /\ WaysMove(p, out, {})
  <2> HIDE DEF type
  <2> QED
    BY <1>1, <1>3, <1>4, <1>6, OnlyMoves
<1>9. /\ \A b \in Peers : status'[p][b] = IF b = q THEN mine2 ELSE status[p][b]
      /\ \A a \in Peers : a # p => status'[a] = status[a]
  BY <1>0, <1>1
<1>10. ASSUME NEW b \in Peers, b # p
       PROVE  Speaks(out[b], status[p][b], status'[p][b], Heard({}, b, p),
                     Given("reject")', Given("accept")')
  <2>1. Heard({}, b, p) = "nothing"
    BY DEF Heard
  <2>2. CASE b # q
    BY <1>7, <1>9, <2>1, <2>2, SpeaksNothing
  <2>3. CASE b = q /\ DeclineFriend(p, q)
    BY <1>2, <1>7, <1>9, <2>1, <2>3, SpeaksDecline
  <2>4. CASE b = q /\ ~DeclineFriend(p, q)
    BY <1>1, <1>7, <1>9, <2>1, <2>4, SpeaksRequest
  <2> QED
    BY <2>2, <2>3, <2>4
<1> HIDE DEF out, type
<1>11. OthersRest(p) /\ TextsMove(p, out)
  <2>1. CASE SendTextToStranger(p, q)
    <3> DEFINE e == [to |-> q, status |-> "queued"]
    <3>1. /\ pendingAuto' = [pendingAuto EXCEPT ![p][q] = Append(pendingAuto[p][q], NewText(p))]
          /\ history' = [history EXCEPT ![p] = Append(history[p], e)]
      BY <2>1 DEF SendTextToStranger
    <3>2. e \in HistoryEntry /\ e.to = q /\ NewText(p) \in Nat
      BY <1>0 DEF HistoryEntry, NewText
    <3> HIDE DEF e
    <3>3. /\ pendingAuto'[p][q] = Append(pendingAuto[p][q], NewText(p))
          /\ \A r \in Peers : r # q => pendingAuto'[p][r] = pendingAuto[p][r]
          /\ \A r \in Peers : r # p => pendingAuto'[r] = pendingAuto[r]
          /\ \A r \in Peers : r # p => history'[r] = history[r]
          /\ history'[p] = Append(history[p], e)
      BY <1>0, <3>1
    <3>4. /\ Members(pendingAuto[p][q]) \subseteq Members(pendingAuto'[p][q])
          /\ NewText(p) \in Members(pendingAuto'[p][q])
      <4>1. ASSUME NEW t \in Seq(Nat), NEW n \in Nat
            PROVE  Members(t) \subseteq Members(Append(t, n)) /\ n \in Members(Append(t, n))
        <5>1. /\ \A i \in DOMAIN t : i \in DOMAIN Append(t, n) /\ Append(t, n)[i] = t[i]
              /\ Len(t) + 1 \in DOMAIN Append(t, n) /\ Append(t, n)[Len(t) + 1] = n
          OBVIOUS
        <5> QED
          BY <5>1 DEF Members
      <4> QED
        BY <1>0, <3>2, <3>3, <4>1
    <3>5. /\ Len(history[p]) \in Nat /\ Len(history'[p]) = Len(history[p]) + 1
          /\ \A n \in 1..Len(history[p]) : history'[p][n] = history[p][n]
          /\ history'[p][Len(history[p]) + 1] = e
          /\ \A n \in 1..(Len(history[p]) + 1) : n = Len(history[p]) + 1 \/ n \in 1..Len(history[p])
      BY <1>0, <3>2, <3>3
    <3>6. ASSUME NEW n \in 1..Len(history'[p])
          PROVE  \/ n \in 1..Len(history[p]) /\ history[p][n].to = history'[p][n].to
                 \/ n \in Members(pendingAuto'[p][history'[p][n].to])
      BY <3>2, <3>4, <3>5 DEF NewText
    <3>7. \A r \in Peers : Members(pendingAuto[p][r]) \subseteq Members(pendingAuto'[p][r])
      BY <3>3, <3>4
    <3>8. TextsMove(p, out)
      BY <3>6, <3>7 DEF TextsMove
    <3> QED
      BY <1>1, <1>9, <3>3, <3>8 DEF OthersRest
  <2>2. CASE RequestFriend(p, q) \/ DeclineFriend(p, q)
    <3>1. UNCHANGED <<pendingAuto, history>>
      BY <2>2 DEF RequestFriend, DeclineFriend
    <3>2. TextsMove(p, out)
      BY <1>0, <3>1, TextsStay
    <3> QED
      BY <1>1, <1>9, <3>1, <3>2 DEF OthersRest
  <2> QED
    BY <2>1, <2>2
<1>12. ReadsMove(p, {})
  <2>1. \A b \in Peers : status[p][b] # "unknown" => status'[p][b] # "unknown"
    BY <1>9
  <2> QED
    BY <1>1, <2>1, ReadsNothing
<1>13. Introduces(p, out)
  <2>1. \A b \in Peers : status'[p][b] = "friend" => status[p][b] = "friend"
    BY <1>9
  <2> QED
    BY <1>1, <2>1, IntroducesNobody
<1>14. Turn(p, out, {})
  BY <1>8, <1>10, <1>11, <1>12, <1>13 DEF Turn
<1> QED
  BY <1>8, <1>14 DEF Turns

\* A new friend q of p is told, behind `first`, of p's other friends, if it
\* is connected, and gets the texts that waited, and they are told of it.
Tells(p, q, first, out) ==
    /\ \E rest \in Seq(Frame) :
          /\ out[q] = first \o rest /\ ForFriends(rest)
          /\ Members(pendingAuto[p][q]) \subseteq Carried(out[q])
          /\ status[p][q] # "friend" /\ q \in connections[p] =>
                \A c \in Friends(p) \ {q} : Lists(out[q], c)
    /\ \A b \in Peers : b # q =>
          out[b] = IF b \in connections[p] /\ status[p][q] # "friend" /\ b \in Friends(p)
                   THEN <<PeerList({q})>> ELSE <<>>

\* What a new friend is sent, and what the other friends are.
LEMMA AnnouncementEffect ==
    ASSUME TypeOK, NEW p \in Peers, NEW q \in Peers,
           NEW first \in {<<>>, <<Control("friend_accept")>>}
    PROVE  Tells(p, q, first, Effect(connections[p], q,
                 Announcement(p, q, first, status[p][q] # "friend", pendingAuto[p][q]),
                 first \o Texts(pendingAuto[p][q])))
<1> DEFINE texts == Texts(pendingAuto[p][q])
           introduce == status[p][q] # "friend"
           intro == IF introduce THEN Introduction(p, q) ELSE <<>>
           out == Effect(connections[p], q,
                         Announcement(p, q, first, introduce, pendingAuto[p][q]),
                         first \o texts)
           rest == IF q \in connections[p] THEN intro \o texts ELSE texts
<1>1. /\ intro \in Seq(Frame) /\ ForFriends(intro)
      /\ texts \in Seq(Frame) /\ ForFriends(texts)
      /\ Carried(texts) = Members(pendingAuto[p][q])
      /\ introduce => \A c \in Friends(p) \ {q} : Lists(intro, c)
  BY ForFriendsTypes
<1>2. first \in Seq(Frame)
  <2>1. Control("friend_accept") \in Frame
    BY FrameTypes DEF FrameType
  <2>2. <<Control("friend_accept")>> \in Seq(Frame)
    BY <2>1
  <2> QED
    BY <2>2, EmptySeq
<1>3. out[q] = IF q \in connections[p] THEN (first \o intro) \o texts ELSE first \o texts
  BY DEF Effect, Announcement
<1>4. \A b \in Peers : b # q =>
         out[b] = IF b \in connections[p] /\ introduce /\ b \in Friends(p)
                  THEN <<PeerList({q})>> ELSE <<>>
  BY DEF Effect, Announcement
<1> HIDE DEF intro, texts, out
<1>5. (first \o intro) \o texts = first \o (intro \o texts)
  BY <1>1, <1>2, ConcatAssociates
<1>6. /\ intro \o texts \in Seq(Frame) /\ ForFriends(intro \o texts)
      /\ Carried(intro \o texts) = Carried(intro) \cup Carried(texts)
      /\ \A c : Lists(intro, c) => Lists(intro \o texts, c)
  BY <1>1, Parts, AmongParts, CarriedConcat
<1>7. /\ rest \in Seq(Frame) /\ ForFriends(rest)
      /\ Members(pendingAuto[p][q]) \subseteq Carried(rest)
      /\ introduce /\ q \in connections[p] => \A c \in Friends(p) \ {q} : Lists(rest, c)
  BY <1>1, <1>6
<1>8. out[q] = first \o rest
  BY <1>3, <1>5
<1> HIDE DEF rest
<1>9. /\ Carried(rest) \subseteq Carried(first \o rest)
      /\ \A c : Lists(rest, c) => Lists(first \o rest, c)
  BY <1>2, <1>7, AmongParts, CarriedConcat
<1> QED
  BY <1>4, <1>7, <1>8, <1>9 DEF out, texts, Tells

\* Becoming friends is a turn, after a command, a request or an acceptance.
LEMMA BecomeFriendsTurn ==
    ASSUME Working, NEW p \in Peers, NEW q \in Peers, p # q,
           NEW from \in SUBSET {q}, NEW w, Start(p, from, w),
           NEW first \in {<<>>, <<Control("friend_accept")>>},
           BecomeFriends(w, p, q, first), UNCHANGED <<inbox, connections, live>>,
           \A b \in from : Head(wire[b][p]).type \in {"friend_request", "friend_accept"},
           first = <<>> => q \in from /\ Head(wire[q][p]).type = "friend_accept",
           Given("accept")' \/ q \in from
    PROVE  Turns
<1> DEFINE waiting == pendingAuto[p][q]
           introduce == status[p][q] # "friend"
           said == Announcement(p, q, first, introduce, waiting)
           kept == first \o Texts(waiting)
           out == Effect(connections[p], q, said, kept)
<1>0. /\ TypeOK /\ QueuedOnlyForUnreachable /\ Connected /\ introduce \in BOOLEAN
      /\ \A r \in connections[p] : {p, r} \in live
      /\ status \in [Peers -> [Peers -> Status]]
      /\ pendingAuto \in [Peers -> [Peers -> Seq(Nat)]]
  BY DEF Working, TypeOK, Connected
<1>1. /\ status' = [status EXCEPT ![p][q] = "friend"]
      /\ Transmit(w, p, said) /\ Keep(p, q, Anonymous(kept))
      /\ history' = IF q \in connections[p]
                    THEN [history EXCEPT ![p] = MarkSent(history[p], Members(waiting))]
                    ELSE history
      /\ pendingAuto' = [pendingAuto EXCEPT ![p][q] = <<>>]
      /\ inbox' = inbox /\ connections' = connections /\ live' = live
  BY DEF BecomeFriends
<1>2. first \in Seq(Frame)
  <2>1. Control("friend_accept") \in Frame
    BY FrameTypes DEF FrameType
  <2>2. <<Control("friend_accept")>> \in Seq(Frame)
    BY <2>1
  <2> QED
    BY <2>2, EmptySeq
<1>3. kept \in Seq(Frame)
  <2>1. Texts(waiting) \in Seq(Frame)
    BY <1>0, StageTypes
  <2> QED
    BY <1>2, <2>1, Parts
<1>4. said \in [Peers -> Seq(Frame)]
  BY <1>0, <1>2, OutTypes
<1>5. /\ \E rest \in Seq(Frame) :
            /\ out[q] = first \o rest /\ ForFriends(rest)
            /\ Members(waiting) \subseteq Carried(out[q])
            /\ introduce /\ q \in connections[p] =>
                  \A c \in Friends(p) \ {q} : Lists(out[q], c)
      /\ \A b \in Peers : b # q =>
            out[b] = IF b \in connections[p] /\ introduce /\ b \in Friends(p)
                     THEN <<PeerList({q})>> ELSE <<>>
  <2>1. Tells(p, q, first, out)
    BY <1>0, AnnouncementEffect
  <2> HIDE DEF out
  <2> QED
    BY <2>1 DEF Tells
<1>6. w \in [Peers -> [Peers -> Seq(Frame)]]
  <2>1. wire \in [Peers -> [Peers -> Seq(Frame)]] /\ connections[p] \subseteq Peers
    BY <1>0 DEF TypeOK
  <2>2. CASE from = {} /\ w = wire
    BY <2>1, <2>2
  <2>3. CASE \E r \in connections[p] : from = {r} /\ wire[r][p] # <<>> /\ w = Consumed(p, r)
    BY <1>0, <2>1, <2>3, ConsumedType
  <2> QED
    BY <2>2, <2>3 DEF Start
<1>7. Joins(p, w, out)
  <2> HIDE DEF said, kept, introduce
  <2>1. PICK records \in Seq(QueueRecord) : records = Anonymous(kept)
    BY <1>3, AnonymousType
  <2>2. Frames(records) = kept /\ Keep(p, q, records)
    BY <1>1, <1>3, <2>1, FramesAnonymous
  <2> QED
    BY <1>0, <1>1, <1>3, <1>4, <1>6, <2>2, SentWays
<1> HIDE DEF out, said, kept
<1>8. /\ out \in [Peers -> Seq(Frame)] /\ WaysMove(p, out, from)
      /\ from \subseteq {b \in Peers : b # p /\ Way(b, p) # <<>>}
      /\ from \in SUBSET Peers
      /\ \A b \in from : Head(Way(b, p)) = Head(wire[b][p])
  BY <1>7, StartMoves
<1>9. /\ \A b \in Peers : status'[p][b] = IF b = q THEN "friend" ELSE status[p][b]
      /\ \A b \in Peers : pendingAuto'[p][b] = IF b = q THEN <<>> ELSE pendingAuto[p][b]
      /\ \A a \in Peers : a # p => status'[a] = status[a] /\ pendingAuto'[a] = pendingAuto[a]
  BY <1>0, <1>1
<1>10. /\ \A n \in 1..Len(history'[p]) :
              n \in 1..Len(history[p]) /\ history[p][n].to = history'[p][n].to
       /\ \A r \in Peers : r # p => history'[r] = history[r]
  BY <1>0, <1>1, SameEntries
<1>11. OthersRest(p)
  BY <1>1, <1>9, <1>10 DEF OthersRest
<1>12. ASSUME NEW b \in Peers, b # p
       PROVE  Speaks(out[b], status[p][b], status'[p][b], Heard(from, b, p),
                     Given("reject")', Given("accept")')
  <2>1. CASE b = q
    <3>1. PICK rest \in Seq(Frame) : out[q] = first \o rest /\ ForFriends(rest)
      BY <1>5
    <3>2. /\ Heard(from, q, p) = "friend_accept" \/ first = <<Control("friend_accept")>>
          /\ Heard(from, q, p) # "friend_decline"
          /\ Given("accept")' \/ Heard(from, q, p) \in {"friend_request", "friend_accept"}
      BY <1>8 DEF Heard
    <3>3. Speaks(first \o rest, status[p][q], "friend", Heard(from, q, p),
                 Given("reject")', Given("accept")')
      BY <3>1, <3>2, SpeaksAccept
    <3> QED
      BY <1>9, <2>1, <3>1, <3>3
  <2>2. CASE b # q
    <3>1. Heard(from, b, p) = "nothing" /\ status'[p][b] = status[p][b]
      BY <1>9, <2>2 DEF Heard
    <3>2. CASE out[b] = <<>>
      BY <3>1, <3>2, SpeaksNothing
    <3>3. CASE out[b] # <<>>
      <4>1. out[b] = <<PeerList({q})>> /\ b \in Friends(p)
        BY <1>5, <2>2, <3>3
      <4>2. <<PeerList({q})>> \in Seq(Frame) /\ ForFriends(<<PeerList({q})>>)
        BY <1>0, ForFriendsTypes
      <4> QED
        BY <3>1, <4>1, <4>2, SpeaksToFriend DEF Friends
    <3> QED
      BY <3>2, <3>3
  <2> QED
    BY <2>1, <2>2
<1>13. TextsMove(p, out)
  <2>1. \A b \in Peers : Members(pendingAuto[p][b])
                            \subseteq Carried(out[b]) \cup Members(pendingAuto'[p][b])
    BY <1>5, <1>9
  <2> QED
    BY <1>10, <2>1 DEF TextsMove
<1>14. ReadsMove(p, from)
  <2>1. \A b \in from : Head(Way(b, p)).type \notin {"text", "peer_list"}
    BY <1>8
  <2>2. \A b \in Peers : status[p][b] # "unknown" => status'[p][b] # "unknown"
    BY <1>9
  <2> QED
    BY <1>1, <2>1, <2>2 DEF ReadsMove
<1>15. Introduces(p, out)
  <2> SUFFICES ASSUME NEW b \in Peers, NEW c \in Peers, b # c,
                      status'[p][b] = "friend", status'[p][c] = "friend",
                      b \in connections[p], introduce
               PROVE  \/ status[p][b] = "friend" /\ status[p][c] = "friend"
                      \/ Lists(out[b], c)
    BY <1>1, <1>9 DEF Introduces
  <2>1. CASE b = q
    <3>1. c \in Friends(p) \ {q}
      BY <1>9, <2>1 DEF Friends
    <3> QED
      BY <1>5, <2>1, <3>1
  <2>2. CASE c = q
    <3>1. b \in Friends(p) /\ out[b] = <<PeerList({q})>>
      BY <1>5, <1>9, <2>2 DEF Friends
    <3> QED
      BY <1>0, <2>2, <3>1, ForFriendsTypes
  <2>3. CASE b # q /\ c # q
    BY <1>9, <2>3
  <2> QED
    BY <2>1, <2>2, <2>3
<1>16. Turn(p, out, from)
  BY <1>8, <1>11, <1>12, <1>13, <1>14, <1>15 DEF Turn
<1> QED
  BY <1>8, <1>16 DEF Turns

\* A new connection is a turn.
LEMMA RegisterTurn ==
    ASSUME Working, NEW p \in Peers, NEW q \in Peers, Register(p, q)
    PROVE  Turns
<1> DEFINE reach == connections[p] \cup {q}
           released == IF status[p][q] = "friend" THEN pendingAuto[p][q] ELSE <<>>
           hello == Greeting(p, q)
           out == Effect(reach, p, hello, <<>>)
           sent == FlushedUids(reach, p) \cup Members(released)
<1>0. /\ TypeOK /\ Connected /\ reach \in SUBSET Peers
      /\ connections \in [Peers -> SUBSET Peers]
      /\ status \in [Peers -> [Peers -> Status]]
      /\ pendingAuto \in [Peers -> [Peers -> Seq(Nat)]]
      /\ \A r \in connections[p] : {p, r} \in live
  BY DEF Working, TypeOK, Connected
<1>1. /\ Linked(p, q) /\ q \notin connections[p]
      /\ connections' = [connections EXCEPT ![p] = reach]
      /\ live' = live \cup {{p, q}}
      /\ status' = [status EXCEPT ![p][q] = IF @ = "unknown" THEN "stranger" ELSE @]
      /\ Transmit(wire, p, [r \in Peers |-> FlushedTo(reach, p)[r] \o hello[r]])
      /\ queued' = [queued EXCEPT ![p] = [r \in Peers |->
                       IF r \in reach THEN <<>> ELSE queued[p][r]]]
      /\ history' = [history EXCEPT ![p] = MarkSent(history[p], sent)]
      /\ pendingAuto' = IF status[p][q] = "friend"
                        THEN [pendingAuto EXCEPT ![p][q] = <<>>] ELSE pendingAuto
      /\ inbox' = inbox
  BY DEF Register
<1>2. hello \in [Peers -> Seq(Frame)]
  BY <1>0, OutTypes
<1>3. connections'[p] = reach /\ \A r \in reach : {p, r} \in live'
  BY <1>0, <1>1
<1>4. /\ out[q] = IF status[p][q] = "friend"
                  THEN Texts(pendingAuto[p][q]) \o Introduction(p, q) ELSE <<>>
      /\ \A b \in Peers : b # q =>
            out[b] = IF b \in reach /\ status[p][q] = "friend" /\ b \in Friends(p)
                     THEN <<PeerList({q})>> ELSE <<>>
  BY DEF Effect, Greeting
<1> HIDE DEF reach, hello, sent
<1>5. Joins(p, wire, out)
  BY <1>0, <1>1, <1>2, <1>3, FlushedWays
<1> HIDE DEF out
<1>6. Start(p, {}, wire)
  BY DEF Start
<1>7. out \in [Peers -> Seq(Frame)] /\ WaysMove(p, out, {})
  BY <1>5, <1>6, StartMoves
<1>8. /\ \A b \in Peers : status'[p][b] = IF b = q /\ status[p][b] = "unknown"
                                         THEN "stranger" ELSE status[p][b]
      /\ \A b \in Peers : pendingAuto'[p][b] = IF b = q /\ status[p][q] = "friend"
                                               THEN <<>> ELSE pendingAuto[p][b]
      /\ \A a \in Peers : a # p => /\ status'[a] = status[a] /\ pendingAuto'[a] = pendingAuto[a]
                                   /\ connections'[a] = connections[a]
  BY <1>0, <1>1
<1>9. /\ \A n \in 1..Len(history'[p]) :
            n \in 1..Len(history[p]) /\ history[p][n].to = history'[p][n].to
      /\ \A r \in Peers : r # p => history'[r] = history[r]
  BY <1>0, <1>1, SameEntries
<1>10. OthersRest(p)
  BY <1>1, <1>8, <1>9 DEF OthersRest
<1>11. status[p][q] = "friend" =>
          /\ out[q] \in Seq(Frame) /\ ForFriends(out[q])
          /\ Carried(out[q]) = Members(pendingAuto[p][q]) \cup Carried(Introduction(p, q))
          /\ \A c \in Friends(p) \ {q} : Lists(out[q], c)
  <2>1. /\ Introduction(p, q) \in Seq(Frame) /\ ForFriends(Introduction(p, q))
        /\ Texts(pendingAuto[p][q]) \in Seq(Frame) /\ ForFriends(Texts(pendingAuto[p][q]))
        /\ Carried(Texts(pendingAuto[p][q])) = Members(pendingAuto[p][q])
        /\ \A c \in Friends(p) \ {q} : Lists(Introduction(p, q), c)
    BY <1>0, ForFriendsTypes
  <2> DEFINE t == Texts(pendingAuto[p][q])
             i == Introduction(p, q)
  <2> HIDE DEF t, i
  <2>2. /\ t \o i \in Seq(Frame) /\ ForFriends(t \o i)
        /\ Carried(t \o i) = Carried(t) \cup Carried(i)
        /\ \A c : Lists(i, c) => Lists(t \o i, c)
    <3>1. t \in Seq(Frame) /\ i \in Seq(Frame) /\ ForFriends(t) /\ ForFriends(i)
      BY <2>1 DEF t, i
    <3> QED
      BY <3>1, Parts, AmongParts, CarriedConcat
  <2> QED
    BY <1>4, <2>1, <2>2 DEF t, i
<1>12. <<PeerList({q})>> \in Seq(Frame) /\ ForFriends(<<PeerList({q})>>)
       /\ Lists(<<PeerList({q})>>, q)
  BY <1>0, ForFriendsTypes
<1>13. ASSUME NEW b \in Peers, b # p
       PROVE  Speaks(out[b], status[p][b], status'[p][b], Heard({}, b, p),
                     Given("reject")', Given("accept")')
  <2>1. Heard({}, b, p) = "nothing"
    BY DEF Heard
  <2>2. CASE out[b] = <<>>
    BY <1>8, <2>1, <2>2, SpeaksNothing
  <2>3. CASE out[b] # <<>>
    <3>1. status[p][b] = "friend" /\ status'[p][b] = "friend"
      BY <1>4, <1>8, <2>3 DEF Friends
    <3>2. out[b] \in Seq(Frame) /\ ForFriends(out[b])
      BY <1>4, <1>11, <1>12, <2>3
    <3> QED
      BY <2>1, <3>1, <3>2, SpeaksToFriend
  <2> QED
    BY <2>2, <2>3
<1>14. TextsMove(p, out)
  <2>1. \A b \in Peers : Members(pendingAuto[p][b])
                            \subseteq Carried(out[b]) \cup Members(pendingAuto'[p][b])
    BY <1>8, <1>11
  <2> QED
    BY <1>9, <2>1 DEF TextsMove
<1>15. ReadsMove(p, {})
  <2>1. \A b \in Peers : status[p][b] # "unknown" => status'[p][b] # "unknown"
    BY <1>8
  <2> QED
    BY <1>1, <2>1, ReadsNothing
<1>16. Introduces(p, out)
  <2> SUFFICES ASSUME NEW b \in Peers, NEW c \in Peers, b # c,
                      status'[p][b] = "friend", status'[p][c] = "friend",
                      b \in connections'[p], b \notin connections[p]
               PROVE  Lists(out[b], c)
    <3>1. \A b \in Peers : status'[p][b] = "friend" => status[p][b] = "friend"
      BY <1>8
    <3> QED
      BY <3>1 DEF Introduces
  <2>1. b = q /\ status[p][b] = "friend" /\ status[p][c] = "friend"
    BY <1>3, <1>8 DEF reach
  <2> QED
    BY <1>11, <2>1 DEF Friends
<1>17. Turn(p, out, {})
  BY <1>7, <1>10, <1>13, <1>14, <1>15, <1>16 DEF Turn
<1> QED
  BY <1>7, <1>17 DEF Turns

\* A round of _flush_loop is a turn.
LEMMA FlushTurn ==
    ASSUME Working, NEW p \in Peers, FlushLoop(p)
    PROVE  Turns
<1> DEFINE reach == connections[p]
           nothing == [r \in Peers |-> <<>>]
           sent == FlushedUids(reach, p)
<1>0. /\ TypeOK /\ reach \in SUBSET Peers /\ \A r \in connections[p] : {p, r} \in live
  BY DEF Working, TypeOK, Connected
<1>1. /\ Transmit(wire, p, FlushedTo(reach, p))
      /\ queued' = [queued EXCEPT ![p] = [r \in Peers |->
                       IF r \in reach THEN <<>> ELSE queued[p][r]]]
      /\ history' = [history EXCEPT ![p] = MarkSent(history[p], sent)]
      /\ pendingAuto' = pendingAuto /\ status' = status /\ inbox' = inbox
      /\ connections' = connections /\ live' = live
  BY DEF FlushLoop, contactVars, linkVars
<1>2. nothing \in [Peers -> Seq(Frame)] /\ \A b \in Peers : nothing[b] = <<>>
  BY EmptySeq
<1>3. Transmit(wire, p, [r \in Peers |-> FlushedTo(reach, p)[r] \o nothing[r]])
  <2>1. \A r \in Peers : FlushedTo(reach, p)[r] \in Seq(Frame)
    <3>1. FlushedTo(reach, p) \in [Peers -> Seq(Frame)]
      BY <1>0, OutTypes
    <3> QED
      BY <3>1
  <2>2. \A r \in Peers : FlushedTo(reach, p)[r] \o nothing[r] = FlushedTo(reach, p)[r]
    BY <1>2, <2>1, ConcatNothing
  <2>3. [r \in Peers |-> FlushedTo(reach, p)[r] \o nothing[r]] = FlushedTo(reach, p)
    <3>1. FlushedTo(reach, p) = [r \in Peers |-> FlushedTo(reach, p)[r]]
      BY DEF FlushedTo
    <3> HIDE DEF nothing
    <3> QED
      BY <2>2, <3>1
  <2> QED
    BY <1>1, <2>3
<1>4. Effect(reach, p, nothing, <<>>) = nothing
  BY DEF Effect
<1> HIDE DEF nothing, reach
<1>5. Joins(p, wire, nothing)
  <2>1. Joins(p, wire, Effect(reach, p, nothing, <<>>))
    BY <1>0, <1>1, <1>2, <1>3, FlushedWays DEF reach
  <2> QED
    BY <1>4, <2>1
<1>6. Start(p, {}, wire)
  BY DEF Start
<1>7. nothing \in [Peers -> Seq(Frame)] /\ WaysMove(p, nothing, {})
  BY <1>5, <1>6, StartMoves
<1>8. \A r \in Peers : r # p => history'[r] = history[r]
  BY <1>0, <1>1, SameEntries
<1>9. OthersRest(p)
  BY <1>1, <1>8 DEF OthersRest
<1>10. ASSUME NEW b \in Peers, b # p
       PROVE  Speaks(nothing[b], status[p][b], status'[p][b], Heard({}, b, p),
                     Given("reject")', Given("accept")')
  BY <1>1, <1>2, SpeaksNothing DEF Heard
<1>11. TextsMove(p, nothing)
  BY <1>0, <1>1, TextsStay
<1>12. ReadsMove(p, {}) /\ Introduces(p, nothing)
  BY <1>1, ReadsNothing, IntroducesNobody
<1>13. Turn(p, nothing, {})
  BY <1>7, <1>9, <1>10, <1>11, <1>12 DEF Turn
<1> QED
  BY <1>7, <1>13 DEF Turns

\* Reading without an answer is a turn.
LEMMA QuietTurn ==
    ASSUME Working, NEW p \in Peers, NEW q \in connections[p],
           wire[q][p] # <<>>, wire' = Consumed(p, q),
           UNCHANGED <<connections, pendingAuto, queued, history>>,
           \A a \in Peers : a # p => status'[a] = status[a] /\ inbox'[a] = inbox[a],
           \A b \in Peers : b # q =>
               \/ status'[p][b] = status[p][b]
               \/ status[p][b] = "unknown" /\ status'[p][b] = "stranger",
           \/ /\ Head(wire[q][p]).type = "friend_decline" /\ status'[p][q] = "stranger"
           \/ /\ Head(wire[q][p]).type \notin {"friend_decline", "friend_accept"}
              /\ \/ status'[p][q] = status[p][q]
                 \/ status[p][q] = "unknown" /\ status'[p][q] = "stranger",
           ReadsMove(p, {q})
    PROVE  Turns
<1> DEFINE nothing == [r \in Peers |-> <<>>]
           from == {q}
<1>0. TypeOK /\ q \in Peers
  BY DEF Working, TypeOK
<1>1. Start(p, from, Consumed(p, q))
  BY DEF Start
<1>2. /\ nothing \in [Peers -> Seq(Frame)]
      /\ WaysMove(p, nothing, from)
      /\ from \subseteq {b \in Peers : b # p /\ Way(b, p) # <<>>}
      /\ from \in SUBSET Peers
      /\ \A b \in from : Head(Way(b, p)) = Head(wire[b][p])
  <2> HIDE DEF from
  <2> QED
    BY <1>1, QuietMoves
<1>3. \A b \in Peers : nothing[b] = <<>>
  OBVIOUS
<1>4. /\ Heard(from, q, p) = Head(wire[q][p]).type
      /\ \A b \in Peers : b # q => Heard(from, b, p) = "nothing"
  BY <1>2 DEF Heard
<1> HIDE DEF nothing
<1>5. OthersRest(p)
  BY DEF OthersRest
<1>6. ASSUME NEW b \in Peers, b # p
      PROVE  Speaks(nothing[b], status[p][b], status'[p][b], Heard(from, b, p),
                    Given("reject")', Given("accept")')
  <2>1. CASE b # q
    BY <1>3, <1>4, <2>1, SpeaksNothing
  <2>2. CASE b = q /\ Head(wire[q][p]).type = "friend_decline"
    BY <1>3, <1>4, <2>2, SpeaksDeclined
  <2>3. CASE b = q /\ Head(wire[q][p]).type # "friend_decline"
    BY <1>3, <1>4, <2>3, SpeaksNothing
  <2> QED
    BY <2>1, <2>2, <2>3
<1>7. TextsMove(p, nothing)
  BY <1>0, TextsStay
<1>8. Introduces(p, nothing)
  <2>1. \A b \in Peers : status'[p][b] = "friend" => status[p][b] = "friend"
    OBVIOUS
  <2> QED
    BY <2>1, IntroducesNobody
<1>9. Turn(p, nothing, from)
  BY <1>2, <1>5, <1>6, <1>7, <1>8 DEF Turn
<1> QED
  BY <1>2, <1>9 DEF Turns

\* A frame read is a turn.
LEMMA DeliverTurn ==
    ASSUME Working, NEW p \in Peers, NEW q \in Peers, Deliver(p, q)
    PROVE  Turns
<1>0. /\ TypeOK /\ status \in [Peers -> [Peers -> Status]]
      /\ inbox \in [Peers -> [Peers -> Seq(Nat)]] /\ inbox[p][q] \in Seq(Nat)
      /\ wire \in [Peers -> [Peers -> Seq(Frame)]]
  <2>1. TypeOK /\ inbox \in [Peers -> [Peers -> Seq(Nat)]]
    BY DEF Working, TypeOK
  <2>2. inbox[p][q] \in Seq(Nat)
    BY <2>1
  <2> QED
    BY <2>1, <2>2 DEF TypeOK
<1>1. /\ q \in connections[p] /\ wire[q][p] # <<>>
      /\ UNCHANGED <<connections, live, commands>>
  BY DEF Deliver, HandleFriendRequest, HandleFriendAccept, HandleFriendDecline,
         HandlePeerList, HandleText, Receives, linkVars
<1>2. p # q
  BY <1>1 DEF Working, Connected
<1>3. Start(p, {q}, Consumed(p, q))
  BY <1>1 DEF Start
<1>4. Head(Way(q, p)) = Head(wire[q][p])
  BY <1>0, <1>1, ReadWays
<1>5. CASE HandleFriendRequest(p, q)
  <2>1. Head(wire[q][p]).type = "friend_request" /\ inbox' = inbox
    BY <1>5 DEF HandleFriendRequest, Receives
  <2>2. CASE /\ status[p][q] = "blocked" /\ wire' = Consumed(p, q)
             /\ UNCHANGED <<contactVars, queued, history>>
    <3>1. UNCHANGED <<connections, pendingAuto, queued, history, status, inbox>>
      BY <1>1, <2>1, <2>2 DEF contactVars
    <3>2. ReadsMove(p, {q})
      BY <1>4, <2>1, <3>1 DEF ReadsMove
    <3> QED
      BY <1>1, <2>1, <2>2, <3>1, <3>2, QuietTurn
  <2>3. CASE /\ status[p][q] = "friend"
             /\ Transmit(Consumed(p, q), p, Only(q, <<Control("friend_accept")>>))
             /\ Keep(p, q, Anonymous(<<Control("friend_accept")>>))
             /\ UNCHANGED <<contactVars, history>>
    <3> DEFINE frame == Control("friend_accept")
               out == Only(q, <<frame>>)
               from == {q}
    <3>1. UNCHANGED <<connections, live, pendingAuto, history, status, inbox>>
      BY <1>1, <2>1, <2>3 DEF contactVars
    <3>2. frame \in Frame /\ <<frame>> \in Seq(Frame)
      <4>1. frame \in Frame
        BY FrameTypes DEF FrameType
      <4> QED
        BY <4>1
    <3>3. PICK records \in Seq(QueueRecord) : records = Anonymous(<<frame>>)
      BY <3>2, AnonymousType
    <3>4. Frames(records) = <<frame>> /\ Keep(p, q, records)
      BY <2>3, <3>2, <3>3, FramesAnonymous
    <3>5. /\ out \in [Peers -> Seq(Frame)] /\ WaysMove(p, out, from)
          /\ from \subseteq {b \in Peers : b # p /\ Way(b, p) # <<>>}
          /\ from \in SUBSET Peers
      <4> HIDE DEF from
      <4>1. Start(p, from, Consumed(p, q))
        BY <1>3 DEF from
      <4>2. Transmit(Consumed(p, q), p, Only(q, <<frame>>))
        BY <2>3
      <4> HIDE DEF frame
      <4>3. connections' = connections /\ live' = live
        BY <3>1
      <4> QED
        BY <3>2, <3>4, <4>1, <4>2, <4>3, OnlyMoves
    <3>6. /\ Heard(from, q, p) = "friend_request"
          /\ \A b \in Peers : b # q => Heard(from, b, p) = "nothing"
      BY <1>4, <2>1 DEF Heard
    <3>7. \A b \in Peers : out[b] = IF b = q THEN <<frame>> ELSE <<>>
      BY DEF Only
    <3> HIDE DEF out
    <3>8. OthersRest(p) /\ TextsMove(p, out) /\ Introduces(p, out)
      BY <1>0, <3>1, TextsStay, IntroducesNobody DEF OthersRest
    <3>9. ReadsMove(p, from)
      BY <1>4, <2>1, <3>1 DEF ReadsMove
    <3>10. ASSUME NEW b \in Peers, b # p
           PROVE  Speaks(out[b], status[p][b], status'[p][b], Heard(from, b, p),
                         Given("reject")', Given("accept")')
      <4>1. CASE b = q
        <5>1. <<frame>> \o <<>> = <<frame>> /\ <<>> \in Seq(Frame) /\ ForFriends(<<>>)
          BY <3>2, ConcatNothing, EmptySeq DEF ForFriends
        <5>2. Speaks(<<frame>> \o <<>>, status[p][q], "friend", "friend_request",
                     Given("reject")', Given("accept")')
          BY <5>1, SpeaksAccept
        <5> QED
          BY <2>3, <3>1, <3>6, <3>7, <4>1, <5>1, <5>2
      <4>2. CASE b # q
        BY <3>1, <3>6, <3>7, <4>2, SpeaksNothing
      <4> QED
        BY <4>1, <4>2
    <3>11. Turn(p, out, from)
      BY <3>5, <3>8, <3>9, <3>10 DEF Turn
    <3> QED
      BY <3>5, <3>11 DEF Turns
  <2>4. CASE BecomeFriends(Consumed(p, q), p, q, <<Control("friend_accept")>>)
    <3>1. PICK from \in SUBSET {q} : from = {q}
      OBVIOUS
    <3>2. PICK first \in {<<>>, <<Control("friend_accept")>>} :
              first = <<Control("friend_accept")>>
      OBVIOUS
    <3>3. Start(p, from, Consumed(p, q)) /\ BecomeFriends(Consumed(p, q), p, q, first)
          /\ first # <<>> /\ q \in from
          /\ \A b \in from : Head(wire[b][p]).type \in {"friend_request", "friend_accept"}
      BY <1>3, <2>1, <2>4, <3>1, <3>2
    <3>4. UNCHANGED <<inbox, connections, live>>
      BY <1>1, <2>1
    <3> QED
      BY <1>2, <3>3, <3>4, BecomeFriendsTurn
  <2> QED
    BY <1>5, <2>2, <2>3, <2>4 DEF HandleFriendRequest
<1>6. CASE HandleFriendAccept(p, q)
  <2>1. /\ Head(wire[q][p]).type = "friend_accept" /\ inbox' = inbox
        /\ BecomeFriends(Consumed(p, q), p, q, <<>>)
    BY <1>6 DEF HandleFriendAccept, Receives
  <2>2. PICK from \in SUBSET {q} : from = {q}
    OBVIOUS
  <2>3. PICK first \in {<<>>, <<Control("friend_accept")>>} : first = <<>>
    OBVIOUS
  <2>4. Start(p, from, Consumed(p, q)) /\ BecomeFriends(Consumed(p, q), p, q, first)
        /\ q \in from /\ Head(wire[q][p]).type = "friend_accept"
        /\ \A b \in from : Head(wire[b][p]).type \in {"friend_request", "friend_accept"}
    BY <1>3, <2>1, <2>2, <2>3
  <2>5. UNCHANGED <<inbox, connections, live>>
    BY <1>1, <2>1
  <2> QED
    BY <1>2, <2>4, <2>5, BecomeFriendsTurn
<1>7. CASE HandleFriendDecline(p, q)
  <2>1. /\ Head(wire[q][p]).type = "friend_decline"
        /\ status' = [status EXCEPT ![p][q] = "stranger"]
        /\ wire' = Consumed(p, q)
        /\ UNCHANGED <<pendingAuto, queued, history, inbox>>
    BY <1>7 DEF HandleFriendDecline, Receives
  <2>2. /\ \A a \in Peers : a # p => status'[a] = status[a]
        /\ \A b \in Peers : status'[p][b] = IF b = q THEN "stranger" ELSE status[p][b]
    BY <1>0, <2>1
  <2>3. ReadsMove(p, {q})
    BY <1>4, <2>1, <2>2 DEF ReadsMove
  <2>4. /\ UNCHANGED <<connections, pendingAuto, queued, history>>
        /\ \A a \in Peers : a # p => status'[a] = status[a] /\ inbox'[a] = inbox[a]
        /\ \A b \in Peers : b # q => status'[p][b] = status[p][b]
        /\ status'[p][q] = "stranger"
    BY <1>1, <2>1, <2>2
  <2> QED
    BY <1>1, <2>1, <2>3, <2>4, QuietTurn
<1>8. CASE HandlePeerList(p, q)
  <2>1. /\ Head(wire[q][p]).type = "peer_list"
        /\ status' = [status EXCEPT ![p] = [r \in Peers |->
              IF /\ status[p][q] = "friend"
                 /\ r \in Head(wire[q][p]).peers \ {p}
                 /\ status[p][r] = "unknown"
              THEN "stranger" ELSE status[p][r]]]
        /\ wire' = Consumed(p, q)
        /\ UNCHANGED <<pendingAuto, queued, history, inbox>>
    BY <1>8 DEF HandlePeerList, Receives
  <2>2. /\ \A a \in Peers : a # p => status'[a] = status[a]
        /\ \A r \in Peers : status'[p][r] =
              IF /\ status[p][q] = "friend"
                 /\ r \in Head(wire[q][p]).peers \ {p}
                 /\ status[p][r] = "unknown"
              THEN "stranger" ELSE status[p][r]
    BY <1>0, <2>1
  <2>3. Head(wire[q][p]).peers \subseteq Peers
    <3>1. Head(wire[q][p]) \in Frame
      BY <1>0, <1>1, ConsumedType
    <3> QED
      BY <3>1 DEF Frame
  <2>4. ReadsMove(p, {q})
    BY <1>4, <2>1, <2>2, <2>3 DEF ReadsMove
  <2>5. \A b \in Peers :
            \/ status'[p][b] = status[p][b]
            \/ status[p][b] = "unknown" /\ status'[p][b] = "stranger"
    BY <2>2
  <2>6. /\ UNCHANGED <<connections, pendingAuto, queued, history>>
        /\ \A a \in Peers : a # p => status'[a] = status[a] /\ inbox'[a] = inbox[a]
    BY <1>1, <2>1, <2>2
  <2>7. \/ status'[p][q] = status[p][q]
        \/ status[p][q] = "unknown" /\ status'[p][q] = "stranger"
    BY <2>5
  <2> QED
    BY <1>1, <2>1, <2>4, <2>5, <2>6, <2>7, QuietTurn
<1>9. CASE HandleText(p, q)
  <2>1. /\ Head(wire[q][p]).type = "text"
        /\ inbox' = IF status[p][q] = "friend"
                    THEN [inbox EXCEPT ![p][q] = Append(inbox[p][q], Head(wire[q][p]).text)]
                    ELSE inbox
        /\ wire' = Consumed(p, q)
        /\ UNCHANGED <<pendingAuto, queued, history, status>>
    BY <1>9 DEF HandleText, Receives, contactVars
  <2>2. Head(wire[q][p]).text \in Nat
    <3>1. Head(wire[q][p]) \in Frame
      BY <1>0, <1>1, ConsumedType
    <3> QED
      BY <3>1 DEF Frame
  <2>3. /\ \A a \in Peers : a # p => inbox'[a] = inbox[a]
        /\ \A b \in Peers : b # q => inbox'[p][b] = inbox[p][b]
        /\ inbox'[p][q] = IF status[p][q] = "friend"
                          THEN Append(inbox[p][q], Head(wire[q][p]).text) ELSE inbox[p][q]
    BY <1>0, <2>1
  <2>4. ASSUME NEW t \in Seq(Nat), NEW n \in Nat
        PROVE  Members(t) \subseteq Members(Append(t, n)) /\ n \in Members(Append(t, n))
    <3>1. /\ \A i \in DOMAIN t : i \in DOMAIN Append(t, n) /\ Append(t, n)[i] = t[i]
          /\ Len(t) + 1 \in DOMAIN Append(t, n) /\ Append(t, n)[Len(t) + 1] = n
      OBVIOUS
    <3> QED
      BY <3>1 DEF Members
  <2>5. /\ Members(inbox[p][q]) \subseteq Members(inbox'[p][q])
        /\ status[p][q] = "friend" => Head(wire[q][p]).text \in Members(inbox'[p][q])
    BY <1>0, <2>2, <2>3, <2>4
  <2>6. ReadsMove(p, {q})
    BY <1>4, <2>1, <2>3, <2>5 DEF ReadsMove
  <2> QED
    BY <1>1, <2>1, <2>3, <2>6, QuietTurn
<1> QED
  BY <1>5, <1>6, <1>7, <1>8, <1>9 DEF Deliver

\* Accepting a friend is a turn.
LEMMA AcceptTurn ==
    ASSUME Working, NEW p \in Peers, NEW q \in Peers, AcceptFriend(p, q)
    PROVE  Turns
<1>1. /\ Linked(p, q) /\ BecomeFriends(wire, p, q, <<Control("friend_accept")>>)
      /\ UNCHANGED <<inbox, connections, live>>
  BY DEF AcceptFriend, Command, linkVars
<1>2. Given("accept")'
  BY DEF Working, TypeOK, AcceptFriend, Command, Given, Commands
<1>3. p # q
  BY <1>1, LinkedDiffer
<1>4. PICK from \in SUBSET {q} : from = {}
  OBVIOUS
<1>5. PICK first \in {<<>>, <<Control("friend_accept")>>} :
          first = <<Control("friend_accept")>>
  OBVIOUS
<1>6. Start(p, from, wire) /\ BecomeFriends(wire, p, q, first) /\ first # <<>>
  BY <1>1, <1>4, <1>5 DEF Start
<1>7. \A b \in from : Head(wire[b][p]).type \in {"friend_request", "friend_accept"}
  BY <1>4
<1> QED
  BY <1>1, <1>2, <1>3, <1>6, <1>7, BecomeFriendsTurn

\* While links work, a step is somebody's turn or changes nothing.
LEMMA NextTurns ==
    ASSUME Working, [Next]_vars, breaks' = 0
    PROVE  Turns \/ UNCHANGED vars
<1>1. ASSUME NEW p \in Peers, NEW q \in Peers, Drop(p, q) PROVE FALSE
  BY <1>1 DEF Drop, Working, Connected
<1>2. ASSUME NEW l \in Links, Break(l) PROVE FALSE
  BY <1>2 DEF Break, Working
<1> QED
  BY <1>1, <1>2, SendTextTurn, ControlTurn, AcceptTurn, DeliverTurn, RegisterTurn,
     FlushTurn
  DEF Next
-----------------------------------------------------------------------------
(***************************************************************************)
(* Connections.                                                            *)
(***************************************************************************)

\* Every step keeps working links working and users writing to others.
LEMMA NextConnected == TypeOK /\ Connected /\ [Next]_vars => Connected'
<1> SUFFICES ASSUME TypeOK, Connected, [Next]_vars PROVE Connected'
  OBVIOUS
<1>0. /\ connections \in [Peers -> SUBSET Peers] /\ live \subseteq Links /\ breaks \in Nat
      /\ history \in [Peers -> Seq(HistoryEntry)]
  BY DEF TypeOK
<1> DEFINE Apart == \A p, q \in Peers : q \in connections[p] => p # q
           Work == breaks = 0 => \A p, q \in Peers : q \in connections[p] => {p, q} \in live
           Others == \A p \in Peers : \A n \in 1..Len(history[p]) : history[p][n].to # p
<1>1. Apart /\ Work /\ Others
  BY DEF Connected
<1>2. ASSUME UNCHANGED <<connections, live, breaks>> PROVE Apart' /\ Work'
  BY <1>1, <1>2
<1>3. ASSUME history' = history
             \/ \E p \in Peers : \E sent : history' = [history EXCEPT ![p] = MarkSent(history[p], sent)]
      PROVE  Others'
  <2>1. CASE history' = history
    BY <1>1, <2>1
  <2>2. CASE \E p \in Peers : \E sent : history' = [history EXCEPT ![p] = MarkSent(history[p], sent)]
    <3>1. PICK p \in Peers : \E sent : history' = [history EXCEPT ![p] = MarkSent(history[p], sent)]
      BY <2>2
    <3>2. /\ \A n \in 1..Len(history'[p]) :
                n \in 1..Len(history[p]) /\ history[p][n].to = history'[p][n].to
          /\ \A r \in Peers : r # p => history'[r] = history[r]
      BY <3>1, SameEntries
    <3> QED
      BY <1>1, <3>2
  <2> QED
    BY <1>3, <2>1, <2>2
<1> HIDE DEF Work, Apart
<1>4. ASSUME NEW p \in Peers, NEW q \in Peers,
             SendTextToFriend(p, q) \/ SendTextToStranger(p, q)
      PROVE  Connected'
  <2>1. PICK s \in {"queued", "sent"} :
            history' = [history EXCEPT ![p] = Append(history[p], [to |-> q, status |-> s])]
    BY <1>4 DEF SendTextToFriend, SendTextToStranger
  <2>2. p # q
    BY <1>4, LinkedDiffer DEF SendTextToFriend, SendTextToStranger, CanSendText
  <2>3. UNCHANGED <<connections, live, breaks>>
    BY <1>4 DEF SendTextToFriend, SendTextToStranger
  <2> DEFINE e == [to |-> q, status |-> s]
  <2>4. e \in HistoryEntry /\ e.to = q
    BY DEF HistoryEntry
  <2> HIDE DEF e
  <2>5. /\ history'[p] = Append(history[p], e) /\ history[p] \in Seq(HistoryEntry)
        /\ \A r \in Peers : r # p => history'[r] = history[r]
    BY <1>0, <2>1 DEF e
  <2>6. \A n \in 1..Len(history'[p]) : history'[p][n] = e \/ (n \in 1..Len(history[p])
                                                            /\ history'[p][n] = history[p][n])
    BY <2>4, <2>5
  <2>7. Others'
    BY <1>1, <2>2, <2>4, <2>5, <2>6
  <2> QED
    BY <1>2, <2>3, <2>7 DEF Connected, Apart, Work
<1>5. ASSUME NEW p \in Peers, NEW q \in Peers,
             RequestFriend(p, q) \/ AcceptFriend(p, q) \/ DeclineFriend(p, q)
      PROVE  Connected'
  <2>1. UNCHANGED <<connections, live, breaks>>
    BY <1>5 DEF RequestFriend, AcceptFriend, DeclineFriend, Command, linkVars
  <2>2. Others'
    BY <1>3, <1>5 DEF RequestFriend, AcceptFriend, DeclineFriend, BecomeFriends
  <2> QED
    BY <1>2, <2>1, <2>2 DEF Connected, Apart, Work
<1>6. ASSUME NEW p \in Peers, NEW q \in Peers, Deliver(q, p)
      PROVE  Connected'
  <2>1. UNCHANGED <<connections, live, breaks>>
    BY <1>6 DEF Deliver, HandleFriendRequest, HandleFriendAccept, HandleFriendDecline,
                HandlePeerList, HandleText, Receives, linkVars
  <2>2. Others'
    BY <1>3, <1>6 DEF Deliver, HandleFriendRequest, HandleFriendAccept, HandleFriendDecline,
                HandlePeerList, HandleText, BecomeFriends
  <2> QED
    BY <1>2, <2>1, <2>2 DEF Connected, Apart, Work
<1>7. ASSUME NEW p \in Peers, NEW q \in Peers, Register(p, q)
      PROVE  Connected'
  <2>1. /\ p # q
        /\ connections' = [connections EXCEPT ![p] = connections[p] \cup {q}]
        /\ live' = live \cup {{p, q}} /\ breaks' = breaks
    BY <1>7, LinkedDiffer DEF Register
  <2>2. Others'
    BY <1>3, <1>7 DEF Register
  <2>3. /\ \A a \in Peers : a # p => connections'[a] = connections[a]
        /\ connections'[p] = connections[p] \cup {q}
    BY <1>0, <2>1
  <2>4. Apart'
    BY <1>1, <2>1, <2>3 DEF Apart
  <2>5. Work'
    <3> SUFFICES ASSUME breaks = 0, NEW a \in Peers, NEW b \in Peers, b \in connections'[a]
                 PROVE  {a, b} \in live'
      BY <2>1 DEF Work
    <3>1. CASE b \in connections[a]
      BY <1>1, <2>1, <3>1 DEF Work
    <3>2. CASE b \notin connections[a]
      BY <2>1, <2>3, <3>2
    <3> QED
      BY <3>1, <3>2
  <2> QED
    BY <2>2, <2>4, <2>5 DEF Connected, Apart, Work
<1>8. ASSUME NEW p \in Peers, NEW q \in Peers, Drop(p, q)
      PROVE  Connected'
  <2>1. /\ connections' = [connections EXCEPT ![p] = connections[p] \ {q}]
        /\ live' = live /\ breaks' = breaks /\ history' = history
    BY <1>8 DEF Drop
  <2>2. \A a \in Peers : connections'[a] \subseteq connections[a]
    BY <1>0, <2>1
  <2>3. Apart' /\ Work'
    BY <1>1, <2>1, <2>2 DEF Apart, Work
  <2> QED
    BY <1>3, <2>1, <2>3 DEF Connected, Apart, Work
<1>9. ASSUME NEW l \in Links, Break(l) PROVE Connected'
  <2>1. breaks' # 0 /\ connections' = connections /\ history' = history
    BY <1>0, <1>9 DEF Break
  <2>2. Apart' /\ Work'
    BY <1>1, <2>1 DEF Apart, Work
  <2> QED
    BY <1>3, <2>1, <2>2 DEF Connected, Apart, Work
<1>10. ASSUME NEW p \in Peers, FlushLoop(p) PROVE Connected'
  <2>1. UNCHANGED <<connections, live, breaks>>
    BY <1>10 DEF FlushLoop, linkVars
  <2>2. Others'
    BY <1>3, <1>10 DEF FlushLoop
  <2> QED
    BY <1>2, <2>1, <2>2 DEF Connected, Apart, Work
<1>11. CASE UNCHANGED vars
  BY <1>2, <1>3, <1>11 DEF vars, Connected, Apart, Work
<1> QED
  BY <1>4, <1>5, <1>6, <1>7, <1>8, <1>9, <1>10, <1>11 DEF Next

\* Connections are between different peers, and while no link broke they work;
\* no peer writes to itself (lan.py, bluetooth.py: a link to oneself is refused).
LEMMA AlwaysConnected == Spec => []Connected
<1>1. Init => Connected
  BY DEF Init, Connected
<1>2. TypeOK /\ Connected /\ [Next]_vars => Connected'
  BY NextConnected
<1> QED
  BY <1>1, <1>2, Typing, PTL DEF Spec

-----------------------------------------------------------------------------
(***************************************************************************)
(* Nobody rejects and no link breaks.                                      *)
(***************************************************************************)

\* What is on the way to a peer, `mine` being the sender's status of it and
\* `theirs` the reverse: no rejection; an acceptance only from a friend; an
\* acceptance if only the sender knows of the friendship; and texts and peer
\* lists only for one who is a friend, or will be one when reading them.
Courteous(line, mine, theirs) ==
    /\ ~HasType(line, "friend_decline")
    /\ HasType(line, "friend_accept") => mine = "friend"
    /\ mine = "friend" /\ theirs # "friend" => HasType(line, "friend_accept")
    /\ \A i \in 1..Len(line) : line[i].type \in {"text", "peer_list"} =>
          theirs = "friend" \/ \E j \in 1..(i - 1) : line[j].type = "friend_accept"

Courtesy ==
    Calm => \A p, q \in Peers : p # q => Courteous(Way(p, q), status[p][q], status[q][p])

\* What is on the way stays courteous when more is said.
LEMMA CourteousSpeaking ==
    ASSUME NEW line \in Seq(Frame), NEW out \in Seq(Frame), NEW mine, NEW mine2, NEW theirs,
           NEW heard, NEW rejecting, NEW accepting,
           Courteous(line, mine, theirs), Speaks(out, mine, mine2, heard, rejecting, accepting),
           ~rejecting, heard # "friend_decline", heard = "friend_accept" => theirs = "friend"
    PROVE  Courteous(line \o out, mine2, theirs)
<1> DEFINE all == line \o out
<1>1. /\ HasType(all, "friend_decline") => HasType(line, "friend_decline") \/ HasType(out, "friend_decline")
      /\ HasType(all, "friend_accept") <=> HasType(line, "friend_accept") \/ HasType(out, "friend_accept")
  BY AmongParts
<1>2. /\ Len(line) \in Nat /\ Len(out) \in Nat /\ Len(all) = Len(line) + Len(out)
      /\ \A i \in 1..Len(line) : i \in 1..Len(all) /\ all[i] = line[i]
      /\ \A i \in 1..Len(out) : Len(line) + i \in 1..Len(all) /\ all[Len(line) + i] = out[i]
      /\ \A i \in 1..Len(all) : i \in 1..Len(line) \/ (i > Len(line) /\ i - Len(line) \in 1..Len(out)
                                                       /\ all[i] = out[i - Len(line)])
  BY Parts
<1> HIDE DEF all
<1>3. mine = "friend" => mine2 = "friend"
  BY DEF Speaks
<1>4. ~HasType(all, "friend_decline")
  BY <1>1 DEF Courteous, Speaks
<1>5. HasType(all, "friend_accept") => mine2 = "friend"
  BY <1>1, <1>3 DEF Courteous, Speaks
<1>6. mine2 = "friend" /\ theirs # "friend" => HasType(all, "friend_accept")
  BY <1>1 DEF Courteous, Speaks
<1>7. ASSUME NEW i \in 1..Len(all), all[i].type \in {"text", "peer_list"}, theirs # "friend"
      PROVE  \E j \in 1..(i - 1) : all[j].type = "friend_accept"
  <2>1. CASE i \in 1..Len(line)
    <3>1. PICK j \in 1..(i - 1) : line[j].type = "friend_accept"
      BY <1>2, <1>7, <2>1 DEF Courteous
    <3>2. j \in 1..Len(line)
      BY <1>2, <2>1
    <3>3. all[j].type = "friend_accept"
      BY <1>2, <3>1, <3>2
    <3> QED
      BY <3>3
  <2>2. CASE i \notin 1..Len(line)
    <3>1. i > Len(line) /\ i - Len(line) \in 1..Len(out) /\ all[i] = out[i - Len(line)]
      BY <1>2, <2>2
    <3>2. \/ mine = "friend"
          \/ \E k \in 1..((i - Len(line)) - 1) : out[k].type = "friend_accept"
      BY <1>7, <3>1 DEF Speaks
    <3>3. CASE mine = "friend"
      <4>1. PICK j \in 1..Len(line) : line[j].type = "friend_accept"
        BY <1>7, <3>3 DEF Courteous, HasType
      <4>2. j \in 1..(i - 1) /\ all[j].type = "friend_accept"
        BY <1>2, <3>1, <4>1
      <4> QED
        BY <4>2
    <3>4. CASE \E k \in 1..((i - Len(line)) - 1) : out[k].type = "friend_accept"
      <4>1. PICK k \in 1..((i - Len(line)) - 1) : out[k].type = "friend_accept"
        BY <3>4
      <4>2. k \in 1..Len(out) /\ Len(line) + k \in 1..(i - 1)
        BY <1>2, <3>1
      <4>3. all[Len(line) + k].type = "friend_accept"
        BY <1>2, <4>1, <4>2
      <4> QED
        BY <4>2, <4>3
    <3> QED
      BY <3>2, <3>3, <3>4
  <2> QED
    BY <2>1, <2>2
<1>8. Courteous(all, mine2, theirs)
  BY <1>4, <1>5, <1>6, <1>7 DEF Courteous
<1> QED
  BY <1>8 DEF all

\* What is heard of a line: nothing, or its front.
Heed(line, rest, heard) ==
    \/ rest = line /\ heard = "nothing"
    \/ line # <<>> /\ rest = Tail(line) /\ heard = Head(line).type

\* What is on the way stays courteous when its front is read.
LEMMA CourteousHearing ==
    ASSUME NEW line \in Seq(Frame), NEW rest, NEW out, NEW mine, NEW theirs, NEW theirs2,
           NEW heard, NEW rejecting, NEW accepting,
           Courteous(line, mine, theirs), Speaks(out, theirs, theirs2, heard, rejecting, accepting),
           ~rejecting, Heed(line, rest, heard)
    PROVE  /\ Courteous(rest, mine, theirs2)
           /\ heard # "friend_decline"
           /\ heard = "friend_accept" => mine = "friend"
<1>1. CASE rest = line /\ heard = "nothing"
  <2>1. theirs = "friend" => theirs2 = "friend"
    BY <1>1 DEF Speaks
  <2>2. Courteous(line, mine, theirs2)
    BY <2>1 DEF Courteous
  <2> QED
    BY <1>1, <2>2
<1>2. CASE line # <<>> /\ rest = Tail(line) /\ heard = Head(line).type
  <2>1. /\ rest \in Seq(Frame) /\ Len(line) \in Nat /\ Len(rest) \in Nat
        /\ Len(line) = Len(rest) + 1
        /\ Head(line) = line[1] /\ 1 \in 1..Len(line)
        /\ \A i \in 1..Len(rest) : i + 1 \in 1..Len(line) /\ rest[i] = line[i + 1]
        /\ \A i \in 1..Len(line) :
              i = 1 \/ (i - 1 \in 1..Len(rest) /\ line[i] = rest[i - 1])
    BY <1>2, TailParts
  <2>2. heard # "friend_decline" /\ (heard = "friend_accept" => mine = "friend")
    BY <1>2, <2>1 DEF Courteous, HasType
  <2>3. theirs = "friend" => theirs2 = "friend"
    BY <2>2 DEF Speaks
  <2>4. heard = "friend_accept" => theirs2 = "friend"
    BY DEF Speaks
  <2>5. \A type : HasType(rest, type) => HasType(line, type)
    BY <2>1 DEF HasType
  <2>6. \A type : HasType(line, type) => heard = type \/ HasType(rest, type)
    BY <1>2, <2>1 DEF HasType
  <2>7. ~HasType(rest, "friend_decline") /\ (HasType(rest, "friend_accept") => mine = "friend")
    BY <2>5 DEF Courteous
  <2>8. mine = "friend" /\ theirs2 # "friend" => HasType(rest, "friend_accept")
    BY <2>3, <2>4, <2>6 DEF Courteous
  <2>9. ASSUME NEW i \in 1..Len(rest), rest[i].type \in {"text", "peer_list"}, theirs2 # "friend"
        PROVE  \E j \in 1..(i - 1) : rest[j].type = "friend_accept"
    <3>1. i + 1 \in 1..Len(line) /\ line[i + 1].type \in {"text", "peer_list"} /\ theirs # "friend"
      BY <2>1, <2>3, <2>9
    <3>2. PICK j \in 1..((i + 1) - 1) : line[j].type = "friend_accept"
      BY <3>1 DEF Courteous
    <3>3. j # 1
      BY <1>2, <2>1, <2>4, <2>9, <3>2
    <3>4. j \in 1..Len(line) /\ j - 1 \in 1..(i - 1)
      BY <2>1, <3>3
    <3>5. rest[j - 1].type = "friend_accept"
      BY <2>1, <3>2, <3>3, <3>4
    <3> QED
      BY <3>4, <3>5
  <2> QED
    BY <2>2, <2>7, <2>8, <2>9 DEF Courteous
<1> QED
  BY <1>1, <1>2 DEF Heed

\* What one peer hears of another in a turn.
LEMMA TurnHeeds ==
    ASSUME NEW p \in Peers, NEW out, NEW from, Turn(p, out, from),
           NEW b \in Peers, b # p
    PROVE  /\ Heed(Way(b, p), Way(b, p)', Heard(from, b, p))
           /\ Way(p, b)' = Way(p, b) \o out[b]
           /\ out[b] \in Seq(Frame)
           /\ status'[b] = status[b]
           /\ Speaks(out[b], status[p][b], status'[p][b], Heard(from, b, p),
                     Given("reject")', Given("accept")')
<1>1. /\ WaysMove(p, out, from) /\ OthersRest(p) /\ out \in [Peers -> Seq(Frame)]
      /\ from \subseteq {a \in Peers : a # p /\ Way(a, p) # <<>>}
      /\ Speaks(out[b], status[p][b], status'[p][b], Heard(from, b, p),
                Given("reject")', Given("accept")')
  BY DEF Turn
<1>2. /\ Way(p, b)' = Way(p, b) \o out[b]
      /\ Way(b, p)' = IF b \in from THEN Tail(Way(b, p)) ELSE Way(b, p)
  BY <1>1 DEF WaysMove
<1>3. status'[b] = status[b]
  BY <1>1 DEF OthersRest
<1>4. Heed(Way(b, p), Way(b, p)', Heard(from, b, p))
  BY <1>1, <1>2 DEF Heed, Heard
<1> QED
  BY <1>1, <1>2, <1>3, <1>4

\* The ways between others in a turn.
LEMMA TurnSpares ==
    ASSUME NEW p \in Peers, NEW out, NEW from, Turn(p, out, from),
           NEW a \in Peers, NEW b \in Peers, a # p, b # p, a # b
    PROVE  /\ Way(a, b)' = Way(a, b)
           /\ status'[a] = status[a] /\ status'[b] = status[b]
BY DEF Turn, WaysMove, OthersRest

\* A commands once given stays given.
LEMMA GivenStays ==
    ASSUME TypeOK, [Next]_vars
    PROVE  \A command \in Commands : Given(command) => Given(command)'
<1>1. commands \in [Commands -> Nat]
  BY DEF TypeOK
<1> QED
  BY <1>1, NextCommands DEF Given

\* A link once broken stays counted.
LEMMA NextBreaks == TypeOK /\ [Next]_vars /\ breaks' = 0 => breaks = 0
<1> SUFFICES ASSUME TypeOK, [Next]_vars, breaks' = 0, breaks # 0 PROVE FALSE
  OBVIOUS
<1>1. ASSUME NEW p \in Peers, NEW q \in Peers,
             \/ SendTextToFriend(p, q) \/ SendTextToStranger(p, q) \/ RequestFriend(p, q)
             \/ AcceptFriend(p, q) \/ DeclineFriend(p, q)
      PROVE  FALSE
  BY <1>1 DEF SendTextToFriend, SendTextToStranger, RequestFriend, AcceptFriend,
              DeclineFriend, Command, linkVars
<1>2. ASSUME NEW p \in Peers, NEW q \in Peers, Deliver(q, p) PROVE FALSE
  BY <1>2 DEF Deliver, HandleFriendRequest, HandleFriendAccept, HandleFriendDecline,
              HandlePeerList, HandleText, Receives, linkVars
<1>3. ASSUME NEW p \in Peers, NEW q \in Peers,
             Register(p, q) \/ Drop(p, q) \/ FlushLoop(p)
      PROVE  FALSE
  BY <1>3 DEF Register, Drop, FlushLoop, linkVars
<1>4. ASSUME NEW l \in Links, Break(l) PROVE FALSE
  BY <1>4 DEF Break, TypeOK
<1>5. CASE UNCHANGED vars
  BY <1>5 DEF vars
<1> QED
  BY <1>1, <1>2, <1>3, <1>4, <1>5 DEF Next

\* Every step while nobody rejects and no link breaks is courteous.
LEMMA NextCourtesy ==
    TypeOK /\ QueuedOnlyForUnreachable /\ Connected /\ Courtesy /\ [Next]_vars => Courtesy'
<1> SUFFICES ASSUME TypeOK, QueuedOnlyForUnreachable, Connected, Courtesy, [Next]_vars,
                    ~Given("reject")', breaks' = 0
             PROVE  \A a, b \in Peers : a # b =>
                        Courteous(Way(a, b)', status'[a][b], status'[b][a])
  BY DEF Courtesy, Calm
<1>1. breaks = 0 /\ ~Given("reject")
  <2>1. ~Given("reject")
    BY GivenStays DEF Commands
  <2> QED
    BY <2>1, NextBreaks
<1>2. Working /\ \A a, b \in Peers : a # b => Courteous(Way(a, b), status[a][b], status[b][a])
  BY <1>1 DEF Working, Courtesy, Calm
<1>3. Turns \/ UNCHANGED vars
  BY <1>2, NextTurns
<1>4. CASE UNCHANGED vars
  BY <1>2, <1>4 DEF vars, Way
<1>5. ASSUME NEW p \in Peers, NEW out, NEW from, Turn(p, out, from),
             NEW a \in Peers, NEW b \in Peers, a # b
      PROVE  Courteous(Way(a, b)', status'[a][b], status'[b][a])
  <2>0. Way(a, b) \in Seq(Frame) /\ Way(b, a) \in Seq(Frame)
    BY WayType
  <2>1. CASE a = p
    <3>1. /\ Heed(Way(b, p), Way(b, p)', Heard(from, b, p))
          /\ Way(p, b)' = Way(p, b) \o out[b] /\ out[b] \in Seq(Frame)
          /\ status'[b] = status[b]
          /\ Speaks(out[b], status[p][b], status'[p][b], Heard(from, b, p),
                    Given("reject")', Given("accept")')
      BY <1>5, <2>1, TurnHeeds
    <3>2. Courteous(Way(b, p), status[b][p], status[p][b]) /\ Way(b, p) \in Seq(Frame)
          /\ Courteous(Way(p, b), status[p][b], status[b][p]) /\ Way(p, b) \in Seq(Frame)
      BY <1>2, <1>5, <2>0, <2>1
    <3>3. /\ Heard(from, b, p) # "friend_decline"
          /\ Heard(from, b, p) = "friend_accept" => status[b][p] = "friend"
      <4>1. /\ Courteous(Way(b, p)', status[b][p], status'[p][b])
            /\ Heard(from, b, p) # "friend_decline"
            /\ Heard(from, b, p) = "friend_accept" => status[b][p] = "friend"
        BY <3>1, <3>2, CourteousHearing
      <4> QED
        BY <4>1
    <3>4. Courteous(Way(p, b) \o out[b], status'[p][b], status[b][p])
      BY <3>1, <3>2, <3>3, CourteousSpeaking
    <3> QED
      BY <2>1, <3>1, <3>4
  <2>2. CASE b = p
    <3>1. /\ Heed(Way(a, p), Way(a, p)', Heard(from, a, p))
          /\ status'[a] = status[a]
          /\ Speaks(out[a], status[p][a], status'[p][a], Heard(from, a, p),
                    Given("reject")', Given("accept")')
      BY <1>5, <2>2, TurnHeeds
    <3>2. Courteous(Way(a, p), status[a][p], status[p][a]) /\ Way(a, p) \in Seq(Frame)
      BY <1>2, <1>5, <2>0, <2>2
    <3>3. Courteous(Way(a, p)', status[a][p], status'[p][a])
      BY <3>1, <3>2, CourteousHearing
    <3> QED
      BY <2>2, <3>1, <3>3
  <2>3. CASE a # p /\ b # p
    <3>1. Way(a, b)' = Way(a, b) /\ status'[a] = status[a] /\ status'[b] = status[b]
      BY <1>5, <2>3, TurnSpares
    <3> QED
      BY <1>2, <1>5, <3>1
  <2> QED
    BY <2>1, <2>2, <2>3
<1>6. CASE Turns
  <2>1. PICK p \in Peers : \E out \in [Peers -> Seq(Frame)], from \in SUBSET Peers : Turn(p, out, from)
    BY <1>6 DEF Turns
  <2>2. PICK out \in [Peers -> Seq(Frame)], from \in SUBSET Peers : Turn(p, out, from)
    BY <2>1
  <2> QED
    BY <1>5, <2>2
<1> QED
  BY <1>3, <1>4, <1>6

\* Before the first command nothing is on its way.
LEMMA InitWays == Init => \A p, q \in Peers : Way(p, q) = <<>> /\ connections[p] = {}
<1> SUFFICES ASSUME Init, NEW p \in Peers, NEW q \in Peers
             PROVE  Way(p, q) = <<>> /\ connections[p] = {}
  OBVIOUS
<1>1. wire[p][q] = <<>> /\ queued[p][q] = <<>> /\ connections[p] = {}
  BY DEF Init
<1>2. Frames(<<>>) = <<>>
  BY DEF Frames
<1>3. <<>> \o <<>> = <<>>
  BY EmptySeq, ConcatNothing
<1> QED
  BY <1>1, <1>2, <1>3 DEF Way

\* Friends and strangers alike to each other at the start are courteous.
LEMMA InitCourtesy == Init => Courtesy
<1> SUFFICES ASSUME Init PROVE Courtesy
  OBVIOUS
<1>1. \A p, q \in Peers : Way(p, q) = <<>>
  BY InitWays
<1>2. \A p, q \in Peers : status[p][q] = "friend" => status[q][p] = "friend"
  <2>1. PICK met \in [Links -> {"unknown", "stranger", "friend"}] :
          status = [p \in Peers |-> [q \in Peers |->
                      IF Linked(p, q) THEN met[{p, q}] ELSE "unknown"]]
    BY DEF Init
  <2> SUFFICES ASSUME NEW p \in Peers, NEW q \in Peers, status[p][q] = "friend"
               PROVE  status[q][p] = "friend"
    OBVIOUS
  <2>2. {p, q} = {q, p}
    OBVIOUS
  <2>3. Linked(p, q) /\ met[{p, q}] = "friend"
    BY <2>1
  <2>4. Linked(q, p)
    BY <2>2, <2>3 DEF Linked
  <2>5. status[q][p] = met[{q, p}]
    BY <2>1, <2>4
  <2> QED
    BY <2>2, <2>3, <2>5
<1> QED
  BY <1>1, <1>2 DEF Courtesy, Courteous, HasType

\* Always courteous.
LEMMA AlwaysCourteous == Spec => []Courtesy
<1>1. TypeOK /\ QueuedOnlyForUnreachable /\ Connected /\ Courtesy /\ [Next]_vars => Courtesy'
  BY NextCourtesy
<1> QED
  BY <1>1, InitCourtesy, Typing, QueueFlushed, AlwaysConnected, PTL DEF Spec

\* What the invariant says of friendships.
LEMMA CourtesyBacks == TypeOK /\ Courtesy => FriendshipBacked
<1> SUFFICES ASSUME TypeOK, Courtesy, Calm, NEW p \in Peers, NEW q \in Peers,
                    status[p][q] = "friend", status[q][p] # "friend"
             PROVE  OnItsWay(p, q, "friend_accept")
  BY DEF FriendshipBacked
<1>1. HasType(Way(p, q), "friend_accept")
  BY DEF Courtesy, Courteous
<1>2. wire[p][q] \in Seq(Frame) /\ Frames(queued[p][q]) \in Seq(Frame)
  BY StageTypes
<1>3. HasType(wire[p][q], "friend_accept") \/ HasType(Frames(queued[p][q]), "friend_accept")
  BY <1>1, <1>2, AmongParts DEF Way
<1>4. /\ DOMAIN wire[p][q] = 1..Len(wire[p][q])
      /\ DOMAIN Frames(queued[p][q]) = 1..Len(Frames(queued[p][q]))
  BY <1>2
<1> QED
  BY <1>3, <1>4 DEF HasType, OnItsWay, Announces

\* While nobody rejects and no link breaks, a friendship only one side knows of
\* has its friend_accept on the way to the other: no order of requests,
\* acceptances and connections leaves a peer a friend in vain
\* (Core.accept_friend, _become_friends, _handle_body).
THEOREM Backed == Spec => []FriendshipBacked
BY AlwaysCourteous, Typing, CourtesyBacks, PTL

-----------------------------------------------------------------------------
(***************************************************************************)
(* No text is lost.                                                        *)
(***************************************************************************)

\* p's text n for q is read, on its way or waiting for q's friendship.
Traced(p, n, q) ==
    n \in Members(inbox[q][p]) \cup Carried(Way(p, q)) \cup Members(pendingAuto[p][q])

EveryTextTraced ==
    Calm => \A p \in Peers : \A n \in 1..Len(history[p]) : Traced(p, n, history[p][n].to)

\* What is on the way to a peer that is no friend does not begin with a text
\* or a peer list.
LEMMA CourteousHead ==
    ASSUME NEW line \in Seq(Frame), line # <<>>, NEW mine, NEW theirs,
           Courteous(line, mine, theirs), Head(line).type \in {"text", "peer_list"}
    PROVE  theirs = "friend"
<1>1. 1 \in 1..Len(line) /\ Head(line) = line[1]
  BY TailParts
<1>2. 1..(1 - 1) = {}
  OBVIOUS
<1> QED
  BY <1>1, <1>2 DEF Courteous

\* Reading a frame takes no text from a line but the one read.
LEMMA CarriedHead ==
    ASSUME NEW line \in Seq(Frame), line # <<>>, NEW n \in Carried(line)
    PROVE  n \in Carried(Tail(line)) \/ (Head(line).type = "text" /\ n = Head(line).text)
<1>1. /\ Tail(line) \in Seq(Frame) /\ Head(line) = line[1]
      /\ \A i \in 1..Len(line) :
            i = 1 \/ (i - 1 \in 1..Len(Tail(line)) /\ line[i] = Tail(line)[i - 1])
  BY TailParts
<1>2. /\ DOMAIN line = 1..Len(line) /\ DOMAIN Tail(line) = 1..Len(Tail(line))
  BY <1>1
<1>3. PICK i \in 1..Len(line) : line[i].type = "text" /\ n = line[i].text
  BY <1>2 DEF Carried
<1>4. CASE i = 1
  BY <1>1, <1>3, <1>4
<1>5. CASE i # 1
  BY <1>1, <1>2, <1>3, <1>5 DEF Carried
<1> QED
  BY <1>4, <1>5

\* Every step keeps the trace of every text.
LEMMA NextTraced ==
    TypeOK /\ QueuedOnlyForUnreachable /\ Connected /\ Courtesy /\ EveryTextTraced /\ [Next]_vars
        => EveryTextTraced'
<1> SUFFICES ASSUME TypeOK, QueuedOnlyForUnreachable, Connected, Courtesy, EveryTextTraced,
                    [Next]_vars, ~Given("reject")', breaks' = 0,
                    NEW a \in Peers, NEW n \in 1..Len(history'[a])
             PROVE  n \in Members(inbox'[history'[a][n].to][a])
                            \cup Carried(Way(a, history[a][n].to)')
                            \cup Members(pendingAuto'[a][history'[a][n].to])
  BY DEF EveryTextTraced, Calm, Traced
<1>1. breaks = 0 /\ ~Given("reject")
  <2>1. ~Given("reject")
    BY GivenStays DEF Commands
  <2> QED
    BY <2>1, NextBreaks
<1>2. /\ Working
      /\ \A p, q \in Peers : p # q => Courteous(Way(p, q), status[p][q], status[q][p])
      /\ \A p \in Peers : \A m \in 1..Len(history[p]) : Traced(p, m, history[p][m].to)
  BY <1>1 DEF Working, Courtesy, EveryTextTraced, Calm
<1>3. Turns \/ UNCHANGED vars
  BY <1>2, NextTurns
<1>4. PICK b \in Peers : b = history'[a][n].to /\ b # a
  <2>1. history' \in [Peers -> Seq(HistoryEntry)] /\ Connected'
    BY NextTypeOK, NextConnected DEF TypeOK
  <2>2. history'[a][n] \in HistoryEntry /\ history'[a][n].to # a
    BY <2>1 DEF Connected
  <2> QED
    BY <2>2 DEF HistoryEntry
<1>5. Way(a, b) \in Seq(Frame)
  BY <1>4, WayType
<1>6. CASE UNCHANGED vars
  <2>1. Traced(a, n, b) /\ Way(a, b)' = Way(a, b)
    BY <1>2, <1>4, <1>6 DEF vars, Way
  <2>2. n \in Members(inbox'[b][a]) \cup Carried(Way(a, b)') \cup Members(pendingAuto'[a][b])
    BY <1>6, <2>1 DEF vars, Traced
  <2> QED
    BY <1>4, <2>2 DEF Way
<1>7. ASSUME NEW p \in Peers, NEW out \in [Peers -> Seq(Frame)], NEW from \in SUBSET Peers,
             Turn(p, out, from)
      PROVE  n \in Members(inbox'[b][a]) \cup Carried(Way(a, b)') \cup Members(pendingAuto'[a][b])
  <2>1. OthersRest(p) /\ TextsMove(p, out) /\ ReadsMove(p, from)
    BY <1>7 DEF Turn
  <2>2. CASE a = p
    <3>1. Way(a, b)' = Way(a, b) \o out[b] /\ out[b] \in Seq(Frame)
      BY <1>4, <1>7, <2>2, TurnHeeds
    <3>2. Carried(Way(a, b)') = Carried(Way(a, b)) \cup Carried(out[b])
      BY <1>5, <3>1, CarriedConcat
    <3>3. inbox'[b] = inbox[b]
      BY <1>4, <2>1, <2>2 DEF OthersRest
    <3>4. \/ n \in 1..Len(history[a]) /\ history[a][n].to = b
          \/ n \in Carried(out[b]) \cup Members(pendingAuto'[a][b])
      BY <1>4, <2>1, <2>2 DEF TextsMove
    <3>5. Members(pendingAuto[a][b]) \subseteq Carried(out[b]) \cup Members(pendingAuto'[a][b])
      BY <1>4, <2>1, <2>2 DEF TextsMove
    <3>6. CASE n \in 1..Len(history[a]) /\ history[a][n].to = b
      <4>1. Traced(a, n, b)
        BY <1>2, <3>6
      <4> QED
        BY <3>2, <3>3, <3>5, <4>1 DEF Traced
    <3> QED
      BY <3>2, <3>4, <3>6
  <2>3. CASE a # p
    <3>1. history'[a] = history[a] /\ pendingAuto'[a] = pendingAuto[a]
      BY <2>1, <2>3 DEF OthersRest
    <3>2. Traced(a, n, b)
      BY <1>2, <1>4, <3>1
    <3>3. CASE b # p
      <4>1. Way(a, b)' = Way(a, b) /\ inbox'[b] = inbox[b]
        BY <1>4, <1>7, <2>1, <2>3, <3>3, TurnSpares DEF OthersRest
      <4> QED
        BY <3>1, <3>2, <4>1 DEF Traced
    <3>4. CASE b = p
      <4>1. Heed(Way(a, b), Way(a, b)', Heard(from, a, b))
        BY <1>7, <2>3, <3>4, TurnHeeds
      <4>2. Members(inbox[b][a]) \subseteq Members(inbox'[b][a])
        BY <2>1, <3>4 DEF ReadsMove
      <4>3. CASE a \in from
        <5>1. /\ Way(a, b) # <<>>
              /\ Way(a, b)' = Tail(Way(a, b))
          BY <1>4, <1>7, <2>3, <3>4, <4>3 DEF Turn, WaysMove
        <5>2. ASSUME Head(Way(a, b)).type = "text"
              PROVE  Head(Way(a, b)).text \in Members(inbox'[b][a])
          <6>1. Courteous(Way(a, b), status[a][b], status[b][a])
            BY <1>2, <1>4
          <6>2. status[b][a] = "friend"
            BY <1>5, <5>1, <5>2, <6>1, CourteousHead
          <6> QED
            BY <2>1, <3>4, <4>3, <5>2, <6>2 DEF ReadsMove
        <5>3. \A m \in Carried(Way(a, b)) :
                 m \in Carried(Way(a, b)') \/ m \in Members(inbox'[b][a])
          BY <1>5, <5>1, <5>2, CarriedHead
        <5> QED
          BY <3>1, <3>2, <4>2, <5>3 DEF Traced
      <4>4. CASE a \notin from
        <5>1. Way(a, b)' = Way(a, b)
          BY <1>4, <1>7, <2>3, <3>4, <4>4 DEF Turn, WaysMove
        <5> QED
          BY <3>1, <3>2, <4>2, <5>1 DEF Traced
      <4> QED
        BY <4>3, <4>4
    <3> QED
      BY <3>3, <3>4
  <2> QED
    BY <2>2, <2>3
<1>8. CASE Turns
  <2>1. PICK p \in Peers : \E out \in [Peers -> Seq(Frame)], from \in SUBSET Peers : Turn(p, out, from)
    BY <1>8 DEF Turns
  <2>2. PICK out \in [Peers -> Seq(Frame)], from \in SUBSET Peers : Turn(p, out, from)
    BY <2>1
  <2>3. n \in Members(inbox'[b][a]) \cup Carried(Way(a, b)') \cup Members(pendingAuto'[a][b])
    BY <1>7, <2>2
  <2> QED
    BY <1>4, <2>3 DEF Way
<1> QED
  BY <1>3, <1>6, <1>8

\* A text traced is in one of the four places.
LEMMA TracedPlaces == TypeOK /\ EveryTextTraced => NothingLost
<1> SUFFICES ASSUME TypeOK, EveryTextTraced, Calm, NEW p \in Peers, NEW n \in DOMAIN history[p]
             PROVE  LET q == history[p][n].to
                    IN  n \in Members(inbox[q][p]) \cup Carried(wire[p][q])
                              \cup Carried(Frames(queued[p][q])) \cup Members(pendingAuto[p][q])
  BY DEF NothingLost
<1> DEFINE q == history[p][n].to
<1>1. history[p] \in Seq(HistoryEntry)
  BY DEF TypeOK
<1>2. n \in 1..Len(history[p]) /\ history[p][n] \in HistoryEntry
  BY <1>1
<1>3. q \in Peers
  BY <1>2 DEF HistoryEntry
<1>4. Traced(p, n, q)
  BY <1>2 DEF EveryTextTraced
<1> HIDE DEF q
<1>5. wire[p][q] \in Seq(Frame) /\ Frames(queued[p][q]) \in Seq(Frame)
  BY <1>3, StageTypes
<1>6. Carried(Way(p, q)) = Carried(wire[p][q]) \cup Carried(Frames(queued[p][q]))
  BY <1>5, CarriedConcat DEF Way
<1>7. n \in Members(inbox[q][p]) \cup Carried(wire[p][q])
            \cup Carried(Frames(queued[p][q])) \cup Members(pendingAuto[p][q])
  BY <1>4, <1>6 DEF Traced
<1> QED
  BY <1>7 DEF q

\* While nobody rejects and no link breaks, each text written for q is read by
\* q, on its way, in the queue or waiting for q's friendship: a receiver that
\* is not yet a friend discards none (Core.send_text, _flush_pending_auto,
\* _handle_body).
THEOREM Lossless == Spec => []NothingLost
<1>1. Init => EveryTextTraced
  BY DEF Init, EveryTextTraced
<1>2. TypeOK /\ QueuedOnlyForUnreachable /\ Connected /\ Courtesy /\ EveryTextTraced /\ [Next]_vars
          => EveryTextTraced'
  BY NextTraced
<1>3. TypeOK /\ EveryTextTraced => NothingLost
  BY TracedPlaces
<1> QED
  BY <1>1, <1>2, <1>3, Typing, QueueFlushed, AlwaysConnected, AlwaysCourteous, PTL DEF Spec

-----------------------------------------------------------------------------
(***************************************************************************)
(* A hub introduces its friends to each other.                             *)
(***************************************************************************)

\* Whoever is connected to a friend knows its other friends or will read of
\* them.
Introductions ==
    Calm => \A h, p, q \in Peers :
        h # p /\ p # q /\ status[h][p] = "friend" /\ status[h][q] = "friend"
          /\ p \in connections[h]
            => status[p][q] # "unknown" \/ Lists(Way(h, p), q)

\* Every step keeps the introductions.
LEMMA NextIntroductions ==
    TypeOK /\ QueuedOnlyForUnreachable /\ Connected /\ Courtesy /\ Introductions /\ [Next]_vars
        => Introductions'
<1> SUFFICES ASSUME TypeOK, QueuedOnlyForUnreachable, Connected, Courtesy, Introductions,
                    [Next]_vars, ~Given("reject")', breaks' = 0,
                    NEW h \in Peers, NEW p \in Peers, NEW q \in Peers, h # p, p # q,
                    status'[h][p] = "friend", status'[h][q] = "friend",
                    p \in connections'[h]
             PROVE  status'[p][q] # "unknown" \/ Lists(Way(h, p)', q)
  BY DEF Introductions, Calm
<1>1. breaks = 0 /\ ~Given("reject")
  <2>1. ~Given("reject")
    BY GivenStays DEF Commands
  <2> QED
    BY <2>1, NextBreaks
<1>2. /\ Working
      /\ Courteous(Way(h, p), status[h][p], status[p][h])
      /\ status[h][p] = "friend" /\ status[h][q] = "friend" /\ p \in connections[h]
            => status[p][q] # "unknown" \/ Lists(Way(h, p), q)
  BY <1>1 DEF Working, Courtesy, Introductions, Calm
<1>3. Turns \/ UNCHANGED vars
  BY <1>2, NextTurns
<1>4. Way(h, p) \in Seq(Frame)
  BY WayType
<1>5. CASE UNCHANGED vars
  BY <1>2, <1>5 DEF vars, Way
<1>6. ASSUME NEW x \in Peers, NEW out \in [Peers -> Seq(Frame)], NEW from \in SUBSET Peers,
             Turn(x, out, from)
      PROVE  status'[p][q] # "unknown" \/ Lists(Way(h, p)', q)
  <2>1. OthersRest(x) /\ ReadsMove(x, from) /\ Introduces(x, out)
    BY <1>6 DEF Turn
  <2>2. CASE h = x
    <3>1. Way(h, p)' = Way(h, p) \o out[p] /\ out[p] \in Seq(Frame) /\ status'[p] = status[p]
      BY <1>6, <2>2, TurnHeeds
    <3>2. Lists(Way(h, p)', q) <=> Lists(Way(h, p), q) \/ Lists(out[p], q)
      BY <1>4, <3>1, AmongParts
    <3>3. \/ status[h][p] = "friend" /\ status[h][q] = "friend" /\ p \in connections[h]
          \/ Lists(out[p], q)
      BY <2>1, <2>2 DEF Introduces
    <3> QED
      BY <1>2, <3>1, <3>2, <3>3
  <2>3. CASE h # x
    <3>1. status'[h] = status[h] /\ connections'[h] = connections[h]
      BY <2>1, <2>3 DEF OthersRest
    <3>2. status[p][q] # "unknown" \/ Lists(Way(h, p), q)
      BY <1>2, <3>1
    <3>3. CASE p # x
      <4>1. Way(h, p)' = Way(h, p) /\ status'[p] = status[p]
        BY <1>6, <2>3, <3>3, TurnSpares
      <4> QED
        BY <3>2, <4>1
    <3>4. CASE p = x /\ h \notin from
      <4>1. Way(h, p)' = Way(h, p)
        BY <1>6, <2>3, <3>4 DEF Turn, WaysMove
      <4>2. status[p][q] # "unknown" => status'[p][q] # "unknown"
        BY <2>1, <3>4 DEF ReadsMove
      <4> QED
        BY <3>2, <4>1, <4>2
    <3>5. CASE p = x /\ h \in from
      <4>1. Way(h, p)' = Tail(Way(h, p)) /\ Way(h, p) # <<>>
        BY <1>6, <2>3, <3>5 DEF Turn, WaysMove
      <4>2. status[p][q] # "unknown" => status'[p][q] # "unknown"
        BY <2>1, <3>5 DEF ReadsMove
      <4>3. CASE Lists(Way(h, p), q)
        <5>1. /\ Head(Way(h, p)) = Way(h, p)[1]
              /\ \A i \in 1..Len(Way(h, p)) :
                    i = 1 \/ (i - 1 \in 1..Len(Tail(Way(h, p)))
                              /\ Way(h, p)[i] = Tail(Way(h, p))[i - 1])
          BY <1>4, <4>1, TailParts
        <5>2. PICK i \in 1..Len(Way(h, p)) :
                  Way(h, p)[i].type = "peer_list" /\ q \in Way(h, p)[i].peers
          BY <4>3 DEF Lists
        <5>3. CASE i = 1
          <6>1. Head(Way(h, p)).type = "peer_list" /\ q \in Head(Way(h, p)).peers
            BY <5>1, <5>2, <5>3
          <6>2. status[p][h] = "friend"
            BY <1>2, <1>4, <4>1, <6>1, CourteousHead
          <6> QED
            BY <2>1, <3>5, <6>1, <6>2 DEF ReadsMove
        <5>4. CASE i # 1
          <6>1. Lists(Tail(Way(h, p)), q)
            BY <5>1, <5>2, <5>4 DEF Lists
          <6> QED
            BY <4>1, <6>1
        <5> QED
          BY <5>3, <5>4
      <4> QED
        BY <3>2, <4>2, <4>3
    <3> QED
      BY <3>3, <3>4, <3>5
  <2> QED
    BY <2>2, <2>3
<1>7. CASE Turns
  <2>1. PICK x \in Peers : \E out \in [Peers -> Seq(Frame)], from \in SUBSET Peers : Turn(x, out, from)
    BY <1>7 DEF Turns
  <2>2. PICK out \in [Peers -> Seq(Frame)], from \in SUBSET Peers : Turn(x, out, from)
    BY <2>1
  <2> QED
    BY <1>6, <2>2
<1> QED
  BY <1>3, <1>5, <1>7

\* With nothing more on the wire, the introduction was read.
LEMMA IntroductionsRead ==
    TypeOK /\ QueuedOnlyForUnreachable /\ Connected /\ Introductions => HubIntroduces
<1> SUFFICES ASSUME TypeOK, QueuedOnlyForUnreachable, Connected, Introductions, Calm,
                    NEW h \in Peers, NEW p \in Peers, NEW q \in Peers, p # q,
                    {p, q} \subseteq Friends(h), p \in connections[h], wire[h][p] = <<>>
             PROVE  status[p][q] # "unknown"
  BY DEF HubIntroduces
<1>1. h # p
  BY DEF Connected
<1>2. queued[h][p] = <<>>
  BY DEF QueuedOnlyForUnreachable
<1>3. Frames(<<>>) = <<>> /\ <<>> \o <<>> = <<>>
  <2>1. Frames(<<>>) = <<>>
    BY DEF Frames
  <2> QED
    BY <2>1, EmptySeq, ConcatNothing
<1>4. Way(h, p) = <<>>
  BY <1>2, <1>3 DEF Way
<1>5. ~Lists(Way(h, p), q)
  BY <1>4 DEF Lists
<1>6. status[h][p] = "friend" /\ status[h][q] = "friend"
  BY DEF Friends
<1> QED
  BY <1>1, <1>5, <1>6 DEF Introductions

\* While nobody rejects and no link breaks, friends of a common friend learn
\* each other's keys from it, whoever came first (Core._send_peer_list,
\* _become_friends, _on_peer_change).
THEOREM HubTells == Spec => []HubIntroduces
<1>1. Init => Introductions
  BY InitWays DEF Introductions
<1>2. TypeOK /\ QueuedOnlyForUnreachable /\ Connected /\ Courtesy /\ Introductions /\ [Next]_vars
          => Introductions'
  BY NextIntroductions
<1>3. TypeOK /\ QueuedOnlyForUnreachable /\ Connected /\ Introductions => HubIntroduces
  BY IntroductionsRead
<1> QED
  BY <1>1, <1>2, <1>3, Typing, QueueFlushed, AlwaysConnected, AlwaysCourteous, PTL DEF Spec

-----------------------------------------------------------------------------
(***************************************************************************)
(* A block is heard: no link breaks and nobody accepts by hand.            *)
(***************************************************************************)

\* What is on the way to a blocked peer ends with the rejection: a friend will
\* read one, and no request or acceptance comes after the last.
Rebuffed(line, mine, theirs) ==
    mine = "blocked" =>
        /\ theirs = "friend" => HasType(line, "friend_decline")
        /\ \A i \in 1..Len(line) : line[i].type \in {"friend_request", "friend_accept"} =>
              \E j \in (i + 1)..Len(line) : line[j].type = "friend_decline"

Rebuffs ==
    breaks = 0 /\ ~Given("accept") =>
        \A p, q \in Peers : p # q => Rebuffed(Way(p, q), status[p][q], status[q][p])

\* More said to a peer ends with a rejection if it is blocked.
LEMMA RebuffedSpeaking ==
    ASSUME NEW line \in Seq(Frame), NEW out \in Seq(Frame), NEW mine, NEW mine2, NEW theirs,
           NEW heard, NEW rejecting, NEW accepting,
           Rebuffed(line, mine, theirs), Speaks(out, mine, mine2, heard, rejecting, accepting)
    PROVE  Rebuffed(line \o out, mine2, theirs)
<1> DEFINE all == line \o out
<1>1. HasType(all, "friend_decline") <=> HasType(line, "friend_decline") \/ HasType(out, "friend_decline")
  BY AmongParts
<1>2. /\ Len(line) \in Nat /\ Len(out) \in Nat /\ Len(all) = Len(line) + Len(out)
      /\ \A i \in 1..Len(line) : i \in 1..Len(all) /\ all[i] = line[i]
      /\ \A i \in 1..Len(out) : Len(line) + i \in 1..Len(all) /\ all[Len(line) + i] = out[i]
      /\ \A i \in 1..Len(all) : i \in 1..Len(line) \/ (i > Len(line) /\ i - Len(line) \in 1..Len(out)
                                                       /\ all[i] = out[i - Len(line)])
  BY Parts
<1> HIDE DEF all
<1>3. SUFFICES ASSUME mine2 = "blocked"
               PROVE  /\ theirs = "friend" => HasType(all, "friend_decline")
                      /\ \A i \in 1..Len(all) : all[i].type \in {"friend_request", "friend_accept"} =>
                            \E j \in (i + 1)..Len(all) : all[j].type = "friend_decline"
  BY DEF Rebuffed, all
<1>4. CASE out = <<Control("friend_decline")>>
  <2>1. Len(out) = 1 /\ out[1].type = "friend_decline"
    BY <1>4 DEF Control
  <2>2. HasType(out, "friend_decline")
    BY <2>1 DEF HasType
  <2>3. Len(line) + 1 = Len(all) /\ all[Len(all)].type = "friend_decline"
    BY <1>2, <2>1
  <2>4. ASSUME NEW i \in 1..Len(all), all[i].type \in {"friend_request", "friend_accept"}
        PROVE  Len(all) \in (i + 1)..Len(all)
    <3>1. i # Len(all)
      BY <2>3, <2>4
    <3> QED
      BY <1>2, <3>1
  <2> QED
    BY <1>1, <2>2, <2>3, <2>4
<1>5. CASE mine = "blocked" /\ ForFriends(out)
  <2>1. theirs = "friend" => HasType(all, "friend_decline")
    BY <1>1, <1>5 DEF Rebuffed
  <2>2. ASSUME NEW i \in 1..Len(all), all[i].type \in {"friend_request", "friend_accept"}
        PROVE  \E j \in (i + 1)..Len(all) : all[j].type = "friend_decline"
    <3>1. i \in 1..Len(line)
      BY <1>2, <1>5, <2>2 DEF ForFriends
    <3>2. line[i].type \in {"friend_request", "friend_accept"}
      BY <1>2, <2>2, <3>1
    <3>3. PICK j \in (i + 1)..Len(line) : line[j].type = "friend_decline"
      BY <1>5, <3>1, <3>2 DEF Rebuffed
    <3>4. j \in 1..Len(line) /\ j \in (i + 1)..Len(all)
      BY <1>2, <3>1
    <3>5. all[j].type = "friend_decline"
      BY <1>2, <3>3, <3>4
    <3> QED
      BY <3>4, <3>5
  <2> QED
    BY <2>1, <2>2
<1> QED
  BY <1>3, <1>4, <1>5 DEF Speaks

\* Reading on, a blocked peer comes to the rejection.
LEMMA RebuffedHearing ==
    ASSUME NEW line \in Seq(Frame), NEW rest, NEW out, NEW mine, NEW theirs, NEW theirs2,
           NEW heard, NEW rejecting, NEW accepting,
           Rebuffed(line, mine, theirs), Speaks(out, theirs, theirs2, heard, rejecting, accepting),
           ~accepting, Heed(line, rest, heard)
    PROVE  Rebuffed(rest, mine, theirs2)
<1>1. CASE rest = line /\ heard = "nothing"
  <2>1. theirs2 = "friend" => theirs = "friend"
    BY <1>1 DEF Speaks
  <2> QED
    BY <1>1, <2>1 DEF Rebuffed
<1>2. CASE line # <<>> /\ rest = Tail(line) /\ heard = Head(line).type
  <2>1. /\ rest \in Seq(Frame) /\ Len(line) \in Nat /\ Len(rest) \in Nat
        /\ Len(line) = Len(rest) + 1
        /\ Head(line) = line[1] /\ 1 \in 1..Len(line)
        /\ \A i \in 1..Len(rest) : i + 1 \in 1..Len(line) /\ rest[i] = line[i + 1]
        /\ \A i \in 1..Len(line) :
              i = 1 \/ (i - 1 \in 1..Len(rest) /\ line[i] = rest[i - 1])
    BY <1>2, TailParts
  <2>2. SUFFICES ASSUME mine = "blocked"
                 PROVE  /\ theirs2 = "friend" => HasType(rest, "friend_decline")
                        /\ \A i \in 1..Len(rest) : rest[i].type \in {"friend_request", "friend_accept"} =>
                              \E j \in (i + 1)..Len(rest) : rest[j].type = "friend_decline"
    BY DEF Rebuffed
  <2>3. ASSUME NEW i \in 1..Len(line), line[i].type \in {"friend_request", "friend_accept"}
        PROVE  \E j \in i..Len(rest) : rest[j].type = "friend_decline"
    <3>1. PICK j \in (i + 1)..Len(line) : line[j].type = "friend_decline"
      BY <2>2, <2>3 DEF Rebuffed
    <3>2. j \in 1..Len(line) /\ j # 1 /\ j - 1 \in i..Len(rest)
      BY <2>1
    <3>3. rest[j - 1].type = "friend_decline"
      BY <2>1, <3>1, <3>2
    <3> QED
      BY <3>2, <3>3
  <2>4. ASSUME theirs2 = "friend" PROVE HasType(rest, "friend_decline")
    <3>1. CASE theirs = "friend"
      <4>1. PICK i \in 1..Len(line) : line[i].type = "friend_decline"
        BY <2>2, <3>1 DEF Rebuffed, HasType
      <4>2. heard # "friend_decline"
        BY <2>4 DEF Speaks
      <4>3. i # 1
        BY <1>2, <2>1, <4>1, <4>2
      <4> QED
        BY <2>1, <4>1, <4>3 DEF HasType
    <3>2. CASE theirs # "friend"
      <4>1. heard \in {"friend_request", "friend_accept"}
        BY <2>4, <3>2 DEF Speaks
      <4>2. PICK j \in 1..Len(rest) : rest[j].type = "friend_decline"
        BY <1>2, <2>1, <2>3, <4>1
      <4> QED
        BY <4>2 DEF HasType
    <3> QED
      BY <3>1, <3>2
  <2>5. ASSUME NEW i \in 1..Len(rest), rest[i].type \in {"friend_request", "friend_accept"}
        PROVE  \E j \in (i + 1)..Len(rest) : rest[j].type = "friend_decline"
    <3>1. i + 1 \in 1..Len(line) /\ line[i + 1].type \in {"friend_request", "friend_accept"}
      BY <2>1, <2>5
    <3> QED
      BY <2>3, <3>1
  <2> QED
    BY <2>4, <2>5
<1> QED
  BY <1>1, <1>2 DEF Heed

\* Every step leaves the rejections where they will be heard.
LEMMA NextRebuffs ==
    TypeOK /\ QueuedOnlyForUnreachable /\ Connected /\ Rebuffs /\ [Next]_vars => Rebuffs'
<1> SUFFICES ASSUME TypeOK, QueuedOnlyForUnreachable, Connected, Rebuffs, [Next]_vars,
                    ~Given("accept")', breaks' = 0
             PROVE  \A a, b \in Peers : a # b =>
                        Rebuffed(Way(a, b)', status'[a][b], status'[b][a])
  BY DEF Rebuffs
<1>1. breaks = 0 /\ ~Given("accept")
  <2>1. ~Given("accept")
    BY GivenStays DEF Commands
  <2> QED
    BY <2>1, NextBreaks
<1>2. Working /\ \A a, b \in Peers : a # b => Rebuffed(Way(a, b), status[a][b], status[b][a])
  BY <1>1 DEF Working, Rebuffs
<1>3. Turns \/ UNCHANGED vars
  BY <1>2, NextTurns
<1>4. CASE UNCHANGED vars
  BY <1>2, <1>4 DEF vars, Way
<1>5. ASSUME NEW p \in Peers, NEW out, NEW from, Turn(p, out, from),
             NEW a \in Peers, NEW b \in Peers, a # b
      PROVE  Rebuffed(Way(a, b)', status'[a][b], status'[b][a])
  <2>0. Way(a, b) \in Seq(Frame) /\ Rebuffed(Way(a, b), status[a][b], status[b][a])
    BY <1>2, <1>5, WayType
  <2>1. CASE a = p
    <3>1. /\ Way(p, b)' = Way(p, b) \o out[b] /\ out[b] \in Seq(Frame)
          /\ status'[b] = status[b]
          /\ Speaks(out[b], status[p][b], status'[p][b], Heard(from, b, p),
                    Given("reject")', Given("accept")')
      BY <1>5, <2>1, TurnHeeds
    <3>2. Way(p, b) \in Seq(Frame) /\ Rebuffed(Way(p, b), status[p][b], status[b][p])
      BY <2>0, <2>1
    <3>3. Rebuffed(Way(p, b) \o out[b], status'[p][b], status[b][p])
      BY <3>1, <3>2, RebuffedSpeaking
    <3> QED
      BY <2>1, <3>1, <3>3
  <2>2. CASE b = p
    <3>1. /\ Heed(Way(a, p), Way(a, p)', Heard(from, a, p))
          /\ status'[a] = status[a]
          /\ Speaks(out[a], status[p][a], status'[p][a], Heard(from, a, p),
                    Given("reject")', Given("accept")')
      BY <1>5, <2>2, TurnHeeds
    <3>2. Way(a, p) \in Seq(Frame) /\ Rebuffed(Way(a, p), status[a][p], status[p][a])
      BY <2>0, <2>2
    <3>3. Rebuffed(Way(a, p)', status[a][p], status'[p][a])
      BY <3>1, <3>2, RebuffedHearing
    <3> QED
      BY <2>2, <3>1, <3>3
  <2>3. CASE a # p /\ b # p
    <3>1. Way(a, b)' = Way(a, b) /\ status'[a] = status[a] /\ status'[b] = status[b]
      BY <1>5, <2>3, TurnSpares
    <3> QED
      BY <2>0, <3>1
  <2> QED
    BY <2>1, <2>2, <2>3
<1>6. CASE Turns
  <2>1. PICK p \in Peers : \E out \in [Peers -> Seq(Frame)], from \in SUBSET Peers : Turn(p, out, from)
    BY <1>6 DEF Turns
  <2>2. PICK out \in [Peers -> Seq(Frame)], from \in SUBSET Peers : Turn(p, out, from)
    BY <2>1
  <2> QED
    BY <1>5, <2>2
<1> QED
  BY <1>3, <1>4, <1>6

\* With nothing more on its way, the rejection was read.
LEMMA RebuffsHeard == Rebuffs => BlockIsHeard
<1> SUFFICES ASSUME Rebuffs, breaks = 0, ~Given("accept"), NEW p \in Peers, NEW q \in Peers,
                    status[p][q] = "blocked", wire[p][q] = <<>>, queued[p][q] = <<>>,
                    status[q][p] = "friend"
             PROVE  FALSE
  BY DEF BlockIsHeard
<1>1. Frames(<<>>) = <<>> /\ <<>> \o <<>> = <<>>
  <2>1. Frames(<<>>) = <<>>
    BY DEF Frames
  <2> QED
    BY <2>1, EmptySeq, ConcatNothing
<1>2. Way(p, q) = <<>> /\ p # q
  BY <1>1 DEF Way
<1>3. HasType(Way(p, q), "friend_decline")
  BY <1>2 DEF Rebuffs, Rebuffed
<1> QED
  BY <1>2, <1>3 DEF HasType

\* While no link breaks and nobody accepts by hand, a peer that blocks another,
\* with nothing more on its way, is no friend of the one it blocks: the
\* friend_decline comes last and undoes what the other made of a friend_accept
\* sent before (Core.decline_friend, _handle_body).
THEOREM BlockHeard == Spec => []BlockIsHeard
<1>1. Init => Rebuffs
  <2> SUFFICES ASSUME Init, NEW p \in Peers, NEW q \in Peers PROVE status[p][q] # "blocked"
    BY DEF Rebuffs, Rebuffed
  <2>1. PICK met \in [Links -> {"unknown", "stranger", "friend"}] :
          status = [x \in Peers |-> [y \in Peers |->
                      IF Linked(x, y) THEN met[{x, y}] ELSE "unknown"]]
    BY DEF Init
  <2>2. CASE Linked(p, q)
    <3>1. status[p][q] = met[{p, q}] /\ {p, q} \in Links
      BY <2>1, <2>2 DEF Linked
    <3> QED
      BY <3>1
  <2>3. CASE ~Linked(p, q)
    BY <2>1, <2>3
  <2> QED
    BY <2>2, <2>3
<1>2. TypeOK /\ QueuedOnlyForUnreachable /\ Connected /\ Rebuffs /\ [Next]_vars => Rebuffs'
  BY NextRebuffs
<1>3. Rebuffs => BlockIsHeard
  BY RebuffsHeard
<1> QED
  BY <1>1, <1>2, <1>3, Typing, QueueFlushed, AlwaysConnected, PTL DEF Spec
=============================================================================
