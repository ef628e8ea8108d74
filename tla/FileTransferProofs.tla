-------------------------- MODULE FileTransferProofs --------------------------
(***************************************************************************)
(* Theorems about FileTransfer, for all files, numbers of chunks and       *)
(* bounds: the types, consent, the two histories, and that a transfer is   *)
(* in hand while nothing goes wrong.                                       *)
(*                                                                         *)
(* All follow from one inductive invariant, FileInvariant.  Its heart is   *)
(* that an offer is in one place at a time: not made, on its way, in a     *)
(* dialog, or answered (OfferedOnce).  A file is then answered once, so    *)
(* that what an ack or a chunk on its way says of the answer cannot be     *)
(* overtaken by another answer (AcksTell, ChunksTell).                     *)
(***************************************************************************)
EXTENDS FileTransfer, SequenceTheorems, TLAPS

Frame == FileFrame \cup DeclineFrame

Answered(f) == "receiving" \in shown[f] \/ "rejected" \in shown[f]
Agreed(f) == "receiving" \in shown[f] /\ "rejected" \notin shown[f]

\* Frames that say of the receiver's answers what its history says.
TrueAck ==
    {x \in Frame : x.type = "file_ack" =>
        /\ x.n = 1 => "receiving" \in shown[x.file]
        /\ x.n # 1 => "rejected" \in shown[x.file]}
AgreedChunk ==
    {x \in Frame : x.type = "file_chunk" => x.n \in 1..Chunks /\ Agreed(x.file)}

AcksTell == wire["receiver"] \in Seq(TrueAck) /\ queued["receiver"] \in Seq(TrueAck)
ChunksTell ==
    /\ wire["sender"] \in Seq(AgreedChunk)
    /\ queued["sender"] \in Seq(AgreedChunk)
    /\ \A f \in DOMAIN parts : Agreed(f)

\* At most one element of frames is metadata of f.
Once(frames, f) ==
    \A i, j \in DOMAIN frames :
        /\ frames[i].type = "file_meta" /\ frames[i].file = f
        /\ frames[j].type = "file_meta" /\ frames[j].file = f
        => i = j
MetaIn(frames, f) == Holds(frames, "file_meta", f)
Asked(f) == \E i \in DOMAIN dialogs : dialogs[i] = f
AskedOnce(f) ==
    \A i, j \in DOMAIN dialogs : dialogs[i] = f /\ dialogs[j] = f => i = j

\* Metadata of f on its way, once.
Afoot(f) == MetaIn(wire["sender"], f) \/ MetaIn(queued["sender"], f)
Placed(f) ==
    /\ Once(wire["sender"], f) /\ Once(queued["sender"], f)
    /\ ~(MetaIn(wire["sender"], f) /\ MetaIn(queued["sender"], f))

\* An offer is in one place at a time.
OfferedOnce ==
    \A f \in Files :
        /\ Placed(f) /\ AskedOnce(f)
        /\ Asked(f) => ~Afoot(f)
        /\ Answered(f) \/ offer[f] = "none" => ~Afoot(f) /\ ~Asked(f)
        /\ Answered(f) => offer[f] # "none"
        /\ ~("receiving" \in shown[f] /\ "rejected" \in shown[f])

\* What the sender keeps in memory of an offer, and its history.
OffersOpen == \A f \in fileOut : offer[f] = "waiting"

\* While nothing went wrong.
CalmState ==
    Calm => /\ friend = [p \in Peers |-> TRUE]
            /\ \A p \in Peers : wire[p] \in Seq(FileFrame) /\ queued[p] \in Seq(FileFrame)
            /\ connected # {} => live
            /\ \A f \in Files : offer[f] # "none" /\ answer[f] = "none" => f \in fileOut

FileInvariant ==
    /\ TypeOK
    /\ AcksTell
    /\ ChunksTell
    /\ OfferedOnce
    /\ OffersOpen
    /\ HistoriesAgree
    /\ CalmState
    /\ TransferInHand

-----------------------------------------------------------------------------
(***************************************************************************)
(* Sequences of frames.                                                    *)
(***************************************************************************)

Has(frames, x) == \E i \in DOMAIN frames : frames[i] = x

\* What is in two sequences one after the other is in one of them.
LEMMA HoldsConcat ==
    ASSUME NEW S, NEW s \in Seq(S), NEW t \in Seq(S)
    PROVE  /\ s \o t \in Seq(S)
           /\ \A x : Has(s \o t, x) <=> Has(s, x) \/ Has(t, x)
           /\ \A type, f :
                 Holds(s \o t, type, f) <=> Holds(s, type, f) \/ Holds(t, type, f)
<1> DEFINE u == s \o t
<1>1. u \in Seq(S) /\ Len(u) = Len(s) + Len(t)
  OBVIOUS
<1>2. \A i \in 1..Len(s) : u[i] = s[i] /\ i \in 1..Len(u)
  OBVIOUS
<1>3. \A i \in 1..Len(t) : u[i + Len(s)] = t[i] /\ i + Len(s) \in 1..Len(u)
  OBVIOUS
<1>4. \A i \in 1..Len(u) : i \in 1..Len(s) \/ (i - Len(s) \in 1..Len(t) /\ u[i] = t[i - Len(s)])
  OBVIOUS
<1>5. DOMAIN u = 1..Len(u) /\ DOMAIN s = 1..Len(s) /\ DOMAIN t = 1..Len(t)
  BY <1>1
<1> HIDE DEF u
<1>6. \A x : Has(u, x) <=> Has(s, x) \/ Has(t, x)
  BY <1>2, <1>3, <1>4, <1>5 DEF Has
<1>7. \A type, f : Holds(u, type, f) <=> Holds(s, type, f) \/ Holds(t, type, f)
  BY <1>2, <1>3, <1>4, <1>5 DEF Holds
<1>8. QED
  BY <1>1, <1>6, <1>7 DEF u

\* Reading the first frame takes it away and leaves the others.
LEMMA HoldsTail ==
    ASSUME NEW S, NEW s \in Seq(S), s # <<>>
    PROVE  /\ Tail(s) \in Seq(S) /\ Head(s) \in S
           /\ \A x : Has(s, x) <=> Head(s) = x \/ Has(Tail(s), x)
           /\ \A type, f : Holds(s, type, f)
                 <=> (Head(s).type = type /\ Head(s).file = f) \/ Holds(Tail(s), type, f)
<1> DEFINE u == Tail(s)
<1>1. u \in Seq(S) /\ Len(u) = Len(s) - 1 /\ Len(s) \in Nat \ {0} /\ Head(s) \in S /\ Head(s) = s[1]
  OBVIOUS
<1>2. \A i \in 1..Len(u) : u[i] = s[i + 1] /\ i + 1 \in 1..Len(s)
  OBVIOUS
<1>3. \A i \in 1..Len(s) : i = 1 \/ (i - 1 \in 1..Len(u) /\ s[i] = u[i - 1])
  BY <1>1, <1>2
<1>4. DOMAIN u = 1..Len(u) /\ DOMAIN s = 1..Len(s) /\ 1 \in 1..Len(s)
  BY <1>1
<1> HIDE DEF u
<1>5. \A x : Has(s, x) <=> Head(s) = x \/ Has(u, x)
  BY <1>1, <1>2, <1>3, <1>4 DEF Has
<1>6. \A type, f : Holds(s, type, f)
                 <=> (Head(s).type = type /\ Head(s).file = f) \/ Holds(u, type, f)
  <2> SUFFICES ASSUME NEW type, NEW f
               PROVE  Holds(s, type, f)
                 <=> (Head(s).type = type /\ Head(s).file = f) \/ Holds(u, type, f)
    OBVIOUS
  <2>1. ASSUME Holds(s, type, f)
        PROVE  (Head(s).type = type /\ Head(s).file = f) \/ Holds(u, type, f)
    <3>1. PICK i \in DOMAIN s : s[i].type = type /\ s[i].file = f
      BY <2>1 DEF Holds
    <3>2. CASE i = 1
      BY <3>1, <3>2, <1>1
    <3>3. CASE i # 1
      <4>1. i - 1 \in DOMAIN u /\ s[i] = u[i - 1]
        BY <3>3, <1>3, <1>4
      <4>2. QED
        BY <3>1, <4>1 DEF Holds
    <3>4. QED
      BY <3>2, <3>3
  <2>2. ASSUME Head(s).type = type, Head(s).file = f
        PROVE  Holds(s, type, f)
    BY <2>2, <1>1, <1>4 DEF Holds
  <2>3. ASSUME Holds(u, type, f)
        PROVE  Holds(s, type, f)
    <3>1. PICK i \in DOMAIN u : u[i].type = type /\ u[i].file = f
      BY <2>3 DEF Holds
    <3>2. i + 1 \in DOMAIN s /\ u[i] = s[i + 1]
      BY <1>2, <1>4
    <3>3. QED
      BY <3>1, <3>2 DEF Holds
  <2>4. QED
    BY <2>1, <2>2, <2>3
<1>7. QED
  BY <1>1, <1>5, <1>6 DEF u

\* Metadata that is in one of two sequences only, and once, is once in both.
LEMMA OnceConcat ==
    ASSUME NEW S, NEW s \in Seq(S), NEW t \in Seq(S), NEW f,
           Once(s, f), Once(t, f), ~(MetaIn(s, f) /\ MetaIn(t, f))
    PROVE  Once(s \o t, f)
<1> DEFINE u == s \o t
<1>1. u \in Seq(S) /\ Len(u) = Len(s) + Len(t)
  OBVIOUS
<1>2. \A i \in 1..Len(s) : u[i] = s[i]
  OBVIOUS
<1>3. \A i \in 1..Len(u) : i \in 1..Len(s) \/ (i - Len(s) \in 1..Len(t) /\ u[i] = t[i - Len(s)])
  OBVIOUS
<1>4. DOMAIN u = 1..Len(u) /\ DOMAIN s = 1..Len(s) /\ DOMAIN t = 1..Len(t)
      /\ Len(s) \in Nat /\ Len(t) \in Nat
  BY <1>1
<1> HIDE DEF u
<1>5. ASSUME NEW i \in DOMAIN u, NEW j \in DOMAIN u,
             u[i].type = "file_meta", u[i].file = f, u[j].type = "file_meta", u[j].file = f
      PROVE  i = j
  <2>1. CASE i \in 1..Len(s) /\ j \in 1..Len(s)
    BY <2>1, <1>2, <1>4, <1>5 DEF Once
  <2>2. CASE i \notin 1..Len(s) /\ j \notin 1..Len(s)
    <3>1. i - Len(s) \in DOMAIN t /\ j - Len(s) \in DOMAIN t
          /\ u[i] = t[i - Len(s)] /\ u[j] = t[j - Len(s)]
      BY <2>2, <1>3, <1>4
    <3>2. i - Len(s) = j - Len(s)
      BY <3>1, <1>5 DEF Once
    <3>3. QED
      BY <3>2, <1>1, <1>4
  <2>3. CASE i \in 1..Len(s) /\ j \notin 1..Len(s)
    <3>1. MetaIn(s, f)
      BY <2>3, <1>2, <1>4, <1>5 DEF MetaIn, Holds
    <3>2. MetaIn(t, f)
      BY <2>3, <1>3, <1>4, <1>5 DEF MetaIn, Holds
    <3>3. QED
      BY <3>1, <3>2
  <2>4. CASE i \notin 1..Len(s) /\ j \in 1..Len(s)
    <3>1. MetaIn(s, f)
      BY <2>4, <1>2, <1>4, <1>5 DEF MetaIn, Holds
    <3>2. MetaIn(t, f)
      BY <2>4, <1>3, <1>4, <1>5 DEF MetaIn, Holds
    <3>3. QED
      BY <3>1, <3>2
  <2>5. QED
    BY <2>1, <2>2, <2>3, <2>4
<1>6. Once(u, f)
  BY <1>5 DEF Once
<1>7. QED
  BY <1>6 DEF u

\* Metadata read is not there any more, and the rest is still there once.
LEMMA OnceTail ==
    ASSUME NEW S, NEW s \in Seq(S), s # <<>>, NEW f, Once(s, f)
    PROVE  /\ Once(Tail(s), f)
           /\ Head(s).type = "file_meta" /\ Head(s).file = f => ~MetaIn(Tail(s), f)
<1> DEFINE u == Tail(s)
<1>1. u \in Seq(S) /\ Len(u) = Len(s) - 1 /\ Len(s) \in Nat \ {0} /\ Head(s) = s[1]
  OBVIOUS
<1>2. \A i \in 1..Len(u) : u[i] = s[i + 1] /\ i + 1 \in 1..Len(s)
  OBVIOUS
<1>3. DOMAIN u = 1..Len(u) /\ DOMAIN s = 1..Len(s) /\ 1 \in 1..Len(s)
  BY <1>1
<1> HIDE DEF u
<1>4. Once(u, f)
  <2> SUFFICES ASSUME NEW i \in DOMAIN u, NEW j \in DOMAIN u,
                      u[i].type = "file_meta", u[i].file = f,
                      u[j].type = "file_meta", u[j].file = f
               PROVE  i = j
    BY DEF Once
  <2>1. s[i + 1] = u[i] /\ s[j + 1] = u[j] /\ i + 1 \in DOMAIN s /\ j + 1 \in DOMAIN s
    BY <1>2, <1>3
  <2>2. i + 1 = j + 1
    BY <2>1 DEF Once
  <2>3. QED
    BY <2>2, <1>3
<1>5. ASSUME Head(s).type = "file_meta", Head(s).file = f, MetaIn(u, f)
      PROVE  FALSE
  <2>1. PICK i \in DOMAIN u : u[i].type = "file_meta" /\ u[i].file = f
    BY <1>5 DEF MetaIn, Holds
  <2>2. s[i + 1] = u[i] /\ i + 1 \in DOMAIN s /\ i + 1 # 1
    BY <1>2, <1>3
  <2>3. QED
    BY <2>1, <2>2, <1>1, <1>3, <1>5 DEF Once
<1>6. QED
  BY <1>4, <1>5 DEF u

\* A larger set has more sequences.
LEMMA MoreFrames ==
    ASSUME NEW S, NEW T, S \subseteq T, NEW s \in Seq(S)
    PROVE  s \in Seq(T)
  OBVIOUS

\* The dialog that is answered was asked for, and is not open any more.
LEMMA DialogClosed ==
    ASSUME TypeOK, dialogs # <<>>,
           dialogs' = SubSeq(dialogs, 1, Len(dialogs) - 1)
    PROVE  /\ dialogs[Len(dialogs)] \in Files /\ dialogs' \in Seq(Files)
           /\ \A f : f = dialogs[Len(dialogs)] =>
                 Asked(f) /\ (AskedOnce(f) => ~Asked(f)')
           /\ \A f : Asked(f)' => Asked(f)
           /\ \A f : AskedOnce(f) => AskedOnce(f)'
<1> DEFINE n == Len(dialogs)
<1>1. n \in Nat \ {0} /\ DOMAIN dialogs = 1..n /\ dialogs \in Seq(Files)
  BY DEF TypeOK
<1>2. dialogs' \in Seq(Files) /\ Len(dialogs') = n - 1 /\ DOMAIN dialogs' = 1..(n - 1)
      /\ \A i \in 1..(n - 1) : dialogs'[i] = dialogs[i]
  <2>1. dialogs' = SubSeq(dialogs, 1, n - 1) /\ 1 \in 1..n + 1 /\ n - 1 \in 0..n
    BY <1>1
  <2>2. QED
    BY <2>1, <1>1, SubSeqProperties
<1> HIDE DEF n
<1>3. \A i \in 1..(n - 1) : i \in 1..n /\ i # n
  BY <1>1
<1>4. n \in 1..n /\ dialogs[n] \in Files
  BY <1>1
<1>5. \A f : Asked(f)' => Asked(f)
  BY <1>1, <1>2, <1>3 DEF Asked
<1>6. \A f : AskedOnce(f) => AskedOnce(f)'
  BY <1>1, <1>2, <1>3 DEF AskedOnce
<1>7. ASSUME NEW f, f = dialogs[n], AskedOnce(f), Asked(f)'
      PROVE  FALSE
  <2> PICK i \in DOMAIN dialogs' : dialogs'[i] = f
    BY <1>7 DEF Asked
  <2>1. i \in 1..n /\ i # n /\ dialogs[i] = dialogs[n]
    BY <1>2, <1>3, <1>7
  <2>2. QED
    BY <2>1, <1>1, <1>4, <1>7 DEF AskedOnce
<1>8. \A f : f = dialogs[n] => Asked(f)
  BY <1>1, <1>4 DEF Asked
<1>9. QED
  BY <1>2, <1>4, <1>5, <1>6, <1>7, <1>8 DEF n
-----------------------------------------------------------------------------
(***************************************************************************)
(* What a step does to the frames under way.                               *)
(***************************************************************************)

Under(q, x) == Has(wire[q], x) \/ Has(queued[q], x)

\* Nothing comes under way but the frames new of p, and no offer doubles.
Flow(p, new) ==
    /\ \A q \in Peers : \A S :
          wire[q] \in Seq(S) /\ queued[q] \in Seq(S) /\ (q = p => new \in Seq(S))
             => wire'[q] \in Seq(S) /\ queued'[q] \in Seq(S)
    /\ wire' = [q \in Peers |-> wire'[q]] /\ queued' = [q \in Peers |-> queued'[q]]
    /\ \A f : Placed(f) /\ (p = "sender" => ~MetaIn(new, f))
                 => Placed(f)' /\ (Afoot(f)' => Afoot(f))

\* Nothing that was under way is lost but x of q.
Lossless(q, x) ==
    \A r \in Peers : \A y : Under(r, y) => Under(r, y)' \/ (r = q /\ y = x)

\* The sender and the receiver are each other's peers.
LEMMA Peering == Peer("sender") = "receiver" /\ Peer("receiver") = "sender"
  BY DEF Peer, Peers

\* The links and the queues hold frames.
LEMMA Frames ==
    ASSUME TypeOK
    PROVE  \A q \in Peers : wire[q] \in Seq(Frame) /\ queued[q] \in Seq(Frame)
  BY DEF TypeOK, Frame

\* An empty sequence holds nothing.
LEMMA NoFrames ==
    /\ \A x : ~Has(<<>>, x)
    /\ \A f : ~MetaIn(<<>>, f) /\ Once(<<>>, f)
    /\ \A S : <<>> \in Seq(S)
  BY DEF Has, MetaIn, Holds, Once

\* What dispatching does to one sequence that gets the frames new.
LEMMA Appended ==
    ASSUME NEW s \in Seq(Frame), NEW new \in Seq(Frame)
    PROVE  /\ \A S : s \in Seq(S) /\ new \in Seq(S) => s \o new \in Seq(S)
           /\ \A f : ~MetaIn(new, f) /\ Once(s, f) => Once(s \o new, f)
           /\ \A f : ~MetaIn(s, f) /\ Once(s, f) /\ Once(new, f) => Once(s \o new, f)
           /\ \A f : MetaIn(s \o new, f) <=> MetaIn(s, f) \/ MetaIn(new, f)
           /\ \A x : Has(s \o new, x) <=> Has(s, x) \/ Has(new, x)
<1>1. \A S : s \in Seq(S) /\ new \in Seq(S) => s \o new \in Seq(S)
  OBVIOUS
<1>2. ASSUME NEW f, ~MetaIn(new, f), Once(s, f)
      PROVE  Once(s \o new, f)
  <2>1. Once(new, f)
    BY <1>2 DEF MetaIn, Holds, Once
  <2>2. QED
    BY <2>1, <1>2, OnceConcat
<1>3. ASSUME NEW f, ~MetaIn(s, f), Once(s, f), Once(new, f)
      PROVE  Once(s \o new, f)
  BY <1>3, OnceConcat
<1>4. /\ \A f : MetaIn(s \o new, f) <=> MetaIn(s, f) \/ MetaIn(new, f)
      /\ \A x : Has(s \o new, x) <=> Has(s, x) \/ Has(new, x)
  BY HoldsConcat DEF MetaIn
<1>5. QED
  BY <1>1, <1>2, <1>3, <1>4

\* _dispatch, with w on the wire before: the frames go one way, if at all.
LEMMA Sent ==
    ASSUME NEW p \in Peers, NEW w \in [Peers -> Seq(Frame)], TypeOK,
           NEW new \in Seq(Frame), Dispatch(w, p, new)
    PROVE  /\ wire' = [q \in Peers |-> wire'[q]] /\ queued' = [q \in Peers |-> queued'[q]]
           /\ \A q \in Peers : q # p => wire'[q] = w[q] /\ queued'[q] = queued[q]
           /\ \/ wire'[p] = w[p] \o new /\ queued'[p] = queued[p]
              \/ wire'[p] = w[p] /\ queued'[p] = queued[p] \o new
              \/ /\ wire'[p] = w[p] /\ queued'[p] = queued[p]
                 /\ p \in connected /\ ~live
<1>1. queued \in [Peers -> Seq(Frame)]
  BY DEF TypeOK, Frame
<1>2. CASE p \in connected /\ live
  <2>1. wire' = [w EXCEPT ![p] = @ \o new] /\ queued' = queued
    BY <1>2 DEF Dispatch
  <2>2. QED
    BY <1>1, <2>1
<1>3. CASE p \in connected /\ ~live
  <2>1. wire' = w /\ queued' = queued
    BY <1>3 DEF Dispatch
  <2>2. QED
    BY <1>1, <1>3, <2>1
<1>4. CASE p \notin connected
  <2>1. wire' = w /\ queued' = [queued EXCEPT ![p] = @ \o new]
    BY <1>4 DEF Dispatch
  <2>2. QED
    BY <1>1, <2>1
<1>5. QED
  BY <1>2, <1>3, <1>4

\* Frames that are sent get to the link or the queue of p, all of them if the
\* link is live, and to nothing else.
LEMMA DispatchFlow ==
    ASSUME TypeOK, NEW p \in Peers, NEW new \in Seq(Frame), Dispatch(wire, p, new)
    PROVE  /\ Flow(p, new)
           /\ \A f : p = "sender" /\ Placed(f) /\ ~Afoot(f) /\ Once(new, f)
                        => Placed(f)'
           /\ (p \in connected => live) =>
                 /\ \A r \in Peers : \A y : Under(r, y) => Under(r, y)'
                 /\ \A x : Has(new, x) => Under(p, x)'
<1>1. wire \in [Peers -> Seq(Frame)] /\ queued \in [Peers -> Seq(Frame)]
  BY DEF TypeOK, Frame
<1>2. /\ wire' = [q \in Peers |-> wire'[q]] /\ queued' = [q \in Peers |-> queued'[q]]
      /\ \A q \in Peers : q # p => wire'[q] = wire[q] /\ queued'[q] = queued[q]
  BY <1>1, Sent
<1>3. \/ wire'[p] = wire[p] \o new /\ queued'[p] = queued[p]
      \/ wire'[p] = wire[p] /\ queued'[p] = queued[p] \o new
      \/ /\ wire'[p] = wire[p] /\ queued'[p] = queued[p]
         /\ p \in connected /\ ~live
  BY <1>1, Sent
<1>4. wire[p] \in Seq(Frame) /\ queued[p] \in Seq(Frame)
  BY <1>1
<1> DEFINE W == wire[p] \o new
           Q == queued[p] \o new
<1>5. /\ \A S : wire[p] \in Seq(S) /\ new \in Seq(S) => W \in Seq(S)
      /\ \A f : ~MetaIn(new, f) /\ Once(wire[p], f) => Once(W, f)
      /\ \A f : ~MetaIn(wire[p], f) /\ Once(wire[p], f) /\ Once(new, f) => Once(W, f)
      /\ \A f : MetaIn(W, f) <=> MetaIn(wire[p], f) \/ MetaIn(new, f)
      /\ \A x : Has(W, x) <=> Has(wire[p], x) \/ Has(new, x)
  BY <1>4, Appended
<1>6. /\ \A S : queued[p] \in Seq(S) /\ new \in Seq(S) => Q \in Seq(S)
      /\ \A f : ~MetaIn(new, f) /\ Once(queued[p], f) => Once(Q, f)
      /\ \A f : ~MetaIn(queued[p], f) /\ Once(queued[p], f) /\ Once(new, f) => Once(Q, f)
      /\ \A f : MetaIn(Q, f) <=> MetaIn(queued[p], f) \/ MetaIn(new, f)
      /\ \A x : Has(Q, x) <=> Has(queued[p], x) \/ Has(new, x)
  BY <1>4, Appended
<1>7. \/ wire'[p] = W /\ queued'[p] = queued[p]
      \/ wire'[p] = wire[p] /\ queued'[p] = Q
      \/ /\ wire'[p] = wire[p] /\ queued'[p] = queued[p]
         /\ p \in connected /\ ~live
  BY <1>3
<1> HIDE DEF W, Q
<1>8. \A q \in Peers : \A S :
          wire[q] \in Seq(S) /\ queued[q] \in Seq(S) /\ (q = p => new \in Seq(S))
             => wire'[q] \in Seq(S) /\ queued'[q] \in Seq(S)
  <2> SUFFICES ASSUME NEW q \in Peers, NEW S,
                      wire[q] \in Seq(S), queued[q] \in Seq(S), q = p => new \in Seq(S)
               PROVE  wire'[q] \in Seq(S) /\ queued'[q] \in Seq(S)
    OBVIOUS
  <2>1. CASE q # p
    BY <2>1, <1>2
  <2>2. CASE q = p
    BY <2>2, <1>5, <1>6, <1>7
  <2>3. QED
    BY <2>1, <2>2
<1>9. ASSUME p # "sender"
      PROVE  wire'["sender"] = wire["sender"] /\ queued'["sender"] = queued["sender"]
  BY <1>2, <1>9 DEF Peers
<1>10. ASSUME NEW f, Placed(f), p = "sender" => ~MetaIn(new, f)
       PROVE  Placed(f)' /\ (Afoot(f)' => Afoot(f))
  <2>1. CASE p # "sender"
    BY <2>1, <1>9, <1>10 DEF Placed, Afoot
  <2>2. CASE p = "sender"
    BY <2>2, <1>5, <1>6, <1>7, <1>10 DEF Placed, Afoot
  <2>3. QED
    BY <2>1, <2>2
<1>11. ASSUME NEW f, p = "sender", Placed(f), ~Afoot(f), Once(new, f)
       PROVE  Placed(f)'
  BY <1>5, <1>6, <1>7, <1>11 DEF Placed, Afoot
<1>12. ASSUME p \in connected => live
       PROVE  /\ \A r \in Peers : \A y : Under(r, y) => Under(r, y)'
              /\ \A x : Has(new, x) => Under(p, x)'
  <2>1. \A x : (Under(p, x) => Under(p, x)') /\ (Has(new, x) => Under(p, x)')
    BY <1>5, <1>6, <1>7, <1>12 DEF Under
  <2>2. \A r \in Peers : r # p => \A y : Under(r, y) => Under(r, y)'
    BY <1>2 DEF Under
  <2>3. QED
    BY <2>1, <2>2
<1>13. Flow(p, new)
  <2>1. \A f : Placed(f) /\ (p = "sender" => ~MetaIn(new, f))
                 => Placed(f)' /\ (Afoot(f)' => Afoot(f))
    BY <1>10
  <2>2. QED
    BY <1>2, <1>8, <2>1 DEF Flow
<1>14. \A f : p = "sender" /\ Placed(f) /\ ~Afoot(f) /\ Once(new, f)
                => Placed(f)'
  BY <1>11
<1>15. (p \in connected => live) =>
                 /\ \A r \in Peers : \A y : Under(r, y) => Under(r, y)'
                 /\ \A x : Has(new, x) => Under(p, x)'
  BY <1>12
<1>16. QED
  BY <1>13, <1>14, <1>15

\* Reading the next frame takes it from the wire, and nothing else.
LEMMA Taken ==
    ASSUME TypeOK, NEW p \in Peers, wire[Peer(p)] # <<>>
    PROVE  LET q == Peer(p)
               x == Head(wire[Peer(p)])
           IN  /\ q \in Peers /\ q # p /\ x \in Frame
               /\ Consumed(p) \in [Peers -> Seq(Frame)]
               /\ Consumed(p)[q] = Tail(wire[q]) /\ Consumed(p)[p] = wire[p]
               /\ \A S : wire[q] \in Seq(S) => Tail(wire[q]) \in Seq(S) /\ x \in S
               /\ \A f : MetaIn(Tail(wire[q]), f) => MetaIn(wire[q], f)
               /\ \A f : Once(wire[q], f) => Once(Tail(wire[q]), f)
               /\ \A f : x.type = "file_meta" /\ x.file = f
                     => MetaIn(wire[q], f)
                        /\ (Once(wire[q], f) => ~MetaIn(Tail(wire[q]), f))
               /\ \A y : Has(wire[q], y) <=> x = y \/ Has(Tail(wire[q]), y)
<1> DEFINE q == Peer(p)
           s == wire[q]
<1>1. q \in Peers /\ q # p
  BY Peering DEF Peers
<1>2. wire \in [Peers -> Seq(Frame)]
  BY DEF TypeOK, Frame
<1>3. s \in Seq(Frame) /\ s # <<>>
  BY <1>1, <1>2
<1>4. Consumed(p) = [wire EXCEPT ![q] = Tail(s)]
  BY DEF Consumed
<1>5. Tail(s) \in Seq(Frame) /\ Head(s) \in Frame
  BY <1>3, HoldsTail
<1>6. /\ Consumed(p) \in [Peers -> Seq(Frame)]
      /\ Consumed(p)[q] = Tail(s) /\ Consumed(p)[p] = wire[p]
  BY <1>1, <1>2, <1>4, <1>5
<1> HIDE DEF s, q
<1>7. \A S : s \in Seq(S) => Tail(s) \in Seq(S) /\ Head(s) \in S
  BY <1>3, HoldsTail
<1>8. /\ \A f : MetaIn(s, f) <=> (Head(s).type = "file_meta" /\ Head(s).file = f)
                                 \/ MetaIn(Tail(s), f)
      /\ \A y : Has(s, y) <=> Head(s) = y \/ Has(Tail(s), y)
  BY <1>3, HoldsTail DEF MetaIn
<1>9. \A f : Once(s, f) =>
            /\ Once(Tail(s), f)
            /\ Head(s).type = "file_meta" /\ Head(s).file = f => ~MetaIn(Tail(s), f)
  BY <1>3, OnceTail
<1>10. QED
  BY <1>1, <1>5, <1>6, <1>7, <1>8, <1>9 DEF s, q

\* Reading a frame.
LEMMA ReadFlow ==
    ASSUME TypeOK, NEW p \in Peers, wire[Peer(p)] # <<>>,
           wire' = Consumed(p), queued' = queued
    PROVE  /\ Flow(p, <<>>)
           /\ Lossless(Peer(p), Head(wire[Peer(p)]))
           /\ \A f : p = "receiver" /\ Placed(f)
                        /\ Head(wire[Peer(p)]).type = "file_meta"
                        /\ Head(wire[Peer(p)]).file = f
                     => Afoot(f) /\ ~Afoot(f)'
<1> DEFINE q == Peer(p)
           x == Head(wire[q])
           s == wire[q]
<1>1. /\ q \in Peers /\ q # p /\ x \in Frame
      /\ Consumed(p) \in [Peers -> Seq(Frame)]
      /\ Consumed(p)[q] = Tail(s) /\ Consumed(p)[p] = wire[p]
      /\ \A S : s \in Seq(S) => Tail(s) \in Seq(S)
      /\ \A f : MetaIn(Tail(s), f) => MetaIn(s, f)
      /\ \A f : Once(s, f) => Once(Tail(s), f)
      /\ \A f : x.type = "file_meta" /\ x.file = f
             => MetaIn(s, f) /\ (Once(s, f) => ~MetaIn(Tail(s), f))
      /\ \A y : Has(s, y) <=> x = y \/ Has(Tail(s), y)
  BY Taken
<1>2. queued \in [Peers -> Seq(Frame)]
  BY DEF TypeOK, Frame
<1>3. wire' \in [Peers -> Seq(Frame)] /\ wire'[q] = Tail(s) /\ wire'[p] = wire[p]
  BY <1>1
<1>4. \A r \in Peers : r = p \/ r = q
  BY <1>1 DEF Peers
<1>5. p = "receiver" => q = "sender"
  BY Peering
<1>6. p = "sender" => q = "receiver"
  BY Peering
<1>7. wire[q] = s /\ p \in {"sender", "receiver"}
  BY DEF Peers
<1> HIDE DEF q, x, s
<1>8. \A r \in Peers : \A S :
          wire[r] \in Seq(S) /\ queued[r] \in Seq(S) /\ (r = p => <<>> \in Seq(S))
             => wire'[r] \in Seq(S) /\ queued'[r] \in Seq(S)
  BY <1>1, <1>3, <1>4, <1>7
<1>9. wire' = [r \in Peers |-> wire'[r]] /\ queued' = [r \in Peers |-> queued'[r]]
  BY <1>2, <1>3
<1>10. ASSUME NEW f, Placed(f)
       PROVE  Placed(f)' /\ (Afoot(f)' => Afoot(f))
  <2>1. wire'["sender"] = wire["sender"] \/ (q = "sender" /\ wire'["sender"] = Tail(s))
    BY <1>3, <1>5, <1>7
  <2>2. QED
    BY <2>1, <1>1, <1>7, <1>10 DEF Placed, Afoot
<1>11. \A f : Placed(f) => Placed(f)' /\ (Afoot(f)' => Afoot(f))
  BY <1>10
<1>12. Flow(p, <<>>)
  BY <1>8, <1>9, <1>11 DEF Flow
<1>13. \A r \in Peers : \A y : Under(r, y) => Under(r, y)' \/ (r = q /\ y = x)
  BY <1>1, <1>3, <1>4, <1>7 DEF Under
<1>14. ASSUME NEW f, p = "receiver", Placed(f), x.type = "file_meta", x.file = f
       PROVE  Afoot(f) /\ ~Afoot(f)'
  BY <1>1, <1>3, <1>5, <1>7, <1>14 DEF Placed, Afoot
<1>15. QED
  BY <1>12, <1>13, <1>14 DEF Lossless, q, x

\* Reading an ack and sending what it asks for, which holds no metadata.
LEMMA AnswerFlow ==
    ASSUME TypeOK, wire["receiver"] # <<>>, NEW new \in Seq(Frame),
           \A f : ~MetaIn(new, f),
           Dispatch(Consumed("sender"), "sender", new)
    PROVE  /\ Flow("sender", new)
           /\ ("sender" \in connected => live) =>
                 /\ Lossless("receiver", Head(wire["receiver"]))
                 /\ \A x : Has(new, x) => Under("sender", x)'
<1> DEFINE w == Consumed("sender")
           r == wire["receiver"]
           W == wire["sender"] \o new
           Q == queued["sender"] \o new
<1>1. /\ w \in [Peers -> Seq(Frame)]
      /\ w["receiver"] = Tail(r) /\ w["sender"] = wire["sender"]
      /\ \A S : r \in Seq(S) => Tail(r) \in Seq(S)
      /\ \A y : Has(r, y) <=> Head(r) = y \/ Has(Tail(r), y)
  BY Taken, Peering DEF Peers
<1>2. /\ wire' = [q \in Peers |-> wire'[q]] /\ queued' = [q \in Peers |-> queued'[q]]
      /\ wire'["receiver"] = Tail(r) /\ queued'["receiver"] = queued["receiver"]
  BY <1>1, Sent DEF Peers
<1>3. \/ wire'["sender"] = W /\ queued'["sender"] = queued["sender"]
      \/ wire'["sender"] = wire["sender"] /\ queued'["sender"] = Q
      \/ /\ wire'["sender"] = wire["sender"] /\ queued'["sender"] = queued["sender"]
         /\ "sender" \in connected /\ ~live
  BY <1>1, Sent DEF Peers
<1>4. wire["sender"] \in Seq(Frame) /\ queued["sender"] \in Seq(Frame)
  BY Frames DEF Peers
<1>5. /\ \A S : wire["sender"] \in Seq(S) /\ new \in Seq(S) => W \in Seq(S)
      /\ \A f : Once(wire["sender"], f) => Once(W, f)
      /\ \A f : MetaIn(W, f) => MetaIn(wire["sender"], f)
      /\ \A x : Has(W, x) <=> Has(wire["sender"], x) \/ Has(new, x)
  BY <1>4, Appended
<1>6. /\ \A S : queued["sender"] \in Seq(S) /\ new \in Seq(S) => Q \in Seq(S)
      /\ \A f : Once(queued["sender"], f) => Once(Q, f)
      /\ \A f : MetaIn(Q, f) => MetaIn(queued["sender"], f)
      /\ \A x : Has(Q, x) <=> Has(queued["sender"], x) \/ Has(new, x)
  BY <1>4, Appended
<1> HIDE DEF w, W, Q
<1>7. ASSUME NEW q \in Peers, NEW S, wire[q] \in Seq(S), queued[q] \in Seq(S),
             q = "sender" => new \in Seq(S)
      PROVE  wire'[q] \in Seq(S) /\ queued'[q] \in Seq(S)
  <2>1. CASE q = "sender"
    BY <2>1, <1>3, <1>5, <1>6, <1>7
  <2>2. CASE q = "receiver"
    BY <2>2, <1>1, <1>2, <1>7
  <2>3. QED
    BY <2>1, <2>2 DEF Peers
<1>8. ASSUME NEW f, Placed(f)
      PROVE  Placed(f)' /\ (Afoot(f)' => Afoot(f))
  BY <1>3, <1>5, <1>6, <1>8 DEF Placed, Afoot
<1>9. Flow("sender", new)
  <2>1. \A f : Placed(f) => Placed(f)' /\ (Afoot(f)' => Afoot(f))
    BY <1>8
  <2>2. \A q \in Peers : \A S :
          wire[q] \in Seq(S) /\ queued[q] \in Seq(S) /\ (q = "sender" => new \in Seq(S))
             => wire'[q] \in Seq(S) /\ queued'[q] \in Seq(S)
    BY <1>7
  <2>3. QED
    BY <1>2, <2>1, <2>2 DEF Flow
<1>10. ASSUME "sender" \in connected => live
       PROVE  /\ Lossless("receiver", Head(r))
              /\ \A x : Has(new, x) => Under("sender", x)'
  <2>1. \A x : (Under("sender", x) => Under("sender", x)')
             /\ (Has(new, x) => Under("sender", x)')
    BY <1>3, <1>5, <1>6, <1>10 DEF Under
  <2>2. \A x : Under("receiver", x) => Under("receiver", x)' \/ x = Head(r)
    BY <1>1, <1>2 DEF Under
  <2>3. QED
    BY <2>1, <2>2 DEF Lossless, Peers
<1>11. ("sender" \in connected => live) =>
                 /\ Lossless("receiver", Head(r))
                 /\ \A x : Has(new, x) => Under("sender", x)'
  BY <1>10
<1>12. QED
  BY <1>9, <1>11

\* The frames under way stay as they are.
LEMMA StillFlow ==
    ASSUME TypeOK, NEW p, wire' = wire, queued' = queued
    PROVE  Flow(p, <<>>) /\ \A r \in Peers : \A y : Under(r, y) => Under(r, y)'
<1>1. wire \in [Peers -> Seq(Frame)] /\ queued \in [Peers -> Seq(Frame)]
  BY DEF TypeOK, Frame
<1>2. wire' = [r \in Peers |-> wire'[r]] /\ queued' = [r \in Peers |-> queued'[r]]
  BY <1>1
<1>3. QED
  BY <1>2 DEF Flow, Under, Placed, Afoot

\* The end of a connection at p: what it has not read is gone.
LEMMA DropFlow ==
    ASSUME TypeOK, NEW p \in Peers, CloseEnd(p), queued' = queued
    PROVE  Flow(p, <<>>)
<1>1. wire \in [Peers -> Seq(Frame)] /\ queued \in [Peers -> Seq(Frame)]
  BY DEF TypeOK, Frame
<1>2. wire' = [q \in Peers |->
                 IF q = p /\ Peer(p) \in connected THEN wire[p] ELSE <<>>]
  BY DEF CloseEnd
<1>3. \A r \in Peers : wire'[r] = wire[r] \/ wire'[r] = <<>>
  BY <1>2
<1>4. wire' = [r \in Peers |-> wire'[r]] /\ queued' = [r \in Peers |-> queued'[r]]
  BY <1>1, <1>2
<1>5. \A r \in Peers : \A S :
          wire[r] \in Seq(S) /\ queued[r] \in Seq(S) /\ (r = p => <<>> \in Seq(S))
             => wire'[r] \in Seq(S) /\ queued'[r] \in Seq(S)
  BY <1>3, NoFrames
<1>6. wire'["sender"] = wire["sender"] \/ wire'["sender"] = <<>>
  BY <1>3 DEF Peers
<1>7. ASSUME NEW f, Placed(f)
      PROVE  Placed(f)' /\ (Afoot(f)' => Afoot(f))
  BY <1>6, <1>7, NoFrames DEF Placed, Afoot
<1>8. \A f : Placed(f) => Placed(f)' /\ (Afoot(f)' => Afoot(f))
  BY <1>7
<1>9. QED
  BY <1>4, <1>5, <1>8 DEF Flow

\* The queue is flushed to a new connection: an offer that was in it is now
\* on the wire.
LEMMA RegisterFlow ==
    ASSUME TypeOK, NEW p \in Peers,
           wire' = [wire EXCEPT ![p] = @ \o queued[p]],
           queued' = [queued EXCEPT ![p] = <<>>]
    PROVE  Flow(p, <<>>) /\ \A r \in Peers : \A y : Under(r, y) => Under(r, y)'
<1> DEFINE s == wire[p]
           t == queued[p]
<1>1. wire \in [Peers -> Seq(Frame)] /\ queued \in [Peers -> Seq(Frame)]
  BY DEF TypeOK, Frame
<1>2. s \in Seq(Frame) /\ t \in Seq(Frame)
  BY <1>1
<1>3. /\ wire' = [r \in Peers |-> wire'[r]] /\ queued' = [r \in Peers |-> queued'[r]]
      /\ wire'[p] = s \o t /\ queued'[p] = <<>>
      /\ \A r \in Peers : r # p => wire'[r] = wire[r] /\ queued'[r] = queued[r]
  BY <1>1
<1>4. /\ \A S : s \in Seq(S) /\ t \in Seq(S) => s \o t \in Seq(S)
      /\ \A f : MetaIn(s \o t, f) <=> MetaIn(s, f) \/ MetaIn(t, f)
      /\ \A x : Has(s \o t, x) <=> Has(s, x) \/ Has(t, x)
  BY <1>2, Appended
<1>5. \A f : Once(s, f) /\ Once(t, f) /\ ~(MetaIn(s, f) /\ MetaIn(t, f)) => Once(s \o t, f)
  BY <1>2, OnceConcat
<1>6. s = wire[p] /\ t = queued[p]
  OBVIOUS
<1> HIDE DEF s, t
<1>7. \A r \in Peers : \A S :
          wire[r] \in Seq(S) /\ queued[r] \in Seq(S) /\ (r = p => <<>> \in Seq(S))
             => wire'[r] \in Seq(S) /\ queued'[r] \in Seq(S)
  <2> SUFFICES ASSUME NEW r \in Peers, NEW S, wire[r] \in Seq(S), queued[r] \in Seq(S),
                      r = p => <<>> \in Seq(S)
               PROVE  wire'[r] \in Seq(S) /\ queued'[r] \in Seq(S)
    OBVIOUS
  <2>1. CASE r # p
    BY <2>1, <1>3
  <2>2. CASE r = p
    BY <2>2, <1>3, <1>4, <1>6
  <2>3. QED
    BY <2>1, <2>2
<1>8. ASSUME NEW f, Placed(f)
      PROVE  Placed(f)' /\ (Afoot(f)' => Afoot(f))
  <2>1. CASE p = "sender"
    BY <2>1, <1>3, <1>4, <1>5, <1>6, <1>8, NoFrames DEF Placed, Afoot
  <2>2. CASE p # "sender"
    <3>1. wire'["sender"] = wire["sender"] /\ queued'["sender"] = queued["sender"]
      BY <2>2, <1>3 DEF Peers
    <3>2. QED
      BY <3>1, <1>8 DEF Placed, Afoot
  <2>3. QED
    BY <2>1, <2>2
<1>9. \A f : Placed(f) => Placed(f)' /\ (Afoot(f)' => Afoot(f))
  BY <1>8
<1>10. Flow(p, <<>>)
  BY <1>3, <1>7, <1>9 DEF Flow
<1>11. \A r \in Peers : \A y : Under(r, y) => Under(r, y)'
  BY <1>3, <1>4, <1>6 DEF Under
<1>12. QED
  BY <1>10, <1>11

-----------------------------------------------------------------------------
(***************************************************************************)
(* What a flow of frames preserves.                                        *)
(***************************************************************************)

\* The frames under way keep their types.
LEMMA FlowTypes ==
    ASSUME TypeOK, NEW p, NEW new \in Seq(Frame), Flow(p, new)
    PROVE  wire' \in [Peers -> Seq(Frame)] /\ queued' \in [Peers -> Seq(Frame)]
<1>1. \A q \in Peers : wire[q] \in Seq(Frame) /\ queued[q] \in Seq(Frame)
  BY Frames
<1>2. \A q \in Peers : wire'[q] \in Seq(Frame) /\ queued'[q] \in Seq(Frame)
  BY <1>1 DEF Flow
<1>3. wire' = [q \in Peers |-> wire'[q]] /\ queued' = [q \in Peers |-> queued'[q]]
  BY DEF Flow
<1>4. QED
  BY <1>2, <1>3

\* What acks and chunks under way say stays true while the receiver's
\* answers stay.
LEMMA FlowTells ==
    ASSUME TypeOK, NEW p \in Peers, NEW new, Flow(p, new), AcksTell, ChunksTell,
           p = "receiver" => new \in Seq(TrueAck'),
           p = "sender" => new \in Seq(AgreedChunk'),
           \A f \in Files : /\ "receiving" \in shown[f] => "receiving" \in shown'[f]
                            /\ "rejected" \in shown[f] => "rejected" \in shown'[f]
                            /\ Agreed(f) => Agreed(f)',
           \A f \in DOMAIN parts' : Agreed(f)'
    PROVE  AcksTell' /\ ChunksTell'
<1>1. \A x \in Frame : x.type \in {"file_ack", "file_chunk"} => x.file \in Files
  BY DEF Frame, FileFrame, DeclineFrame
<1>2. TrueAck \subseteq TrueAck'
  BY <1>1 DEF TrueAck
<1>3. AgreedChunk \subseteq AgreedChunk'
  BY <1>1 DEF AgreedChunk
<1> DEFINE A == TrueAck'
           C == AgreedChunk'
<1>4. wire["receiver"] \in Seq(A) /\ queued["receiver"] \in Seq(A)
  BY <1>2, MoreFrames DEF AcksTell
<1>5. wire["sender"] \in Seq(C) /\ queued["sender"] \in Seq(C)
  BY <1>3, MoreFrames DEF ChunksTell
<1>6. (p = "receiver" => new \in Seq(A)) /\ (p = "sender" => new \in Seq(C))
  OBVIOUS
<1> HIDE DEF A, C
<1>7. wire'["receiver"] \in Seq(A) /\ queued'["receiver"] \in Seq(A)
  BY <1>4, <1>6 DEF Flow, Peers
<1>8. wire'["sender"] \in Seq(C) /\ queued'["sender"] \in Seq(C)
  BY <1>5, <1>6 DEF Flow, Peers
<1>9. QED
  BY <1>7, <1>8 DEF AcksTell, ChunksTell, A, C

\* Offers stay where they are while nothing but frames moves.
LEMMA FlowOffers ==
    ASSUME OfferedOnce, NEW p, NEW new, Flow(p, new),
           p = "sender" => \A f : ~MetaIn(new, f),
           dialogs' = dialogs,
           \A f \in Files : /\ "receiving" \in shown'[f] <=> "receiving" \in shown[f]
                            /\ "rejected" \in shown'[f] <=> "rejected" \in shown[f]
                            /\ offer'[f] = "none" <=> offer[f] = "none"
    PROVE  OfferedOnce'
<1> SUFFICES ASSUME NEW f \in Files
             PROVE  /\ Placed(f)' /\ AskedOnce(f)'
                    /\ Asked(f)' => ~Afoot(f)'
                    /\ Answered(f)' \/ offer'[f] = "none" => ~Afoot(f)' /\ ~Asked(f)'
                    /\ Answered(f)' => offer'[f] # "none"
                    /\ ~("receiving" \in shown'[f] /\ "rejected" \in shown'[f])
  BY DEF OfferedOnce
<1>1. Placed(f)' /\ (Afoot(f)' => Afoot(f))
  BY DEF Flow, OfferedOnce
<1>2. (Asked(f)' <=> Asked(f)) /\ (AskedOnce(f)' <=> AskedOnce(f))
  BY DEF Asked, AskedOnce
<1>3. Answered(f)' <=> Answered(f)
  BY DEF Answered
<1>4. QED
  BY <1>1, <1>2, <1>3 DEF OfferedOnce

\* An ack or a chunk is on its way exactly if it is under way.
LEMMA OnTheWay ==
    ASSUME TypeOK, NEW f
    PROVE  /\ OnItsWay("receiver", "file_ack", f)
                  <=> \E x : Under("receiver", x) /\ x.type = "file_ack" /\ x.file = f
           /\ \A i : ChunkInHand(f, i)
                  <=> \/ f \in DOMAIN parts /\ i \in parts[f]
                      \/ Under("sender", [type |-> "file_chunk", file |-> f, n |-> i])
<1>1. wire["sender"] \in Seq(Frame) /\ queued["sender"] \in Seq(Frame)
  BY Frames DEF Peers
<1> DEFINE frames == wire["sender"] \o queued["sender"]
<1>2. \A x : Has(frames, x) <=> Under("sender", x)
  BY <1>1, HoldsConcat DEF Under
<1>3. \A i : ChunkInHand(f, i)
                  <=> \/ f \in DOMAIN parts /\ i \in parts[f]
                      \/ Has(frames, [type |-> "file_chunk", file |-> f, n |-> i])
  BY DEF ChunkInHand, Has
<1> HIDE DEF frames
<1>4. OnItsWay("receiver", "file_ack", f)
                  <=> \E x : Under("receiver", x) /\ x.type = "file_ack" /\ x.file = f
  BY DEF OnItsWay, Holds, Under, Has
<1>5. QED
  BY <1>2, <1>3, <1>4

InHand(f) ==
    /\ f \in DOMAIN parts
    /\ \/ f \in fileOut /\ \E x : Under("receiver", x) /\ x.type = "file_ack" /\ x.file = f
       \/ \A i \in 1..Chunks :
             \/ i \in parts[f]
             \/ Under("sender", [type |-> "file_chunk", file |-> f, n |-> i])

AllInHand == Calm => \A f \in Files : Accepted(f) /\ ~Received(f) => InHand(f)

\* TransferInHand, said of frames under way.
LEMMA TransferInHands == TypeOK => (TransferInHand <=> AllInHand)
<1> SUFFICES ASSUME TypeOK
             PROVE  TransferInHand <=> AllInHand
  OBVIOUS
<1>1. ASSUME NEW f
      PROVE  InHand(f) <=>
                /\ f \in DOMAIN parts
                /\ \/ f \in fileOut /\ OnItsWay("receiver", "file_ack", f)
                   \/ \A i \in 1..Chunks : ChunkInHand(f, i)
  BY <1>1, OnTheWay DEF InHand
<1>2. QED
  BY <1>1 DEF TransferInHand, AllInHand

\* The same of the next state.
LEMMA TransferInHandsNext == TypeOK' => (TransferInHand' <=> AllInHand')
  BY TransferInHands, PTL

\* A transfer stays in hand while no chunk and no ack anyone waits for gets
\* lost.
LEMMA FlowTransfers ==
    ASSUME TypeOK, TypeOK', TransferInHand, Calm' => Calm,
           Calm' => \A r \in Peers : \A y : Under(r, y) =>
                       \/ Under(r, y)'
                       \/ y.type = "file_meta"
                       \/ y.type = "file_ack" /\ y.file \notin fileOut,
           fileOut \subseteq fileOut', parts' = parts,
           \A f \in Files : /\ "receiving" \in shown'[f] <=> "receiving" \in shown[f]
                            /\ "received" \in shown'[f] <=> "received" \in shown[f]
    PROVE  TransferInHand'
<1> SUFFICES ASSUME Calm', NEW f \in Files, Accepted(f)', ~Received(f)'
             PROVE  InHand(f)'
  BY TransferInHandsNext DEF AllInHand
<1>1. InHand(f)
  BY TransferInHands DEF AllInHand, Accepted, Received
<1>2. ASSUME NEW x, x.type = "file_ack" \/ x.type = "file_chunk",
             x.type = "file_ack" => x.file \in fileOut,
             NEW r \in Peers, Under(r, x)
      PROVE  Under(r, x)'
  BY <1>2
<1>3. CASE f \in fileOut /\ \E x : Under("receiver", x) /\ x.type = "file_ack" /\ x.file = f
  <2>1. PICK x : Under("receiver", x) /\ x.type = "file_ack" /\ x.file = f
    BY <1>3
  <2>2. Under("receiver", x)'
    BY <2>1, <1>2, <1>3 DEF Peers
  <2>3. QED
    BY <2>1, <2>2, <1>1, <1>3 DEF InHand
<1>4. CASE \A i \in 1..Chunks :
             \/ i \in parts[f]
             \/ Under("sender", [type |-> "file_chunk", file |-> f, n |-> i])
  <2>1. \A i \in 1..Chunks :
           Under("sender", [type |-> "file_chunk", file |-> f, n |-> i])
             => Under("sender", [type |-> "file_chunk", file |-> f, n |-> i])'
    BY <1>2 DEF Peers
  <2>2. QED
    BY <2>1, <1>1, <1>4 DEF InHand
<1>5. QED
  BY <1>1, <1>3, <1>4 DEF InHand

\* While nothing goes wrong, friends stay friends and links hold.
LEMMA FlowCalm ==
    ASSUME CalmState, Calm' => Calm, NEW p \in Peers, NEW new, Flow(p, new),
           Calm' => /\ new \in Seq(FileFrame)
                    /\ friend' = friend
                    /\ connected' # {} => live',
           \A f \in Files : offer'[f] # "none" /\ answer'[f] = "none" =>
               f \in fileOut' \/ (f \notin fileOut /\ offer[f] # "none" /\ answer[f] = "none")
    PROVE  CalmState'
<1> SUFFICES ASSUME Calm'
             PROVE  /\ friend' = [q \in Peers |-> TRUE]
                    /\ \A q \in Peers : wire'[q] \in Seq(FileFrame) /\ queued'[q] \in Seq(FileFrame)
                    /\ connected' # {} => live'
                    /\ \A f \in Files : offer'[f] # "none" /\ answer'[f] = "none" => f \in fileOut'
  BY DEF CalmState
<1>1. \A q \in Peers : wire[q] \in Seq(FileFrame) /\ queued[q] \in Seq(FileFrame)
  BY DEF CalmState
<1>2. \A q \in Peers : wire'[q] \in Seq(FileFrame) /\ queued'[q] \in Seq(FileFrame)
  BY <1>1 DEF Flow
<1>3. QED
  BY <1>2 DEF CalmState

-----------------------------------------------------------------------------
(***************************************************************************)
(* The steps.                                                              *)
(***************************************************************************)

\* send_file: the offer is nowhere before, and on its way afterwards.
LEMMA SendFileStep ==
    ASSUME FileInvariant, NEW f \in Files, SendFile(f)
    PROVE  FileInvariant'
<1> USE DEF FileInvariant
<1> DEFINE new == <<Meta(f)>>
<1>1. Meta(f) \in FileFrame /\ Meta(f).type = "file_meta" /\ Meta(f).file = f
  BY DEF Meta, FileFrame
<1>2. new \in Seq(Frame) /\ new \in Seq(FileFrame)
  BY <1>1 DEF Frame
<1>3. \A g : MetaIn(new, g) => g = f
  BY <1>1 DEF MetaIn, Holds
<1>4. Once(new, f)
  BY <1>1 DEF Once
<1>5. Dispatch(wire, "sender", new) /\ "sender" \in Peers
  BY DEF SendFile, Peers
<1>6. new \in Seq(AgreedChunk)
  <2>1. Meta(f) \in AgreedChunk
    BY <1>1 DEF AgreedChunk, Frame
  <2>2. QED
    BY <2>1
<1> HIDE DEF new
<1>7. Flow("sender", new)
  BY <1>2, <1>5, DispatchFlow
<1>8. \A g : Placed(g) /\ ~Afoot(g) /\ Once(new, g) => Placed(g)'
  BY <1>2, <1>5, DispatchFlow
<1>9. ("sender" \in connected => live) =>
          \A r \in Peers : \A y : Under(r, y) => Under(r, y)'
  BY <1>2, <1>5, DispatchFlow
<1>10. /\ offer[f] = "none" /\ offer' = [offer EXCEPT ![f] = "waiting"]
       /\ fileOut' = fileOut \cup {f}
       /\ UNCHANGED <<answer, dialogs, requests, parts, shown, friend, connected,
                      live, breaks, restarts, declines>>
  BY DEF SendFile, receiverVars, linkVars, counters
<1>11. TypeOK'
  <2>1. wire' \in [Peers -> Seq(Frame)] /\ queued' \in [Peers -> Seq(Frame)]
    BY <1>2, <1>7, FlowTypes
  <2>2. QED
    BY <2>1, <1>10 DEF TypeOK, Frame
<1>12. offer'[f] = "waiting" /\ \A g \in Files : g # f => offer'[g] = offer[g]
  BY <1>10 DEF TypeOK
<1>13. AcksTell' /\ ChunksTell'
  <2>1. AgreedChunk' = AgreedChunk /\ \A g : Agreed(g)' <=> Agreed(g)
    BY <1>10 DEF AgreedChunk, Agreed
  <2>2. \A g \in DOMAIN parts' : Agreed(g)'
    BY <2>1, <1>10 DEF ChunksTell
  <2>3. QED
    BY <2>1, <2>2, <1>5, <1>6, <1>7, <1>10, FlowTells
<1>14. OfferedOnce'
  <2> SUFFICES ASSUME NEW g \in Files
               PROVE  /\ Placed(g)' /\ AskedOnce(g)'
                      /\ Asked(g)' => ~Afoot(g)'
                      /\ Answered(g)' \/ offer'[g] = "none" => ~Afoot(g)' /\ ~Asked(g)'
                      /\ Answered(g)' => offer'[g] # "none"
                      /\ ~("receiving" \in shown'[g] /\ "rejected" \in shown'[g])
    BY DEF OfferedOnce
  <2>1. (Asked(g)' <=> Asked(g)) /\ (AskedOnce(g)' <=> AskedOnce(g)) /\ (Answered(g)' <=> Answered(g))
    BY <1>10 DEF Asked, AskedOnce, Answered
  <2>2. CASE g = f
    <3>1. Placed(f) /\ ~Afoot(f) /\ ~Asked(f) /\ ~Answered(f)
      BY <1>10 DEF OfferedOnce
    <3>2. Placed(f)'
      BY <3>1, <1>4, <1>8
    <3>3. QED
      BY <2>1, <2>2, <3>1, <3>2, <1>10, <1>12 DEF OfferedOnce
  <2>3. CASE g # f
    <3>1. Placed(g)' /\ (Afoot(g)' => Afoot(g))
      BY <2>3, <1>3, <1>7 DEF Flow, OfferedOnce
    <3>2. QED
      BY <2>1, <2>3, <3>1, <1>10, <1>12 DEF OfferedOnce
  <2>4. QED
    BY <2>2, <2>3
<1>15. OffersOpen'
  BY <1>10, <1>12 DEF OffersOpen, TypeOK
<1>16. HistoriesAgree'
  BY <1>10, <1>12 DEF HistoriesAgree
<1>17. Calm' => Calm
  BY <1>10 DEF Calm
<1>18. CalmState'
  BY <1>2, <1>5, <1>7, <1>10, <1>12, <1>17, FlowCalm DEF CalmState
<1>19. Calm' => \A r \in Peers : \A y : Under(r, y) => Under(r, y)'
  BY <1>9, <1>17 DEF CalmState
<1>20. TransferInHand'
  BY <1>10, <1>11, <1>17, <1>19, FlowTransfers
<1>21. QED
  BY <1>11, <1>13, <1>14, <1>15, <1>16, <1>18, <1>20

\* The conjuncts of OfferedOnce when a dialog closes and the frames new,
\* which are not offers, are sent.
LEMMA ClosedOffers ==
    ASSUME TypeOK, OfferedOnce, NEW new, Flow("receiver", new),
           dialogs # <<>>, dialogs' = SubSeq(dialogs, 1, Len(dialogs) - 1),
           offer' = offer,
           NEW f, f = dialogs[Len(dialogs)],
           \A g \in Files : g # f =>
               /\ "receiving" \in shown'[g] <=> "receiving" \in shown[g]
               /\ "rejected" \in shown'[g] <=> "rejected" \in shown[g],
           ~("receiving" \in shown'[f] /\ "rejected" \in shown'[f])
    PROVE  OfferedOnce' /\ f \in Files /\ ~Answered(f) /\ offer[f] # "none"
<1>1. /\ f \in Files /\ Asked(f) /\ (AskedOnce(f) => ~Asked(f)')
      /\ \A g : Asked(g)' => Asked(g)
      /\ \A g : AskedOnce(g) => AskedOnce(g)'
  BY DialogClosed
<1>2. ~Answered(f) /\ offer[f] # "none" /\ ~Afoot(f) /\ AskedOnce(f)
  BY <1>1 DEF OfferedOnce
<1>3. \A g \in Files : Placed(g)' /\ (Afoot(g)' => Afoot(g))
  BY DEF OfferedOnce, Flow
<1>4. ASSUME NEW g \in Files
      PROVE  /\ Placed(g)' /\ AskedOnce(g)'
             /\ Asked(g)' => ~Afoot(g)'
             /\ Answered(g)' \/ offer'[g] = "none" => ~Afoot(g)' /\ ~Asked(g)'
             /\ Answered(g)' => offer'[g] # "none"
             /\ ~("receiving" \in shown'[g] /\ "rejected" \in shown'[g])
  <2>1. CASE g = f
    BY <2>1, <1>1, <1>2, <1>3 DEF OfferedOnce
  <2>2. CASE g # f
    <3>1. Answered(g)' <=> Answered(g)
      BY <2>2 DEF Answered
    <3>2. QED
      BY <2>2, <3>1, <1>1, <1>3 DEF OfferedOnce
  <2>3. QED
    BY <2>1, <2>2
<1>5. QED
  BY <1>1, <1>2, <1>4 DEF OfferedOnce

\* accept_file.
LEMMA AcceptFileStep ==
    ASSUME FileInvariant, AcceptFile
    PROVE  FileInvariant'
<1> USE DEF FileInvariant
<1> PICK f : f = dialogs[Len(dialogs)]
  OBVIOUS
<1> DEFINE new == <<Ack(f, 1)>>
<1>1. /\ dialogs # <<>> /\ dialogs' = SubSeq(dialogs, 1, Len(dialogs) - 1)
      /\ UNCHANGED <<fileOut, offer, answer, friend, connected, live,
                     breaks, restarts, declines>>
      /\ requests' = requests \ {f}
      /\ parts' = [g \in DOMAIN parts \cup {f} |-> IF g = f THEN {} ELSE parts[g]]
      /\ Dispatch(wire, "receiver", new)
      /\ shown' = [shown EXCEPT ![f] = @ \cup {"receiving"}]
  BY DEF AcceptFile, AnswerDialog, senderVars, linkVars, counters
<1>2. f \in Files /\ dialogs' \in Seq(Files)
  BY <1>1, DialogClosed
<1>3. /\ shown'[f] = shown[f] \cup {"receiving"}
      /\ \A g \in Files : g # f => shown'[g] = shown[g]
  BY <1>1, <1>2 DEF TypeOK
<1>4. Ack(f, 1) \in FileFrame /\ Ack(f, 1).type = "file_ack"
      /\ Ack(f, 1).file = f /\ Ack(f, 1).n = 1
  BY <1>2 DEF Ack, FileFrame
<1>5. new \in Seq(Frame) /\ new \in Seq(FileFrame) /\ Has(new, Ack(f, 1))
  BY <1>4 DEF Frame, Has
<1>6. new \in Seq(TrueAck')
  <2>1. Ack(f, 1) \in TrueAck'
    BY <1>3, <1>4 DEF TrueAck, Frame
  <2>2. QED
    BY <2>1
<1> HIDE DEF new
<1>7. "receiver" \in Peers
  BY DEF Peers
<1>8. Flow("receiver", new)
  BY <1>1, <1>5, <1>7, DispatchFlow
<1>9. ("receiver" \in connected => live) =>
          /\ \A r \in Peers : \A y : Under(r, y) => Under(r, y)'
          /\ \A x : Has(new, x) => Under("receiver", x)'
  BY <1>1, <1>5, <1>7, DispatchFlow
<1>10. TypeOK'
  <2>1. wire' \in [Peers -> Seq(Frame)] /\ queued' \in [Peers -> Seq(Frame)]
    BY <1>5, <1>8, FlowTypes
  <2>2. shown' \in [Files -> SUBSET {"receiving", "rejected", "received"}]
    BY <1>1, <1>2 DEF TypeOK
  <2>3. DOMAIN parts' \subseteq Files /\ \A g \in DOMAIN parts' : parts'[g] \subseteq 1..Chunks
    BY <1>1, <1>2 DEF TypeOK
  <2>4. QED
    BY <2>1, <2>2, <2>3, <1>1, <1>2 DEF TypeOK, Frame
<1>11. ~Answered(f) /\ offer[f] # "none"
  BY <1>1, <1>2, DialogClosed DEF OfferedOnce
<1>12. OfferedOnce'
  BY <1>1, <1>3, <1>8, <1>11, ClosedOffers DEF Answered
<1>13. AcksTell' /\ ChunksTell'
  <2>1. \A g \in Files : /\ "receiving" \in shown[g] => "receiving" \in shown'[g]
                         /\ "rejected" \in shown[g] => "rejected" \in shown'[g]
                         /\ Agreed(g) => Agreed(g)'
    BY <1>3, <1>11 DEF Agreed, Answered
  <2>2. Agreed(f)'
    BY <1>3, <1>11 DEF Agreed, Answered
  <2>3. \A g \in DOMAIN parts' : Agreed(g)'
    BY <2>1, <2>2, <1>1 DEF ChunksTell, TypeOK
  <2>4. QED
    BY <2>1, <2>3, <1>6, <1>7, <1>8, FlowTells
<1>14. OffersOpen'
  BY <1>1 DEF OffersOpen
<1>15. HistoriesAgree'
  <2>1. \A g \in Files : shown[g] \subseteq shown'[g]
    BY <1>2, <1>3
  <2>2. QED
    BY <1>1, <2>1 DEF HistoriesAgree
<1>16. Calm' <=> Calm
  BY <1>1 DEF Calm
<1>17. CalmState'
  BY <1>1, <1>5, <1>7, <1>8, <1>16, FlowCalm DEF CalmState
<1>18. TransferInHand'
  <2> SUFFICES ASSUME Calm', NEW g \in Files, Accepted(g)', ~Received(g)'
               PROVE  InHand(g)'
    BY <1>10, TransferInHandsNext DEF AllInHand
  <2>1. /\ \A r \in Peers : \A y : Under(r, y) => Under(r, y)'
        /\ Under("receiver", Ack(f, 1))'
    BY <1>5, <1>9, <1>16 DEF CalmState
  <2>2. CASE g = f
    <3>1. f \in fileOut
      BY <1>2, <1>11, <1>16 DEF CalmState, HistoriesAgree, Answered, TypeOK
    <3>2. QED
      BY <2>1, <2>2, <3>1, <1>1, <1>4 DEF InHand
  <2>3. CASE g # f
    <3>1. InHand(g)
      BY <2>3, <1>3, <1>16, TransferInHands DEF AllInHand, Accepted, Received
    <3>2. g \in DOMAIN parts' /\ parts'[g] = parts[g]
      BY <2>3, <3>1, <1>1 DEF InHand
    <3>3. QED
      BY <2>1, <3>1, <3>2, <1>1 DEF InHand, Peers
  <2>4. QED
    BY <2>2, <2>3
<1>19. QED
  BY <1>10, <1>12, <1>13, <1>14, <1>15, <1>17, <1>18

\* reject_file.
LEMMA RejectFileStep ==
    ASSUME FileInvariant, RejectFile
    PROVE  FileInvariant'
<1> USE DEF FileInvariant
<1> PICK f : f = dialogs[Len(dialogs)]
  OBVIOUS
<1> DEFINE new == <<Ack(f, 0)>>
<1>1. /\ dialogs # <<>> /\ dialogs' = SubSeq(dialogs, 1, Len(dialogs) - 1)
      /\ UNCHANGED <<fileOut, offer, answer, friend, connected, live, parts,
                     breaks, restarts, declines>>
      /\ requests' = requests \ {f}
      /\ Dispatch(wire, "receiver", new)
      /\ shown' = [shown EXCEPT ![f] = @ \cup {"rejected"}]
  BY DEF RejectFile, AnswerDialog, senderVars, linkVars, counters
<1>2. f \in Files /\ dialogs' \in Seq(Files)
  BY <1>1, DialogClosed
<1>3. /\ shown'[f] = shown[f] \cup {"rejected"}
      /\ \A g \in Files : g # f => shown'[g] = shown[g]
  BY <1>1, <1>2 DEF TypeOK
<1>4. Ack(f, 0) \in FileFrame /\ Ack(f, 0).type = "file_ack"
      /\ Ack(f, 0).file = f /\ Ack(f, 0).n = 0
  BY <1>2 DEF Ack, FileFrame
<1>5. new \in Seq(Frame) /\ new \in Seq(FileFrame)
  BY <1>4 DEF Frame
<1>6. new \in Seq(TrueAck')
  <2>1. Ack(f, 0) \in TrueAck'
    BY <1>3, <1>4 DEF TrueAck, Frame
  <2>2. QED
    BY <2>1
<1> HIDE DEF new
<1>7. "receiver" \in Peers
  BY DEF Peers
<1>8. Flow("receiver", new)
  BY <1>1, <1>5, <1>7, DispatchFlow
<1>9. ("receiver" \in connected => live) =>
          \A r \in Peers : \A y : Under(r, y) => Under(r, y)'
  BY <1>1, <1>5, <1>7, DispatchFlow
<1>10. TypeOK'
  <2>1. wire' \in [Peers -> Seq(Frame)] /\ queued' \in [Peers -> Seq(Frame)]
    BY <1>5, <1>8, FlowTypes
  <2>2. shown' \in [Files -> SUBSET {"receiving", "rejected", "received"}]
    BY <1>1, <1>2 DEF TypeOK
  <2>3. QED
    BY <2>1, <2>2, <1>1, <1>2 DEF TypeOK, Frame
<1>11. ~Answered(f)
  BY <1>1, <1>2, DialogClosed DEF OfferedOnce
<1>12. OfferedOnce'
  BY <1>1, <1>3, <1>8, <1>11, ClosedOffers DEF Answered
<1>13. AcksTell' /\ ChunksTell'
  <2>1. \A g \in Files : /\ "receiving" \in shown[g] => "receiving" \in shown'[g]
                         /\ "rejected" \in shown[g] => "rejected" \in shown'[g]
                         /\ Agreed(g) => Agreed(g)'
    BY <1>3, <1>11 DEF Agreed, Answered
  <2>2. \A g \in DOMAIN parts' : Agreed(g)'
    BY <2>1, <1>1 DEF ChunksTell, TypeOK
  <2>3. QED
    BY <2>1, <2>2, <1>6, <1>7, <1>8, FlowTells
<1>14. OffersOpen'
  BY <1>1 DEF OffersOpen
<1>15. HistoriesAgree'
  <2>1. \A g \in Files : shown[g] \subseteq shown'[g]
    BY <1>2, <1>3
  <2>2. QED
    BY <1>1, <2>1 DEF HistoriesAgree
<1>16. Calm' => Calm
  BY <1>1 DEF Calm
<1>17. CalmState'
  BY <1>1, <1>5, <1>7, <1>8, <1>16, FlowCalm DEF CalmState
<1>18. Calm' => \A r \in Peers : \A y : Under(r, y) => Under(r, y)'
  BY <1>9, <1>16 DEF CalmState
<1>19. \A g \in Files : /\ "receiving" \in shown'[g] <=> "receiving" \in shown[g]
                        /\ "received" \in shown'[g] <=> "received" \in shown[g]
  BY <1>3
<1>20. TransferInHand'
  BY <1>1, <1>10, <1>16, <1>18, <1>19, FlowTransfers
<1>21. QED
  BY <1>10, <1>12, <1>13, <1>14, <1>15, <1>17, <1>20

\* Escape: the frames stay, the dialog goes.
LEMMA EscapeDialogStep ==
    ASSUME FileInvariant, EscapeDialog
    PROVE  FileInvariant'
<1> USE DEF FileInvariant
<1>1. /\ dialogs # <<>> /\ dialogs' = SubSeq(dialogs, 1, Len(dialogs) - 1)
      /\ UNCHANGED <<fileOut, offer, answer, friend, connected, live, parts, shown,
                     requests, wire, queued, breaks, restarts, declines>>
  BY DEF EscapeDialog, AnswerDialog, senderVars, linkVars, counters
<1>2. dialogs' \in Seq(Files)
  BY <1>1, DialogClosed
<1>3. Flow("receiver", <<>>)
  BY <1>1, StillFlow
<1>4. TypeOK'
  BY <1>1, <1>2 DEF TypeOK
<1>5. OfferedOnce'
  <2> PICK f : f = dialogs[Len(dialogs)]
    OBVIOUS
  <2>1. ~("receiving" \in shown'[f] /\ "rejected" \in shown'[f])
    BY <1>1, DialogClosed DEF OfferedOnce
  <2>2. QED
    BY <1>1, <1>3, <2>1, ClosedOffers
<1>6. AcksTell' /\ ChunksTell'
  BY <1>1 DEF AcksTell, ChunksTell, TrueAck, AgreedChunk, Agreed
<1>7. OffersOpen' /\ HistoriesAgree'
  BY <1>1 DEF OffersOpen, HistoriesAgree
<1>8. CalmState' /\ TransferInHand'
  BY <1>1 DEF CalmState, Calm, TransferInHand, OnItsWay, Holds, ChunkInHand, Accepted, Received
<1>9. QED
  BY <1>4, <1>5, <1>6, <1>7, <1>8

\* /reject of the other peer: no file is concerned, and calm is over.
LEMMA DeclineFriendStep ==
    ASSUME FileInvariant, NEW p \in Peers, DeclineFriend(p)
    PROVE  FileInvariant'
<1> USE DEF FileInvariant
<1> DEFINE new == <<Decline>>
<1>1. /\ declines' = declines + 1
      /\ friend' = [friend EXCEPT ![p] = FALSE]
      /\ Dispatch(wire, p, new)
      /\ UNCHANGED <<fileOut, offer, answer, dialogs, requests, parts, shown,
                     connected, live, breaks, restarts>>
  BY DEF DeclineFriend, senderVars, receiverVars, linkVars
<1>2. Decline \in Frame /\ Decline.type = "friend_decline"
  BY DEF Decline, Frame, DeclineFrame
<1>3. new \in Seq(Frame) /\ new \in Seq(TrueAck) /\ new \in Seq(AgreedChunk)
  <2>1. Decline \in TrueAck /\ Decline \in AgreedChunk
    BY <1>2 DEF TrueAck, AgreedChunk
  <2>2. QED
    BY <2>1, <1>2
<1>4. \A f : ~MetaIn(new, f)
  BY <1>2 DEF MetaIn, Holds
<1> HIDE DEF new
<1>5. Flow(p, new)
  BY <1>1, <1>3, DispatchFlow
<1>6. ~Calm'
  BY <1>1 DEF Calm, TypeOK
<1>7. TypeOK'
  <2>1. wire' \in [Peers -> Seq(Frame)] /\ queued' \in [Peers -> Seq(Frame)]
    BY <1>3, <1>5, FlowTypes
  <2>2. QED
    BY <2>1, <1>1 DEF TypeOK, Frame
<1>8. AcksTell' /\ ChunksTell'
  <2>1. TrueAck' = TrueAck /\ AgreedChunk' = AgreedChunk /\ \A g : Agreed(g)' <=> Agreed(g)
    BY <1>1 DEF TrueAck, AgreedChunk, Agreed
  <2>2. \A g \in DOMAIN parts' : Agreed(g)'
    BY <2>1, <1>1 DEF ChunksTell
  <2>3. QED
    BY <2>1, <2>2, <1>1, <1>3, <1>5, FlowTells
<1>9. OfferedOnce'
  BY <1>1, <1>4, <1>5, FlowOffers
<1>10. OffersOpen' /\ HistoriesAgree'
  BY <1>1 DEF OffersOpen, HistoriesAgree
<1>11. CalmState' /\ TransferInHand'
  BY <1>6 DEF CalmState, TransferInHand
<1>12. QED
  BY <1>7, <1>8, <1>9, <1>10, <1>11

\* A step that changes nothing of files and adds no frame.
LEMMA QuietStep ==
    ASSUME FileInvariant, NEW p \in Peers, Flow(p, <<>>),
           UNCHANGED <<offer, answer, dialogs, shown>>,
           fileOut' \subseteq fileOut, requests' \subseteq requests,
           parts' = parts \/ parts' = NoParts,
           friend' \in [Peers -> BOOLEAN], connected' \subseteq Peers, live' \in BOOLEAN,
           {breaks', restarts', declines'} \subseteq Nat
    PROVE  TypeOK' /\ AcksTell' /\ ChunksTell' /\ OfferedOnce' /\ OffersOpen' /\ HistoriesAgree'
<1> USE DEF FileInvariant
<1>1. <<>> \in Seq(Frame)
  OBVIOUS
<1>2. DOMAIN parts' \subseteq DOMAIN parts /\ \A f \in DOMAIN parts' : parts'[f] = parts[f]
  BY DEF NoParts
<1>3. TypeOK'
  <2>1. wire' \in [Peers -> Seq(Frame)] /\ queued' \in [Peers -> Seq(Frame)]
    BY <1>1, FlowTypes
  <2>2. QED
    BY <2>1, <1>2 DEF TypeOK, Frame
<1>4. AcksTell' /\ ChunksTell'
  <2>1. <<>> \in Seq(TrueAck') /\ <<>> \in Seq(AgreedChunk')
    OBVIOUS
  <2>2. \A g : Agreed(g)' <=> Agreed(g)
    BY DEF Agreed
  <2>3. \A g \in DOMAIN parts' : Agreed(g)'
    BY <2>2, <1>2 DEF ChunksTell
  <2>4. QED
    BY <2>1, <2>2, <2>3, FlowTells
<1>5. OfferedOnce'
  BY NoFrames, FlowOffers
<1>6. OffersOpen' /\ HistoriesAgree'
  BY DEF OffersOpen, HistoriesAgree
<1>7. QED
  BY <1>3, <1>4, <1>5, <1>6

\* A friend_decline is read: calm was over already.
LEMMA HandleFriendDeclineStep ==
    ASSUME FileInvariant, NEW p \in Peers, HandleFriendDecline(p)
    PROVE  FileInvariant'
<1> USE DEF FileInvariant
<1>1. /\ wire[Peer(p)] # <<>> /\ Head(wire[Peer(p)]).type = "friend_decline"
      /\ wire' = Consumed(p) /\ friend' = [friend EXCEPT ![p] = FALSE]
      /\ UNCHANGED <<fileOut, offer, answer, dialogs, requests, parts, shown,
                     connected, live, queued, breaks, restarts, declines>>
  BY DEF HandleFriendDecline, Reads, senderVars, receiverVars, linkVars, counters
<1>2. Flow(p, <<>>)
  BY <1>1, ReadFlow
<1>3. friend' \in [Peers -> BOOLEAN]
  BY <1>1 DEF TypeOK
<1>4. TypeOK' /\ AcksTell' /\ ChunksTell' /\ OfferedOnce' /\ OffersOpen' /\ HistoriesAgree'
  BY <1>1, <1>2, <1>3, QuietStep DEF TypeOK
<1>5. ~Calm
  <2> SUFFICES ASSUME Calm
               PROVE  FALSE
    OBVIOUS
  <2>1. Peer(p) \in Peers
    BY Taken, <1>1
  <2>2. wire[Peer(p)] \in Seq(FileFrame)
    BY <2>1 DEF CalmState
  <2>3. Head(wire[Peer(p)]) \in FileFrame
    BY <2>2, <1>1
  <2>4. QED
    BY <2>3, <1>1 DEF FileFrame
<1>6. ~Calm'
  BY <1>1, <1>5 DEF Calm
<1>7. QED
  BY <1>4, <1>6 DEF CalmState, TransferInHand

\* A frame is ignored: there is a peer that is no friend, so calm was over.
LEMMA IgnoreStep ==
    ASSUME FileInvariant, NEW p \in Peers, Ignore(p)
    PROVE  FileInvariant'
<1> USE DEF FileInvariant
<1>1. /\ wire[Peer(p)] # <<>> /\ ~friend[p]
      /\ wire' = Consumed(p)
      /\ UNCHANGED <<fileOut, offer, answer, dialogs, requests, parts, shown, friend,
                     connected, live, queued, breaks, restarts, declines>>
  BY DEF Ignore, Reads, senderVars, receiverVars, linkVars, counters
<1>2. Flow(p, <<>>)
  BY <1>1, ReadFlow
<1>3. TypeOK' /\ AcksTell' /\ ChunksTell' /\ OfferedOnce' /\ OffersOpen' /\ HistoriesAgree'
  BY <1>1, <1>2, QuietStep DEF TypeOK
<1>4. ~Calm'
  BY <1>1 DEF Calm, CalmState
<1>5. QED
  BY <1>3, <1>4 DEF CalmState, TransferInHand

\* A connection is registered and the queue sent on it.
LEMMA RegisterStep ==
    ASSUME FileInvariant, NEW p \in Peers, Register(p)
    PROVE  FileInvariant'
<1> USE DEF FileInvariant
<1>1. /\ connected' = connected \cup {p} /\ live' = TRUE
      /\ wire' = [wire EXCEPT ![p] = @ \o queued[p]]
      /\ queued' = [queued EXCEPT ![p] = <<>>]
      /\ UNCHANGED <<fileOut, offer, answer, dialogs, requests, parts, shown, friend,
                     breaks, restarts, declines>>
  BY DEF Register, senderVars, receiverVars, counters
<1>2. Flow(p, <<>>) /\ \A r \in Peers : \A y : Under(r, y) => Under(r, y)'
  BY <1>1, RegisterFlow
<1>3. TypeOK' /\ AcksTell' /\ ChunksTell' /\ OfferedOnce' /\ OffersOpen' /\ HistoriesAgree'
  <2>1. friend' \in [Peers -> BOOLEAN] /\ connected' \subseteq Peers
        /\ {breaks', restarts', declines'} \subseteq Nat
    BY <1>1 DEF TypeOK
  <2>2. live' \in BOOLEAN
    BY <1>1
  <2>3. QED
    BY <2>1, <2>2, <1>1, <1>2, QuietStep
<1>4. Calm' => Calm
  BY <1>1 DEF Calm
<1>5. CalmState'
  BY <1>1, <1>2, <1>4, FlowCalm DEF CalmState
<1>6. TransferInHand'
  BY <1>1, <1>2, <1>3, <1>4, FlowTransfers
<1>7. QED
  BY <1>3, <1>5, <1>6

\* The link breaks: calm is over.
LEMMA BreakStep ==
    ASSUME FileInvariant, Break
    PROVE  FileInvariant'
<1> USE DEF FileInvariant
<1>1. /\ breaks' = breaks + 1 /\ live' = FALSE
      /\ UNCHANGED <<fileOut, offer, answer, dialogs, requests, parts, shown, friend,
                     connected, queued, wire, restarts, declines>>
  BY DEF Break, senderVars, receiverVars
<1>2. Flow("sender", <<>>) /\ "sender" \in Peers
  BY <1>1, StillFlow DEF Peers
<1>3. TypeOK' /\ AcksTell' /\ ChunksTell' /\ OfferedOnce' /\ OffersOpen' /\ HistoriesAgree'
  <2>1. friend' \in [Peers -> BOOLEAN] /\ connected' \subseteq Peers
        /\ {breaks', restarts', declines'} \subseteq Nat
    BY <1>1 DEF TypeOK
  <2>2. live' \in BOOLEAN
    BY <1>1
  <2>3. QED
    BY <2>1, <2>2, <1>1, <1>2, QuietStep
<1>4. ~Calm'
  BY <1>1 DEF Calm, TypeOK
<1>5. QED
  BY <1>3, <1>4 DEF CalmState, TransferInHand

\* An end notices that the link broke: calm was over already.
LEMMA DropStep ==
    ASSUME FileInvariant, NEW p \in Peers, Drop(p)
    PROVE  FileInvariant'
<1> USE DEF FileInvariant
<1>1. /\ p \in connected /\ ~live
      /\ CloseEnd(p) /\ connected' = connected \ {p}
      /\ UNCHANGED <<fileOut, offer, answer, dialogs, requests, parts, shown, friend,
                     live, queued, breaks, restarts, declines>>
  BY DEF Drop, CloseEnd, senderVars, receiverVars, counters
<1>2. Flow(p, <<>>)
  BY <1>1, DropFlow
<1>3. TypeOK' /\ AcksTell' /\ ChunksTell' /\ OfferedOnce' /\ OffersOpen' /\ HistoriesAgree'
  BY <1>1, <1>2, QuietStep DEF TypeOK
<1>4. ~Calm'
  BY <1>1 DEF Calm, CalmState
<1>5. QED
  BY <1>3, <1>4 DEF CalmState, TransferInHand

\* A process starts again without what it had in memory.
LEMMA RestartStep ==
    ASSUME FileInvariant, NEW p \in Peers, Restart(p)
    PROVE  FileInvariant'
<1> USE DEF FileInvariant
<1>1. /\ restarts' = restarts + 1 /\ live' = FALSE
      /\ CloseEnd(p) /\ connected' = connected \ {p}
      /\ UNCHANGED <<offer, answer, shown, friend, queued, breaks, declines>>
  BY DEF Restart, CloseEnd, receiverVars, senderVars
<1>2. Flow(p, <<>>)
  BY <1>1, DropFlow
<1>3. ~Calm'
  BY <1>1 DEF Calm, TypeOK
<1>4. CASE p = "sender"
  <2>1. fileOut' = {} /\ UNCHANGED <<dialogs, requests, parts>>
    BY <1>4 DEF Restart, receiverVars
  <2>2. TypeOK' /\ AcksTell' /\ ChunksTell' /\ OfferedOnce' /\ OffersOpen' /\ HistoriesAgree'
    <3>1. friend' \in [Peers -> BOOLEAN] /\ connected' \subseteq Peers
          /\ {breaks', restarts', declines'} \subseteq Nat
      BY <1>1 DEF TypeOK
    <3>2. live' \in BOOLEAN
      BY <1>1
    <3>3. fileOut' \subseteq fileOut /\ requests' \subseteq requests /\ parts' = parts
      BY <2>1
    <3>4. QED
      BY <3>1, <3>2, <3>3, <2>1, <1>1, <1>2, QuietStep
  <2>3. QED
    BY <2>2, <1>3 DEF CalmState, TransferInHand
<1>5. CASE p = "receiver"
  <2>1. dialogs' = <<>> /\ requests' = {} /\ parts' = NoParts /\ fileOut' = fileOut
    BY <1>5 DEF Restart, senderVars
  <2>2. \A f : ~Asked(f)' /\ AskedOnce(f)'
    BY <2>1 DEF Asked, AskedOnce
  <2>3. \A f : (Agreed(f)' <=> Agreed(f)) /\ (Answered(f)' <=> Answered(f))
    BY <1>1 DEF Agreed, Answered
  <2>4. TypeOK'
    <3>1. <<>> \in Seq(Frame)
      OBVIOUS
    <3>2. wire' \in [Peers -> Seq(Frame)] /\ queued' \in [Peers -> Seq(Frame)]
      BY <3>1, <1>2, FlowTypes
    <3>3. DOMAIN parts' = {} /\ dialogs' \in Seq(Files)
      BY <2>1 DEF NoParts
    <3>4. connected' \subseteq Peers /\ {breaks', restarts', declines'} \subseteq Nat
      BY <1>1 DEF TypeOK
    <3>5. live' \in BOOLEAN
      BY <1>1
    <3>6. QED
      BY <3>2, <3>3, <3>4, <3>5, <2>1, <1>1 DEF TypeOK, Frame
  <2>5. AcksTell' /\ ChunksTell'
    <3>1. <<>> \in Seq(TrueAck') /\ <<>> \in Seq(AgreedChunk')
      OBVIOUS
    <3>2. \A g \in DOMAIN parts' : Agreed(g)'
      BY <2>1 DEF NoParts
    <3>3. QED
      BY <3>1, <3>2, <2>3, <1>1, <1>2, FlowTells
  <2>6. OfferedOnce'
    <3>1. \A f \in Files : Placed(f)' /\ (Afoot(f)' => Afoot(f))
      BY <1>2, NoFrames DEF Flow, OfferedOnce
    <3>2. QED
      BY <3>1, <2>2, <2>3, <1>1 DEF OfferedOnce
  <2>7. OffersOpen' /\ HistoriesAgree'
    BY <2>1, <1>1 DEF OffersOpen, HistoriesAgree
  <2>8. QED
    BY <2>4, <2>5, <2>6, <2>7, <1>3 DEF CalmState, TransferInHand
<1>6. QED
  BY <1>4, <1>5 DEF Peers

\* The next frame is of the type a handler takes, and so a frame of a file.
LEMMA FileFrameRead ==
    ASSUME FileInvariant, NEW p \in Peers, NEW type, Reads(p, type),
           type \in {"file_meta", "file_ack", "file_chunk"}
    PROVE  LET x == Head(wire[Peer(p)])
           IN  /\ wire[Peer(p)] # <<>>
               /\ x \in FileFrame /\ x.type = type /\ x.file \in Files /\ x.n \in Nat
               /\ Under(Peer(p), x)
<1>1. wire[Peer(p)] # <<>> /\ Head(wire[Peer(p)]).type = type
  BY DEF Reads
<1>2. Head(wire[Peer(p)]) \in Frame /\ Has(wire[Peer(p)], Head(wire[Peer(p)]))
  BY <1>1, Taken DEF FileInvariant
<1>3. QED
  BY <1>1, <1>2 DEF Frame, FileFrame, DeclineFrame, Under

\* The metadata of an offer is read: the offer moves into a dialog.
LEMMA HandleFileMetaStep ==
    ASSUME FileInvariant, HandleFileMeta
    PROVE  FileInvariant'
<1> USE DEF FileInvariant
<1> PICK x : x = Head(wire["sender"])
  OBVIOUS
<1> PICK f : f = x.file
  OBVIOUS
<1>1. /\ Reads("receiver", "file_meta") /\ wire' = Consumed("receiver")
      /\ requests' = requests \cup {f} /\ dialogs' = Append(dialogs, f)
      /\ UNCHANGED <<fileOut, offer, answer, parts, shown, friend, connected, live,
                     queued, breaks, restarts, declines>>
  BY DEF HandleFileMeta, Reads, senderVars, linkVars, counters
<1>2. "receiver" \in Peers /\ Peer("receiver") = "sender"
  BY Peering DEF Peers
<1>3. wire["sender"] # <<>> /\ x.type = "file_meta" /\ f \in Files
  BY <1>1, <1>2, FileFrameRead
<1>4. Flow("receiver", <<>>) /\ Lossless("sender", x)
  BY <1>1, <1>2, <1>3, ReadFlow
<1>5. Placed(f) => Afoot(f) /\ ~Afoot(f)'
  BY <1>1, <1>2, <1>3, ReadFlow
<1>6. <<>> \in Seq(Frame) /\ <<>> \in Seq(FileFrame)
      /\ <<>> \in Seq(TrueAck') /\ <<>> \in Seq(AgreedChunk')
  OBVIOUS
<1>7. dialogs' \in Seq(Files)
  BY <1>1, <1>3 DEF TypeOK
<1>8. TypeOK'
  <2>1. wire' \in [Peers -> Seq(Frame)] /\ queued' \in [Peers -> Seq(Frame)]
    BY <1>4, <1>6, FlowTypes
  <2>2. QED
    BY <2>1, <1>1, <1>3, <1>7 DEF TypeOK, Frame
<1>9. AcksTell' /\ ChunksTell'
  <2>1. \A g : Agreed(g)' <=> Agreed(g)
    BY <1>1 DEF Agreed
  <2>2. \A g \in DOMAIN parts' : Agreed(g)'
    BY <2>1, <1>1 DEF ChunksTell
  <2>3. QED
    BY <2>1, <2>2, <1>1, <1>2, <1>4, <1>6, FlowTells
<1>10. /\ \A g : g # f => (Asked(g)' <=> Asked(g)) /\ (AskedOnce(g)' <=> AskedOnce(g))
       /\ ~Asked(f) => AskedOnce(f)'
  <2>1. /\ Len(dialogs) \in Nat /\ DOMAIN dialogs = 1..Len(dialogs)
        /\ DOMAIN dialogs' = 1..(Len(dialogs) + 1)
        /\ dialogs'[Len(dialogs) + 1] = f
        /\ \A i \in 1..Len(dialogs) : dialogs'[i] = dialogs[i]
    BY <1>1, <1>3 DEF TypeOK
  <2>2. \A i \in 1..(Len(dialogs) + 1) : i \in 1..Len(dialogs) \/ i = Len(dialogs) + 1
    BY <2>1
  <2>3. \A i \in 1..Len(dialogs) : i \in 1..(Len(dialogs) + 1)
    BY <2>1
  <2>4. \A g : g # f => (Asked(g)' <=> Asked(g))
    BY <2>1, <2>2, <2>3 DEF Asked
  <2>5. \A g : g # f => (AskedOnce(g)' <=> AskedOnce(g))
    BY <2>1, <2>2, <2>3 DEF AskedOnce
  <2>6. ~Asked(f) => AskedOnce(f)'
    BY <2>1, <2>2 DEF Asked, AskedOnce
  <2>7. QED
    BY <2>4, <2>5, <2>6
<1>11. OfferedOnce'
  <2> SUFFICES ASSUME NEW g \in Files
               PROVE  /\ Placed(g)' /\ AskedOnce(g)'
                      /\ Asked(g)' => ~Afoot(g)'
                      /\ Answered(g)' \/ offer'[g] = "none" => ~Afoot(g)' /\ ~Asked(g)'
                      /\ Answered(g)' => offer'[g] # "none"
                      /\ ~("receiving" \in shown'[g] /\ "rejected" \in shown'[g])
    BY DEF OfferedOnce
  <2>1. Placed(g)' /\ (Afoot(g)' => Afoot(g)) /\ (Answered(g)' <=> Answered(g))
    BY <1>1, <1>4, NoFrames DEF Flow, OfferedOnce, Answered
  <2>2. CASE g = f
    <3>1. Placed(f) /\ Afoot(f) /\ ~Afoot(f)'
      BY <1>3, <1>5 DEF OfferedOnce
    <3>2. ~Asked(f) /\ ~Answered(f) /\ offer[f] # "none"
      BY <3>1, <1>3 DEF OfferedOnce
    <3>3. QED
      BY <2>1, <2>2, <3>1, <3>2, <1>1, <1>10 DEF OfferedOnce
  <2>3. CASE g # f
    BY <2>1, <2>3, <1>1, <1>10 DEF OfferedOnce
  <2>4. QED
    BY <2>2, <2>3
<1>12. OffersOpen' /\ HistoriesAgree'
  BY <1>1 DEF OffersOpen, HistoriesAgree
<1>13. Calm' => Calm
  BY <1>1 DEF Calm
<1>14. CalmState'
  BY <1>1, <1>2, <1>4, <1>6, <1>13, FlowCalm DEF CalmState
<1>15. TransferInHand'
  <2>1. \A r \in Peers : \A y : Under(r, y) => Under(r, y)' \/ y.type = "file_meta"
    BY <1>3, <1>4 DEF Lossless
  <2>2. QED
    BY <2>1, <1>1, <1>8, <1>13, FlowTransfers
<1>16. QED
  BY <1>8, <1>9, <1>11, <1>12, <1>14, <1>15

\* An ack is read: nobody waits for it, or the chunks are sent, or the offer
\* is over.
LEMMA HandleFileAckStep ==
    ASSUME FileInvariant, HandleFileAck
    PROVE  FileInvariant'
<1> USE DEF FileInvariant
<1> PICK x : x = Head(wire["receiver"])
  OBVIOUS
<1> PICK f : f = x.file
  OBVIOUS
<1>1. /\ Reads("sender", "file_ack")
      /\ UNCHANGED <<dialogs, requests, parts, shown, friend, connected, live,
                     breaks, restarts, declines>>
  BY DEF HandleFileAck, Reads, receiverVars, linkVars, counters
<1>2. "sender" \in Peers /\ Peer("sender") = "receiver"
  BY Peering DEF Peers
<1>3. wire["receiver"] # <<>> /\ x \in FileFrame /\ x.type = "file_ack" /\ f \in Files
      /\ x.n \in Nat
  BY <1>1, <1>2, FileFrameRead
<1>4. /\ x.n = 1 => "receiving" \in shown[f]
      /\ x.n # 1 => "rejected" \in shown[f]
  <2>1. x \in TrueAck
    BY <1>3 DEF AcksTell
  <2>2. QED
    BY <2>1, <1>3 DEF TrueAck
<1>5. Calm' <=> Calm
  BY <1>1 DEF Calm
<1>6. \A g : Agreed(g)' <=> Agreed(g)
  BY <1>1 DEF Agreed
<1>7. \A g \in DOMAIN parts' : Agreed(g)'
  BY <1>1, <1>6 DEF ChunksTell
<1>8. CASE f \notin fileOut /\ wire' = Consumed("sender") /\ UNCHANGED <<senderVars, queued>>
  <2>1. UNCHANGED <<fileOut, offer, answer, queued>>
    BY <1>8 DEF senderVars
  <2>2. Flow("sender", <<>>) /\ Lossless("receiver", x)
    BY <1>2, <1>3, <1>8, ReadFlow
  <2>3. TypeOK' /\ AcksTell' /\ ChunksTell' /\ OfferedOnce' /\ OffersOpen' /\ HistoriesAgree'
    BY <2>1, <2>2, <1>1, <1>2, QuietStep DEF TypeOK
  <2>4. CalmState'
    <3>1. <<>> \in Seq(FileFrame)
      OBVIOUS
    <3>2. QED
      BY <3>1, <2>1, <2>2, <1>1, <1>2, <1>5, FlowCalm DEF CalmState
  <2>5. \A r \in Peers : \A y : Under(r, y) =>
            Under(r, y)' \/ (y.type = "file_ack" /\ y.file \notin fileOut)
    BY <2>2, <1>3, <1>8 DEF Lossless
  <2>6. TransferInHand'
    BY <2>1, <2>3, <2>5, <1>1, <1>5, FlowTransfers
  <2>7. QED
    BY <2>3, <2>4, <2>6
<1>9. CASE /\ f \in fileOut /\ x.n = 1 /\ fileOut' = fileOut \ {f}
           /\ Dispatch(Consumed("sender"), "sender", AllChunks(f))
           /\ offer' = [offer EXCEPT ![f] = "sent"]
           /\ answer' = [answer EXCEPT ![f] = "accepted"]
  <2> DEFINE new == AllChunks(f)
  <2>1. Agreed(f)
    BY <1>3, <1>4, <1>9 DEF OfferedOnce, Agreed
  <2>2. /\ Chunks \in Nat /\ new = [i \in 1..Chunks |-> [type |-> "file_chunk", file |-> f, n |-> i]]
        /\ \A i \in 1..Chunks : [type |-> "file_chunk", file |-> f, n |-> i] \in AgreedChunk \cap FileFrame
    BY <2>1, <1>3, FileTransferAssumption DEF AllChunks, AgreedChunk, Frame, FileFrame, Agreed
  <2>3. new \in Seq(AgreedChunk) /\ new \in Seq(FileFrame) /\ new \in Seq(Frame)
    <3>1. AgreedChunk \subseteq Frame /\ DOMAIN new = 1..Chunks
      BY <2>2 DEF AgreedChunk
    <3>2. QED
      BY <2>2, <3>1
  <2>4. \A g : ~MetaIn(new, g)
    BY <2>2 DEF MetaIn, Holds
  <2>5. \A i \in 1..Chunks : Has(new, [type |-> "file_chunk", file |-> f, n |-> i])
    BY <2>2 DEF Has
  <2> HIDE DEF new
  <2>6. Flow("sender", new)
    BY <2>3, <2>4, <1>3, <1>9, AnswerFlow DEF new
  <2>7. ("sender" \in connected => live) =>
                 /\ Lossless("receiver", x)
                 /\ \A y : Has(new, y) => Under("sender", y)'
    BY <2>3, <2>4, <1>3, <1>9, AnswerFlow DEF new
  <2>8. /\ offer'[f] = "sent" /\ answer'[f] = "accepted"
        /\ \A g \in Files : g # f => offer'[g] = offer[g] /\ answer'[g] = answer[g]
    BY <1>3, <1>9 DEF TypeOK
  <2>9. TypeOK'
    <3>1. wire' \in [Peers -> Seq(Frame)] /\ queued' \in [Peers -> Seq(Frame)]
      BY <2>3, <2>6, FlowTypes
    <3>2. QED
      BY <3>1, <1>1, <1>3, <1>9 DEF TypeOK, Frame
  <2>10. AcksTell' /\ ChunksTell'
    <3>1. AgreedChunk' = AgreedChunk
      BY <1>1 DEF AgreedChunk, Agreed
    <3>2. QED
      BY <3>1, <2>3, <2>6, <1>1, <1>2, <1>6, <1>7, FlowTells
  <2>11. OfferedOnce'
    <3>1. offer[f] = "waiting"
      BY <1>9 DEF OffersOpen
    <3>2. QED
      BY <3>1, <2>4, <2>6, <2>8, <1>1, FlowOffers
  <2>12. OffersOpen'
    BY <2>8, <1>9 DEF OffersOpen, TypeOK
  <2>13. HistoriesAgree'
    BY <2>8, <1>1, <1>3, <1>4, <1>9 DEF HistoriesAgree
  <2>14. CalmState'
    BY <2>3, <2>6, <2>8, <1>1, <1>2, <1>5, <1>9, FlowCalm DEF CalmState
  <2>15. TransferInHand'
    <3> SUFFICES ASSUME Calm', NEW g \in Files, Accepted(g)', ~Received(g)'
                 PROVE  InHand(g)'
      BY <2>9, TransferInHandsNext DEF AllInHand
    <3>1. /\ \A r \in Peers : \A y : Under(r, y) => Under(r, y)' \/ (r = "receiver" /\ y = x)
          /\ \A y : Has(new, y) => Under("sender", y)'
      BY <2>7, <1>5 DEF CalmState, Lossless
    <3>2. InHand(g)
      BY <1>1, <1>5, TransferInHands DEF AllInHand, Accepted, Received
    <3>3. CASE g = f
      <4>1. \A i \in 1..Chunks : Under("sender", [type |-> "file_chunk", file |-> f, n |-> i])'
        BY <2>5, <3>1
      <4>2. QED
        BY <3>2, <3>3, <4>1, <1>1 DEF InHand
    <3>4. CASE g # f
      <4>1. \A y : y.file = g /\ Under("receiver", y) => Under("receiver", y)'
        BY <3>1, <3>4 DEF Peers
      <4>2. \A y : Under("sender", y) => Under("sender", y)'
        BY <3>1 DEF Peers
      <4>3. g \in fileOut => g \in fileOut'
        BY <3>4, <1>9
      <4>4. QED
        BY <3>2, <4>1, <4>2, <4>3, <1>1 DEF InHand
    <3>5. QED
      BY <3>3, <3>4
  <2>16. QED
    BY <2>9, <2>10, <2>11, <2>12, <2>13, <2>14, <2>15
<1>10. CASE /\ f \in fileOut /\ x.n # 1 /\ fileOut' = fileOut \ {f}
            /\ wire' = Consumed("sender")
            /\ answer' = [answer EXCEPT ![f] = "rejected"]
            /\ UNCHANGED <<offer, queued>>
  <2>1. Flow("sender", <<>>) /\ Lossless("receiver", x)
    BY <1>2, <1>3, <1>10, ReadFlow
  <2>2. <<>> \in Seq(Frame) /\ <<>> \in Seq(FileFrame) /\ <<>> \in Seq(AgreedChunk')
    OBVIOUS
  <2>3. /\ answer'[f] = "rejected"
        /\ \A g \in Files : g # f => answer'[g] = answer[g]
    BY <1>3, <1>10 DEF TypeOK
  <2>4. TypeOK'
    <3>1. wire' \in [Peers -> Seq(Frame)] /\ queued' \in [Peers -> Seq(Frame)]
      BY <2>1, <2>2, FlowTypes
    <3>2. QED
      BY <3>1, <1>1, <1>3, <1>10 DEF TypeOK, Frame
  <2>5. AcksTell' /\ ChunksTell'
    BY <2>1, <2>2, <1>1, <1>2, <1>6, <1>7, FlowTells
  <2>6. OfferedOnce'
    BY <2>1, <1>1, <1>10, NoFrames, FlowOffers
  <2>7. OffersOpen'
    BY <1>10 DEF OffersOpen
  <2>8. HistoriesAgree'
    <3>1. offer[f] = "waiting"
      BY <1>10 DEF OffersOpen
    <3>2. QED
      BY <3>1, <2>3, <1>1, <1>3, <1>4, <1>10 DEF HistoriesAgree
  <2>9. CalmState'
    BY <2>1, <2>2, <2>3, <1>1, <1>2, <1>5, <1>10, FlowCalm DEF CalmState
  <2>10. TransferInHand'
    <3> SUFFICES ASSUME Calm', NEW g \in Files, Accepted(g)', ~Received(g)'
                 PROVE  InHand(g)'
      BY <2>4, TransferInHandsNext DEF AllInHand
    <3>1. InHand(g)
      BY <1>1, <1>5, TransferInHands DEF AllInHand, Accepted, Received
    <3>2. g # f
      BY <1>1, <1>4, <1>10 DEF OfferedOnce, Accepted
    <3>3. \A y : y.file = g /\ Under("receiver", y) => Under("receiver", y)'
      BY <2>1, <3>2 DEF Lossless, Peers
    <3>4. \A y : Under("sender", y) => Under("sender", y)'
      BY <2>1 DEF Lossless, Peers
    <3>5. g \in fileOut => g \in fileOut'
      BY <3>2, <1>10
    <3>6. QED
      BY <3>1, <3>3, <3>4, <3>5, <1>1 DEF InHand
  <2>11. QED
    BY <2>4, <2>5, <2>6, <2>7, <2>8, <2>9, <2>10
<1>11. QED
  BY <1>8, <1>9, <1>10 DEF HandleFileAck

\* A chunk is read: it is not waited for, or one more is there, or the file
\* is complete.
LEMMA HandleFileChunkStep ==
    ASSUME FileInvariant, HandleFileChunk
    PROVE  FileInvariant'
<1> USE DEF FileInvariant
<1> PICK x : x = Head(wire["sender"])
  OBVIOUS
<1> PICK f : f = x.file
  OBVIOUS
<1>1. /\ Reads("receiver", "file_chunk") /\ wire' = Consumed("receiver")
      /\ UNCHANGED <<fileOut, offer, answer, dialogs, requests, friend, connected, live,
                     queued, breaks, restarts, declines>>
  BY DEF HandleFileChunk, Reads, senderVars, linkVars, counters
<1>2. "receiver" \in Peers /\ Peer("receiver") = "sender"
  BY Peering DEF Peers
<1>3. wire["sender"] # <<>> /\ x \in FileFrame /\ x.type = "file_chunk" /\ f \in Files
  BY <1>1, <1>2, FileFrameRead
<1>4. x.n \in 1..Chunks /\ Agreed(f) /\ x = [type |-> "file_chunk", file |-> f, n |-> x.n]
  <2>1. x \in AgreedChunk
    BY <1>3 DEF ChunksTell
  <2>2. QED
    BY <2>1, <1>3 DEF AgreedChunk, FileFrame
<1>5. Flow("receiver", <<>>) /\ Lossless("sender", x)
  BY <1>1, <1>2, <1>3, ReadFlow
<1>6. <<>> \in Seq(Frame) /\ <<>> \in Seq(FileFrame)
      /\ <<>> \in Seq(TrueAck') /\ <<>> \in Seq(AgreedChunk')
  OBVIOUS
<1> DEFINE got == parts[f] \cup {x.n}
<1>7. \/ f \notin DOMAIN parts /\ UNCHANGED <<parts, shown>>
      \/ f \in DOMAIN parts /\ parts' = [parts EXCEPT ![f] = got] /\ shown' = shown
      \/ /\ f \in DOMAIN parts /\ parts' = Without(parts, f)
         /\ shown' = [shown EXCEPT ![f] = @ \cup {"received"}]
  BY DEF HandleFileChunk
<1>8. /\ DOMAIN parts' \subseteq DOMAIN parts
      /\ \A g \in DOMAIN parts : g # f => g \in DOMAIN parts' /\ parts'[g] = parts[g]
      /\ f \in DOMAIN parts' => parts'[f] = got /\ f \in DOMAIN parts
  BY <1>7 DEF Without
<1>9. /\ shown' \in [Files -> SUBSET {"receiving", "rejected", "received"}]
      /\ \A g \in Files : /\ "receiving" \in shown'[g] <=> "receiving" \in shown[g]
                          /\ "rejected" \in shown'[g] <=> "rejected" \in shown[g]
                          /\ g # f => shown'[g] = shown[g]
      /\ f \in DOMAIN parts /\ f \notin DOMAIN parts' => "received" \in shown'[f]
      /\ "received" \in shown[f] => "received" \in shown'[f]
  <2>1. CASE shown' = shown /\ DOMAIN parts' = DOMAIN parts
    BY <2>1 DEF TypeOK
  <2>2. CASE shown' = [shown EXCEPT ![f] = @ \cup {"received"}]
    BY <2>2, <1>3 DEF TypeOK
  <2>3. QED
    BY <2>1, <2>2, <1>7
<1> HIDE DEF got
<1>10. TypeOK'
  <2>1. wire' \in [Peers -> Seq(Frame)] /\ queued' \in [Peers -> Seq(Frame)]
    BY <1>5, <1>6, FlowTypes
  <2>2. DOMAIN parts' \subseteq Files /\ \A g \in DOMAIN parts' : parts'[g] \subseteq 1..Chunks
    BY <1>4, <1>8 DEF TypeOK, got
  <2>3. QED
    BY <2>1, <2>2, <1>1, <1>9 DEF TypeOK, Frame
<1>11. \A g \in Files : Agreed(g)' <=> Agreed(g)
  BY <1>9 DEF Agreed
<1>12. AcksTell' /\ ChunksTell'
  <2>1. \A g \in DOMAIN parts' : Agreed(g)'
    BY <1>8, <1>11 DEF ChunksTell, TypeOK
  <2>2. QED
    BY <2>1, <1>2, <1>5, <1>6, <1>9, <1>11, FlowTells
<1>13. OfferedOnce'
  BY <1>1, <1>5, <1>9, FlowOffers
<1>14. OffersOpen'
  BY <1>1 DEF OffersOpen
<1>15. HistoriesAgree'
  BY <1>1, <1>9 DEF HistoriesAgree
<1>16. Calm' <=> Calm
  BY <1>1 DEF Calm
<1>17. CalmState'
  BY <1>1, <1>2, <1>5, <1>6, <1>16, FlowCalm DEF CalmState
<1>18. TransferInHand'
  <2> SUFFICES ASSUME Calm', NEW g \in Files, Accepted(g)', ~Received(g)'
               PROVE  InHand(g)'
    BY <1>10, TransferInHandsNext DEF AllInHand
  <2>1. Accepted(g) /\ ~Received(g)
    BY <1>9 DEF Accepted, Received
  <2>2. InHand(g)
    BY <2>1, <1>16, TransferInHands DEF AllInHand
  <2>3. \A y : y.type = "file_ack" /\ Under("receiver", y) => Under("receiver", y)'
    BY <1>3, <1>5 DEF Lossless, Peers
  <2>4. \A y : Under("sender", y) => Under("sender", y)' \/ y = x
    BY <1>5 DEF Lossless, Peers
  <2>5. g \in DOMAIN parts' /\ parts[g] \subseteq parts'[g] /\ (g = f => x.n \in parts'[g])
    <3>1. CASE g = f
      BY <3>1, <2>2, <1>8, <1>9 DEF InHand, Received, got
    <3>2. CASE g # f
      BY <3>2, <2>2, <1>8 DEF InHand
    <3>3. QED
      BY <3>1, <3>2
  <2>6. ASSUME NEW i, Under("sender", [type |-> "file_chunk", file |-> g, n |-> i])
        PROVE  \/ i \in parts'[g]
               \/ Under("sender", [type |-> "file_chunk", file |-> g, n |-> i])'
    <3>1. CASE [type |-> "file_chunk", file |-> g, n |-> i] = x
      <4>1. g = f /\ i = x.n
        BY <3>1
      <4>2. QED
        BY <4>1, <2>5
    <3>2. CASE [type |-> "file_chunk", file |-> g, n |-> i] # x
      BY <3>2, <2>4, <2>6
    <3>3. QED
      BY <3>1, <3>2
  <2>7. CASE g \in fileOut /\ \E y : Under("receiver", y) /\ y.type = "file_ack" /\ y.file = g
    BY <2>3, <2>5, <2>7, <1>1 DEF InHand
  <2>8. CASE \A i \in 1..Chunks :
             \/ i \in parts[g]
             \/ Under("sender", [type |-> "file_chunk", file |-> g, n |-> i])
    BY <2>5, <2>6, <2>8 DEF InHand
  <2>9. QED
    BY <2>2, <2>7, <2>8 DEF InHand
<1>19. QED
  BY <1>10, <1>12, <1>13, <1>14, <1>15, <1>17, <1>18

\* A step that changes nothing.
LEMMA StutterStep ==
    ASSUME FileInvariant, UNCHANGED vars
    PROVE  FileInvariant'
<1>1. UNCHANGED <<fileOut, offer, answer, dialogs, requests, parts, shown, friend,
                 connected, live, queued, wire, breaks, restarts, declines>>
  BY DEF vars
<1>2. Flow("sender", <<>>) /\ "sender" \in Peers
  BY <1>1, StillFlow DEF Peers, FileInvariant
<1>3. TypeOK' /\ AcksTell' /\ ChunksTell' /\ OfferedOnce' /\ OffersOpen' /\ HistoriesAgree'
  BY <1>1, <1>2, QuietStep DEF TypeOK, FileInvariant
<1>4. CalmState' /\ TransferInHand'
  BY <1>1 DEF FileInvariant, CalmState, Calm, TransferInHand, OnItsWay, Holds, ChunkInHand,
              Accepted, Received
<1>5. QED
  BY <1>3, <1>4 DEF FileInvariant

\* At first nothing is offered.
LEMMA FileInit == Init => FileInvariant
<1> SUFFICES ASSUME Init
             PROVE  FileInvariant
  OBVIOUS
<1> USE DEF Init
<1>1. \A p \in Peers : wire[p] = <<>> /\ queued[p] = <<>>
  OBVIOUS
<1>2. "sender" \in Peers /\ "receiver" \in Peers
  BY DEF Peers
<1>3. TypeOK
  <2>1. DOMAIN parts = {}
    BY DEF NoParts
  <2>2. \A p \in Peers : <<>> \in Seq(FileFrame \cup DeclineFrame)
    OBVIOUS
  <2>3. queued \in [Peers -> Seq(FileFrame \cup DeclineFrame)]
        /\ wire \in [Peers -> Seq(FileFrame \cup DeclineFrame)]
    BY <2>2
  <2>4. friend \in [Peers -> BOOLEAN] /\ live \in BOOLEAN
    OBVIOUS
  <2>5. /\ offer \in [Files -> {"none", "waiting", "sent"}]
        /\ answer \in [Files -> {"none", "accepted", "rejected"}]
        /\ shown \in [Files -> SUBSET {"receiving", "rejected", "received"}]
    OBVIOUS
  <2>6. dialogs \in Seq(Files) /\ {breaks, restarts, declines} \subseteq Nat
    OBVIOUS
  <2>7. QED
    BY <2>1, <2>3, <2>4, <2>5, <2>6 DEF TypeOK
<1>4. AcksTell /\ ChunksTell
  BY <1>1, <1>2 DEF AcksTell, ChunksTell, NoParts
<1>5. OfferedOnce
  <2>1. \A f : Placed(f) /\ ~Afoot(f)
    BY <1>1, <1>2, NoFrames DEF Placed, Afoot
  <2>2. \A f : ~Asked(f) /\ AskedOnce(f)
    BY DEF Asked, AskedOnce
  <2>3. \A f \in Files : ~Answered(f)
    BY DEF Answered
  <2>4. QED
    BY <2>1, <2>2, <2>3 DEF OfferedOnce
<1>6. OffersOpen /\ HistoriesAgree
  BY DEF OffersOpen, HistoriesAgree
<1>7. CalmState /\ TransferInHand
  BY <1>1 DEF CalmState, TransferInHand, Accepted
<1>8. QED
  BY <1>3, <1>4, <1>5, <1>6, <1>7 DEF FileInvariant

-----------------------------------------------------------------------------

\* Every step preserves the invariant, and with it its consequences.
THEOREM FileInvariance == Spec => []FileInvariant
<1>1. FileInvariant /\ [Next]_vars => FileInvariant'
  <2> SUFFICES ASSUME FileInvariant, [Next]_vars
               PROVE  FileInvariant'
    OBVIOUS
  <2>1. ASSUME NEW f \in Files, SendFile(f)
        PROVE  FileInvariant'
    BY <2>1, SendFileStep
  <2>2. ASSUME AcceptFile \/ RejectFile \/ EscapeDialog
        PROVE  FileInvariant'
    BY <2>2, AcceptFileStep, RejectFileStep, EscapeDialogStep
  <2>3. ASSUME Deliver
        PROVE  FileInvariant'
    BY <2>3, HandleFriendDeclineStep, IgnoreStep, HandleFileMetaStep, HandleFileAckStep,
       HandleFileChunkStep DEF Deliver
  <2>4. ASSUME NEW p \in Peers, DeclineFriend(p) \/ Register(p) \/ Drop(p) \/ Restart(p)
        PROVE  FileInvariant'
    BY <2>4, DeclineFriendStep, RegisterStep, DropStep, RestartStep
  <2>5. ASSUME Break
        PROVE  FileInvariant'
    BY <2>5, BreakStep
  <2>6. ASSUME UNCHANGED vars
        PROVE  FileInvariant'
    BY <2>6, StutterStep
  <2>7. QED
    BY <2>1, <2>2, <2>3, <2>4, <2>5, <2>6 DEF Next
<1>2. QED
  BY <1>1, FileInit, PTL DEF Spec

\* Every variable of a file transfer keeps its type: no chunk has a number
\* that is none of the file's, no dialog is open for a file there is not.
THEOREM FileTyping == Spec => []TypeOK
<1>1. FileInvariant => TypeOK
  BY DEF FileInvariant
<1>2. QED
  BY <1>1, FileInvariance, PTL

\* No data before consent (accept_file, _handle_file_ack): a chunk is outside
\* its sender only if the receiver accepted the file and has not refused it,
\* whatever links and processes did in between.
THEOREM Consent == Spec => []DataOnlyAfterConsent
<1>1. FileInvariant => DataOnlyAfterConsent
  <2> SUFFICES ASSUME FileInvariant, NEW f \in Files,
                      OnItsWay("sender", "file_chunk", f) \/ f \in DOMAIN parts
               PROVE  shown[f] \cap {"receiving", "rejected"} = {"receiving"}
    BY DEF DataOnlyAfterConsent
  <2>1. CASE f \in DOMAIN parts
    BY <2>1 DEF FileInvariant, ChunksTell, Agreed
  <2>2. ASSUME NEW s \in Seq(AgreedChunk), Holds(s, "file_chunk", f)
        PROVE  Agreed(f)
    <3>1. PICK i \in DOMAIN s : s[i].type = "file_chunk" /\ s[i].file = f
      BY <2>2 DEF Holds
    <3>2. s[i] \in AgreedChunk
      BY <3>1
    <3>3. QED
      BY <3>1, <3>2 DEF AgreedChunk
  <2>3. CASE OnItsWay("sender", "file_chunk", f)
    BY <2>2, <2>3 DEF OnItsWay, FileInvariant, ChunksTell, Agreed
  <2>4. QED
    BY <2>1, <2>3
<1>2. QED
  BY <1>1, FileInvariance, PTL

\* The sender's history says of an answer what the receiver's says
\* (_handle_file_ack): an ack is the answer to the one dialog of its file.
THEOREM Agreement == Spec => []HistoriesAgree
<1>1. FileInvariant => HistoriesAgree
  BY DEF FileInvariant
<1>2. QED
  BY <1>1, FileInvariance, PTL

\* While nothing goes wrong no part of an accepted file is lost between the
\* sender's memory, the queue, the link and the receiver's memory
\* (_handle_body, _assemble_file).
THEOREM Transfers == Spec => []TransferInHand
<1>1. FileInvariant => TransferInHand
  BY DEF FileInvariant
<1>2. QED
  BY <1>1, FileInvariance, PTL
===============================================================================
