--------------------------- MODULE LanLinkProofs ---------------------------
(***************************************************************************)
(* Safety of LanLink for every set of peers and sockets and every bound:   *)
(* types, open ends are registered connections and the reverse, Core is    *)
(* told of exactly the registered peers, and, while at most one socket     *)
(* breaks, frames are read in the order they were sent.                    *)
(***************************************************************************)
EXTENDS LanLink, TLAPS

\* No peer dials itself.
OthersDialled == \A x \in Peers : x \notin dialing[x]

\* A socket in use has two ends.
TwoEnds ==
    \A s \in Sockets :
        \/ ends[s] = {}
        \/ \E x, y \in Peers : x # y /\ ends[s] = {x, y}

\* Only its ends write to a socket.
WritersAreEnds == \A s \in Sockets : writing[s] \subseteq ends[s]

\* A registered connection of x to y is an open end of a socket of the two.
RegisteredIsOpen ==
    \A x, y \in Peers, s \in Sockets :
        connections[x][y] = s
            => x # y /\ ends[s] = {x, y} /\ phase[s][x] = "open"

\* What the connections, the phases and Core's view have to do with each
\* other: every step keeps the whole of it.
Registration ==
    TwoEnds /\ WritersAreEnds /\ RegisteredIsOpen /\ OpenIsRegistered /\ CoreIsTold

\* The variables Registration is about.
registrationVars == <<ends, phase, writing, connections, told>>

-----------------------------------------------------------------------------
(***************************************************************************)
(* The other end of a socket.                                              *)
(***************************************************************************)

\* Other is the second of two ends.
LEMMA OtherOfTwo ==
    ASSUME NEW s, NEW x, NEW y, x # y, y \in ends[s],
           \A z \in ends[s] : z = x \/ z = y
    PROVE  Other(s, x) = y
<1>1. \E z \in ends[s] : z # x
  OBVIOUS
<1>2. Other(s, x) \in ends[s] /\ Other(s, x) # x
  BY <1>1, Zenon DEF Other
<1> QED
  BY <1>2

\* An end of a socket has another end, and the two are the ends.
LEMMA OtherEnd ==
    ASSUME TwoEnds, NEW s \in Sockets, NEW x \in ends[s]
    PROVE  /\ x \in Peers
           /\ Other(s, x) \in Peers
           /\ Other(s, x) # x
           /\ ends[s] = {x, Other(s, x)}
           /\ Other(s, Other(s, x)) = x
<1>1. PICK a, b \in Peers : a # b /\ ends[s] = {a, b}
  BY DEF TwoEnds
<1>2. Other(s, a) = b /\ Other(s, b) = a
  BY <1>1, OtherOfTwo
<1>3. x = a \/ x = b
  BY <1>1
<1> QED
  BY <1>1, <1>2, <1>3

\* Other depends on the ends only.
LEMMA OtherUnchanged ==
    ASSUME NEW s, NEW x, ends'[s] = ends[s]
    PROVE  Other(s, x)' = Other(s, x)
BY DEF Other

-----------------------------------------------------------------------------
(***************************************************************************)
(* Types.                                                                  *)
(***************************************************************************)

\* A sequence of numbers stays one when its head is taken or a number added.
LEMMA NumberSeqs ==
    /\ <<>> \in Seq(Nat)
    /\ \A q \in Seq(Nat) : q # <<>> => Tail(q) \in Seq(Nat) /\ Head(q) \in Nat
    /\ \A q \in Seq(Nat) : \A n \in Nat : Append(q, n) \in Seq(Nat)
OBVIOUS

\* Closing a writer and forgetting a connection keep the types.
LEMMA DropTypes ==
    ASSUME TypeOK, NEW s \in Sockets, NEW x \in Peers, Other(s, x) \in Peers,
           Forget(s, x), CloseWriter(s, x)
    PROVE  /\ phase' \in [Sockets -> [Peers -> Phase]]
           /\ connections' \in [Peers -> [Peers -> Sockets \cup {None}]]
           /\ told' \in [Peers -> SUBSET Peers]
<1> DEFINE y == Other(s, x)
<1>1. /\ phase \in [Sockets -> [Peers -> Phase]]
      /\ connections \in [Peers -> [Peers -> Sockets \cup {None}]]
      /\ told \in [Peers -> SUBSET Peers]
  BY DEF TypeOK
<1>2. phase' \in [Sockets -> [Peers -> Phase]]
  BY <1>1 DEF CloseWriter, Phase
<1>3. CASE connections[x][y] # s
  BY <1>1, <1>2, <1>3 DEF Forget
<1>4. CASE connections[x][y] = s
  <2>1. /\ connections' = [connections EXCEPT ![x][y] = None]
        /\ told' = [told EXCEPT ![x] = @ \ {y}]
    BY <1>4 DEF Forget
  <2> HIDE DEF y
  <2>2. connections' \in [Peers -> [Peers -> Sockets \cup {None}]]
    BY <1>1, <2>1
  <2>3. told' \in [Peers -> SUBSET Peers]
    BY <1>1, <2>1
  <2> QED
    BY <1>2, <2>2, <2>3
<1> QED
  BY <1>3, <1>4

\* Reading the next frame of a stream keeps the types.
LEMMA ReadTypes ==
    ASSUME TypeOK, NEW s \in Sockets, NEW y \in Peers, stream[s][y] # <<>>,
           stream' = [stream EXCEPT ![s][y] = Tail(@)]
    PROVE  /\ stream' \in [Sockets -> [Peers -> Seq(Nat)]]
           /\ Head(stream[s][y]) \in Nat
<1>1. stream \in [Sockets -> [Peers -> Seq(Nat)]] /\ stream[s][y] \in Seq(Nat)
  BY DEF TypeOK
<1>2. Tail(stream[s][y]) \in Seq(Nat) /\ Head(stream[s][y]) \in Nat
  BY <1>1, NumberSeqs
<1> QED
  BY <1>1, <1>2

\* Every step keeps the types.
LEMMA TypeStep ==
    ASSUME TypeOK, TwoEnds, WritersAreEnds, [Next]_vars
    PROVE  TypeOK'
<1>0. /\ dialing \in [Peers -> SUBSET Peers]
      /\ ends \in [Sockets -> SUBSET Peers]
      /\ phase \in [Sockets -> [Peers -> Phase]]
      /\ stream \in [Sockets -> [Peers -> Seq(Nat)]]
      /\ queue \in [Sockets -> [Peers -> Seq(Nat)]]
      /\ writing \in [Sockets -> SUBSET Peers]
      /\ connections \in [Peers -> [Peers -> Sockets \cup {None}]]
      /\ told \in [Peers -> SUBSET Peers]
      /\ sent \in [Peers -> [Peers -> Nat]]
      /\ received \in [Peers -> [Peers -> Seq(Nat)]]
  BY DEF TypeOK
<1>1. ASSUME NEW x \in Peers, NEW y \in Peers, HearBeacon(x, y) \/ Connect(x, y)
      PROVE  TypeOK'
  <2>1. dialing' = [dialing EXCEPT ![x] = @ \cup {y}]
    BY <1>1 DEF HearBeacon, Connect
  <2>2. dialing' \in [Peers -> SUBSET Peers]
    BY <1>0, <2>1
  <2> QED
    BY <1>1, <2>2 DEF HearBeacon, Connect, TypeOK
<1>2. ASSUME NEW x \in Peers, NEW y \in Peers, Dial(x, y)
      PROVE  TypeOK'
  <2>1. PICK s \in Sockets :
          /\ ends' = [ends EXCEPT ![s] = {x, y}]
          /\ phase' = [phase EXCEPT ![s] = [z \in Peers |->
                IF z \in {x, y} THEN "greeting" ELSE "unused"]]
          /\ stream' = [stream EXCEPT ![s] = [z \in Peers |->
                IF z \in {x, y} THEN <<Hello>> ELSE <<>>]]
    BY <1>2 DEF Dial
  <2>2. dialing' = [dialing EXCEPT ![x] = @ \ {y}]
    BY <1>2 DEF Dial
  <2>3. <<Hello>> \in Seq(Nat) /\ <<>> \in Seq(Nat)
    BY DEF Hello
  <2>4. dialing' \in [Peers -> SUBSET Peers]
    BY <1>0, <2>2
  <2>5. ends' \in [Sockets -> SUBSET Peers]
    BY <1>0, <2>1
  <2>6. phase' \in [Sockets -> [Peers -> Phase]]
    BY <1>0, <2>1 DEF Phase
  <2>7. stream' \in [Sockets -> [Peers -> Seq(Nat)]]
    BY <1>0, <2>1, <2>3
  <2> QED
    BY <1>2, <2>4, <2>5, <2>6, <2>7 DEF Dial, TypeOK
<1>3. ASSUME NEW x \in Peers, NEW y \in Peers, SendFrame(x, y)
      PROVE  TypeOK'
  <2> DEFINE s == connections[x][y]
  <2>1. /\ s # None
        /\ sent' = [sent EXCEPT ![x][y] = @ + 1]
        /\ queue' = [queue EXCEPT ![s][x] = Append(@, sent[x][y] + 1)]
    BY <1>3 DEF SendFrame
  <2>2. s \in Sockets
    BY <1>0, <2>1
  <2> HIDE DEF s
  <2>3. sent' \in [Peers -> [Peers -> Nat]]
    BY <1>0, <2>1
  <2>4. Append(queue[s][x], sent[x][y] + 1) \in Seq(Nat)
    BY <1>0, <2>2, NumberSeqs
  <2>5. queue' \in [Sockets -> [Peers -> Seq(Nat)]]
    BY <1>0, <2>1, <2>2, <2>4
  <2> QED
    BY <1>3, <2>3, <2>5 DEF SendFrame, TypeOK
<1>4. ASSUME NEW s \in Sockets, NEW x \in Peers, Greet(s, x)
      PROVE  TypeOK'
  <2> DEFINE y == Other(s, x)
  <2>1. y \in Peers
    BY <1>4, OtherEnd DEF Greet, Uses
  <2>2. stream[s][y] # <<>> /\ stream' = [stream EXCEPT ![s][y] = Tail(@)]
    BY <1>4 DEF Greet
  <2>3. stream' \in [Sockets -> [Peers -> Seq(Nat)]]
    BY <2>1, <2>2, ReadTypes
  <2>4. CASE connections[x][y] # None
    <3>1. phase' = [phase EXCEPT ![s][x] = "closed"]
          /\ UNCHANGED <<connections, told, writing>>
      BY <1>4, <2>4 DEF Greet, CloseWriter
    <3>2. phase' \in [Sockets -> [Peers -> Phase]]
      BY <1>0, <3>1 DEF Phase
    <3> QED
      BY <1>4, <2>3, <3>1, <3>2 DEF Greet, TypeOK
  <2>5. CASE connections[x][y] = None
    <3>1. /\ connections' = [connections EXCEPT ![x][y] = s]
          /\ told' = [told EXCEPT ![x] = @ \cup {y}]
          /\ phase' = [phase EXCEPT ![s][x] = "open"]
          /\ writing' = [writing EXCEPT ![s] = @ \cup {x}]
      BY <1>4, <2>5 DEF Greet
    <3> HIDE DEF y
    <3>2. phase' \in [Sockets -> [Peers -> Phase]]
      BY <1>0, <3>1 DEF Phase
    <3>3. writing' \in [Sockets -> SUBSET Peers]
      BY <1>0, <3>1
    <3>4. connections' \in [Peers -> [Peers -> Sockets \cup {None}]]
      BY <1>0, <2>1, <3>1
    <3>5. told' \in [Peers -> SUBSET Peers]
      BY <1>0, <2>1, <3>1
    <3> QED
      BY <1>4, <2>3, <3>2, <3>3, <3>4, <3>5 DEF Greet, TypeOK
  <2> QED
    BY <2>4, <2>5
<1>5. ASSUME NEW s \in Sockets, NEW x \in Peers, HandshakeFails(s, x)
      PROVE  TypeOK'
  <2>1. phase' \in [Sockets -> [Peers -> Phase]]
    BY <1>0, <1>5 DEF HandshakeFails, CloseWriter, Phase
  <2>2. failures' \in Nat
    BY <1>5 DEF HandshakeFails, TypeOK
  <2> QED
    BY <1>5, <2>1, <2>2 DEF HandshakeFails, TypeOK
<1>6. ASSUME NEW s \in Sockets, NEW x \in Peers, Write(s, x)
      PROVE  TypeOK'
  <2>1. /\ queue[s][x] # <<>> /\ queue' = [queue EXCEPT ![s][x] = Tail(@)]
        /\ \/ UNCHANGED stream
           \/ stream' = [stream EXCEPT ![s][x] = Append(@, Head(queue[s][x]))]
    BY <1>6 DEF Write
  <2>2. Tail(queue[s][x]) \in Seq(Nat) /\ Head(queue[s][x]) \in Nat
    BY <1>0, <2>1, NumberSeqs
  <2>3. Append(stream[s][x], Head(queue[s][x])) \in Seq(Nat)
    BY <1>0, <2>2, NumberSeqs
  <2>4. queue' \in [Sockets -> [Peers -> Seq(Nat)]]
    BY <1>0, <2>1, <2>2
  <2>5. stream' \in [Sockets -> [Peers -> Seq(Nat)]]
    <3>1. CASE UNCHANGED stream
      BY <1>0, <3>1
    <3>2. CASE stream' = [stream EXCEPT ![s][x] = Append(@, Head(queue[s][x]))]
      BY <1>0, <2>3, <3>2
    <3> QED
      BY <2>1, <3>1, <3>2
  <2> QED
    BY <1>6, <2>4, <2>5 DEF Write, TypeOK
<1>7. ASSUME NEW s \in Sockets, NEW x \in Peers, WriteFails(s, x)
      PROVE  TypeOK'
  <2>1. Other(s, x) \in Peers
    BY <1>7, OtherEnd DEF WriteFails, WritersAreEnds
  <2>2. queue' = [queue EXCEPT ![s][x] = <<>>] /\ <<>> \in Seq(Nat)
    BY <1>7 DEF WriteFails
  <2>3. queue' \in [Sockets -> [Peers -> Seq(Nat)]]
    BY <1>0, <2>2
  <2>4. writing' \in [Sockets -> SUBSET Peers]
    BY <1>0, <1>7 DEF WriteFails
  <2> QED
    BY <1>7, <2>1, <2>3, <2>4, DropTypes DEF WriteFails, TypeOK
<1>8. ASSUME NEW s \in Sockets, NEW x \in Peers, Read(s, x)
      PROVE  TypeOK'
  <2> DEFINE y == Other(s, x)
  <2>1. y \in Peers
    BY <1>8, OtherEnd DEF Read, Uses
  <2>2. /\ stream[s][y] # <<>> /\ stream' = [stream EXCEPT ![s][y] = Tail(@)]
        /\ received' = [received EXCEPT ![x][y] = Append(@, Head(stream[s][y]))]
    BY <1>8 DEF Read
  <2> HIDE DEF y
  <2>3. /\ stream' \in [Sockets -> [Peers -> Seq(Nat)]]
        /\ Head(stream[s][y]) \in Nat
    BY <2>1, <2>2, ReadTypes
  <2>4. Append(received[x][y], Head(stream[s][y])) \in Seq(Nat)
    BY <1>0, <2>1, <2>3
  <2>5. received' \in [Peers -> [Peers -> Seq(Nat)]]
    BY <1>0, <2>1, <2>2, <2>4
  <2> QED
    BY <1>8, <2>3, <2>5 DEF Read, TypeOK
<1>9. ASSUME NEW s \in Sockets, NEW x \in Peers, ReadEnds(s, x)
      PROVE  TypeOK'
  <2>1. Other(s, x) \in Peers
    BY <1>9, OtherEnd DEF ReadEnds, Uses
  <2> QED
    BY <1>9, <2>1, DropTypes DEF ReadEnds, TypeOK
<1>10. ASSUME NEW s \in Sockets, Cut(s)
       PROVE  TypeOK'
  BY <1>10 DEF Cut, TypeOK
<1>11. ASSUME NEW s \in Sockets, Recycle(s)
       PROVE  TypeOK'
  BY <1>11 DEF Recycle, TypeOK, Phase
<1>12. ASSUME UNCHANGED vars
       PROVE  TypeOK'
  BY <1>12 DEF vars, TypeOK
<1> QED
  BY <1>1, <1>2, <1>3, <1>4, <1>5, <1>6, <1>7, <1>8, <1>9, <1>10, <1>11, <1>12
     DEF Next, Progress

-----------------------------------------------------------------------------
(***************************************************************************)
(* Connections.                                                            *)
(***************************************************************************)

\* Steps that leave the connections alone keep Registration.
LEMMA Unmoved ==
    ASSUME Registration, UNCHANGED registrationVars
    PROVE  Registration'
BY DEF Registration, registrationVars, TwoEnds, WritersAreEnds, RegisteredIsOpen,
       OpenIsRegistered, CoreIsTold, Registered, Other

\* An end that is not open is nobody's connection.
LEMMA NotRegistered ==
    ASSUME Registration, NEW s \in Sockets, NEW x \in ends[s],
           phase[s][x] # "open"
    PROVE  \A y \in Peers : connections[x][y] # s
BY OtherEnd DEF Registration, RegisteredIsOpen

\* Handing a greeting end to the loops and registering it keeps Registration.
LEMMA GreetStep ==
    ASSUME TypeOK, Registration, NEW s \in Sockets, NEW x \in Peers, Greet(s, x)
    PROVE  Registration'
<1> DEFINE y == Other(s, x)
<1>1. /\ x \in ends[s] /\ y \in Peers /\ y # x /\ ends[s] = {x, y}
      /\ phase[s][x] = "greeting" /\ UNCHANGED ends
  BY OtherEnd DEF Greet, Uses, Registration
<1>2. /\ phase \in [Sockets -> [Peers -> Phase]]
      /\ connections \in [Peers -> [Peers -> Sockets \cup {None}]]
      /\ told \in [Peers -> SUBSET Peers]
      /\ writing \in [Sockets -> SUBSET Peers]
  BY DEF TypeOK
<1>3. TwoEnds /\ WritersAreEnds /\ RegisteredIsOpen /\ OpenIsRegistered /\ CoreIsTold
  BY DEF Registration
<1>4. \A t \in Sockets : \A z \in ends[t] :
         /\ Other(t, z)' = Other(t, z)
         /\ z \in Peers /\ Other(t, z) \in Peers /\ ends[t] = {z, Other(t, z)}
  BY <1>1, <1>3, OtherEnd, OtherUnchanged
<1>5. TwoEnds'
  BY <1>1, <1>3 DEF TwoEnds
<1>6. CASE connections[x][y] # None
  <2>1. /\ phase' = [phase EXCEPT ![s][x] = "closed"]
        /\ UNCHANGED <<connections, told, writing>>
    BY <1>6 DEF Greet, CloseWriter
  <2> HIDE DEF y
  <2>2. WritersAreEnds'
    BY <1>1, <1>3, <2>1 DEF WritersAreEnds
  <2>3. RegisteredIsOpen'
    <3> SUFFICES ASSUME NEW z \in Peers, NEW w \in Peers, NEW t \in Sockets,
                        connections[z][w] = t
                 PROVE  z # w /\ ends[t] = {z, w} /\ phase'[t][z] = "open"
      BY <1>1, <2>1 DEF RegisteredIsOpen
    <3>1. z # w /\ ends[t] = {z, w} /\ phase[t][z] = "open"
      BY <1>3 DEF RegisteredIsOpen
    <3> QED
      BY <1>1, <1>2, <2>1, <3>1
  <2>4. OpenIsRegistered'
    <3> SUFFICES ASSUME NEW t \in Sockets, NEW z \in ends[t]
                 PROVE  phase'[t][z] = "open" <=> connections[z][Other(t, z)] = t
      BY <1>1, <1>4, <2>1 DEF OpenIsRegistered
    <3>1. phase[t][z] = "open" <=> connections[z][Other(t, z)] = t
      BY <1>3 DEF OpenIsRegistered
    <3> QED
      BY <1>1, <1>2, <1>4, <2>1, <3>1
  <2>5. CoreIsTold'
    BY <1>3, <2>1 DEF CoreIsTold, Registered
  <2> QED
    BY <1>5, <2>2, <2>3, <2>4, <2>5 DEF Registration
<1>7. CASE connections[x][y] = None
  <2>1. /\ connections' = [connections EXCEPT ![x][y] = s]
        /\ told' = [told EXCEPT ![x] = @ \cup {y}]
        /\ phase' = [phase EXCEPT ![s][x] = "open"]
        /\ writing' = [writing EXCEPT ![s] = @ \cup {x}]
    BY <1>7 DEF Greet
  <2>2. None \notin Sockets
    BY LanLinkAssumption
  <2> HIDE DEF y
  <2>3. WritersAreEnds'
    BY <1>1, <1>2, <1>3, <2>1 DEF WritersAreEnds
  <2>4. RegisteredIsOpen'
    <3> SUFFICES ASSUME NEW z \in Peers, NEW w \in Peers, NEW t \in Sockets,
                        connections'[z][w] = t
                 PROVE  z # w /\ ends[t] = {z, w} /\ phase'[t][z] = "open"
      BY <1>1 DEF RegisteredIsOpen
    <3>1. CASE z = x /\ w = y
      BY <1>1, <1>2, <2>1, <3>1
    <3>2. CASE ~(z = x /\ w = y)
      <4>1. connections[z][w] = t
        BY <1>1, <1>2, <2>1, <3>2
      <4>2. z # w /\ ends[t] = {z, w} /\ phase[t][z] = "open"
        BY <1>3, <4>1 DEF RegisteredIsOpen
      <4> QED
        BY <1>1, <1>2, <2>1, <4>2
    <3> QED
      BY <3>1, <3>2
  <2>5. OpenIsRegistered'
    <3> SUFFICES ASSUME NEW t \in Sockets, NEW z \in ends[t]
                 PROVE  phase'[t][z] = "open" <=> connections'[z][Other(t, z)] = t
      BY <1>1, <1>4 DEF OpenIsRegistered
    <3>1. phase[t][z] = "open" <=> connections[z][Other(t, z)] = t
      BY <1>3 DEF OpenIsRegistered
    <3>2. CASE t = s /\ z = x
      BY <1>1, <1>2, <2>1, <3>2 DEF y
    <3>3. CASE t # s /\ z = x /\ Other(t, z) = y
      BY <1>1, <1>2, <1>7, <2>1, <2>2, <3>1, <3>3
    <3>4. CASE z # x \/ (t # s /\ Other(t, z) # y)
      BY <1>1, <1>2, <1>4, <2>1, <3>1, <3>4
    <3> QED
      BY <3>2, <3>3, <3>4
  <2>6. CoreIsTold'
    BY <1>1, <1>2, <1>3, <2>1, <2>2 DEF CoreIsTold, Registered
  <2> QED
    BY <1>5, <2>3, <2>4, <2>5, <2>6 DEF Registration
<1> QED
  BY <1>6, <1>7

\* Closing an end, and forgetting the peer if it was its connection, keeps
\* Registration, whichever loop does it and however late.
LEMMA CloseStep ==
    ASSUME TypeOK, Registration, NEW s \in Sockets, NEW x \in ends[s],
           CloseWriter(s, x), UNCHANGED ends,
           \/ Forget(s, x)
           \/ phase[s][x] # "open" /\ UNCHANGED <<connections, told>>,
           \A t \in Sockets : writing'[t] \subseteq writing[t]
    PROVE  Registration'
<1> DEFINE y == Other(s, x)
<1>1. x \in Peers /\ y \in Peers /\ y # x /\ ends[s] = {x, y}
  BY OtherEnd DEF Registration
<1>2. /\ phase \in [Sockets -> [Peers -> Phase]]
      /\ connections \in [Peers -> [Peers -> Sockets \cup {None}]]
      /\ told \in [Peers -> SUBSET Peers]
  BY DEF TypeOK
<1>3. TwoEnds /\ WritersAreEnds /\ RegisteredIsOpen /\ OpenIsRegistered /\ CoreIsTold
  BY DEF Registration
<1>4. \A t \in Sockets : \A z \in ends[t] :
         /\ Other(t, z)' = Other(t, z)
         /\ z \in Peers /\ Other(t, z) \in Peers /\ ends[t] = {z, Other(t, z)}
  BY <1>1, <1>3, OtherEnd, OtherUnchanged
<1>5. phase' = [phase EXCEPT ![s][x] = "closed"]
  BY DEF CloseWriter
<1>6. TwoEnds' /\ WritersAreEnds'
  BY <1>3 DEF TwoEnds, WritersAreEnds
<1>7. phase[s][x] = "open" <=> connections[x][y] = s
  BY <1>3 DEF OpenIsRegistered
<1>8. CASE connections[x][y] = s
  <2>1. /\ connections' = [connections EXCEPT ![x][y] = None]
        /\ told' = [told EXCEPT ![x] = @ \ {y}]
    BY <1>7, <1>8 DEF Forget
  <2>2. None \notin Sockets
    BY LanLinkAssumption
  <2> HIDE DEF y
  <2>3. RegisteredIsOpen'
    <3> SUFFICES ASSUME NEW z \in Peers, NEW w \in Peers, NEW t \in Sockets,
                        connections'[z][w] = t
                 PROVE  z # w /\ ends[t] = {z, w} /\ phase'[t][z] = "open"
      BY DEF RegisteredIsOpen
    <3>1. ~(z = x /\ w = y) /\ connections[z][w] = t
      BY <1>1, <1>2, <2>1, <2>2
    <3>2. z # w /\ ends[t] = {z, w} /\ phase[t][z] = "open"
      BY <1>3, <3>1 DEF RegisteredIsOpen
    <3>3. ~(t = s /\ z = x)
      BY <1>1, <3>1, <3>2
    <3> QED
      BY <1>1, <1>2, <1>5, <3>2, <3>3
  <2>4. OpenIsRegistered'
    <3> SUFFICES ASSUME NEW t \in Sockets, NEW z \in ends[t]
                 PROVE  phase'[t][z] = "open" <=> connections'[z][Other(t, z)] = t
      BY <1>4 DEF OpenIsRegistered
    <3>1. phase[t][z] = "open" <=> connections[z][Other(t, z)] = t
      BY <1>3 DEF OpenIsRegistered
    <3>2. CASE t = s /\ z = x
      BY <1>1, <1>2, <1>5, <2>1, <2>2, <3>2 DEF y
    <3>3. CASE t # s /\ z = x /\ Other(t, z) = y
      BY <1>1, <1>2, <1>5, <1>8, <2>1, <2>2, <3>1, <3>3
    <3>4. CASE z # x \/ (t # s /\ Other(t, z) # y)
      BY <1>1, <1>2, <1>4, <1>5, <2>1, <3>1, <3>4
    <3> QED
      BY <3>2, <3>3, <3>4
  <2>5. CoreIsTold'
    BY <1>1, <1>2, <1>3, <2>1 DEF CoreIsTold, Registered
  <2> QED
    BY <1>6, <2>3, <2>4, <2>5 DEF Registration
<1>9. CASE connections[x][y] # s
  <2>1. UNCHANGED <<connections, told>>
    BY <1>9 DEF Forget
  <2>2. RegisteredIsOpen'
    <3> SUFFICES ASSUME NEW z \in Peers, NEW w \in Peers, NEW t \in Sockets,
                        connections[z][w] = t
                 PROVE  z # w /\ ends[t] = {z, w} /\ phase'[t][z] = "open"
      BY <2>1 DEF RegisteredIsOpen
    <3>1. z # w /\ ends[t] = {z, w} /\ phase[t][z] = "open"
      BY <1>3 DEF RegisteredIsOpen
    <3>2. ~(t = s /\ z = x)
      BY <1>7, <1>9, <3>1
    <3> QED
      BY <1>1, <1>2, <1>5, <3>1, <3>2
  <2>3. OpenIsRegistered'
    <3> SUFFICES ASSUME NEW t \in Sockets, NEW z \in ends[t]
                 PROVE  phase'[t][z] = "open" <=> connections[z][Other(t, z)] = t
      BY <1>4, <2>1 DEF OpenIsRegistered
    <3>1. phase[t][z] = "open" <=> connections[z][Other(t, z)] = t
      BY <1>3 DEF OpenIsRegistered
    <3> QED
      BY <1>1, <1>2, <1>4, <1>5, <1>7, <1>9, <3>1
  <2>4. CoreIsTold'
    BY <1>3, <2>1 DEF CoreIsTold, Registered
  <2> QED
    BY <1>6, <2>2, <2>3, <2>4 DEF Registration
<1> QED
  BY <1>8, <1>9

\* A new socket, or one that is given up, is nobody's connection.
LEMMA SocketStep ==
    ASSUME TypeOK, Registration, NEW s \in Sockets,
           NEW pair, pair = {} \/ \E x, y \in Peers : x # y /\ pair = {x, y},
           ends' = [ends EXCEPT ![s] = pair],
           \A x \in Peers : phase'[s][x] # "open",
           \A x \in Peers, y \in Peers : connections[x][y] # s,
           \A t \in Sockets \ {s} : phase'[t] = phase[t],
           \A t \in Sockets : writing'[t] \subseteq writing[t],
           writing'[s] \subseteq pair,
           UNCHANGED <<connections, told>>
    PROVE  Registration'
<1>1. ends \in [Sockets -> SUBSET Peers]
  BY DEF TypeOK
<1>2. TwoEnds /\ WritersAreEnds /\ RegisteredIsOpen /\ OpenIsRegistered /\ CoreIsTold
  BY DEF Registration
<1>3. ends'[s] = pair /\ \A t \in Sockets \ {s} : ends'[t] = ends[t]
  BY <1>1
<1>4. pair \subseteq Peers
  OBVIOUS
<1>5. TwoEnds'
  BY <1>2, <1>3 DEF TwoEnds
<1>6. WritersAreEnds'
  BY <1>2, <1>3 DEF WritersAreEnds
<1>7. RegisteredIsOpen'
  BY <1>2, <1>3 DEF RegisteredIsOpen
<1>8. OpenIsRegistered'
  <2> SUFFICES ASSUME NEW t \in Sockets, NEW z \in ends'[t]
               PROVE  phase'[t][z] = "open" <=> connections[z][Other(t, z)'] = t
    BY DEF OpenIsRegistered
  <2>1. CASE t # s
    <3>1. Other(t, z)' = Other(t, z) /\ z \in ends[t]
      BY <1>3, <2>1, OtherUnchanged
    <3> QED
      BY <1>2, <2>1, <3>1 DEF OpenIsRegistered
  <2>2. CASE t = s
    <3>1. \E w \in ends'[t] : w # z
      BY <1>3, <2>2
    <3>2. Other(t, z)' \in ends'[t]
      BY <3>1, Zenon DEF Other
    <3> QED
      BY <1>3, <1>4, <2>2, <3>2
  <2> QED
    BY <2>1, <2>2
<1>9. CoreIsTold'
  BY <1>2 DEF CoreIsTold, Registered
<1> QED
  BY <1>5, <1>6, <1>7, <1>8, <1>9 DEF Registration

\* Only tasks that dial another peer are started.
LEMMA DialStep ==
    ASSUME TypeOK, OthersDialled, [Next]_vars
    PROVE  OthersDialled'
<1>1. dialing \in [Peers -> SUBSET Peers]
  BY DEF TypeOK
<1>2. ASSUME NEW x \in Peers, NEW y \in Peers, HearBeacon(x, y) \/ Connect(x, y)
      PROVE  OthersDialled'
  <2>1. x # y /\ dialing' = [dialing EXCEPT ![x] = @ \cup {y}]
    BY <1>2 DEF HearBeacon, Connect
  <2> QED
    BY <1>1, <2>1 DEF OthersDialled
<1>3. ASSUME NEW x \in Peers, NEW y \in Peers, Dial(x, y)
      PROVE  OthersDialled'
  <2>1. dialing' = [dialing EXCEPT ![x] = @ \ {y}]
    BY <1>3 DEF Dial
  <2> QED
    BY <1>1, <2>1 DEF OthersDialled
<1>4. ASSUME NEW x \in Peers, NEW y \in Peers, SendFrame(x, y)
      PROVE  OthersDialled'
  BY <1>4 DEF SendFrame, OthersDialled
<1>5. ASSUME NEW s \in Sockets, NEW x \in Peers, Progress(s, x)
      PROVE  OthersDialled'
  <2>1. UNCHANGED dialing
    BY <1>5 DEF Progress, Greet, HandshakeFails, Write, WriteFails, Read, ReadEnds
  <2> QED
    BY <2>1 DEF OthersDialled
<1>6. ASSUME NEW s \in Sockets, Cut(s) \/ Recycle(s)
      PROVE  OthersDialled'
  BY <1>6 DEF Cut, Recycle, OthersDialled
<1>7. ASSUME UNCHANGED vars
      PROVE  OthersDialled'
  BY <1>7 DEF vars, OthersDialled
<1> QED
  BY <1>2, <1>3, <1>4, <1>5, <1>6, <1>7 DEF Next

\* Every step keeps Registration.
LEMMA RegistrationStep ==
    ASSUME TypeOK, OthersDialled, Registration, [Next]_vars
    PROVE  Registration'
<1>1. ASSUME NEW x \in Peers, NEW y \in Peers,
             HearBeacon(x, y) \/ Connect(x, y) \/ SendFrame(x, y)
      PROVE  Registration'
  BY <1>1, Unmoved DEF HearBeacon, Connect, SendFrame, registrationVars
<1>2. ASSUME NEW x \in Peers, NEW y \in Peers, Dial(x, y)
      PROVE  Registration'
  <2>1. PICK s \in Sockets :
          /\ ends[s] = {}
          /\ ends' = [ends EXCEPT ![s] = {x, y}]
          /\ phase' = [phase EXCEPT ![s] = [z \in Peers |->
                IF z \in {x, y} THEN "greeting" ELSE "unused"]]
    BY <1>2 DEF Dial
  <2>2. x # y /\ UNCHANGED <<writing, connections, told>>
    BY <1>2 DEF Dial, OthersDialled
  <2>3. \A z \in Peers : phase'[s][z] # "open"
    BY <2>1 DEF TypeOK
  <2>4. \A t \in Sockets \ {s} : phase'[t] = phase[t]
    BY <2>1 DEF TypeOK
  <2>5. \A z, w \in Peers : connections[z][w] # s
    BY <2>1 DEF Registration, RegisteredIsOpen
  <2>6. writing'[s] \subseteq {x, y}
    BY <2>1, <2>2 DEF Registration, WritersAreEnds
  <2> QED
    BY <2>1, <2>2, <2>3, <2>4, <2>5, <2>6, SocketStep
<1>3. ASSUME NEW s \in Sockets, NEW x \in Peers, Greet(s, x)
      PROVE  Registration'
  BY <1>3, GreetStep
<1>4. ASSUME NEW s \in Sockets, NEW x \in Peers, HandshakeFails(s, x)
      PROVE  Registration'
  <2>1. /\ x \in ends[s] /\ phase[s][x] # "open" /\ CloseWriter(s, x)
        /\ UNCHANGED <<ends, writing, connections, told>>
    BY <1>4 DEF HandshakeFails, Uses
  <2> QED
    BY <2>1, CloseStep
<1>5. ASSUME NEW s \in Sockets, NEW x \in Peers, Write(s, x) \/ Read(s, x)
      PROVE  Registration'
  BY <1>5, Unmoved DEF Write, Read, registrationVars
<1>6. ASSUME NEW s \in Sockets, NEW x \in Peers, WriteFails(s, x)
      PROVE  Registration'
  <2>1. x \in ends[s]
    BY <1>6 DEF WriteFails, Registration, WritersAreEnds
  <2>2. /\ Forget(s, x) /\ CloseWriter(s, x) /\ UNCHANGED ends
        /\ writing' = [writing EXCEPT ![s] = @ \ {x}]
    BY <1>6 DEF WriteFails
  <2>3. \A t \in Sockets : writing'[t] \subseteq writing[t]
    BY <2>2 DEF TypeOK
  <2> QED
    BY <2>1, <2>2, <2>3, CloseStep
<1>7. ASSUME NEW s \in Sockets, NEW x \in Peers, ReadEnds(s, x)
      PROVE  Registration'
  <2>1. /\ x \in ends[s] /\ Forget(s, x) /\ CloseWriter(s, x)
        /\ UNCHANGED <<ends, writing>>
    BY <1>7 DEF ReadEnds, Uses
  <2> QED
    BY <2>1, CloseStep
<1>8. ASSUME NEW s \in Sockets, Cut(s)
      PROVE  Registration'
  BY <1>8, Unmoved DEF Cut, registrationVars
<1>9. ASSUME NEW s \in Sockets, Recycle(s)
      PROVE  Registration'
  <2>1. /\ ends' = [ends EXCEPT ![s] = {}]
        /\ phase' = [phase EXCEPT ![s] = [z \in Peers |-> "unused"]]
        /\ writing' = [writing EXCEPT ![s] = {}]
        /\ UNCHANGED <<connections, told>>
        /\ \A z \in ends[s] : phase[s][z] = "closed"
    BY <1>9 DEF Recycle
  <2>2. \A z \in Peers : phase'[s][z] # "open"
    BY <2>1 DEF TypeOK
  <2>3. \A t \in Sockets \ {s} : phase'[t] = phase[t]
    BY <2>1 DEF TypeOK
  <2>4. \A z, w \in Peers : connections[z][w] # s
    BY <2>1 DEF Registration, RegisteredIsOpen
  <2>5. writing'[s] = {} /\ \A t \in Sockets : writing'[t] \subseteq writing[t]
    BY <2>1 DEF TypeOK
  <2> QED
    BY <2>1, <2>2, <2>3, <2>4, <2>5, SocketStep
<1>10. ASSUME UNCHANGED vars
       PROVE  Registration'
  BY <1>10, Unmoved DEF vars, registrationVars
<1> QED
  BY <1>1, <1>2, <1>3, <1>4, <1>5, <1>6, <1>7, <1>8, <1>9, <1>10
     DEF Next, Progress

-----------------------------------------------------------------------------
(***************************************************************************)
(* Theorems.                                                               *)
(***************************************************************************)

\* It all holds at the start, when no socket is in use.
LEMMA InitRegistration == Init => TypeOK /\ OthersDialled /\ Registration
<1> SUFFICES ASSUME Init PROVE TypeOK /\ OthersDialled /\ Registration
  OBVIOUS
<1>1. TypeOK
  BY NumberSeqs DEF Init, TypeOK, Phase
<1>2. Registration
  BY LanLinkAssumption
     DEF Init, Registration, TwoEnds, WritersAreEnds, RegisteredIsOpen,
         OpenIsRegistered, CoreIsTold, Registered
<1>3. OthersDialled
  BY DEF Init, OthersDialled
<1> QED
  BY <1>1, <1>2, <1>3

\* One inductive invariant: the type of connections needs the two ends, and
\* the ends need the types and that nobody dials itself.
LanInvariant == TypeOK /\ OthersDialled /\ Registration

\* It is an invariant.
LEMMA Invariance == Spec => []LanInvariant
<1>1. Init => LanInvariant
  BY InitRegistration DEF LanInvariant
<1>2. LanInvariant /\ [Next]_vars => LanInvariant'
  BY TypeStep, DialStep, RegistrationStep DEF LanInvariant, Registration
<1> QED
  BY <1>1, <1>2, PTL DEF Spec

\* Every variable of the transport keeps its type.
THEOREM LanTyping == Spec => []TypeOK
<1>1. LanInvariant => TypeOK
  BY DEF LanInvariant
<1> QED
  BY Invariance, <1>1, PTL

\* An end of a connection has a read loop exactly if it is the connection
\* registered for its peer (handshake, _read_loop, _write_loop, _drop): no
\* late _drop takes away a newer connection, no connection is left that is
\* read but not written to.
THEOREM Registering == Spec => []OpenIsRegistered
<1>1. LanInvariant => OpenIsRegistered
  BY DEF LanInvariant, Registration
<1> QED
  BY Invariance, <1>1, PTL

\* Core was last told of a peer what the transport holds (on_peer_change).
THEOREM Telling == Spec => []CoreIsTold
<1>1. LanInvariant => CoreIsTold
  BY DEF LanInvariant, Registration
<1> QED
  BY Invariance, <1>1, PTL
-----------------------------------------------------------------------------
(***************************************************************************)
(* The order of frames.                                                    *)
(***************************************************************************)

Members(q) == {q[i] : i \in 1..Len(q)}
Rising(q) == \A i, j \in 1..Len(q) : i < j => q[i] < q[j]

\* The frames of y on s that its other end has not read: on the wire, and
\* before the write loop.
Unread(s, y) == (Members(stream[s][y]) \cup Members(queue[s][y])) \ {Hello}

\* x and y are the ends of s, and x may still read it.
Readable(s, x, y) == x # y /\ ends[s] = {x, y} /\ phase[s][x] # "closed"

\* x and y hold the two ends of a connection that will not break any more.
Settled(x, y) ==
    /\ failures > 0
    /\ \E t \in Sockets : t \notin cut /\ connections[x][y] = t /\ connections[y][x] = t

\* What is on the wire was sent before what is queued, the hello first.
InOrder(wire, waiting) ==
    /\ Rising(wire) /\ Rising(waiting)
    /\ \A n \in Members(waiting) : n > Hello /\ \A m \in Members(wire) : m < n

SocketsInOrder == \A s \in Sockets, y \in Peers : InOrder(stream[s][y], queue[s][y])

\* A socket in use and what was received hold no frame not sent yet, one not
\* in use holds nothing.
OnlySent ==
    /\ \A s \in Sockets, x, y \in Peers :
          x # y /\ ends[s] = {x, y} =>
              \A n \in Members(stream[s][y]) \cup Members(queue[s][y]) : n <= sent[y][x]
    /\ \A x, y \in Peers : \A n \in Members(received[x][y]) : n <= sent[y][x]
    /\ \A s \in Sockets, y \in Peers : ends[s] = {} => queue[s][y] = <<>>

\* The hello is read before the connection opens.
HelloRead ==
    \A s \in Sockets, x, y \in Peers :
        x # y /\ ends[s] = {x, y} /\ phase[s][x] = "open" => Hello \notin Members(stream[s][y])

\* A broken socket is a failure.
CutsAreFailures ==
    /\ failures = 0 => cut = {}
    /\ failures <= 1 => \A s, t \in cut : s = t

\* The sender of frames that will be read on a socket that is not broken
\* still holds it: it gives a connection up only if the other end did.
SenderHolds ==
    \A s \in Sockets, x, y \in Peers :
        Readable(s, x, y) /\ s \notin cut /\ Unread(s, y) # {} => phase[s][y] = "open"

\* Frames on a broken socket are older than those on another.
BrokenIsOlder ==
    failures <= 1 =>
        \A s, t \in Sockets, x, y \in Peers :
            Readable(s, x, y) /\ Readable(t, x, y) /\ s \in cut /\ t \notin cut
                => \A m \in Unread(s, y), n \in Unread(t, y) : m < n

\* What x may still read on s it sent after all it has read, or s will be
\* refused for the connection they have.
NewerToRead ==
    failures <= 1 =>
        \A s \in Sockets, x, y \in Peers :
            Readable(s, x, y) =>
                \/ \A m \in Members(received[x][y]), n \in Unread(s, y) : m < n
                \/ phase[s][x] # "open" /\ Settled(x, y)

ReceivedRising == failures <= 1 => \A x, y \in Peers : Rising(received[x][y])

Sequence ==
    /\ SocketsInOrder /\ OnlySent /\ HelloRead /\ CutsAreFailures
    /\ SenderHolds /\ BrokenIsOlder /\ NewerToRead /\ ReceivedRising

\* Nothing is a member of the empty sequence.
LEMMA NoMembers == Members(<<>>) = {} /\ Rising(<<>>)
<1>1. Len(<<>>) = 0 /\ 1..0 = {}
  OBVIOUS
<1> QED
  BY <1>1 DEF Members, Rising

\* Adding a number at the end.
LEMMA AppendMembers ==
    ASSUME NEW q \in Seq(Nat), NEW n \in Nat
    PROVE  /\ Append(q, n) \in Seq(Nat)
           /\ Members(Append(q, n)) = Members(q) \cup {n}
           /\ (Rising(q) /\ \A m \in Members(q) : m < n) => Rising(Append(q, n))
<1> DEFINE r == Append(q, n)
<1>1. /\ r \in Seq(Nat) /\ Len(q) \in Nat /\ Len(r) = Len(q) + 1 /\ r[Len(q) + 1] = n
      /\ \A i \in 1..Len(q) : r[i] = q[i]
  OBVIOUS
<1> HIDE DEF r
<1>2. \A i \in 1..Len(r) : i = Len(q) + 1 \/ i \in 1..Len(q)
  BY <1>1
<1>3. 1..Len(q) \subseteq 1..Len(r) /\ Len(q) + 1 \in 1..Len(r)
  BY <1>1
<1>4. Members(r) = Members(q) \cup {n}
  <2>1. ASSUME NEW e \in Members(r) PROVE e \in Members(q) \cup {n}
    BY <1>1, <1>2, <2>1 DEF Members
  <2>2. ASSUME NEW e \in Members(q) \cup {n} PROVE e \in Members(r)
    BY <1>1, <1>3, <2>2 DEF Members
  <2> QED
    BY <2>1, <2>2
<1>5. ASSUME Rising(q), \A m \in Members(q) : m < n
      PROVE  Rising(r)
  <2> SUFFICES ASSUME NEW i \in 1..Len(r), NEW j \in 1..Len(r), i < j
               PROVE  r[i] < r[j]
    BY DEF Rising
  <2>1. i \in 1..Len(q)
    BY <1>1, <1>2
  <2>2. CASE j \in 1..Len(q)
    BY <1>1, <1>5, <2>1, <2>2 DEF Rising
  <2>3. CASE j = Len(q) + 1
    BY <1>1, <1>5, <2>1, <2>3 DEF Members
  <2> QED
    BY <1>2, <2>2, <2>3
<1> QED
  BY <1>1, <1>4, <1>5 DEF r

\* Taking the first number.
LEMMA TailMembers ==
    ASSUME NEW q \in Seq(Nat), q # <<>>
    PROVE  /\ Tail(q) \in Seq(Nat) /\ Head(q) \in Nat
           /\ Members(Tail(q)) \subseteq Members(q) /\ Head(q) \in Members(q)
           /\ Rising(q) => Rising(Tail(q)) /\ \A m \in Members(Tail(q)) : Head(q) < m
<1> DEFINE r == Tail(q)
<1>1. /\ r \in Seq(Nat) /\ Head(q) = q[1] /\ Head(q) \in Nat /\ Len(q) \in Nat
      /\ 1 \in 1..Len(q) /\ Len(r) \in Nat /\ Len(q) = Len(r) + 1
      /\ \A i \in 1..Len(r) : r[i] = q[i + 1]
  OBVIOUS
<1> HIDE DEF r
<1>2. \A i \in 1..Len(r) : i + 1 \in 1..Len(q) /\ 1 < i + 1
  BY <1>1
<1>3. Members(r) \subseteq Members(q) /\ Head(q) \in Members(q)
  <2>1. Head(q) \in Members(q)
    BY <1>1 DEF Members
  <2>2. ASSUME NEW e \in Members(r) PROVE e \in Members(q)
    <3>1. PICK i \in 1..Len(r) : e = r[i]
      BY DEF Members
    <3>2. e = q[i + 1] /\ i + 1 \in 1..Len(q)
      BY <1>1, <1>2, <3>1
    <3> QED
      BY <3>2 DEF Members
  <2> QED
    BY <2>1, <2>2
<1>4. ASSUME Rising(q)
      PROVE  Rising(r) /\ \A m \in Members(r) : Head(q) < m
  <2>1. \A i, j \in 1..Len(r) : i < j => i + 1 < j + 1
    BY <1>1
  <2>2. Rising(r)
    BY <1>1, <1>2, <1>4, <2>1 DEF Rising
  <2>3. \A m \in Members(r) : Head(q) < m
    BY <1>1, <1>2, <1>4 DEF Rising, Members
  <2> QED
    BY <2>2, <2>3
<1> QED
  BY <1>1, <1>3, <1>4 DEF r

\* A socket after a step that added no frame to it.
Kept(wire, waiting, wire2, waiting2) ==
    /\ InOrder(wire2, waiting2)
    /\ Members(wire2) \cup Members(waiting2) \subseteq Members(wire) \cup Members(waiting)
    /\ Hello \in Members(wire2) => Hello \in Members(wire)
    /\ waiting = <<>> => waiting2 = <<>>

\* Reading, writing and dropping what is queued keep the order.
LEMMA KeptInOrder ==
    ASSUME NEW wire \in Seq(Nat), NEW waiting \in Seq(Nat), InOrder(wire, waiting)
    PROVE  /\ Kept(wire, waiting, wire, waiting)
           /\ Kept(wire, waiting, wire, <<>>)
           /\ wire # <<>> => Kept(wire, waiting, Tail(wire), waiting)
                             /\ Hello \notin Members(Tail(wire))
           /\ waiting # <<>> => /\ Kept(wire, waiting, wire, Tail(waiting))
                                /\ Kept(wire, waiting, Append(wire, Head(waiting)), Tail(waiting))
<1>1. Kept(wire, waiting, wire, waiting)
  BY DEF Kept
<1>2. Kept(wire, waiting, wire, <<>>)
  BY NoMembers DEF Kept, InOrder
<1>3. ASSUME wire # <<>>
      PROVE  Kept(wire, waiting, Tail(wire), waiting) /\ Hello \notin Members(Tail(wire))
  <2>1. /\ Members(Tail(wire)) \subseteq Members(wire) /\ Head(wire) \in Nat
        /\ Rising(Tail(wire)) /\ \A m \in Members(Tail(wire)) : Head(wire) < m
    BY <1>3, TailMembers DEF InOrder
  <2>2. Hello \notin Members(Tail(wire))
    BY <2>1 DEF Hello
  <2> QED
    BY <2>1, <2>2 DEF Kept, InOrder
<1>4. ASSUME waiting # <<>>
      PROVE  /\ Kept(wire, waiting, wire, Tail(waiting))
             /\ Kept(wire, waiting, Append(wire, Head(waiting)), Tail(waiting))
  <2>1. /\ Members(Tail(waiting)) \subseteq Members(waiting)
        /\ Head(waiting) \in Nat /\ Head(waiting) \in Members(waiting)
        /\ Rising(Tail(waiting)) /\ \A m \in Members(Tail(waiting)) : Head(waiting) < m
    BY <1>4, TailMembers DEF InOrder
  <2>2. Head(waiting) > Hello /\ \A m \in Members(wire) : m < Head(waiting)
    BY <2>1 DEF InOrder
  <2>3. /\ Members(Append(wire, Head(waiting))) = Members(wire) \cup {Head(waiting)}
        /\ Rising(Append(wire, Head(waiting)))
    BY <2>1, <2>2, AppendMembers DEF InOrder
  <2>4. Kept(wire, waiting, wire, Tail(waiting))
    BY <2>1 DEF Kept, InOrder
  <2>5. Hello \in Members(Append(wire, Head(waiting))) => Hello \in Members(wire)
    BY <2>2, <2>3 DEF Hello
  <2>6. InOrder(Append(wire, Head(waiting)), Tail(waiting))
    BY <2>1, <2>3 DEF InOrder
  <2>7. waiting = <<>> => Tail(waiting) = <<>>
    BY <1>4
  <2> QED
    BY <2>1, <2>3, <2>4, <2>5, <2>6, <2>7 DEF Kept
<1> QED
  BY <1>1, <1>2, <1>3, <1>4

-----------------------------------------------------------------------------

\* A step that sends and receives no frame: it may write frames or lose them,
\* open an end that has no connection yet and has read its hello, and close
\* an end if it is not open, or the socket broke, or the other end closed.
GivesUp ==
    /\ UNCHANGED <<ends, sent, received, cut>> /\ failures' >= failures
    /\ \A s \in Sockets, y \in Peers :
          Kept(stream[s][y], queue[s][y], stream'[s][y], queue'[s][y])
    /\ \A s \in Sockets, x, y \in Peers : x # y /\ ends[s] = {x, y} =>
          /\ phase'[s][x] # "closed" => phase[s][x] # "closed"
          /\ phase'[s][x] = "open" =>
                \/ phase[s][x] = "open"
                \/ connections[x][y] = None /\ Hello \notin Members(stream'[s][y])
          /\ phase[s][y] = "open" /\ phase'[s][y] # "open"
                => s \in cut \/ phase'[s][x] = "closed"
    /\ \A x, y \in Peers : Settled(x, y) => Settled(x, y)'

\* Such a step keeps the order.
LEMMA GivesUpKeeps ==
    ASSUME TypeOK, TypeOK', Sequence, GivesUp
    PROVE  Sequence'
<1>1. /\ SocketsInOrder /\ OnlySent /\ HelloRead /\ CutsAreFailures
      /\ SenderHolds /\ BrokenIsOlder /\ NewerToRead /\ ReceivedRising
  BY DEF Sequence
<1>2. /\ UNCHANGED <<ends, sent, received, cut>>
      /\ failures \in Nat /\ failures' \in Nat /\ failures' >= failures
  BY DEF GivesUp, TypeOK
<1>3. \A s \in Sockets, y \in Peers :
         Kept(stream[s][y], queue[s][y], stream'[s][y], queue'[s][y])
  BY DEF GivesUp
<1>4. \A s \in Sockets, x, y \in Peers : x # y /\ ends[s] = {x, y} =>
          /\ phase'[s][x] # "closed" => phase[s][x] # "closed"
          /\ phase'[s][x] = "open" =>
                \/ phase[s][x] = "open"
                \/ connections[x][y] = None /\ Hello \notin Members(stream'[s][y])
          /\ phase[s][y] = "open" /\ phase'[s][y] # "open"
                => s \in cut \/ phase'[s][x] = "closed"
  BY DEF GivesUp
<1>5. \A x, y \in Peers : Settled(x, y) => Settled(x, y)'
  BY DEF GivesUp
<1>6. \A s \in Sockets, y \in Peers : Unread(s, y)' \subseteq Unread(s, y)
  BY <1>3 DEF Unread, Kept
<1>7. \A s \in Sockets, x, y \in Peers : Readable(s, x, y)' => Readable(s, x, y)
  BY <1>2, <1>4 DEF Readable
<1>8. SocketsInOrder'
  BY <1>3 DEF SocketsInOrder, Kept
<1>9. OnlySent'
  BY <1>1, <1>2, <1>3 DEF OnlySent, Kept
<1>10. HelloRead'
  BY <1>1, <1>2, <1>3, <1>4 DEF HelloRead, Kept
<1>11. CutsAreFailures'
  BY <1>1, <1>2 DEF CutsAreFailures
<1>12. SenderHolds'
  <2> SUFFICES ASSUME NEW s \in Sockets, NEW x \in Peers, NEW y \in Peers,
                      Readable(s, x, y)', s \notin cut', Unread(s, y)' # {}
               PROVE  phase'[s][y] = "open"
    BY DEF SenderHolds
  <2>1. Readable(s, x, y) /\ s \notin cut /\ Unread(s, y) # {}
    BY <1>2, <1>6, <1>7
  <2>2. phase[s][y] = "open"
    BY <1>1, <2>1 DEF SenderHolds
  <2>3. x # y /\ ends[s] = {x, y} /\ phase'[s][x] # "closed"
    BY <2>1 DEF Readable
  <2> QED
    BY <1>4, <2>1, <2>2, <2>3
<1>13. BrokenIsOlder'
  <2> SUFFICES ASSUME failures' <= 1, NEW s \in Sockets, NEW t \in Sockets,
                      NEW x \in Peers, NEW y \in Peers,
                      Readable(s, x, y)', Readable(t, x, y)', s \in cut', t \notin cut',
                      NEW m \in Unread(s, y)', NEW n \in Unread(t, y)'
               PROVE  m < n
    BY DEF BrokenIsOlder
  <2>1. failures <= 1
    BY <1>2
  <2>2. /\ Readable(s, x, y) /\ Readable(t, x, y) /\ s \in cut /\ t \notin cut
        /\ m \in Unread(s, y) /\ n \in Unread(t, y)
    BY <1>2, <1>6, <1>7
  <2> QED
    BY <1>1, <2>1, <2>2 DEF BrokenIsOlder
<1>14. NewerToRead'
  <2> SUFFICES ASSUME failures' <= 1, NEW s \in Sockets, NEW x \in Peers, NEW y \in Peers,
                      Readable(s, x, y)'
               PROVE  \/ \A m \in Members(received'[x][y]), n \in Unread(s, y)' : m < n
                      \/ phase'[s][x] # "open" /\ Settled(x, y)'
    BY DEF NewerToRead
  <2>1. failures <= 1 /\ Readable(s, x, y)
    BY <1>2, <1>7
  <2>2. CASE \A m \in Members(received[x][y]), n \in Unread(s, y) : m < n
    BY <1>2, <1>6, <2>2
  <2>3. CASE phase[s][x] # "open" /\ Settled(x, y)
    <3>1. connections[x][y] # None
      BY <2>3, LanLinkAssumption DEF Settled
    <3>2. phase'[s][x] # "open"
      BY <1>4, <2>1, <2>3, <3>1 DEF Readable
    <3> QED
      BY <1>5, <2>3, <3>2
  <2> QED
    BY <1>1, <2>1, <2>2, <2>3 DEF NewerToRead
<1>15. ReceivedRising'
  BY <1>1, <1>2 DEF ReceivedRising
<1> QED
  BY <1>8, <1>9, <1>10, <1>11, <1>12, <1>13, <1>14, <1>15 DEF Sequence

\* Each step that only gives up what it has.
LEMMA GivingUp ==
    ASSUME TypeOK, TypeOK', Registration, Sequence,
           \/ \E x, y \in Peers : HearBeacon(x, y) \/ Connect(x, y)
           \/ \E s \in Sockets, x \in Peers :
                 \/ Greet(s, x) \/ HandshakeFails(s, x) \/ Write(s, x)
                 \/ WriteFails(s, x) \/ ReadEnds(s, x)
           \/ UNCHANGED vars
    PROVE  Sequence'
<1>1. /\ stream \in [Sockets -> [Peers -> Seq(Nat)]]
      /\ queue \in [Sockets -> [Peers -> Seq(Nat)]]
      /\ phase \in [Sockets -> [Peers -> Phase]]
      /\ connections \in [Peers -> [Peers -> Sockets \cup {None}]]
      /\ failures \in Nat
  BY DEF TypeOK
<1>2. TwoEnds /\ WritersAreEnds /\ RegisteredIsOpen /\ OpenIsRegistered
  BY DEF Registration
<1>3. \A s \in Sockets, y \in Peers :
         /\ stream[s][y] \in Seq(Nat) /\ queue[s][y] \in Seq(Nat)
         /\ InOrder(stream[s][y], queue[s][y])
         /\ Kept(stream[s][y], queue[s][y], stream[s][y], queue[s][y])
  <2>1. \A s \in Sockets, y \in Peers :
           /\ stream[s][y] \in Seq(Nat) /\ queue[s][y] \in Seq(Nat)
           /\ InOrder(stream[s][y], queue[s][y])
    BY <1>1 DEF Sequence, SocketsInOrder
  <2> QED
    BY <2>1, KeptInOrder
<1>4. None \notin Sockets
  BY LanLinkAssumption
<1>5. CASE UNCHANGED <<ends, phase, stream, queue, cut, connections, sent, received, failures>>
  <2>1. \A s \in Sockets, y \in Peers :
           Kept(stream[s][y], queue[s][y], stream'[s][y], queue'[s][y])
    BY <1>3, <1>5
  <2>2. \A x, y \in Peers : Settled(x, y) => Settled(x, y)'
    BY <1>5 DEF Settled
  <2>3. GivesUp
    BY <1>1, <1>5, <2>1, <2>2 DEF GivesUp
  <2> QED
    BY <2>3, GivesUpKeeps
<1>6. ASSUME NEW x \in Peers, NEW y \in Peers, HearBeacon(x, y) \/ Connect(x, y)
      PROVE  Sequence'
  BY <1>5, <1>6 DEF HearBeacon, Connect
<1>7. ASSUME NEW s \in Sockets, NEW x \in Peers, Greet(s, x)
      PROVE  Sequence'
  <2>1. PICK y \in Peers : y = Other(s, x) /\ y # x /\ ends[s] = {x, y}
    BY <1>2, <1>7, OtherEnd DEF Greet, Uses
  <2>2. /\ phase[s][x] = "greeting" /\ stream[s][y] # <<>>
        /\ stream' = [stream EXCEPT ![s][y] = Tail(@)]
        /\ UNCHANGED <<ends, queue, cut, sent, received, failures>>
        /\ \/ phase' = [phase EXCEPT ![s][x] = "closed"] /\ UNCHANGED connections
           \/ /\ connections[x][y] = None /\ connections' = [connections EXCEPT ![x][y] = s]
              /\ phase' = [phase EXCEPT ![s][x] = "open"]
    BY <1>7, <2>1 DEF Greet, CloseWriter
  <2>3. /\ stream'[s][y] = Tail(stream[s][y])
        /\ \A t \in Sockets, z \in Peers :
              ~(t = s /\ z = y) => stream'[t][z] = stream[t][z]
    BY <1>1, <2>2
  <2>4. /\ \A t \in Sockets, z \in Peers :
              ~(t = s /\ z = x) => phase'[t][z] = phase[t][z]
        /\ \/ phase'[s][x] = "closed"
           \/ phase'[s][x] = "open" /\ connections[x][y] = None
    <3>1. CASE phase' = [phase EXCEPT ![s][x] = "closed"] /\ UNCHANGED connections
      BY <1>1, <3>1
    <3>2. CASE /\ connections[x][y] = None /\ connections' = [connections EXCEPT ![x][y] = s]
               /\ phase' = [phase EXCEPT ![s][x] = "open"]
      BY <1>1, <3>2
    <3> QED
      BY <2>2, <3>1, <3>2
  <2>5. \A v, w \in Peers, t \in Sockets : connections[v][w] = t => connections'[v][w] = t
    <3>1. CASE UNCHANGED connections
      BY <3>1
    <3>2. CASE /\ connections[x][y] = None /\ connections' = [connections EXCEPT ![x][y] = s]
      <4>1. \A v, w \in Peers : ~(v = x /\ w = y) => connections'[v][w] = connections[v][w]
        BY <1>1, <3>2
      <4> QED
        BY <1>4, <3>2, <4>1
    <3> QED
      BY <2>2, <3>1, <3>2
  <2>6. /\ Kept(stream[s][y], queue[s][y], Tail(stream[s][y]), queue[s][y])
        /\ Hello \notin Members(Tail(stream[s][y]))
    BY <1>3, <2>2, KeptInOrder
  <2>7. \A t \in Sockets, z \in Peers :
           Kept(stream[t][z], queue[t][z], stream'[t][z], queue'[t][z])
    BY <1>3, <2>2, <2>3, <2>6
  <2>8. \A v, w \in Peers : Settled(v, w) => Settled(v, w)'
    BY <2>2, <2>5 DEF Settled
  <2>9. ASSUME NEW t \in Sockets, NEW v \in Peers, NEW w \in Peers, v # w, ends[t] = {v, w}
        PROVE  /\ phase'[t][v] # "closed" => phase[t][v] # "closed"
               /\ phase'[t][v] = "open" =>
                     \/ phase[t][v] = "open"
                     \/ connections[v][w] = None /\ Hello \notin Members(stream'[t][w])
               /\ phase[t][w] = "open" /\ phase'[t][w] # "open"
                     => t \in cut \/ phase'[t][v] = "closed"
    <3>1. t = s => (v = x => w = y)
      BY <2>1, <2>9
    <3>2. phase'[t][w] = phase[t][w] \/ phase[t][w] = "greeting"
      BY <2>2, <2>4
    <3>3. CASE t = s /\ v = x
      BY <2>2, <2>3, <2>4, <2>6, <3>1, <3>2, <3>3
    <3>4. CASE ~(t = s /\ v = x)
      BY <2>4, <3>2, <3>4
    <3> QED
      BY <3>3, <3>4
  <2>10. failures' >= failures
    BY <1>1, <2>2
  <2>11. UNCHANGED <<ends, sent, received, cut>>
    BY <2>2
  <2>12. GivesUp
    BY <2>7, <2>8, <2>9, <2>10, <2>11 DEF GivesUp
  <2> QED
    BY <2>12, GivesUpKeeps
<1>8. ASSUME NEW s \in Sockets, NEW x \in ends[s], NEW y \in Peers,
             x \in Peers, x # y, ends[s] = {x, y}, y = Other(s, x),
             CloseWriter(s, x), UNCHANGED <<ends, stream, sent, received, cut>>,
             failures' >= failures,
             \A t \in Sockets, z \in Peers :
                 Kept(stream[t][z], queue[t][z], stream'[t][z], queue'[t][z]),
             phase[s][x] = "open" => Ended(s, x),
             Forget(s, x) \/ UNCHANGED connections
      PROVE  Sequence'
  <2>1. /\ phase'[s][x] = "closed"
        /\ \A t \in Sockets, z \in Peers :
              ~(t = s /\ z = x) => phase'[t][z] = phase[t][z]
    BY <1>1, <1>8 DEF CloseWriter
  <2>2. phase[s][x] = "open" => s \in cut \/ phase[s][y] = "closed"
    BY <1>8 DEF Ended
  <2>3. connections[x][y] = s => phase[s][x] = "open"
    BY <1>2, <1>8 DEF RegisteredIsOpen
  <2>4. \A v, w \in Peers, t \in Sockets :
           connections[v][w] = t => connections'[v][w] = t \/ (v = x /\ w = y /\ t = s)
    <3>1. \/ UNCHANGED connections
          \/ connections[x][y] = s /\ connections' = [connections EXCEPT ![x][y] = None]
      BY <1>8 DEF Forget
    <3>2. CASE UNCHANGED connections
      BY <3>2
    <3>3. CASE connections' = [connections EXCEPT ![x][y] = None] /\ connections[x][y] = s
      <4>1. \A v, w \in Peers : ~(v = x /\ w = y) => connections'[v][w] = connections[v][w]
        BY <1>1, <3>3
      <4> QED
        BY <3>3, <4>1
    <3> QED
      BY <3>1, <3>2, <3>3
  <2>5. ASSUME NEW v \in Peers, NEW w \in Peers, Settled(v, w)
        PROVE  Settled(v, w)'
    <3>1. failures' > 0
      BY <1>1, <1>8, <2>5 DEF Settled, TypeOK
    <3>2. PICK t \in Sockets : t \notin cut /\ connections[v][w] = t /\ connections[w][v] = t
      BY <2>5 DEF Settled
    <3>3. phase[t][v] = "open" /\ phase[t][w] = "open"
      BY <1>2, <3>2 DEF RegisteredIsOpen
    <3>4. ~(v = x /\ w = y /\ t = s) /\ ~(w = x /\ v = y /\ t = s)
      BY <2>2, <3>2, <3>3
    <3>5. connections'[v][w] = t /\ connections'[w][v] = t
      BY <2>4, <3>2, <3>4
    <3> QED
      BY <1>8, <3>1, <3>2, <3>5 DEF Settled
  <2>6. ASSUME NEW t \in Sockets, NEW v \in Peers, NEW w \in Peers, v # w, ends[t] = {v, w}
        PROVE  /\ phase'[t][v] # "closed" => phase[t][v] # "closed"
               /\ phase'[t][v] = "open" => phase[t][v] = "open"
               /\ phase[t][w] = "open" /\ phase'[t][w] # "open"
                     => t \in cut \/ phase'[t][v] = "closed"
    <3>1. CASE t = s /\ w = x
      <4>1. v = y
        BY <1>8, <2>6, <3>1
      <4> QED
        BY <2>1, <2>2, <2>6, <3>1, <4>1
    <3>2. CASE ~(t = s /\ w = x)
      BY <2>1, <3>2
    <3> QED
      BY <3>1, <3>2
  <2>7. GivesUp
    BY <1>8, <2>5, <2>6 DEF GivesUp
  <2> QED
    BY <2>7, GivesUpKeeps
<1>9. ASSUME NEW s \in Sockets, NEW x \in Peers, HandshakeFails(s, x)
      PROVE  Sequence'
  <2>1. PICK y \in Peers : y = Other(s, x) /\ y # x /\ ends[s] = {x, y} /\ x \in ends[s]
    BY <1>2, <1>9, OtherEnd DEF HandshakeFails, Uses
  <2>2. /\ phase[s][x] = "greeting" /\ CloseWriter(s, x)
        /\ UNCHANGED <<ends, stream, queue, cut, connections, sent, received>>
        /\ failures' >= failures
    BY <1>1, <1>9 DEF HandshakeFails
  <2>3. \A t \in Sockets, z \in Peers :
           Kept(stream[t][z], queue[t][z], stream'[t][z], queue'[t][z])
    BY <1>3, <2>2
  <2> QED
    BY <1>8, <2>1, <2>2, <2>3
<1>10. ASSUME NEW s \in Sockets, NEW x \in Peers, ReadEnds(s, x)
       PROVE  Sequence'
  <2>1. PICK y \in Peers : y = Other(s, x) /\ y # x /\ ends[s] = {x, y} /\ x \in ends[s]
    BY <1>2, <1>10, OtherEnd DEF ReadEnds, Uses
  <2>2. /\ Ended(s, x) /\ CloseWriter(s, x) /\ Forget(s, x)
        /\ UNCHANGED <<ends, stream, queue, cut, sent, received, failures>>
    BY <1>10 DEF ReadEnds
  <2>3. \A t \in Sockets, z \in Peers :
           Kept(stream[t][z], queue[t][z], stream'[t][z], queue'[t][z])
    BY <1>3, <2>2
  <2>4. failures' >= failures
    BY <1>1, <2>2
  <2> QED
    BY <1>8, <2>1, <2>2, <2>3, <2>4
<1>11. ASSUME NEW s \in Sockets, NEW x \in Peers, WriteFails(s, x)
       PROVE  Sequence'
  <2>1. PICK y \in Peers : y = Other(s, x) /\ y # x /\ ends[s] = {x, y} /\ x \in ends[s]
    BY <1>2, <1>11, OtherEnd DEF WriteFails, WritersAreEnds
  <2>2. /\ Ended(s, x) \/ phase[s][x] = "closed"
        /\ CloseWriter(s, x) /\ Forget(s, x)
        /\ queue' = [queue EXCEPT ![s][x] = <<>>]
        /\ UNCHANGED <<ends, stream, cut, sent, received, failures>>
    BY <1>11 DEF WriteFails
  <2>3. /\ queue'[s][x] = <<>>
        /\ \A t \in Sockets, z \in Peers :
              ~(t = s /\ z = x) => queue'[t][z] = queue[t][z]
    BY <1>1, <2>2
  <2>4. Kept(stream[s][x], queue[s][x], stream[s][x], <<>>)
    BY <1>3, KeptInOrder
  <2>5. \A t \in Sockets, z \in Peers :
           Kept(stream[t][z], queue[t][z], stream'[t][z], queue'[t][z])
    BY <1>3, <2>2, <2>3, <2>4
  <2>6. failures' >= failures
    BY <1>1, <2>2
  <2>7. phase[s][x] = "open" => Ended(s, x)
    BY <2>2
  <2> QED
    BY <1>8, <2>1, <2>2, <2>5, <2>6, <2>7
<1>12. ASSUME NEW s \in Sockets, NEW x \in Peers, Write(s, x)
       PROVE  Sequence'
  <2>1. /\ queue[s][x] # <<>>
        /\ queue' = [queue EXCEPT ![s][x] = Tail(@)]
        /\ \/ UNCHANGED stream
           \/ stream' = [stream EXCEPT ![s][x] = Append(@, Head(queue[s][x]))]
        /\ UNCHANGED <<ends, phase, cut, connections, sent, received, failures>>
    BY <1>12 DEF Write
  <2>2. /\ queue'[s][x] = Tail(queue[s][x])
        /\ stream'[s][x] \in {stream[s][x], Append(stream[s][x], Head(queue[s][x]))}
        /\ \A t \in Sockets, z \in Peers : ~(t = s /\ z = x) =>
              queue'[t][z] = queue[t][z] /\ stream'[t][z] = stream[t][z]
    <3>1. /\ queue'[s][x] = Tail(queue[s][x])
          /\ \A t \in Sockets, z \in Peers : ~(t = s /\ z = x) => queue'[t][z] = queue[t][z]
      BY <1>1, <2>1
    <3>2. /\ stream'[s][x] \in {stream[s][x], Append(stream[s][x], Head(queue[s][x]))}
          /\ \A t \in Sockets, z \in Peers : ~(t = s /\ z = x) => stream'[t][z] = stream[t][z]
      <4>1. CASE UNCHANGED stream
        BY <4>1
      <4>2. CASE stream' = [stream EXCEPT ![s][x] = Append(@, Head(queue[s][x]))]
        BY <1>1, <4>2
      <4> QED
        BY <2>1, <4>1, <4>2
    <3> QED
      BY <3>1, <3>2
  <2>3. /\ Kept(stream[s][x], queue[s][x], stream[s][x], Tail(queue[s][x]))
        /\ Kept(stream[s][x], queue[s][x], Append(stream[s][x], Head(queue[s][x])),
                Tail(queue[s][x]))
    BY <1>3, <2>1, KeptInOrder
  <2>4. Kept(stream[s][x], queue[s][x], stream'[s][x], queue'[s][x])
    BY <2>2, <2>3
  <2>5. \A t \in Sockets, z \in Peers :
           Kept(stream[t][z], queue[t][z], stream'[t][z], queue'[t][z])
    BY <1>3, <2>2, <2>4
  <2>6. \A v, w \in Peers : Settled(v, w) => Settled(v, w)'
    BY <2>1 DEF Settled
  <2>7. GivesUp
    BY <1>1, <2>1, <2>5, <2>6 DEF GivesUp
  <2> QED
    BY <2>7, GivesUpKeeps
<1> QED
  BY <1>5, <1>6, <1>7, <1>9, <1>10, <1>11, <1>12 DEF vars

\* A socket taken or given up holds no frame; the others are as they were.
LEMMA ResetKeeps ==
    ASSUME TypeOK, Sequence, NEW s \in Sockets,
           \A t \in Sockets \ {s} :
               ends'[t] = ends[t] /\ phase'[t] = phase[t]
                 /\ stream'[t] = stream[t] /\ queue'[t] = queue[t],
           \A y \in Peers : /\ queue'[s][y] = <<>> /\ phase'[s][y] # "open"
                            /\ stream'[s][y] = <<>> \/ stream'[s][y] = <<Hello>>,
           cut' = cut \/ cut' = cut \ {s},
           UNCHANGED <<connections, sent, received, failures>>
    PROVE  Sequence'
<1>1. /\ SocketsInOrder /\ OnlySent /\ HelloRead /\ CutsAreFailures
      /\ SenderHolds /\ BrokenIsOlder /\ NewerToRead /\ ReceivedRising
  BY DEF Sequence
<1>2. Members(<<>>) = {} /\ Members(<<Hello>>) = {Hello} /\ Rising(<<>>) /\ Rising(<<Hello>>)
  BY NoMembers DEF Members, Rising
<1>3. \A y \in Peers :
         /\ Members(stream'[s][y]) \subseteq {Hello} /\ Rising(stream'[s][y])
         /\ Members(queue'[s][y]) = {} /\ Rising(queue'[s][y])
  BY <1>2
<1>4. /\ \A y \in Peers : Unread(s, y)' = {}
      /\ \A t \in Sockets \ {s}, y \in Peers : Unread(t, y)' = Unread(t, y)
  BY <1>3 DEF Unread
<1>5. \A t \in Sockets \ {s}, x, y \in Peers : Readable(t, x, y)' = Readable(t, x, y)
  BY DEF Readable
<1>6. \A t \in Sockets \ {s} : t \in cut' <=> t \in cut
  OBVIOUS
<1>7. SocketsInOrder'
  <2> SUFFICES ASSUME NEW t \in Sockets, NEW y \in Peers
               PROVE  InOrder(stream'[t][y], queue'[t][y])
    BY DEF SocketsInOrder
  <2>1. CASE t = s
    BY <1>3, <2>1 DEF InOrder
  <2>2. CASE t # s
    BY <1>1, <2>2 DEF SocketsInOrder
  <2> QED
    BY <2>1, <2>2
<1>8. OnlySent'
  <2>1. ASSUME NEW t \in Sockets, NEW x \in Peers, NEW y \in Peers, x # y, ends'[t] = {x, y},
               NEW n \in Members(stream'[t][y]) \cup Members(queue'[t][y])
        PROVE  n <= sent'[y][x]
    <3>1. CASE t = s
      <4>1. n = Hello
        BY <1>3, <2>1, <3>1
      <4>2. sent[y][x] \in Nat
        BY DEF TypeOK
      <4> QED
        BY <4>1, <4>2 DEF Hello
    <3>2. CASE t # s
      BY <1>1, <2>1, <3>2 DEF OnlySent
    <3> QED
      BY <3>1, <3>2
  <2>2. \A t \in Sockets, y \in Peers : ends'[t] = {} => queue'[t][y] = <<>>
    BY <1>1 DEF OnlySent
  <2>3. \A x, y \in Peers : \A n \in Members(received'[x][y]) : n <= sent'[y][x]
    BY <1>1 DEF OnlySent
  <2> QED
    BY <2>1, <2>2, <2>3 DEF OnlySent
<1>9. HelloRead'
  BY <1>1 DEF HelloRead
<1>10. CutsAreFailures'
  BY <1>1 DEF CutsAreFailures
<1>11. SenderHolds'
  <2> SUFFICES ASSUME NEW t \in Sockets, NEW x \in Peers, NEW y \in Peers,
                      Readable(t, x, y)', t \notin cut', Unread(t, y)' # {}
               PROVE  phase'[t][y] = "open"
    BY DEF SenderHolds
  <2>1. t # s
    BY <1>4
  <2>2. Readable(t, x, y) /\ t \notin cut /\ Unread(t, y) # {}
    BY <1>4, <1>5, <1>6, <2>1
  <2> QED
    BY <1>1, <2>1, <2>2 DEF SenderHolds
<1>12. BrokenIsOlder'
  <2> SUFFICES ASSUME failures' <= 1, NEW t \in Sockets, NEW u \in Sockets,
                      NEW x \in Peers, NEW y \in Peers,
                      Readable(t, x, y)', Readable(u, x, y)', t \in cut', u \notin cut',
                      NEW m \in Unread(t, y)', NEW n \in Unread(u, y)'
               PROVE  m < n
    BY DEF BrokenIsOlder
  <2>1. t # s /\ u # s
    BY <1>4
  <2>2. /\ Readable(t, x, y) /\ Readable(u, x, y) /\ t \in cut /\ u \notin cut
        /\ m \in Unread(t, y) /\ n \in Unread(u, y)
    BY <1>4, <1>5, <1>6, <2>1
  <2> QED
    BY <1>1, <2>2 DEF BrokenIsOlder
<1>13. \A x, y \in Peers : Settled(x, y) => Settled(x, y)'
  BY DEF Settled
<1>14. NewerToRead'
  <2> SUFFICES ASSUME failures' <= 1, NEW t \in Sockets, NEW x \in Peers, NEW y \in Peers,
                      Readable(t, x, y)'
               PROVE  \/ \A m \in Members(received'[x][y]), n \in Unread(t, y)' : m < n
                      \/ phase'[t][x] # "open" /\ Settled(x, y)'
    BY DEF NewerToRead
  <2>1. CASE t = s
    BY <1>4, <2>1
  <2>2. CASE t # s
    <3>1. Readable(t, x, y) /\ phase'[t][x] = phase[t][x] /\ Unread(t, y)' = Unread(t, y)
      BY <1>4, <1>5, <2>2
    <3>2. \/ \A m \in Members(received[x][y]), n \in Unread(t, y) : m < n
          \/ phase[t][x] # "open" /\ Settled(x, y)
      BY <1>1, <3>1 DEF NewerToRead
    <3> QED
      BY <1>13, <3>1, <3>2
  <2> QED
    BY <2>1, <2>2
<1>15. ReceivedRising'
  BY <1>1 DEF ReceivedRising
<1> QED
  BY <1>7, <1>8, <1>9, <1>10, <1>11, <1>12, <1>14, <1>15 DEF Sequence

\* A dial takes a socket, Recycle gives one up.
LEMMA SocketReset ==
    ASSUME TypeOK, Sequence,
           \/ \E x, y \in Peers : Dial(x, y)
           \/ \E s \in Sockets : Recycle(s)
    PROVE  Sequence'
<1>1. /\ ends \in [Sockets -> SUBSET Peers]
      /\ stream \in [Sockets -> [Peers -> Seq(Nat)]]
      /\ queue \in [Sockets -> [Peers -> Seq(Nat)]]
      /\ phase \in [Sockets -> [Peers -> Phase]]
  BY DEF TypeOK
<1>2. ASSUME NEW x \in Peers, NEW y \in Peers, Dial(x, y)
      PROVE  Sequence'
  <2>1. PICK s \in Sockets :
          /\ ends[s] = {}
          /\ ends' = [ends EXCEPT ![s] = {x, y}]
          /\ phase' = [phase EXCEPT ![s] = [z \in Peers |->
                IF z \in {x, y} THEN "greeting" ELSE "unused"]]
          /\ stream' = [stream EXCEPT ![s] = [z \in Peers |->
                IF z \in {x, y} THEN <<Hello>> ELSE <<>>]]
    BY <1>2 DEF Dial
  <2>2. UNCHANGED <<queue, cut, connections, sent, received, failures>>
    BY <1>2 DEF Dial
  <2>3. \A t \in Sockets \ {s} :
           ends'[t] = ends[t] /\ phase'[t] = phase[t] /\ stream'[t] = stream[t] /\ queue'[t] = queue[t]
    BY <1>1, <2>1, <2>2
  <2>4. \A z \in Peers : queue'[s][z] = <<>>
    BY <2>1, <2>2 DEF Sequence, OnlySent
  <2>5. \A z \in Peers : phase'[s][z] # "open"
    BY <1>1, <2>1
  <2>6. \A z \in Peers : stream'[s][z] = <<>> \/ stream'[s][z] = <<Hello>>
    BY <1>1, <2>1
  <2> QED
    BY <2>2, <2>3, <2>4, <2>5, <2>6, ResetKeeps
<1>3. ASSUME NEW s \in Sockets, Recycle(s)
      PROVE  Sequence'
  <2>1. /\ ends' = [ends EXCEPT ![s] = {}]
        /\ phase' = [phase EXCEPT ![s] = [x \in Peers |-> "unused"]]
        /\ stream' = [stream EXCEPT ![s] = [x \in Peers |-> <<>>]]
        /\ queue' = [queue EXCEPT ![s] = [x \in Peers |-> <<>>]]
        /\ cut' = cut \ {s}
        /\ UNCHANGED <<connections, sent, received, failures>>
    BY <1>3 DEF Recycle
  <2>2. \A t \in Sockets \ {s} :
           ends'[t] = ends[t] /\ phase'[t] = phase[t] /\ stream'[t] = stream[t] /\ queue'[t] = queue[t]
    BY <1>1, <2>1
  <2>3. \A z \in Peers : queue'[s][z] = <<>> /\ phase'[s][z] # "open" /\ stream'[s][z] = <<>>
    BY <1>1, <2>1
  <2> QED
    BY <2>1, <2>2, <2>3, ResetKeeps
<1> QED
  BY <1>2, <1>3

\* A socket breaks: nobody was settled, and of the sockets with frames to read
\* it is the only one.
LEMMA CutKeeps ==
    ASSUME TypeOK, Registration, Sequence, NEW s \in Sockets, Cut(s)
    PROVE  Sequence'
<1>1. /\ SocketsInOrder /\ OnlySent /\ HelloRead /\ CutsAreFailures
      /\ SenderHolds /\ BrokenIsOlder /\ NewerToRead /\ ReceivedRising
  BY DEF Sequence
<1>2. /\ failures \in Nat /\ failures' = failures + 1 /\ cut' = cut \cup {s}
      /\ UNCHANGED <<ends, phase, stream, queue, connections, sent, received>>
  BY DEF Cut, TypeOK
<1>3. failures' # 0 /\ (failures' <= 1 => failures = 0 /\ failures <= 1)
  BY <1>2
<1>4. failures = 0 => cut = {}
  BY <1>1 DEF CutsAreFailures
<1>5. SocketsInOrder' /\ OnlySent' /\ HelloRead'
  BY <1>1, <1>2 DEF SocketsInOrder, OnlySent, HelloRead
<1>6. CutsAreFailures'
  BY <1>2, <1>3, <1>4 DEF CutsAreFailures
<1>7. /\ \A t \in Sockets, y \in Peers : Unread(t, y)' = Unread(t, y)
      /\ \A t \in Sockets, x, y \in Peers : Readable(t, x, y)' = Readable(t, x, y)
  BY <1>2 DEF Unread, Readable
<1>8. SenderHolds'
  BY <1>1, <1>2, <1>7 DEF SenderHolds
<1>9. BrokenIsOlder'
  <2> SUFFICES ASSUME failures' <= 1, NEW t \in Sockets, NEW u \in Sockets,
                      NEW x \in Peers, NEW y \in Peers,
                      Readable(t, x, y), Readable(u, x, y), t \in cut', u \notin cut',
                      NEW m \in Unread(t, y), NEW n \in Unread(u, y)
               PROVE  m < n
    BY <1>7 DEF BrokenIsOlder
  <2>1. t \notin cut /\ u \notin cut /\ t # u
    BY <1>2, <1>3, <1>4
  <2>2. phase[t][y] = "open" /\ phase[u][y] = "open"
    BY <1>1, <2>1 DEF SenderHolds
  <2>3. Other(t, y) = x /\ Other(u, y) = x /\ y \in ends[t] /\ y \in ends[u]
    BY OtherOfTwo DEF Readable
  <2>4. connections[y][x] = t /\ connections[y][x] = u
    BY <2>2, <2>3 DEF Registration, OpenIsRegistered
  <2> QED
    BY <2>1, <2>4
<1>10. NewerToRead'
  <2> SUFFICES ASSUME failures' <= 1, NEW t \in Sockets, NEW x \in Peers, NEW y \in Peers,
                      Readable(t, x, y)
               PROVE  \A m \in Members(received'[x][y]), n \in Unread(t, y)' : m < n
    BY <1>7 DEF NewerToRead
  <2>1. ~Settled(x, y)
    BY <1>3 DEF Settled
  <2> QED
    BY <1>1, <1>2, <1>3, <1>7, <2>1 DEF NewerToRead
<1>11. ReceivedRising'
  BY <1>1, <1>2, <1>3 DEF ReceivedRising
<1> QED
  BY <1>5, <1>6, <1>8, <1>9, <1>10, <1>11 DEF Sequence

\* A frame sent is newer than all others of its sender to the same peer.
LEMMA SendKeeps ==
    ASSUME TypeOK, Registration, Sequence, NEW y \in Peers, NEW x \in Peers, SendFrame(y, x)
    PROVE  Sequence'
<1>1. /\ SocketsInOrder /\ OnlySent /\ HelloRead /\ CutsAreFailures
      /\ SenderHolds /\ BrokenIsOlder /\ NewerToRead /\ ReceivedRising
  BY DEF Sequence
<1>2. /\ stream \in [Sockets -> [Peers -> Seq(Nat)]]
      /\ queue \in [Sockets -> [Peers -> Seq(Nat)]]
      /\ connections \in [Peers -> [Peers -> Sockets \cup {None}]]
      /\ sent \in [Peers -> [Peers -> Nat]]
  BY DEF TypeOK
<1>3. PICK s \in Sockets : connections[y][x] = s
  BY <1>2 DEF SendFrame
<1>4. y # x /\ ends[s] = {y, x} /\ phase[s][y] = "open"
  BY <1>3 DEF Registration, RegisteredIsOpen
<1>5. PICK k \in Nat : k = sent[y][x] + 1
  BY <1>2
<1>6. /\ sent' = [sent EXCEPT ![y][x] = @ + 1]
      /\ queue' = [queue EXCEPT ![s][y] = Append(@, sent[y][x] + 1)]
      /\ UNCHANGED <<ends, phase, stream, cut, connections, received, failures>>
  BY <1>3 DEF SendFrame
<1>7. /\ sent'[y][x] = k
      /\ \A v, w \in Peers : sent[v][w] <= sent'[v][w]
  <2>1. \A v, w \in Peers : sent'[v][w] = IF v = y /\ w = x THEN sent[y][x] + 1 ELSE sent[v][w]
    BY <1>2, <1>6
  <2>2. \A v, w \in Peers : sent[v][w] \in Nat
    BY <1>2
  <2> QED
    BY <1>5, <2>1, <2>2
<1>8. /\ queue'[s][y] = Append(queue[s][y], k)
      /\ \A t \in Sockets, z \in Peers : ~(t = s /\ z = y) => queue'[t][z] = queue[t][z]
  BY <1>2, <1>5, <1>6
<1>9. \A n \in Members(stream[s][y]) \cup Members(queue[s][y]) : n < k
  <2>1. \A n \in Members(stream[s][y]) \cup Members(queue[s][y]) : n \in Nat
    <3>1. stream[s][y] \in Seq(Nat) /\ queue[s][y] \in Seq(Nat)
      BY <1>2
    <3> QED
      BY <3>1 DEF Members
  <2>2. \A n \in Members(stream[s][y]) \cup Members(queue[s][y]) : n <= sent[y][x]
    BY <1>1, <1>4 DEF OnlySent
  <2>3. sent[y][x] \in Nat
    BY <1>2
  <2> QED
    BY <1>5, <2>1, <2>2, <2>3
<1>10. /\ Members(queue'[s][y]) = Members(queue[s][y]) \cup {k}
       /\ Rising(queue'[s][y])
  <2>1. queue[s][y] \in Seq(Nat) /\ Rising(queue[s][y])
    BY <1>1, <1>2 DEF SocketsInOrder, InOrder
  <2> QED
    BY <1>8, <1>9, <2>1, AppendMembers
<1>11. k > Hello
  BY <1>2, <1>5 DEF Hello
<1>12. /\ Unread(s, y)' = Unread(s, y) \cup {k}
       /\ \A t \in Sockets, z \in Peers : ~(t = s /\ z = y) => Unread(t, z)' = Unread(t, z)
  <2>1. k # Hello
    BY <1>11 DEF Hello
  <2> QED
    BY <1>6, <1>8, <1>10, <2>1 DEF Unread
<1>13. \A t \in Sockets, v, w \in Peers : Readable(t, v, w)' = Readable(t, v, w)
  BY <1>6 DEF Readable
<1>14. \A v, w \in Peers : Settled(v, w)' = Settled(v, w)
  BY <1>6 DEF Settled
<1>15. \A t \in Sockets, v \in Peers : Readable(t, v, y) /\ t = s => v = x
  BY <1>4 DEF Readable
<1>16. SocketsInOrder'
  <2> SUFFICES ASSUME NEW t \in Sockets, NEW z \in Peers
               PROVE  InOrder(stream'[t][z], queue'[t][z])
    BY DEF SocketsInOrder
  <2>1. InOrder(stream[t][z], queue[t][z])
    BY <1>1 DEF SocketsInOrder
  <2>2. CASE t = s /\ z = y
    <3>1. InOrder(stream[s][y], queue'[s][y])
      BY <1>9, <1>10, <1>11, <2>1, <2>2 DEF InOrder
    <3> QED
      BY <1>6, <2>2, <3>1
  <2>3. CASE ~(t = s /\ z = y)
    BY <1>6, <1>8, <2>1, <2>3
  <2> QED
    BY <2>2, <2>3
<1>17. OnlySent'
  <2>1. ASSUME NEW t \in Sockets, NEW v \in Peers, NEW w \in Peers, v # w, ends[t] = {v, w},
               NEW n \in Members(stream[t][w]) \cup Members(queue'[t][w])
        PROVE  n <= sent'[w][v]
    <3>1. CASE n \in Members(stream[t][w]) \cup Members(queue[t][w])
      <4>1. n \in Nat /\ sent[w][v] \in Nat /\ sent'[w][v] \in Nat
        <5>1. stream[t][w] \in Seq(Nat) /\ queue[t][w] \in Seq(Nat)
          BY <1>2
        <5>2. sent[w][v] \in Nat /\ sent'[w][v] \in Nat
          BY <1>2, <1>6
        <5> QED
          BY <3>1, <5>1, <5>2 DEF Members
      <4>2. n <= sent[w][v] /\ sent[w][v] <= sent'[w][v]
        BY <1>1, <1>7, <2>1, <3>1 DEF OnlySent
      <4> QED
        BY <4>1, <4>2
    <3>2. CASE n \notin Members(stream[t][w]) \cup Members(queue[t][w])
      <4>1. t = s /\ w = y /\ n = k
        <5>1. n \in Members(queue'[t][w]) /\ n \notin Members(queue[t][w])
          BY <2>1, <3>2
        <5>2. t = s /\ w = y
          BY <1>8, <5>1
        <5> QED
          BY <1>10, <5>1, <5>2
      <4>2. v = x
        BY <1>4, <2>1, <4>1
      <4> QED
        BY <1>7, <4>1, <4>2
    <3> QED
      BY <3>1, <3>2
  <2>2. ASSUME NEW v \in Peers, NEW w \in Peers, NEW n \in Members(received[v][w])
        PROVE  n <= sent'[w][v]
    <3>1. n \in Nat /\ sent[w][v] \in Nat /\ sent'[w][v] \in Nat
      <4>1. received[v][w] \in Seq(Nat)
        BY DEF TypeOK
      <4>2. sent[w][v] \in Nat /\ sent'[w][v] \in Nat
        BY <1>2, <1>6
      <4> QED
        BY <2>2, <4>1, <4>2 DEF Members
    <3>2. n <= sent[w][v] /\ sent[w][v] <= sent'[w][v]
      BY <1>1, <1>7 DEF OnlySent
    <3> QED
      BY <3>1, <3>2
  <2>3. \A t \in Sockets, z \in Peers : ends[t] = {} => queue'[t][z] = <<>>
    BY <1>1, <1>4, <1>8 DEF OnlySent
  <2> QED
    BY <1>6, <2>1, <2>2, <2>3 DEF OnlySent
<1>18. HelloRead' /\ CutsAreFailures' /\ ReceivedRising'
  BY <1>1, <1>6 DEF HelloRead, CutsAreFailures, ReceivedRising
<1>19. SenderHolds'
  <2> SUFFICES ASSUME NEW t \in Sockets, NEW v \in Peers, NEW w \in Peers,
                      Readable(t, v, w), t \notin cut, Unread(t, w)' # {}
               PROVE  phase[t][w] = "open"
    BY <1>6, <1>13 DEF SenderHolds
  <2>1. CASE t = s /\ w = y
    BY <1>4, <2>1
  <2>2. CASE ~(t = s /\ w = y)
    BY <1>1, <1>12, <2>2 DEF SenderHolds
  <2> QED
    BY <2>1, <2>2
<1>20. BrokenIsOlder'
  <2> SUFFICES ASSUME failures <= 1, NEW t \in Sockets, NEW u \in Sockets,
                      NEW v \in Peers, NEW w \in Peers,
                      Readable(t, v, w), Readable(u, v, w), t \in cut, u \notin cut,
                      NEW m \in Unread(t, w)', NEW n \in Unread(u, w)'
               PROVE  m < n
    BY <1>6, <1>13 DEF BrokenIsOlder
  <2>1. CASE w = y /\ t = s
    <3>1. v = x /\ u # s
      BY <1>15, <2>1
    <3>2. n \in Unread(u, y)
      BY <1>12, <2>1, <3>1
    <3>3. phase[u][y] = "open"
      BY <1>1, <2>1, <3>2 DEF SenderHolds
    <3>4. Other(u, y) = x /\ y \in ends[u]
      BY <2>1, <3>1, OtherOfTwo DEF Readable
    <3>5. connections[y][x] = u
      BY <3>3, <3>4 DEF Registration, OpenIsRegistered
    <3> QED
      BY <1>3, <3>1, <3>5
  <2>2. CASE w = y /\ u = s
    <3>1. v = x /\ t # s
      BY <1>15, <2>2
    <3>2. m \in Unread(t, y)
      BY <1>12, <2>2, <3>1
    <3>3. CASE n \in Unread(s, y)
      BY <1>1, <2>2, <3>2, <3>3 DEF BrokenIsOlder
    <3>4. CASE n = k
      <4>1. m \in Members(stream[t][y]) \cup Members(queue[t][y])
        BY <3>2 DEF Unread
      <4>2. m \in Nat
        <5>1. stream[t][y] \in Seq(Nat) /\ queue[t][y] \in Seq(Nat)
          BY <1>2
        <5> QED
          BY <4>1, <5>1 DEF Members
      <4>3. m <= sent[y][x]
        BY <1>1, <2>2, <3>1, <4>1 DEF OnlySent, Readable
      <4>4. sent[y][x] \in Nat
        BY <1>2
      <4> QED
        BY <1>5, <3>4, <4>2, <4>3, <4>4
    <3> QED
      BY <1>12, <2>2, <3>3, <3>4
  <2>3. CASE ~(w = y /\ (t = s \/ u = s))
    <3>1. m \in Unread(t, w) /\ n \in Unread(u, w)
      BY <1>12, <2>3
    <3> QED
      BY <1>1, <3>1 DEF BrokenIsOlder
  <2> QED
    BY <2>1, <2>2, <2>3
<1>21. NewerToRead'
  <2> SUFFICES ASSUME failures <= 1, NEW t \in Sockets, NEW v \in Peers, NEW w \in Peers,
                      Readable(t, v, w)
               PROVE  \/ \A m \in Members(received[v][w]), n \in Unread(t, w)' : m < n
                      \/ phase[t][v] # "open" /\ Settled(v, w)
    BY <1>6, <1>13, <1>14 DEF NewerToRead
  <2>1. \/ \A m \in Members(received[v][w]), n \in Unread(t, w) : m < n
        \/ phase[t][v] # "open" /\ Settled(v, w)
    BY <1>1 DEF NewerToRead
  <2>2. CASE t = s /\ w = y
    <3>1. v = x
      BY <1>15, <2>2
    <3>2. ASSUME NEW m \in Members(received[x][y]) PROVE m < k
      <4>1. m \in Nat
        <5>1. received[x][y] \in Seq(Nat)
          BY DEF TypeOK
        <5> QED
          BY <5>1 DEF Members
      <4>2. m <= sent[y][x] /\ sent[y][x] \in Nat
        BY <1>1, <1>2 DEF OnlySent
      <4> QED
        BY <1>5, <4>1, <4>2
    <3> QED
      BY <1>12, <2>1, <2>2, <3>1, <3>2
  <2>3. CASE ~(t = s /\ w = y)
    BY <1>12, <2>1, <2>3
  <2> QED
    BY <2>2, <2>3
<1> QED
  BY <1>16, <1>17, <1>18, <1>19, <1>20, <1>21 DEF Sequence

\* A frame read is newer than those read, and what may still be read is newer
\* than it, or will be refused.
LEMMA ReadKeeps ==
    ASSUME TypeOK, Registration, Sequence, NEW s \in Sockets, NEW x \in Peers, Read(s, x)
    PROVE  Sequence'
<1>1. /\ SocketsInOrder /\ OnlySent /\ HelloRead /\ CutsAreFailures
      /\ SenderHolds /\ BrokenIsOlder /\ NewerToRead /\ ReceivedRising
  BY DEF Sequence
<1>2. /\ stream \in [Sockets -> [Peers -> Seq(Nat)]]
      /\ queue \in [Sockets -> [Peers -> Seq(Nat)]]
      /\ received \in [Peers -> [Peers -> Seq(Nat)]]
      /\ failures \in Nat
  BY DEF TypeOK
<1>3. PICK y \in Peers : y = Other(s, x) /\ y # x /\ ends[s] = {x, y} /\ x \in ends[s]
  BY OtherEnd DEF Read, Uses, Registration
<1>4. /\ phase[s][x] = "open" /\ stream[s][y] # <<>>
      /\ stream' = [stream EXCEPT ![s][y] = Tail(@)]
      /\ received' = [received EXCEPT ![x][y] = Append(@, Head(stream[s][y]))]
      /\ UNCHANGED <<ends, phase, queue, cut, connections, sent, failures>>
  BY <1>3 DEF Read
<1>5. connections[x][y] = s
  BY <1>3, <1>4 DEF Registration, OpenIsRegistered
<1>6. PICK k \in Nat : k = Head(stream[s][y])
  BY <1>2, <1>4, TailMembers
<1>7. /\ stream'[s][y] = Tail(stream[s][y])
      /\ \A t \in Sockets, z \in Peers : ~(t = s /\ z = y) => stream'[t][z] = stream[t][z]
  BY <1>2, <1>4
<1>8. /\ received'[x][y] = Append(received[x][y], k)
      /\ \A v, w \in Peers : ~(v = x /\ w = y) => received'[v][w] = received[v][w]
  BY <1>2, <1>4, <1>6
<1>9. /\ Members(Tail(stream[s][y])) \subseteq Members(stream[s][y])
      /\ k \in Members(stream[s][y])
      /\ \A n \in Members(Tail(stream[s][y])) : k < n
      /\ \A n \in Members(queue[s][y]) : k < n
  <2>1. InOrder(stream[s][y], queue[s][y]) /\ stream[s][y] \in Seq(Nat)
    BY <1>1, <1>2 DEF SocketsInOrder
  <2> QED
    BY <1>4, <1>6, <2>1, TailMembers DEF InOrder
<1>10. k # Hello
  BY <1>1, <1>3, <1>4, <1>9 DEF HelloRead
<1>11. k \in Unread(s, y)
  BY <1>9, <1>10 DEF Unread
<1>12. Readable(s, x, y)
  BY <1>3, <1>4 DEF Readable
<1>13. /\ \A t \in Sockets, z \in Peers : Unread(t, z)' \subseteq Unread(t, z)
       /\ \A n \in Unread(s, y)' : k < n
  BY <1>4, <1>7, <1>9 DEF Unread
<1>14. \A t \in Sockets, v, w \in Peers : Readable(t, v, w)' = Readable(t, v, w)
  BY <1>4 DEF Readable
<1>15. \A v, w \in Peers : Settled(v, w)' = Settled(v, w)
  BY <1>4 DEF Settled
<1>16. /\ Members(received'[x][y]) = Members(received[x][y]) \cup {k}
       /\ (Rising(received[x][y]) /\ \A m \in Members(received[x][y]) : m < k)
             => Rising(received'[x][y])
  <2>1. received[x][y] \in Seq(Nat)
    BY <1>2
  <2> QED
    BY <1>8, <2>1, AppendMembers
<1>17. SocketsInOrder'
  <2> SUFFICES ASSUME NEW t \in Sockets, NEW z \in Peers
               PROVE  InOrder(stream'[t][z], queue'[t][z])
    BY DEF SocketsInOrder
  <2>1. InOrder(stream[t][z], queue[t][z]) /\ stream[t][z] \in Seq(Nat) /\ queue[t][z] \in Seq(Nat)
    BY <1>1, <1>2 DEF SocketsInOrder
  <2>2. CASE t = s /\ z = y
    <3>1. Kept(stream[s][y], queue[s][y], Tail(stream[s][y]), queue[s][y])
      BY <1>4, <2>1, <2>2, KeptInOrder
    <3> QED
      BY <1>4, <1>7, <2>2, <3>1 DEF Kept
  <2>3. CASE ~(t = s /\ z = y)
    BY <1>4, <1>7, <2>1, <2>3
  <2> QED
    BY <2>2, <2>3
<1>18. \A t \in Sockets, z \in Peers : Members(stream'[t][z]) \subseteq Members(stream[t][z])
  BY <1>7, <1>9
<1>19. OnlySent'
  <2>1. k <= sent[y][x]
    BY <1>1, <1>3, <1>9 DEF OnlySent
  <2>2. ASSUME NEW v \in Peers, NEW w \in Peers, NEW n \in Members(received'[v][w])
        PROVE  n <= sent[w][v]
    <3>1. CASE v = x /\ w = y
      BY <1>1, <1>16, <2>1, <2>2, <3>1 DEF OnlySent
    <3>2. CASE ~(v = x /\ w = y)
      BY <1>1, <1>8, <2>2, <3>2 DEF OnlySent
    <3> QED
      BY <3>1, <3>2
  <2>3. \A t \in Sockets, v, w \in Peers :
          v # w /\ ends[t] = {v, w} =>
              \A n \in Members(stream'[t][w]) \cup Members(queue[t][w]) : n <= sent[w][v]
    BY <1>1, <1>18 DEF OnlySent
  <2>4. \A t \in Sockets, z \in Peers : ends[t] = {} => queue[t][z] = <<>>
    BY <1>1 DEF OnlySent
  <2> QED
    BY <1>4, <2>2, <2>3, <2>4 DEF OnlySent
<1>20. HelloRead' /\ CutsAreFailures'
  BY <1>1, <1>4, <1>18 DEF HelloRead, CutsAreFailures
<1>21. SenderHolds'
  <2> SUFFICES ASSUME NEW t \in Sockets, NEW v \in Peers, NEW w \in Peers,
                      Readable(t, v, w), t \notin cut, Unread(t, w)' # {}
               PROVE  phase[t][w] = "open"
    BY <1>4, <1>14 DEF SenderHolds
  <2> QED
    BY <1>1, <1>13 DEF SenderHolds
<1>22. BrokenIsOlder'
  <2> SUFFICES ASSUME failures <= 1, NEW t \in Sockets, NEW u \in Sockets,
                      NEW v \in Peers, NEW w \in Peers,
                      Readable(t, v, w), Readable(u, v, w), t \in cut, u \notin cut,
                      NEW m \in Unread(t, w)', NEW n \in Unread(u, w)'
               PROVE  m < n
    BY <1>4, <1>14 DEF BrokenIsOlder
  <2>1. m \in Unread(t, w) /\ n \in Unread(u, w)
    BY <1>13
  <2> QED
    BY <1>1, <2>1 DEF BrokenIsOlder
<1>23. ASSUME failures <= 1 PROVE \A m \in Members(received[x][y]) : m < k
  BY <1>1, <1>4, <1>11, <1>12, <1>23 DEF NewerToRead
<1>24. NewerToRead'
  <2> SUFFICES ASSUME failures <= 1, NEW t \in Sockets, NEW v \in Peers, NEW w \in Peers,
                      Readable(t, v, w)
               PROVE  \/ \A m \in Members(received'[v][w]), n \in Unread(t, w)' : m < n
                      \/ phase[t][v] # "open" /\ Settled(v, w)
    BY <1>4, <1>14, <1>15 DEF NewerToRead
  <2>1. \/ \A m \in Members(received[v][w]), n \in Unread(t, w) : m < n
        \/ phase[t][v] # "open" /\ Settled(v, w)
    BY <1>1 DEF NewerToRead
  <2>2. CASE ~(v = x /\ w = y)
    BY <1>8, <1>13, <2>1, <2>2
  <2>3. CASE v = x /\ w = y /\ t = s
    BY <1>4, <1>13, <1>16, <2>1, <2>3
  <2>4. CASE v = x /\ w = y /\ t # s /\ Unread(t, y) = {}
    BY <1>13, <2>4
  <2>5. CASE v = x /\ w = y /\ t # s /\ Unread(t, y) # {}
    <3>1. \A u \in Sockets : Readable(u, x, y) /\ u \notin cut /\ Unread(u, y) # {}
                                => connections[y][x] = u
      <4> SUFFICES ASSUME NEW u \in Sockets, Readable(u, x, y), u \notin cut, Unread(u, y) # {}
                   PROVE  connections[y][x] = u
        OBVIOUS
      <4>1. phase[u][y] = "open"
        BY <1>1 DEF SenderHolds
      <4>2. Other(u, y) = x /\ y \in ends[u]
        BY OtherOfTwo DEF Readable
      <4> QED
        BY <4>1, <4>2 DEF Registration, OpenIsRegistered
    <3>2. phase[t][x] # "open"
      <4>1. Other(t, x) = y /\ x \in ends[t]
        BY <2>5, OtherOfTwo DEF Readable
      <4> QED
        BY <1>5, <2>5, <4>1 DEF Registration, OpenIsRegistered
    <3>3. CASE s \in cut /\ t \in cut
      BY <1>1, <2>5, <3>3 DEF CutsAreFailures
    <3>4. CASE s \notin cut /\ t \notin cut
      BY <1>11, <1>12, <2>5, <3>1, <3>4
    <3>5. CASE s \in cut /\ t \notin cut
      <4>1. \A n \in Unread(t, y) : k < n
        BY <1>1, <1>11, <1>12, <2>5, <3>5 DEF BrokenIsOlder
      <4> QED
        BY <1>13, <1>16, <2>1, <2>5, <3>2, <4>1
    <3>6. CASE s \notin cut /\ t \in cut
      <4>1. connections[y][x] = s
        BY <1>11, <1>12, <3>1, <3>6
      <4>2. failures > 0
        BY <1>1, <1>2, <3>6 DEF CutsAreFailures
      <4>3. Settled(x, y)
        BY <1>5, <3>6, <4>1, <4>2 DEF Settled
      <4> QED
        BY <2>5, <3>2, <4>3
    <3> QED
      BY <3>3, <3>4, <3>5, <3>6
  <2> QED
    BY <2>2, <2>3, <2>4, <2>5
<1>25. ReceivedRising'
  <2> SUFFICES ASSUME failures <= 1, NEW v \in Peers, NEW w \in Peers
               PROVE  Rising(received'[v][w])
    BY <1>4 DEF ReceivedRising
  <2>1. Rising(received[v][w])
    BY <1>1 DEF ReceivedRising
  <2>2. CASE v = x /\ w = y
    BY <1>16, <1>23, <2>1, <2>2
  <2>3. CASE ~(v = x /\ w = y)
    BY <1>8, <2>1, <2>3
  <2> QED
    BY <2>2, <2>3
<1> QED
  BY <1>17, <1>19, <1>20, <1>21, <1>22, <1>24, <1>25 DEF Sequence

\* Before the first dial there is nothing to read.
LEMMA InitSequence == Init => Sequence
<1> SUFFICES ASSUME Init PROVE Sequence
  OBVIOUS
<1>1. /\ \A s \in Sockets, y \in Peers : stream[s][y] = <<>> /\ queue[s][y] = <<>>
      /\ \A x, y \in Peers : received[x][y] = <<>>
      /\ \A s \in Sockets : ends[s] = {}
      /\ cut = {} /\ failures = 0
  BY DEF Init
<1>2. Members(<<>>) = {} /\ Rising(<<>>)
  BY NoMembers
<1>3. \A s \in Sockets, y \in Peers : Unread(s, y) = {}
  BY <1>1, <1>2 DEF Unread
<1>4. SocketsInOrder
  BY <1>1, <1>2 DEF SocketsInOrder, InOrder
<1>5. OnlySent
  BY <1>1, <1>2 DEF OnlySent
<1>6. HelloRead
  BY <1>1, <1>2 DEF HelloRead
<1>7. CutsAreFailures
  BY <1>1 DEF CutsAreFailures
<1>8. SenderHolds /\ BrokenIsOlder /\ NewerToRead
  BY <1>3 DEF SenderHolds, BrokenIsOlder, NewerToRead
<1>9. ReceivedRising
  BY <1>1, <1>2 DEF ReceivedRising
<1> QED
  BY <1>4, <1>5, <1>6, <1>7, <1>8, <1>9 DEF Sequence

\* Every step keeps the order.
LEMMA SequenceStep == LanInvariant /\ LanInvariant' /\ Sequence /\ [Next]_vars => Sequence'
<1> SUFFICES ASSUME TypeOK, TypeOK', Registration, Sequence, [Next]_vars PROVE Sequence'
  BY DEF LanInvariant
<1>1. ASSUME NEW x \in Peers, NEW y \in Peers, HearBeacon(x, y) \/ Connect(x, y)
      PROVE  Sequence'
  BY <1>1, GivingUp
<1>2. ASSUME NEW x \in Peers, NEW y \in Peers, Dial(x, y)
      PROVE  Sequence'
  BY <1>2, SocketReset
<1>3. ASSUME NEW x \in Peers, NEW y \in Peers, SendFrame(x, y)
      PROVE  Sequence'
  BY <1>3, SendKeeps
<1>4. ASSUME NEW s \in Sockets, NEW x \in Peers,
             \/ Greet(s, x) \/ HandshakeFails(s, x) \/ Write(s, x)
             \/ WriteFails(s, x) \/ ReadEnds(s, x)
      PROVE  Sequence'
  BY <1>4, GivingUp
<1>5. ASSUME NEW s \in Sockets, NEW x \in Peers, Read(s, x)
      PROVE  Sequence'
  BY <1>5, ReadKeeps
<1>6. ASSUME NEW s \in Sockets, Cut(s)
      PROVE  Sequence'
  BY <1>6, CutKeeps
<1>7. ASSUME NEW s \in Sockets, Recycle(s)
      PROVE  Sequence'
  BY <1>7, SocketReset
<1>8. ASSUME UNCHANGED vars
      PROVE  Sequence'
  BY <1>8, GivingUp
<1> QED
  BY <1>1, <1>2, <1>3, <1>4, <1>5, <1>6, <1>7, <1>8 DEF Next, Progress

\* While at most one socket breaks or handshake times out, frames of a peer
\* come to Core in the order send_frame took them, through however many
\* connections (send_frame, _write_loop, _read_loop, _drop, handshake): at
\* most one of two sockets with frames is broken, and what is left on it is
\* read before the next connection opens or never.
THEOREM FramesInOrder == Spec => []ReadInOrder
<1>1. Init => Sequence
  BY InitSequence
<1>2. LanInvariant /\ LanInvariant' /\ Sequence /\ [Next]_vars => Sequence'
  BY SequenceStep
<1>3. LanInvariant /\ Sequence => ReadInOrder
  <2> SUFFICES ASSUME TypeOK, Sequence, failures <= 1, NEW x \in Peers, NEW y \in Peers,
                      NEW i \in DOMAIN received[x][y], NEW j \in DOMAIN received[x][y], i < j
               PROVE  received[x][y][i] < received[x][y][j]
    BY DEF LanInvariant, ReadInOrder
  <2>1. received[x][y] \in Seq(Nat) /\ Rising(received[x][y])
    BY DEF TypeOK, Sequence, ReceivedRising
  <2>2. DOMAIN received[x][y] = 1..Len(received[x][y])
    BY <2>1
  <2> QED
    BY <2>1, <2>2 DEF Rising
<1> QED
  BY <1>1, <1>2, <1>3, Invariance, PTL DEF Spec
=============================================================================
