-------------------------- MODULE ChannelsProofs --------------------------
(***************************************************************************)
(* Proofs about Channels, for all peers, friendships and bounds.           *)
(***************************************************************************)
EXTENDS Channels, SelectionProofs

-----------------------------------------------------------------------------
(***************************************************************************)
(* The inductive invariant.                                                *)
(***************************************************************************)

\* An entry is that of the text with its number.
OwnTexts ==
    \A p \in Peers : \A n \in 1..Len(history[p]) :
        history[p][n].text.from = p /\ history[p][n].text.number = n

\* The queue holds nothing for a connected peer.
QueueWaits ==
    \A p \in Peers : \A i \in 1..Len(queued[p]) : queued[p][i].to \notin connections[p]

\* What is read, on the wire and queued of p, of which k texts are written.
Within(read, onWire, kept, p, k) ==
    /\ \A i \in 1..Len(read) : read[i].from = p => read[i].number \in 1..k
    /\ \A i \in 1..Len(onWire) : onWire[i].from = p /\ onWire[i].number \in 1..k
    /\ \A i \in 1..Len(kept) : kept[i].text.from = p /\ kept[i].text.number \in 1..k

\* The texts of p for q: those q read, on the wire and in p's queue stand in
\* line, oldest first.
InLine(read, onWire, kept, p, q) ==
    /\ \A i, j \in 1..Len(read) :
          i < j /\ read[i].from = p /\ read[j].from = p => read[i].number < read[j].number
    /\ \A i, j \in 1..Len(onWire) : i < j => onWire[i].number < onWire[j].number
    /\ \A i, j \in 1..Len(kept) :
          i < j /\ kept[i].to = q /\ kept[j].to = q => kept[i].text.number < kept[j].text.number
    /\ \A i \in 1..Len(read), j \in 1..Len(onWire) :
          read[i].from = p => read[i].number < onWire[j].number
    /\ \A i \in 1..Len(read), j \in 1..Len(kept) :
          read[i].from = p /\ kept[j].to = q => read[i].number < kept[j].text.number
    /\ \A i \in 1..Len(onWire), j \in 1..Len(kept) :
          kept[j].to = q => onWire[i].number < kept[j].text.number

Counted ==
    \A p, q \in Peers :
        Within(inbox[q], wire[p][q], queued[p], p, Len(history[p]))

Lines ==
    \A p, q \in Peers : InLine(inbox[q], wire[p][q], queued[p], p, q)

\* An entry keeps the uid of a copy for one of its readers.
UidsRead ==
    \A p \in Peers : \A n \in 1..Len(history[p]) :
        history[p][n].uid \subseteq Readers(history[p][n].text)

-----------------------------------------------------------------------------
(***************************************************************************)
(* What the operators of Channels return.                                  *)
(***************************************************************************)

\* new are the members of old with an index in S, in their order.
Picks(new, old, S) ==
    \E place \in [1..Len(new) -> 1..Len(old)] :
        /\ \A i, j \in 1..Len(new) : i < j => place[i] < place[j]
        /\ \A i \in 1..Len(new) : place[i] \in S /\ new[i] = old[place[i]]
        /\ \A k \in S : \E i \in 1..Len(new) : place[i] = k

\* Picked does that.
LEMMA PickedCopies ==
    ASSUME NEW old \in Seq(Copy), NEW S \in SUBSET (1..Len(old))
    PROVE  Picked(old, S) \in Seq(Copy) /\ Picks(Picked(old, S), old, S)
<1> DEFINE new == Picked(old, S)
<1>1. /\ new \in Seq(Copy) /\ Len(new) = Cardinality(S)
      /\ \E place : /\ Enumerates(place, S)
                    /\ \A i \in 1..Cardinality(S) : new[i] = old[place[i]]
  BY PickedPlaces
<1> HIDE DEF new
<1>2. PICK place : /\ Enumerates(place, S)
                   /\ \A i \in 1..Len(new) : new[i] = old[place[i]]
  BY <1>1
<1>3. place \in [1..Len(new) -> S]
  BY <1>1, <1>2 DEF Enumerates
<1>4. place \in [1..Len(new) -> 1..Len(old)] /\ \A i \in 1..Len(new) : place[i] \in S
  BY <1>3
<1>5. /\ \A i, j \in 1..Len(new) : i < j => place[i] < place[j]
      /\ \A k \in S : \E i \in 1..Len(new) : place[i] = k
  BY <1>1, <1>2 DEF Enumerates
<1>6. Picks(new, old, S)
  BY <1>2, <1>4, <1>5 DEF Picks
<1> QED BY <1>1, <1>6 DEF new

\* What leaves the queue and what stays.
Those(copies, q) == {i \in 1..Len(copies) : copies[i].to = q}
Others(copies, q) == {i \in 1..Len(copies) : copies[i].to # q}

\* A flush takes the copies for the peer, in order, and leaves the others, in
\* order.
LEMMA LeavingStaying ==
    ASSUME NEW copies \in Seq(Copy), NEW q
    PROVE  /\ Leaving(copies, q) \in Seq(Copy) /\ Staying(copies, q) \in Seq(Copy)
           /\ Picks(Leaving(copies, q), copies, Those(copies, q))
           /\ Picks(Staying(copies, q), copies, Others(copies, q))
<1>1. DOMAIN copies = 1..Len(copies)
  BY LenProperties
<1>2. /\ Leaving(copies, q) = Picked(copies, Those(copies, q))
      /\ Staying(copies, q) = Picked(copies, Others(copies, q))
  BY <1>1 DEF Leaving, Staying, Those, Others
<1>3. Those(copies, q) \in SUBSET (1..Len(copies)) /\ Others(copies, q) \in SUBSET (1..Len(copies))
  BY DEF Those, Others
<1> QED BY <1>2, <1>3, PickedCopies

\* A set of friends in some order: each of them once.
LEMMA OrdersList ==
    ASSUME NEW S \in SUBSET Peers, NEW order \in Orders(S)
    PROVE  /\ order \in Seq(Peers) /\ DOMAIN order = 1..Len(order)
           /\ \A i \in 1..Len(order) : order[i] \in S
           /\ \A m \in S : \E i \in 1..Len(order) : order[i] = m
           /\ \A i, j \in 1..Len(order) : order[i] = order[j] => i = j
<1>1. IsFiniteSet(S)
  BY ChannelsAssumption, FS_Subset
<1> DEFINE k == Cardinality(S)
<1>2. k \in Nat
  BY <1>1, FS_CardinalityType
<1>3. order \in [1..k -> S] /\ {order[i] : i \in DOMAIN order} = S
  BY DEF Orders
<1>4. order \in Surjection(1..k, S)
  BY <1>3 DEF Surjection
<1>5. IsFiniteSet(1..k) /\ Cardinality(1..k) = k
  BY <1>2, FS_Interval
<1>6. order \in Injection(1..k, S)
  <2>1. Cardinality(1..k) = Cardinality(S)
    BY <1>5
  <2> QED BY <1>4, <1>5, <2>1, FS_SurjSameCardinalityImpliesInj
<1>7. \A i, j \in 1..k : order[i] = order[j] => i = j
  BY <1>3, <1>6 DEF Injection, IsInjective
<1> HIDE DEF k
<1>8. order \in Seq(S) /\ order \in Seq(Peers) /\ Len(order) = k
  <2>1. order \in [1..k -> Peers]
    BY <1>3
  <2> QED BY <1>2, <1>3, <2>1, IsASeq, LenProperties
<1> QED BY <1>3, <1>7, <1>8

\* The copies for them.
LEMMA CopiesList ==
    ASSUME NEW text \in Text, NEW order \in Seq(Peers)
    PROVE  /\ Copies(text, order) \in Seq(Copy) /\ Len(Copies(text, order)) = Len(order)
           /\ \A i \in 1..Len(order) :
                 Copies(text, order)[i] = [text |-> text, to |-> order[i]]
<1>1. DOMAIN order = 1..Len(order) /\ Len(order) \in Nat
  BY LenProperties
<1>2. \A i \in 1..Len(order) : [text |-> text, to |-> order[i]] \in Copy
  <2> TAKE i \in 1..Len(order)
  <2>1. order[i] \in Peers
    BY ElementOfSeq
  <2> QED BY <2>1 DEF Copy
<1>3. Copies(text, order) = [i \in 1..Len(order) |-> [text |-> text, to |-> order[i]]]
  BY <1>1 DEF Copies
<1>4. Copies(text, order) \in [1..Len(order) -> Copy]
  BY <1>2, <1>3
<1>5. Copies(text, order) \in Seq(Copy)
  BY <1>1, <1>4, IsASeq
<1>6. Len(Copies(text, order)) = Len(order)
  BY <1>1, <1>4, <1>5, LenProperties
<1> QED BY <1>3, <1>5, <1>6

\* The texts of some copies.
Texts(copies) == [i \in DOMAIN copies |-> copies[i].text]

\* One text for each copy.
LEMMA TextsList ==
    ASSUME NEW copies \in Seq(Copy)
    PROVE  /\ Texts(copies) \in Seq(Text) /\ Len(Texts(copies)) = Len(copies)
           /\ \A i \in 1..Len(copies) : Texts(copies)[i] = copies[i].text
<1>1. DOMAIN copies = 1..Len(copies) /\ Len(copies) \in Nat
  BY LenProperties
<1>2. \A i \in 1..Len(copies) : copies[i].text \in Text
  <2> TAKE i \in 1..Len(copies)
  <2>1. copies[i] \in Copy
    BY ElementOfSeq
  <2> QED BY <2>1 DEF Copy
<1>3. Texts(copies) = [i \in 1..Len(copies) |-> copies[i].text]
  BY <1>1 DEF Texts
<1>4. Texts(copies) \in [1..Len(copies) -> Text]
  BY <1>2, <1>3
<1>5. Texts(copies) \in Seq(Text)
  BY <1>1, <1>4, IsASeq
<1>6. Len(Texts(copies)) = Len(copies)
  BY <1>1, <1>4, <1>5, LenProperties
<1> QED BY <1>3, <1>5, <1>6

\* The entries of a history after a flush: the same texts.
Marked(h, leaving) ==
    [n \in DOMAIN h |->
        IF \E i \in DOMAIN leaving : /\ leaving[i].text = h[n].text
                                     /\ leaving[i].to \in h[n].uid
        THEN [h[n] EXCEPT !.status = "sent"] ELSE h[n]]

\* new is h with the entries marked.
MarksIn(new, h, leaving) ==
    /\ Len(new) = Len(h)
    /\ \A n \in 1..Len(h) :
          /\ new[n].text = h[n].text
          /\ new[n].uid = h[n].uid
          /\ \/ /\ \E i \in 1..Len(leaving) : /\ leaving[i].text = h[n].text
                                              /\ leaving[i].to \in h[n].uid
                /\ new[n].status = "sent"
             \/ /\ ~\E i \in 1..Len(leaving) : /\ leaving[i].text = h[n].text
                                               /\ leaving[i].to \in h[n].uid
                /\ new[n].status = h[n].status

\* The entries that carry the uid of a leaving copy become sent.
LEMMA MarkedList ==
    ASSUME NEW h \in Seq(Entry), NEW leaving \in Seq(Copy)
    PROVE  Marked(h, leaving) \in Seq(Entry) /\ MarksIn(Marked(h, leaving), h, leaving)
<1>1. /\ DOMAIN h = 1..Len(h) /\ Len(h) \in Nat
      /\ DOMAIN leaving = 1..Len(leaving)
  BY LenProperties
<1> DEFINE hit(n) == \E i \in 1..Len(leaving) : /\ leaving[i].text = h[n].text
                                                /\ leaving[i].to \in h[n].uid
<1>2. Marked(h, leaving) = [n \in 1..Len(h) |->
        IF hit(n) THEN [h[n] EXCEPT !.status = "sent"] ELSE h[n]]
  BY <1>1 DEF Marked
<1> HIDE DEF hit
<1>3. ASSUME NEW n \in 1..Len(h)
      PROVE  /\ h[n] \in Entry /\ [h[n] EXCEPT !.status = "sent"] \in Entry
             /\ [h[n] EXCEPT !.status = "sent"].text = h[n].text
             /\ [h[n] EXCEPT !.status = "sent"].uid = h[n].uid
             /\ [h[n] EXCEPT !.status = "sent"].status = "sent"
  <2>1. h[n] \in Entry
    BY ElementOfSeq
  <2> QED BY <2>1 DEF Entry
<1>4. Marked(h, leaving) \in [1..Len(h) -> Entry]
  BY <1>2, <1>3
<1>5. Marked(h, leaving) \in Seq(Entry)
  BY <1>1, <1>4, IsASeq
<1>6. Len(Marked(h, leaving)) = Len(h)
  BY <1>1, <1>4, <1>5, LenProperties
<1>7. \A n \in 1..Len(h) :
        /\ Marked(h, leaving)[n].text = h[n].text
        /\ Marked(h, leaving)[n].uid = h[n].uid
        /\ \/ hit(n) /\ Marked(h, leaving)[n].status = "sent"
           \/ ~hit(n) /\ Marked(h, leaving)[n].status = h[n].status
  BY <1>2, <1>3
<1> QED BY <1>5, <1>6, <1>7 DEF hit, MarksIn

-----------------------------------------------------------------------------
(***************************************************************************)
(* What each action does.                                                  *)
(***************************************************************************)

\* The text that p writes next.
NextText(p) ==
    [from |-> p, number |-> Len(history[p]) + 1, members |-> members[p] \cup {p}]

\* Those it is for, and those of them who have no link to p.
Audience(p) == (members[p] \cup {p}) \cap friends[p]
Absentees(p) == Audience(p) \ connections[p]

\* send_group: what it writes, queues and sends.
Sends(p, order) ==
    /\ order \in Orders(Absentees(p))
    /\ members' = [members EXCEPT ![p] = members[p] \cup {p}]
    /\ queued' = [queued EXCEPT ![p] = queued[p] \o Copies(NextText(p), order)]
    /\ history' = IF Audience(p) = {} THEN history
                  ELSE [history EXCEPT ![p] = Append(history[p],
                          [text |-> NextText(p), uid |-> FirstUid(Audience(p), order),
                           status |-> Mark(order)])]
    /\ wire' = [wire EXCEPT ![p] = [q \in Peers |->
                  IF q \in Audience(p) \cap connections[p]
                  THEN Append(wire[p][q], NextText(p)) ELSE wire[p][q]]]
    /\ UNCHANGED <<friends, inbox, connections, joins, leaves, breaks>>

\* SendGroup does that, for some order of the absentees.
LEMMA SendingDoes ==
    ASSUME TypeOK, NEW p \in Peers, SendGroup(p)
    PROVE  \E order : Sends(p, order)
<1>1. PICK order \in Orders(Absentees(p)) :
        /\ members' = [members EXCEPT ![p] = members[p] \cup {p}]
        /\ queued' = [queued EXCEPT ![p] = queued[p] \o Copies(NextText(p), order)]
        /\ history' = IF Audience(p) = {} THEN history
                      ELSE [history EXCEPT ![p] = Append(history[p],
                              [text |-> NextText(p), uid |-> FirstUid(Audience(p), order),
                               status |-> Mark(order)])]
  BY DEF SendGroup, NextText, Audience, Absentees
<1>2. /\ wire' = [wire EXCEPT ![p] = [q \in Peers |->
                  IF q \in Audience(p) \cap connections[p]
                  THEN Append(wire[p][q], NextText(p)) ELSE wire[p][q]]]
      /\ UNCHANGED <<friends, inbox, connections, joins, leaves, breaks>>
  BY DEF SendGroup, NextText, Audience
<1>3. Sends(p, order)
  BY <1>1, <1>2 DEF Sends
<1> QED BY <1>3

\* What that means for each piece of state.
Sent(p, order) ==
    /\ NextText(p) \in Text /\ NextText(p).from = p
    /\ NextText(p).number = Len(history[p]) + 1
    /\ NextText(p).members = members[p] \cup {p}
    /\ members' \in [Peers -> SUBSET Peers]
    /\ queued' \in [Peers -> Seq(Copy)]
    /\ history' \in [Peers -> Seq(Entry)]
    /\ wire' \in [Peers -> [Peers -> Seq(Text)]]
    /\ \A r \in Peers : members[r] \subseteq members'[r]
    /\ \A r \in Peers : r # p => queued'[r] = queued[r] /\ history'[r] = history[r]
    /\ \A r \in Peers : r # p => \A q \in Peers : wire'[r][q] = wire[r][q]
    /\ \A q \in Peers : wire'[p][q] = IF q \in Audience(p) \cap connections[p]
                                      THEN Append(wire[p][q], NextText(p)) ELSE wire[p][q]
    /\ queued'[p] = queued[p] \o Copies(NextText(p), order)
    /\ Audience(p) = {} => history'[p] = history[p]
    /\ Audience(p) # {} =>
          history'[p] = Append(history[p],
                          [text |-> NextText(p), uid |-> FirstUid(Audience(p), order),
                           status |-> Mark(order)])
    /\ Audience(p) \in SUBSET Peers /\ Absentees(p) \in SUBSET Peers

\* Each piece of state is what it says.
LEMMA SendingSets ==
    ASSUME TypeOK, NEW p \in Peers, NEW order, Sends(p, order)
    PROVE  Sent(p, order)
<1>1. /\ members \in [Peers -> SUBSET Peers] /\ history \in [Peers -> Seq(Entry)]
      /\ queued \in [Peers -> Seq(Copy)] /\ wire \in [Peers -> [Peers -> Seq(Text)]]
      /\ friends \in [Peers -> SUBSET Peers]
  BY ChannelsAssumption DEF TypeOK
<1>2. Audience(p) \in SUBSET Peers /\ Absentees(p) \in SUBSET Peers
  BY <1>1 DEF Audience, Absentees
<1>3. /\ NextText(p) \in Text /\ NextText(p).from = p
      /\ NextText(p).number = Len(history[p]) + 1
      /\ NextText(p).members = members[p] \cup {p}
  <2>1. Len(history[p]) + 1 \in Nat /\ members[p] \cup {p} \in SUBSET Peers
    BY <1>1, LenProperties
  <2> QED BY <2>1 DEF NextText, Text
<1> DEFINE text == NextText(p)
           fresh == [text |-> text, uid |-> FirstUid(Audience(p), order), status |-> Mark(order)]
<1> HIDE DEF text
<1>4. order \in Seq(Peers) /\ \A i \in 1..Len(order) : order[i] \in Absentees(p)
  BY <1>2, OrdersList DEF Sends
<1>5. fresh \in Entry
  <2>1. Mark(order) \in {"queued", "sent"}
    BY DEF Mark
  <2>2. FirstUid(Audience(p), order) \in SUBSET Peers
    <3>1. CASE order = <<>>
      BY <3>1 DEF FirstUid
    <3>2. CASE order # <<>>
      <4>1. 1 \in 1..Len(order)
        BY <1>4, <3>2, EmptySeq, LenProperties
      <4>2. order[1] \in Peers
        BY <1>4, <4>1, ElementOfSeq
      <4> QED BY <3>2, <4>2 DEF FirstUid
    <3> QED BY <3>1, <3>2
  <2>3. text \in Text
    BY <1>3 DEF text
  <2> QED BY <2>1, <2>2, <2>3 DEF Entry
<1> HIDE DEF fresh
<1>6. /\ members' \in [Peers -> SUBSET Peers]
      /\ \A r \in Peers : members[r] \subseteq members'[r]
  <2>1. members[p] \cup {p} \in SUBSET Peers
    BY <1>1
  <2>2. members' = [members EXCEPT ![p] = members[p] \cup {p}]
    BY DEF Sends
  <2> QED BY <1>1, <2>1, <2>2
<1>7. /\ queued' \in [Peers -> Seq(Copy)]
      /\ queued'[p] = queued[p] \o Copies(text, order)
      /\ \A r \in Peers : r # p => queued'[r] = queued[r]
  <2>1. Copies(text, order) \in Seq(Copy)
    BY <1>3, <1>4, CopiesList DEF text
  <2>2. queued[p] \o Copies(text, order) \in Seq(Copy)
    BY <1>1, <2>1, ConcatProperties
  <2>3. queued' = [queued EXCEPT ![p] = queued[p] \o Copies(text, order)]
    BY DEF Sends, text
  <2> QED BY <1>1, <2>2, <2>3
<1>8. /\ history' \in [Peers -> Seq(Entry)]
      /\ \A r \in Peers : r # p => history'[r] = history[r]
      /\ Audience(p) = {} => history'[p] = history[p]
      /\ Audience(p) # {} => history'[p] = Append(history[p], fresh)
  <2>1. Append(history[p], fresh) \in Seq(Entry)
    BY <1>1, <1>5, AppendProperties
  <2>2. history' = IF Audience(p) = {} THEN history
                   ELSE [history EXCEPT ![p] = Append(history[p], fresh)]
    BY DEF Sends, fresh, text
  <2> QED BY <1>1, <2>1, <2>2
<1>9. /\ wire' \in [Peers -> [Peers -> Seq(Text)]]
      /\ \A r \in Peers : r # p => \A q \in Peers : wire'[r][q] = wire[r][q]
      /\ \A q \in Peers : wire'[p][q] = IF q \in Audience(p) \cap connections[p]
                                        THEN Append(wire[p][q], text) ELSE wire[p][q]
  <2> DEFINE to(q) == q \in Audience(p) \cap connections[p]
             row == [q \in Peers |-> IF to(q) THEN Append(wire[p][q], text) ELSE wire[p][q]]
  <2>1. wire' = [wire EXCEPT ![p] = row]
    BY DEF Sends, text
  <2> HIDE DEF to
  <2>2. \A q \in Peers : Append(wire[p][q], text) \in Seq(Text) /\ wire[p][q] \in Seq(Text)
    BY <1>1, <1>3, AppendProperties DEF text
  <2>3. row \in [Peers -> Seq(Text)]
    BY <2>2
  <2>4. \A q \in Peers : row[q] = IF to(q) THEN Append(wire[p][q], text) ELSE wire[p][q]
    OBVIOUS
  <2> HIDE DEF row
  <2>5. wire' \in [Peers -> [Peers -> Seq(Text)]] /\ wire'[p] = row
        /\ \A r \in Peers : r # p => wire'[r] = wire[r]
    BY <1>1, <2>1, <2>3
  <2> QED BY <2>4, <2>5 DEF to
<1> QED BY <1>2, <1>3, <1>6, <1>7, <1>8, <1>9 DEF Sent, text, fresh

\* What it adds to a queue and a history; nothing for nobody.
Adds(p, order) ==
    /\ Audience(p) = {} =>
          /\ \A r \in Peers : queued'[r] = queued[r] /\ history'[r] = history[r]
          /\ \A r, q \in Peers : wire'[r][q] = wire[r][q]
    /\ Audience(p) # {} =>
          /\ Len(history'[p]) = Len(history[p]) + 1
          /\ history'[p][Len(history[p]) + 1] =
                [text |-> NextText(p), uid |-> FirstUid(Audience(p), order),
                 status |-> Mark(order)]
          /\ \A n \in 1..Len(history[p]) : history'[p][n] = history[p][n]
    /\ \A n \in 1..Len(history'[p]) :
          \/ n \in 1..Len(history[p])
          \/ n = Len(history[p]) + 1 /\ Audience(p) # {}

\* The history gains one entry, if there is a reader.
LEMMA SendingAdds ==
    ASSUME TypeOK, NEW p \in Peers, NEW order, Sends(p, order)
    PROVE  Adds(p, order)
<1> DEFINE entry == [text |-> NextText(p), uid |-> FirstUid(Audience(p), order),
                     status |-> Mark(order)]
<1>1. Sent(p, order)
  BY SendingSets
<1>2. /\ history[p] \in Seq(Entry) /\ queued[p] \in Seq(Copy)
      /\ \A r \in Peers : r # p => queued'[r] = queued[r] /\ history'[r] = history[r]
      /\ \A r \in Peers : r # p => \A q \in Peers : wire'[r][q] = wire[r][q]
      /\ \A q \in Peers : wire'[p][q] = IF q \in Audience(p) \cap connections[p]
                                        THEN Append(wire[p][q], NextText(p)) ELSE wire[p][q]
      /\ Audience(p) = {} => history'[p] = history[p]
      /\ Audience(p) # {} => history'[p] = Append(history[p], entry)
      /\ queued'[p] = queued[p] \o Copies(NextText(p), order)
      /\ NextText(p) \in Text /\ history'[p] \in Seq(Entry)
      /\ Absentees(p) \in SUBSET Peers /\ order \in Orders(Absentees(p))
  <2>1. history \in [Peers -> Seq(Entry)] /\ queued \in [Peers -> Seq(Copy)]
    BY DEF TypeOK
  <2> QED BY <1>1, <2>1 DEF Sent, Sends
<1> HIDE DEF entry
<1>3. Len(history[p]) \in Nat
  BY <1>2, LenProperties
<1>4. ASSUME Audience(p) = {}
      PROVE  /\ \A r \in Peers : queued'[r] = queued[r] /\ history'[r] = history[r]
             /\ \A r, q \in Peers : wire'[r][q] = wire[r][q]
  <2>1. order \in Seq(Peers) /\ \A i \in 1..Len(order) : order[i] \in Absentees(p)
    BY <1>2, OrdersList
  <2>2. Len(order) = 0
    <3>1. \A i \in 1..Len(order) : FALSE
      BY <1>4, <2>1 DEF Absentees
    <3>2. Len(order) \in Nat
      BY <2>1, LenProperties
    <3> QED BY <3>1, <3>2
  <2>3. Copies(NextText(p), order) = <<>>
    BY <1>2, <2>1, <2>2, CopiesList, EmptySeq
  <2>4. queued'[p] = queued[p]
    <3>1. queued[p] \o <<>> = queued[p]
      BY <1>2, ConcatEmptySeq
    <3> QED BY <1>2, <2>3, <3>1
  <2>5. \A q \in Peers : wire'[p][q] = wire[p][q]
    BY <1>2, <1>4
  <2> QED BY <1>2, <1>4, <2>4, <2>5
<1>5. ASSUME Audience(p) # {}
      PROVE  /\ Len(history'[p]) = Len(history[p]) + 1
             /\ history'[p][Len(history[p]) + 1] = entry
             /\ \A n \in 1..Len(history[p]) : history'[p][n] = history[p][n]
  <2>1. history'[p] = Append(history[p], entry)
    BY <1>2, <1>5
  <2>2. entry \in Entry
    <3>1. /\ Append(history[p], entry)[Len(history[p]) + 1] = entry
          /\ Len(Append(history[p], entry)) = Len(history[p]) + 1
      BY <1>2, <1>3
    <3>2. Len(history[p]) + 1 \in 1..Len(history'[p])
      BY <1>3, <2>1, <3>1
    <3> QED BY <1>2, <2>1, <3>1, <3>2, ElementOfSeq
  <2> QED BY <1>2, <2>1, <2>2, AppendProperties
<1>6. \A n \in 1..Len(history'[p]) :
         \/ n \in 1..Len(history[p])
         \/ n = Len(history[p]) + 1 /\ Audience(p) # {}
  BY <1>3, <1>4, <1>5
<1> QED BY <1>4, <1>5, <1>6 DEF Adds, entry

\* The reading of a text, and what it leaves alone.
Reading(q, p) ==
    /\ wire[p][q] # <<>>
    /\ Head(wire[p][q]) \in Text
    /\ wire' \in [Peers -> [Peers -> Seq(Text)]]
    /\ wire'[p][q] = Tail(wire[p][q])
    /\ \A r, m \in Peers : r # p \/ m # q => wire'[r][m] = wire[r][m]
    /\ \/ /\ p \notin friends[q] /\ members' = members /\ inbox' = inbox
       \/ /\ p \in friends[q]
          /\ members' = [members EXCEPT ![q] = Merged(q, Head(wire[p][q]))]
          /\ inbox' = [inbox EXCEPT ![q] = Append(inbox[q], Head(wire[p][q]))]
    /\ inbox' \in [Peers -> Seq(Text)]
    /\ members' \in [Peers -> SUBSET Peers]
    /\ UNCHANGED <<friends, history, queued, connections, joins, leaves, breaks>>

\* ReceiveText does that.
LEMMA ReadingDoes ==
    ASSUME TypeOK, NEW p \in Peers, NEW q \in Peers, ReceiveText(q, p)
    PROVE  Reading(q, p)
<1> DEFINE text == Head(wire[p][q])
<1>1. /\ members \in [Peers -> SUBSET Peers] /\ inbox \in [Peers -> Seq(Text)]
      /\ wire \in [Peers -> [Peers -> Seq(Text)]]
  BY DEF TypeOK
<1>2. /\ wire[p][q] \in Seq(Text) /\ wire[p][q] # <<>>
      /\ wire' = [wire EXCEPT ![p] = [wire[p] EXCEPT ![q] = Tail(wire[p][q])]]
      /\ UNCHANGED <<friends, history, queued, connections, joins, leaves, breaks>>
  BY <1>1 DEF ReceiveText
<1>3. text \in Text /\ Tail(wire[p][q]) \in Seq(Text)
  BY <1>2, HeadTailProperties
<1>4. [wire[p] EXCEPT ![q] = Tail(wire[p][q])] \in [Peers -> Seq(Text)]
  BY <1>1, <1>3
<1>5. /\ wire' \in [Peers -> [Peers -> Seq(Text)]]
      /\ wire'[p] = [wire[p] EXCEPT ![q] = Tail(wire[p][q])]
      /\ \A r \in Peers : r # p => wire'[r] = wire[r]
  BY <1>1, <1>2, <1>4
<1>6. /\ wire'[p][q] = Tail(wire[p][q])
      /\ \A r, m \in Peers : r # p \/ m # q => wire'[r][m] = wire[r][m]
  BY <1>1, <1>5
<1>7. \/ /\ p \notin friends[q] /\ members' = members /\ inbox' = inbox
      \/ /\ p \in friends[q]
         /\ members' = [members EXCEPT ![q] = Merged(q, text)]
         /\ inbox' = [inbox EXCEPT ![q] = Append(inbox[q], text)]
  BY DEF ReceiveText
<1> HIDE DEF text
<1>8. Merged(q, text) \in SUBSET Peers /\ Append(inbox[q], text) \in Seq(Text)
  <2>1. text.from \in Peers /\ text.members \in SUBSET Peers
    BY <1>3 DEF Text
  <2>2. Append(inbox[q], text) \in Seq(Text)
    BY <1>1, <1>3, AppendProperties
  <2> QED BY <1>1, <2>1, <2>2 DEF Merged
<1>9. inbox' \in [Peers -> Seq(Text)] /\ members' \in [Peers -> SUBSET Peers]
  BY <1>1, <1>7, <1>8
<1> QED BY <1>2, <1>3, <1>5, <1>6, <1>7, <1>9 DEF Reading, text

\* A new link, and the queue that is sent over it.
Opening(p, q) ==
    LET leaving == Leaving(queued[p], q)
    IN  /\ p # q /\ q \notin connections[p]
        /\ connections' = [connections EXCEPT ![p] = connections[p] \cup {q}]
        /\ leaving \in Seq(Copy)
        /\ wire' \in [Peers -> [Peers -> Seq(Text)]]
        /\ wire'[p][q] = wire[p][q] \o Texts(leaving)
        /\ \A r, m \in Peers : r # p \/ m # q => wire'[r][m] = wire[r][m]
        /\ queued' \in [Peers -> Seq(Copy)]
        /\ queued'[p] = Staying(queued[p], q)
        /\ \A r \in Peers : r # p => queued'[r] = queued[r]
        /\ history' \in [Peers -> Seq(Entry)]
        /\ history'[p] = Marked(history[p], leaving)
        /\ \A r \in Peers : r # p => history'[r] = history[r]
        /\ UNCHANGED <<friends, members, inbox, joins, leaves, breaks>>

\* Register does that.
LEMMA OpeningDoes ==
    ASSUME TypeOK, NEW p \in Peers, NEW q \in Peers, Register(p, q)
    PROVE  Opening(p, q)
<1> DEFINE leaving == Leaving(queued[p], q)
<1>1. /\ history \in [Peers -> Seq(Entry)] /\ queued \in [Peers -> Seq(Copy)]
      /\ wire \in [Peers -> [Peers -> Seq(Text)]]
  BY DEF TypeOK
<1>2. leaving \in Seq(Copy) /\ Staying(queued[p], q) \in Seq(Copy)
  BY <1>1, LeavingStaying
<1>3. /\ p # q /\ q \notin connections[p]
      /\ connections' = [connections EXCEPT ![p] = connections[p] \cup {q}]
      /\ wire' = [wire EXCEPT ![p] = [wire[p] EXCEPT ![q] = wire[p][q] \o Texts(leaving)]]
      /\ queued' = [queued EXCEPT ![p] = Staying(queued[p], q)]
      /\ history' = [history EXCEPT ![p] = Marked(history[p], leaving)]
      /\ UNCHANGED <<friends, members, inbox, joins, leaves, breaks>>
  BY DEF Register, Texts, Marked
<1> HIDE DEF leaving
<1>4. wire[p][q] \o Texts(leaving) \in Seq(Text)
  BY <1>1, <1>2, TextsList, ConcatProperties
<1>5. Marked(history[p], leaving) \in Seq(Entry)
  BY <1>1, <1>2, MarkedList
<1>6. [wire[p] EXCEPT ![q] = wire[p][q] \o Texts(leaving)] \in [Peers -> Seq(Text)]
  BY <1>1, <1>4
<1>7. /\ wire' \in [Peers -> [Peers -> Seq(Text)]]
      /\ wire'[p] = [wire[p] EXCEPT ![q] = wire[p][q] \o Texts(leaving)]
      /\ \A r \in Peers : r # p => wire'[r] = wire[r]
  BY <1>1, <1>3, <1>6
<1>8. /\ wire'[p][q] = wire[p][q] \o Texts(leaving)
      /\ \A r, m \in Peers : r # p \/ m # q => wire'[r][m] = wire[r][m]
  BY <1>1, <1>7
<1>9. /\ queued' \in [Peers -> Seq(Copy)] /\ queued'[p] = Staying(queued[p], q)
      /\ \A r \in Peers : r # p => queued'[r] = queued[r]
  BY <1>1, <1>2, <1>3
<1>10. /\ history' \in [Peers -> Seq(Entry)] /\ history'[p] = Marked(history[p], leaving)
       /\ \A r \in Peers : r # p => history'[r] = history[r]
  BY <1>1, <1>3, <1>5
<1> QED BY <1>2, <1>3, <1>7, <1>8, <1>9, <1>10 DEF Opening, leaving

\* The loss of a link and of what is on it.
Losing ==
    /\ wire' \in [Peers -> [Peers -> Seq(Text)]]
    /\ \A r, m \in Peers : wire'[r][m] = <<>> \/ wire'[r][m] = wire[r][m]
    /\ connections' \in [Peers -> SUBSET Peers]
    /\ \A r \in Peers : connections'[r] \subseteq connections[r]
    /\ breaks' \in Nat \ {0}
    /\ UNCHANGED <<friends, members, history, inbox, queued, joins, leaves>>

\* Break does that.
LEMMA LosingDoes ==
    ASSUME TypeOK, NEW p \in Peers, NEW q \in Peers, Break(p, q)
    PROVE  Losing
<1>1. /\ wire \in [Peers -> [Peers -> Seq(Text)]] /\ connections \in [Peers -> SUBSET Peers]
      /\ breaks \in Nat
  BY DEF TypeOK
<1>2. /\ connections' = [connections EXCEPT ![p] = @ \ {q}, ![q] = @ \ {p}]
      /\ wire' = [wire EXCEPT ![p][q] = <<>>, ![q][p] = <<>>]
      /\ breaks' = breaks + 1
      /\ UNCHANGED <<friends, members, history, inbox, queued, joins, leaves>>
  BY DEF Break
<1>3. <<>> \in Seq(Text)
  BY EmptySeq
<1>4. /\ connections' \in [Peers -> SUBSET Peers]
      /\ \A r \in Peers : connections'[r] \subseteq connections[r]
  <2> DEFINE c1 == [connections EXCEPT ![p] = connections[p] \ {q}]
  <2>1. c1 \in [Peers -> SUBSET Peers] /\ \A r \in Peers : c1[r] \subseteq connections[r]
    BY <1>1
  <2>2. connections' = [c1 EXCEPT ![q] = c1[q] \ {p}]
    BY <1>1, <1>2
  <2> HIDE DEF c1
  <2>3. connections' \in [Peers -> SUBSET Peers] /\ \A r \in Peers : connections'[r] \subseteq c1[r]
    BY <2>1, <2>2
  <2> QED BY <2>1, <2>3
<1>5. /\ wire' \in [Peers -> [Peers -> Seq(Text)]]
      /\ \A r, m \in Peers : wire'[r][m] = <<>> \/ wire'[r][m] = wire[r][m]
  <2> DEFINE w1 == [wire EXCEPT ![p] = [wire[p] EXCEPT ![q] = <<>>]]
  <2>1. [wire[p] EXCEPT ![q] = <<>>] \in [Peers -> Seq(Text)]
    BY <1>1, <1>3
  <2>2. /\ w1 \in [Peers -> [Peers -> Seq(Text)]]
        /\ \A r, m \in Peers : w1[r][m] = <<>> \/ w1[r][m] = wire[r][m]
    BY <1>1, <2>1
  <2>3. wire' = [w1 EXCEPT ![q] = [w1[q] EXCEPT ![p] = <<>>]]
    BY <1>1, <1>2
  <2> HIDE DEF w1
  <2>4. [w1[q] EXCEPT ![p] = <<>>] \in [Peers -> Seq(Text)]
    BY <1>3, <2>2
  <2>5. /\ wire' \in [Peers -> [Peers -> Seq(Text)]]
        /\ \A r, m \in Peers : wire'[r][m] = <<>> \/ wire'[r][m] = w1[r][m]
    BY <2>2, <2>3, <2>4
  <2>6. ASSUME NEW r \in Peers, NEW m \in Peers
        PROVE  wire'[r][m] = <<>> \/ wire'[r][m] = wire[r][m]
    <3>1. wire'[r][m] = <<>> \/ wire'[r][m] = w1[r][m]
      BY <2>5
    <3>2. w1[r][m] = <<>> \/ w1[r][m] = wire[r][m]
      BY <2>2
    <3> QED BY <3>1, <3>2
  <2> QED BY <2>5, <2>6
<1>6. breaks' \in Nat \ {0}
  BY <1>1, <1>2
<1> QED BY <1>2, <1>4, <1>5, <1>6 DEF Losing

-----------------------------------------------------------------------------
(***************************************************************************)
(* Types, and lists of members.                                            *)
(***************************************************************************)

\* Types are kept.
LEMMA TypeStep ==
    ASSUME TypeOK, [Next]_vars
    PROVE  TypeOK'
<1>1. /\ friends \in Friendships /\ joins \in Nat /\ leaves \in Nat /\ breaks \in Nat
      /\ members \in [Peers -> SUBSET Peers] /\ history \in [Peers -> Seq(Entry)]
      /\ inbox \in [Peers -> Seq(Text)] /\ queued \in [Peers -> Seq(Copy)]
      /\ wire \in [Peers -> [Peers -> Seq(Text)]] /\ connections \in [Peers -> SUBSET Peers]
  BY DEF TypeOK
<1>2. ASSUME NEW p \in Peers, Join(p) PROVE TypeOK'
  <2>1. PICK chosen \in SUBSET Peers : members' = [members EXCEPT ![p] = members[p] \cup {p} \cup chosen]
    BY <1>2 DEF Join
  <2>2. members[p] \cup {p} \cup chosen \in SUBSET Peers
    BY <1>1
  <2>3. members' \in [Peers -> SUBSET Peers]
    BY <1>1, <2>1, <2>2
  <2> QED BY <1>1, <1>2, <2>3 DEF Join, TypeOK
<1>3. ASSUME NEW p \in Peers, Leave(p) PROVE TypeOK'
  <2>1. members' = [members EXCEPT ![p] = members[p] \ {p}]
    BY <1>3 DEF Leave
  <2>2. members' \in [Peers -> SUBSET Peers]
    BY <1>1, <2>1
  <2> QED BY <1>1, <1>3, <2>2 DEF Leave, TypeOK
<1>4. ASSUME NEW p \in Peers, SendGroup(p) PROVE TypeOK'
  <2>1. PICK order : Sends(p, order)
    BY <1>4, SendingDoes
  <2>2. Sent(p, order)
    BY <2>1, SendingSets
  <2>3. /\ members' \in [Peers -> SUBSET Peers] /\ queued' \in [Peers -> Seq(Copy)]
        /\ history' \in [Peers -> Seq(Entry)] /\ wire' \in [Peers -> [Peers -> Seq(Text)]]
    BY <2>2 DEF Sent
  <2>4. UNCHANGED <<friends, inbox, connections, joins, leaves, breaks>>
    BY <2>1 DEF Sends
  <2> QED BY <1>1, <2>3, <2>4 DEF TypeOK
<1>5. ASSUME NEW p \in Peers, NEW q \in Peers, ReceiveText(q, p) PROVE TypeOK'
  <2>1. Reading(q, p)
    BY <1>5, ReadingDoes
  <2> QED BY <1>1, <2>1 DEF Reading, TypeOK
<1>6. ASSUME NEW p \in Peers, NEW q \in Peers, Register(p, q) PROVE TypeOK'
  <2>1. Opening(p, q)
    BY <1>6, OpeningDoes
  <2>2. connections' \in [Peers -> SUBSET Peers]
    <3>1. connections[p] \cup {q} \in SUBSET Peers
      BY <1>1
    <3> QED BY <1>1, <2>1, <3>1 DEF Opening
  <2> QED BY <1>1, <2>1, <2>2 DEF Opening, TypeOK
<1>7. ASSUME NEW p \in Peers, NEW q \in Peers, Break(p, q) PROVE TypeOK'
  <2>1. Losing
    BY <1>7, LosingDoes
  <2> QED BY <1>1, <2>1 DEF Losing, TypeOK
<1>8. CASE UNCHANGED vars
  BY <1>1, <1>8 DEF vars, TypeOK
<1> QED BY <1>2, <1>3, <1>4, <1>5, <1>6, <1>7, <1>8 DEF Next

\* The first state.
LEMMA TypeInit == Init => TypeOK
<1> SUFFICES ASSUME Init PROVE TypeOK
  OBVIOUS
<1>1. <<>> \in Seq(Entry) /\ <<>> \in Seq(Text) /\ <<>> \in Seq(Copy)
  BY EmptySeq
<1> QED BY <1>1 DEF Init, TypeOK

\* Every variable keeps its type.
THEOREM ChannelsTyping == Spec => []TypeOK
BY TypeInit, TypeStep, PTL DEF Spec

\* Lists of members only grow, the own name excepted.
LEMMA RosterStep ==
    ASSUME TypeOK, RosterSpreads, [Next]_vars
    PROVE  RosterSpreads'
<1> DEFINE known(p, text) == (text.members \cup {text.from}) \ {p}
<1>1. /\ members \in [Peers -> SUBSET Peers] /\ inbox \in [Peers -> Seq(Text)]
      /\ \A p \in Peers : \A i \in 1..Len(inbox[p]) : known(p, inbox[p][i]) \subseteq members[p]
  BY LenProperties DEF TypeOK, RosterSpreads
<1>2. TypeOK'
  BY TypeStep
<1>3. (\A p \in Peers : \A i \in 1..Len(inbox'[p]) : known(p, inbox'[p][i]) \subseteq members'[p])
         => RosterSpreads'
  <2>1. \A p \in Peers : DOMAIN inbox'[p] = 1..Len(inbox'[p])
    BY <1>2, LenProperties DEF TypeOK
  <2> QED BY <2>1 DEF RosterSpreads
<1>4. ASSUME inbox' = inbox, \A p \in Peers : members[p] \ {p} \subseteq members'[p]
      PROVE  RosterSpreads'
  BY <1>1, <1>3, <1>4
<1>5. ASSUME NEW p \in Peers, Join(p) \/ Leave(p) PROVE RosterSpreads'
  BY <1>1, <1>4, <1>5 DEF Join, Leave
<1>6. ASSUME NEW p \in Peers, SendGroup(p) PROVE RosterSpreads'
  <2>1. PICK order : Sends(p, order)
    BY <1>6, SendingDoes
  <2>2. Sent(p, order)
    BY <2>1, SendingSets
  <2> QED BY <1>4, <2>1, <2>2 DEF Sends, Sent
<1>7. ASSUME NEW p \in Peers, NEW q \in Peers, ReceiveText(q, p) PROVE RosterSpreads'
  <2> DEFINE text == Head(wire[p][q])
  <2>1. Reading(q, p)
    BY <1>7, ReadingDoes
  <2>2. CASE members' = members /\ inbox' = inbox
    BY <1>4, <2>2
  <2>3. CASE /\ members' = [members EXCEPT ![q] = Merged(q, text)]
             /\ inbox' = [inbox EXCEPT ![q] = Append(inbox[q], text)]
    <3>1. text \in Text
      BY <2>1 DEF Reading
    <3> HIDE DEF text
    <3>2. /\ members'[q] = Merged(q, text) /\ inbox'[q] = Append(inbox[q], text)
          /\ \A r \in Peers : r # q => members'[r] = members[r] /\ inbox'[r] = inbox[r]
      BY <1>1, <2>3
    <3>3. members[q] \subseteq members'[q] /\ known(q, text) \subseteq members'[q]
      BY <3>2 DEF Merged
    <3>4. /\ Len(inbox'[q]) = Len(inbox[q]) + 1 /\ inbox'[q][Len(inbox[q]) + 1] = text
          /\ Len(inbox[q]) \in Nat
          /\ \A i \in 1..Len(inbox[q]) : inbox'[q][i] = inbox[q][i]
      BY <1>1, <3>1, <3>2, AppendProperties, LenProperties
    <3> HIDE DEF known
    <3>5. \A i \in 1..Len(inbox'[q]) : known(q, inbox'[q][i]) \subseteq members'[q]
      <4> TAKE i \in 1..Len(inbox'[q])
      <4>1. CASE i = Len(inbox[q]) + 1
        BY <3>3, <3>4, <4>1
      <4>2. CASE i \in 1..Len(inbox[q])
        BY <1>1, <3>3, <3>4, <4>2
      <4> QED BY <3>4, <4>1, <4>2
    <3> QED BY <1>1, <1>3, <3>2, <3>5
  <2> QED BY <2>1, <2>2, <2>3 DEF Reading
<1>8. ASSUME NEW p \in Peers, NEW q \in Peers, Register(p, q) \/ Break(p, q)
      PROVE  RosterSpreads'
  BY <1>4, <1>8 DEF Register, Break
<1>9. CASE UNCHANGED vars
  BY <1>4, <1>9 DEF vars
<1> QED BY <1>5, <1>6, <1>7, <1>8, <1>9 DEF Next

\* Whoever read a text keeps its writer and the members its writer knew of on
\* its list, whatever comes later.
THEOREM Spreading == Spec => []RosterSpreads
<1>1. Init => TypeOK /\ RosterSpreads
  <2>1. Init => RosterSpreads
    BY DEF Init, RosterSpreads
  <2> QED BY <2>1, TypeInit
<1>2. TypeOK /\ RosterSpreads /\ [Next]_vars => TypeOK' /\ RosterSpreads'
  BY TypeStep, RosterStep
<1> QED BY <1>1, <1>2, PTL DEF Spec

-----------------------------------------------------------------------------
(***************************************************************************)
(* The texts of a writer stand in line for each reader.                    *)
(***************************************************************************)

\* A line holds after the writing of one more text, which goes over the link
\* if nothing is kept for the reader, or into the queue.
LEMMA LineWritten ==
    ASSUME NEW p \in Peers, NEW q \in Peers, NEW k \in Nat,
           NEW read \in Seq(Text), NEW onWire \in Seq(Text), NEW kept \in Seq(Copy),
           NEW text \in Text, text.from = p, text.number = k + 1,
           NEW more \in Seq(Copy), \A i \in 1..Len(more) : more[i].text = text,
           NEW onWire2 \in Seq(Text),
           Within(read, onWire, kept, p, k), InLine(read, onWire, kept, p, q),
           \/ /\ onWire2 = onWire
              /\ \A i, j \in 1..Len(more) : more[i].to = q /\ more[j].to = q => i = j
           \/ /\ onWire2 = Append(onWire, text)
              /\ \A i \in 1..Len(more) : more[i].to # q
              /\ \A i \in 1..Len(kept) : kept[i].to # q
    PROVE  /\ Within(read, onWire2, kept \o more, p, k + 1)
           /\ InLine(read, onWire2, kept \o more, p, q)
<1> DEFINE all == kept \o more
<1>1. /\ \A i \in 1..Len(read) : read[i].number \in Nat
      /\ \A i \in 1..Len(onWire) : onWire[i].number \in Nat
      /\ \A i \in 1..Len(kept) : kept[i].text.number \in Nat
  <2>1. \A i \in 1..Len(read) : read[i] \in Text
    BY ElementOfSeq
  <2>2. \A i \in 1..Len(onWire) : onWire[i] \in Text
    BY ElementOfSeq
  <2>3. \A i \in 1..Len(kept) : kept[i] \in Copy
    BY ElementOfSeq
  <2> QED BY <2>1, <2>2, <2>3 DEF Text, Copy
<1>2. /\ Len(read) \in Nat /\ Len(onWire) \in Nat /\ Len(kept) \in Nat /\ Len(more) \in Nat
      /\ all \in Seq(Copy) /\ Len(all) = Len(kept) + Len(more)
      /\ \A i \in 1..Len(kept) : all[i] = kept[i]
      /\ \A i \in 1..Len(more) : all[Len(kept) + i] = more[i]
  BY LenProperties, ConcatProperties
<1> HIDE DEF all
<1>3. /\ \A i \in 1..Len(kept) : i \in 1..Len(all) /\ all[i] = kept[i]
      /\ \A i \in 1..Len(all) : i \notin 1..Len(kept) =>
            /\ i - Len(kept) \in 1..Len(more) /\ all[i] = more[i - Len(kept)]
            /\ all[i].text = text
  <2>1. ASSUME NEW i \in 1..Len(all), i \notin 1..Len(kept)
        PROVE  /\ i - Len(kept) \in 1..Len(more) /\ all[i] = more[i - Len(kept)]
               /\ all[i].text = text
    <3>1. i - Len(kept) \in 1..Len(more) /\ Len(kept) + (i - Len(kept)) = i
      BY <1>2, <2>1
    <3>2. all[i] = more[i - Len(kept)]
      BY <1>2, <3>1
    <3> QED BY <3>1, <3>2
  <2> QED BY <1>2, <2>1
<1>4. /\ \A i \in 1..Len(read) : read[i].from = p => read[i].number \in 1..k
      /\ \A i \in 1..Len(onWire) : onWire[i].from = p /\ onWire[i].number \in 1..k
      /\ \A i \in 1..Len(kept) : kept[i].text.from = p /\ kept[i].text.number \in 1..k
  BY DEF Within
<1>5. \A i \in 1..Len(all) :
        /\ all[i].text.from = p /\ all[i].text.number \in 1..(k + 1)
        /\ i \in 1..Len(kept) => all[i].text.number \in 1..k
        /\ i \notin 1..Len(kept) => all[i].text.number = k + 1
  <2> TAKE i \in 1..Len(all)
  <2>1. CASE i \in 1..Len(kept)
    <3>1. all[i] = kept[i]
      BY <1>3, <2>1
    <3>2. all[i].text.from = p /\ all[i].text.number \in 1..k
      BY <1>4, <2>1, <3>1
    <3>3. k + 1 \in Nat /\ 1..k \subseteq 1..(k + 1)
      OBVIOUS
    <3> QED BY <2>1, <3>2, <3>3
  <2>2. CASE i \notin 1..Len(kept)
    <3>1. all[i].text.from = p /\ all[i].text.number = k + 1
      BY <1>3, <2>2
    <3> QED BY <2>2, <3>1
  <2> QED BY <2>1, <2>2
<1>6. /\ \A i, j \in 1..Len(read) :
            i < j /\ read[i].from = p /\ read[j].from = p => read[i].number < read[j].number
      /\ \A i, j \in 1..Len(onWire) : i < j => onWire[i].number < onWire[j].number
      /\ \A i, j \in 1..Len(kept) :
            i < j /\ kept[i].to = q /\ kept[j].to = q => kept[i].text.number < kept[j].text.number
      /\ \A i \in 1..Len(read), j \in 1..Len(onWire) :
            read[i].from = p => read[i].number < onWire[j].number
      /\ \A i \in 1..Len(read), j \in 1..Len(kept) :
            read[i].from = p /\ kept[j].to = q => read[i].number < kept[j].text.number
      /\ \A i \in 1..Len(onWire), j \in 1..Len(kept) :
            kept[j].to = q => onWire[i].number < kept[j].text.number
  BY DEF InLine
<1>7. \A i \in 1..Len(read), j \in 1..Len(all) :
        read[i].from = p /\ all[j].to = q => read[i].number < all[j].text.number
  <2> SUFFICES ASSUME NEW i \in 1..Len(read), NEW j \in 1..Len(all),
                      read[i].from = p, all[j].to = q
               PROVE  read[i].number < all[j].text.number
    OBVIOUS
  <2>1. CASE j \in 1..Len(kept)
    BY <1>3, <1>6, <2>1
  <2>2. CASE j \notin 1..Len(kept)
    <3>1. all[j].text.number = k + 1 /\ read[i].number \in 1..k
      BY <1>4, <1>5, <2>2
    <3> QED BY <3>1
  <2> QED BY <2>1, <2>2
<1>8. CASE /\ onWire2 = onWire
           /\ \A i, j \in 1..Len(more) : more[i].to = q /\ more[j].to = q => i = j
  <2>1. \A i \in 1..Len(onWire), j \in 1..Len(all) :
          all[j].to = q => onWire[i].number < all[j].text.number
    <3> TAKE i \in 1..Len(onWire), j \in 1..Len(all)
    <3>1. CASE j \in 1..Len(kept)
      BY <1>3, <1>6, <3>1
    <3>2. CASE j \notin 1..Len(kept)
      <4>1. all[j].text.number = k + 1 /\ onWire[i].number \in 1..k
        BY <1>4, <1>5, <3>2
      <4> QED BY <4>1
    <3> QED BY <3>1, <3>2
  <2>2. \A i, j \in 1..Len(all) :
          i < j /\ all[i].to = q /\ all[j].to = q => all[i].text.number < all[j].text.number
    <3> SUFFICES ASSUME NEW i \in 1..Len(all), NEW j \in 1..Len(all), i < j,
                        all[i].to = q, all[j].to = q
                 PROVE  all[i].text.number < all[j].text.number
      OBVIOUS
    <3>1. CASE j \in 1..Len(kept)
      <4>1. i \in 1..Len(kept)
        BY <1>2, <3>1
      <4> QED BY <1>3, <1>6, <3>1, <4>1
    <3>2. CASE j \notin 1..Len(kept) /\ i \in 1..Len(kept)
      <4>1. all[j].text.number = k + 1 /\ all[i].text.number \in 1..k
        BY <1>5, <3>2
      <4> QED BY <4>1
    <3>3. CASE j \notin 1..Len(kept) /\ i \notin 1..Len(kept)
      <4>1. /\ i - Len(kept) \in 1..Len(more) /\ all[i] = more[i - Len(kept)]
            /\ j - Len(kept) \in 1..Len(more) /\ all[j] = more[j - Len(kept)]
        BY <1>3, <3>3
      <4>2. i - Len(kept) = j - Len(kept)
        BY <1>8, <4>1
      <4> QED BY <1>2, <4>2
    <3> QED BY <3>1, <3>2, <3>3
  <2>3. InLine(read, onWire2, all, p, q)
    BY <1>6, <1>7, <1>8, <2>1, <2>2 DEF InLine
  <2>4. Within(read, onWire2, all, p, k + 1)
    <3>1. \A i \in 1..Len(onWire2) : onWire2[i].from = p /\ onWire2[i].number \in 1..(k + 1)
      <4>1. \A i \in 1..Len(onWire2) : onWire2[i].from = p /\ onWire2[i].number \in 1..k
        BY <1>4, <1>8
      <4>2. 1..k \subseteq 1..(k + 1)
        OBVIOUS
      <4> QED BY <4>1, <4>2
    <3>2. \A i \in 1..Len(read) : read[i].from = p => read[i].number \in 1..(k + 1)
      BY <1>4
    <3> QED BY <1>5, <3>1, <3>2 DEF Within
  <2> QED BY <2>3, <2>4 DEF all
<1>9. CASE /\ onWire2 = Append(onWire, text)
           /\ \A i \in 1..Len(more) : more[i].to # q
           /\ \A i \in 1..Len(kept) : kept[i].to # q
  <2>1. \A j \in 1..Len(all) : all[j].to # q
    BY <1>3, <1>9
  <2>2. /\ Len(onWire2) = Len(onWire) + 1 /\ onWire2[Len(onWire) + 1] = text
        /\ \A i \in 1..Len(onWire) : onWire2[i] = onWire[i]
    BY <1>9, AppendProperties
  <2>3. \A i \in 1..Len(onWire2) :
          /\ onWire2[i].from = p /\ onWire2[i].number \in 1..(k + 1)
          /\ \/ i \in 1..Len(onWire) /\ onWire2[i] = onWire[i] /\ onWire2[i].number \in 1..k
             \/ i = Len(onWire) + 1 /\ onWire2[i].number = k + 1
    <3> TAKE i \in 1..Len(onWire2)
    <3>1. CASE i \in 1..Len(onWire)
      BY <1>4, <2>2, <3>1
    <3>2. CASE i = Len(onWire) + 1
      BY <2>2, <3>2
    <3> QED BY <1>2, <2>2, <3>1, <3>2
  <2>4. \A i, j \in 1..Len(onWire2) : i < j => onWire2[i].number < onWire2[j].number
    <3> SUFFICES ASSUME NEW i \in 1..Len(onWire2), NEW j \in 1..Len(onWire2), i < j
                 PROVE  onWire2[i].number < onWire2[j].number
      OBVIOUS
    <3>1. CASE j \in 1..Len(onWire)
      <4>1. i \in 1..Len(onWire)
        BY <1>2, <3>1
      <4> QED BY <1>6, <2>2, <3>1, <4>1
    <3>2. CASE j = Len(onWire) + 1
      <4>1. i \in 1..Len(onWire) /\ i # Len(onWire) + 1
        BY <1>2, <3>2
      <4>2. onWire2[i].number \in 1..k /\ onWire2[j].number = k + 1
        BY <1>2, <2>2, <2>3, <3>2, <4>1
      <4> QED BY <4>2
    <3>3. j \in 1..Len(onWire) \/ j = Len(onWire) + 1
      BY <1>2, <2>2
    <3> QED BY <3>1, <3>2, <3>3
  <2>5. \A i \in 1..Len(read), j \in 1..Len(onWire2) :
          read[i].from = p => read[i].number < onWire2[j].number
    <3> SUFFICES ASSUME NEW i \in 1..Len(read), NEW j \in 1..Len(onWire2), read[i].from = p
                 PROVE  read[i].number < onWire2[j].number
      OBVIOUS
    <3>1. CASE j \in 1..Len(onWire)
      BY <1>6, <2>2, <3>1
    <3>2. CASE j = Len(onWire) + 1
      <4>1. read[i].number \in 1..k /\ onWire2[j].number = k + 1
        BY <1>4, <2>2, <3>2
      <4> QED BY <4>1
    <3> QED BY <1>2, <2>2, <3>1, <3>2
  <2>6. InLine(read, onWire2, all, p, q)
    BY <1>6, <2>1, <2>4, <2>5 DEF InLine
  <2>7. Within(read, onWire2, all, p, k + 1)
    <3>1. \A i \in 1..Len(read) : read[i].from = p => read[i].number \in 1..(k + 1)
      BY <1>4
    <3> QED BY <1>5, <2>3, <3>1 DEF Within
  <2> QED BY <2>6, <2>7 DEF all
<1> QED BY <1>8, <1>9

\* It holds when the reader takes the first text from the wire, whether it
\* keeps it or not.
LEMMA LineTaken ==
    ASSUME NEW p \in Peers, NEW q \in Peers, NEW k \in Nat,
           NEW read \in Seq(Text), NEW onWire \in Seq(Text), NEW kept \in Seq(Copy),
           Within(read, onWire, kept, p, k), InLine(read, onWire, kept, p, q),
           onWire # <<>>, NEW read2,
           read2 = read \/ read2 = Append(read, Head(onWire))
    PROVE  /\ Within(read2, Tail(onWire), kept, p, k)
           /\ InLine(read2, Tail(onWire), kept, p, q)
<1> DEFINE rest == Tail(onWire)
<1>1. /\ Head(onWire) \in Text /\ Head(onWire) = onWire[1] /\ rest \in Seq(Text)
      /\ Len(onWire) \in Nat \ {0} /\ Len(rest) = Len(onWire) - 1
      /\ \A i \in 1..Len(rest) : rest[i] = onWire[i + 1]
      /\ Len(read) \in Nat
  BY HeadTailProperties, EmptySeq, LenProperties
<1> HIDE DEF rest
<1>2. /\ 1 \in 1..Len(onWire)
      /\ \A i \in 1..Len(rest) : i + 1 \in 1..Len(onWire) /\ 1 < i + 1 /\ rest[i] = onWire[i + 1]
  BY <1>1
<1>3. /\ \A i \in 1..Len(read) : read[i].from = p => read[i].number \in 1..k
      /\ \A i \in 1..Len(onWire) : onWire[i].from = p /\ onWire[i].number \in 1..k
      /\ \A i \in 1..Len(kept) : kept[i].text.from = p /\ kept[i].text.number \in 1..k
  BY DEF Within
<1>4. /\ \A i, j \in 1..Len(read) :
            i < j /\ read[i].from = p /\ read[j].from = p => read[i].number < read[j].number
      /\ \A i, j \in 1..Len(onWire) : i < j => onWire[i].number < onWire[j].number
      /\ \A i, j \in 1..Len(kept) :
            i < j /\ kept[i].to = q /\ kept[j].to = q => kept[i].text.number < kept[j].text.number
      /\ \A i \in 1..Len(read), j \in 1..Len(onWire) :
            read[i].from = p => read[i].number < onWire[j].number
      /\ \A i \in 1..Len(read), j \in 1..Len(kept) :
            read[i].from = p /\ kept[j].to = q => read[i].number < kept[j].text.number
      /\ \A i \in 1..Len(onWire), j \in 1..Len(kept) :
            kept[j].to = q => onWire[i].number < kept[j].text.number
  BY DEF InLine
<1>5. /\ \A i, j \in 1..Len(rest) : i < j => rest[i].number < rest[j].number
      /\ \A i \in 1..Len(rest), j \in 1..Len(kept) :
            kept[j].to = q => rest[i].number < kept[j].text.number
      /\ \A i \in 1..Len(rest) : rest[i].from = p /\ rest[i].number \in 1..k
      /\ \A i \in 1..Len(read), j \in 1..Len(rest) :
            read[i].from = p => read[i].number < rest[j].number
  <2>1. \A i, j \in 1..Len(rest) : i < j => rest[i].number < rest[j].number
    <3> TAKE i, j \in 1..Len(rest)
    <3>1. i < j => i + 1 < j + 1
      BY <1>1
    <3> QED BY <1>2, <1>4, <3>1
  <2> QED BY <1>2, <1>3, <1>4, <2>1
<1>6. CASE read2 = read
  BY <1>3, <1>4, <1>5, <1>6 DEF InLine, Within, rest
<1>7. CASE read2 = Append(read, Head(onWire))
  <2>1. /\ Len(read2) = Len(read) + 1 /\ read2[Len(read) + 1] = onWire[1]
        /\ \A i \in 1..Len(read) : read2[i] = read[i]
    BY <1>1, <1>7, AppendProperties
  <2>2. \A i \in 1..Len(read2) : i \in 1..Len(read) \/ i = Len(read) + 1
    BY <1>1, <2>1
  <2>3. \A i \in 1..Len(read2) : read2[i].from = p => read2[i].number \in 1..k
    <3> TAKE i \in 1..Len(read2)
    <3>1. CASE i \in 1..Len(read)
      BY <1>3, <2>1, <3>1
    <3>2. CASE i = Len(read) + 1
      BY <1>2, <1>3, <2>1, <3>2
    <3> QED BY <2>2, <3>1, <3>2
  <2>4. \A i, j \in 1..Len(read2) :
          i < j /\ read2[i].from = p /\ read2[j].from = p => read2[i].number < read2[j].number
    <3> SUFFICES ASSUME NEW i \in 1..Len(read2), NEW j \in 1..Len(read2), i < j,
                        read2[i].from = p, read2[j].from = p
                 PROVE  read2[i].number < read2[j].number
      OBVIOUS
    <3>1. i \in 1..Len(read)
      BY <1>1, <2>1
    <3>2. read2[i] = read[i] /\ read[i].from = p
      BY <2>1, <3>1
    <3>3. CASE j \in 1..Len(read)
      <4>1. read2[j] = read[j]
        BY <2>1, <3>3
      <4> QED BY <1>4, <3>1, <3>2, <3>3, <4>1
    <3>4. CASE j = Len(read) + 1
      BY <1>2, <1>4, <2>1, <3>1, <3>2, <3>4
    <3> QED BY <2>2, <3>3, <3>4
  <2>5. \A i \in 1..Len(read2), j \in 1..Len(rest) :
          read2[i].from = p => read2[i].number < rest[j].number
    <3> TAKE i \in 1..Len(read2), j \in 1..Len(rest)
    <3>1. CASE i \in 1..Len(read)
      BY <1>5, <2>1, <3>1
    <3>2. CASE i = Len(read) + 1
      BY <1>2, <1>4, <2>1, <3>2
    <3> QED BY <2>2, <3>1, <3>2
  <2>6. \A i \in 1..Len(read2), j \in 1..Len(kept) :
          read2[i].from = p /\ kept[j].to = q => read2[i].number < kept[j].text.number
    <3> TAKE i \in 1..Len(read2), j \in 1..Len(kept)
    <3>1. CASE i \in 1..Len(read)
      BY <1>4, <2>1, <3>1
    <3>2. CASE i = Len(read) + 1
      BY <1>2, <1>4, <2>1, <3>2
    <3> QED BY <2>2, <3>1, <3>2
  <2> QED BY <1>3, <1>4, <1>5, <2>3, <2>4, <2>5, <2>6 DEF InLine, Within, rest
<1> QED BY <1>6, <1>7

\* It does not mind what others write.
LEMMA LineOfOthers ==
    ASSUME NEW p \in Peers, NEW q \in Peers, NEW k \in Nat,
           NEW read \in Seq(Text), NEW onWire \in Seq(Text), NEW kept \in Seq(Copy),
           Within(read, onWire, kept, p, k), InLine(read, onWire, kept, p, q),
           NEW text \in Text, text.from # p
    PROVE  /\ Within(Append(read, text), onWire, kept, p, k)
           /\ InLine(Append(read, text), onWire, kept, p, q)
<1> DEFINE read2 == Append(read, text)
<1>1. /\ Len(read2) = Len(read) + 1 /\ read2[Len(read) + 1] = text /\ Len(read) \in Nat
      /\ \A i \in 1..Len(read) : read2[i] = read[i]
  BY AppendProperties, LenProperties
<1> HIDE DEF read2
<1>2. \A i \in 1..Len(read2) : read2[i].from = p => i \in 1..Len(read) /\ read2[i] = read[i]
  BY <1>1
<1>3. InLine(read2, onWire, kept, p, q)
  <2>1. /\ \A i, j \in 1..Len(read2) :
              i < j /\ read2[i].from = p /\ read2[j].from = p => read2[i].number < read2[j].number
        /\ \A i \in 1..Len(read2), j \in 1..Len(onWire) :
              read2[i].from = p => read2[i].number < onWire[j].number
        /\ \A i \in 1..Len(read2), j \in 1..Len(kept) :
              read2[i].from = p /\ kept[j].to = q => read2[i].number < kept[j].text.number
    BY <1>2 DEF InLine
  <2> QED BY <2>1 DEF InLine
<1>4. Within(read2, onWire, kept, p, k)
  BY <1>2 DEF Within
<1> QED BY <1>3, <1>4 DEF read2

\* It holds when the queue is sent over a new link.
LEMMA LineFlushed ==
    ASSUME NEW p \in Peers, NEW q \in Peers, NEW k \in Nat,
           NEW read \in Seq(Text), NEW onWire \in Seq(Text), NEW kept \in Seq(Copy),
           Within(read, onWire, kept, p, k), InLine(read, onWire, kept, p, q)
    PROVE  /\ Within(read, onWire \o Texts(Leaving(kept, q)), Staying(kept, q), p, k)
           /\ InLine(read, onWire \o Texts(Leaving(kept, q)), Staying(kept, q), p, q)
<1> DEFINE leaving == Leaving(kept, q)
           staying == Staying(kept, q)
           n == Len(onWire)
           all == onWire \o Texts(leaving)
<1>1. /\ leaving \in Seq(Copy) /\ staying \in Seq(Copy)
      /\ Picks(leaving, kept, Those(kept, q)) /\ Picks(staying, kept, Others(kept, q))
  BY LeavingStaying
<1> HIDE DEF leaving, staying
<1>2. /\ Texts(leaving) \in Seq(Text) /\ Len(Texts(leaving)) = Len(leaving)
      /\ \A i \in 1..Len(leaving) : Texts(leaving)[i] = leaving[i].text
  BY <1>1, TextsList
<1>3. /\ n \in Nat /\ Len(leaving) \in Nat /\ Len(all) = n + Len(leaving)
      /\ \A i \in 1..n : all[i] = onWire[i]
      /\ \A i \in 1..Len(leaving) : all[n + i] = leaving[i].text
  <2>1. /\ Len(onWire) \in Nat /\ Len(leaving) \in Nat
    BY <1>1, LenProperties
  <2> PICK ts \in Seq(Text) : ts = Texts(leaving)
    BY <1>2
  <2>2. /\ Len(onWire \o ts) = Len(onWire) + Len(ts)
        /\ \A i \in 1..Len(onWire) : (onWire \o ts)[i] = onWire[i]
        /\ \A i \in 1..Len(ts) : (onWire \o ts)[Len(onWire) + i] = ts[i]
    BY ConcatProperties
  <2> QED BY <1>2, <2>1, <2>2
<1>4. PICK place \in [1..Len(leaving) -> 1..Len(kept)] :
        /\ \A i, j \in 1..Len(leaving) : i < j => place[i] < place[j]
        /\ \A i \in 1..Len(leaving) : place[i] \in Those(kept, q) /\ leaving[i] = kept[place[i]]
  BY <1>1 DEF Picks
<1>5. PICK stays \in [1..Len(staying) -> 1..Len(kept)] :
        \A i \in 1..Len(staying) : stays[i] \in Others(kept, q) /\ staying[i] = kept[stays[i]]
  BY <1>1 DEF Picks
<1> HIDE DEF n, all
<1>6. /\ \A i \in 1..Len(read) : read[i].from = p => read[i].number \in 1..k
      /\ \A i \in 1..n : onWire[i].from = p /\ onWire[i].number \in 1..k
      /\ \A i \in 1..Len(kept) : kept[i].text.from = p /\ kept[i].text.number \in 1..k
  BY DEF Within, n
<1>7. /\ \A i, j \in 1..Len(read) :
            i < j /\ read[i].from = p /\ read[j].from = p => read[i].number < read[j].number
      /\ \A i, j \in 1..n : i < j => onWire[i].number < onWire[j].number
      /\ \A i, j \in 1..Len(kept) :
            i < j /\ kept[i].to = q /\ kept[j].to = q => kept[i].text.number < kept[j].text.number
      /\ \A i \in 1..Len(read), j \in 1..n :
            read[i].from = p => read[i].number < onWire[j].number
      /\ \A i \in 1..Len(read), j \in 1..Len(kept) :
            read[i].from = p /\ kept[j].to = q => read[i].number < kept[j].text.number
      /\ \A i \in 1..n, j \in 1..Len(kept) :
            kept[j].to = q => onWire[i].number < kept[j].text.number
  BY DEF InLine, n
<1>8. \A i \in 1..Len(leaving) : place[i] \in 1..Len(kept) /\ kept[place[i]].to = q
                                 /\ all[n + i] = kept[place[i]].text
  BY <1>3, <1>4 DEF Those
<1>9. \A i \in 1..Len(all) :
        i \in 1..n \/ (i - n \in 1..Len(leaving) /\ n + (i - n) = i)
  BY <1>3
<1>10. \A i \in 1..Len(all) :
         \/ i \in 1..n /\ all[i] = onWire[i]
         \/ /\ i - n \in 1..Len(leaving) /\ place[i - n] \in 1..Len(kept)
            /\ kept[place[i - n]].to = q /\ all[i] = kept[place[i - n]].text
  BY <1>3, <1>8, <1>9
<1>11. \A j \in 1..Len(staying) : stays[j] \in 1..Len(kept) /\ staying[j] = kept[stays[j]]
                                  /\ staying[j].to # q
  BY <1>5 DEF Others
<1>12. \A i, j \in 1..Len(all) : i < j => all[i].number < all[j].number
  <2> SUFFICES ASSUME NEW i \in 1..Len(all), NEW j \in 1..Len(all), i < j
               PROVE  all[i].number < all[j].number
    OBVIOUS
  <2>1. CASE j \in 1..n
    <3>1. i \in 1..n
      BY <1>3, <2>1
    <3> QED BY <1>3, <1>7, <2>1, <3>1
  <2>2. CASE i \in 1..n /\ j \notin 1..n
    BY <1>3, <1>7, <1>10, <2>2
  <2>3. CASE i \notin 1..n /\ j \notin 1..n
    <3>1. /\ i - n \in 1..Len(leaving) /\ j - n \in 1..Len(leaving) /\ i - n < j - n
      BY <1>3, <1>9, <2>3
    <3>2. place[i - n] < place[j - n]
      BY <1>4, <3>1
    <3> QED BY <1>7, <1>10, <2>3, <3>2
  <2> QED BY <2>1, <2>2, <2>3
<1>13. \A i \in 1..Len(read), j \in 1..Len(all) :
         read[i].from = p => read[i].number < all[j].number
  BY <1>7, <1>10
<1>14. \A j \in 1..Len(all) : all[j].from = p /\ all[j].number \in 1..k
  BY <1>6, <1>10
<1>15. \A j \in 1..Len(staying) : staying[j].text.from = p /\ staying[j].text.number \in 1..k
  <2> TAKE j \in 1..Len(staying)
  <2>1. stays[j] \in 1..Len(kept) /\ staying[j] = kept[stays[j]]
    BY <1>11
  <2> QED BY <1>6, <2>1
<1>16. InLine(read, all, staying, p, q)
  BY <1>7, <1>11, <1>12, <1>13 DEF InLine
<1>17. Within(read, all, staying, p, k)
  BY <1>6, <1>14, <1>15 DEF Within
<1> QED BY <1>16, <1>17 DEF all, staying, leaving

\* It holds when the queue is sent to somebody else.
LEMMA LineStays ==
    ASSUME NEW p \in Peers, NEW q \in Peers, NEW k \in Nat, NEW m \in Peers,
           NEW read \in Seq(Text), NEW onWire \in Seq(Text), NEW kept \in Seq(Copy),
           Within(read, onWire, kept, p, k), InLine(read, onWire, kept, p, q)
    PROVE  /\ Within(read, onWire, Staying(kept, m), p, k)
           /\ InLine(read, onWire, Staying(kept, m), p, q)
<1> DEFINE staying == Staying(kept, m)
<1>1. Picks(staying, kept, Others(kept, m))
  BY LeavingStaying
<1> HIDE DEF staying
<1>2. PICK place \in [1..Len(staying) -> 1..Len(kept)] :
        /\ \A i, j \in 1..Len(staying) : i < j => place[i] < place[j]
        /\ \A i \in 1..Len(staying) : staying[i] = kept[place[i]]
  BY <1>1 DEF Picks
<1>3. \A i \in 1..Len(staying) : place[i] \in 1..Len(kept) /\ staying[i] = kept[place[i]]
  BY <1>2
<1>4. Within(read, onWire, staying, p, k)
  BY <1>3 DEF Within
<1>5. /\ \A i, j \in 1..Len(staying) :
            i < j /\ staying[i].to = q /\ staying[j].to = q
               => staying[i].text.number < staying[j].text.number
      /\ \A i \in 1..Len(read), j \in 1..Len(staying) :
            read[i].from = p /\ staying[j].to = q => read[i].number < staying[j].text.number
      /\ \A i \in 1..Len(onWire), j \in 1..Len(staying) :
            staying[j].to = q => onWire[i].number < staying[j].text.number
  <2>1. \A i, j \in 1..Len(staying) :
            i < j /\ staying[i].to = q /\ staying[j].to = q
               => staying[i].text.number < staying[j].text.number
    <3> SUFFICES ASSUME NEW i \in 1..Len(staying), NEW j \in 1..Len(staying), i < j,
                        staying[i].to = q, staying[j].to = q
                 PROVE  staying[i].text.number < staying[j].text.number
      OBVIOUS
    <3>1. place[i] < place[j]
      BY <1>2
    <3>2. /\ place[i] \in 1..Len(kept) /\ staying[i] = kept[place[i]]
          /\ place[j] \in 1..Len(kept) /\ staying[j] = kept[place[j]]
      BY <1>3
    <3> QED BY <3>1, <3>2 DEF InLine
  <2>2. \A i \in 1..Len(read), j \in 1..Len(staying) :
            read[i].from = p /\ staying[j].to = q => read[i].number < staying[j].text.number
    <3> TAKE i \in 1..Len(read), j \in 1..Len(staying)
    <3>1. place[j] \in 1..Len(kept) /\ staying[j] = kept[place[j]]
      BY <1>3
    <3> QED BY <3>1 DEF InLine
  <2>3. \A i \in 1..Len(onWire), j \in 1..Len(staying) :
            staying[j].to = q => onWire[i].number < staying[j].text.number
    <3> TAKE i \in 1..Len(onWire), j \in 1..Len(staying)
    <3>1. place[j] \in 1..Len(kept) /\ staying[j] = kept[place[j]]
      BY <1>3
    <3> QED BY <3>1 DEF InLine
  <2> QED BY <2>1, <2>2, <2>3
<1>6. InLine(read, onWire, staying, p, q)
  BY <1>5 DEF InLine
<1> QED BY <1>4, <1>6 DEF staying

\* It holds when the link is lost.
LEMMA LineLost ==
    ASSUME NEW p \in Peers, NEW q \in Peers, NEW k \in Nat,
           NEW read \in Seq(Text), NEW onWire \in Seq(Text), NEW kept \in Seq(Copy),
           Within(read, onWire, kept, p, k), InLine(read, onWire, kept, p, q)
    PROVE  Within(read, <<>>, kept, p, k) /\ InLine(read, <<>>, kept, p, q)
<1>1. Len(<<>>) = 0
  BY EmptySeq
<1> QED BY <1>1 DEF Within, InLine

\* Types of the state in the words of the lemmas.
LEMMA StateTypes ==
    ASSUME TypeOK
    PROVE  /\ \A p \in Peers : /\ history[p] \in Seq(Entry) /\ inbox[p] \in Seq(Text)
                               /\ queued[p] \in Seq(Copy) /\ connections[p] \in SUBSET Peers
                               /\ Len(history[p]) \in Nat
           /\ \A p, q \in Peers : wire[p][q] \in Seq(Text)
<1>1. /\ \A p \in Peers : /\ history[p] \in Seq(Entry) /\ inbox[p] \in Seq(Text)
                          /\ queued[p] \in Seq(Copy) /\ connections[p] \in SUBSET Peers
      /\ \A p, q \in Peers : wire[p][q] \in Seq(Text)
  BY DEF TypeOK
<1> QED BY <1>1, LenProperties

\* The line of each pair when what it looks at is left alone.
LEMMA LinesAlone ==
    ASSUME Counted, Lines, UNCHANGED <<history, queued, inbox, wire>>
    PROVE  Counted' /\ Lines'
BY DEF Counted, Lines

\* A text that is sent.
LEMMA SendKeepsLines ==
    ASSUME TypeOK, OwnTexts, QueueWaits, Counted, Lines, NEW p \in Peers, SendGroup(p)
    PROVE  OwnTexts' /\ QueueWaits' /\ Counted' /\ Lines'
<1>o. PICK order : Sends(p, order)
  BY SendingDoes
<1>t. PICK text \in Text : text = NextText(p)
  <2>1. Sent(p, order)
    BY <1>o, SendingSets
  <2> QED BY <2>1 DEF Sent
<1>m. PICK more : more = Copies(text, order)
  OBVIOUS
<1>0. Adds(p, order)
  BY <1>o, SendingAdds
<1>1. Sent(p, order)
  BY <1>o, SendingSets
<1>2. /\ text.from = p /\ text.number = Len(history[p]) + 1
      /\ \A r \in Peers : r # p => queued'[r] = queued[r] /\ history'[r] = history[r]
      /\ \A r \in Peers : r # p => \A q \in Peers : wire'[r][q] = wire[r][q]
      /\ \A q \in Peers : wire'[p][q] = IF q \in Audience(p) \cap connections[p]
                                        THEN Append(wire[p][q], text) ELSE wire[p][q]
      /\ queued'[p] = queued[p] \o more
      /\ Audience(p) = {} => history'[p] = history[p]
      /\ Absentees(p) \in SUBSET Peers
      /\ inbox' = inbox /\ connections' = connections
      /\ order \in Orders(Absentees(p))
  BY <1>o, <1>t, <1>m, <1>1 DEF Sent, Sends
<1>3. /\ order \in Seq(Peers)
      /\ \A i \in 1..Len(order) : order[i] \in Absentees(p)
      /\ \A i, j \in 1..Len(order) : order[i] = order[j] => i = j
  BY <1>2, OrdersList
<1>4. /\ more \in Seq(Copy) /\ Len(more) = Len(order)
      /\ \A i \in 1..Len(more) : more[i] = [text |-> text, to |-> order[i]]
  BY <1>m, <1>3, CopiesList
<1>5. /\ \A i \in 1..Len(more) : more[i].text = text /\ more[i].to = order[i]
                                 /\ more[i].to \in Absentees(p)
      /\ \A i, j \in 1..Len(more) : more[i].to = more[j].to => i = j
  <2>1. \A i \in 1..Len(more) : /\ i \in 1..Len(order) /\ more[i].text = text
                                /\ more[i].to = order[i]
    <3> TAKE i \in 1..Len(more)
    <3>1. i \in 1..Len(order)
      BY <1>4
    <3>2. more[i] = [text |-> text, to |-> order[i]]
      BY <1>4
    <3> QED BY <3>1, <3>2
  <2> QED BY <1>3, <2>1
<1>6. \A i \in 1..Len(queued[p]) : queued[p][i].to \notin connections[p]
  BY DEF QueueWaits
<1>7. /\ \A r \in Peers : /\ history[r] \in Seq(Entry) /\ inbox[r] \in Seq(Text)
                          /\ queued[r] \in Seq(Copy) /\ Len(history[r]) \in Nat
      /\ \A r, q \in Peers : wire[r][q] \in Seq(Text)
  BY StateTypes
<1>8. /\ \A r \in Peers : /\ history'[r] \in Seq(Entry) /\ queued'[r] \in Seq(Copy)
      /\ \A r, q \in Peers : wire'[r][q] \in Seq(Text)
  BY <1>1 DEF Sent
<1>9. QueueWaits'
  <2>1. \A i \in 1..Len(queued'[p]) : queued'[p][i].to \notin connections[p]
    <3>1. /\ Len(queued'[p]) = Len(queued[p]) + Len(more)
          /\ \A i \in 1..Len(queued[p]) : queued'[p][i] = queued[p][i]
          /\ \A i \in 1..Len(more) : queued'[p][Len(queued[p]) + i] = more[i]
          /\ Len(queued[p]) \in Nat /\ Len(more) \in Nat
      <4>1. queued[p] \in Seq(Copy) /\ queued'[p] = queued[p] \o more
        BY <1>2, <1>7
      <4>2. Len(queued[p]) \in Nat /\ Len(more) \in Nat
        BY <1>4, <4>1, LenProperties
      <4>3. more \in Seq(Copy)
        BY <1>4
      <4>4. /\ Len(queued[p] \o more) = Len(queued[p]) + Len(more)
            /\ \A i \in 1..Len(queued[p]) : (queued[p] \o more)[i] = queued[p][i]
            /\ \A i \in 1..Len(more) : (queued[p] \o more)[Len(queued[p]) + i] = more[i]
        BY <4>1, <4>3, ConcatProperties
      <4> QED BY <4>1, <4>2, <4>4
    <3> TAKE i \in 1..Len(queued'[p])
    <3>2. CASE i \in 1..Len(queued[p])
      BY <1>6, <3>1, <3>2
    <3>3. CASE i \notin 1..Len(queued[p])
      <4>1. i - Len(queued[p]) \in 1..Len(more) /\ Len(queued[p]) + (i - Len(queued[p])) = i
        BY <3>1, <3>3
      <4>2. queued'[p][i] = more[i - Len(queued[p])]
        BY <3>1, <4>1
      <4>3. queued'[p][i].to \in Absentees(p)
        BY <1>5, <4>1, <4>2
      <4> QED BY <4>3 DEF Absentees
    <3> QED BY <3>2, <3>3
  <2> QED BY <1>2, <2>1 DEF QueueWaits
<1>10. CASE Audience(p) = {}
  <2>3. \A r \in Peers : queued'[r] = queued[r] /\ history'[r] = history[r]
    BY <1>0, <1>10 DEF Adds
  <2>4. \A r, q \in Peers : wire'[r][q] = wire[r][q]
    BY <1>0, <1>10 DEF Adds
  <2>5. OwnTexts'
    BY <2>3 DEF OwnTexts
  <2>6. Counted' /\ Lines'
    BY <1>2, <2>3, <2>4 DEF Counted, Lines
  <2> QED BY <1>9, <2>5, <2>6
<1>11. CASE Audience(p) # {}
  <2> DEFINE entry == [text |-> text, uid |-> FirstUid(Audience(p), order), status |-> Mark(order)]
  <2>1. entry.text = text
    OBVIOUS
  <2>2. /\ Len(history'[p]) = Len(history[p]) + 1
        /\ history'[p][Len(history[p]) + 1] = entry
        /\ \A i \in 1..Len(history[p]) : history'[p][i] = history[p][i]
    BY <1>t, <1>0, <1>11 DEF Adds
  <2> HIDE DEF entry
  <2>3. OwnTexts'
    <3>1. \A i \in 1..Len(history'[p]) : history'[p][i].text.from = p
                                         /\ history'[p][i].text.number = i
      <4> TAKE i \in 1..Len(history'[p])
      <4>1. CASE i \in 1..Len(history[p])
        BY <2>2, <4>1 DEF OwnTexts
      <4>2. CASE i = Len(history[p]) + 1
        BY <1>2, <2>1, <2>2, <4>2
      <4>3. i \in 1..Len(history[p]) \/ i = Len(history[p]) + 1
        BY <1>7, <2>2
      <4> QED BY <4>1, <4>2, <4>3
    <3> QED BY <1>2, <3>1 DEF OwnTexts
  <2>4. ASSUME NEW q \in Peers
        PROVE  /\ Within(inbox[q], wire'[p][q], queued'[p], p, Len(history[p]) + 1)
               /\ InLine(inbox[q], wire'[p][q], queued'[p], p, q)
    <3>1. /\ Within(inbox[q], wire[p][q], queued[p], p, Len(history[p]))
          /\ InLine(inbox[q], wire[p][q], queued[p], p, q)
      BY DEF Counted, Lines
    <3>2. \/ /\ wire'[p][q] = wire[p][q]
             /\ \A i, j \in 1..Len(more) : more[i].to = q /\ more[j].to = q => i = j
          \/ /\ wire'[p][q] = Append(wire[p][q], text)
             /\ \A i \in 1..Len(more) : more[i].to # q
             /\ \A i \in 1..Len(queued[p]) : queued[p][i].to # q
      <4>1. CASE q \in Audience(p) \cap connections[p]
        <5>1. wire'[p][q] = Append(wire[p][q], text)
          BY <1>2, <4>1
        <5>2. \A i \in 1..Len(more) : more[i].to # q
          BY <1>5, <4>1 DEF Absentees
        <5>3. \A i \in 1..Len(queued[p]) : queued[p][i].to # q
          BY <1>6, <4>1
        <5> QED BY <5>1, <5>2, <5>3
      <4>2. CASE q \notin Audience(p) \cap connections[p]
        BY <1>2, <1>5, <4>2
      <4> QED BY <4>1, <4>2
    <3>3. /\ Len(history[p]) \in Nat /\ inbox[q] \in Seq(Text) /\ wire[p][q] \in Seq(Text)
          /\ queued[p] \in Seq(Copy) /\ wire'[p][q] \in Seq(Text)
      BY <1>7, <1>8
    <3>4. \A i \in 1..Len(more) : more[i].text = text
      BY <1>5
    <3> PICK k \in Nat : k = Len(history[p])
      BY <3>3
    <3>5. text.number = k + 1 /\ text.from = p
      BY <1>2
    <3>6. /\ Within(inbox[q], wire'[p][q], queued[p] \o more, p, k + 1)
          /\ InLine(inbox[q], wire'[p][q], queued[p] \o more, p, q)
      <4> DEFINE read == inbox[q]
                 onWire == wire[p][q]
                 onWire2 == wire'[p][q]
                 kept == queued[p]
      <4>1. read \in Seq(Text) /\ onWire \in Seq(Text) /\ onWire2 \in Seq(Text) /\ kept \in Seq(Copy)
        BY <3>3
      <4>2. Within(read, onWire, kept, p, k) /\ InLine(read, onWire, kept, p, q)
        BY <3>1
      <4>3. \/ /\ onWire2 = onWire
               /\ \A i, j \in 1..Len(more) : more[i].to = q /\ more[j].to = q => i = j
            \/ /\ onWire2 = Append(onWire, text)
               /\ \A i \in 1..Len(more) : more[i].to # q
               /\ \A i \in 1..Len(kept) : kept[i].to # q
        BY <3>2
      <4> HIDE DEF read, onWire, onWire2, kept
      <4>4. Within(read, onWire2, kept \o more, p, k + 1) /\ InLine(read, onWire2, kept \o more, p, q)
        BY <1>4, <3>4, <3>5, <4>1, <4>2, <4>3, LineWritten
      <4> QED BY <4>4 DEF read, onWire2, kept
    <3> QED BY <1>2, <3>6
  <2>5. Counted' /\ Lines'
    <3>1. ASSUME NEW r \in Peers, NEW q \in Peers
          PROVE  /\ Within(inbox[q], wire'[r][q], queued'[r], r, Len(history'[r]))
                 /\ InLine(inbox[q], wire'[r][q], queued'[r], r, q)
      <4>1. CASE r = p
        BY <2>2, <2>4, <4>1
      <4>2. CASE r # p
        <5>1. wire'[r][q] = wire[r][q] /\ queued'[r] = queued[r] /\ history'[r] = history[r]
          BY <1>2, <4>2
        <5> QED BY <5>1 DEF Counted, Lines
      <4> QED BY <4>1, <4>2
    <3> QED BY <1>2, <3>1 DEF Counted, Lines
  <2> QED BY <1>9, <2>3, <2>5
<1> QED BY <1>10, <1>11

\* A text that is read.
LEMMA ReadKeepsLines ==
    ASSUME TypeOK, OwnTexts, QueueWaits, Counted, Lines,
           NEW p \in Peers, NEW q \in Peers, ReceiveText(q, p)
    PROVE  OwnTexts' /\ QueueWaits' /\ Counted' /\ Lines'
<1>t. PICK text \in Text : text = Head(wire[p][q])
  <2>1. Reading(q, p)
    BY ReadingDoes
  <2> QED BY <2>1 DEF Reading
<1>1. /\ \A r \in Peers : /\ inbox[r] \in Seq(Text) /\ queued[r] \in Seq(Copy)
                          /\ Len(history[r]) \in Nat
      /\ \A r, m \in Peers : wire[r][m] \in Seq(Text)
  BY StateTypes
<1>2. Reading(q, p)
  BY ReadingDoes
<1>3. /\ wire[p][q] # <<>>
      /\ wire'[p][q] = Tail(wire[p][q])
      /\ \A r, m \in Peers : r # p \/ m # q => wire'[r][m] = wire[r][m]
      /\ \A m \in Peers : m # q => inbox'[m] = inbox[m]
      /\ inbox'[q] = inbox[q] \/ inbox'[q] = Append(inbox[q], text)
      /\ history' = history /\ queued' = queued /\ connections' = connections
  <2>1. inbox \in [Peers -> Seq(Text)]
    BY DEF TypeOK
  <2> QED BY <1>t, <1>2, <2>1 DEF Reading
<1>4. OwnTexts' /\ QueueWaits'
  BY <1>3 DEF OwnTexts, QueueWaits
<1>5. \A r, m \in Peers : /\ Within(inbox[m], wire[r][m], queued[r], r, Len(history[r]))
                          /\ InLine(inbox[m], wire[r][m], queued[r], r, m)
  BY DEF Counted, Lines
<1>6. text.from = p
  <2>1. 1 \in 1..Len(wire[p][q]) /\ text = wire[p][q][1]
    BY <1>t, <1>1, <1>3, EmptySeq, LenProperties
  <2>2. \A i \in 1..Len(wire[p][q]) : wire[p][q][i].from = p
    BY <1>5 DEF Within
  <2> QED BY <2>1, <2>2
<1>7. ASSUME NEW r \in Peers, NEW m \in Peers
      PROVE  /\ Within(inbox'[m], wire'[r][m], queued[r], r, Len(history[r]))
             /\ InLine(inbox'[m], wire'[r][m], queued[r], r, m)
  <2>1. /\ Within(inbox[m], wire[r][m], queued[r], r, Len(history[r]))
        /\ InLine(inbox[m], wire[r][m], queued[r], r, m)
        /\ inbox[m] \in Seq(Text) /\ queued[r] \in Seq(Copy) /\ Len(history[r]) \in Nat
        /\ wire[r][m] \in Seq(Text)
    BY <1>1, <1>5
  <2>2. CASE m # q
    BY <1>3, <2>1, <2>2
  <2>3. CASE m = q /\ r # p
    <3>1. wire'[r][m] = wire[r][m]
      BY <1>3, <2>3
    <3>2. CASE inbox'[m] = inbox[m]
      BY <2>1, <3>1, <3>2
    <3>3. CASE inbox'[m] = Append(inbox[m], text)
      <4>1. text.from # r
        BY <1>6, <2>3
      <4>2. /\ Within(Append(inbox[m], text), wire[r][m], queued[r], r, Len(history[r]))
            /\ InLine(Append(inbox[m], text), wire[r][m], queued[r], r, m)
        BY <2>1, <4>1, LineOfOthers
      <4> QED BY <3>1, <3>3, <4>2
    <3> QED BY <1>3, <2>3, <3>2, <3>3
  <2>4. CASE m = q /\ r = p
    <3>1. wire[r][m] # <<>> /\ wire'[r][m] = Tail(wire[r][m])
      BY <1>3, <2>4
    <3>2. inbox'[m] = inbox[m] \/ inbox'[m] = Append(inbox[m], Head(wire[r][m]))
      BY <1>t, <1>3, <2>4
    <3>3. /\ Within(inbox'[m], Tail(wire[r][m]), queued[r], r, Len(history[r]))
          /\ InLine(inbox'[m], Tail(wire[r][m]), queued[r], r, m)
      BY <2>1, <3>1, <3>2, LineTaken
    <3> QED BY <3>1, <3>3
  <2> QED BY <2>2, <2>3, <2>4
<1>8. Counted' /\ Lines'
  BY <1>3, <1>7 DEF Counted, Lines
<1> QED BY <1>4, <1>8

\* A new link.
LEMMA RegisterKeepsLines ==
    ASSUME TypeOK, OwnTexts, QueueWaits, Counted, Lines,
           NEW p \in Peers, NEW q \in Peers, Register(p, q)
    PROVE  OwnTexts' /\ QueueWaits' /\ Counted' /\ Lines'
<1>1. /\ \A r \in Peers : /\ history[r] \in Seq(Entry) /\ inbox[r] \in Seq(Text)
                          /\ queued[r] \in Seq(Copy) /\ Len(history[r]) \in Nat
      /\ \A r, m \in Peers : wire[r][m] \in Seq(Text)
  BY StateTypes
<1>2. Opening(p, q)
  BY OpeningDoes
<1>3. /\ connections' = [connections EXCEPT ![p] = connections[p] \cup {q}]
      /\ Leaving(queued[p], q) \in Seq(Copy)
      /\ wire'[p][q] = wire[p][q] \o Texts(Leaving(queued[p], q))
      /\ \A r, m \in Peers : r # p \/ m # q => wire'[r][m] = wire[r][m]
      /\ queued'[p] = Staying(queued[p], q)
      /\ \A r \in Peers : r # p => queued'[r] = queued[r]
      /\ history'[p] = Marked(history[p], Leaving(queued[p], q))
      /\ \A r \in Peers : r # p => history'[r] = history[r]
      /\ inbox' = inbox
  BY <1>2 DEF Opening
<1>4. /\ Len(history'[p]) = Len(history[p])
      /\ \A n \in 1..Len(history[p]) : history'[p][n].text = history[p][n].text
  <2>1. MarksIn(history'[p], history[p], Leaving(queued[p], q))
    BY <1>1, <1>3, MarkedList
  <2> QED BY <2>1 DEF MarksIn
<1>5. OwnTexts'
  <2>1. \A n \in 1..Len(history'[p]) : history'[p][n].text.from = p
                                       /\ history'[p][n].text.number = n
    BY <1>4 DEF OwnTexts
  <2> QED BY <1>3, <2>1 DEF OwnTexts
<1>6. QueueWaits'
  <2> DEFINE staying == Staying(queued[p], q)
  <2>1. Picks(staying, queued[p], Others(queued[p], q))
    BY <1>1, LeavingStaying
  <2> HIDE DEF staying
  <2>2. \A i \in 1..Len(staying) : staying[i].to \notin connections[p] /\ staying[i].to # q
    <3>1. PICK place \in [1..Len(staying) -> 1..Len(queued[p])] :
            \A i \in 1..Len(staying) : /\ place[i] \in Others(queued[p], q)
                                       /\ staying[i] = queued[p][place[i]]
      BY <2>1 DEF Picks
    <3> TAKE i \in 1..Len(staying)
    <3>2. /\ place[i] \in 1..Len(queued[p]) /\ staying[i] = queued[p][place[i]]
          /\ queued[p][place[i]].to # q
      BY <3>1 DEF Others
    <3> QED BY <3>2 DEF QueueWaits
  <2>3. queued'[p] = staying
    BY <1>3 DEF staying
  <2>4. connections \in [Peers -> SUBSET Peers]
    BY DEF TypeOK
  <2>5. connections'[p] = connections[p] \cup {q} /\ \A r \in Peers : r # p => connections'[r] = connections[r]
    BY <1>3, <2>4
  <2>6. \A i \in 1..Len(queued'[p]) : queued'[p][i].to \notin connections'[p]
    BY <2>2, <2>3, <2>5
  <2> QED BY <1>3, <2>5, <2>6 DEF QueueWaits
<1>7. ASSUME NEW r \in Peers, NEW m \in Peers
      PROVE  /\ Within(inbox[m], wire'[r][m], queued'[r], r, Len(history'[r]))
             /\ InLine(inbox[m], wire'[r][m], queued'[r], r, m)
  <2>1. /\ Within(inbox[m], wire[r][m], queued[r], r, Len(history[r]))
        /\ InLine(inbox[m], wire[r][m], queued[r], r, m)
    BY DEF Counted, Lines
  <2>2. /\ inbox[m] \in Seq(Text) /\ queued[r] \in Seq(Copy) /\ Len(history[r]) \in Nat
        /\ wire[r][m] \in Seq(Text)
    BY <1>1
  <2>3. CASE r # p
    BY <1>3, <2>1, <2>3
  <2>4. CASE r = p /\ m = q
    <3>1. /\ wire'[r][m] = wire[r][m] \o Texts(Leaving(queued[r], m))
          /\ queued'[r] = Staying(queued[r], m) /\ Len(history'[r]) = Len(history[r])
      BY <1>3, <1>4, <2>4
    <3>2. /\ Within(inbox[m], wire[r][m] \o Texts(Leaving(queued[r], m)),
                    Staying(queued[r], m), r, Len(history[r]))
          /\ InLine(inbox[m], wire[r][m] \o Texts(Leaving(queued[r], m)),
                    Staying(queued[r], m), r, m)
      BY <2>1, <2>2, LineFlushed
    <3> QED BY <3>1, <3>2
  <2>5. CASE r = p /\ m # q
    <3>1. /\ wire'[r][m] = wire[r][m]
          /\ queued'[r] = Staying(queued[r], q) /\ Len(history'[r]) = Len(history[r])
      BY <1>3, <1>4, <2>5
    <3>2. /\ Within(inbox[m], wire[r][m], Staying(queued[r], q), r, Len(history[r]))
          /\ InLine(inbox[m], wire[r][m], Staying(queued[r], q), r, m)
      BY <2>1, <2>2, LineStays
    <3> QED BY <3>1, <3>2
  <2> QED BY <2>3, <2>4, <2>5
<1>8. Counted' /\ Lines'
  BY <1>3, <1>7 DEF Counted, Lines
<1> QED BY <1>5, <1>6, <1>8

\* A link that is lost.
LEMMA BreakKeepsLines ==
    ASSUME TypeOK, OwnTexts, QueueWaits, Counted, Lines,
           NEW p \in Peers, NEW q \in Peers, Break(p, q)
    PROVE  OwnTexts' /\ QueueWaits' /\ Counted' /\ Lines'
<1>1. /\ \A r \in Peers : /\ inbox[r] \in Seq(Text) /\ queued[r] \in Seq(Copy)
                          /\ Len(history[r]) \in Nat
      /\ \A r, m \in Peers : wire[r][m] \in Seq(Text)
  BY StateTypes
<1>2. /\ \A r, m \in Peers : wire'[r][m] = <<>> \/ wire'[r][m] = wire[r][m]
      /\ \A r \in Peers : connections'[r] \subseteq connections[r]
      /\ history' = history /\ queued' = queued /\ inbox' = inbox
  <2>1. Losing
    BY LosingDoes
  <2> QED BY <2>1 DEF Losing
<1>3. OwnTexts'
  BY <1>2 DEF OwnTexts
<1>4. QueueWaits'
  BY <1>2 DEF QueueWaits
<1>5. ASSUME NEW r \in Peers, NEW m \in Peers
      PROVE  /\ Within(inbox[m], wire'[r][m], queued[r], r, Len(history[r]))
             /\ InLine(inbox[m], wire'[r][m], queued[r], r, m)
  <2>1. /\ Within(inbox[m], wire[r][m], queued[r], r, Len(history[r]))
        /\ InLine(inbox[m], wire[r][m], queued[r], r, m)
    BY DEF Counted, Lines
  <2>2. /\ inbox[m] \in Seq(Text) /\ queued[r] \in Seq(Copy) /\ Len(history[r]) \in Nat
        /\ wire[r][m] \in Seq(Text)
    BY <1>1
  <2>3. /\ Within(inbox[m], <<>>, queued[r], r, Len(history[r]))
        /\ InLine(inbox[m], <<>>, queued[r], r, m)
    BY <2>1, <2>2, LineLost
  <2>4. CASE wire'[r][m] = <<>>
    BY <2>3, <2>4
  <2>5. CASE wire'[r][m] = wire[r][m]
    BY <2>1, <2>5
  <2> QED BY <1>2, <2>4, <2>5
<1>6. Counted' /\ Lines'
  BY <1>2, <1>5 DEF Counted, Lines
<1> QED BY <1>3, <1>4, <1>6

\* Every step keeps the lines.
LEMMA LinesStep ==
    ASSUME TypeOK, OwnTexts, QueueWaits, Counted, Lines, [Next]_vars
    PROVE  OwnTexts' /\ QueueWaits' /\ Counted' /\ Lines'
<1>1. ASSUME UNCHANGED <<history, queued, connections, inbox, wire>>
      PROVE  OwnTexts' /\ QueueWaits' /\ Counted' /\ Lines'
  <2>1. OwnTexts' /\ QueueWaits'
    BY <1>1 DEF OwnTexts, QueueWaits
  <2> QED BY <1>1, <2>1, LinesAlone
<1>2. ASSUME NEW p \in Peers, Join(p) \/ Leave(p)
      PROVE  OwnTexts' /\ QueueWaits' /\ Counted' /\ Lines'
  BY <1>1, <1>2 DEF Join, Leave
<1>3. ASSUME NEW p \in Peers, SendGroup(p) PROVE OwnTexts' /\ QueueWaits' /\ Counted' /\ Lines'
  BY <1>3, SendKeepsLines
<1>4. ASSUME NEW p \in Peers, NEW q \in Peers, ReceiveText(q, p)
      PROVE  OwnTexts' /\ QueueWaits' /\ Counted' /\ Lines'
  BY <1>4, ReadKeepsLines
<1>5. ASSUME NEW p \in Peers, NEW q \in Peers, Register(p, q)
      PROVE  OwnTexts' /\ QueueWaits' /\ Counted' /\ Lines'
  BY <1>5, RegisterKeepsLines
<1>6. ASSUME NEW p \in Peers, NEW q \in Peers, Break(p, q)
      PROVE  OwnTexts' /\ QueueWaits' /\ Counted' /\ Lines'
  BY <1>6, BreakKeepsLines
<1>7. CASE UNCHANGED vars
  BY <1>1, <1>7 DEF vars
<1> QED BY <1>2, <1>3, <1>4, <1>5, <1>6, <1>7 DEF Next

\* The first state.
LEMMA LinesInit == Init => OwnTexts /\ QueueWaits /\ Counted /\ Lines
<1> SUFFICES ASSUME Init PROVE OwnTexts /\ QueueWaits /\ Counted /\ Lines
  OBVIOUS
<1>1. /\ \A p \in Peers : history[p] = <<>> /\ inbox[p] = <<>> /\ queued[p] = <<>>
      /\ \A p, q \in Peers : wire[p][q] = <<>>
      /\ 1..Len(<<>>) = {}
  BY EmptySeq DEF Init
<1>2. OwnTexts /\ QueueWaits
  BY <1>1 DEF OwnTexts, QueueWaits
<1>3. Counted
  BY <1>1 DEF Counted, Within
<1>4. Lines
  BY <1>1 DEF Lines, InLine
<1> QED BY <1>2, <1>3, <1>4

\* The lines put the texts of each writer in order.
LEMMA LinesOrder == TypeOK /\ Lines => WritersInOrder
<1> SUFFICES ASSUME TypeOK, Lines, NEW p \in Peers,
                    NEW i \in DOMAIN inbox[p], NEW j \in DOMAIN inbox[p],
                    i < j, inbox[p][i].from = inbox[p][j].from
             PROVE  inbox[p][i].number < inbox[p][j].number
  BY DEF WritersInOrder
<1>1. inbox[p] \in Seq(Text)
  BY DEF TypeOK
<1>2. i \in 1..Len(inbox[p]) /\ j \in 1..Len(inbox[p])
  BY <1>1, LenProperties
<1>3. inbox[p][i].from \in Peers
  <2>1. inbox[p][i] \in Text
    BY <1>1, <1>2, ElementOfSeq
  <2> QED BY <2>1 DEF Text
<1> PICK writer \in Peers : writer = inbox[p][i].from
  BY <1>3
<1>4. InLine(inbox[p], wire[writer][p], queued[writer], writer, p)
  BY DEF Lines
<1> QED BY <1>2, <1>4 DEF InLine

\* A member reads the texts of one writer in the order they were written,
\* each once, though some come by the queue and some by the link, and links
\* are lost.
THEOREM ReadAsWritten == Spec => []WritersInOrder
<1>1. Init => TypeOK /\ OwnTexts /\ QueueWaits /\ Counted /\ Lines
  BY TypeInit, LinesInit
<1>2. TypeOK /\ OwnTexts /\ QueueWaits /\ Counted /\ Lines /\ [Next]_vars
         => TypeOK' /\ OwnTexts' /\ QueueWaits' /\ Counted' /\ Lines'
  BY TypeStep, LinesStep
<1>3. TypeOK /\ Lines => WritersInOrder
  BY LinesOrder
<1> QED BY <1>1, <1>2, <1>3, PTL DEF Spec

-----------------------------------------------------------------------------
(***************************************************************************)
(* No copy is lost, and the mark of an entry tells of its copies.          *)
(***************************************************************************)

\* The copy of a text for a member is in a queue.
Held(copies, text, m) ==
    \E i \in 1..Len(copies) : copies[i] = [text |-> text, to |-> m]

\* That is what IsQueued and Has say.
LEMMA HeldIsQueued ==
    ASSUME TypeOK
    PROVE  /\ \A text \in Text, m \in Peers : IsQueued(text, m) <=> Held(queued[text.from], text, m)
           /\ \A p \in Peers : \A n \in 1..Len(history[p]) : history[p][n].text \in Text
           /\ \A p \in Peers : DOMAIN history[p] = 1..Len(history[p])
           /\ \A text \in Text : Readers(text) \in SUBSET Peers
<1>1. \A p \in Peers : history[p] \in Seq(Entry) /\ queued[p] \in Seq(Copy)
  BY StateTypes
<1>2. \A text \in Text, m \in Peers : IsQueued(text, m) <=> Held(queued[text.from], text, m)
  <2> TAKE text \in Text, m \in Peers
  <2>1. text.from \in Peers
    BY DEF Text
  <2>2. DOMAIN queued[text.from] = 1..Len(queued[text.from])
    BY <1>1, <2>1, LenProperties
  <2> QED BY <2>2 DEF IsQueued, Held
<1>3. \A p \in Peers : \A n \in 1..Len(history[p]) : history[p][n].text \in Text
  <2> TAKE p \in Peers
  <2> TAKE n \in 1..Len(history[p])
  <2>1. history[p][n] \in Entry
    BY <1>1, ElementOfSeq
  <2> QED BY <2>1 DEF Entry
<1>4. \A p \in Peers : DOMAIN history[p] = 1..Len(history[p])
  BY <1>1, LenProperties
<1>5. \A text \in Text : Readers(text) \in SUBSET Peers
  BY DEF Text, Readers
<1> QED BY <1>2, <1>3, <1>4, <1>5

\* A queue that grows by the copies of a text holds these and those before.
LEMMA HeldGrown ==
    ASSUME NEW copies \in Seq(Copy), NEW new \in Text, NEW order \in Seq(Peers),
           NEW text, NEW m
    PROVE  Held(copies \o Copies(new, order), text, m) <=>
              \/ Held(copies, text, m)
              \/ text = new /\ \E i \in 1..Len(order) : order[i] = m
<1> DEFINE more == Copies(new, order)
           all == copies \o more
<1>1. /\ more \in Seq(Copy) /\ Len(more) = Len(order)
      /\ \A i \in 1..Len(order) : more[i] = [text |-> new, to |-> order[i]]
  BY CopiesList
<1> HIDE DEF more
<1>2. /\ Len(all) = Len(copies) + Len(order) /\ Len(copies) \in Nat /\ Len(order) \in Nat
      /\ \A i \in 1..Len(copies) : all[i] = copies[i]
      /\ \A i \in 1..Len(order) : all[Len(copies) + i] = more[i]
  <2>1. more \in Seq(Copy)
    BY <1>1
  <2>2. Len(copies) \in Nat /\ Len(order) \in Nat
    BY LenProperties
  <2>3. /\ Len(copies \o more) = Len(copies) + Len(more)
        /\ \A i \in 1..Len(copies) : (copies \o more)[i] = copies[i]
        /\ \A i \in 1..Len(more) : (copies \o more)[Len(copies) + i] = more[i]
    BY <2>1, ConcatProperties
  <2> QED BY <1>1, <2>2, <2>3
<1> HIDE DEF all
<1>3. /\ \A i \in 1..Len(copies) : i \in 1..Len(all)
      /\ \A i \in 1..Len(order) : Len(copies) + i \in 1..Len(all)
      /\ \A i \in 1..Len(all) : \/ i \in 1..Len(copies)
                                \/ /\ i - Len(copies) \in 1..Len(order)
                                   /\ Len(copies) + (i - Len(copies)) = i
  BY <1>2
<1>4. \A i \in 1..Len(order) : all[Len(copies) + i] = [text |-> new, to |-> order[i]]
  BY <1>1, <1>2
<1>5. ASSUME Held(all, text, m)
      PROVE  \/ Held(copies, text, m)
             \/ text = new /\ \E i \in 1..Len(order) : order[i] = m
  <2>1. PICK i \in 1..Len(all) : all[i] = [text |-> text, to |-> m]
    BY <1>5 DEF Held
  <2>2. CASE i \in 1..Len(copies)
    BY <1>2, <2>1, <2>2 DEF Held
  <2>3. CASE i - Len(copies) \in 1..Len(order) /\ Len(copies) + (i - Len(copies)) = i
    <3>1. [text |-> text, to |-> m] = [text |-> new, to |-> order[i - Len(copies)]]
      BY <1>4, <2>1, <2>3
    <3> QED BY <2>3, <3>1
  <2> QED BY <1>3, <2>2, <2>3
<1>6. ASSUME Held(copies, text, m) PROVE Held(all, text, m)
  BY <1>2, <1>3, <1>6 DEF Held
<1>7. ASSUME text = new, NEW i \in 1..Len(order), order[i] = m PROVE Held(all, text, m)
  <2>1. all[Len(copies) + i] = [text |-> text, to |-> m]
    BY <1>4, <1>7
  <2> QED BY <1>3, <2>1 DEF Held
<1>8. Held(all, text, m) <=>
         \/ Held(copies, text, m)
         \/ text = new /\ \E i \in 1..Len(order) : order[i] = m
  BY <1>5, <1>6, <1>7
<1> QED BY <1>8 DEF all, more

\* What leaves a queue is what it held for that peer; the rest stays.
LEMMA HeldStays ==
    ASSUME NEW copies \in Seq(Copy), NEW q, NEW text, NEW m
    PROVE  /\ Held(Staying(copies, q), text, m) <=> Held(copies, text, m) /\ m # q
           /\ Held(Leaving(copies, q), text, m) <=> Held(copies, text, m) /\ m = q
           /\ \A i \in 1..Len(Leaving(copies, q)) :
                 /\ Leaving(copies, q)[i] \in Copy /\ Leaving(copies, q)[i].to = q
                 /\ Held(copies, Leaving(copies, q)[i].text, q)
<1> DEFINE leaving == Leaving(copies, q)
           staying == Staying(copies, q)
<1>1. /\ leaving \in Seq(Copy) /\ staying \in Seq(Copy)
      /\ Picks(leaving, copies, Those(copies, q)) /\ Picks(staying, copies, Others(copies, q))
  BY LeavingStaying
<1> HIDE DEF leaving, staying
<1>2. PICK place \in [1..Len(leaving) -> 1..Len(copies)] :
        /\ \A i \in 1..Len(leaving) : place[i] \in Those(copies, q) /\ leaving[i] = copies[place[i]]
        /\ \A k \in Those(copies, q) : \E i \in 1..Len(leaving) : place[i] = k
  BY <1>1 DEF Picks
<1>3. PICK stays \in [1..Len(staying) -> 1..Len(copies)] :
        /\ \A i \in 1..Len(staying) : stays[i] \in Others(copies, q) /\ staying[i] = copies[stays[i]]
        /\ \A k \in Others(copies, q) : \E i \in 1..Len(staying) : stays[i] = k
  BY <1>1 DEF Picks
<1>4. ASSUME Held(staying, text, m) PROVE Held(copies, text, m) /\ m # q
  <2>1. PICK i \in 1..Len(staying) : staying[i] = [text |-> text, to |-> m]
    BY <1>4 DEF Held
  <2>2. stays[i] \in 1..Len(copies) /\ copies[stays[i]].to # q
        /\ copies[stays[i]] = [text |-> text, to |-> m]
    BY <1>3, <2>1 DEF Others
  <2> QED BY <2>2 DEF Held
<1>5. ASSUME Held(copies, text, m), m # q PROVE Held(staying, text, m)
  <2>1. PICK k \in 1..Len(copies) : copies[k] = [text |-> text, to |-> m]
    BY <1>5 DEF Held
  <2>2. k \in Others(copies, q)
    BY <1>5, <2>1 DEF Others
  <2>3. PICK i \in 1..Len(staying) : stays[i] = k
    BY <1>3, <2>2
  <2> QED BY <1>3, <2>1, <2>3 DEF Held
<1>6. ASSUME Held(leaving, text, m) PROVE Held(copies, text, m) /\ m = q
  <2>1. PICK i \in 1..Len(leaving) : leaving[i] = [text |-> text, to |-> m]
    BY <1>6 DEF Held
  <2>2. place[i] \in 1..Len(copies) /\ copies[place[i]].to = q
        /\ copies[place[i]] = [text |-> text, to |-> m]
    BY <1>2, <2>1 DEF Those
  <2> QED BY <2>2 DEF Held
<1>7. ASSUME Held(copies, text, m), m = q PROVE Held(leaving, text, m)
  <2>1. PICK k \in 1..Len(copies) : copies[k] = [text |-> text, to |-> m]
    BY <1>7 DEF Held
  <2>2. k \in Those(copies, q)
    BY <1>7, <2>1 DEF Those
  <2>3. PICK i \in 1..Len(leaving) : place[i] = k
    BY <1>2, <2>2
  <2> QED BY <1>2, <2>1, <2>3 DEF Held
<1>8. ASSUME NEW i \in 1..Len(leaving)
      PROVE  leaving[i] \in Copy /\ leaving[i].to = q /\ Held(copies, leaving[i].text, q)
  <2>1. leaving[i] \in Copy
    BY <1>1, ElementOfSeq
  <2>2. place[i] \in 1..Len(copies) /\ leaving[i] = copies[place[i]] /\ leaving[i].to = q
    BY <1>2 DEF Those
  <2>3. leaving[i] = [text |-> leaving[i].text, to |-> q]
    BY <2>1, <2>2 DEF Copy
  <2> QED BY <2>1, <2>2, <2>3 DEF Held
<1> QED BY <1>4, <1>5, <1>6, <1>7, <1>8 DEF leaving, staying

\* A list that grows has what it had, and what is new.
LEMMA HasGrown ==
    ASSUME NEW s \in Seq(Text), NEW text
    PROVE  /\ Has(s, text) <=> \E i \in 1..Len(s) : s[i] = text
           /\ \A t \in Text : Has(Append(s, t), text) <=> Has(s, text) \/ text = t
           /\ s # <<>> /\ Has(s, text) => text = Head(s) \/ Has(Tail(s), text)
<1>1. DOMAIN s = 1..Len(s) /\ Len(s) \in Nat
  BY LenProperties
<1>2. ASSUME NEW t \in Text PROVE Has(Append(s, t), text) <=> Has(s, text) \/ text = t
  <2> DEFINE s2 == Append(s, t)
  <2>1. /\ s2 \in Seq(Text) /\ Len(s2) = Len(s) + 1 /\ s2[Len(s) + 1] = t
        /\ \A i \in 1..Len(s) : s2[i] = s[i]
    BY AppendProperties
  <2>2. DOMAIN s2 = 1..Len(s2)
    BY <2>1, LenProperties
  <2> HIDE DEF s2
  <2>3. DOMAIN s2 = 1..Len(s) \cup {Len(s) + 1}
    BY <1>1, <2>1, <2>2
  <2>4. Has(s2, text) <=> Has(s, text) \/ text = t
    BY <1>1, <2>1, <2>3 DEF Has
  <2> QED BY <2>4 DEF s2
<1>3. ASSUME s # <<>>, Has(s, text) PROVE text = Head(s) \/ Has(Tail(s), text)
  <2>1. PICK i \in 1..Len(s) : s[i] = text
    BY <1>1, <1>3 DEF Has
  <2>2. /\ Tail(s) \in Seq(Text) /\ Head(s) = s[1] /\ Len(Tail(s)) = Len(s) - 1
        /\ \A j \in 1..Len(Tail(s)) : Tail(s)[j] = s[j + 1]
    BY <1>3, HeadTailProperties
  <2>3. CASE i = 1
    BY <2>1, <2>2, <2>3
  <2>4. CASE i # 1
    <3>1. i - 1 \in 1..Len(Tail(s)) /\ (i - 1) + 1 = i
      BY <1>1, <2>2, <2>4
    <3>2. Tail(s)[i - 1] = text
      BY <2>1, <2>2, <3>1
    <3>3. DOMAIN Tail(s) = 1..Len(Tail(s))
      BY <2>2, LenProperties
    <3> QED BY <3>1, <3>2, <3>3 DEF Has
  <2> QED BY <2>3, <2>4
<1> QED BY <1>1, <1>2, <1>3 DEF Has

\* A wire that takes the copies that leave a queue has them.
LEMMA HasFlushed ==
    ASSUME NEW s \in Seq(Text), NEW copies \in Seq(Copy), NEW text, NEW q
    PROVE  /\ Has(s, text) => Has(s \o Texts(copies), text)
           /\ Held(copies, text, q) => Has(s \o Texts(copies), text)
<1> DEFINE ts == Texts(copies)
           all == s \o ts
<1>1. ts \in Seq(Text) /\ Len(ts) = Len(copies) /\ \A i \in 1..Len(copies) : ts[i] = copies[i].text
  BY TextsList
<1> HIDE DEF ts
<1>2. /\ all \in Seq(Text) /\ Len(all) = Len(s) + Len(ts)
      /\ \A i \in 1..Len(s) : all[i] = s[i]
      /\ \A i \in 1..Len(ts) : all[Len(s) + i] = ts[i]
  <2>1. ts \in Seq(Text)
    BY <1>1
  <2>2. /\ s \o ts \in Seq(Text) /\ Len(s \o ts) = Len(s) + Len(ts)
        /\ \A i \in 1..Len(s) : (s \o ts)[i] = s[i]
        /\ \A i \in 1..Len(ts) : (s \o ts)[Len(s) + i] = ts[i]
    BY <2>1, ConcatProperties
  <2> QED BY <2>2
<1> HIDE DEF all
<1>3. /\ DOMAIN all = 1..Len(all) /\ DOMAIN s = 1..Len(s)
      /\ Len(s) \in Nat /\ Len(ts) \in Nat
  BY <1>1, <1>2, LenProperties
<1>4. /\ \A i \in 1..Len(s) : i \in 1..Len(all)
      /\ \A i \in 1..Len(ts) : Len(s) + i \in 1..Len(all)
  BY <1>2, <1>3
<1>5. Has(s, text) => Has(all, text)
  BY <1>2, <1>3, <1>4 DEF Has
<1>6. ASSUME Held(copies, text, q) PROVE Has(all, text)
  <2>1. PICK i \in 1..Len(copies) : copies[i] = [text |-> text, to |-> q]
    BY <1>6 DEF Held
  <2>2. all[Len(s) + i] = text
    BY <1>1, <1>2, <2>1
  <2> QED BY <1>1, <1>3, <1>4, <2>2 DEF Has
<1> QED BY <1>5, <1>6 DEF all, ts

\* A copy of a text of p for m is queued, on its way or read, unless m does
\* not regard p as a friend.
Counts(copies, onWire, read, regarded, p, text, m) ==
    \/ Held(copies, text, m)
    \/ Has(onWire, text)
    \/ Has(read, text)
    \/ p \notin regarded

\* The mark of an entry against the queue.
Tells(entry, readers, copies) ==
    /\ entry.status = "queued" =>
          \E u \in entry.uid : u \in readers /\ Held(copies, entry.text, u)
    /\ entry.status = "sent" => \E u \in readers : ~Held(copies, entry.text, u)

\* The properties in these words, for the state of now.
LEMMA CountsNow ==
    ASSUME TypeOK, OwnTexts, EveryCopyCounts, breaks = 0, NEW p \in Peers,
           NEW n \in 1..Len(history[p]), NEW m \in Readers(history[p][n].text)
    PROVE  Counts(queued[p], wire[p][m], inbox[m], friends[m], p, history[p][n].text, m)
<1> PICK text : text = history[p][n].text
  OBVIOUS
<1>1. /\ text \in Text /\ text.from = p /\ m \in Peers /\ n \in DOMAIN history[p]
  <2>1. text \in Text /\ n \in DOMAIN history[p] /\ Readers(text) \in SUBSET Peers
    BY HeldIsQueued
  <2> QED BY <2>1 DEF OwnTexts
<1>2. \/ IsQueued(text, m) \/ Has(wire[p][m], text) \/ Has(inbox[m], text)
      \/ p \notin friends[m]
  BY <1>1 DEF EveryCopyCounts
<1>3. IsQueued(text, m) <=> Held(queued[p], text, m)
  BY <1>1, HeldIsQueued
<1> QED BY <1>2, <1>3 DEF Counts

\* The second property likewise.
LEMMA TellsNow ==
    ASSUME TypeOK, OwnTexts, EntryTells, NEW p \in Peers, NEW n \in 1..Len(history[p])
    PROVE  Tells(history[p][n], Readers(history[p][n].text), queued[p])
<1> DEFINE entry == history[p][n]
           text == entry.text
           waits == {m \in Readers(text) : IsQueued(text, m)}
<1>1. /\ text \in Text /\ text.from = p /\ n \in DOMAIN history[p]
      /\ Readers(text) \in SUBSET Peers
  <2>1. text \in Text /\ n \in DOMAIN history[p]
    BY HeldIsQueued
  <2>2. Readers(text) \in SUBSET Peers
    BY <2>1, HeldIsQueued
  <2> QED BY <2>1, <2>2 DEF OwnTexts
<1>2. \A m \in Peers : IsQueued(text, m) <=> Held(queued[p], text, m)
  BY <1>1, HeldIsQueued
<1>3. /\ entry.status = "queued" => entry.uid \cap waits # {}
      /\ entry.status = "sent" => waits # Readers(text)
  BY <1>1 DEF EntryTells
<1> HIDE DEF entry
<1>4. entry.status = "queued" => \E u \in entry.uid : u \in Readers(text) /\ Held(queued[p], text, u)
  BY <1>1, <1>2, <1>3
<1>5. entry.status = "sent" => \E u \in Readers(text) : ~Held(queued[p], text, u)
  BY <1>1, <1>2, <1>3
<1>6. Tells(entry, Readers(text), queued[p])
  BY <1>4, <1>5 DEF Tells
<1> QED BY <1>6 DEF entry

\* And for that of the next state.
LEMMA HeldNext ==
    ASSUME TypeOK', OwnTexts', friends' = friends,
           NEW p \in Peers, NEW n \in DOMAIN history'[p]
    PROVE  LET text == history'[p][n].text
           IN  /\ n \in 1..Len(history'[p]) /\ text \in Text /\ text.from = p
               /\ Readers(text) = text.members \cap friends'[text.from]
               /\ Readers(text) \in SUBSET Peers
               /\ \A m : (\E i \in DOMAIN queued'[text.from] :
                             queued'[text.from][i] = [text |-> text, to |-> m])
                          <=> Held(queued'[p], text, m)
<1> DEFINE text == history'[p][n].text
<1>1. history'[p] \in Seq(Entry) /\ queued'[p] \in Seq(Copy)
  BY DEF TypeOK
<1>2. DOMAIN history'[p] = 1..Len(history'[p]) /\ DOMAIN queued'[p] = 1..Len(queued'[p])
  BY <1>1, LenProperties
<1>3. history'[p][n] \in Entry
  BY <1>1, <1>2, ElementOfSeq
<1>4. text \in Text /\ text.from = p
  BY <1>2, <1>3 DEF Entry, OwnTexts
<1> HIDE DEF text
<1>5. Readers(text) = text.members \cap friends'[text.from] /\ Readers(text) \in SUBSET Peers
  BY <1>4 DEF Readers, Text
<1>6. \A m : (\E i \in DOMAIN queued'[text.from] :
                 queued'[text.from][i] = [text |-> text, to |-> m])
              <=> Held(queued'[p], text, m)
  BY <1>2, <1>4 DEF Held
<1> QED BY <1>2, <1>4, <1>5, <1>6 DEF text

\* So the next state has the first property if each copy counts in it.
LEMMA CountsNext ==
    ASSUME TypeOK', OwnTexts', friends' = friends,
           breaks' = 0 => \A p \in Peers : \A n \in 1..Len(history'[p]) :
               \A m \in Readers(history'[p][n].text) :
                   Counts(queued'[p], wire'[p][m], inbox'[m], friends[m], p,
                          history'[p][n].text, m)
    PROVE  EveryCopyCounts'
<1>1. ASSUME breaks' = 0, NEW p \in Peers, NEW n \in DOMAIN history'[p],
             NEW m \in history'[p][n].text.members \cap friends'[history'[p][n].text.from]
      PROVE  \/ \E i \in DOMAIN queued'[history'[p][n].text.from] :
                   queued'[history'[p][n].text.from][i] = [text |-> history'[p][n].text, to |-> m]
             \/ \E i \in DOMAIN wire'[p][m] : wire'[p][m][i] = history'[p][n].text
             \/ \E i \in DOMAIN inbox'[m] : inbox'[m][i] = history'[p][n].text
             \/ p \notin friends'[m]
  <2> DEFINE text == history'[p][n].text
  <2>1. /\ n \in 1..Len(history'[p])
        /\ Readers(text) = text.members \cap friends'[text.from]
        /\ (\E i \in DOMAIN queued'[text.from] : queued'[text.from][i] = [text |-> text, to |-> m])
              <=> Held(queued'[p], text, m)
    BY HeldNext
  <2>2. m \in Readers(text)
    BY <1>1, <2>1
  <2>3. Counts(queued'[p], wire'[p][m], inbox'[m], friends[m], p, text, m)
    BY <1>1, <2>1, <2>2
  <2> HIDE DEF text
  <2>4. \/ \E i \in DOMAIN queued'[text.from] : queued'[text.from][i] = [text |-> text, to |-> m]
        \/ \E i \in DOMAIN wire'[p][m] : wire'[p][m][i] = text
        \/ \E i \in DOMAIN inbox'[m] : inbox'[m][i] = text
        \/ p \notin friends'[m]
    BY <2>1, <2>3 DEF Counts, Has
  <2> QED BY <2>4 DEF text
<1> QED BY <1>1 DEF EveryCopyCounts, Readers, IsQueued, Has

\* And the second if each entry tells of its copies in it.
LEMMA TellsNext ==
    ASSUME TypeOK', OwnTexts', friends' = friends,
           \A p \in Peers : \A n \in 1..Len(history'[p]) :
               Tells(history'[p][n], Readers(history'[p][n].text), queued'[p])
    PROVE  EntryTells'
<1>1. ASSUME NEW p \in Peers, NEW n \in DOMAIN history'[p]
      PROVE  LET entry == history'[p][n]
                 readers == entry.text.members \cap friends'[entry.text.from]
                 waits == {m \in readers :
                             \E i \in DOMAIN queued'[entry.text.from] :
                                queued'[entry.text.from][i] = [text |-> entry.text, to |-> m]}
             IN  /\ entry.status = "queued" => entry.uid \cap waits # {}
                 /\ entry.status = "sent" => waits # readers
  <2> DEFINE entry == history'[p][n]
             readers == entry.text.members \cap friends'[entry.text.from]
  <2>1. /\ n \in 1..Len(history'[p]) /\ Readers(entry.text) = readers
        /\ \A m : (\E i \in DOMAIN queued'[entry.text.from] :
                     queued'[entry.text.from][i] = [text |-> entry.text, to |-> m])
                  <=> Held(queued'[p], entry.text, m)
    BY HeldNext
  <2>2. Tells(entry, readers, queued'[p])
    BY <2>1
  <2> HIDE DEF entry, readers
  <2>3. /\ entry.status = "queued" =>
              entry.uid \cap {m \in readers : Held(queued'[p], entry.text, m)} # {}
        /\ entry.status = "sent" =>
              {m \in readers : Held(queued'[p], entry.text, m)} # readers
    BY <2>2 DEF Tells
  <2>4. {m \in readers : Held(queued'[p], entry.text, m)} =
           {m \in readers :
              \E i \in DOMAIN queued'[entry.text.from] :
                 queued'[entry.text.from][i] = [text |-> entry.text, to |-> m]}
    BY <2>1
  <2> QED BY <2>3, <2>4 DEF entry, readers
<1> QED BY <1>1 DEF EntryTells, Readers, IsQueued

\* What a text that is sent does to the copies of each text of its writer.
LEMMA SendingCopies ==
    ASSUME TypeOK, OwnTexts, Counted, NEW p \in Peers, NEW order, Sends(p, order)
    PROVE  /\ \A text, m : Held(queued'[p], text, m) <=>
                 \/ Held(queued[p], text, m)
                 \/ text = NextText(p) /\ \E i \in 1..Len(order) : order[i] = m
           /\ \A m : ~Held(queued[p], NextText(p), m)
           /\ \A n \in 1..Len(history[p]) : history[p][n].text # NextText(p)
           /\ \A text, m : m \in Peers /\ Has(wire[p][m], text) => Has(wire'[p][m], text)
           /\ \A m \in Audience(p) \cap connections[p] : Has(wire'[p][m], NextText(p))
           /\ Readers(NextText(p)) = Audience(p)
<1>1. Sent(p, order)
  BY SendingSets
<1>2. /\ NextText(p) \in Text /\ NextText(p).from = p
      /\ NextText(p).number = Len(history[p]) + 1
      /\ NextText(p).members = members[p] \cup {p}
      /\ queued'[p] = queued[p] \o Copies(NextText(p), order)
      /\ \A q \in Peers : wire'[p][q] = IF q \in Audience(p) \cap connections[p]
                                        THEN Append(wire[p][q], NextText(p)) ELSE wire[p][q]
      /\ Absentees(p) \in SUBSET Peers /\ Audience(p) \in SUBSET Peers
      /\ order \in Orders(Absentees(p))
  BY <1>1 DEF Sent, Sends
<1>3. /\ history[p] \in Seq(Entry) /\ queued[p] \in Seq(Copy) /\ Len(history[p]) \in Nat
      /\ \A q \in Peers : wire[p][q] \in Seq(Text)
  BY StateTypes
<1>4. order \in Seq(Peers)
  BY <1>2, OrdersList
<1>5. \A text, m : Held(queued'[p], text, m) <=>
                 \/ Held(queued[p], text, m)
                 \/ text = NextText(p) /\ \E i \in 1..Len(order) : order[i] = m
  BY <1>2, <1>3, <1>4, HeldGrown
<1>6. \A m : ~Held(queued[p], NextText(p), m)
  <2> SUFFICES ASSUME NEW m, NEW i \in 1..Len(queued[p]),
                      queued[p][i] = [text |-> NextText(p), to |-> m]
               PROVE  FALSE
    BY DEF Held
  <2>1. queued[p][i].text.number \in 1..Len(history[p])
    BY DEF Counted, Within
  <2>2. queued[p][i].text = NextText(p)
    OBVIOUS
  <2> QED BY <1>2, <1>3, <2>1, <2>2
<1>7. \A n \in 1..Len(history[p]) : history[p][n].text # NextText(p)
  <2> SUFFICES ASSUME NEW n \in 1..Len(history[p]), history[p][n].text = NextText(p)
               PROVE  FALSE
    OBVIOUS
  <2>1. history[p][n].text.number = n
    BY DEF OwnTexts
  <2>2. n = Len(history[p]) + 1
    BY <1>2, <2>1
  <2> QED BY <1>3, <2>2
<1>8. \A text, m : m \in Peers /\ Has(wire[p][m], text) => Has(wire'[p][m], text)
  <2> SUFFICES ASSUME NEW text, NEW m \in Peers, Has(wire[p][m], text)
               PROVE  Has(wire'[p][m], text)
    OBVIOUS
  <2>1. Has(Append(wire[p][m], NextText(p)), text)
    BY <1>2, <1>3, HasGrown
  <2> QED BY <1>2, <2>1
<1>9. \A m \in Audience(p) \cap connections[p] : Has(wire'[p][m], NextText(p))
  <2> TAKE m \in Audience(p) \cap connections[p]
  <2>1. m \in Peers
    BY <1>2
  <2>2. Has(Append(wire[p][m], NextText(p)), NextText(p))
    BY <1>2, <1>3, <2>1, HasGrown
  <2> QED BY <1>2, <2>1, <2>2
<1>10. Readers(NextText(p)) = Audience(p)
  BY <1>2 DEF Readers, Audience
<1> QED BY <1>5, <1>6, <1>7, <1>8, <1>9, <1>10

\* A text that is sent: each copy goes by the link or by the queue, and the
\* entry keeps the uid of a queued one.
LEMMA SendCounts ==
    ASSUME TypeOK, OwnTexts, QueueWaits, Counted, Lines, UidsRead, EveryCopyCounts, EntryTells,
           TypeOK', OwnTexts', NEW p \in Peers, SendGroup(p)
    PROVE  UidsRead' /\ EveryCopyCounts' /\ EntryTells'
<1>o. PICK order : Sends(p, order)
  BY SendingDoes
<1> DEFINE text == NextText(p)
<1>1. /\ Adds(p, order) /\ Sent(p, order)
  BY <1>o, SendingAdds, SendingSets
<1>2. /\ \A t, m : Held(queued'[p], t, m) <=>
                 \/ Held(queued[p], t, m)
                 \/ t = text /\ \E i \in 1..Len(order) : order[i] = m
      /\ \A m : ~Held(queued[p], text, m)
      /\ \A n \in 1..Len(history[p]) : history[p][n].text # text
      /\ \A t, m : m \in Peers /\ Has(wire[p][m], t) => Has(wire'[p][m], t)
      /\ \A m \in Audience(p) \cap connections[p] : Has(wire'[p][m], text)
      /\ Readers(text) = Audience(p)
  BY <1>o, SendingCopies
<1>3. /\ \A r \in Peers : r # p => queued'[r] = queued[r] /\ history'[r] = history[r]
      /\ \A r \in Peers : r # p => \A q \in Peers : wire'[r][q] = wire[r][q]
      /\ order \in Orders(Absentees(p)) /\ Absentees(p) \in SUBSET Peers
      /\ friends' = friends /\ inbox' = inbox /\ breaks' = breaks
      /\ Audience(p) \in SUBSET Peers /\ Absentees(p) = Audience(p) \ connections[p]
  BY <1>o, <1>1 DEF Sent, Sends, Absentees
<1>4. /\ order \in Seq(Peers) /\ DOMAIN order = 1..Len(order)
      /\ \A i \in 1..Len(order) : order[i] \in Absentees(p)
      /\ \A m \in Absentees(p) : \E i \in 1..Len(order) : order[i] = m
  BY <1>3, OrdersList
<1>5. /\ \A n \in 1..Len(history'[p]) :
            \/ n \in 1..Len(history[p])
            \/ n = Len(history[p]) + 1 /\ Audience(p) # {}
      /\ Audience(p) # {} =>
            /\ history'[p][Len(history[p]) + 1] =
                  [text |-> text, uid |-> FirstUid(Audience(p), order), status |-> Mark(order)]
            /\ \A n \in 1..Len(history[p]) : history'[p][n] = history[p][n]
      /\ Audience(p) = {} => history'[p] = history[p]
  BY <1>1 DEF Adds
<1> HIDE DEF text
<1>6. \A n \in 1..Len(history[p]) : history'[p][n] = history[p][n]
  BY <1>5
<1>7. FirstUid(Audience(p), order) \subseteq Absentees(p)
      /\ (order # <<>> => \E u \in FirstUid(Audience(p), order) :
                             \E i \in 1..Len(order) : order[i] = u)
  <2>1. CASE order = <<>>
    BY <2>1 DEF FirstUid
  <2>2. CASE order # <<>>
    <3>1. 1 \in 1..Len(order)
      BY <1>4, <2>2, EmptySeq, LenProperties
    <3>2. FirstUid(Audience(p), order) = {order[1]}
      BY <2>2 DEF FirstUid
    <3> QED BY <1>4, <3>1, <3>2
  <2> QED BY <2>1, <2>2
<1>8. UidsRead'
  <2>1. ASSUME NEW r \in Peers, NEW n \in 1..Len(history'[r])
        PROVE  history'[r][n].uid \subseteq Readers(history'[r][n].text)
    <3>1. CASE r # p
      BY <1>3, <3>1 DEF UidsRead
    <3>2. CASE r = p /\ n \in 1..Len(history[p])
      BY <1>6, <3>2 DEF UidsRead
    <3>3. CASE r = p /\ n = Len(history[p]) + 1 /\ Audience(p) # {}
      <4>1. /\ history'[r][n].uid = FirstUid(Audience(p), order)
            /\ history'[r][n].text = text
        BY <1>5, <3>3
      <4> QED BY <1>2, <1>3, <1>7, <4>1
    <3> QED BY <1>5, <2>1, <3>1, <3>2, <3>3
  <2> QED BY <1>3, <2>1 DEF UidsRead, Readers
<1>9. EveryCopyCounts'
  <2>1. ASSUME breaks' = 0, NEW r \in Peers, NEW n \in 1..Len(history'[r]),
               NEW m \in Readers(history'[r][n].text)
        PROVE  Counts(queued'[r], wire'[r][m], inbox'[m], friends[m], r, history'[r][n].text, m)
    <3>1. breaks = 0
      BY <1>3, <2>1
    <3>2. CASE r # p
      <4>1. /\ history'[r] = history[r] /\ queued'[r] = queued[r]
            /\ n \in 1..Len(history[r]) /\ m \in Readers(history[r][n].text)
        BY <1>3, <3>2
      <4>2. m \in Peers
        BY <4>1, HeldIsQueued
      <4>3. wire'[r][m] = wire[r][m]
        BY <1>3, <3>2, <4>2
      <4>4. Counts(queued[r], wire[r][m], inbox[m], friends[m], r, history[r][n].text, m)
        BY <3>1, <4>1, CountsNow
      <4> QED BY <1>3, <4>1, <4>3, <4>4
    <3>3. CASE r = p /\ n \in 1..Len(history[p])
      <4>1. history'[p][n] = history[p][n] /\ m \in Readers(history[p][n].text)
        BY <1>6, <3>3
      <4>2. m \in Peers
        BY <3>3, <4>1, HeldIsQueued
      <4>3. Counts(queued[p], wire[p][m], inbox[m], friends[m], p, history[p][n].text, m)
        BY <3>1, <3>3, <4>1, CountsNow
      <4>4. Counts(queued'[p], wire'[p][m], inbox[m], friends[m], p, history[p][n].text, m)
        BY <1>2, <4>2, <4>3 DEF Counts
      <4> QED BY <1>3, <3>3, <4>1, <4>4
    <3>4. CASE r = p /\ n = Len(history[p]) + 1 /\ Audience(p) # {}
      <4>1. history'[p][n].text = text
        BY <1>5, <3>4
      <4>2. m \in Audience(p)
        BY <1>2, <3>4, <4>1
      <4>3. CASE m \in connections[p]
        BY <1>2, <3>4, <4>1, <4>2, <4>3 DEF Counts
      <4>4. CASE m \notin connections[p]
        <5>1. Held(queued'[p], text, m)
          BY <1>2, <1>3, <1>4, <4>2, <4>4
        <5> QED BY <3>4, <4>1, <5>1 DEF Counts
      <4> QED BY <4>3, <4>4
    <3> QED BY <1>5, <3>2, <3>3, <3>4
  <2> QED BY <1>3, <2>1, CountsNext
<1>10. EntryTells'
  <2>1. ASSUME NEW r \in Peers, NEW n \in 1..Len(history'[r])
        PROVE  Tells(history'[r][n], Readers(history'[r][n].text), queued'[r])
    <3>1. CASE r # p
      BY <1>3, <3>1, TellsNow
    <3>2. CASE r = p /\ n \in 1..Len(history[p])
      <4>1. history'[p][n] = history[p][n]
        BY <1>6, <3>2
      <4>2. Tells(history[p][n], Readers(history[p][n].text), queued[p])
        BY <3>2, TellsNow
      <4>3. \A u : Held(queued'[p], history[p][n].text, u) <=> Held(queued[p], history[p][n].text, u)
        BY <1>2, <3>2
      <4>4. Tells(history[p][n], Readers(history[p][n].text), queued'[p])
        BY <4>2, <4>3 DEF Tells
      <4> QED BY <3>2, <4>1, <4>4
    <3>3. CASE r = p /\ n = Len(history[p]) + 1 /\ Audience(p) # {}
      <4> DEFINE entry == history'[p][n]
      <4>1. /\ entry.text = text /\ entry.status = Mark(order)
            /\ entry.uid = FirstUid(Audience(p), order)
        BY <1>5, <3>3
      <4> HIDE DEF entry
      <4>2. Readers(entry.text) = Audience(p)
        BY <1>2, <4>1
      <4>3. CASE order = <<>>
        <5>1. Len(order) = 0
          BY <4>3, EmptySeq
        <5>2. entry.status = "sent" /\ \A u : ~Held(queued'[p], text, u)
          BY <1>2, <4>1, <4>3, <5>1 DEF Mark
        <5>3. Tells(entry, Audience(p), queued'[p])
          BY <3>3, <4>1, <5>2 DEF Tells
        <5> QED BY <3>3, <4>2, <5>3 DEF entry
      <4>4. CASE order # <<>>
        <5>1. entry.status = "queued"
          BY <4>1, <4>4 DEF Mark
        <5>2. \E u \in entry.uid : u \in Audience(p) /\ Held(queued'[p], text, u)
          BY <1>2, <1>3, <1>7, <4>1, <4>4
        <5>3. Tells(entry, Audience(p), queued'[p])
          BY <4>1, <5>1, <5>2 DEF Tells
        <5> QED BY <3>3, <4>2, <5>3 DEF entry
      <4> QED BY <4>3, <4>4
    <3> QED BY <1>5, <3>1, <3>2, <3>3
  <2> QED BY <1>3, <2>1, TellsNext
<1> QED BY <1>8, <1>9, <1>10

\* A text that is read is no longer on its way; the entries and the queue are
\* left alone.
LEMMA ReadCounts ==
    ASSUME TypeOK, OwnTexts, UidsRead, EveryCopyCounts, EntryTells,
           TypeOK', OwnTexts', NEW p \in Peers, NEW q \in Peers, ReceiveText(q, p)
    PROVE  UidsRead' /\ EveryCopyCounts' /\ EntryTells'
<1> DEFINE first == Head(wire[p][q])
<1>1. /\ \A m \in Peers : inbox[m] \in Seq(Text)
      /\ \A r, m \in Peers : wire[r][m] \in Seq(Text)
  BY StateTypes
<1>2. /\ wire[p][q] # <<>> /\ first \in Text
      /\ wire'[p][q] = Tail(wire[p][q])
      /\ \A r, m \in Peers : r # p \/ m # q => wire'[r][m] = wire[r][m]
      /\ \A m \in Peers : m # q => inbox'[m] = inbox[m]
      /\ \/ p \notin friends[q] /\ inbox'[q] = inbox[q]
         \/ p \in friends[q] /\ inbox'[q] = Append(inbox[q], first)
      /\ history' = history /\ queued' = queued /\ friends' = friends /\ breaks' = breaks
  <2>1. inbox \in [Peers -> Seq(Text)]
    BY DEF TypeOK
  <2>2. Reading(q, p)
    BY ReadingDoes
  <2> QED BY <2>1, <2>2 DEF Reading
<1> HIDE DEF first
<1>3. UidsRead'
  BY <1>2 DEF UidsRead, Readers
<1>4. ASSUME NEW m \in Peers, NEW text, Has(inbox[m], text) PROVE Has(inbox'[m], text)
  <2>1. CASE inbox'[m] = inbox[m]
    BY <1>4, <2>1
  <2>2. CASE m = q /\ inbox'[q] = Append(inbox[q], first)
    <3>1. Has(Append(inbox[q], first), text)
      BY <1>1, <1>2, <1>4, <2>2, HasGrown
    <3> QED BY <2>2, <3>1
  <2> QED BY <1>2, <2>1, <2>2
<1>5. ASSUME breaks' = 0, NEW r \in Peers, NEW n \in 1..Len(history'[r]),
             NEW m \in Readers(history'[r][n].text)
      PROVE  Counts(queued'[r], wire'[r][m], inbox'[m], friends[m], r, history'[r][n].text, m)
  <2> DEFINE text == history[r][n].text
  <2>1. n \in 1..Len(history[r]) /\ m \in Readers(text) /\ breaks = 0 /\ history'[r][n].text = text
    BY <1>2, <1>5
  <2>2. m \in Peers
    BY <2>1, HeldIsQueued
  <2>3. Counts(queued[r], wire[r][m], inbox[m], friends[m], r, text, m)
    BY <2>1, CountsNow
  <2> HIDE DEF text
  <2>4. CASE r # p \/ m # q
    <3>1. wire'[r][m] = wire[r][m]
      BY <1>2, <2>2, <2>4
    <3>2. Counts(queued'[r], wire'[r][m], inbox'[m], friends[m], r, text, m)
      BY <1>2, <1>4, <2>2, <2>3, <3>1 DEF Counts
    <3> QED BY <2>1, <3>2
  <2>5. CASE r = p /\ m = q
    <3>1. CASE Has(wire[p][q], text) /\ p \in friends[q]
      <4>1. text = first \/ Has(Tail(wire[p][q]), text)
        BY <1>1, <1>2, <3>1, HasGrown DEF first
      <4>2. CASE text = first
        <5>1. Has(Append(inbox[q], first), first)
          BY <1>1, <1>2, HasGrown
        <5> QED BY <1>2, <2>1, <2>5, <3>1, <4>2, <5>1 DEF Counts
      <4>3. CASE Has(Tail(wire[p][q]), text)
        BY <1>2, <2>1, <2>5, <4>3 DEF Counts
      <4> QED BY <4>1, <4>2, <4>3
    <3>2. CASE ~(Has(wire[p][q], text) /\ p \in friends[q])
      <4>1. Held(queued[r], text, m) \/ Has(inbox[m], text) \/ r \notin friends[m]
        BY <2>3, <2>5, <3>2 DEF Counts
      <4>2. Held(queued'[r], text, m) \/ Has(inbox'[m], text) \/ r \notin friends[m]
        BY <1>2, <1>4, <2>2, <4>1
      <4> QED BY <2>1, <4>2 DEF Counts
    <3> QED BY <3>1, <3>2
  <2> QED BY <2>4, <2>5
<1>6. EveryCopyCounts'
  BY <1>2, <1>5, CountsNext
<1>7. EntryTells'
  <2>1. \A r \in Peers : \A n \in 1..Len(history'[r]) :
           Tells(history'[r][n], Readers(history'[r][n].text), queued'[r])
    BY <1>2, TellsNow
  <2> QED BY <1>2, <2>1, TellsNext
<1> QED BY <1>3, <1>6, <1>7

\* A flush moves the copies for a peer from the queue to the wire, and marks
\* the entries that keep the uid of one of them.
LEMMA RegisterCounts ==
    ASSUME TypeOK, OwnTexts, UidsRead, EveryCopyCounts, EntryTells,
           TypeOK', OwnTexts', NEW p \in Peers, NEW q \in Peers, Register(p, q)
    PROVE  UidsRead' /\ EveryCopyCounts' /\ EntryTells'
<1> DEFINE leaving == Leaving(queued[p], q)
<1>1. /\ history[p] \in Seq(Entry) /\ queued[p] \in Seq(Copy)
      /\ \A r, m \in Peers : wire[r][m] \in Seq(Text)
  BY StateTypes
<1>2. /\ leaving \in Seq(Copy)
      /\ wire'[p][q] = wire[p][q] \o Texts(leaving)
      /\ \A r, m \in Peers : r # p \/ m # q => wire'[r][m] = wire[r][m]
      /\ queued'[p] = Staying(queued[p], q)
      /\ \A r \in Peers : r # p => queued'[r] = queued[r]
      /\ history'[p] = Marked(history[p], leaving)
      /\ \A r \in Peers : r # p => history'[r] = history[r]
      /\ friends' = friends /\ inbox' = inbox /\ breaks' = breaks
  <2>1. Opening(p, q)
    BY OpeningDoes
  <2> QED BY <2>1 DEF Opening
<1>3. \A text, m : Held(queued'[p], text, m) <=> Held(queued[p], text, m) /\ m # q
  BY <1>1, <1>2, HeldStays
<1>4. /\ \A text, m : Held(leaving, text, m) <=> Held(queued[p], text, m) /\ m = q
      /\ \A i \in 1..Len(leaving) : leaving[i].to = q /\ Held(queued[p], leaving[i].text, q)
  BY <1>1, HeldStays
<1> HIDE DEF leaving
<1>5. /\ Len(history'[p]) = Len(history[p])
      /\ \A n \in 1..Len(history[p]) :
            /\ history'[p][n].text = history[p][n].text
            /\ history'[p][n].uid = history[p][n].uid
            /\ \/ /\ \E i \in 1..Len(leaving) : /\ leaving[i].text = history[p][n].text
                                                /\ leaving[i].to \in history[p][n].uid
                  /\ history'[p][n].status = "sent"
               \/ /\ ~\E i \in 1..Len(leaving) : /\ leaving[i].text = history[p][n].text
                                                 /\ leaving[i].to \in history[p][n].uid
                  /\ history'[p][n].status = history[p][n].status
  <2>1. MarksIn(history'[p], history[p], leaving)
    BY <1>1, <1>2, MarkedList
  <2> QED BY <2>1 DEF MarksIn
<1>6. UidsRead'
  <2>1. \A r \in Peers : \A n \in 1..Len(history'[r]) :
           history'[r][n].uid \subseteq Readers(history'[r][n].text)
    <3> TAKE r \in Peers
    <3> TAKE n \in 1..Len(history'[r])
    <3>1. CASE r # p
      BY <1>2, <3>1 DEF UidsRead
    <3>2. CASE r = p
      BY <1>5, <3>2 DEF UidsRead
    <3> QED BY <3>1, <3>2
  <2> QED BY <1>2, <2>1 DEF UidsRead, Readers
<1>7. ASSUME breaks' = 0, NEW r \in Peers, NEW n \in 1..Len(history'[r]),
             NEW m \in Readers(history'[r][n].text)
      PROVE  Counts(queued'[r], wire'[r][m], inbox'[m], friends[m], r, history'[r][n].text, m)
  <2> DEFINE text == history[r][n].text
  <2>1. n \in 1..Len(history[r]) /\ m \in Readers(text) /\ breaks = 0 /\ history'[r][n].text = text
    <3>1. Len(history'[r]) = Len(history[r])
      BY <1>2, <1>5
    <3>2. history'[r][n].text = text
      BY <1>2, <1>5, <3>1
    <3> QED BY <1>2, <1>7, <3>1, <3>2
  <2>2. m \in Peers
    BY <2>1, HeldIsQueued
  <2>3. Counts(queued[r], wire[r][m], inbox[m], friends[m], r, text, m)
    BY <2>1, CountsNow
  <2> HIDE DEF text
  <2>4. CASE r # p
    BY <1>2, <2>1, <2>2, <2>3, <2>4
  <2>5. CASE r = p /\ m # q
    <3>1. wire'[p][m] = wire[p][m]
      BY <1>2, <2>2, <2>5
    <3>2. Counts(queued'[p], wire'[p][m], inbox'[m], friends[m], p, text, m)
      BY <1>2, <1>3, <2>3, <2>5, <3>1 DEF Counts
    <3> QED BY <2>1, <2>5, <3>2
  <2>6. CASE r = p /\ m = q
    <3>1. /\ Has(wire[p][q], text) => Has(wire[p][q] \o Texts(leaving), text)
          /\ Held(leaving, text, q) => Has(wire[p][q] \o Texts(leaving), text)
      BY <1>1, <1>2, HasFlushed
    <3>2. Counts(queued'[p], wire'[p][q], inbox'[q], friends[q], p, text, q)
      BY <1>2, <1>4, <2>3, <2>6, <3>1 DEF Counts
    <3> QED BY <2>1, <2>6, <3>2
  <2> QED BY <2>4, <2>5, <2>6
<1>8. EveryCopyCounts'
  BY <1>2, <1>7, CountsNext
<1>9. ASSUME NEW n \in 1..Len(history[p])
      PROVE  Tells(history'[p][n], Readers(history'[p][n].text), queued'[p])
  <2> DEFINE old == history[p][n]
             new == history'[p][n]
             readers == Readers(old.text)
             hit == \E i \in 1..Len(leaving) : leaving[i].text = old.text /\ leaving[i].to \in old.uid
  <2>1. /\ new.text = old.text /\ new.uid = old.uid
        /\ \/ hit /\ new.status = "sent"
           \/ ~hit /\ new.status = old.status
    BY <1>5
  <2>2. Tells(old, readers, queued[p]) /\ old.uid \subseteq readers
    BY TellsNow DEF UidsRead
  <2>3. Readers(new.text) = readers
    BY <2>1
  <2> HIDE DEF old, new, readers
  <2>4. CASE hit
    <3>1. q \in old.uid /\ q \in readers
      BY <1>4, <2>2, <2>4
    <3>2. new.status = "sent"
      BY <2>1, <2>4
    <3>3. ~Held(queued'[p], new.text, q)
      BY <1>3
    <3>4. Tells(new, readers, queued'[p])
      BY <3>1, <3>2, <3>3 DEF Tells
    <3> QED BY <2>3, <3>4 DEF new
  <2>5. CASE ~hit
    <3>1. new.status = old.status /\ new.text = old.text /\ new.uid = old.uid
      BY <2>1, <2>5
    <3>2. ASSUME new.status = "queued"
          PROVE  \E u \in new.uid : u \in readers /\ Held(queued'[p], new.text, u)
      <4>1. PICK u \in old.uid : u \in readers /\ Held(queued[p], old.text, u)
        BY <2>2, <3>1, <3>2 DEF Tells
      <4>2. u # q
        <5> SUFFICES ASSUME u = q PROVE FALSE
          OBVIOUS
        <5>1. Held(leaving, old.text, q)
          BY <1>4, <4>1
        <5>2. PICK i \in 1..Len(leaving) : leaving[i] = [text |-> old.text, to |-> q]
          BY <5>1 DEF Held
        <5>3. leaving[i].text = old.text /\ leaving[i].to \in old.uid
          BY <4>1, <5>2
        <5> QED BY <2>5, <5>3
      <4> QED BY <1>3, <3>1, <4>1, <4>2
    <3>3. ASSUME new.status = "sent"
          PROVE  \E u \in readers : ~Held(queued'[p], new.text, u)
      <4>1. PICK u \in readers : ~Held(queued[p], old.text, u)
        BY <2>2, <3>1, <3>3 DEF Tells
      <4> QED BY <1>3, <3>1, <4>1
    <3>4. Tells(new, readers, queued'[p])
      BY <3>2, <3>3 DEF Tells
    <3> QED BY <2>3, <3>4 DEF new
  <2> QED BY <2>4, <2>5
<1>10. EntryTells'
  <2>1. \A r \in Peers : \A n \in 1..Len(history'[r]) :
           Tells(history'[r][n], Readers(history'[r][n].text), queued'[r])
    <3> TAKE r \in Peers
    <3> TAKE n \in 1..Len(history'[r])
    <3>1. CASE r # p
      BY <1>2, <3>1, TellsNow
    <3>2. CASE r = p
      BY <1>5, <1>9, <3>2
    <3> QED BY <3>1, <3>2
  <2> QED BY <1>2, <2>1, TellsNext
<1> QED BY <1>6, <1>8, <1>10

\* Every step keeps the three.
LEMMA CountsStep ==
    ASSUME TypeOK, OwnTexts, QueueWaits, Counted, Lines, UidsRead, EveryCopyCounts, EntryTells,
           [Next]_vars
    PROVE  UidsRead' /\ EveryCopyCounts' /\ EntryTells'
<1>1. TypeOK' /\ OwnTexts'
  BY TypeStep, LinesStep
<1>2. ASSUME UNCHANGED <<history, queued, friends>>,
             breaks' = 0 => breaks = 0 /\ UNCHANGED <<wire, inbox>>
      PROVE  UidsRead' /\ EveryCopyCounts' /\ EntryTells'
  <2>1. UidsRead'
    BY <1>2 DEF UidsRead, Readers
  <2>2. \A r \in Peers : \A n \in 1..Len(history'[r]) :
           Tells(history'[r][n], Readers(history'[r][n].text), queued'[r])
    BY <1>2, TellsNow
  <2>3. breaks' = 0 => \A r \in Peers : \A n \in 1..Len(history'[r]) :
               \A m \in Readers(history'[r][n].text) :
                   Counts(queued'[r], wire'[r][m], inbox'[m], friends[m], r,
                          history'[r][n].text, m)
    BY <1>2, CountsNow
  <2> QED BY <1>1, <1>2, <2>1, <2>2, <2>3, TellsNext, CountsNext
<1>3. ASSUME NEW p \in Peers, Join(p) \/ Leave(p)
      PROVE  UidsRead' /\ EveryCopyCounts' /\ EntryTells'
  BY <1>2, <1>3 DEF Join, Leave
<1>4. ASSUME NEW p \in Peers, SendGroup(p) PROVE UidsRead' /\ EveryCopyCounts' /\ EntryTells'
  BY <1>1, <1>4, SendCounts
<1>5. ASSUME NEW p \in Peers, NEW q \in Peers, ReceiveText(q, p)
      PROVE  UidsRead' /\ EveryCopyCounts' /\ EntryTells'
  BY <1>1, <1>5, ReadCounts
<1>6. ASSUME NEW p \in Peers, NEW q \in Peers, Register(p, q)
      PROVE  UidsRead' /\ EveryCopyCounts' /\ EntryTells'
  BY <1>1, <1>6, RegisterCounts
<1>7. ASSUME NEW p \in Peers, NEW q \in Peers, Break(p, q)
      PROVE  UidsRead' /\ EveryCopyCounts' /\ EntryTells'
  <2>1. Losing
    BY <1>7, LosingDoes
  <2> QED BY <1>2, <2>1 DEF Losing
<1>8. CASE UNCHANGED vars
  BY <1>2, <1>8 DEF vars
<1> QED BY <1>3, <1>4, <1>5, <1>6, <1>7, <1>8 DEF Next

\* The first state.
LEMMA CountsInit == Init => UidsRead /\ EveryCopyCounts /\ EntryTells
<1> SUFFICES ASSUME Init PROVE UidsRead /\ EveryCopyCounts /\ EntryTells
  OBVIOUS
<1>1. \A p \in Peers : history[p] = <<>> /\ 1..Len(history[p]) = {} /\ DOMAIN history[p] = {}
  BY EmptySeq DEF Init
<1> QED BY <1>1 DEF UidsRead, EveryCopyCounts, EntryTells

\* The inductive invariant.
ChannelsInvariant ==
    /\ TypeOK /\ OwnTexts /\ QueueWaits /\ Counted /\ Lines
    /\ UidsRead /\ EveryCopyCounts /\ EntryTells

\* It holds in every state.
LEMMA ChannelsInvariance == Spec => []ChannelsInvariant
<1>1. Init => ChannelsInvariant
  BY TypeInit, LinesInit, CountsInit DEF ChannelsInvariant
<1>2. ChannelsInvariant /\ [Next]_vars => ChannelsInvariant'
  BY TypeStep, LinesStep, CountsStep DEF ChannelsInvariant
<1> QED BY <1>1, <1>2, PTL DEF Spec

\* While no link breaks, each copy of a text is queued, on its way or read,
\* unless its reader does not regard the writer as a friend.
THEOREM NoCopyLost == Spec => []EveryCopyCounts
<1>1. ChannelsInvariant => EveryCopyCounts
  BY DEF ChannelsInvariant
<1> QED BY <1>1, ChannelsInvariance, PTL

\* An entry is shown as queued only while the copy that will mark it is in the
\* queue, and as sent only after a copy has left.
THEOREM MarksTell == Spec => []EntryTells
<1>1. ChannelsInvariant => EntryTells
  BY DEF ChannelsInvariant
<1> QED BY <1>1, ChannelsInvariance, PTL
=============================================================================
