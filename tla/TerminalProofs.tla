---------------------------- MODULE TerminalProofs ----------------------------
(***************************************************************************)
(* Theorems about Terminal, for all conversations and bounds: the types,   *)
(* that the screen follows the histories and the neighbours, and that a    *)
(* text goes where it was entered.                                         *)
(*                                                                         *)
(* The inductive invariant says of the whole queue of events what the      *)
(* properties say of its head: which conversation will be on the screen    *)
(* when an event is handled (Entered), that the entries posted of one      *)
(* conversation come in their order (InOrder), and that one whose mark has *)
(* changed since is followed by an update (MarksIn).  These take the queue *)
(* as a parameter, since one handler takes from it and adds to it.         *)
(***************************************************************************)
EXTENDS Terminal, SequenceTheorems, TLAPS

\* c will be on the screen when what is at i in the queue evs gets handled,
\* if cur is now.
ShownAt(evs, cur, i, c) ==
    \/ \E k \in 1..(i - 1) :
          /\ evs[k].type = "selected" /\ evs[k].conv = c
          /\ \A l \in (k + 1)..(i - 1) : evs[l].type # "selected"
    \/ c = cur /\ \A l \in 1..(i - 1) : evs[l].type # "selected"

Entered(evs, cur, ch) ==
    /\ \A i \in 1..Len(evs) :
          evs[i].type = "submitted" => ShownAt(evs, cur, i, evs[i].for)
    /\ ShownAt(evs, cur, Len(evs) + 1, ch)

\* Entries of the histories, and events that post no other ones.
KnownLine == {line \in Line : line.number \in DOMAIN history[line.conv]}
KnownEvent == {e \in Event : e.type = "incoming" => e.line \in KnownLine}

IsPosted(e, c) == e.type = "incoming" /\ e.line.conv = c

InOrder(evs) ==
    \A i, j \in 1..Len(evs) : \A c \in Conversations :
        IsPosted(evs[i], c) /\ IsPosted(evs[j], c) /\ i < j
            => evs[i].line.number < evs[j].line.number

PostedIn(evs, c, n) ==
    \E i \in 1..Len(evs) : IsPosted(evs[i], c) /\ evs[i].line.number = n

\* The entries of the open conversation are on the screen or posted, and
\* those on the screen are in order.
Covered(evs) ==
    current # None => \A n \in DOMAIN history[current] :
        Lines(current, n) = {} => PostedIn(evs, current, n)
Ordered ==
    \A n \in Nat : Lines(current, n) # {} =>
        \A older \in 1..(n - 1) : \E i \in Lines(current, older) :
            \A j \in Lines(current, n) : i < j

RightMark(hist, line) == line.mark = hist[line.conv][line.number]
MarksIn(evs, hist) ==
    \A i \in 1..Len(evs) : evs[i].type = "incoming" /\ ~RightMark(hist, evs[i].line) =>
        \E j \in 1..Len(evs) : i < j /\ evs[j] = Updated(evs[i].line.conv)

\* Where a mark of a posted entry has changed with the history, e says so.
Corrects(e, evs, h, h2) ==
    \A i \in 1..Len(evs) : evs[i].type = "incoming" =>
        \/ RightMark(h2, evs[i].line) <=> RightMark(h, evs[i].line)
        \/ e = Updated(evs[i].line.conv)

\* What a new entry of c and its event e leave of the histories and the queue.
Added(s, c, e) ==
    /\ e \in Event /\ e.type = "incoming" /\ e.line.conv = c
    /\ e.line.number = Len(history[c]) + 1
    /\ history' \in [Conversations -> Seq(Mark)]
    /\ DOMAIN history'[c] = DOMAIN history[c] \cup {Len(history[c]) + 1}
    /\ \A d \in Conversations : d # c => history'[d] = history[d]
    /\ KnownLine \subseteq KnownLine' /\ KnownEvent \subseteq KnownEvent'
    /\ e \in KnownEvent'
    /\ \A line \in KnownLine : RightMark(history', line) <=> RightMark(history, line)
    /\ InOrder(Append(s, e)) /\ MarksIn(Append(s, e), history')

TerminalInvariant ==
    /\ TypeOK
    /\ Entered(events, current, chosen)
    /\ events \in Seq(KnownEvent) /\ screen \in Seq(KnownLine)
    /\ InOrder(events)
    /\ Covered(events)
    /\ Ordered
    /\ MarksAgree
    /\ MarksIn(events, history)
    /\ OnlineAgrees

-----------------------------------------------------------------------------
(***************************************************************************)
(* Queues of events.                                                       *)
(***************************************************************************)

\* An event posted comes last.
LEMMA Posting ==
    ASSUME NEW S, NEW s \in Seq(S), NEW e \in S
    PROVE  /\ Append(s, e) \in Seq(S) /\ Len(Append(s, e)) = Len(s) + 1
           /\ Append(s, e)[Len(s) + 1] = e
           /\ \A i \in 1..Len(s) : Append(s, e)[i] = s[i]
           /\ Len(s) \in Nat
           /\ \A i \in 1..(Len(s) + 1) : i \in 1..Len(s) \/ i = Len(s) + 1
  OBVIOUS

\* An event handled was the first.
LEMMA Handling ==
    ASSUME NEW S, NEW s \in Seq(S), s # <<>>
    PROVE  /\ Tail(s) \in Seq(S) /\ Len(Tail(s)) = Len(s) - 1
           /\ Head(s) \in S /\ Head(s) = s[1]
           /\ \A i \in 1..Len(Tail(s)) : Tail(s)[i] = s[i + 1] /\ i + 1 \in 1..Len(s)
           /\ \A i \in 1..Len(s) : i = 1 \/ (i - 1 \in 1..Len(Tail(s)) /\ s[i] = Tail(s)[i - 1])
           /\ Len(s) \in Nat \ {0} /\ 1 \in 1..Len(s)
<1>1. /\ Tail(s) \in Seq(S) /\ Len(Tail(s)) = Len(s) - 1
      /\ Head(s) \in S /\ Head(s) = s[1] /\ Len(s) \in Nat \ {0}
  OBVIOUS
<1>2. \A i \in 1..Len(Tail(s)) : Tail(s)[i] = s[i + 1]
  BY HeadTailProperties
<1> DEFINE t == Tail(s)
<1>3. t = Tail(s)
  OBVIOUS
<1> HIDE DEF t
<1>4. \A i \in 1..Len(t) : t[i] = s[i + 1] /\ i + 1 \in 1..Len(s)
  BY <1>1, <1>2, <1>3
<1>5. \A i \in 1..Len(s) : i = 1 \/ (i - 1 \in 1..Len(t) /\ s[i] = t[i - 1])
  <2> SUFFICES ASSUME NEW i \in 1..Len(s), i # 1
               PROVE  i - 1 \in 1..Len(t) /\ s[i] = t[i - 1]
    OBVIOUS
  <2>1. i - 1 \in 1..Len(t)
    BY <1>1, <1>3
  <2>2. t[i - 1] = s[(i - 1) + 1] /\ (i - 1) + 1 = i
    BY <2>1, <1>1, <1>4
  <2>3. QED
    BY <2>1, <2>2
<1>6. QED
  BY <1>1, <1>3, <1>4, <1>5

\* What is posted changes nothing for what was posted before.  A text is
\* entered for the conversation chosen last.
LEMMA EnteredPosting ==
    ASSUME NEW S, NEW s \in Seq(S), NEW e \in S, NEW cur, NEW ch, NEW ch2,
           Entered(s, cur, ch),
           e.type = "selected" => ch2 = e.conv,
           e.type # "selected" => ch2 = ch,
           e.type = "submitted" => e.for = ch
    PROVE  Entered(Append(s, e), cur, ch2)
<1> DEFINE t == Append(s, e)
           n == Len(s)
<1>1. /\ Len(t) = n + 1 /\ t[n + 1] = e /\ n \in Nat
      /\ \A i \in 1..n : t[i] = s[i]
  BY Posting
<1>2. n = Len(s)
  OBVIOUS
<1> HIDE DEF t, n
<1>3. ASSUME NEW i \in 1..(n + 1), NEW c, ShownAt(s, cur, i, c)
      PROVE  ShownAt(t, cur, i, c)
  <2>1. \A l \in 1..(i - 1) : l \in 1..n /\ t[l] = s[l]
    BY <1>1
  <2>2. \A k \in 1..(i - 1) : \A l \in (k + 1)..(i - 1) : l \in 1..(i - 1)
    BY <1>1
  <2>3. QED
    BY <2>1, <2>2, <1>3 DEF ShownAt
<1>4. ASSUME NEW i \in 1..(n + 1), t[i].type = "submitted"
      PROVE  ShownAt(t, cur, i, t[i].for)
  <2>1. CASE i = n + 1
    <3>1. ShownAt(s, cur, i, ch)
      BY <2>1, <1>2 DEF Entered
    <3>2. QED
      BY <3>1, <2>1, <1>1, <1>3, <1>4
  <2>2. CASE i # n + 1
    <3>1. i \in 1..n /\ t[i] = s[i]
      BY <2>2, <1>1
    <3>2. ShownAt(s, cur, i, s[i].for)
      BY <3>1, <1>2, <1>4 DEF Entered
    <3>3. QED
      BY <3>1, <3>2, <1>3
  <2>3. QED
    BY <2>1, <2>2
<1>5. ShownAt(t, cur, (n + 1) + 1, ch2)
  <2>1. CASE e.type = "selected"
    <3>1. n + 1 \in 1..(((n + 1) + 1) - 1)
      BY <1>1
    <3>2. \A l \in ((n + 1) + 1)..(((n + 1) + 1) - 1) : FALSE
      BY <1>1
    <3>3. QED
      BY <3>1, <3>2, <2>1, <1>1 DEF ShownAt
  <2>2. CASE e.type # "selected"
    <3>1. ShownAt(t, cur, n + 1, ch)
      BY <1>1, <1>2, <1>3 DEF Entered
    <3>2. \A l \in 1..(((n + 1) + 1) - 1) : l \in 1..((n + 1) - 1) \/ l = n + 1
      BY <1>1
    <3>3. \A k \in 1..((n + 1) - 1) : k \in 1..(((n + 1) + 1) - 1)
      BY <1>1
    <3>4. \A k \in 1..((n + 1) - 1) : \A l \in (k + 1)..(((n + 1) + 1) - 1) :
             l \in (k + 1)..((n + 1) - 1) \/ l = n + 1
      BY <1>1
    <3>5. CASE \E k \in 1..((n + 1) - 1) :
                  /\ t[k].type = "selected" /\ t[k].conv = ch
                  /\ \A l \in (k + 1)..((n + 1) - 1) : t[l].type # "selected"
      <4>1. PICK k \in 1..((n + 1) - 1) :
                  /\ t[k].type = "selected" /\ t[k].conv = ch
                  /\ \A l \in (k + 1)..((n + 1) - 1) : t[l].type # "selected"
        BY <3>5
      <4>2. \A l \in (k + 1)..(((n + 1) + 1) - 1) : t[l].type # "selected"
        BY <4>1, <3>4, <2>2, <1>1
      <4>3. QED
        BY <4>1, <4>2, <3>3, <2>2 DEF ShownAt
    <3>6. CASE ch = cur /\ \A l \in 1..((n + 1) - 1) : t[l].type # "selected"
      BY <3>2, <3>6, <2>2, <1>1 DEF ShownAt
    <3>7. QED
      BY <3>1, <3>5, <3>6 DEF ShownAt
  <2>3. QED
    BY <2>1, <2>2
<1>6. QED
  BY <1>1, <1>4, <1>5 DEF Entered, t

\* What is handled is the next to be on the screen, or changes nothing.
LEMMA EnteredHandling ==
    ASSUME NEW S, NEW s \in Seq(S), s # <<>>, NEW cur, NEW cur2, NEW ch,
           Entered(s, cur, ch),
           Head(s).type = "selected" => cur2 = Head(s).conv,
           Head(s).type # "selected" => cur2 = cur
    PROVE  Entered(Tail(s), cur2, ch)
<1> DEFINE t == Tail(s)
           n == Len(t)
<1>1. /\ Len(s) = n + 1 /\ n \in Nat /\ Head(s) = s[1]
      /\ \A i \in 1..n : t[i] = s[i + 1] /\ i + 1 \in 1..(n + 1)
  BY Handling
<1>2. n = Len(t) /\ t = Tail(s)
  OBVIOUS
<1> HIDE DEF t, n
<1>3. ASSUME NEW i \in 1..(n + 1), NEW c, ShownAt(s, cur, i + 1, c)
      PROVE  ShownAt(t, cur2, i, c)
  <2>1. \A l \in 1..(i - 1) : l \in 1..n /\ t[l] = s[l + 1] /\ l + 1 \in 1..((i + 1) - 1)
    BY <1>1
  <2>2. 1 \in 1..((i + 1) - 1)
    BY <1>1
  <2>3. ASSUME NEW k \in 1..((i + 1) - 1), s[k].type = "selected", s[k].conv = c,
               \A l \in (k + 1)..((i + 1) - 1) : s[l].type # "selected"
        PROVE  ShownAt(t, cur2, i, c)
    <3>1. CASE k = 1
      <4>1. \A l \in 1..(i - 1) : l + 1 \in (k + 1)..((i + 1) - 1)
        BY <3>1
      <4>2. \A l \in 1..(i - 1) : t[l].type # "selected"
        BY <4>1, <2>1, <2>3
      <4>3. QED
        BY <4>2, <3>1, <2>3, <1>1 DEF ShownAt
    <3>2. CASE k # 1
      <4>1. k - 1 \in 1..(i - 1) /\ (k - 1) + 1 = k
        BY <3>2
      <4>2. t[k - 1] = s[k]
        BY <4>1, <2>1
      <4>3. \A l \in ((k - 1) + 1)..(i - 1) :
               l \in 1..(i - 1) /\ l + 1 \in (k + 1)..((i + 1) - 1)
        BY <4>1
      <4>4. \A l \in ((k - 1) + 1)..(i - 1) : t[l].type # "selected"
        BY <4>3, <2>1, <2>3
      <4>5. QED
        BY <4>1, <4>2, <4>4, <2>3 DEF ShownAt
    <3>3. QED
      BY <3>1, <3>2
  <2>4. ASSUME c = cur, \A l \in 1..((i + 1) - 1) : s[l].type # "selected"
        PROVE  ShownAt(t, cur2, i, c)
    BY <2>1, <2>2, <2>4, <1>1 DEF ShownAt
  <2>5. QED
    BY <2>3, <2>4, <1>3 DEF ShownAt
<1>4. ASSUME NEW i \in 1..n, t[i].type = "submitted"
      PROVE  ShownAt(t, cur2, i, t[i].for)
  <2>1. i \in 1..(n + 1) /\ i + 1 \in 1..Len(s) /\ t[i] = s[i + 1]
    BY <1>1
  <2>2. ShownAt(s, cur, i + 1, t[i].for)
    BY <2>1, <1>4 DEF Entered
  <2>3. QED
    BY <2>1, <2>2, <1>3
<1>5. ShownAt(t, cur2, n + 1, ch)
  <2>1. n + 1 \in 1..(n + 1) /\ ShownAt(s, cur, (n + 1) + 1, ch)
    BY <1>1 DEF Entered
  <2>2. QED
    BY <2>1, <1>3
<1>6. QED
  BY <1>2, <1>4, <1>5 DEF Entered

\* An entry posted is newer than those posted before.
LEMMA OrderPosting ==
    ASSUME NEW S, NEW s \in Seq(S), NEW e \in S, InOrder(s),
           \A c \in Conversations : IsPosted(e, c) =>
               \A i \in 1..Len(s) : IsPosted(s[i], c) => s[i].line.number < e.line.number
    PROVE  InOrder(Append(s, e))
<1> DEFINE t == Append(s, e)
           n == Len(s)
<1>1. /\ Len(t) = n + 1 /\ t[n + 1] = e /\ n \in Nat
      /\ \A i \in 1..n : t[i] = s[i]
      /\ \A i \in 1..(n + 1) : i \in 1..n \/ i = n + 1
  BY Posting
<1> HIDE DEF t
<1> SUFFICES ASSUME NEW i \in 1..(n + 1), NEW j \in 1..(n + 1), NEW c \in Conversations,
                    IsPosted(t[i], c), IsPosted(t[j], c), i < j
             PROVE  t[i].line.number < t[j].line.number
  BY <1>1 DEF InOrder, t
<1>2. i \in 1..n /\ t[i] = s[i]
  BY <1>1
<1>3. CASE j = n + 1
  BY <1>1, <1>2, <1>3
<1>4. CASE j \in 1..n
  BY <1>1, <1>2, <1>4 DEF InOrder
<1>5. QED
  BY <1>1, <1>3, <1>4

\* The order stays when the first event is handled, and an entry that is
\* handled is older than those that are still posted.
LEMMA OrderHandling ==
    ASSUME NEW S, NEW s \in Seq(S), s # <<>>, InOrder(s)
    PROVE  /\ InOrder(Tail(s))
           /\ \A c \in Conversations : IsPosted(Head(s), c) =>
                 \A i \in 1..Len(Tail(s)) : IsPosted(Tail(s)[i], c)
                    => Head(s).line.number < Tail(s)[i].line.number
<1> DEFINE t == Tail(s)
           n == Len(t)
<1>1. /\ Len(s) = n + 1 /\ n \in Nat /\ Head(s) = s[1] /\ 1 \in 1..(n + 1)
      /\ \A i \in 1..n : t[i] = s[i + 1] /\ i + 1 \in 1..(n + 1)
  BY Handling
<1> HIDE DEF t, n
<1>2. \A i, j \in 1..n : i < j => i + 1 < j + 1
  BY <1>1
<1>3. \A i \in 1..n : 1 < i + 1
  BY <1>1
<1>4. InOrder(t)
  BY <1>1, <1>2 DEF InOrder, n
<1>5. \A c \in Conversations : IsPosted(Head(s), c) =>
         \A i \in 1..n : IsPosted(t[i], c) => Head(s).line.number < t[i].line.number
  BY <1>1, <1>3 DEF InOrder
<1>6. QED
  BY <1>4, <1>5 DEF t, n

\* What is posted stays posted until it is handled.
LEMMA PostedPosting ==
    ASSUME NEW S, NEW s \in Seq(S), NEW e \in S
    PROVE  /\ \A c, n : PostedIn(s, c, n) => PostedIn(Append(s, e), c, n)
           /\ \A c, n : IsPosted(e, c) /\ e.line.number = n => PostedIn(Append(s, e), c, n)
           /\ \A x : (\E i \in DOMAIN s : s[i] = x) \/ x = e
                        => \E i \in DOMAIN Append(s, e) : Append(s, e)[i] = x
<1> DEFINE t == Append(s, e)
           m == Len(s)
<1>1. /\ Len(t) = m + 1 /\ t[m + 1] = e /\ m \in Nat
      /\ \A i \in 1..m : t[i] = s[i] /\ i \in 1..(m + 1)
      /\ m + 1 \in 1..(m + 1) /\ DOMAIN t = 1..(m + 1) /\ DOMAIN s = 1..m
  BY Posting
<1> HIDE DEF t
<1>2. \A c, n : PostedIn(s, c, n) => PostedIn(t, c, n)
  BY <1>1 DEF PostedIn
<1>3. \A c, n : IsPosted(e, c) /\ e.line.number = n => PostedIn(t, c, n)
  BY <1>1 DEF PostedIn
<1>4. \A x : (\E i \in DOMAIN s : s[i] = x) \/ x = e => \E i \in DOMAIN t : t[i] = x
  BY <1>1
<1>5. QED
  BY <1>2, <1>3, <1>4 DEF t

\* All that was posted is still posted, but for the event that is handled.
LEMMA PostedHandling ==
    ASSUME NEW S, NEW s \in Seq(S), s # <<>>
    PROVE  /\ \A c, n : PostedIn(s, c, n) =>
                 PostedIn(Tail(s), c, n) \/ (IsPosted(Head(s), c) /\ Head(s).line.number = n)
           /\ \A x : (\E i \in DOMAIN s : s[i] = x) =>
                 (\E i \in DOMAIN Tail(s) : Tail(s)[i] = x) \/ Head(s) = x
<1> DEFINE t == Tail(s)
           m == Len(t)
<1>1. /\ Len(s) = m + 1 /\ m \in Nat /\ Head(s) = s[1]
      /\ \A i \in 1..(m + 1) : i = 1 \/ (i - 1 \in 1..m /\ s[i] = t[i - 1])
      /\ DOMAIN t = 1..m /\ DOMAIN s = 1..(m + 1)
  BY Handling
<1> HIDE DEF t, m
<1>2. m = Len(t)
  BY DEF m
<1>3. \A c, n : PostedIn(s, c, n) =>
         PostedIn(t, c, n) \/ (IsPosted(Head(s), c) /\ Head(s).line.number = n)
  BY <1>1, <1>2 DEF PostedIn
<1>4. \A x : (\E i \in DOMAIN s : s[i] = x) => (\E i \in DOMAIN t : t[i] = x) \/ Head(s) = x
  BY <1>1
<1>5. QED
  BY <1>3, <1>4 DEF t

\* A mark that changes is followed by the update that is posted.
LEMMA MarksPosting ==
    ASSUME NEW S, NEW s \in Seq(S), NEW e \in S, NEW h, NEW h2, MarksIn(s, h),
           Corrects(e, s, h, h2),
           e.type = "incoming" => RightMark(h2, e.line)
    PROVE  MarksIn(Append(s, e), h2)
<1> DEFINE t == Append(s, e)
           n == Len(s)
<1>1. /\ Len(t) = n + 1 /\ t[n + 1] = e /\ n \in Nat
      /\ \A i \in 1..n : t[i] = s[i] /\ i \in 1..(n + 1) /\ i < n + 1
      /\ \A i \in 1..(n + 1) : i \in 1..n \/ i = n + 1
      /\ n + 1 \in 1..(n + 1)
  BY Posting
<1> HIDE DEF t
<1> SUFFICES ASSUME NEW i \in 1..(n + 1), t[i].type = "incoming", ~RightMark(h2, t[i].line)
             PROVE  \E j \in 1..(n + 1) : i < j /\ t[j] = Updated(t[i].line.conv)
  BY <1>1 DEF MarksIn, t
<1>2. i \in 1..n /\ t[i] = s[i]
  BY <1>1
<1>3. CASE e = Updated(s[i].line.conv)
  BY <1>1, <1>2, <1>3
<1>4. CASE ~RightMark(h, s[i].line)
  <2>1. PICK j \in 1..n : i < j /\ s[j] = Updated(s[i].line.conv)
    BY <1>2, <1>4 DEF MarksIn
  <2>2. QED
    BY <2>1, <1>1, <1>2
<1>5. QED
  BY <1>2, <1>3, <1>4 DEF Corrects

\* The update is still posted when the entry has been handled.
LEMMA MarksHandling ==
    ASSUME NEW S, NEW s \in Seq(S), s # <<>>, NEW h, MarksIn(s, h)
    PROVE  /\ MarksIn(Tail(s), h)
           /\ Head(s).type = "incoming" /\ ~RightMark(h, Head(s).line) =>
                 \E i \in DOMAIN Tail(s) : Tail(s)[i] = Updated(Head(s).line.conv)
<1> DEFINE t == Tail(s)
           n == Len(t)
<1>1. /\ Len(s) = n + 1 /\ n \in Nat /\ Head(s) = s[1] /\ 1 \in 1..(n + 1)
      /\ \A i \in 1..n : t[i] = s[i + 1] /\ i + 1 \in 1..(n + 1)
      /\ \A i \in 1..(n + 1) : i = 1 \/ (i - 1 \in 1..n /\ s[i] = t[i - 1])
      /\ DOMAIN t = 1..n
  BY Handling
<1> HIDE DEF t, n
<1>2. ASSUME NEW i \in 1..n, t[i].type = "incoming", ~RightMark(h, t[i].line)
      PROVE  \E j \in 1..n : i < j /\ t[j] = Updated(t[i].line.conv)
  <2>1. i + 1 \in 1..Len(s) /\ s[i + 1] = t[i]
    BY <1>1
  <2>2. s[i + 1].type = "incoming" /\ ~RightMark(h, s[i + 1].line)
    BY <2>1, <1>2
  <2>3. \E j \in 1..Len(s) : i + 1 < j /\ s[j] = Updated(s[i + 1].line.conv)
    BY <2>1, <2>2 DEF MarksIn
  <2>4. PICK j \in 1..(n + 1) : i + 1 < j /\ s[j] = Updated(t[i].line.conv)
    BY <2>1, <2>3, <1>1
  <2>5. j # 1 /\ i < j - 1
    BY <2>4, <1>1
  <2>6. QED
    BY <2>4, <2>5, <1>1
<1>3. ASSUME Head(s).type = "incoming", ~RightMark(h, Head(s).line)
      PROVE  \E i \in 1..n : t[i] = Updated(Head(s).line.conv)
  <2>1. PICK j \in 1..(n + 1) : 1 < j /\ s[j] = Updated(Head(s).line.conv)
    BY <1>1, <1>3 DEF MarksIn
  <2>2. j # 1
    BY <2>1
  <2>3. QED
    BY <2>1, <2>2, <1>1
<1>4. MarksIn(t, h)
  BY <1>2 DEF MarksIn, n
<1>5. QED
  BY <1>1, <1>3, <1>4 DEF t

\* A larger set has more sequences.
LEMMA MoreEvents ==
    ASSUME NEW S, NEW T, S \subseteq T, NEW s \in Seq(S)
    PROVE  s \in Seq(T)
  OBVIOUS

-----------------------------------------------------------------------------
(***************************************************************************)
(* The screen.                                                             *)
(***************************************************************************)

\* The number of an entry is at least one.
LEMMA Numbers ==
    ASSUME TypeOK, NEW c \in Conversations
    PROVE  /\ DOMAIN history[c] = 1..Len(history[c]) /\ Len(history[c]) \in Nat
           /\ history[c] \in Seq(Mark)
  BY DEF TypeOK

\* An open conversation has on the screen what its history has, in order.
LEMMA OpenShows ==
    ASSUME TypeOK, NEW c \in Conversations \cup {None}, Open(c), history' = history
    PROVE  /\ screen' \in Seq(KnownLine) /\ current' = c
           /\ \A i \in DOMAIN screen' : RightMark(history, screen'[i])
           /\ c # None => \A n \in DOMAIN history[c] : Lines(c, n)' # {}
           /\ Ordered'
<1>1. CASE c = None
  <2>1. screen' = <<>> /\ current' = None
    BY <1>1 DEF Open, HistoryOf
  <2>2. \A x, n : Lines(x, n)' = {}
    BY <2>1 DEF Lines
  <2>3. Ordered'
    BY <2>2 DEF Ordered
  <2>4. QED
    BY <2>1, <2>3, <1>1
<1>2. CASE c # None
  <2>1. c \in Conversations /\ current' = c
    BY <1>2 DEF Open
  <2> DEFINE m == Len(history[c])
  <2>2. /\ screen' = [n \in 1..m |-> Shown(c, n, history[c][n])] /\ m \in Nat
        /\ \A n \in 1..m : history[c][n] \in Mark
        /\ DOMAIN history[c] = 1..m
    BY <2>1, <1>2, Numbers DEF Open, HistoryOf
  <2>3. \A n \in 1..m : /\ screen'[n] = Shown(c, n, history[c][n])
                        /\ screen'[n] \in KnownLine
                        /\ screen'[n].conv = c /\ screen'[n].number = n
                        /\ screen'[n].mark = history[c][n]
    BY <2>1, <2>2 DEF Shown, KnownLine, Line
  <2>4. DOMAIN screen' = 1..m
    BY <2>2
  <2> HIDE DEF m
  <2>5. screen' \in Seq(KnownLine)
    BY <2>2, <2>3
  <2>6. \A n : Lines(c, n)' = {i \in 1..m : i = n}
    BY <2>3, <2>4 DEF Lines
  <2>7. Ordered'
    <3> SUFFICES ASSUME NEW n \in Nat, Lines(c, n)' # {}, NEW older \in 1..(n - 1)
                 PROVE  \E i \in Lines(c, older)' : \A j \in Lines(c, n)' : i < j
      BY <2>1 DEF Ordered
    <3>1. n \in 1..m /\ Lines(c, n)' = {n}
      BY <2>6
    <3>2. older \in 1..m /\ older < n
      BY <3>1, <2>2
    <3>3. older \in Lines(c, older)'
      BY <3>2, <2>6
    <3>4. QED
      BY <3>1, <3>2, <3>3
  <2>8. \A n \in DOMAIN history[c] : Lines(c, n)' # {}
    BY <2>2, <2>6
  <2>9. \A i \in DOMAIN screen' : RightMark(history, screen'[i])
    BY <2>3, <2>4 DEF RightMark
  <2>10. QED
    BY <2>1, <2>5, <2>7, <2>8, <2>9
<1>3. QED
  BY <1>1, <1>2

\* An entry written to the screen comes after those on it.
LEMMA WriteShows ==
    ASSUME TypeOK, NEW line \in Line, screen' = Append(screen, line), current' = current
    PROVE  /\ \A n : line.conv = current /\ line.number = n =>
                 Lines(current, n)' = Lines(current, n) \cup {Len(screen) + 1}
           /\ \A n : ~(line.conv = current /\ line.number = n) =>
                 Lines(current, n)' = Lines(current, n)
           /\ \A n : \A i \in Lines(current, n) : i \in Nat /\ i < Len(screen) + 1
<1>1. screen \in Seq(Line)
  BY DEF TypeOK
<1> DEFINE m == Len(screen)
<1>2. /\ m \in Nat /\ DOMAIN screen = 1..m /\ DOMAIN screen' = 1..(m + 1)
      /\ screen'[m + 1] = line /\ \A i \in 1..m : screen'[i] = screen[i]
      /\ \A i \in 1..(m + 1) : i \in 1..m \/ i = m + 1
      /\ \A i \in 1..m : i \in 1..(m + 1) /\ i < m + 1
  BY <1>1
<1> HIDE DEF m
<1>3. ASSUME NEW n, line.conv = current, line.number = n
      PROVE  Lines(current, n)' = Lines(current, n) \cup {m + 1}
  <2>1. m + 1 \in DOMAIN screen'
    BY <1>2
  <2>2. QED
    BY <2>1, <1>2, <1>3 DEF Lines
<1>4. ASSUME NEW n, ~(line.conv = current /\ line.number = n)
      PROVE  Lines(current, n)' = Lines(current, n)
  BY <1>2, <1>4 DEF Lines
<1>5. \A n : \A i \in Lines(current, n) : i \in Nat /\ i < m + 1
  BY <1>2 DEF Lines
<1>6. QED
  BY <1>3, <1>4, <1>5 DEF m

-----------------------------------------------------------------------------
(***************************************************************************)
(* The steps.                                                              *)
(***************************************************************************)

\* The forms of events.
LEMMA Forms ==
    ASSUME NEW e \in Event
    PROVE  /\ e.type \in {"incoming", "updated", "peer", "selected", "submitted"}
           /\ e.type = "incoming" => e.line \in Line /\ e = Posted(e.line)
           /\ e.type = "updated" => e.conv \in Conversations /\ e = Updated(e.conv)
           /\ e.type = "peer" => e = PeerEvent
           /\ e.type = "selected" => e.conv \in Conversations \cup {None}
           /\ e.type = "submitted" => e.for \in Conversations \cup {None}
  BY DEF Event, Posted, Updated, PeerEvent

\* Something other than an entry is posted.
LEMMA PostStep ==
    ASSUME TerminalInvariant, NEW e \in Event, e.type # "incoming",
           events' = Append(events, e),
           UNCHANGED <<history, current, screen>>,
           e.type = "selected" => chosen' = e.conv,
           e.type # "selected" => chosen' = chosen,
           e.type = "submitted" => e.for = chosen,
           TypeOK', OnlineAgrees'
    PROVE  TerminalInvariant'
<1> USE DEF TerminalInvariant
<1>1. events \in Seq(Event) /\ Entered(events, current, chosen)
  BY DEF TypeOK
<1>2. Entered(events', current', chosen')
  BY <1>1, EnteredPosting
<1>3. KnownLine' = KnownLine /\ KnownEvent' = KnownEvent
  BY DEF KnownLine, KnownEvent
<1>4. e \in KnownEvent
  BY DEF KnownEvent
<1>5. events' \in Seq(KnownEvent)' /\ screen' \in Seq(KnownLine)'
  BY <1>3, <1>4
<1>6. InOrder(events')
  BY <1>1, OrderPosting DEF IsPosted
<1>7. \A c, n : Lines(c, n)' = Lines(c, n)
  BY DEF Lines
<1>8. \A n : PostedIn(events, current, n) => PostedIn(events', current, n)
  BY <1>1, PostedPosting
<1>9. Covered(events)'
  BY <1>7, <1>8 DEF Covered
<1>10. Ordered'
  BY <1>7 DEF Ordered
<1>11. \A x : Pending(x) => Pending(x)'
  BY <1>1, PostedPosting DEF Pending
<1>12. MarksAgree'
  BY <1>11 DEF MarksAgree
<1>13. MarksIn(events', history')
  <2>1. MarksIn(events, history)
    OBVIOUS
  <2>4. Corrects(e, events, history, history)
    BY DEF Corrects
  <2>2. MarksIn(events', history)
    BY <1>1, <2>1, <2>4, MarksPosting
  <2>3. QED
    BY <2>2
<1>14. QED
  BY <1>2, <1>5, <1>6, <1>9, <1>10, <1>12, <1>13

\* An event is handled that leaves the screen as it is.
LEMMA HandleStep ==
    ASSUME TerminalInvariant, events # <<>>, events' = Tail(events),
           Head(events).type \notin {"incoming", "selected"},
           Head(events) # Updated(current),
           UNCHANGED <<history, current, screen, chosen>>,
           TypeOK', OnlineAgrees'
    PROVE  TerminalInvariant'
<1> USE DEF TerminalInvariant
<1>1. events \in Seq(Event) /\ events \in Seq(KnownEvent)
  BY DEF TypeOK
<1>2. Entered(events', current', chosen')
  BY <1>1, EnteredHandling
<1>3. KnownLine' = KnownLine /\ KnownEvent' = KnownEvent
  BY DEF KnownLine, KnownEvent
<1>4. events' \in Seq(KnownEvent)' /\ screen' \in Seq(KnownLine)'
  BY <1>1, <1>3, Handling
<1>5. InOrder(events')
  BY <1>1, OrderHandling
<1>6. \A c, n : Lines(c, n)' = Lines(c, n)
  BY DEF Lines
<1>7. \A n : PostedIn(events, current, n) => PostedIn(events', current, n)
  BY <1>1, PostedHandling DEF IsPosted
<1>8. Covered(events)'
  BY <1>6, <1>7 DEF Covered
<1>9. Ordered'
  BY <1>6 DEF Ordered
<1>10. \A x : Pending(x) => Pending(x)' \/ x = Head(events)
  BY <1>1, PostedHandling DEF Pending
<1>11. MarksAgree'
  BY <1>10 DEF MarksAgree
<1>12. MarksIn(events', history')
  BY <1>1, MarksHandling
<1>13. QED
  BY <1>2, <1>4, <1>5, <1>8, <1>9, <1>11, <1>12

\* A conversation is opened when an event is handled.
LEMMA OpenStep ==
    ASSUME TerminalInvariant, events # <<>>, events' = Tail(events),
           NEW c \in Conversations \cup {None}, Open(c),
           Head(events).type # "incoming",
           Head(events).type = "selected" => c = Head(events).conv,
           Head(events).type # "selected" => c = current,
           UNCHANGED <<history, chosen>>,
           OnlineAgrees', listed' \subseteq Contacts,
           UNCHANGED <<online, choices, changes>>
    PROVE  TerminalInvariant'
<1> USE DEF TerminalInvariant
<1>1. events \in Seq(Event) /\ events \in Seq(KnownEvent)
  BY DEF TypeOK
<1>2. /\ screen' \in Seq(KnownLine) /\ current' = c
      /\ \A i \in DOMAIN screen' : RightMark(history, screen'[i])
      /\ c # None => \A n \in DOMAIN history[c] : Lines(c, n)' # {}
      /\ Ordered'
  BY OpenShows
<1>3. Entered(events', current', chosen')
  BY <1>1, <1>2, EnteredHandling
<1>4. KnownLine' = KnownLine /\ KnownEvent' = KnownEvent
  BY DEF KnownLine, KnownEvent
<1>5. events' \in Seq(KnownEvent)' /\ screen' \in Seq(KnownLine)'
  BY <1>1, <1>2, <1>4, Handling
<1>6. InOrder(events')
  BY <1>1, OrderHandling
<1>7. Covered(events)'
  <2> SUFFICES ASSUME current' # None, NEW n \in DOMAIN history'[current'],
                      Lines(current, n)' = {}
               PROVE  FALSE
    BY DEF Covered
  <2>1. Lines(c, n)' = {}
    BY <1>2 DEF Lines
  <2>2. QED
    BY <2>1, <1>2
<1>8. MarksAgree'
  BY <1>2 DEF MarksAgree, RightMark
<1>9. MarksIn(events', history')
  BY <1>1, MarksHandling
<1>10. TypeOK'
  <2>1. KnownLine \subseteq Line /\ KnownEvent \subseteq Event
    BY DEF KnownLine, KnownEvent
  <2>2. screen' \in Seq(Line)
    BY <1>2, <2>1, MoreEvents
  <2>3. events' \in Seq(Event)
    BY <1>1, Handling
  <2>4. QED
    BY <2>2, <2>3, <1>2 DEF TypeOK
<1>11. QED
  BY <1>2, <1>3, <1>5, <1>6, <1>7, <1>8, <1>9, <1>10

\* Peers come and go, and the user opens conversations and enters texts.
LEMMA ChooseStep ==
    ASSUME TerminalInvariant, NEW c \in Conversations \cup {None}, Choose(c)
    PROVE  TerminalInvariant'
<1> USE DEF TerminalInvariant, Choose
<1> DEFINE e == Selected(c)
<1>1. e \in Event /\ e.type = "selected" /\ e.conv = c
  BY DEF Selected, Event
<1>2. TypeOK'
  BY <1>1 DEF TypeOK
<1>3. OnlineAgrees'
  <2>1. events \in Seq(Event) /\ events' = Append(events, e)
    BY DEF TypeOK
  <2>2. \A x : Pending(x) => Pending(x)'
    BY <1>1, <2>1, PostedPosting DEF Pending
  <2>3. QED
    BY <2>2 DEF OnlineAgrees
<1>4. QED
  BY <1>1, <1>2, <1>3, PostStep

\* A text is entered: it is posted for the conversation chosen last.
LEMMA EnterStep ==
    ASSUME TerminalInvariant, Enter
    PROVE  TerminalInvariant'
<1> USE DEF TerminalInvariant, Enter
<1> DEFINE e == Submitted(chosen)
<1>1. e \in Event /\ e.type = "submitted" /\ e.for = chosen
  BY DEF Submitted, Event, TypeOK
<1>2. TypeOK'
  BY <1>1 DEF TypeOK
<1>3. OnlineAgrees'
  <2>1. events \in Seq(Event) /\ events' = Append(events, e)
    BY DEF TypeOK
  <2>2. \A x : Pending(x) => Pending(x)'
    BY <1>1, <2>1, PostedPosting DEF Pending
  <2>3. QED
    BY <2>2 DEF OnlineAgrees
<1>4. QED
  BY <1>1, <1>2, <1>3, PostStep

\* A peer that comes or goes is posted, so the list of contacts will follow.
LEMMA PeerStep ==
    ASSUME TerminalInvariant, NEW p \in Contacts, PeerComesOrGoes(p)
    PROVE  TerminalInvariant'
<1> USE DEF TerminalInvariant, PeerComesOrGoes
<1> DEFINE e == PeerEvent
<1>1. e \in Event /\ e.type = "peer"
  BY DEF PeerEvent, Event
<1>2. TypeOK'
  BY <1>1 DEF TypeOK
<1>3. OnlineAgrees'
  <2>1. events \in Seq(Event) /\ events' = Append(events, e)
    BY DEF TypeOK
  <2>2. Pending(e)'
    BY <1>1, <2>1, PostedPosting DEF Pending
  <2>3. QED
    BY <2>2 DEF OnlineAgrees, PeerEvent
<1>4. QED
  BY <1>1, <1>2, <1>3, PostStep

\* An entry is added to the history of c and posted: by a peer, or by the
\* user.  The queue s is the one it is posted to.
LEMMA NewEntry ==
    ASSUME TypeOK, NEW s \in Seq(Event), s \in Seq(KnownEvent),
           InOrder(s), MarksIn(s, history),
           NEW c \in Conversations, NEW mark \in Mark,
           history' = [history EXCEPT ![c] = Append(@, mark)],
           NEW e, e = Posted(Shown(c, Len(history'[c]), mark))
    PROVE  Added(s, c, e)
<1> DEFINE n == Len(history[c])
<1>1. n \in Nat /\ DOMAIN history[c] = 1..n /\ history[c] \in Seq(Mark)
  BY Numbers
<1>2. /\ history'[c] = Append(history[c], mark)
      /\ history' \in [Conversations -> Seq(Mark)]
      /\ \A d \in Conversations : d # c => history'[d] = history[d]
  BY <1>1 DEF TypeOK
<1>3. /\ Len(history'[c]) = n + 1 /\ history'[c][n + 1] = mark
      /\ \A m \in 1..n : history'[c][m] = history[c][m]
      /\ DOMAIN history'[c] = 1..(n + 1)
  BY <1>1, <1>2
<1> HIDE DEF n
<1>4. 1..(n + 1) = 1..n \cup {n + 1}
  BY <1>1
<1>5. /\ e.type = "incoming" /\ e.line.conv = c /\ e.line.number = n + 1
      /\ e.line.mark = mark /\ e.line \in Line /\ e \in Event
  BY <1>1, <1>3 DEF Posted, Shown, Line, Event
<1>6. KnownLine \subseteq KnownLine'
  BY <1>1, <1>2, <1>3, <1>4 DEF KnownLine, Line
<1>7. KnownEvent \subseteq KnownEvent'
  BY <1>6 DEF KnownEvent
<1>8. e \in KnownEvent'
  BY <1>3, <1>4, <1>5 DEF KnownEvent, KnownLine
<1>9. \A line \in KnownLine : RightMark(history', line) <=> RightMark(history, line)
  BY <1>1, <1>2, <1>3 DEF KnownLine, Line, RightMark
<1>10. \A i \in 1..Len(s) : s[i] \in KnownEvent
  OBVIOUS
<1>11. InOrder(Append(s, e))
  <2>1. ASSUME NEW d \in Conversations, IsPosted(e, d), NEW i \in 1..Len(s), IsPosted(s[i], d)
        PROVE  s[i].line.number < e.line.number
    <3>1. s[i].line \in KnownLine /\ s[i].line.conv = c
      BY <1>5, <1>10, <2>1 DEF KnownEvent, IsPosted
    <3>2. s[i].line.number \in 1..n
      BY <3>1, <1>1 DEF KnownLine
    <3>3. QED
      BY <3>2, <1>1, <1>5
  <2>2. QED
    BY <2>1, <1>5, OrderPosting
<1>12. MarksIn(Append(s, e), history')
  <2> PICK h2 : h2 = history'
    OBVIOUS
  <2>1. \A i \in 1..Len(s) : s[i].type = "incoming" =>
            \/ RightMark(h2, s[i].line) <=> RightMark(history, s[i].line)
            \/ e = Updated(s[i].line.conv)
    BY <1>9, <1>10 DEF KnownEvent
  <2>0. Corrects(e, s, history, h2)
    BY <2>1 DEF Corrects
  <2>2. e.type = "incoming" => RightMark(h2, e.line)
    BY <1>3, <1>5 DEF RightMark
  <2>3. e \in Event /\ s \in Seq(Event) /\ MarksIn(s, history)
    BY <1>5
  <2>4. MarksIn(Append(s, e), h2)
    BY <2>0, <2>2, <2>3, MarksPosting
  <2>5. QED
    BY <2>4
<1>13. QED
  BY <1>1, <1>2, <1>3, <1>4, <1>5, <1>6, <1>7, <1>8, <1>9, <1>11, <1>12 DEF n, Added

\* What is on the screen when an entry is added and posted.
LEMMA NewEntryShown ==
    ASSUME TypeOK, screen \in Seq(KnownLine), Ordered, MarksAgree,
           NEW c \in Conversations, NEW e,
           e.type = "incoming", e.line.conv = c, e.line.number = Len(history[c]) + 1,
           DOMAIN history'[c] = DOMAIN history[c] \cup {Len(history[c]) + 1},
           \A d \in Conversations : d # c => history'[d] = history[d],
           \A line \in KnownLine : RightMark(history', line) <=> RightMark(history, line),
           UNCHANGED <<screen, current>>,
           \A x : Pending(Updated(x)) => Pending(Updated(x))',
           PostedIn(events', c, Len(history[c]) + 1),
           \A n : PostedIn(events, current, n) => PostedIn(events', current, n),
           Covered(events)
    PROVE  Covered(events)' /\ Ordered' /\ MarksAgree'
<1>1. \A x, n : Lines(x, n)' = Lines(x, n)
  BY DEF Lines
<1>2. Ordered'
  BY <1>1 DEF Ordered
<1>3. Covered(events)'
  <2> SUFFICES ASSUME current # None, NEW n \in DOMAIN history'[current], Lines(current, n) = {}
               PROVE  PostedIn(events', current, n)
    BY <1>1 DEF Covered
  <2>1. current \in Conversations
    BY DEF TypeOK
  <2>2. CASE n \in DOMAIN history[current]
    BY <2>2 DEF Covered
  <2>3. CASE n \notin DOMAIN history[current]
    BY <2>1, <2>3
  <2>4. QED
    BY <2>2, <2>3
<1>4. MarksAgree'
  <2>1. \A i \in DOMAIN screen : screen[i] \in KnownLine
    OBVIOUS
  <2>2. QED
    BY <2>1 DEF MarksAgree, RightMark
<1>5. QED
  BY <1>2, <1>3, <1>4

\* An entry is added and posted to s, what is left of the events.
LEMMA EntryStep ==
    ASSUME TypeOK, NEW s \in Seq(Event), s \in Seq(KnownEvent), screen \in Seq(KnownLine),
           Entered(s, current, chosen), Covered(events), Ordered, MarksAgree,
           NEW c \in Conversations, NEW e,
           Added(s, c, e),
           events' = Append(s, e),
           UNCHANGED <<current, screen, chosen>>, UNCHANGED <<online, listed, choices, changes>>,
           \A n : PostedIn(events, current, n) => PostedIn(s, current, n),
           \A x : Pending(Updated(x)) => \E i \in DOMAIN s : s[i] = Updated(x),
           Pending(PeerEvent) => \E i \in DOMAIN s : s[i] = PeerEvent,
           OnlineAgrees
    PROVE  TerminalInvariant'
<1>0. e \in Event /\ e.type = "incoming"
  BY DEF Added
<1>1. events' \in Seq(Event)
  BY <1>0, Posting
<1>2. TypeOK'
  BY <1>1 DEF TypeOK, Added
<1>3. events' \in Seq(KnownEvent)' /\ screen' \in Seq(KnownLine)'
  <2>1. s \in Seq(KnownEvent') /\ screen \in Seq(KnownLine')
    BY MoreEvents DEF Added
  <2>2. Append(s, e) \in Seq(KnownEvent')
    BY <2>1, Posting DEF Added
  <2>3. QED
    BY <2>1, <2>2
<1>4. Entered(events', current', chosen')
  <2>1. Entered(Append(s, e), current, chosen)
    BY <1>0, EnteredPosting
  <2>2. QED
    BY <2>1
<1>5. /\ \A d, n : PostedIn(s, d, n) => PostedIn(events', d, n)
      /\ \A d, n : IsPosted(e, d) /\ e.line.number = n => PostedIn(events', d, n)
      /\ \A x : (\E i \in DOMAIN s : s[i] = x) \/ x = e => Pending(x)'
  <2>1. /\ \A d, n : PostedIn(s, d, n) => PostedIn(Append(s, e), d, n)
        /\ \A d, n : IsPosted(e, d) /\ e.line.number = n => PostedIn(Append(s, e), d, n)
        /\ \A x : (\E i \in DOMAIN s : s[i] = x) \/ x = e
                     => \E i \in DOMAIN Append(s, e) : Append(s, e)[i] = x
    BY <1>0, PostedPosting
  <2>2. QED
    BY <2>1 DEF Pending
<1>6. PostedIn(events', c, Len(history[c]) + 1)
  BY <1>5 DEF IsPosted, Added
<1>7. \A n : PostedIn(events, current, n) => PostedIn(events', current, n)
  BY <1>5
<1>8. \A x : Pending(Updated(x)) => Pending(Updated(x))'
  <2>1. \A x : Updated(x)' = Updated(x)
    BY DEF Updated
  <2>2. QED
    BY <1>5 DEF Updated
<1>9. Covered(events)' /\ Ordered' /\ MarksAgree'
  BY <1>6, <1>7, <1>8, NewEntryShown DEF Added
<1>10. OnlineAgrees'
  BY <1>5 DEF OnlineAgrees, PeerEvent
<1>11. InOrder(events') /\ MarksIn(events', history')
  BY DEF Added
<1>12. QED
  BY <1>2, <1>3, <1>4, <1>9, <1>10, <1>11 DEF TerminalInvariant

\* A text arrives.
LEMMA ReceiveStep ==
    ASSUME TerminalInvariant, NEW c \in Conversations, Receive(c)
    PROVE  TerminalInvariant'
<1> PICK e : e = Posted(Shown(c, Len(history'[c]), "theirs"))
  OBVIOUS
<1>1. /\ TypeOK /\ events \in Seq(Event) /\ events \in Seq(KnownEvent)
      /\ screen \in Seq(KnownLine) /\ InOrder(events) /\ MarksIn(events, history)
      /\ Entered(events, current, chosen) /\ Covered(events) /\ Ordered /\ MarksAgree
      /\ OnlineAgrees
  BY DEF TerminalInvariant, TypeOK
<1>2. /\ history' = [history EXCEPT ![c] = Append(@, "theirs")]
      /\ events' = Append(events, e) /\ UNCHANGED <<current, screen, chosen>>
      /\ UNCHANGED <<online, listed, choices, changes>>
  BY DEF Receive
<1>3. "theirs" \in Mark
  BY DEF Mark
<1>4. Added(events, c, e)
  BY <1>1, <1>2, <1>3, NewEntry
<1>5. /\ \A n : PostedIn(events, current, n) => PostedIn(events, current, n)
      /\ \A x : Pending(Updated(x)) => \E i \in DOMAIN events : events[i] = Updated(x)
      /\ Pending(PeerEvent) => \E i \in DOMAIN events : events[i] = PeerEvent
  BY DEF Pending
<1>6. QED
  BY <1>1, <1>2, <1>4, <1>5, EntryStep

\* A text that was entered is sent or queued, or refused.
LEMMA SubmittedStep ==
    ASSUME TerminalInvariant, HandleSubmitted
    PROVE  TerminalInvariant'
<1> PICK s : s = Tail(events)
  OBVIOUS
<1> PICK first : first = Head(events)
  OBVIOUS
<1>0. /\ TypeOK /\ events \in Seq(Event) /\ events \in Seq(KnownEvent)
      /\ screen \in Seq(KnownLine) /\ InOrder(events) /\ MarksIn(events, history)
      /\ Entered(events, current, chosen) /\ Covered(events) /\ Ordered /\ MarksAgree
      /\ OnlineAgrees
  BY DEF TerminalInvariant, TypeOK
<1>1. /\ events # <<>> /\ first.type = "submitted"
      /\ UNCHANGED <<current, screen, chosen>> /\ UNCHANGED <<online, listed, choices, changes>>
  BY DEF HandleSubmitted, Handles
<1>2. s \in Seq(Event) /\ s \in Seq(KnownEvent)
  BY <1>0, <1>1, Handling
<1>3. first # Updated(current) /\ first # PeerEvent /\ \A x : first # Updated(x)
  BY <1>1 DEF Updated, PeerEvent
<1>4. \A x : Pending(x) => (\E i \in DOMAIN s : s[i] = x) \/ first = x
  BY <1>0, <1>1, PostedHandling DEF Pending
<1>5. CASE events' = s /\ UNCHANGED history
  <2>1. TypeOK'
    BY <1>0, <1>1, <1>2, <1>5 DEF TypeOK
  <2>2. OnlineAgrees'
    BY <1>0, <1>1, <1>3, <1>4, <1>5 DEF OnlineAgrees, Pending, PeerEvent
  <2>3. QED
    BY <2>1, <2>2, <1>1, <1>3, <1>5, HandleStep
<1>6. ASSUME current # None, NEW mark \in MarksOfNew,
             history' = [history EXCEPT ![current] = Append(@, mark)],
             events' = Append(s, Posted(Shown(current, Len(history'[current]), mark)))
      PROVE  TerminalInvariant'
  <2> PICK c : c = current
    OBVIOUS
  <2> PICK e : e = Posted(Shown(c, Len(history'[c]), mark))
    OBVIOUS
  <2>1. c \in Conversations /\ mark \in Mark /\ events' = Append(s, e)
        /\ history' = [history EXCEPT ![c] = Append(@, mark)]
    BY <1>0, <1>6 DEF TypeOK, MarksOfNew, Mark
  <2>2. InOrder(s) /\ MarksIn(s, history) /\ Entered(s, current, chosen)
    <3>1. InOrder(s)
      BY <1>0, <1>1, OrderHandling
    <3>2. MarksIn(s, history)
      BY <1>0, <1>1, MarksHandling
    <3>3. Entered(s, current, chosen)
      BY <1>0, <1>1, EnteredHandling
    <3>4. QED
      BY <3>1, <3>2, <3>3
  <2>3. Added(s, c, e)
    BY <2>1, <2>2, <1>0, <1>2, NewEntry
  <2>4. \A n : PostedIn(events, current, n) => PostedIn(s, current, n)
    BY <1>0, <1>1, PostedHandling DEF IsPosted
  <2>5. \A x : Pending(Updated(x)) => \E i \in DOMAIN s : s[i] = Updated(x)
    BY <1>3, <1>4
  <2>6. Pending(PeerEvent) => \E i \in DOMAIN s : s[i] = PeerEvent
    BY <1>3, <1>4
  <2>7. QED
    BY <2>1, <2>2, <2>3, <2>4, <2>5, <2>6, <1>0, <1>1, <1>2, EntryStep
<1>7. QED
  BY <1>5, <1>6 DEF HandleSubmitted

\* Queued texts of c left: their marks change, and an update is posted.
LEMMA MarkSentStep ==
    ASSUME TerminalInvariant, NEW c \in Conversations, MarkSent(c)
    PROVE  TerminalInvariant'
<1> PICK e : e = Updated(c)
  OBVIOUS
<1>1. /\ events' = Append(events, e)
      /\ UNCHANGED <<online, current, screen, listed, chosen, choices, changes>>
  BY DEF MarkSent, ToldOf
<1>0. /\ TypeOK /\ events \in Seq(Event) /\ events \in Seq(KnownEvent)
      /\ screen \in Seq(KnownLine) /\ screen \in Seq(Line)
      /\ InOrder(events) /\ MarksIn(events, history)
      /\ Entered(events, current, chosen) /\ Covered(events) /\ Ordered /\ MarksAgree
      /\ OnlineAgrees
  BY DEF TerminalInvariant, TypeOK
<1>2. PICK gone \in SUBSET {n \in DOMAIN history[c] : history[c][n] = "queued"} :
          history' = [history EXCEPT ![c] = [n \in DOMAIN @ |->
                IF n \in gone THEN "sent" ELSE @[n]]]
  BY DEF MarkSent
<1>3. e \in Event /\ e.type = "updated" /\ events \in Seq(Event) /\ events \in Seq(KnownEvent)
  BY <1>0 DEF Event, Updated
<1>4. DOMAIN history[c] = 1..Len(history[c]) /\ Len(history[c]) \in Nat
      /\ history[c] \in Seq(Mark)
  BY <1>0, Numbers
<1>5. /\ history'[c] = [n \in 1..Len(history[c]) |-> IF n \in gone THEN "sent" ELSE history[c][n]]
      /\ \A d \in Conversations : d # c => history'[d] = history[d]
  BY <1>0, <1>2, <1>4 DEF TypeOK
<1>6. history'[c] \in Seq(Mark) /\ DOMAIN history'[c] = DOMAIN history[c]
  BY <1>4, <1>5 DEF Mark
<1>7. history' \in [Conversations -> Seq(Mark)]
  <2>1. \A d \in Conversations : history'[d] \in Seq(Mark)
    BY <1>0, <1>5, <1>6 DEF TypeOK
  <2>2. history' = [d \in Conversations |-> history'[d]]
    BY <1>0, <1>2 DEF TypeOK
  <2>3. QED
    BY <2>1, <2>2
<1>8. \A d \in Conversations : DOMAIN history'[d] = DOMAIN history[d]
  BY <1>5, <1>6
<1>9. TypeOK'
  BY <1>0, <1>1, <1>3, <1>7 DEF TypeOK
<1>10. KnownLine' = KnownLine /\ KnownEvent' = KnownEvent
  <2>1. \A line \in Line : line.conv \in Conversations
    BY DEF Line
  <2>2. KnownLine' = KnownLine
    BY <2>1, <1>8 DEF KnownLine
  <2>3. QED
    BY <2>2 DEF KnownEvent
<1>11. e \in KnownEvent
  BY <1>3 DEF KnownEvent
<1>12. events' \in Seq(KnownEvent)' /\ screen' \in Seq(KnownLine)'
  BY <1>0, <1>1, <1>3, <1>10, <1>11
<1>13. Entered(events', current', chosen')
  BY <1>0, <1>1, <1>3, EnteredPosting
<1>14. InOrder(events')
  BY <1>0, <1>1, <1>3, OrderPosting DEF IsPosted
<1>15. /\ Pending(e)' /\ \A x : Pending(x) => Pending(x)'
       /\ \A n : PostedIn(events, current, n) => PostedIn(events', current, n)
  BY <1>0, <1>1, <1>3, PostedPosting DEF Pending
<1>16. \A x, n : Lines(x, n)' = Lines(x, n)
  BY <1>1 DEF Lines
<1>17. Covered(events)'
  BY <1>0, <1>1, <1>8, <1>15, <1>16 DEF Covered, TypeOK
<1>18. Ordered'
  BY <1>0, <1>1, <1>16 DEF Ordered
<1>19. MarksAgree'
  <2> SUFFICES ASSUME NEW i \in DOMAIN screen, screen[i].conv = current,
                      screen[i].mark # history'[screen[i].conv][screen[i].number]
               PROVE  Pending(Updated(current))'
    BY <1>1 DEF MarksAgree
  <2>0. screen[i] \in Line
    BY <1>0
  <2>1. screen[i].conv \in Conversations /\ Updated(current)' = Updated(current)
    BY <2>0, <1>1 DEF Line, Updated
  <2>2. CASE current = c
    BY <2>1, <2>2, <1>15 DEF Pending, Updated
  <2>3. CASE current # c
    <3>1. history'[screen[i].conv] = history[screen[i].conv]
      BY <2>1, <2>3, <1>5
    <3>2. Pending(Updated(current))
      BY <3>1, <1>0 DEF MarksAgree
    <3>3. QED
      BY <3>2, <2>1, <1>15
  <2>4. QED
    BY <2>2, <2>3
<1>20. MarksIn(events', history')
  <2> PICK h2 : h2 = history'
    OBVIOUS
  <2>1. \A i \in 1..Len(events) : events[i].type = "incoming" =>
               \/ RightMark(h2, events[i].line) <=> RightMark(history, events[i].line)
               \/ e = Updated(events[i].line.conv)
    <3> SUFFICES ASSUME NEW i \in 1..Len(events), events[i].type = "incoming",
                        ~(e = Updated(events[i].line.conv))
                 PROVE  RightMark(h2, events[i].line) <=> RightMark(history, events[i].line)
      OBVIOUS
    <3>0. events[i].line.conv # c
      OBVIOUS
    <3>1. events[i] \in Event
      BY <1>3
    <3>2. events[i].line.conv \in Conversations
      BY <3>1, Forms DEF Line
    <3>3. QED
      BY <3>0, <3>2, <1>5 DEF RightMark
  <2>2. e.type = "incoming" => RightMark(h2, e.line)
    BY <1>3
  <2>5. Corrects(e, events, history, h2)
    BY <2>1 DEF Corrects
  <2>3. MarksIn(Append(events, e), h2)
    BY <2>5, <2>2, <1>0, <1>3, MarksPosting
  <2>4. QED
    BY <2>3, <1>1
<1>21. OnlineAgrees'
  BY <1>0, <1>1, <1>15 DEF OnlineAgrees
<1>22. QED
  BY <1>9, <1>0, <1>12, <1>13, <1>14, <1>17, <1>18, <1>19, <1>20, <1>21 DEF TerminalInvariant

\* An entry that is handled is written after those on the screen.  If it was
\* not there, older ones are: they are not posted any more.
LEMMA HandleIncomingStep ==
    ASSUME TerminalInvariant, HandleIncoming
    PROVE  TerminalInvariant'
<1> PICK e : e = Head(events)
  OBVIOUS
<1>0. /\ TypeOK /\ events \in Seq(Event) /\ events \in Seq(KnownEvent)
      /\ screen \in Seq(KnownLine) /\ screen \in Seq(Line)
      /\ InOrder(events) /\ MarksIn(events, history)
      /\ Entered(events, current, chosen) /\ Covered(events) /\ Ordered /\ MarksAgree
      /\ OnlineAgrees
  BY DEF TerminalInvariant, TypeOK
<1>1. /\ events # <<>> /\ e.type = "incoming" /\ screen' = Append(screen, e.line)
      /\ listed' \in {listed, online} /\ events' = Tail(events)
      /\ UNCHANGED <<history, online, current, chosen, choices, changes>>
  BY DEF HandleIncoming, Handles, ListedNow
<1>2. e \in Event /\ e \in KnownEvent /\ events' \in Seq(Event) /\ events' \in Seq(KnownEvent)
  BY <1>0, <1>1, Handling
<1>3. e.line \in Line /\ e.line \in KnownLine
  BY <1>1, <1>2, Forms DEF KnownEvent
<1>4. TypeOK'
  BY <1>0, <1>1, <1>2, <1>3 DEF TypeOK
<1>5. KnownLine' = KnownLine /\ KnownEvent' = KnownEvent
  BY <1>1 DEF KnownLine, KnownEvent
<1>6. events' \in Seq(KnownEvent)' /\ screen' \in Seq(KnownLine)'
  BY <1>0, <1>1, <1>2, <1>3, <1>5
<1>7. Entered(events', current', chosen')
  <2>1. Entered(Tail(events), current, chosen)
    BY <1>0, <1>1, EnteredHandling
  <2>2. QED
    BY <2>1, <1>1
<1>8. /\ InOrder(events')
      /\ \A c \in Conversations : IsPosted(e, c) =>
            \A i \in 1..Len(events') : IsPosted(events'[i], c)
               => e.line.number < events'[i].line.number
  BY <1>0, <1>1, OrderHandling
<1>9. /\ MarksIn(events', history')
      /\ ~RightMark(history, e.line) =>
            \E i \in DOMAIN events' : events'[i] = Updated(e.line.conv)
  BY <1>0, <1>1, MarksHandling
<1>10. \A c, n : PostedIn(events, c, n) =>
          PostedIn(events', c, n) \/ (IsPosted(e, c) /\ e.line.number = n)
  BY <1>0, <1>1, PostedHandling
<1>11. \A x : Pending(x) => Pending(x)' \/ e = x
  BY <1>0, <1>1, PostedHandling DEF Pending
<1>12. /\ \A n : e.line.conv = current /\ e.line.number = n =>
             Lines(current, n)' = Lines(current, n) \cup {Len(screen) + 1}
       /\ \A n : ~(e.line.conv = current /\ e.line.number = n) =>
             Lines(current, n)' = Lines(current, n)
       /\ \A n : \A i \in Lines(current, n) : i \in Nat /\ i < Len(screen) + 1
  BY <1>0, <1>1, <1>3, WriteShows
<1>13. Covered(events)'
  <2> SUFFICES ASSUME current # None, NEW n \in DOMAIN history[current], Lines(current, n)' = {}
               PROVE  PostedIn(events', current, n)
    BY <1>1 DEF Covered, Lines
  <2>1. ~(e.line.conv = current /\ e.line.number = n)
    BY <1>12
  <2>2. Lines(current, n) = {}
    BY <2>1, <1>12
  <2>3. PostedIn(events, current, n)
    BY <2>2, <1>0 DEF Covered
  <2>4. QED
    BY <2>1, <2>3, <1>10 DEF IsPosted
<1>14. Ordered'
  <2> SUFFICES ASSUME NEW n \in Nat, Lines(current, n)' # {}, NEW older \in 1..(n - 1)
               PROVE  \E i \in Lines(current, older)' : \A j \in Lines(current, n)' : i < j
    BY <1>1 DEF Ordered, Lines
  <2>1. CASE ~(e.line.conv = current /\ e.line.number = n)
    <3>1. Lines(current, n)' = Lines(current, n)
      BY <2>1, <1>12
    <3>2. PICK i \in Lines(current, older) : \A j \in Lines(current, n) : i < j
      BY <3>1, <1>0 DEF Ordered
    <3>3. i \in Lines(current, older)'
      BY <1>12
    <3>4. QED
      BY <3>1, <3>2, <3>3
  <2>2. CASE e.line.conv = current /\ e.line.number = n
    <3>1. current \in Conversations /\ n \in DOMAIN history[current] /\ current # None
      BY <2>2, <1>3, TerminalAssumption DEF KnownLine, Line
    <3>2. /\ Lines(current, n)' = Lines(current, n) \cup {Len(screen) + 1}
          /\ Lines(current, older)' = Lines(current, older)
      BY <2>2, <1>12
    <3>3. Lines(current, older) # {}
      <4>1. DOMAIN history[current] = 1..Len(history[current]) /\ Len(history[current]) \in Nat
        BY <3>1, <1>0, Numbers
      <4>2. older \in DOMAIN history[current]
        BY <3>1, <4>1
      <4>3. SUFFICES ASSUME Lines(current, older) = {} PROVE FALSE
        OBVIOUS
      <4>4. PostedIn(events', current, older)
        <5>1. PostedIn(events, current, older)
          BY <4>2, <4>3, <3>1, <1>0 DEF Covered
        <5>2. QED
          BY <5>1, <2>2, <1>10
      <4>5. IsPosted(e, current)
        BY <2>2, <1>1 DEF IsPosted
      <4>6. PICK k \in 1..Len(events') :
               IsPosted(events'[k], current) /\ events'[k].line.number = older
        BY <4>4 DEF PostedIn
      <4>7. n < older
        BY <4>5, <4>6, <3>1, <2>2, <1>8
      <4>8. QED
        BY <4>7
    <3>4. CASE Lines(current, n) = {}
      <4>1. PICK i \in Lines(current, older) : TRUE
        BY <3>3
      <4>2. QED
        BY <4>1, <3>2, <3>4, <1>12
    <3>5. CASE Lines(current, n) # {}
      <4>1. PICK i \in Lines(current, older) : \A j \in Lines(current, n) : i < j
        BY <3>5, <1>0 DEF Ordered
      <4>2. QED
        BY <4>1, <3>2, <1>12
    <3>6. QED
      BY <3>4, <3>5
  <2>3. QED
    BY <2>1, <2>2
<1>15. MarksAgree'
  <2> SUFFICES ASSUME NEW i \in DOMAIN screen', screen'[i].conv = current,
                      screen'[i].mark # history[screen'[i].conv][screen'[i].number]
               PROVE  \E k \in DOMAIN events' : events'[k] = Updated(current)
    BY <1>1 DEF MarksAgree, Pending, Updated
  <2>1. /\ DOMAIN screen' = 1..(Len(screen) + 1) /\ DOMAIN screen = 1..Len(screen)
        /\ screen'[Len(screen) + 1] = e.line /\ Len(screen) \in Nat
        /\ \A k \in 1..Len(screen) : screen'[k] = screen[k]
        /\ \A k \in 1..(Len(screen) + 1) : k \in 1..Len(screen) \/ k = Len(screen) + 1
    BY <1>0, <1>1, <1>3, Posting
  <2>2. CASE i = Len(screen) + 1
    BY <2>1, <2>2, <1>9 DEF RightMark
  <2>3. CASE i # Len(screen) + 1
    <3>1. i \in DOMAIN screen /\ screen'[i] = screen[i]
      BY <2>1, <2>3
    <3>2. Pending(Updated(current))
      BY <3>1, <1>0 DEF MarksAgree
    <3>3. Updated(current) # e
      BY <1>1 DEF Updated
    <3>4. QED
      BY <3>2, <3>3, <1>11 DEF Pending
  <2>4. QED
    BY <2>2, <2>3
<1>16. OnlineAgrees'
  <2>1. PeerEvent # e
    BY <1>1 DEF PeerEvent
  <2>2. QED
    BY <2>1, <1>0, <1>1, <1>11 DEF OnlineAgrees, PeerEvent
<1>17. QED
  BY <1>4, <1>6, <1>7, <1>8, <1>9, <1>13, <1>14, <1>15, <1>16 DEF TerminalInvariant

\* The other events: an update opens the conversation on the screen again, a
\* selection opens another one, and a peer event refreshes the list.
LEMMA OtherEventStep ==
    ASSUME TerminalInvariant, HandleUpdated \/ HandleSelected \/ HandlePeer
    PROVE  TerminalInvariant'
<1> PICK e : e = Head(events)
  OBVIOUS
<1>0. TypeOK /\ events \in Seq(Event) /\ OnlineAgrees
  BY DEF TerminalInvariant, TypeOK
<1>1. /\ events # <<>> /\ e.type \in {"updated", "selected", "peer"}
      /\ listed' \in {listed, online} /\ events' = Tail(events)
      /\ UNCHANGED <<history, online, chosen, choices, changes>>
  BY DEF HandleUpdated, HandleSelected, HandlePeer, Handles, ListedNow
<1>2. e \in Event /\ events' \in Seq(Event)
  BY <1>0, <1>1, Handling
<1>3. \A x : Pending(x) => Pending(x)' \/ e = x
  BY <1>0, <1>1, PostedHandling DEF Pending
<1>4. OnlineAgrees'
  <2>1. CASE e.type = "peer"
    BY <2>1 DEF OnlineAgrees, HandlePeer, HandleUpdated, HandleSelected, Handles, ListedNow
  <2>2. CASE e.type # "peer"
    <3>1. PeerEvent # e
      BY <2>2 DEF PeerEvent
    <3>2. QED
      BY <3>1, <1>0, <1>1, <1>3 DEF OnlineAgrees, PeerEvent
  <2>3. QED
    BY <2>1, <2>2
<1>5. listed' \subseteq Contacts
  BY <1>0, <1>1 DEF TypeOK
<1>6. CASE HandleUpdated
  <2>1. e.type = "updated" /\ Refresh(e.conv)
    BY <1>6 DEF HandleUpdated, Handles
  <2>2. e.conv \in Conversations /\ e = Updated(e.conv)
    BY <2>1, <1>2, Forms
  <2>3. CASE e.conv = current
    <3>1. Open(current) /\ current \in Conversations \cup {None}
      BY <2>1, <2>3, <1>0 DEF Refresh, TypeOK
    <3>2. QED
      BY <3>1, <2>1, <1>1, <1>4, <1>5, OpenStep
  <2>4. CASE e.conv # current
    <3>1. UNCHANGED <<current, screen>>
      BY <2>1, <2>4 DEF Refresh
    <3>2. e # Updated(current)
      BY <2>2, <2>4 DEF Updated
    <3>3. TypeOK'
      BY <3>1, <1>0, <1>1, <1>2, <1>5 DEF TypeOK
    <3>4. QED
      BY <3>1, <3>2, <3>3, <2>1, <1>1, <1>4, HandleStep
  <2>5. QED
    BY <2>3, <2>4
<1>7. CASE HandleSelected
  <2>1. e.type = "selected" /\ Open(e.conv)
    BY <1>7 DEF HandleSelected, Handles
  <2>2. e.conv \in Conversations \cup {None}
    BY <2>1, <1>2, Forms
  <2>3. QED
    BY <2>1, <2>2, <1>1, <1>4, <1>5, OpenStep
<1>8. CASE HandlePeer
  <2>1. e.type = "peer" /\ UNCHANGED <<current, screen>>
    BY <1>8 DEF HandlePeer, Handles
  <2>2. e # Updated(current)
    BY <2>1 DEF Updated
  <2>3. TypeOK'
    BY <2>1, <1>0, <1>1, <1>2, <1>5 DEF TypeOK
  <2>4. QED
    BY <2>1, <2>2, <2>3, <1>1, <1>4, HandleStep
<1>9. QED
  BY <1>6, <1>7, <1>8

-----------------------------------------------------------------------------
(***************************************************************************)
(* The theorems.                                                           *)
(***************************************************************************)

\* The histories are loaded before anything is on the screen.
LEMMA TerminalInit == Init => TerminalInvariant
<1> SUFFICES ASSUME Init PROVE TerminalInvariant
  OBVIOUS
<1>1. TypeOK
  <2>0. "queued" \in Mark
    BY DEF Mark
  <2>1. <<>> \in Seq(Mark) /\ <<"queued">> \in Seq(Mark)
    BY <2>0
  <2>2. \A c \in Conversations : history[c] \in {<<>>, <<"queued">>}
    BY DEF Init
  <2>3. history = [c \in Conversations |-> history[c]]
    BY DEF Init
  <2>4. history \in [Conversations -> Seq(Mark)]
    BY <2>1, <2>2, <2>3
  <2>5. QED
    BY <2>4 DEF Init, TypeOK
<1>2. events = <<>> /\ screen = <<>> /\ Len(events) = 0 /\ DOMAIN screen = {}
      /\ current = None /\ chosen = None /\ online = listed
  BY DEF Init
<1>3. \A i : i \in 1..Len(events) => FALSE
  BY <1>2
<1>4. Entered(events, current, chosen)
  BY <1>2 DEF Entered, ShownAt
<1>5. events \in Seq(KnownEvent) /\ screen \in Seq(KnownLine)
  BY <1>2
<1>6. InOrder(events) /\ MarksIn(events, history)
  BY <1>3 DEF InOrder, MarksIn
<1>7. Covered(events) /\ Ordered /\ MarksAgree /\ OnlineAgrees
  BY <1>2 DEF Covered, Ordered, Lines, MarksAgree, OnlineAgrees
<1>8. QED
  BY <1>1, <1>4, <1>5, <1>6, <1>7 DEF TerminalInvariant

\* What does not change the variables does not change the invariant.
LEMMA TerminalStutter ==
    ASSUME TerminalInvariant, UNCHANGED vars
    PROVE  TerminalInvariant'
<1>1. UNCHANGED <<history, online, events, current, screen, listed, chosen, choices, changes>>
  BY DEF vars
<1>2. KnownLine' = KnownLine /\ KnownEvent' = KnownEvent
  BY <1>1 DEF KnownLine, KnownEvent
<1>3. \A x, n : Lines(x, n)' = Lines(x, n)
  BY <1>1 DEF Lines
<1>4. \A x : Pending(x)' = Pending(x)
  BY <1>1 DEF Pending
<1>5. TypeOK' /\ events' \in Seq(KnownEvent)' /\ screen' \in Seq(KnownLine)'
  BY <1>1, <1>2 DEF TerminalInvariant, TypeOK
<1>6. Covered(events)' /\ Ordered'
  BY <1>1, <1>3 DEF TerminalInvariant, Covered, Ordered
<1>7. MarksAgree' /\ OnlineAgrees'
  BY <1>1, <1>4 DEF TerminalInvariant, MarksAgree, OnlineAgrees, Updated, PeerEvent
<1>8. QED
  BY <1>1, <1>5, <1>6, <1>7 DEF TerminalInvariant

\* What the queue of events and the screen keep true of each other.
THEOREM TerminalInvariance == Spec => []TerminalInvariant
<1>1. Init => TerminalInvariant
  BY TerminalInit
<1>2. TerminalInvariant /\ [Next]_vars => TerminalInvariant'
  <2> SUFFICES ASSUME TerminalInvariant, [Next]_vars PROVE TerminalInvariant'
    OBVIOUS
  <2>1. CASE \E c \in Conversations : Choose(c) \/ Receive(c) \/ MarkSent(c)
    BY <2>1, ChooseStep, ReceiveStep, MarkSentStep
  <2>2. CASE Choose(None)
    BY <2>2, ChooseStep
  <2>3. CASE Enter
    BY <2>3, EnterStep
  <2>4. CASE \E p \in Contacts : PeerComesOrGoes(p)
    BY <2>4, PeerStep
  <2>5. CASE HandleIncoming
    BY <2>5, HandleIncomingStep
  <2>6. CASE HandleUpdated \/ HandleSelected \/ HandlePeer
    BY <2>6, OtherEventStep
  <2>7. CASE HandleSubmitted
    BY <2>7, SubmittedStep
  <2>8. CASE UNCHANGED vars
    BY <2>8, TerminalStutter
  <2>9. QED
    BY <2>1, <2>2, <2>3, <2>4, <2>5, <2>6, <2>7, <2>8 DEF Next
<1>3. QED
  BY <1>1, <1>2, PTL DEF Spec

\* Every variable of the app keeps its type.
THEOREM TerminalTyping == Spec => []TypeOK
<1>1. TerminalInvariant => TypeOK
  BY DEF TerminalInvariant
<1>2. QED
  BY <1>1, TerminalInvariance, PTL

\* What is posted of an entry is the event that shows it, with a mark.
LEMMA CoveredIsShown == TerminalInvariant => EntriesShown
<1> SUFFICES ASSUME TerminalInvariant, current # None, NEW n \in DOMAIN history[current]
             PROVE  \/ Lines(current, n) # {}
                       /\ \A older \in 1..(n - 1) : \E i \in Lines(current, older) :
                             \A j \in Lines(current, n) : i < j
                    \/ \E mark \in Mark : Pending(Posted(Shown(current, n, mark)))
  BY DEF EntriesShown
<1>0. TypeOK /\ Covered(events) /\ Ordered /\ events \in Seq(Event)
  BY DEF TerminalInvariant, TypeOK
<1>1. current \in Conversations
  BY <1>0 DEF TypeOK
<1>2. n \in Nat
  BY <1>0, <1>1, Numbers
<1>3. CASE Lines(current, n) # {}
  BY <1>0, <1>2, <1>3 DEF Ordered
<1>4. CASE Lines(current, n) = {}
  <2>1. PICK i \in 1..Len(events) :
           IsPosted(events[i], current) /\ events[i].line.number = n
    BY <1>0, <1>4 DEF Covered, PostedIn
  <2>2. events[i] \in Event /\ i \in DOMAIN events
    BY <2>1, <1>0
  <2>3. events[i].line \in Line /\ events[i] = Posted(events[i].line)
    BY <2>1, <2>2, Forms DEF IsPosted
  <2>4. events[i].line = Shown(current, n, events[i].line.mark) /\ events[i].line.mark \in Mark
    BY <2>1, <2>3 DEF Line, Shown, IsPosted
  <2>5. Pending(Posted(Shown(current, n, events[i].line.mark)))
    BY <2>2, <2>3, <2>4 DEF Pending
  <2>6. QED
    BY <2>4, <2>5
<1>5. QED
  BY <1>3, <1>4

\* The screen follows the history of the conversation on it, and the list of
\* contacts follows the neighbours, whatever is posted and handled in between.
THEOREM Follows == Spec => []ScreenFollows
<1>1. TerminalInvariant => ScreenFollows
  BY CoveredIsShown DEF TerminalInvariant, ScreenFollows
<1>2. QED
  BY <1>1, TerminalInvariance, PTL

\* A text goes to the conversation the user had opened when entering it.
THEOREM SentThere == Spec => []SentWhereEntered
<1>1. TerminalInvariant => SentWhereEntered
  <2> SUFFICES ASSUME TerminalInvariant, Handles("submitted")
               PROVE  Head(events).for = current
    BY DEF SentWhereEntered
  <2>1. events \in Seq(Event) /\ events # <<>> /\ Head(events).type = "submitted"
        /\ Entered(events, current, chosen)
    BY DEF TerminalInvariant, TypeOK, Handles
  <2>2. Head(events) = events[1] /\ 1 \in 1..Len(events)
    BY <2>1, Handling
  <2>3. ShownAt(events, current, 1, Head(events).for)
    BY <2>1, <2>2 DEF Entered
  <2>4. \A k : k \notin 1..(1 - 1)
    OBVIOUS
  <2>5. QED
    BY <2>3, <2>4 DEF ShownAt
<1>2. QED
  BY <1>1, TerminalInvariance, PTL
===============================================================================
