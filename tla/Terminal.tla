------------------------------ MODULE Terminal ------------------------------
(***************************************************************************)
(* What the terminal interface (tui/app.py) shows of Core's histories.     *)
(*                                                                         *)
(* Core and the app share a thread, but not a moment: the callbacks of     *)
(* Core and the keys of the user are posted to the app's queue of events   *)
(* and handled later, in order, some of them after a command that awaits a *)
(* connection.  An event carries what was true when it was posted; a       *)
(* conversation that is opened shows what is true now.                     *)
(*                                                                         *)
(* What the user does reaches the app by the queues of the widgets it was  *)
(* done to; they are taken to be empty by the next key, so that there is   *)
(* one queue, in the order of the keys.                                    *)
(***************************************************************************)
EXTENDS Naturals, Sequences, FiniteSets

CONSTANTS
    Conversations,  \* contacts and channels
    Contacts,       \* the conversations with one peer
    None,           \* no conversation
    MaxEntries,     \* bound on the entries of all the histories
    MaxChoices,     \* bound on how often the user opens a conversation
    MaxChanges      \* bound on peers that come and go

ASSUME TerminalAssumption ==
    /\ Contacts \subseteq Conversations /\ None \notin Conversations
    /\ MaxEntries \in Nat /\ MaxChoices \in Nat /\ MaxChanges \in Nat

VARIABLES
    history,  \* history[c]: the marks of the entries of c, in order
    online,   \* router.neighbors()
    events,   \* the queue of the app
    current,  \* the conversation on the screen
    screen,   \* the entries written to the screen since it was cleared
    listed,   \* the contacts the list marks as online
    chosen,   \* the conversation the user opened last
    choices, changes

vars == <<history, online, events, current, screen, listed, chosen, choices,
          changes>>

-----------------------------------------------------------------------------
\* An entry of somebody else, or one of the user's.
Mark == {"theirs", "queued", "sent"}

Line == [conv : Conversations, number : Nat, mark : Mark]
Shown(c, n, mark) == [conv |-> c, number |-> n, mark |-> mark]

\* The events: a new entry, marks that changed, a peer that came or went, a
\* conversation that was opened, and a text that was entered (for: what the
\* user had opened).
Posted(line) == [type |-> "incoming", line |-> line]
Updated(c) == [type |-> "updated", conv |-> c]
PeerEvent == [type |-> "peer"]
Selected(c) == [type |-> "selected", conv |-> c]
Submitted(c) == [type |-> "submitted", for |-> c]

Init ==
    /\ history \in [Conversations -> {<<>>, <<"queued">>}]
    /\ online = {}
    /\ events = <<>>
    /\ current = None
    /\ screen = <<>>
    /\ listed = {}
    /\ chosen = None
    /\ choices = 0 /\ changes = 0

\* Entries that are there or will be when the entered texts are handled.
Entries ==
    Cardinality({cn \in Conversations \X (1..MaxEntries) :
                    cn[2] \in DOMAIN history[cn[1]]})
        + Len(SelectSeq(events, LAMBDA e : e.type = "submitted"))

-----------------------------------------------------------------------------
(***************************************************************************)
(* What is posted.                                                         *)
(***************************************************************************)

\* A list item, /msg and /join open a conversation, /leave closes it.
Choose(c) ==
    /\ choices < MaxChoices
    /\ choices' = choices + 1
    /\ chosen' = c
    /\ events' = Append(events, Selected(c))
    /\ UNCHANGED <<history, online, current, screen, listed, changes>>

Enter ==
    /\ Entries < MaxEntries
    /\ events' = Append(events, Submitted(chosen))
    /\ UNCHANGED <<history, online, current, screen, listed, chosen, choices,
                   changes>>

\* append_history and _emit_message: a text or a file arrived.
Receive(c) ==
    /\ Entries < MaxEntries
    /\ history' = [history EXCEPT ![c] = Append(@, "theirs")]
    /\ events' = Append(events, Posted(Shown(c, Len(history'[c]), "theirs")))
    /\ UNCHANGED <<online, current, screen, listed, chosen, choices, changes>>

\* Faulty variant: nobody is told.
ToldNobody(c) == events

ToldOf(c) == Append(events, Updated(c))

\* mark_history_sent, then on_message_updated: queued texts of c left.
MarkSent(c) ==
    /\ \E gone \in SUBSET {n \in DOMAIN history[c] : history[c][n] = "queued"} :
          /\ gone # {}
          /\ history' = [history EXCEPT ![c] = [n \in DOMAIN @ |->
                IF n \in gone THEN "sent" ELSE @[n]]]
    /\ events' = ToldOf(c)
    /\ UNCHANGED <<online, current, screen, listed, chosen, choices, changes>>

\* Core.on_peer, after the router knows.
PeerComesOrGoes(p) ==
    /\ changes < MaxChanges
    /\ changes' = changes + 1
    /\ online' = IF p \in online THEN online \ {p} ELSE online \cup {p}
    /\ events' = Append(events, PeerEvent)
    /\ UNCHANGED <<history, current, screen, listed, chosen, choices>>

-----------------------------------------------------------------------------
(***************************************************************************)
(* What is handled.                                                        *)
(***************************************************************************)
Handles(type) == events # <<>> /\ Head(events).type = type

HistoryOf(c) ==
    IF c = None THEN <<>>
    ELSE [n \in DOMAIN history[c] |-> Shown(c, n, history[c][n])]

\* _switch_conv
Open(c) == current' = c /\ screen' = HistoryOf(c)

\* _refresh_contacts: the marks of friends as online.
ListedNow == online

\* on_incoming_message writes the entry to the screen, whatever is on it.
HandleIncoming ==
    /\ Handles("incoming")
    /\ screen' = Append(screen, Head(events).line)
    /\ listed' = IF Head(events).line.conv = current THEN listed ELSE ListedNow
    /\ events' = Tail(events)
    /\ UNCHANGED <<history, online, current, chosen, choices, changes>>

\* Faulty variant: the conversation is opened.
OpenUpdated(c) == Open(c)

Refresh(c) == IF c = current THEN Open(c) ELSE UNCHANGED <<current, screen>>

\* on_conversation_updated
HandleUpdated ==
    /\ Handles("updated")
    /\ Refresh(Head(events).conv)
    /\ events' = Tail(events)
    /\ UNCHANGED <<history, online, listed, chosen, choices, changes>>

\* on_list_view_selected, or a command, some of which refresh the list.
HandleSelected ==
    /\ Handles("selected")
    /\ Open(Head(events).conv)
    /\ listed' \in {listed, ListedNow}
    /\ events' = Tail(events)
    /\ UNCHANGED <<history, online, chosen, choices, changes>>

\* on_peer_event
HandlePeer ==
    /\ Handles("peer")
    /\ listed' = ListedNow
    /\ events' = Tail(events)
    /\ UNCHANGED <<history, online, current, screen, chosen, choices, changes>>

\* Faulty variant: marks nothing knows.
MarksWithRead == {"queued", "sent", "read"}

MarksOfNew == {"queued", "sent"}

\* on_input_submitted: Core refuses the text, or sends or queues it and
\* posts the entry.
HandleSubmitted ==
    /\ Handles("submitted")
    /\ \/ /\ events' = Tail(events)
          /\ UNCHANGED history
       \/ /\ current # None
          /\ \E mark \in MarksOfNew :
              /\ history' = [history EXCEPT ![current] = Append(@, mark)]
              /\ events' = Append(Tail(events),
                    Posted(Shown(current, Len(history'[current]), mark)))
    /\ UNCHANGED <<online, current, screen, listed, chosen, choices, changes>>

-----------------------------------------------------------------------------
Next ==
    \/ \E c \in Conversations : Choose(c) \/ Receive(c) \/ MarkSent(c)
    \/ Choose(None)
    \/ Enter
    \/ \E p \in Contacts : PeerComesOrGoes(p)
    \/ HandleIncoming \/ HandleUpdated \/ HandleSelected
    \/ HandlePeer \/ HandleSubmitted

Spec == Init /\ [][Next]_vars

-----------------------------------------------------------------------------
(***************************************************************************)
(* Properties.                                                             *)
(***************************************************************************)

Pending(event) == \E i \in DOMAIN events : events[i] = event

Event ==
    [type : {"incoming"}, line : Line] \cup [type : {"updated"}, conv : Conversations]
        \cup [type : {"peer"}]
        \cup [type : {"selected"}, conv : Conversations \cup {None}]
        \cup [type : {"submitted"}, for : Conversations \cup {None}]

\* Every variable keeps its type.
TypeOK ==
    /\ history \in [Conversations -> Seq(Mark)]
    /\ online \subseteq Contacts /\ listed \subseteq Contacts
    /\ events \in Seq(Event)
    /\ {current, chosen} \subseteq Conversations \cup {None}
    /\ screen \in Seq(Line)
    /\ choices \in Nat /\ changes \in Nat

Lines(c, n) == {i \in DOMAIN screen : screen[i].conv = c /\ screen[i].number = n}

\* No entry of the conversation on the screen is missing from it, other than
\* one that is about to be written, and none comes before an older one, in
\* whatever order entries arrive and conversations are opened.  (An entry may
\* be there twice, and so may entries of other conversations be: of what was
\* posted before the conversation was opened and handled after.)
EntriesShown ==
    current # None => \A n \in DOMAIN history[current] :
        \/ Lines(current, n) # {}
           /\ \A older \in 1..(n - 1) : \E i \in Lines(current, older) :
                 \A j \in Lines(current, n) : i < j
        \/ \E mark \in Mark : Pending(Posted(Shown(current, n, mark)))

\* A mark on the screen that is not the mark in the history, as of a text
\* that left the queue, is about to be corrected.
MarksAgree ==
    \A i \in DOMAIN screen :
        LET line == screen[i]
        IN  (line.conv = current /\ line.mark # history[line.conv][line.number])
               => Pending(Updated(current))

\* A friend whose mark as online or offline is out of date in the list is about
\* to get a new one.  (The mark of a stranger is not modelled: a frame changes
\* a status without posting an event.)
OnlineAgrees == listed # online => Pending(PeerEvent)

\* tests/test_core.py:308: an entry shown as queued becomes sent.  The screen
\* follows the history of its conversation, and the list of contacts follows
\* the neighbors.
ScreenFollows == EntriesShown /\ MarksAgree /\ OnlineAgrees

\* README.md:74: what is entered is sent to the conversation on the screen.
\* It goes to the one the user had opened when entering it, even if it is
\* handled after events that came in between.
SentWhereEntered ==
    Handles("submitted") => Head(events).for = current
=============================================================================
