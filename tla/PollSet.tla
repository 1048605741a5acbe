------------------------------- MODULE PollSet -------------------------------
(***************************************************************************)
(* What NetworkInfra's Poller promises to the channels of a loop: every    *)
(* registered channel has one entry of its own in the set that poll(2)     *)
(* watches, an operation on a channel changes the entry of that channel    *)
(* and of no other, and Poll reports ready channels out of those watched.  *)
(* Poller.tla implements it with a vector, a table and indices.            *)
(***************************************************************************)
EXTENDS Naturals, FiniteSets

CONSTANTS
    Channels,
    Revents     \* the answers of poll(2) that are told apart

\* What a channel may ask for (Channel::IOEvent).
IOEvents == {"Read", "Write"}

VARIABLES
    interest,   \* the entry of every channel: NotPolled, or its events_ and
                \* whether poll(2) ignores it
    ready       \* the channels poll(2) reported and nobody has handled yet

psvars == <<interest, ready>>

NotPolled == [polled |-> FALSE, events |-> {}, ignored |-> FALSE]

Entries == [polled : BOOLEAN, events : SUBSET IOEvents, ignored : BOOLEAN]

Init ==
    /\ interest = [c \in Channels |-> NotPolled]
    /\ ready = {}

\* What poll(2) may do about the entry after UpdateChannel: it watches a channel
\* that is registered with events, and of an entry it watches it goes on watching
\* one with events and ignores one without.  Nothing is promised of an entry that
\* it already ignored, nor of a channel registered without events.
MayIgnore(entry, ev) ==
    IF entry.ignored \/ (~entry.polled /\ ev = {}) THEN BOOLEAN ELSE {ev = {}}

MayBecome(entry, ev) ==
    [polled : {TRUE}, events : {ev}, ignored : MayIgnore(entry, ev)]

\* UpdateChannel: the first call registers the channel.
UpdateChannel(c, ev) ==
    /\ UNCHANGED ready
    /\ interest' \in {[interest EXCEPT ![c] = e] : e \in MayBecome(interest[c], ev)}

RemoveChannel(c) ==
    /\ interest[c].polled
    /\ UNCHANGED ready
    /\ interest' = [interest EXCEPT ![c] = NotPolled]

\* poll(2) skips ignored entries, reports what was asked for and, asked or not,
\* a hang-up or an error.
MayReport(entry, rev) ==
    /\ entry.polled
    /\ ~entry.ignored
    /\ rev # {}
    /\ "IN" \in rev => "Read" \in entry.events
    /\ "OUT" \in rev => "Write" \in entry.events

Poll ==
    /\ ready = {}
    /\ ready' \in SUBSET {r \in Channels \X SUBSET Revents :
                             MayReport(interest[r[1]], r[2])}
    /\ \A r, s \in ready' : r[1] = s[1] => r = s
    /\ UNCHANGED interest

HandleEvents(r) ==
    /\ r \in ready
    /\ ready' = ready \ {r}
    /\ UNCHANGED interest

Next ==
    \/ \E c \in Channels :
          \/ \E ev \in SUBSET IOEvents : UpdateChannel(c, ev)
          \/ RemoveChannel(c)
    \/ Poll
    \/ \E r \in ready : HandleEvents(r)

Spec == Init /\ [][Next]_psvars

=============================================================================
