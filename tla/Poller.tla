------------------------------- MODULE Poller --------------------------------
(***************************************************************************)
(* NetworkInfra's Poller and Channel (poller.{h,cpp}, channel.{h,cpp}):    *)
(* the vector of pollfd records given to poll(2), the table from           *)
(* descriptors to channels, and the index into the vector that every       *)
(* channel keeps.  A removed entry is replaced by the last one, so that    *)
(* indices move; an entry without events has the descriptor -fd - 1.       *)
(*                                                                         *)
(* A channel is created on a descriptor no live channel has, is registered *)
(* by its first EnableReading, and may be updated until it is removed; its *)
(* owner then destroys it and closes the descriptor, which the next        *)
(* channel may get.  Channels are removed by pending tasks only, after     *)
(* every reported channel has been handled.                                *)
(***************************************************************************)
EXTENDS Integers, Sequences, FiniteSets

CONSTANTS
    Channels,
    Fds,        \* descriptors, 0 ("stdin is 0") included
    Revents     \* the answers of poll(2) that are told apart

ASSUME RevsAssumption == Revents \subseteq {"IN", "OUT", "HUP", "ERR"}

ASSUME FdsAssumption == Fds \subseteq Nat

VARIABLES
    fd_,             \* Channel::fd_, or NoFd before creation and after destruction
    events_,         \* Channel::events_
    index_,          \* Channel::index_, from 0; -1 until registered
    pfds_,           \* Poller::pfds_
    channel_table_,  \* Poller::channel_table_
    active_channels  \* Run's vector, as a set: channels with their received_events_

vars == <<fd_, events_, index_, pfds_, channel_table_, active_channels>>

NoFd == -1

IOEvents == {"Read", "Write"}

Init ==
    /\ fd_ = [c \in Channels |-> NoFd]
    /\ events_ = [c \in Channels |-> {}]
    /\ index_ = [c \in Channels |-> -1]
    /\ pfds_ = <<>>
    /\ channel_table_ = << >>
    /\ active_channels = {}

Live(c) == fd_[c] # NoFd
Registered(c) == Live(c) /\ fd_[c] \in DOMAIN channel_table_
Fresh(c) == Live(c) /\ index_[c] = -1

-----------------------------------------------------------------------------

\* The constructor, on a descriptor that no live channel has.
NewChannel(c, fd) ==
    /\ ~Live(c)
    /\ \A d \in Channels : fd_[d] # fd
    /\ fd_' = [fd_ EXCEPT ![c] = fd]
    /\ events_' = [events_ EXCEPT ![c] = {}]
    /\ index_' = [index_ EXCEPT ![c] = -1]
    /\ UNCHANGED <<pfds_, channel_table_, active_channels>>

\* The destructor of a channel that is not registered, and its owner's close(2).
DestroyChannel(c) ==
    /\ Live(c)
    /\ ~Registered(c)
    /\ fd_' = [fd_ EXCEPT ![c] = NoFd]
    /\ UNCHANGED <<events_, index_, pfds_, channel_table_, active_channels>>

\* Mistake: 0 is negated into itself.
Negate(fd) == -fd

\* Turns a descriptor into one poll(2) ignores, and such a one back.
Flip(fd) == -fd - 1

\* Poller::UpdateChannel, with the channel's new events_.
UpdateChannel(c, ev) ==
    /\ events_' = [events_ EXCEPT ![c] = ev]
    /\ IF fd_[c] \in DOMAIN channel_table_
       THEN /\ pfds_' = [pfds_ EXCEPT ![index_[c] + 1] =
                            [fd |-> IF ev = {} THEN Flip(@.fd) ELSE @.fd,
                             events |-> ev]]
            /\ UNCHANGED <<index_, channel_table_>>
       ELSE /\ pfds_' = Append(pfds_, [fd |-> fd_[c], events |-> ev])
            /\ index_' = [index_ EXCEPT ![c] = Len(pfds_)]
            /\ channel_table_' = [f \in DOMAIN channel_table_ \cup {fd_[c]} |->
                                     IF f = fd_[c] THEN c ELSE channel_table_[f]]
    /\ UNCHANGED <<fd_, active_channels>>

EnableReading(c) ==
    /\ Registered(c) \/ Fresh(c)
    /\ UpdateChannel(c, events_[c] \cup {"Read"})

EnableWriting(c) ==
    /\ Registered(c)
    /\ UpdateChannel(c, events_[c] \cup {"Write"})

DisableWriting(c) ==
    /\ Registered(c)
    /\ UpdateChannel(c, events_[c] \ {"Write"})

DisableAll(c) ==
    /\ Registered(c)
    /\ UpdateChannel(c, {})

-----------------------------------------------------------------------------

\* RemoveChannel drops the last entry after moving it into the place of the
\* removed one; the table then has the removed descriptor no more.
WithoutEntry(i) ==
    [j \in 1 .. Len(pfds_) - 1 |-> IF j = i THEN pfds_[Len(pfds_)] ELSE pfds_[j]]

WithoutFd(fd) ==
    [f \in DOMAIN channel_table_ \ {fd} |-> channel_table_[f]]

\* The descriptor of the last entry, whether poll(2) ignores it or not.
VictimFd ==
    LET fd == pfds_[Len(pfds_)].fd IN IF fd < 0 THEN Flip(fd) ELSE fd

\* Mistake: an ignored entry is moved without looking its channel up by the
\* real descriptor, so that nobody's index changes.
RemoveChannelRawVictim(c) ==
    /\ Registered(c)
    /\ active_channels = {}
    /\ channel_table_' = WithoutFd(fd_[c])
    /\ pfds_' = WithoutEntry(index_[c] + 1)
    /\ LET fd == pfds_[Len(pfds_)].fd IN
       index_' = IF index_[c] = Len(pfds_) - 1 \/ fd < 0
                 THEN index_
                 ELSE [index_ EXCEPT ![channel_table_[fd]] = index_[c]]
    /\ UNCHANGED <<fd_, events_, active_channels>>

\* Poller::RemoveChannel.  index_ of the removed channel is left as it was.
RemoveChannel(c) ==
    /\ Registered(c)
    /\ active_channels = {}
    /\ channel_table_' = WithoutFd(fd_[c])
    /\ pfds_' = WithoutEntry(index_[c] + 1)
    /\ index_' = IF index_[c] = Len(pfds_) - 1
                 THEN index_
                 ELSE [index_ EXCEPT ![channel_table_[VictimFd]] = index_[c]]
    /\ UNCHANGED <<fd_, events_, active_channels>>

-----------------------------------------------------------------------------

\* poll(2) (external): what it may answer for an entry.
MayReport(pfd, rev) ==
    /\ pfd.fd >= 0
    /\ "IN" \in rev => "Read" \in pfd.events
    /\ "OUT" \in rev => "Write" \in pfd.events

\* FillActiveChannels: the entries with an answer, each with the channel the
\* table has for its descriptor.
FillActiveChannels(revents) ==
    {<<channel_table_[pfds_[i].fd], revents[i]>> :
        i \in {j \in DOMAIN pfds_ : revents[j] # {}}}

\* Poll with no channel left to handle from the call before.
Poll ==
    /\ active_channels = {}
    /\ \E revents \in [DOMAIN pfds_ -> SUBSET Revents] :
          /\ \A i \in DOMAIN pfds_ :
                revents[i] # {} => MayReport(pfds_[i], revents[i])
          /\ active_channels' = FillActiveChannels(revents)
    /\ UNCHANGED <<fd_, events_, index_, pfds_, channel_table_>>

\* Run's loop has handled a reported channel.  (It goes through the vector in
\* order; the model takes any order.)
HandleEvents ==
    \E r \in active_channels :
        /\ active_channels' = active_channels \ {r}
        /\ UNCHANGED <<fd_, events_, index_, pfds_, channel_table_>>

Next ==
    \/ \E c \in Channels :
          \/ \E fd \in Fds : NewChannel(c, fd)
          \/ DestroyChannel(c)
          \/ EnableReading(c)
          \/ EnableWriting(c)
          \/ DisableWriting(c)
          \/ DisableAll(c)
          \/ RemoveChannel(c)
    \/ Poll
    \/ HandleEvents

Spec == Init /\ [][Next]_vars

-----------------------------------------------------------------------------
(* Properties.                                                             *)

\* Every variable has its type: the members of Channel and Poller.
TypeOK ==
    /\ fd_ \in [Channels -> Fds \cup {NoFd}]
    /\ events_ \in [Channels -> SUBSET IOEvents]
    /\ index_ \in [Channels -> Nat \cup {-1}]
    /\ pfds_ \in Seq([fd : Int, events : SUBSET IOEvents])
    /\ DOMAIN channel_table_ \subseteq Fds
    /\ channel_table_ \in [DOMAIN channel_table_ -> Channels]
    /\ active_channels \subseteq Channels \X SUBSET Revents

\* The descriptor an entry stands for, ignored or not.
RealFd(pfd) == IF pfd.fd < 0 THEN Flip(pfd.fd) ELSE pfd.fd

\* No two live channels share a descriptor.
FdsDistinct ==
    \A c, d \in Channels : Live(c) /\ fd_[c] = fd_[d] => c = d

\* The table has exactly the live channels that were registered, each under its
\* own descriptor.
TableMatches ==
    \A f \in DOMAIN channel_table_ : fd_[channel_table_[f]] = f

\* The index of a registered channel leads to its own entry, with its events_,
\* however many entries RemoveChannel has moved.
IndexMatches ==
    \A c \in Channels : Registered(c) =>
        /\ index_[c] \in 0 .. Len(pfds_) - 1
        /\ RealFd(pfds_[index_[c] + 1]) = fd_[c]
        /\ pfds_[index_[c] + 1].events = events_[c]

\* Every entry is that of the channel the table has for its descriptor: the
\* lookups of RemoveChannel and FillActiveChannels find a channel, and it is
\* the right one.
EntriesMatch ==
    \A i \in 1 .. Len(pfds_) :
        /\ RealFd(pfds_[i]) \in DOMAIN channel_table_
        /\ index_[channel_table_[RealFd(pfds_[i])]] = i - 1

\* The vector, the table and the indices describe the same set of channels.
\* (The inductive invariant of the proof.)
PollerConsistent ==
    /\ TypeOK
    /\ FdsDistinct
    /\ TableMatches
    /\ IndexMatches
    /\ EntriesMatch

\* The poll set the vector stands for.
PolledEntry(c) ==
    IF Registered(c)
    THEN [polled |-> TRUE,
          events |-> pfds_[index_[c] + 1].events,
          ignored |-> pfds_[index_[c] + 1].fd < 0]
    ELSE [polled |-> FALSE, events |-> {}, ignored |-> FALSE]

PS == INSTANCE PollSet WITH
          interest <- [c \in Channels |-> PolledEntry(c)],
          ready <- active_channels

\* The Poller implements the poll set of PollSet: an operation on one channel
\* never changes what poll(2) watches for another, and Poll reports the
\* channels whose entries were answered.
ImplementsPollSet == PS!Spec

\* What poller.cpp says of the negative descriptor, "Ignore this pollfd": poll(2)
\* ignores the entry of a registered channel if and only if the channel asks for
\* nothing.  (The sign is turned by every update without events, also the second
\* one in a row, and by no update with events.)
IgnoredIffNoEvents ==
    \A c \in Channels : Registered(c) =>
        (pfds_[index_[c] + 1].fd < 0 <=> events_[c] = {})

=============================================================================
