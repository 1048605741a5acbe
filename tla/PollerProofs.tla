---------------------------- MODULE PollerProofs -----------------------------
(***************************************************************************)
(* Proofs about Poller: for any channels and descriptors, the vector, the  *)
(* table and the indices always describe the same set of channels, and the *)
(* Poller implements PollSet.                                              *)
(***************************************************************************)
EXTENDS Poller, TLAPS

\* Turning a descriptor twice gives it back, and the turned one is negative.
LEMMA FlipFacts ==
    \A n \in Int : /\ Flip(n) \in Int
                   /\ Flip(Flip(n)) = n
                   /\ n >= 0 => Flip(n) < 0
                   /\ n < 0 => Flip(n) >= 0
BY DEF Flip

\* The entry a descriptor is turned in still stands for the same descriptor.
LEMMA RealFdFacts ==
    ASSUME NEW n \in Int, NEW e, NEW g
    PROVE  /\ RealFd([fd |-> Flip(n), events |-> e]) = RealFd([fd |-> n, events |-> g])
           /\ RealFd([fd |-> n, events |-> e]) = RealFd([fd |-> n, events |-> g])
           /\ n >= 0 => RealFd([fd |-> n, events |-> e]) = n
           /\ RealFd([fd |-> n, events |-> e]) \in Int
BY FlipFacts DEF RealFd

LEMMA InitConsistent == Init => PollerConsistent
BY FdsAssumption DEF Init, PollerConsistent, TypeOK, FdsDistinct, TableMatches,
     IndexMatches, EntriesMatch, Registered, Live, NoFd

\* Only a new or removed channel changes the descriptors, the table or the
\* vector; creating a channel leaves the registered ones alone.
LEMMA NewChannelConsistent ==
    ASSUME PollerConsistent, NEW c \in Channels, NEW fd \in Fds, NewChannel(c, fd)
    PROVE  PollerConsistent'
<1> USE FdsAssumption DEF PollerConsistent, NewChannel, NoFd
<1>1. TypeOK'
  BY DEF TypeOK
<1>2. FdsDistinct'
  BY DEF FdsDistinct, TypeOK, Live
<1>3. \A f \in DOMAIN channel_table_ : channel_table_[f] # c
  BY DEF TableMatches, TypeOK, Live
<1>4. fd \notin DOMAIN channel_table_
  BY DEF TableMatches, TypeOK
<1>5. TableMatches'
  BY <1>3 DEF TableMatches, TypeOK
<1>6. \A d \in Channels : Registered(d)' => d # c /\ Registered(d)
  BY <1>4 DEF Registered, TypeOK, Live
<1>7. IndexMatches'
  BY <1>6 DEF IndexMatches, TypeOK, RealFd
<1>8. EntriesMatch'
  BY <1>3 DEF EntriesMatch, TypeOK, RealFd
<1> QED BY <1>1, <1>2, <1>5, <1>7, <1>8

\* Destroying a channel that is not registered leaves the others alone.
LEMMA DestroyChannelConsistent ==
    ASSUME PollerConsistent, NEW c \in Channels, DestroyChannel(c)
    PROVE  PollerConsistent'
<1> USE FdsAssumption DEF PollerConsistent, DestroyChannel, NoFd
<1>1. TypeOK'
  BY DEF TypeOK
<1>2. FdsDistinct'
  BY DEF FdsDistinct, TypeOK, Live
<1>3. \A f \in DOMAIN channel_table_ : channel_table_[f] # c
  BY DEF TableMatches, TypeOK, Live, Registered
<1>4. TableMatches'
  BY <1>3 DEF TableMatches, TypeOK
<1>5. \A d \in Channels : Registered(d)' => d # c /\ Registered(d)
  BY DEF Registered, TypeOK, Live
<1>6. IndexMatches'
  BY <1>5 DEF IndexMatches, TypeOK, RealFd
<1>7. EntriesMatch'
  BY DEF EntriesMatch, TypeOK, RealFd
<1> QED BY <1>1, <1>2, <1>4, <1>6, <1>7

\* The entries of the vector are pollfd records.
LEMMA EntryType ==
    ASSUME TypeOK
    PROVE  \A i \in 1 .. Len(pfds_) : pfds_[i] \in [fd : Int, events : SUBSET IOEvents]
<1> DEFINE S == [fd : Int, events : SUBSET IOEvents]
<1>1. pfds_ \in Seq(S)
  BY DEF TypeOK
<1> HIDE DEF S
<1>2. \A i \in 1 .. Len(pfds_) : pfds_[i] \in S
  BY <1>1
<1> QED BY <1>2 DEF S

\* Two registered channels never share an entry.
LEMMA IndexInjective ==
    ASSUME PollerConsistent,
           NEW c \in Channels, NEW d \in Channels,
           Registered(c), Registered(d), index_[c] = index_[d]
    PROVE  c = d
<1>1. fd_[c] = fd_[d]
  BY DEF PollerConsistent, IndexMatches
<1> QED BY <1>1 DEF PollerConsistent, FdsDistinct, Registered

\* A registered channel is the one the table has for its descriptor.
LEMMA TableOfRegistered ==
    ASSUME PollerConsistent, NEW c \in Channels, Registered(c)
    PROVE  channel_table_[fd_[c]] = c
BY DEF PollerConsistent, TypeOK, TableMatches, FdsDistinct, Registered, Live

\* A step on channel c keeps the registration and the entry of every other one.
KeepsOthers(c) ==
    \A d \in Channels : d # c =>
        /\ Registered(d)' <=> Registered(d)
        /\ Registered(d) => pfds_'[index_'[d] + 1] = pfds_[index_[d] + 1]

\* The entry of a channel after UpdateChannel with events ev: a call without events
\* turns the sign of the descriptor, whichever it has, and no other call does.
Turned(entry, ev) ==
    IF entry.polled
    THEN [polled |-> TRUE, events |-> ev,
          ignored |-> IF ev = {} THEN ~entry.ignored ELSE entry.ignored]
    ELSE [polled |-> TRUE, events |-> ev, ignored |-> FALSE]

\* UpdateChannel of a registered channel rewrites its own entry in place.
LEMMA UpdateRegistered ==
    ASSUME PollerConsistent, NEW c \in Channels, NEW ev \in SUBSET IOEvents,
           Registered(c), UpdateChannel(c, ev)
    PROVE  /\ PollerConsistent'
           /\ KeepsOthers(c)
           /\ Registered(c)'
           /\ PolledEntry(c)' = Turned(PolledEntry(c), ev)
<1> DEFINE k == index_[c] + 1
           old == pfds_[k]
           new == [fd |-> IF ev = {} THEN Flip(old.fd) ELSE old.fd, events |-> ev]
<1>1. /\ events_' = [events_ EXCEPT ![c] = ev]
      /\ pfds_' = [pfds_ EXCEPT ![k] = new]
      /\ UNCHANGED <<index_, channel_table_, fd_, active_channels>>
  BY Zenon DEF UpdateChannel, Registered
<1>2. /\ TypeOK /\ FdsDistinct /\ TableMatches /\ IndexMatches /\ EntriesMatch
      /\ index_[c] \in Int
      /\ k \in 1 .. Len(pfds_)
      /\ old \in [fd : Int, events : SUBSET IOEvents]
      /\ RealFd(old) = fd_[c]
  <2>1. TypeOK /\ FdsDistinct /\ TableMatches /\ IndexMatches /\ EntriesMatch
    BY DEF PollerConsistent
  <2>2. index_[c] \in 0 .. Len(pfds_) - 1 /\ RealFd(old) = fd_[c]
    BY <2>1 DEF IndexMatches
  <2>3. Len(pfds_) \in Nat
    BY <2>1 DEF TypeOK
  <2>4. index_[c] \in Int /\ k \in 1 .. Len(pfds_)
    BY <2>2, <2>3
  <2>5. old \in [fd : Int, events : SUBSET IOEvents]
    BY <2>1, <2>4, EntryType
  <2> QED BY <2>1, <2>2, <2>4, <2>5
<1>3. /\ new \in [fd : Int, events : SUBSET IOEvents]
      /\ RealFd(new) = RealFd(old)
      /\ new.events = ev
  BY <1>2, FlipFacts, SMTT(20) DEF RealFd
<1> HIDE DEF old, new
<1>4. /\ pfds_' \in Seq([fd : Int, events : SUBSET IOEvents])
      /\ Len(pfds_') = Len(pfds_)
      /\ \A i \in 1 .. Len(pfds_) : pfds_'[i] = IF i = k THEN new ELSE pfds_[i]
  BY <1>1, <1>2, <1>3 DEF TypeOK
<1>5. TypeOK'
  BY <1>1, <1>2, <1>4 DEF TypeOK
<1>6. FdsDistinct' /\ TableMatches'
  BY <1>1, <1>2 DEF FdsDistinct, TableMatches, Live
<1>7. \A i \in 1 .. Len(pfds_) : RealFd(pfds_'[i]) = RealFd(pfds_[i])
  BY <1>3, <1>4 DEF old
<1>8. EntriesMatch'
  BY <1>1, <1>2, <1>4, <1>7 DEF EntriesMatch
<1>9. ASSUME NEW d \in Channels, Registered(d)'
      PROVE  /\ index_'[d] \in 0 .. Len(pfds_') - 1
             /\ RealFd(pfds_'[index_'[d] + 1]) = fd_'[d]
             /\ pfds_'[index_'[d] + 1].events = events_'[d]
  <2>1. Registered(d)
    BY <1>1, <1>9 DEF Registered, Live
  <2>2. /\ index_'[d] \in 0 .. Len(pfds_') - 1
        /\ index_[d] + 1 \in 1 .. Len(pfds_)
        /\ RealFd(pfds_'[index_'[d] + 1]) = fd_'[d]
    BY <1>1, <1>2, <1>4, <1>7, <2>1, SMTT(20) DEF IndexMatches
  <2>3. CASE d = c
    BY <1>1, <1>2, <1>3, <1>4, <2>2, <2>3 DEF TypeOK
  <2>4. CASE d # c
    <3>1. index_[d] # index_[c]
      BY <2>1, <2>4, IndexInjective
    <3>2. index_[d] \in Int
      BY <2>1, <1>2 DEF IndexMatches
    <3>3. index_[d] + 1 # k
      BY <3>1, <3>2, <1>2
    <3> QED BY <1>1, <1>2, <1>4, <2>1, <2>2, <2>4, <3>3 DEF IndexMatches, TypeOK
  <2> QED BY <2>2, <2>3, <2>4
<1>10. IndexMatches'
  BY <1>9 DEF IndexMatches
<1>11. PollerConsistent'
  BY <1>5, <1>6, <1>8, <1>10 DEF PollerConsistent
<1>12. KeepsOthers(c)
  <2> SUFFICES ASSUME NEW d \in Channels, d # c
               PROVE  /\ Registered(d)' <=> Registered(d)
                      /\ Registered(d) => pfds_'[index_'[d] + 1] = pfds_[index_[d] + 1]
    BY DEF KeepsOthers
  <2>1. Registered(d)' <=> Registered(d)
    BY <1>1 DEF Registered, Live
  <2>2. ASSUME Registered(d)
        PROVE  pfds_'[index_'[d] + 1] = pfds_[index_[d] + 1]
    <3>1. index_[d] # index_[c]
      BY <2>2, IndexInjective
    <3>2. index_[d] \in Int /\ index_[d] + 1 \in 1 .. Len(pfds_)
      <4>1. index_[d] \in 0 .. Len(pfds_) - 1 /\ Len(pfds_) \in Nat
        BY <2>2, <1>2 DEF IndexMatches, TypeOK
      <4> QED BY <4>1
    <3>3. index_[d] + 1 # k
      BY <3>1, <3>2, <1>2
    <3> QED BY <3>2, <3>3, <1>1, <1>4
  <2> QED BY <2>1, <2>2
<1>13. Registered(c)'
  BY <1>1 DEF Registered, Live
<1>14. PolledEntry(c)' = Turned(PolledEntry(c), ev)
  <2>1. PolledEntry(c)' = [polled |-> TRUE, events |-> ev, ignored |-> new.fd < 0]
    BY <1>13, <1>1, <1>2, <1>3, <1>4 DEF PolledEntry
  <2>2. PolledEntry(c) = [polled |-> TRUE, events |-> old.events, ignored |-> old.fd < 0]
    BY DEF PolledEntry, old
  <2>3. Turned(PolledEntry(c), ev)
          = [polled |-> TRUE, events |-> ev,
             ignored |-> IF ev = {} THEN ~(old.fd < 0) ELSE old.fd < 0]
    <3> DEFINE e == PolledEntry(c)
               b == old.fd < 0
    <3>1. e.polled = TRUE /\ e.ignored = b
      BY <2>2
    <3> HIDE DEF e, b
    <3>2. Turned(e, ev) = [polled |-> TRUE, events |-> ev,
                               ignored |-> IF ev = {} THEN ~b ELSE b]
      BY <3>1, Zenon DEF Turned
    <3> QED BY <3>2 DEF e, b
  <2>4. (new.fd < 0) = IF ev = {} THEN ~(old.fd < 0) ELSE old.fd < 0
    <3>1. CASE ev = {}
      BY <3>1, <1>2, FlipFacts DEF new
    <3>2. CASE ev # {}
      BY <3>2 DEF new
    <3> QED BY <3>1, <3>2
  <2> QED BY <2>1, <2>3, <2>4
<1> QED BY <1>11, <1>12, <1>13, <1>14

\* UpdateChannel of a channel that is not registered appends an entry.
LEMMA UpdateFresh ==
    ASSUME PollerConsistent, NEW c \in Channels, NEW ev \in SUBSET IOEvents,
           Live(c), ~Registered(c), UpdateChannel(c, ev)
    PROVE  /\ PollerConsistent'
           /\ KeepsOthers(c)
           /\ Registered(c)'
           /\ PolledEntry(c)' = Turned(PolledEntry(c), ev)
<1> DEFINE new == [fd |-> fd_[c], events |-> ev]
           n == Len(pfds_)
<1>1. /\ events_' = [events_ EXCEPT ![c] = ev]
      /\ pfds_' = Append(pfds_, new)
      /\ index_' = [index_ EXCEPT ![c] = n]
      /\ channel_table_' = [f \in DOMAIN channel_table_ \cup {fd_[c]} |->
                               IF f = fd_[c] THEN c ELSE channel_table_[f]]
      /\ UNCHANGED <<fd_, active_channels>>
      /\ fd_[c] \notin DOMAIN channel_table_
  BY DEF UpdateChannel, Registered
<1>2. /\ TypeOK /\ FdsDistinct /\ TableMatches /\ IndexMatches /\ EntriesMatch
      /\ fd_[c] \in Fds
      /\ fd_[c] \in Nat
      /\ n \in Nat
  BY FdsAssumption DEF PollerConsistent, TypeOK, Live
<1>3. /\ new \in [fd : Int, events : SUBSET IOEvents]
      /\ RealFd(new) = fd_[c]
      /\ new.events = ev
  BY <1>2 DEF RealFd
<1> HIDE DEF new
<1>4. /\ pfds_' \in Seq([fd : Int, events : SUBSET IOEvents])
      /\ Len(pfds_') = n + 1
      /\ \A i \in 1 .. n : pfds_'[i] = pfds_[i]
      /\ pfds_'[n + 1] = new
  BY <1>1, <1>2, <1>3 DEF TypeOK
<1>5. /\ DOMAIN channel_table_' = DOMAIN channel_table_ \cup {fd_[c]}
      /\ channel_table_'[fd_[c]] = c
      /\ \A f \in DOMAIN channel_table_ : channel_table_'[f] = channel_table_[f]
  BY <1>1
<1>6. TypeOK'
  <2>1. /\ DOMAIN channel_table_' \subseteq Fds
        /\ channel_table_' \in [DOMAIN channel_table_' -> Channels]
    BY <1>1, <1>2 DEF TypeOK
  <2> QED BY <1>1, <1>2, <1>4, <2>1 DEF TypeOK
<1>7. FdsDistinct'
  BY <1>1, <1>2 DEF FdsDistinct, Live
<1>8. TableMatches'
  BY <1>1, <1>2, <1>5 DEF TableMatches
<1>9. \A f \in DOMAIN channel_table_ : channel_table_[f] # c
  BY <1>1, <1>2 DEF TableMatches
<1>10. EntriesMatch'
  <2> SUFFICES ASSUME NEW i \in 1 .. Len(pfds_')
               PROVE  /\ RealFd(pfds_'[i]) \in DOMAIN channel_table_'
                      /\ index_'[channel_table_'[RealFd(pfds_'[i])]] = i - 1
    BY DEF EntriesMatch
  <2>1. CASE i = n + 1
    BY <2>1, <1>1, <1>2, <1>3, <1>4, <1>5 DEF TypeOK
  <2>2. CASE i \in 1 .. n
    <3>1. /\ pfds_'[i] = pfds_[i]
          /\ RealFd(pfds_[i]) \in DOMAIN channel_table_
          /\ index_[channel_table_[RealFd(pfds_[i])]] = i - 1
      BY <2>2, <1>2, <1>4 DEF EntriesMatch
    <3>2. channel_table_'[RealFd(pfds_[i])] = channel_table_[RealFd(pfds_[i])]
      BY <3>1, <1>5
    <3>3. index_'[channel_table_[RealFd(pfds_[i])]] = i - 1
      BY <3>1, <1>1, <1>2, <1>9 DEF TypeOK
    <3> QED BY <3>1, <3>2, <3>3, <1>5
  <2> QED BY <2>1, <2>2, <1>2, <1>4
<1>11. ASSUME NEW d \in Channels, Registered(d)'
       PROVE  /\ index_'[d] \in 0 .. Len(pfds_') - 1
              /\ RealFd(pfds_'[index_'[d] + 1]) = fd_'[d]
              /\ pfds_'[index_'[d] + 1].events = events_'[d]
  <2>1. CASE d = c
    BY <2>1, <1>1, <1>2, <1>3, <1>4 DEF TypeOK
  <2>2. CASE d # c
    <3>1. Registered(d)
      BY <2>2, <1>11, <1>1, <1>2, <1>5 DEF Registered, Live, FdsDistinct
    <3>2. /\ index_[d] \in 0 .. n - 1
          /\ RealFd(pfds_[index_[d] + 1]) = fd_[d]
          /\ pfds_[index_[d] + 1].events = events_[d]
      BY <3>1, <1>2 DEF IndexMatches
    <3>3. index_'[d] = index_[d] /\ events_'[d] = events_[d]
      BY <2>2, <1>1, <1>2 DEF TypeOK
    <3> QED BY <3>2, <3>3, <1>1, <1>2, <1>4
  <2> QED BY <2>1, <2>2
<1>12. IndexMatches'
  BY <1>11 DEF IndexMatches
<1>13. PollerConsistent'
  BY <1>6, <1>7, <1>8, <1>10, <1>12 DEF PollerConsistent
<1>14. KeepsOthers(c)
  <2> SUFFICES ASSUME NEW d \in Channels, d # c
               PROVE  /\ Registered(d)' <=> Registered(d)
                      /\ Registered(d) => pfds_'[index_'[d] + 1] = pfds_[index_[d] + 1]
    BY DEF KeepsOthers
  <2>1. Registered(d)' <=> Registered(d)
    BY <1>1, <1>2, <1>5 DEF Registered, Live, FdsDistinct
  <2>2. ASSUME Registered(d)
        PROVE  pfds_'[index_'[d] + 1] = pfds_[index_[d] + 1]
    <3>1. index_[d] \in 0 .. n - 1
      BY <2>2, <1>2 DEF IndexMatches
    <3>2. index_'[d] = index_[d] /\ index_[d] + 1 \in 1 .. n
      BY <3>1, <1>1, <1>2 DEF TypeOK
    <3> QED BY <3>2, <1>4
  <2> QED BY <2>1, <2>2
<1>15. Registered(c)'
  BY <1>1, <1>5 DEF Registered, Live
<1>16. PolledEntry(c)' = Turned(PolledEntry(c), ev)
  <2>1. pfds_'[index_'[c] + 1] = new
    BY <1>1, <1>2, <1>4 DEF TypeOK
  <2>2. PolledEntry(c)' = [polled |-> TRUE, events |-> ev, ignored |-> new.fd < 0]
    BY <2>1, <1>3, <1>15 DEF PolledEntry
  <2>3. PolledEntry(c) = [polled |-> FALSE, events |-> {}, ignored |-> FALSE]
    BY DEF PolledEntry
  <2>4. Turned(PolledEntry(c), ev) = [polled |-> TRUE, events |-> ev, ignored |-> FALSE]
    BY <2>3 DEF Turned
  <2>5. (new.fd < 0) = FALSE
    BY <1>2 DEF new
  <2> QED BY <2>2, <2>4, <2>5
<1> QED BY <1>13, <1>14, <1>15, <1>16

\* RemoveChannel moves the last entry into the place of the removed one, and
\* the index of its channel with it.
LEMMA RemoveChannelConsistent ==
    ASSUME PollerConsistent, NEW c \in Channels, RemoveChannel(c)
    PROVE  /\ PollerConsistent'
           /\ KeepsOthers(c)
           /\ ~Registered(c)'
<1> DEFINE n == Len(pfds_)
           k == index_[c] + 1
           S == [fd : Int, events : SUBSET IOEvents]
           v == channel_table_[VictimFd]
<1>1. /\ TypeOK /\ FdsDistinct /\ TableMatches /\ IndexMatches /\ EntriesMatch
      /\ Registered(c)
      /\ UNCHANGED <<fd_, events_, active_channels>>
  BY DEF PollerConsistent, RemoveChannel
<1>2. /\ n \in Nat
      /\ index_[c] \in 0 .. n - 1
      /\ k \in 1 .. n
      /\ n \in 1 .. n
      /\ RealFd(pfds_[k]) = fd_[c]
      /\ \A i \in 1 .. n : pfds_[i] \in S
      /\ pfds_ \in Seq(S)
  <2>1. n \in Nat /\ pfds_ \in Seq(S)
    BY <1>1 DEF TypeOK
  <2>2. index_[c] \in 0 .. n - 1 /\ RealFd(pfds_[k]) = fd_[c]
    BY <1>1 DEF IndexMatches
  <2>3. \A i \in 1 .. n : pfds_[i] \in S
    BY <1>1, EntryType
  <2>4. k \in 1 .. n /\ n \in 1 .. n
    BY <2>1, <2>2
  <2> QED BY <2>1, <2>2, <2>3, <2>4
<1>3. /\ VictimFd = RealFd(pfds_[n])
      /\ VictimFd \in DOMAIN channel_table_
      /\ v \in Channels
      /\ index_[v] = n - 1
      /\ fd_[v] = VictimFd
  <2>1. VictimFd = RealFd(pfds_[n])
    BY DEF VictimFd, RealFd
  <2>2. VictimFd \in DOMAIN channel_table_ /\ index_[v] = n - 1
    BY <1>1, <1>2, <2>1 DEF EntriesMatch
  <2>3. v \in Channels /\ fd_[v] = VictimFd
    BY <1>1, <2>2 DEF TypeOK, TableMatches
  <2> QED BY <2>1, <2>2, <2>3
<1>4. /\ pfds_' \in Seq(S)
      /\ Len(pfds_') = n - 1
      /\ \A j \in 1 .. n - 1 : pfds_'[j] = IF j = k THEN pfds_[n] ELSE pfds_[j]
  <2>1. pfds_' = [j \in 1 .. n - 1 |-> IF j = k THEN pfds_[n] ELSE pfds_[j]]
    BY DEF RemoveChannel, WithoutEntry
  <2> HIDE DEF S
  <2>2. \A j \in 1 .. n - 1 : (IF j = k THEN pfds_[n] ELSE pfds_[j]) \in S
    BY <1>2
  <2>3. n - 1 \in Nat
    BY <1>2
  <2> QED BY <2>1, <2>2, <2>3
<1>5. /\ DOMAIN channel_table_' = DOMAIN channel_table_ \ {fd_[c]}
      /\ \A f \in DOMAIN channel_table_' : channel_table_'[f] = channel_table_[f]
      /\ channel_table_' \in [DOMAIN channel_table_' -> Channels]
  BY <1>1 DEF RemoveChannel, WithoutFd, TypeOK
<1>6. index_' = IF k = n THEN index_ ELSE [index_ EXCEPT ![v] = index_[c]]
  BY <1>2 DEF RemoveChannel
<1>7. /\ index_' \in [Channels -> Nat \cup {-1}]
      /\ k # n => index_'[v] = k - 1
      /\ \A d \in Channels : d # v \/ k = n => index_'[d] = index_[d]
  <2>1. index_ \in [Channels -> Nat \cup {-1}] /\ index_[c] = k - 1 /\ index_[c] \in Nat
    BY <1>1, <1>2 DEF TypeOK
  <2> HIDE DEF k, v
  <2> QED BY <2>1, <1>3, <1>6
<1> HIDE DEF n, k, S, v
<1>8. TypeOK'
  BY <1>1, <1>4, <1>5, <1>7 DEF TypeOK, S
<1>9. FdsDistinct' /\ TableMatches'
  BY <1>1, <1>5 DEF FdsDistinct, TableMatches, Live
\* A channel that is still registered was registered, and is not c.
<1>10. ASSUME NEW d \in Channels, Registered(d)'
       PROVE  /\ Registered(d)
              /\ d # c
              /\ index_[d] \in 0 .. n - 1
              /\ index_[d] # k - 1
              /\ RealFd(pfds_[index_[d] + 1]) = fd_[d]
              /\ pfds_[index_[d] + 1].events = events_[d]
  <2>1. Registered(d) /\ d # c
    BY <1>1, <1>5, <1>10 DEF Registered, Live
  <2>2. index_[d] # index_[c]
    BY <1>1, <2>1, IndexInjective
  <2>3. /\ index_[d] \in 0 .. n - 1
        /\ RealFd(pfds_[index_[d] + 1]) = fd_[d]
        /\ pfds_[index_[d] + 1].events = events_[d]
    BY <1>1, <2>1 DEF IndexMatches, n
  <2> QED BY <1>2, <2>1, <2>2, <2>3 DEF k
<1>11. ASSUME NEW d \in Channels, Registered(d)'
       PROVE  /\ index_'[d] \in 0 .. Len(pfds_') - 1
              /\ RealFd(pfds_'[index_'[d] + 1]) = fd_'[d]
              /\ pfds_'[index_'[d] + 1].events = events_'[d]
              /\ pfds_'[index_'[d] + 1] = pfds_[index_[d] + 1]
  <2>1. /\ index_[d] \in 0 .. n - 1
        /\ index_[d] # k - 1
        /\ RealFd(pfds_[index_[d] + 1]) = fd_[d]
        /\ pfds_[index_[d] + 1].events = events_[d]
    BY <1>10, <1>11
  <2>2. CASE index_[d] = n - 1
    <3>1. k # n
      BY <2>1, <2>2
    <3>2. d = v
      <4>1. RealFd(pfds_[n]) = fd_[d]
        BY <2>1, <2>2, <1>2
      <4>2. fd_[d] = fd_[v]
        BY <4>1, <1>3
      <4> QED BY <4>2, <1>1, <1>3, <1>10, <1>11 DEF FdsDistinct, Registered
    <3>3. index_'[d] = k - 1 /\ k \in 1 .. n - 1
      BY <3>1, <3>2, <1>2, <1>7
    <3>4. pfds_'[index_'[d] + 1] = pfds_[n]
      BY <3>3, <1>2, <1>4
    <3>5. pfds_[index_[d] + 1] = pfds_[n]
      BY <2>2, <1>2
    <3> QED BY <2>1, <3>3, <3>4, <3>5, <1>1, <1>2, <1>4
  <2>3. CASE index_[d] # n - 1
    <3>1. d # v
      BY <2>3, <1>3
    <3>2. index_'[d] = index_[d]
      BY <3>1, <1>7
    <3>3. index_[d] + 1 \in 1 .. n - 1 /\ index_[d] + 1 # k
      BY <2>1, <2>3, <1>2
    <3>4. pfds_'[index_'[d] + 1] = pfds_[index_[d] + 1]
      BY <3>2, <3>3, <1>4
    <3> QED BY <2>1, <2>3, <3>2, <3>3, <3>4, <1>1, <1>2, <1>4
  <2> QED BY <2>2, <2>3
<1>12. IndexMatches'
  BY <1>11 DEF IndexMatches
<1>13. ASSUME NEW i \in 1 .. Len(pfds_')
       PROVE  /\ RealFd(pfds_'[i]) \in DOMAIN channel_table_'
              /\ index_'[channel_table_'[RealFd(pfds_'[i])]] = i - 1
  \* The position in the old vector of what is now at i.
  <2> DEFINE o == IF i = k THEN n ELSE i
             f == RealFd(pfds_[o])
             d == channel_table_[f]
  <2>1. o \in 1 .. n /\ o # k /\ pfds_'[i] = pfds_[o] /\ i \in 1 .. n - 1
    BY <1>2, <1>4
  <2>2. /\ f \in DOMAIN channel_table_
        /\ index_[d] = o - 1
        /\ d \in Channels
        /\ fd_[d] = f
    <3> HIDE DEF o
    <3>1. f \in DOMAIN channel_table_ /\ index_[d] = o - 1
      BY <2>1, <1>1 DEF EntriesMatch, n
    <3> QED BY <3>1, <1>1 DEF TypeOK, TableMatches
  <2>3. f # fd_[c]
    <3> HIDE DEF o
    <3>1. d # c
      BY <2>1, <2>2, <1>2 DEF k
    <3>2. Live(c)
      BY <1>1 DEF Registered
    <3> QED BY <3>1, <3>2, <2>2, <1>1 DEF FdsDistinct
  <2>4. f \in DOMAIN channel_table_' /\ channel_table_'[f] = d
    BY <2>2, <2>3, <1>5
  <2>5. index_'[d] = i - 1
    <3>1. CASE i = k
      <4>1. k # n /\ d = v
        <5>1. k # n /\ o = n
          BY <3>1, <2>1, <1>2
        <5>2. f = VictimFd
          BY <5>1, <1>3
        <5> QED BY <5>1, <5>2 DEF v
      <4> QED BY <4>1, <3>1, <1>7
    <3>2. CASE i # k
      <4>1. index_[d] = i - 1 /\ i - 1 # n - 1
        BY <3>2, <2>1, <2>2, <1>2
      <4>2. d # v
        BY <4>1, <1>3
      <4> QED BY <4>1, <4>2, <2>2, <1>7
    <3> QED BY <3>1, <3>2
  <2> QED BY <2>1, <2>4, <2>5
<1>14. EntriesMatch'
  BY <1>13 DEF EntriesMatch
<1>15. PollerConsistent'
  BY <1>8, <1>9, <1>12, <1>14 DEF PollerConsistent
<1>16. ~Registered(c)'
  BY <1>1, <1>5 DEF Registered, Live
<1>17. \A d \in Channels : d # c => (Registered(d)' <=> Registered(d))
  BY <1>1, <1>5 DEF Registered, Live, FdsDistinct
<1>18. KeepsOthers(c)
  BY <1>11, <1>17 DEF KeepsOthers
<1> QED BY <1>15, <1>16, <1>18

\* Steps that leave the channels, the table and the vector alone.
LEMMA UnchangedConsistent ==
    ASSUME PollerConsistent,
           UNCHANGED <<fd_, events_, index_, pfds_, channel_table_>>,
           active_channels' \subseteq Channels \X SUBSET Revents
    PROVE  PollerConsistent'
BY DEF PollerConsistent, TypeOK, FdsDistinct, TableMatches, IndexMatches,
       EntriesMatch, Registered, Live, RealFd

\* Poll reports registered channels: every answered entry is in the table.
LEMMA PollType ==
    ASSUME PollerConsistent, Poll
    PROVE  active_channels' \subseteq Channels \X SUBSET Revents
<1>1. PICK revents \in [DOMAIN pfds_ -> SUBSET Revents] :
          /\ \A i \in DOMAIN pfds_ :
                revents[i] # {} => MayReport(pfds_[i], revents[i])
          /\ active_channels' = FillActiveChannels(revents)
  BY DEF Poll
<1>2. TypeOK /\ EntriesMatch /\ DOMAIN pfds_ = 1 .. Len(pfds_)
  BY DEF PollerConsistent, TypeOK
<1>3. ASSUME NEW i \in DOMAIN pfds_, revents[i] # {}
      PROVE  channel_table_[pfds_[i].fd] \in Channels
  <2>1. pfds_[i].fd \in Int /\ pfds_[i].fd >= 0
    BY <1>1, <1>2, <1>3, EntryType DEF MayReport
  <2>2. RealFd(pfds_[i]) = pfds_[i].fd
    BY <2>1 DEF RealFd
  <2>3. pfds_[i].fd \in DOMAIN channel_table_
    BY <1>2, <2>2 DEF EntriesMatch
  <2> QED BY <1>2, <2>3 DEF TypeOK
<1> QED BY <1>1, <1>3 DEF FillActiveChannels

\* Every step keeps the vector, the table and the indices consistent.
LEMMA NextConsistent == PollerConsistent /\ [Next]_vars => PollerConsistent'
<1> SUFFICES ASSUME PollerConsistent, [Next]_vars
             PROVE  PollerConsistent'
  OBVIOUS
<1>0. events_ \in [Channels -> SUBSET IOEvents]
  BY DEF PollerConsistent, TypeOK
<1>1. ASSUME NEW c \in Channels, NEW fd \in Fds, NewChannel(c, fd)
      PROVE  PollerConsistent'
  BY <1>1, NewChannelConsistent
<1>2. ASSUME NEW c \in Channels, DestroyChannel(c)
      PROVE  PollerConsistent'
  BY <1>2, DestroyChannelConsistent
<1>3. ASSUME NEW c \in Channels, NEW ev \in SUBSET IOEvents,
             Registered(c) \/ Fresh(c), UpdateChannel(c, ev)
      PROVE  PollerConsistent'
  <2>1. CASE Registered(c)
    BY <2>1, <1>3, UpdateRegistered
  <2>2. CASE Live(c) /\ ~Registered(c)
    BY <2>2, <1>3, UpdateFresh
  <2> QED BY <2>1, <2>2, <1>3 DEF Fresh
<1>4. ASSUME NEW c \in Channels,
             EnableReading(c) \/ EnableWriting(c) \/ DisableWriting(c) \/ DisableAll(c)
      PROVE  PollerConsistent'
  <2>1. PICK ev \in SUBSET IOEvents :
            (Registered(c) \/ Fresh(c)) /\ UpdateChannel(c, ev)
    BY <1>0, <1>4 DEF EnableReading, EnableWriting, DisableWriting, DisableAll, IOEvents
  <2> QED BY <2>1, <1>3
<1>5. ASSUME NEW c \in Channels, RemoveChannel(c)
      PROVE  PollerConsistent'
  BY <1>5, RemoveChannelConsistent
<1>6. CASE Poll
  <2>1. UNCHANGED <<fd_, events_, index_, pfds_, channel_table_>>
    BY <1>6 DEF Poll
  <2> QED BY <1>6, <2>1, PollType, UnchangedConsistent
<1>7. CASE HandleEvents \/ UNCHANGED vars
  <2>1. /\ UNCHANGED <<fd_, events_, index_, pfds_, channel_table_>>
        /\ active_channels' \subseteq Channels \X SUBSET Revents
    BY <1>7 DEF HandleEvents, vars, PollerConsistent, TypeOK
  <2> QED BY <2>1, UnchangedConsistent
<1> QED BY <1>1, <1>2, <1>4, <1>5, <1>6, <1>7 DEF Next

\* The vector, the table and the indices always describe the same channels.
THEOREM Consistency == Spec => []PollerConsistent
BY InitConsistent, NextConsistent, PTL DEF Spec

-----------------------------------------------------------------------------
(* The Poller implements PollSet.                                          *)

\* The poll set an entry-preserving step leaves alone, but for channel c.
LEMMA OthersKept ==
    ASSUME NEW c \in Channels, KeepsOthers(c)
    PROVE  \A d \in Channels : d # c => PolledEntry(d)' = PolledEntry(d)
BY DEF KeepsOthers, PolledEntry

\* PollSet allows what UpdateChannel makes of an entry.
LEMMA TurnedAllowed ==
    ASSUME NEW e \in PS!Entries, NEW ev
    PROVE  Turned(e, ev) \in PS!MayBecome(e, ev)
<1>1. e.polled \in BOOLEAN /\ e.ignored \in BOOLEAN
  BY DEF PS!Entries
<1> DEFINE ign == Turned(e, ev).ignored
<1>2. Turned(e, ev) = [polled |-> TRUE, events |-> ev, ignored |-> ign] /\ ign \in BOOLEAN
  BY <1>1, Zenon DEF Turned
<1>3. ign \in PS!MayIgnore(e, ev)
  <2>1. CASE e.ignored \/ (~e.polled /\ ev = {})
    BY <1>2, <2>1 DEF PS!MayIgnore
  <2>2. CASE ~e.ignored /\ (e.polled \/ ev # {})
    <3>1. ign = (ev = {})
      BY <1>1, <2>2, Zenon DEF Turned
    <3> QED BY <2>2, <3>1, Zenon DEF PS!MayIgnore
  <2> QED BY <2>1, <2>2
<1> HIDE DEF ign
<1> QED BY <1>2, <1>3 DEF PS!MayBecome

\* UpdateChannel is PollSet's.
LEMMA UpdateRefines ==
    ASSUME PollerConsistent, NEW c \in Channels, NEW ev \in SUBSET IOEvents,
           Registered(c) \/ Fresh(c), UpdateChannel(c, ev)
    PROVE  PS!UpdateChannel(c, ev)
<1>1. /\ KeepsOthers(c)
      /\ PolledEntry(c)' = Turned(PolledEntry(c), ev)
  <2>1. CASE Registered(c)
    BY <2>1, UpdateRegistered
  <2>2. CASE Live(c) /\ ~Registered(c)
    BY <2>2, UpdateFresh
  <2> QED BY <2>1, <2>2 DEF Fresh
<1>2. active_channels' = active_channels
  BY DEF UpdateChannel
<1> DEFINE m == [d \in Channels |-> PolledEntry(d)]
<1>3. m' = [m EXCEPT ![c] = Turned(m[c], ev)]
  BY <1>1, OthersKept, Zenon
<1>4. m[c] = PolledEntry(c)
  OBVIOUS
<1>5. PolledEntry(c) \in PS!Entries
  <2>1. Registered(c) => pfds_[index_[c] + 1].events \in SUBSET IOEvents
    <3> SUFFICES ASSUME Registered(c) PROVE pfds_[index_[c] + 1].events \in SUBSET IOEvents
      OBVIOUS
    <3> QED BY DEF PollerConsistent, TypeOK, IndexMatches
  <2> QED BY <2>1 DEF PolledEntry, PS!Entries, PS!IOEvents, IOEvents
<1>6. Turned(m[c], ev) \in PS!MayBecome(m[c], ev)
  BY <1>4, <1>5, TurnedAllowed
<1> HIDE DEF m
<1>7. m' \in {[m EXCEPT ![c] = e] : e \in PS!MayBecome(m[c], ev)}
  BY <1>3, <1>6
<1> QED BY <1>2, <1>7 DEF PS!UpdateChannel, m

\* RemoveChannel is PollSet's: the entry that moves stays the same entry.
LEMMA RemoveRefines ==
    ASSUME PollerConsistent, NEW c \in Channels, RemoveChannel(c)
    PROVE  PS!RemoveChannel(c)
<1>1. Registered(c) /\ active_channels' = active_channels
  BY DEF RemoveChannel
<1>2. KeepsOthers(c) /\ ~Registered(c)'
  BY RemoveChannelConsistent
<1> DEFINE m == [d \in Channels |-> PolledEntry(d)]
<1>3. PolledEntry(c)' = PS!NotPolled
  BY <1>2 DEF PolledEntry, PS!NotPolled
<1>4. m[c].polled
  BY <1>1 DEF PolledEntry
<1>5. m' = [m EXCEPT ![c] = PS!NotPolled]
  BY <1>2, <1>3, OthersKept, Zenon
<1> QED BY <1>1, <1>4, <1>5 DEF PS!RemoveChannel

\* Poll is PollSet's: what it reports for a channel is what poll(2) answered
\* for the entry of that channel.
LEMMA PollRefines ==
    ASSUME PollerConsistent, Poll
    PROVE  PS!Poll
<1> DEFINE m == [d \in Channels |-> PolledEntry(d)]
<1>1. PICK revents \in [DOMAIN pfds_ -> SUBSET Revents] :
          /\ \A i \in DOMAIN pfds_ :
                revents[i] # {} => MayReport(pfds_[i], revents[i])
          /\ active_channels' = FillActiveChannels(revents)
  BY DEF Poll
<1>2. /\ TypeOK /\ EntriesMatch /\ TableMatches
      /\ DOMAIN pfds_ = 1 .. Len(pfds_)
      /\ active_channels = {}
  BY DEF PollerConsistent, TypeOK, Poll
<1>3. m' = m
  BY DEF Poll, PolledEntry, Registered, Live
\* The channel reported for an answered entry is the one whose entry it is.
<1>4. ASSUME NEW i \in DOMAIN pfds_, revents[i] # {}
      PROVE  LET c == channel_table_[pfds_[i].fd] IN
             /\ c \in Channels
             /\ index_[c] = i - 1
             /\ PS!MayReport(m[c], revents[i])
  <2> DEFINE c == channel_table_[pfds_[i].fd]
  <2>1. /\ pfds_[i].fd \in Int
        /\ MayReport(pfds_[i], revents[i])
        /\ pfds_[i].fd >= 0
    BY <1>1, <1>2, <1>4, EntryType DEF MayReport
  <2>2. RealFd(pfds_[i]) = pfds_[i].fd
    BY <2>1 DEF RealFd
  <2>3. pfds_[i].fd \in DOMAIN channel_table_ /\ index_[c] = i - 1
    BY <1>2, <2>2 DEF EntriesMatch
  <2>4. c \in Channels /\ fd_[c] = pfds_[i].fd
    BY <1>2, <2>3 DEF TypeOK, TableMatches
  <2>5. Registered(c)
    BY <2>1, <2>3, <2>4 DEF Registered, Live, NoFd
  <2> HIDE DEF c
  <2>6. pfds_[index_[c] + 1] = pfds_[i]
    BY <1>2, <2>3
  <2>7. m[c] = [polled |-> TRUE, events |-> pfds_[i].events, ignored |-> FALSE]
    <3>1. m[c] = [polled |-> TRUE, events |-> pfds_[i].events,
                  ignored |-> pfds_[i].fd < 0]
      BY <2>4, <2>5, <2>6 DEF PolledEntry
    <3>2. (pfds_[i].fd < 0) = FALSE
      BY <2>1
    <3> QED BY <3>1, <3>2
  <2>8. m[c].polled /\ ~m[c].ignored /\ m[c].events = pfds_[i].events
    <3> HIDE DEF m
    <3>1. /\ m[c].polled = TRUE
          /\ m[c].ignored = FALSE
          /\ m[c].events = pfds_[i].events
      BY <2>7
    <3> QED BY <3>1, Zenon
  <2>9. PS!MayReport(m[c], revents[i])
    BY <1>4, <2>1, <2>8 DEF PS!MayReport, MayReport
  <2> QED BY <2>3, <2>4, <2>9 DEF c
<1> HIDE DEF m
<1>5. ASSUME NEW r \in active_channels'
      PROVE  \E i \in DOMAIN pfds_ :
                /\ revents[i] # {}
                /\ r = <<channel_table_[pfds_[i].fd], revents[i]>>
  BY <1>1 DEF FillActiveChannels
<1>6. active_channels' \subseteq {r \in Channels \X SUBSET Revents :
                                   PS!MayReport(m[r[1]], r[2])}
  <2> SUFFICES ASSUME NEW r \in active_channels'
               PROVE  /\ r \in Channels \X SUBSET Revents
                      /\ PS!MayReport(m[r[1]], r[2])
    OBVIOUS
  <2>1. PICK i \in DOMAIN pfds_ :
            /\ revents[i] # {}
            /\ r = <<channel_table_[pfds_[i].fd], revents[i]>>
    BY <1>5
  <2>2. r[1] = channel_table_[pfds_[i].fd] /\ r[2] = revents[i]
    BY <2>1
  <2> QED BY <1>1, <1>4, <2>1, <2>2
<1>7. ASSUME NEW r \in active_channels', NEW s \in active_channels', r[1] = s[1]
      PROVE  r = s
  <2>1. PICK i \in DOMAIN pfds_ :
            /\ revents[i] # {}
            /\ r = <<channel_table_[pfds_[i].fd], revents[i]>>
    BY <1>5
  <2>2. PICK j \in DOMAIN pfds_ :
            /\ revents[j] # {}
            /\ s = <<channel_table_[pfds_[j].fd], revents[j]>>
    BY <1>5
  <2>3. i - 1 = j - 1
    BY <1>4, <1>7, <2>1, <2>2
  <2>4. i = j
    BY <1>2, <2>3
  <2> QED BY <2>1, <2>2, <2>4
<1> QED BY <1>2, <1>3, <1>6, <1>7 DEF PS!Poll, m

\* Initial states map to initial states.
LEMMA InitRefines == Init => PS!Init
BY DEF Init, PS!Init, PS!NotPolled, PolledEntry, Registered, Live

\* Every step maps to a step of PollSet or to one that changes nothing there.
LEMMA NextRefines == PollerConsistent /\ [Next]_vars => [PS!Next]_PS!psvars
<1> SUFFICES ASSUME PollerConsistent, [Next]_vars
             PROVE  [PS!Next]_PS!psvars
  OBVIOUS
<1> DEFINE m == [d \in Channels |-> PolledEntry(d)]
<1>0. events_ \in [Channels -> SUBSET IOEvents]
  BY DEF PollerConsistent, TypeOK
<1>1. ASSUME NEW c \in Channels, NEW fd \in Fds, NewChannel(c, fd)
      PROVE  [PS!Next]_PS!psvars
  <2>1. fd \notin DOMAIN channel_table_
    BY <1>1 DEF NewChannel, PollerConsistent, TableMatches, TypeOK
  <2>2. ~Registered(c) /\ ~Registered(c)'
    BY <1>1, <2>1 DEF NewChannel, Registered, PollerConsistent, TypeOK
  <2>3. \A d \in Channels : d # c => PolledEntry(d)' = PolledEntry(d)
    BY <1>1 DEF NewChannel, PolledEntry, Registered, Live, PollerConsistent, TypeOK
  <2>4. m' = m
    BY <2>2, <2>3 DEF PolledEntry
  <2> QED BY <1>1, <2>4 DEF PS!psvars, NewChannel
<1>2. ASSUME NEW c \in Channels, DestroyChannel(c)
      PROVE  [PS!Next]_PS!psvars
  <2>1. ~Registered(c) /\ ~Registered(c)'
    BY <1>2 DEF DestroyChannel, Registered, Live, PollerConsistent, TypeOK
  <2>2. \A d \in Channels : d # c => PolledEntry(d)' = PolledEntry(d)
    BY <1>2 DEF DestroyChannel, PolledEntry, Registered, Live, PollerConsistent, TypeOK
  <2>3. m' = m
    BY <2>1, <2>2 DEF PolledEntry
  <2> QED BY <1>2, <2>3 DEF PS!psvars, DestroyChannel
<1>3. ASSUME NEW c \in Channels,
             EnableReading(c) \/ EnableWriting(c) \/ DisableWriting(c) \/ DisableAll(c)
      PROVE  [PS!Next]_PS!psvars
  <2>1. PICK ev \in SUBSET IOEvents :
            (Registered(c) \/ Fresh(c)) /\ UpdateChannel(c, ev)
    BY <1>0, <1>3 DEF EnableReading, EnableWriting, DisableWriting, DisableAll, IOEvents
  <2>2. PS!UpdateChannel(c, ev)
    BY <2>1, UpdateRefines
  <2> QED BY <2>2 DEF PS!Next, PS!IOEvents, IOEvents
<1>4. ASSUME NEW c \in Channels, RemoveChannel(c)
      PROVE  [PS!Next]_PS!psvars
  <2>1. PS!RemoveChannel(c)
    BY <1>4, RemoveRefines
  <2> QED BY <2>1 DEF PS!Next
<1>5. CASE Poll
  BY <1>5, PollRefines DEF PS!Next
<1>6. CASE HandleEvents
  <2>1. m' = m
    BY <1>6 DEF HandleEvents, PolledEntry, Registered, Live
  <2>2. \E r \in active_channels : PS!HandleEvents(r)
    BY <1>6, <2>1 DEF HandleEvents, PS!HandleEvents
  <2> QED BY <2>2 DEF PS!Next
<1>7. CASE UNCHANGED vars
  <2>1. m' = m /\ active_channels' = active_channels
    BY <1>7 DEF vars, PolledEntry, Registered, Live
  <2> QED BY <2>1 DEF PS!psvars
<1> QED BY <1>1, <1>2, <1>3, <1>4, <1>5, <1>6, <1>7 DEF Next

\* The vector, the table and the indices implement the poll set: no operation
\* on a channel ever changes what poll(2) watches for another.
THEOREM Refinement == Spec => ImplementsPollSet
<1>1. Spec => []PollerConsistent
  BY Consistency
<1>2. Init => PS!Init
  BY InitRefines
<1>3. PollerConsistent /\ [Next]_vars => [PS!Next]_PS!psvars
  BY NextRefines
<1> QED BY <1>1, <1>2, <1>3, PTL DEF Spec, PS!Spec, ImplementsPollSet

=============================================================================
