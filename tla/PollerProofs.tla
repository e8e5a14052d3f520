----------------------------- MODULE PollerProofs -----------------------------
(***************************************************************************)
(* Proofs about Poller, for every set of channels and descriptors and      *)
(* every initial size of the event list: index_, channels_ and the epoll   *)
(* set agree, and a pointer to a destroyed channel is kept only if the     *)
(* channel was registered when its owner destroyed it.                     *)
(***************************************************************************)
EXTENDS Poller, TLAPS

(* An entry of epoll without a channel is empty.                           *)
LEMMA EntryPtr ==
  ASSUME TypeOK, NEW f \in Fds
  PROVE  /\ f \notin Watched <=> epoll[f] = Unwatched
         /\ f \in Watched => epoll[f].ptr \in Channels
                             /\ epoll[f].events \in SUBSET Interest
BY NoneAssumption DEF TypeOK, Entry, Watched, Unwatched

(* Of a live channel, epoll watches its descriptor if index_ is kAdded.    *)
LEMMA WatchedIsAdded ==
  ASSUME IInv, NEW c \in Alive
  PROVE  /\ c \in Channels /\ fd[c] \in Fds
         /\ fd[c] \in Watched <=> index[c] = "kAdded"
<1>1. c \in Channels /\ fd[c] \in Fds
  BY DEF IInv, TypeOK, Alive
<1>2. fd[c] \notin Watched <=> epoll[fd[c]] = Unwatched
  BY <1>1, EntryPtr DEF IInv
<1>3. epoll[fd[c]] = IF index[c] = "kAdded"
                     THEN [ptr |-> c, events |-> events[c]] ELSE Unwatched
  BY DEF IInv, IndexTellsEpoll
<1>4. [ptr |-> c, events |-> events[c]] # Unwatched
  BY <1>1, NoneAssumption DEF Unwatched
<1>. QED
  BY <1>1, <1>2, <1>3, <1>4

(* A descriptor that the kernel may give out is watched for nobody, and    *)
(* channels_ has at most the channel of an owner that did not remove it.   *)
LEMMA UnusedFdIsUnknown ==
  ASSUME IInv, NEW f \in Fds, f \notin {fd[d] : d \in Alive} \cup closing
  PROVE  epoll[f] = Unwatched /\ channels[f] \in {None} \cup dropped
<1>1. f \notin Watched
  BY DEF IInv, IndexTellsEpoll
<1>2. channels[f] \in {None} \cup dropped
  <2> SUFFICES ASSUME channels[f] # None, channels[f] \notin dropped
               PROVE  FALSE
    OBVIOUS
  <2>1. channels[f] \in Channels /\ fd[channels[f]] = f
    BY DEF IInv, TypeOK, MapTellsIndex
  <2>2. channels[f] \in Alive
    BY <2>1, NoneAssumption DEF Alive
  <2>. QED
    BY <2>1, <2>2
<1>. QED
  BY <1>1, <1>2, EntryPtr DEF IInv

-----------------------------------------------------------------------------
(* epoll_ctl, asked for what updateChannel asks for, does not fail.        *)
LEMMA UpdateSucceeds ==
  ASSUME IInv, NEW c \in Alive, NEW interest \in SUBSET Interest,
         Update(c, interest)
  PROVE  /\ failed' = FALSE
         /\ epoll' = [epoll EXCEPT ![fd[c]] =
                        IF index[c] = "kAdded" /\ interest = {}
                        THEN Unwatched
                        ELSE [ptr |-> c, events |-> interest]]
<1>1. c \in Channels /\ fd[c] \in Fds
      /\ (fd[c] \in Watched <=> index[c] = "kAdded")
  BY WatchedIsAdded
<1>2. failed = FALSE
  BY DEF IInv, CtlNeverFails
<1>3. CASE index[c] # "kAdded"
  BY <1>1, <1>2, <1>3 DEF Update, Ctl, CtlFails
<1>4. CASE index[c] = "kAdded" /\ interest = {}
  BY <1>1, <1>2, <1>4 DEF Update, Ctl, CtlFails
<1>5. CASE index[c] = "kAdded" /\ interest # {}
  BY <1>1, <1>2, <1>5 DEF Update, Ctl, CtlFails
<1>. QED
  BY <1>3, <1>4, <1>5

(* A change of interest keeps the registrations in agreement.              *)
LEMMA UpdateKeeps ==
  ASSUME IInv, NEW c \in Alive, NEW interest \in SUBSET Interest,
         Update(c, interest),
         UNCHANGED <<fd, revents, ready, closing, dropped, listSize,
                     activeChannels, lpc>>
  PROVE  IInv'
<1>1. c \in Channels /\ fd[c] \in Fds
  BY WatchedIsAdded
<1>2. Alive' = Alive
  BY DEF Alive
<1>3. /\ failed' = FALSE
      /\ epoll' = [epoll EXCEPT ![fd[c]] =
                     IF index[c] = "kAdded" /\ interest = {}
                     THEN Unwatched
                     ELSE [ptr |-> c, events |-> interest]]
  BY UpdateSucceeds
<1>4. /\ events' = [events EXCEPT ![c] = interest]
      /\ index' = [index EXCEPT ![c] =
                     IF @ = "kAdded" /\ interest = {} THEN "kDeleted"
                                                      ELSE "kAdded"]
      /\ channels' = IF index[c] = "kNew" THEN [channels EXCEPT ![fd[c]] = c]
                                          ELSE channels
  BY DEF Update
<1>5. TypeOK'
  <2>1. epoll' \in [Fds -> Entry]
    BY <1>1, <1>3 DEF IInv, TypeOK, Entry
  <2>. QED
    BY <1>1, <1>3, <1>4, <2>1 DEF IInv, TypeOK
<1>6. OneChannelPerFd' /\ OnlyAliveRegistered'
  BY <1>1, <1>2, <1>4 DEF IInv, TypeOK, OneChannelPerFd, OnlyAliveRegistered
<1>7. IndexTellsEpoll'
  <2>1. ASSUME NEW d \in Alive
        PROVE  epoll'[fd[d]] = IF index'[d] = "kAdded"
                               THEN [ptr |-> d, events |-> events'[d]]
                               ELSE Unwatched
    <3>1. d \in Channels /\ fd[d] \in Fds
      BY WatchedIsAdded
    <3>2. CASE d = c
      BY <1>1, <1>3, <1>4, <3>2 DEF IInv, TypeOK
    <3>3. CASE d # c
      <4>1. fd[d] # fd[c]
        BY <3>3 DEF IInv, OneChannelPerFd
      <4>. QED
        BY <1>1, <1>3, <1>4, <3>1, <3>3, <4>1
           DEF IInv, TypeOK, IndexTellsEpoll
    <3>. QED
      BY <3>2, <3>3
  <2>2. ASSUME NEW f \in Fds, epoll'[f].ptr # None
        PROVE  \/ epoll'[f].ptr \in Alive /\ fd[epoll'[f].ptr] = f
               \/ epoll'[f].ptr \in dropped /\ f \in closing
    <3>1. CASE f = fd[c]
      BY <1>1, <1>3, <2>2, <3>1 DEF IInv, TypeOK, Unwatched
    <3>2. CASE f # fd[c]
      BY <1>1, <1>3, <2>2, <3>2 DEF IInv, TypeOK, IndexTellsEpoll, Watched
    <3>. QED
      BY <3>1, <3>2
  <2>. QED
    BY <1>2, <2>1, <2>2 DEF IndexTellsEpoll, Watched
<1>8. MapTellsIndex'
  <2>1. ASSUME NEW d \in Alive
        PROVE  IF index'[d] = "kNew"
               THEN channels'[fd[d]] \in {None} \cup dropped
               ELSE channels'[fd[d]] = d
    <3>1. d \in Channels /\ fd[d] \in Fds
      BY WatchedIsAdded
    <3>2. CASE d = c
      BY <1>1, <1>4, <3>2 DEF IInv, TypeOK, MapTellsIndex
    <3>3. CASE d # c
      <4>1. fd[d] # fd[c]
        BY <3>3 DEF IInv, OneChannelPerFd
      <4>. QED
        BY <1>1, <1>4, <3>1, <3>3, <4>1 DEF IInv, TypeOK, MapTellsIndex
    <3>. QED
      BY <3>2, <3>3
  <2>2. ASSUME NEW f \in Fds, channels'[f] # None
        PROVE  channels'[f] \in dropped \/ fd[channels'[f]] = f
    BY <1>1, <1>4, <2>2 DEF IInv, TypeOK, MapTellsIndex
  <2>. QED
    BY <1>2, <2>1, <2>2 DEF MapTellsIndex
<1>9. ActiveRegistered'
  BY <1>1, <1>4 DEF IInv, TypeOK, ActiveRegistered
<1>. QED
  BY <1>3, <1>5, <1>6, <1>7, <1>8, <1>9 DEF IInv, CtlNeverFails

(* A new channel, on a descriptor that nobody has, is not registered.      *)
LEMMA BuildKeeps ==
  ASSUME IInv, NEW c \in Channels, NEW f \in Fds, Build(c, f)
  PROVE  IInv'
<1>1. /\ c \notin Alive /\ c \notin dropped /\ f \notin closing
      /\ fd' = [fd EXCEPT ![c] = f]
      /\ UNCHANGED <<events, index, channels, epoll, closing, dropped, failed,
                     activeChannels, lpc>>
  BY DEF Build
<1>2. epoll[f] = Unwatched /\ channels[f] \in {None} \cup dropped
  BY UnusedFdIsUnknown DEF Build
<1>3. index[c] = "kNew" /\ c \notin activeChannels
  BY <1>1 DEF IInv, OnlyAliveRegistered, ActiveRegistered
<1>4. Alive' = Alive \cup {c}
  BY <1>1, NoneAssumption DEF IInv, TypeOK, Alive
<1>5. \A d \in Alive : d \in Channels /\ d # c /\ fd[d] # f /\ fd'[d] = fd[d]
  BY <1>1 DEF IInv, TypeOK, Alive, Build
<1>6. TypeOK'
  BY DEF IInv, TypeOK, Build
<1>7. OneChannelPerFd' /\ OnlyAliveRegistered'
  BY <1>1, <1>3, <1>4, <1>5
     DEF IInv, TypeOK, OneChannelPerFd, OnlyAliveRegistered
<1>8. IndexTellsEpoll'
  <2>1. \A d \in Alive' :
          epoll'[fd'[d]] = IF index'[d] = "kAdded"
                           THEN [ptr |-> d, events |-> events'[d]]
                           ELSE Unwatched
    BY <1>1, <1>2, <1>3, <1>4, <1>5 DEF IInv, TypeOK, IndexTellsEpoll
  <2>2. \A g \in Watched' :
          \/ epoll'[g].ptr \in Alive' /\ fd'[epoll'[g].ptr] = g
          \/ epoll'[g].ptr \in dropped' /\ g \in closing'
    BY <1>1, <1>4, <1>5 DEF IInv, IndexTellsEpoll, Watched
  <2>. QED
    BY <2>1, <2>2 DEF IndexTellsEpoll
<1>9. MapTellsIndex'
  <2>1. \A d \in Alive' :
          IF index'[d] = "kNew" THEN channels'[fd'[d]] \in {None} \cup dropped'
                                ELSE channels'[fd'[d]] = d
    BY <1>1, <1>2, <1>3, <1>4, <1>5 DEF IInv, TypeOK, MapTellsIndex
  <2>2. \A g \in Fds : channels'[g] # None =>
                         channels'[g] \in dropped' \/ fd'[channels'[g]] = g
    BY <1>1, NoneAssumption DEF IInv, TypeOK, MapTellsIndex, Alive
  <2>. QED
    BY <2>1, <2>2 DEF MapTellsIndex
<1>10. ActiveRegistered'
  BY <1>1 DEF IInv, ActiveRegistered
<1>. QED
  BY <1>1, <1>6, <1>7, <1>8, <1>9, <1>10 DEF IInv, CtlNeverFails

(* Removal, which the loop does among its functors, takes the channel out  *)
(* of both registrations.                                                  *)
LEMMA RemoveKeeps ==
  ASSUME IInv, NEW c \in Channels, Remove(c)
  PROVE  IInv'
<1>1. c \in Alive /\ fd[c] \in Fds
      /\ (fd[c] \in Watched <=> index[c] = "kAdded")
  BY WatchedIsAdded DEF Remove
<1>2. /\ channels' = [channels EXCEPT ![fd[c]] = None]
      /\ index' = [index EXCEPT ![c] = "kNew"]
      /\ UNCHANGED <<fd, events, closing, dropped, activeChannels, lpc>>
      /\ lpc = "functors"
  BY DEF Remove
<1>3. epoll' = [epoll EXCEPT ![fd[c]] = Unwatched] /\ failed' = FALSE
  <2>1. failed = FALSE
    BY DEF IInv, CtlNeverFails
  <2>2. CASE index[c] = "kAdded"
    BY <2>1, <2>2 DEF Remove, Ctl, CtlFails
  <2>3. CASE index[c] # "kAdded"
    <3>1. epoll[fd[c]] = Unwatched
      BY <1>1, <2>3, EntryPtr DEF IInv
    <3>. QED
      BY <1>1, <2>1, <2>3, <3>1 DEF Remove, IInv, TypeOK
  <2>. QED
    BY <2>2, <2>3
<1>4. Alive' = Alive
  BY <1>2 DEF Alive
<1>5. \A d \in Alive : /\ d \in Channels /\ fd[d] \in Fds
                       /\ d # c => fd[d] # fd[c]
  BY <1>1 DEF IInv, TypeOK, Alive, OneChannelPerFd
<1>6. TypeOK'
  <2>1. epoll' \in [Fds -> Entry]
    BY <1>3 DEF IInv, TypeOK, Entry
  <2>. QED
    BY <1>2, <1>3, <2>1 DEF IInv, TypeOK, Remove
<1>7. OneChannelPerFd' /\ OnlyAliveRegistered'
  BY <1>1, <1>2, <1>4 DEF IInv, TypeOK, OneChannelPerFd, OnlyAliveRegistered
<1>8. IndexTellsEpoll'
  <2>1. \A d \in Alive :
          epoll'[fd[d]] = IF index'[d] = "kAdded"
                          THEN [ptr |-> d, events |-> events[d]]
                          ELSE Unwatched
    BY <1>1, <1>2, <1>3, <1>5 DEF IInv, TypeOK, IndexTellsEpoll
  <2>2. ASSUME NEW f \in Fds, epoll'[f].ptr # None
        PROVE  \/ epoll'[f].ptr \in Alive /\ fd[epoll'[f].ptr] = f
               \/ epoll'[f].ptr \in dropped /\ f \in closing
    <3>1. f # fd[c]
      BY <1>1, <1>3, <2>2 DEF IInv, TypeOK, Unwatched
    <3>. QED
      BY <1>3, <2>2, <3>1 DEF IInv, TypeOK, IndexTellsEpoll, Watched
  <2>. QED
    BY <1>2, <1>4, <2>1, <2>2 DEF IndexTellsEpoll, Watched
<1>9. MapTellsIndex'
  <2>1. \A d \in Alive :
          IF index'[d] = "kNew" THEN channels'[fd[d]] \in {None} \cup dropped
                                ELSE channels'[fd[d]] = d
    BY <1>1, <1>2, <1>5 DEF IInv, TypeOK, MapTellsIndex
  <2>2. \A f \in Fds : channels'[f] # None =>
                         channels'[f] \in dropped \/ fd[channels'[f]] = f
    BY <1>1, <1>2 DEF IInv, TypeOK, MapTellsIndex
  <2>. QED
    BY <1>2, <1>4, <2>1, <2>2 DEF MapTellsIndex
<1>10. ActiveRegistered'
  BY <1>2 DEF IInv, ActiveRegistered
<1>. QED
  BY <1>3, <1>6, <1>7, <1>8, <1>9, <1>10 DEF IInv, CtlNeverFails

(* What the end of a channel leaves of the others.                         *)
LEMMA ForgetLeaves ==
  ASSUME IInv, NEW c \in Alive, Forget(c)
  PROVE  /\ c \in Channels /\ fd[c] \in Fds
         /\ Alive' = Alive \ {c}
         /\ \A d \in Alive' : /\ d \in Channels /\ fd'[d] = fd[d]
                               /\ fd[d] # fd[c]
                               /\ events'[d] = events[d]
                               /\ index'[d] = index[d]
         /\ \A d \in Channels : index'[d] # "kNew" => index[d] # "kNew" /\ d # c
         /\ \A d \in Channels \ {c} : fd'[d] = fd[d] /\ index'[d] = index[d]
<1>1. c \in Channels /\ fd[c] \in Fds
  BY DEF Alive, IInv, TypeOK
<1>2. Alive' = Alive \ {c}
  BY <1>1 DEF Forget, Alive, IInv, TypeOK
<1>3. \A d \in Alive' : d \in Alive /\ d \in Channels /\ d # c
  BY <1>2 DEF Alive
<1>4. \A d \in Alive' : fd[d] # fd[c]
  BY <1>3 DEF IInv, OneChannelPerFd
<1>. QED
  BY <1>1, <1>2, <1>3, <1>4 DEF Forget, IInv, TypeOK

(* ... and of the types.                                                   *)
LEMMA ForgetTypes ==
  ASSUME IInv, NEW c \in Channels, Forget(c), closing' \in SUBSET Fds,
         dropped' \in SUBSET Channels, ready' \in [Fds -> SUBSET Reports]
  PROVE  TypeOK'
BY DEF IInv, TypeOK, Forget

(* A channel that was removed can go at any time.                          *)
LEMMA DestroyKeeps ==
  ASSUME IInv, NEW c \in Channels, Destroy(c)
  PROVE  IInv'
<1>1. /\ c \in Alive /\ index[c] = "kNew" /\ Forget(c)
      /\ ready' = [ready EXCEPT ![fd[c]] = {}]
      /\ UNCHANGED <<closing, dropped, channels, epoll, failed,
                     activeChannels, lpc>>
  BY DEF Destroy, Forget
<1>2. /\ Alive' = Alive \ {c}
      /\ \A d \in Alive' : /\ d \in Channels /\ fd'[d] = fd[d]
                            /\ fd[d] # fd[c]
                            /\ events'[d] = events[d]
                            /\ index'[d] = index[d]
      /\ \A d \in Channels : index'[d] # "kNew" => index[d] # "kNew" /\ d # c
      /\ \A d \in Channels \ {c} : fd'[d] = fd[d] /\ index'[d] = index[d]
  BY <1>1, ForgetLeaves
<1>3. /\ epoll[fd[c]] = Unwatched /\ fd[c] \in Fds
      /\ channels[fd[c]] \in {None} \cup dropped
      /\ c \notin dropped /\ c \notin activeChannels
  <2>1. fd[c] \in Fds /\ c \notin dropped
    BY <1>1 DEF IInv, TypeOK, Alive, OnlyAliveRegistered
  <2>2. epoll[fd[c]] = Unwatched
    BY <1>1 DEF IInv, IndexTellsEpoll
  <2>3. channels[fd[c]] \in {None} \cup dropped
    BY <1>1 DEF IInv, MapTellsIndex
  <2>4. c \notin activeChannels
    BY <1>1, <2>1 DEF IInv, ActiveRegistered
  <2>. QED
    BY <2>1, <2>2, <2>3, <2>4
<1>4. TypeOK'
  <2>1. ready' \in [Fds -> SUBSET Reports]
    BY <1>1 DEF IInv, TypeOK
  <2>2. closing' \in SUBSET Fds /\ dropped' \in SUBSET Channels
    BY <1>1 DEF IInv, TypeOK
  <2>. QED
    BY <1>1, <2>1, <2>2, ForgetTypes
<1>5. OneChannelPerFd' /\ OnlyAliveRegistered'
  BY <1>1, <1>2 DEF IInv, OneChannelPerFd, OnlyAliveRegistered
<1>6. IndexTellsEpoll'
  <2>1. \A d \in Alive' :
          epoll[fd'[d]] = IF index'[d] = "kAdded"
                          THEN [ptr |-> d, events |-> events'[d]]
                          ELSE Unwatched
    BY <1>2 DEF IInv, IndexTellsEpoll
  <2>2. ASSUME NEW f \in Watched
        PROVE  \/ epoll[f].ptr \in Alive' /\ fd'[epoll[f].ptr] = f
               \/ epoll[f].ptr \in dropped /\ f \in closing
    <3>1. f # fd[c]
      BY <1>3, EntryPtr DEF IInv, Watched
    <3>2. \/ epoll[f].ptr \in Alive /\ fd[epoll[f].ptr] = f
          \/ epoll[f].ptr \in dropped /\ f \in closing
      BY DEF IInv, IndexTellsEpoll
    <3>. QED
      BY <1>2, <3>1, <3>2
  <2>3. Watched' = Watched
    BY <1>1 DEF Watched
  <2>. QED
    BY <1>1, <2>1, <2>2, <2>3 DEF IndexTellsEpoll
<1>7. MapTellsIndex'
  <2>1. \A d \in Alive' :
          IF index'[d] = "kNew" THEN channels[fd'[d]] \in {None} \cup dropped
                                ELSE channels[fd'[d]] = d
    BY <1>2 DEF IInv, MapTellsIndex
  <2>2. ASSUME NEW f \in Fds, channels[f] # None
        PROVE  channels[f] \in dropped \/ fd'[channels[f]] = f
    <3>1. channels[f] \in Channels
      BY <2>2 DEF IInv, TypeOK
    <3>2. CASE channels[f] = c
      BY <1>3, <2>2, <3>2, NoneAssumption DEF IInv, MapTellsIndex
    <3>3. CASE channels[f] # c
      BY <1>2, <2>2, <3>1, <3>3 DEF IInv, MapTellsIndex
    <3>. QED
      BY <3>2, <3>3
  <2>. QED
    BY <1>1, <2>1, <2>2 DEF MapTellsIndex
<1>8. ActiveRegistered'
  BY <1>1, <1>2, <1>3 DEF IInv, TypeOK, ActiveRegistered
<1>. QED
  BY <1>1, <1>4, <1>5, <1>6, <1>7, <1>8 DEF IInv, CtlNeverFails

(* What a channel destroyed while registered leaves behind.                *)
LEMMA DestroyRegisteredKeeps ==
  ASSUME IInv, NEW c \in Channels, DestroyRegistered(c)
  PROVE  IInv'
<1>1. /\ c \in Alive /\ Forget(c)
      /\ closing' = closing \cup {fd[c]}
      /\ dropped' = dropped \cup {c}
      /\ UNCHANGED <<ready, channels, epoll, failed, activeChannels, lpc>>
  BY DEF DestroyRegistered, Forget
<1>2. /\ Alive' = Alive \ {c} /\ fd[c] \in Fds
      /\ \A d \in Alive' : /\ d \in Channels /\ fd'[d] = fd[d]
                            /\ fd[d] # fd[c]
                            /\ events'[d] = events[d]
                            /\ index'[d] = index[d]
      /\ \A d \in Channels : index'[d] # "kNew" => index[d] # "kNew" /\ d # c
      /\ \A d \in Channels \ {c} : fd'[d] = fd[d] /\ index'[d] = index[d]
  BY <1>1, ForgetLeaves
<1>4. TypeOK'
  <2>1. ready' \in [Fds -> SUBSET Reports]
    BY <1>1 DEF IInv, TypeOK
  <2>2. closing' \in SUBSET Fds /\ dropped' \in SUBSET Channels
    BY <1>1, <1>2 DEF IInv, TypeOK
  <2>. QED
    BY <1>1, <2>1, <2>2, ForgetTypes
<1>5. OneChannelPerFd' /\ OnlyAliveRegistered'
  BY <1>1, <1>2 DEF IInv, OneChannelPerFd, OnlyAliveRegistered
<1>6. IndexTellsEpoll'
  <2>1. \A d \in Alive' :
          epoll[fd'[d]] = IF index'[d] = "kAdded"
                          THEN [ptr |-> d, events |-> events'[d]]
                          ELSE Unwatched
    BY <1>2 DEF IInv, IndexTellsEpoll
  <2>2. ASSUME NEW f \in Watched
        PROVE  \/ epoll[f].ptr \in Alive' /\ fd'[epoll[f].ptr] = f
               \/ epoll[f].ptr \in dropped' /\ f \in closing'
    <3>1. \/ epoll[f].ptr \in Alive /\ fd[epoll[f].ptr] = f
          \/ epoll[f].ptr \in dropped /\ f \in closing
      BY DEF IInv, IndexTellsEpoll
    <3>. QED
      BY <1>1, <1>2, <3>1
  <2>3. Watched' = Watched
    BY <1>1 DEF Watched
  <2>. QED
    BY <1>1, <2>1, <2>2, <2>3 DEF IndexTellsEpoll
<1>7. MapTellsIndex'
  <2>1. \A d \in Alive' :
          IF index'[d] = "kNew" THEN channels[fd'[d]] \in {None} \cup dropped'
                                ELSE channels[fd'[d]] = d
    BY <1>1, <1>2 DEF IInv, MapTellsIndex
  <2>2. ASSUME NEW f \in Fds, channels[f] # None
        PROVE  channels[f] \in dropped' \/ fd'[channels[f]] = f
    <3>1. channels[f] \in Channels
      BY <2>2 DEF IInv, TypeOK
    <3>. QED
      BY <1>1, <1>2, <2>2, <3>1 DEF IInv, MapTellsIndex
  <2>. QED
    BY <1>1, <2>1, <2>2 DEF MapTellsIndex
<1>8. ActiveRegistered'
  BY <1>1, <1>2 DEF IInv, TypeOK, ActiveRegistered
<1>. QED
  BY <1>1, <1>4, <1>5, <1>6, <1>7, <1>8 DEF IInv, CtlNeverFails

(* The kernel forgets a descriptor that is closed.                         *)
LEMMA CloseKeeps ==
  ASSUME IInv, NEW f \in Fds, Close(f)
  PROVE  IInv'
<1>1. /\ f \in closing /\ closing' = closing \ {f}
      /\ epoll' = [epoll EXCEPT ![f] = Unwatched]
      /\ ready' = [ready EXCEPT ![f] = {}]
      /\ UNCHANGED <<fd, events, revents, index, channels, dropped, failed,
                     listSize, activeChannels, lpc>>
  BY DEF Close
<1>2. Alive' = Alive /\ \A d \in Alive : fd[d] \in Fds /\ fd[d] # f
  BY <1>1 DEF Alive, IInv, TypeOK, OneChannelPerFd
<1>3. TypeOK'
  <2>1. epoll' \in [Fds -> Entry]
    BY <1>1 DEF IInv, TypeOK, Entry
  <2>2. ready' \in [Fds -> SUBSET Reports]
    BY <1>1 DEF IInv, TypeOK
  <2>. QED
    BY <1>1, <2>1, <2>2 DEF IInv, TypeOK
<1>4. OneChannelPerFd' /\ OnlyAliveRegistered'
  BY <1>1, <1>2 DEF IInv, OneChannelPerFd, OnlyAliveRegistered
<1>5. IndexTellsEpoll'
  <2>1. \A d \in Alive :
          epoll'[fd[d]] = IF index[d] = "kAdded"
                          THEN [ptr |-> d, events |-> events[d]]
                          ELSE Unwatched
    BY <1>1, <1>2 DEF IInv, TypeOK, IndexTellsEpoll
  <2>2. ASSUME NEW g \in Fds, epoll'[g].ptr # None
        PROVE  \/ epoll'[g].ptr \in Alive /\ fd[epoll'[g].ptr] = g
               \/ epoll'[g].ptr \in dropped /\ g \in closing'
    <3>1. g # f
      BY <1>1, <2>2 DEF IInv, TypeOK, Unwatched
    <3>. QED
      BY <1>1, <2>2, <3>1 DEF IInv, TypeOK, IndexTellsEpoll, Watched
  <2>. QED
    BY <1>1, <1>2, <2>1, <2>2 DEF IndexTellsEpoll, Watched
<1>6. MapTellsIndex' /\ ActiveRegistered'
  BY <1>1, <1>2 DEF IInv, MapTellsIndex, ActiveRegistered
<1>. QED
  BY <1>1, <1>3, <1>4, <1>5, <1>6 DEF IInv, CtlNeverFails

-----------------------------------------------------------------------------
(* Nothing but the types and ActiveRegistered depends on what is ready.    *)
LEMMA RegistryKept ==
  ASSUME IInv, UNCHANGED <<fd, registry>>, TypeOK', ActiveRegistered'
  PROVE  IInv'
<1>1. /\ Alive' = Alive /\ Watched' = Watched
      /\ fd' = fd /\ events' = events /\ index' = index
      /\ channels' = channels /\ epoll' = epoll /\ failed' = failed
      /\ closing' = closing /\ dropped' = dropped
  BY DEF registry, Alive, Watched
<1>2. OneChannelPerFd' /\ OnlyAliveRegistered' /\ CtlNeverFails'
  BY <1>1 DEF IInv, OneChannelPerFd, OnlyAliveRegistered, CtlNeverFails
<1>3. IndexTellsEpoll'
  BY <1>1 DEF IInv, IndexTellsEpoll
<1>4. MapTellsIndex'
  BY <1>1 DEF IInv, MapTellsIndex
<1>. QED
  BY <1>2, <1>3, <1>4 DEF IInv

(* What poll reports are live channels that are added, or channels that    *)
(* were registered when their owners destroyed them.                       *)
LEMMA CollectKeeps ==
  ASSUME IInv, NEW some \in SUBSET Reportable, Collect(some),
         listSize' \in Nat \ {0}
  PROVE  IInv'
<1>1. /\ activeChannels' = {epoll[f].ptr : f \in some}
      /\ revents' = [c \in Channels |->
                       IF c \in activeChannels' \cap Alive THEN Report(fd[c])
                                                           ELSE revents[c]]
      /\ lpc' = "events"
      /\ UNCHANGED <<fd, registry, ready>>
  BY DEF Collect
<1>2. \A c \in activeChannels' :
        c \in Channels /\ (c \in dropped \/ index[c] = "kAdded")
  <2> SUFFICES ASSUME NEW f \in some
               PROVE  /\ epoll[f].ptr \in Channels
                      /\ \/ epoll[f].ptr \in dropped
                         \/ index[epoll[f].ptr] = "kAdded"
    BY <1>1
  <2>1. f \in Fds /\ f \in Watched
    BY DEF Reportable, Watched
  <2>2. epoll[f].ptr \in Channels
    BY <2>1, EntryPtr DEF IInv
  <2>3. \/ epoll[f].ptr \in Alive /\ fd[epoll[f].ptr] = f
        \/ epoll[f].ptr \in dropped
    BY <2>1 DEF IInv, IndexTellsEpoll
  <2>. QED
    BY <2>1, <2>2, <2>3, WatchedIsAdded
<1>3. TypeOK'
  <2>1. ASSUME NEW c \in Alive
        PROVE  Report(fd[c]) \in SUBSET Reports
    BY DEF Alive, Report, IInv, TypeOK
  <2>2. revents' \in [Channels -> SUBSET Reports]
    BY <1>1, <2>1 DEF IInv, TypeOK
  <2>3. activeChannels' \in SUBSET Channels
    BY <1>2
  <2>. QED
    BY <1>1, <2>2, <2>3 DEF IInv, TypeOK, registry
<1>4. ActiveRegistered'
  BY <1>1, <1>2 DEF ActiveRegistered, registry
<1>. QED
  BY <1>1, <1>3, <1>4, RegistryKept

(* Every step preserves the invariant.                                     *)
LEMMA RegistryStep == IInv /\ [Next]_vars => IInv'
<1> SUFFICES ASSUME IInv, [Next]_vars PROVE IInv'
  OBVIOUS
<1>1. CASE PollEvents
  <2>1. PICK some \in SUBSET Reportable :
          Collect(some)
          /\ listSize' = IF Filled(some) THEN 2 * listSize ELSE listSize
    BY <1>1 DEF PollEvents
  <2>2. listSize' \in Nat \ {0}
    BY <2>1 DEF IInv, TypeOK
  <2>. QED
    BY <2>1, <2>2, CollectKeeps
<1>2. ASSUME NEW c \in Channels, HandleEvent(c)
      PROVE  IInv'
  <2>1. UNCHANGED <<fd, registry>>
    BY <1>2 DEF HandleEvent
  <2>2. c \in Alive /\ fd[c] \in Fds
    BY <1>2, WatchedIsAdded DEF HandleEvent
  <2>3. ready' \in [Fds -> SUBSET Reports]
    BY <1>2, <2>2 DEF HandleEvent, IInv, TypeOK
  <2>4. TypeOK'
    BY <1>2, <2>1, <2>3 DEF HandleEvent, IInv, TypeOK, registry
  <2>5. ActiveRegistered'
    BY <1>2, <2>1 DEF HandleEvent, IInv, ActiveRegistered, registry
  <2>. QED
    BY <2>1, <2>4, <2>5, RegistryKept
<1>3. CASE BeginFunctors \/ EndFunctors \/ PollTimeout
  <2>1. UNCHANGED <<fd, registry>>
    BY <1>3 DEF BeginFunctors, EndFunctors, PollTimeout
  <2>2. TypeOK'
    BY <1>3, <2>1
       DEF BeginFunctors, EndFunctors, PollTimeout, IInv, TypeOK, registry
  <2>3. ActiveRegistered'
    BY <1>3, <2>1 DEF BeginFunctors, EndFunctors, PollTimeout, IInv,
                      ActiveRegistered, registry
  <2>. QED
    BY <2>1, <2>2, <2>3, RegistryKept
<1>4. ASSUME NEW c \in Channels, NEW f \in Fds, Build(c, f)
      PROVE  IInv'
  BY <1>4, BuildKeeps
<1>5. ASSUME NEW c \in Channels, ChangeInterest(c)
      PROVE  IInv'
  <2>1. PICK interest \in SUBSET Interest : Update(c, interest)
    <3>1. events[c] \in SUBSET Interest
      BY DEF IInv, TypeOK
    <3>. QED
      BY <1>5, <3>1 DEF ChangeInterest
  <2>. QED
    BY <1>5, <2>1, UpdateKeeps DEF ChangeInterest
<1>6. ASSUME NEW c \in Channels, Remove(c)
      PROVE  IInv'
  BY <1>6, RemoveKeeps
<1>7. ASSUME NEW c \in Channels, Destroy(c)
      PROVE  IInv'
  BY <1>7, DestroyKeeps
<1>8. ASSUME NEW c \in Channels, DestroyRegistered(c)
      PROVE  IInv'
  BY <1>8, DestroyRegisteredKeeps
<1>9. ASSUME NEW f \in Fds, Close(f)
      PROVE  IInv'
  BY <1>9, CloseKeeps
<1>10. ASSUME NEW f \in Fds, Arrive(f)
       PROVE  IInv'
  <2>1. UNCHANGED <<fd, registry>>
    BY <1>10 DEF Arrive
  <2>2. TypeOK'
    BY <1>10, <2>1 DEF Arrive, IInv, TypeOK, registry
  <2>3. ActiveRegistered'
    BY <1>10, <2>1 DEF Arrive, IInv, ActiveRegistered, registry
  <2>. QED
    BY <2>1, <2>2, <2>3, RegistryKept
<1>11. CASE UNCHANGED vars
  <2>1. UNCHANGED <<fd, registry>> /\ TypeOK' /\ ActiveRegistered'
    BY <1>11 DEF vars, registry, IInv, TypeOK, ActiveRegistered
  <2>. QED
    BY <2>1, RegistryKept
<1>. QED
  BY <1>1, <1>2, <1>3, <1>4, <1>5, <1>6, <1>7, <1>8, <1>9,
     <1>10, <1>11 DEF Next, LoopRuns

(* Nothing is registered at the start.                                     *)
LEMMA RegistryInit == Init => IInv
<1> SUFFICES ASSUME Init PROVE IInv
  OBVIOUS
<1>1. TypeOK
  BY ListAssumption DEF Init, TypeOK, Entry
<1>2. Alive = {} /\ Watched = {}
  BY DEF Init, Alive, Watched, Unwatched
<1>. QED
  BY <1>1, <1>2
     DEF Init, IInv, OneChannelPerFd, OnlyAliveRegistered, IndexTellsEpoll,
         MapTellsIndex, ActiveRegistered, CtlNeverFails

(* index_ of the channels, channels_ of the poller and the epoll set of    *)
(* the kernel agree, and epoll_ctl is never asked for what it must refuse, *)
(* after any sequence of updates, removals, destructions and reuses of     *)
(* descriptors (EPollPoller.cc:85-168).                                    *)
THEOREM RegistrationsAgree == Spec => []IInv
BY RegistryInit, RegistryStep, PTL DEF Spec

(* epoll and loop() have pointers to live channels only, but for channels  *)
(* that were registered when their owners destroyed them, and epoll        *)
(* forgets those when the descriptor is closed: removal is enough, and     *)
(* what callbacks do meanwhile is harmless (EventLoop.cc:106-110,          *)
(* EPollPoller.cc:139-141).                                                *)
THEOREM NoDanglingChannel == Spec => []PointersLive
<1>1. IInv => PointersLive
  <2> SUFFICES ASSUME IInv PROVE PointersLive
    OBVIOUS
  <2>1. \A f \in Watched :
          \/ epoll[f].ptr \in Alive
          \/ epoll[f].ptr \in dropped /\ f \in closing
    BY DEF IInv, IndexTellsEpoll
  <2>2. activeChannels \subseteq Alive \cup dropped
    BY DEF IInv, TypeOK, ActiveRegistered, OnlyAliveRegistered
  <2>. QED
    BY <2>1, <2>2 DEF PointersLive
<1>. QED
  BY <1>1, RegistrationsAgree, PTL
=============================================================================
