---------------------------- MODULE BrowserProofs ----------------------------
(***************************************************************************)
(* Theorems about what the two browsers show, for any number of requests,  *)
(* children, sessions and events and any bounds.                           *)
(***************************************************************************)
EXTENDS ClassroomStore, ParentView, FiniteSetTheorems, TLAPS

-----------------------------------------------------------------------------
(***************************************************************************)
(* The live view of a parent.  Every way to change the selection replaces  *)
(* the socket in the same step, and every way to show a session compares   *)
(* its child with the selection of that moment.                            *)
(***************************************************************************)
Phases == {"none", "connecting", "open", "closed"}
Listings == [student : Children \cup {Nobody}, lesson : LessonOrNone,
             active : [Children -> LessonOrNone] \cup {Nobody}]
Views == [open : BOOLEAN, student : Children \cup {Nobody}, session : LessonOrNone,
          active : [Children -> LessonOrNone]]
Sockets == [student : Children \cup {Nobody}, phase : Phases, subscribed : BOOLEAN,
            feed : Seq(Event)]

\* The types that ParentTypeOK leaves out: a child that is learning has begun a session, and
\* what waits in the hub, the listing and the socket is about lessons.
ParentShape ==
    /\ \A c \in live : begun[c] # 0
    /\ unsent \subseteq Seq(Event)
    /\ listing # Nobody => listing \in Listings
    /\ socket \in Sockets

ParentInv == ParentTypeOK /\ ParentShape /\ ShowsSelectedChild

USE ParentBounds

\* Nothing is shown at first.
LEMMA ParentInvInit == ParentInit => ParentInv
<1> SUFFICES ASSUME ParentInit PROVE ParentInv
  OBVIOUS
<1>1. view \in Views /\ view.session = Nobody
  BY DEF ParentInit, Views, LessonOrNone
<1>2. socket \in Sockets /\ Len(socket.feed) = 0 /\ socket.phase = "none"
  BY DEF ParentInit, NoSocket, Sockets, Phases
<1>3. ParentTypeOK
  BY <1>1, <1>2 DEF ParentInit, ParentTypeOK, Views, Sockets, LessonOrNone
<1>4. ParentShape
  BY <1>2 DEF ParentInit, ParentShape
<1> QED
  BY <1>1, <1>2, <1>3, <1>4 DEF ParentInv, ShowsSelectedChild

\* The types of the variables, as the proofs use them.
LEMMA ParentTypes ==
    ASSUME ParentInv
    PROVE  /\ begun \in [Children -> 0 .. MaxSessions] /\ live \subseteq Children
           /\ unsent \subseteq Seq(Event) /\ view \in Views
           /\ refreshes \subseteq [student : Children, lesson : AllLessons]
           /\ timer \in LessonOrNone /\ socket \in Sockets /\ Len(socket.feed) <= Buffer
           /\ closing \subseteq Children \cup {Nobody}
BY DEF ParentInv, ParentTypeOK, ParentShape, Views

\* The latest session of a child that is learning.
LEMMA NewestLesson ==
    ASSUME ParentInv, NEW c \in live
    PROVE  NewestOf(c) \in AllLessons
<1>1. c \in Children /\ begun[c] \in 1 .. MaxSessions
  BY DEF ParentInv, ParentTypeOK, ParentShape
<1> QED
  BY <1>1 DEF NewestOf, AllLessons

\* What a classroom commits concerns neither view nor socket.
LEMMA CommitsKeep ==
    ASSUME ParentInv, NEW events \in Seq(Event), Len(events) \in 1 .. 2,
           begun' \in [Children -> 0 .. MaxSessions], live' \subseteq Children,
           \A c \in live' : begun'[c] # 0, unsent' = unsent \cup {events},
           UNCHANGED <<view, listing, refreshes, timer, socket, closing>>
    PROVE  ParentInv'
<1>1. \A i \in DOMAIN events : events[i] \in Event
  OBVIOUS
<1>2. ParentTypeOK'
  BY <1>1 DEF ParentInv, ParentTypeOK
<1>3. ParentShape'
  BY DEF ParentInv, ParentShape
<1> QED
  BY <1>2, <1>3 DEF ParentInv, ShowsSelectedChild

\* A child begins a session, works on it and ends it.
LEMMA ParentCommits ==
    ASSUME ParentInv, NEW c \in Children, Begins(c) \/ WorksOn(c) \/ Ends(c)
    PROVE  ParentInv'
<1>1. /\ begun \in [Children -> 0 .. MaxSessions] /\ live \subseteq Children
      /\ \A d \in live : begun[d] # 0
  BY DEF ParentInv, ParentTypeOK, ParentShape
<1>2. CASE Begins(c)
  <2> DEFINE next == [begun EXCEPT ![c] = @ + 1]
             event == [lesson |-> <<c, next[c]>>, type |-> "STARTED"]
  <2>1. begun[c] < MaxSessions /\ begun' = next /\ live' = live \cup {c}
        /\ UNCHANGED <<view, listing, refreshes, timer, socket, closing>>
    BY <1>2 DEF Begins
  <2>2. next \in [Children -> 0 .. MaxSessions] /\ next[c] \in 1 .. MaxSessions
        /\ \A d \in live \cup {c} : next[d] # 0
    BY <1>1, <2>1
  <2>3. unsent' = unsent \cup {<<event>>}
    BY <1>2, <2>1 DEF Begins, NewestOf
  <2>4. event \in Event
    BY <2>2 DEF Event, AllLessons
  <2> HIDE DEF next, event
  <2> DEFINE events == <<event>>
  <2>5. events \in Seq(Event) /\ Len(events) \in 1 .. 2
    BY <2>4
  <2>6. unsent' = unsent \cup {events}
    BY <2>3
  <2> HIDE DEF events
  <2> QED
    BY <1>1, <2>1, <2>2, <2>5, <2>6, CommitsKeep
<1>3. CASE WorksOn(c)
  <2> DEFINE event == [lesson |-> NewestOf(c), type |-> "OTHER"]
  <2>1. event \in Event
    BY <1>3, NewestLesson DEF WorksOn, Event
  <2>2. /\ unsent' = unsent \cup {<<event>>}
        /\ UNCHANGED <<begun, live, view, listing, refreshes, timer, socket, closing>>
    BY <1>3 DEF WorksOn
  <2> HIDE DEF event
  <2> DEFINE events == <<event>>
  <2>3. events \in Seq(Event) /\ Len(events) \in 1 .. 2
    BY <2>1
  <2>4. unsent' = unsent \cup {events}
    BY <2>2
  <2> HIDE DEF events
  <2> QED
    BY <1>1, <2>2, <2>3, <2>4, CommitsKeep
<1>4. CASE Ends(c)
  <2> DEFINE ended == [lesson |-> NewestOf(c), type |-> "ENDED"]
             planned == [lesson |-> NewestOf(c), type |-> "OTHER"]
  <2>1. ended \in Event /\ planned \in Event
    BY <1>4, NewestLesson DEF Ends, Event
  <2>2. /\ unsent' = unsent \cup {<<ended, planned>>} /\ live' = live \ {c}
        /\ UNCHANGED <<begun, view, listing, refreshes, timer, socket, closing>>
    BY <1>4 DEF Ends
  <2> HIDE DEF ended, planned
  <2> DEFINE events == <<ended, planned>>
  <2>3. events \in Seq(Event) /\ Len(events) \in 1 .. 2
    BY <2>1
  <2>4. unsent' = unsent \cup {events}
    BY <2>2
  <2> HIDE DEF events
  <2> QED
    BY <1>1, <2>2, <2>3, <2>4, CommitsKeep
<1> QED
  BY <1>2, <1>3, <1>4

\* A feed that takes an event in or gives one away stays a feed of events.
LEMMA PublishKeeps ==
    ASSUME ParentInv, NEW events \in unsent, Publish(events)
    PROVE  ParentInv'
<1>1. events \in Seq(Event) /\ Len(events) \in 1 .. 2
  BY DEF ParentInv, ParentTypeOK, ParentShape
<1>2. Head(events) \in Event
  BY <1>1
<1>3. Len(events) > 1 => Tail(events) \in Seq(Event) /\ Len(Tail(events)) \in 1 .. 2
  <2>1. ASSUME Len(events) > 1
        PROVE  Tail(events) \in Seq(Event) /\ Len(Tail(events)) \in 1 .. 2
    <3> DEFINE length == Len(events)
    <3>1. length = 2
      <4>1. length \in 1 .. 2 /\ length > 1
        BY <1>1, <2>1
      <4> HIDE DEF length
      <4> QED
        BY <4>1
    <3>2. Tail(events) \in Seq(Event) /\ Len(Tail(events)) = Len(events) - 1
      <4>1. events # <<>>
        BY <3>1
      <4> QED
        BY <1>1, <4>1
    <3> QED
      BY <3>1, <3>2
  <2> QED
    BY <2>1
<1>4. unsent' \subseteq Seq(Event) /\ \A e \in unsent' : Len(e) \in 1 .. 2
  BY <1>3, ParentTypes DEF Publish, ParentInv, ParentTypeOK
<1>5. \A e \in unsent' : \A i \in DOMAIN e : e[i] \in Event
  BY <1>4
<1>6. socket \in Sockets /\ Len(socket.feed) <= Buffer
  BY ParentTypes
<1>7. socket' \in Sockets /\ Len(socket'.feed) <= Buffer
      /\ socket'.student = socket.student /\ socket'.phase = socket.phase
  <2> DEFINE fed == [socket EXCEPT !.feed = Append(@, Head(events))]
  <2>1. socket' = socket \/ (Len(socket.feed) < Buffer /\ socket' = fed)
    BY DEF Publish
  <2>2. Append(socket.feed, Head(events)) \in Seq(Event)
        /\ Len(Append(socket.feed, Head(events))) = Len(socket.feed) + 1
    BY <1>2, <1>6 DEF Sockets
  <2>3. /\ fed \in Sockets /\ Len(fed.feed) = Len(socket.feed) + 1
        /\ fed.student = socket.student /\ fed.phase = socket.phase
    BY <1>6, <2>2 DEF Sockets
  <2>4. Len(socket.feed) \in Nat
    BY <1>6 DEF Sockets
  <2> HIDE DEF fed
  <2> QED
    BY <1>6, <2>1, <2>3, <2>4
<1>8. UNCHANGED <<begun, live, view, listing, refreshes, timer, closing>>
  BY DEF Publish
<1>9. ParentTypeOK'
  BY <1>4, <1>5, <1>7, <1>8 DEF ParentInv, ParentTypeOK, Sockets
<1>10. ParentShape'
  BY <1>4, <1>7, <1>8 DEF ParentInv, ParentShape
<1> QED
  BY <1>7, <1>8, <1>9, <1>10 DEF ParentInv, ShowsSelectedChild

\* A step of the view and its socket alone keeps the invariant if it keeps their types and
\* leaves a session and a socket of the selected child.
LEMMA ViewKeeps ==
    ASSUME ParentInv, UNCHANGED <<begun, live, unsent>>,
           view' \in Views, socket' \in Sockets, Len(socket'.feed) <= Buffer,
           listing' # Nobody => listing' \in Listings,
           refreshes' \subseteq [student : Children, lesson : AllLessons],
           timer' \in LessonOrNone, closing' \subseteq Children \cup {Nobody},
           view'.session # Nobody => ChildOf(view'.session) = view'.student,
           socket'.phase # "none" => socket'.student = view'.student
    PROVE  ParentInv'
<1>1. ParentTypeOK'
  BY DEF ParentInv, ParentTypeOK, Views, Listings, Sockets
<1>2. ParentShape'
  BY DEF ParentInv, ParentShape
<1> QED
  BY <1>1, <1>2 DEF ParentInv, ShowsSelectedChild

\* The socket for a child: the one that is there, or a new one.
LEMMA WatchedSocket ==
    ASSUME ParentInv, NEW student \in Children \cup {Nobody}
    PROVE  /\ Watched(student) \in Sockets /\ Len(Watched(student).feed) <= Buffer
           /\ Watched(student).student = student
<1>1. socket \in Sockets /\ Len(socket.feed) <= Buffer
  BY ParentTypes
<1>2. CASE Watched(student) = socket /\ socket.student = student
  BY <1>1, <1>2
<1>3. CASE Watched(student)
             = [student |-> student, phase |-> "connecting", subscribed |-> FALSE, feed |-> <<>>]
  BY <1>3 DEF Sockets, Phases
<1> QED
  BY <1>2, <1>3 DEF Watched

\* What is told to close was a socket for a child.
LEMMA ClosingTypes ==
    ASSUME ParentInv, \/ closing' \subseteq closing
                      \/ closing' \subseteq closing \cup {socket.student}
    PROVE  closing' \subseteq Children \cup {Nobody}
BY ParentTypes DEF Sockets

\* The socket connects, subscribes, fails and is replaced.
LEMMA SocketsKeep ==
    ASSUME ParentInv,
           Subscribe \/ Opened \/ SocketLost \/ Reconnect \/ \E c \in closing : EarlierClosed(c)
    PROVE  ParentInv'
<1>1. socket \in Sockets /\ Len(socket.feed) <= Buffer
      /\ UNCHANGED <<begun, live, unsent, view, listing, refreshes, timer>>
  BY ParentTypes DEF Subscribe, Opened, SocketLost, Reconnect, EarlierClosed
<1>2. /\ socket.phase # "none" => socket.student = view.student
      /\ socket.phase # "none" \/ socket' = socket
  BY DEF ParentInv, ShowsSelectedChild, Subscribe, Opened, SocketLost, Reconnect, EarlierClosed
<1>3. socket' \in Sockets /\ Len(socket'.feed) <= Buffer /\ socket'.student = socket.student
  <2>1. CASE Subscribe
    BY <1>1, <2>1 DEF Subscribe, Sockets
  <2>2. CASE Opened
    BY <1>1, <2>2 DEF Opened, Sockets, Phases
  <2>3. CASE SocketLost
    <3>1. <<>> \in Seq(Event) /\ Len(<<>>) = 0 /\ "closed" \in Phases
      BY DEF Phases
    <3>2. socket' = [socket EXCEPT !.phase = "closed", !.subscribed = FALSE, !.feed = <<>>]
      BY <2>3 DEF SocketLost
    <3>3. socket' \in Sockets /\ socket'.feed = <<>> /\ socket'.student = socket.student
      BY <1>1, <3>1, <3>2 DEF Sockets
    <3> QED
      BY <3>1, <3>3
  <2>4. CASE Reconnect
    <3>1. socket.student \in Children \cup {Nobody}
      BY <1>1 DEF Sockets
    <3> QED
      BY <2>4, <3>1, WatchedSocket DEF Reconnect, Watch
  <2>5. CASE \E c \in closing : EarlierClosed(c)
    BY <1>1, <2>5 DEF EarlierClosed
  <2> QED
    BY <2>1, <2>2, <2>3, <2>4, <2>5
<1>4. /\ view \in Views /\ (listing # Nobody => listing \in Listings)
      /\ refreshes \subseteq [student : Children, lesson : AllLessons] /\ timer \in LessonOrNone
      /\ (view.session # Nobody => ChildOf(view.session) = view.student)
  BY ParentTypes DEF ParentInv, ParentShape, ShowsSelectedChild
<1>5. closing' \subseteq Children \cup {Nobody}
  BY ClosingTypes DEF Subscribe, Opened, SocketLost, Reconnect, EarlierClosed, Watch
<1>6. socket'.phase # "none" => socket'.student = view'.student
  BY <1>1, <1>2, <1>3
<1> QED
  BY <1>1, <1>3, <1>4, <1>5, <1>6, ViewKeeps

\* A message shows the session that it is about only if that is one of the selected child.
LEMMA MessageKeeps ==
    ASSUME ParentInv, Message
    PROVE  ParentInv'
<1> DEFINE event == Head(socket.feed)
           selected == ChildOf(event.lesson) = view.student
           active == CASE event.type = "STARTED" -> event.lesson
                       [] event.type = "ENDED" -> Nobody
                       [] OTHER -> view.active[view.student]
<1>1. socket \in Sockets /\ Len(socket.feed) <= Buffer /\ socket.feed # <<>> /\ view \in Views
  BY ParentTypes DEF Message
<1>2. event \in Event /\ Tail(socket.feed) \in Seq(Event)
      /\ Len(Tail(socket.feed)) <= Buffer
  BY <1>1 DEF Sockets
<1>3. event.lesson \in AllLessons /\ ChildOf(event.lesson) \in Children
      /\ event.lesson \in LessonOrNone
  BY <1>2 DEF Event, AllLessons, ChildOf, LessonOrNone
<1>4. socket' = [socket EXCEPT !.feed = Tail(@)]
      /\ UNCHANGED <<begun, live, unsent, listing, refreshes, closing>>
  BY DEF Message
<1>5. socket' \in Sockets /\ Len(socket'.feed) <= Buffer
      /\ socket'.student = socket.student /\ socket'.phase = socket.phase
  BY <1>1, <1>2, <1>4 DEF Sockets
<1>6. /\ view' \in Views /\ timer' \in LessonOrNone /\ view'.student = view.student
      /\ (view'.session # Nobody => ChildOf(view'.session) = view.student)
  <2>1. CASE selected
    <3>1. /\ view' = [view EXCEPT !.session = event.lesson, !.active[view.student] = active]
          /\ timer' = event.lesson
      BY <2>1 DEF Message
    <3>2. view.student \in Children /\ active \in LessonOrNone
      BY <1>1, <1>3, <2>1 DEF Views, LessonOrNone
    <3> HIDE DEF active
    <3>3. view' = [view EXCEPT !.session = event.lesson,
                               !.active = [view.active EXCEPT ![view.student] = active]]
      BY <1>1, <3>1
    <3> DEFINE actives == [view.active EXCEPT ![view.student] = active]
    <3>4. actives \in [Children -> LessonOrNone]
      BY <1>1, <3>2 DEF Views
    <3> HIDE DEF event, actives
    <3>5. view' = [view EXCEPT !.session = event.lesson, !.active = actives]
      BY <3>3 DEF actives
    <3>6. view' \in Views /\ view'.session = event.lesson /\ view'.student = view.student
      BY <1>1, <1>3, <3>4, <3>5 DEF Views
    <3> QED
      BY <1>3, <2>1, <3>1, <3>6
  <2>2. CASE ~selected
    BY <1>1, <2>2, ParentTypes DEF Message, ParentInv, ShowsSelectedChild
  <2> QED
    BY <2>1, <2>2
<1>7. /\ (socket'.phase # "none" => socket'.student = view'.student)
      /\ (listing' # Nobody => listing' \in Listings)
      /\ refreshes' \subseteq [student : Children, lesson : AllLessons]
  BY <1>4, <1>5, <1>6, ParentTypes DEF ParentInv, ParentShape, ShowsSelectedChild
<1>8. closing' \subseteq Children \cup {Nobody}
  BY <1>4, ClosingTypes
<1> QED
  BY <1>4, <1>5, <1>6, <1>7, <1>8, ViewKeeps

\* selectChild clears the session of another child.
LEMMA ShownView ==
    ASSUME ParentInv, NEW student \in Children, NEW wanted \in LessonOrNone,
           NEW active \in [Children -> LessonOrNone]
    PROVE  LET next == Shown(student, wanted, active) IN
           /\ next \in Views /\ next.student = student
           /\ next.session # Nobody => ChildOf(next.session) = student
<1> DEFINE session2 == IF student # view.student \/ wanted = Nobody THEN Nobody ELSE view.session
<1>1. view \in Views
  BY ParentTypes
<1>2. session2 \in LessonOrNone
  BY <1>1 DEF Views, LessonOrNone
<1>3. session2 # Nobody => ChildOf(session2) = student
  BY DEF ParentInv, ShowsSelectedChild
<1>4. Shown(student, wanted, active)
        = [view EXCEPT !.student = student, !.active = active, !.session = session2]
  BY <1>1 DEF Shown, Views
<1> HIDE DEF session2
<1> QED
  BY <1>1, <1>2, <1>3, <1>4 DEF Views

\* A call of refreshSession names a child and a session.
LEMMA RefreshedTypes ==
    ASSUME NEW student \in Children \cup {Nobody}, NEW lesson \in LessonOrNone
    PROVE  Refreshed(student, lesson) \subseteq [student : Children, lesson : AllLessons]
BY DEF Refreshed, LessonOrNone

\* The parent chooses a child, or the page does once it knows the children.
LEMMA SelectionKeeps ==
    ASSUME ParentInv, Listed \/ \E c \in Children : Choose(c)
    PROVE  ParentInv'
<1>1. view \in Views /\ refreshes \subseteq [student : Children, lesson : AllLessons]
      /\ timer \in LessonOrNone
  BY ParentTypes
<1>2. \E student \in Children, wanted \in LessonOrNone, active \in [Children -> LessonOrNone] :
        /\ view' = Shown(student, wanted, active)
        /\ refreshes' \subseteq refreshes \cup Refreshed(student, wanted)
        /\ Watch(student)
  <2>1. CASE Listed
    <3>1. listing \in Listings /\ listing.active \in [Children -> LessonOrNone]
      BY <2>1 DEF Listed, ParentInv, ParentShape, Listings
    <3>2. PICK student \in Preferred(listing.student, listing.active) :
            LET wanted == IF listing.lesson # Nobody THEN listing.lesson
                          ELSE listing.active[student]
            IN /\ view' = Shown(student, wanted, listing.active)
               /\ refreshes' = refreshes \cup Refreshed(student, wanted)
               /\ Watch(student)
      BY <2>1 DEF Listed
    <3>3. student \in Children
      BY <1>1, <3>1 DEF Preferred, Listings, Views
    <3> DEFINE wanted == IF listing.lesson # Nobody THEN listing.lesson
                         ELSE listing.active[student]
    <3>4. wanted \in LessonOrNone
      BY <3>1, <3>3 DEF Listings
    <3>5. /\ view' = Shown(student, wanted, listing.active)
          /\ refreshes' = refreshes \cup Refreshed(student, wanted)
          /\ Watch(student)
      BY <3>2
    <3> HIDE DEF wanted
    <3> QED
      BY <3>1, <3>3, <3>4, <3>5
  <2>2. CASE \E c \in Children : Choose(c)
    <3>1. PICK c \in Children : Choose(c)
      BY <2>2
    <3>2. view.active[c] \in LessonOrNone /\ view.active \in [Children -> LessonOrNone]
      BY <1>1 DEF Views
    <3> QED
      BY <3>1, <3>2 DEF Choose
  <2> QED
    BY <2>1, <2>2
<1>3. PICK student \in Children, wanted \in LessonOrNone, active \in [Children -> LessonOrNone] :
        /\ view' = Shown(student, wanted, active)
        /\ refreshes' \subseteq refreshes \cup Refreshed(student, wanted)
        /\ Watch(student)
  BY <1>2
<1>4. /\ view' \in Views /\ view'.student = student
      /\ (view'.session # Nobody => ChildOf(view'.session) = student)
  BY <1>3, ShownView
<1>5. socket' \in Sockets /\ Len(socket'.feed) <= Buffer /\ socket'.student = student
  BY <1>3, WatchedSocket DEF Watch
<1>6. refreshes' \subseteq [student : Children, lesson : AllLessons]
  BY <1>1, <1>3, RefreshedTypes
<1>7. UNCHANGED <<begun, live, unsent, timer>> /\ listing' = Nobody
  BY DEF Listed, Choose
<1>8. closing' \subseteq Children \cup {Nobody}
  BY <1>3, ClosingTypes DEF Watch
<1> QED
  BY <1>1, <1>4, <1>5, <1>6, <1>7, <1>8, ViewKeeps

\* What leaves the socket alone, or closes it with the page.
LEMMA CallsKeep ==
    ASSUME ParentInv, NEW student \in Children \cup {Nobody}, NEW lesson \in LessonOrNone,
           \/ OpenView(student, lesson) \/ ListChildren \/ RefreshDue \/ CallFails \/ LeaveView
           \/ \E call \in refreshes : RefreshReplied(call)
    PROVE  ParentInv'
<1>1. view \in Views /\ refreshes \subseteq [student : Children, lesson : AllLessons]
      /\ timer \in LessonOrNone /\ socket \in Sockets /\ Len(socket.feed) <= Buffer
      /\ closing' \subseteq Children \cup {Nobody} /\ UNCHANGED <<begun, live, unsent>>
  BY ParentTypes, ClosingTypes
  DEF OpenView, ListChildren, RefreshDue, CallFails, LeaveView, RefreshReplied
<1>2. /\ (listing # Nobody => listing \in Listings)
      /\ (view.session # Nobody => ChildOf(view.session) = view.student)
      /\ (socket.phase # "none" => socket.student = view.student)
      /\ Nobody \in LessonOrNone
  BY DEF ParentInv, ParentShape, ShowsSelectedChild, LessonOrNone
<1>3. CASE OpenView(student, lesson)
  <2>1. view' \in Views /\ view'.session = view.session /\ view'.student = view.student
    BY <1>1, <1>3 DEF OpenView, Views
  <2>2. listing' \in Listings
    BY <1>3 DEF OpenView, Listings
  <2> QED
    BY <1>1, <1>2, <1>3, <2>1, <2>2, ViewKeeps DEF OpenView
<1>4. CASE ListChildren
  <2>1. PICK busy \in SUBSET live :
          listing' = [listing EXCEPT !.active =
                        [c \in Children |-> IF c \in busy THEN NewestOf(c) ELSE Nobody]]
    BY <1>4 DEF ListChildren
  <2> DEFINE active == [c \in Children |-> IF c \in busy THEN NewestOf(c) ELSE Nobody]
  <2>2. active \in [Children -> LessonOrNone]
    BY NewestLesson DEF LessonOrNone
  <2>3. listing \in Listings /\ listing' = [listing EXCEPT !.active = active]
    BY <1>2, <1>4, <2>1 DEF ListChildren
  <2> HIDE DEF active
  <2>4. listing' \in Listings
    BY <2>2, <2>3 DEF Listings
  <2> QED
    BY <1>1, <1>2, <1>4, <2>4, ViewKeeps DEF ListChildren
<1>5. CASE RefreshDue
  <2>1. view.student \in Children \cup {Nobody}
    BY <1>1 DEF Views
  <2>2. refreshes' \subseteq [student : Children, lesson : AllLessons]
    BY <1>1, <1>5, <2>1, RefreshedTypes DEF RefreshDue
  <2> QED
    BY <1>1, <1>2, <1>5, <2>2, ViewKeeps DEF RefreshDue
<1>6. CASE CallFails
  <2>1. listing' \in {listing, Nobody} /\ refreshes' \subseteq refreshes
        /\ UNCHANGED <<view, timer, socket>>
    BY <1>6 DEF CallFails
  <2> QED
    BY <1>1, <1>2, <2>1, ViewKeeps
<1>7. CASE LeaveView
  <2>1. view' \in Views /\ view'.session = view.session /\ view'.student = view.student
    BY <1>1, <1>7 DEF LeaveView, Views
  <2>2. socket' \in Sockets /\ Len(socket'.feed) <= Buffer /\ socket'.phase = "none"
    BY <1>7 DEF LeaveView, NoSocket, Sockets, Phases
  <2>3. UNCHANGED <<listing, refreshes>> /\ timer' = Nobody
    BY <1>7 DEF LeaveView
  <2> QED
    BY <1>1, <1>2, <2>1, <2>2, <2>3, ViewKeeps
<1>8. ASSUME NEW call \in refreshes, RefreshReplied(call) PROVE ParentInv'
  <2>1. call.lesson \in LessonOrNone
    BY <1>1 DEF LessonOrNone
  <2>2. /\ view' = view
           \/ (ChildOf(call.lesson) = view.student /\ view' = [view EXCEPT !.session = call.lesson])
        /\ refreshes' \subseteq refreshes /\ UNCHANGED <<listing, timer, socket>>
    BY <1>8 DEF RefreshReplied, Finds
  <2>3. /\ view' \in Views /\ view'.student = view.student
        /\ (view'.session # Nobody => ChildOf(view'.session) = view.student)
    BY <1>1, <1>2, <2>1, <2>2 DEF Views
  <2> QED
    BY <1>1, <1>2, <2>2, <2>3, ViewKeeps
<1> QED
  BY <1>3, <1>4, <1>5, <1>6, <1>7, <1>8

\* Every step keeps the invariant.
LEMMA ParentInvStep == ParentInv /\ [ParentNext]_parentVars => ParentInv'
<1> SUFFICES ASSUME ParentInv, [ParentNext]_parentVars PROVE ParentInv'
  OBVIOUS
<1>1. Nobody \in LessonOrNone /\ Nobody \in Children \cup {Nobody}
  BY DEF LessonOrNone
<1>2. ASSUME NEW c \in Children, NEW lesson \in LessonsOf(c), OpenView(c, lesson)
      PROVE  ParentInv'
  <2>1. lesson \in LessonOrNone
    BY DEF LessonsOf, LessonOrNone, AllLessons
  <2> QED
    BY <1>2, <2>1, CallsKeep
<1>3. CASE UNCHANGED parentVars
  BY <1>3 DEF parentVars, ParentInv, ParentTypeOK, ParentShape, ShowsSelectedChild
<1> QED
  BY <1>1, <1>2, <1>3, ParentCommits, PublishKeeps, SocketsKeep, MessageKeeps, SelectionKeeps,
     CallsKeep
  DEF ParentNext

\* The view, the calls and the hub keep their types, and no subscription outgrows its buffer.
THEOREM ParentTypeCorrect == ParentSpec => []ParentTypeOK
<1>1. ParentInv => ParentTypeOK
  BY DEF ParentInv
<1> QED
  BY <1>1, ParentInvInit, ParentInvStep, PTL DEF ParentSpec

\* However the messages, timers and replies of one child cross the choice of another, the
\* parent sees a session of the selected child and listens to that child.
THEOREM ShowsSelectedChildHolds == ParentSpec => []ShowsSelectedChild
<1>1. ParentInv => ShowsSelectedChild
  BY DEF ParentInv
<1> QED
  BY <1>1, ParentInvInit, ParentInvStep, PTL DEF ParentSpec

-----------------------------------------------------------------------------
(***************************************************************************)
(* The classroom in the student's browser.  An action of the store sends   *)
(* one request and outdates others (Sends), or drops an answered one       *)
(* (Drops); an action of the server or the network works on one (Works)    *)
(* and may move the session on (Follows).                                  *)
(***************************************************************************)
Asked(s, kinds) == requests[s] # Nothing /\ requests[s].awaited /\ requests[s].kind \in kinds
Replied(s) == Done(s) /\ requests[s].code = "ok"

\* A request that has its answer has a session in it, and a load is never refused.
RepliesAreSessions ==
    \A s \in Slots :
        /\ Replied(s) => requests[s].reply \in Session
        /\ Done(s) /\ requests[s].kind \in {"load", "reload"} => requests[s].code \in {"ok", "lost"}

StoreInv == StoreTypeOK /\ RepliesAreSessions

RequestKinds == Operations \cup {"load", "reload", "hide", "heartbeat"}
SlotsOfRequests == [Slots -> Request \cup {Nothing}]

\* A request that is like q but for what it is awaited for.
Like(q, r) == /\ q \in Request /\ q.kind = r.kind /\ q.phase = r.phase /\ q.code = r.code
              /\ q.reply = r.reply

\* Requests of the kinds are outdated, the others stay as they are awaited.
Outdates(reqs, kinds, next) ==
    /\ next \in SlotsOfRequests
    /\ \A t \in Slots :
         IF reqs[t] = Nothing THEN next[t] = Nothing
         ELSE /\ Like(next[t], reqs[t])
              /\ next[t].awaited <=> reqs[t].awaited /\ reqs[t].kind \notin kinds

Sends(s, kind, kinds) ==
    /\ requests'[s] \in Request /\ requests'[s].kind = kind /\ requests'[s].phase = "sent"
    /\ requests'[s].awaited
    /\ \A t \in Slots \ {s} :
         IF requests[t] = Nothing THEN requests'[t] = Nothing
         ELSE /\ Like(requests'[t], requests[t])
              /\ requests'[t].awaited <=> requests[t].awaited /\ requests[t].kind \notin kinds

Drops(s) == requests' = [requests EXCEPT ![s] = Nothing]

\* What was answered stays answered, and an answer is the session of that moment.
Works(s) ==
    /\ requests[s] # Nothing /\ requests'[s] \in Request
    /\ requests'[s].kind = requests[s].kind
    /\ requests'[s].awaited <=> requests[s].awaited
    /\ requests[s].phase = "done" => requests'[s].phase = "done"
    /\ requests'[s].phase = "done" /\ requests'[s].code = "ok" => requests'[s].reply = session'
    /\ requests'[s].phase = "done" /\ requests'[s].kind \in {"load", "reload"} =>
         requests'[s].code \in {"ok", "lost"}
    /\ \A t \in Slots \ {s} : requests'[t] = requests[t]

Follows(next) ==
    /\ next \in Session /\ next.version >= session.version
    /\ \/ next.timing = session.timing /\ next.status = session.status
       \/ next.timing = session.timing + 1 /\ session.status \notin Ended

Moves == UNCHANGED <<session, statusAt>> \/ (Follows(session') /\ SessionBecomes(session'))

USE StoreBounds, NothingAssumption

\* What a request that goes out is.
LEMMA SentRequest ==
    ASSUME NEW kind \in RequestKinds, NEW holds \in BOOLEAN
    PROVE  /\ Sent(kind, holds) \in Request /\ Sent(kind, holds) # Nothing
           /\ Sent(kind, holds).kind = kind /\ Sent(kind, holds).phase = "sent"
           /\ Sent(kind, holds).awaited
<1>1. Sent(kind, holds) \in Request
  BY DEF Sent, Request, RequestKinds
<1> QED
  BY <1>1 DEF Sent

\* Outdated and Released change what requests are awaited for, and nothing else.
LEMMA OutdatedRequests ==
    ASSUME NEW reqs \in SlotsOfRequests, NEW kinds
    PROVE  Outdates(reqs, kinds, Outdated(reqs, kinds))
<1> DEFINE next == Outdated(reqs, kinds)
<1>1. ASSUME NEW t \in Slots, reqs[t] = Nothing PROVE next[t] = Nothing
  BY <1>1 DEF Outdated
<1>2. ASSUME NEW t \in Slots, reqs[t] # Nothing
      PROVE  /\ Like(next[t], reqs[t])
             /\ next[t].awaited <=> reqs[t].awaited /\ reqs[t].kind \notin kinds
  <2>1. reqs[t] \in Request
    BY <1>2 DEF SlotsOfRequests
  <2>2. CASE reqs[t].kind \in kinds
    <3>1. next[t] = [reqs[t] EXCEPT !.awaited = FALSE]
      BY <1>2, <2>2 DEF Outdated
    <3> HIDE DEF next
    <3>2. Like(next[t], reqs[t]) /\ ~next[t].awaited
      BY <2>1, <3>1 DEF Request, Like
    <3> QED
      BY <2>2, <3>2
  <2>3. CASE reqs[t].kind \notin kinds
    <3>1. next[t] = reqs[t]
      BY <2>3 DEF Outdated
    <3> QED
      BY <2>1, <2>3, <3>1 DEF Like
  <2> QED
    BY <2>2, <2>3
<1>3. next = [t \in Slots |-> next[t]]
  BY DEF Outdated
<1> HIDE DEF next
<1>4. Outdates(reqs, kinds, next)
  <2>1. ASSUME NEW t \in Slots PROVE next[t] \in Request \cup {Nothing}
    <3>1. CASE reqs[t] = Nothing
      BY <1>1, <3>1
    <3>2. CASE reqs[t] # Nothing
      <4>1. Like(next[t], reqs[t])
        BY <1>2, <3>2
      <4> QED
        BY <4>1 DEF Like
    <3> QED
      BY <3>1, <3>2
  <2>2. next \in SlotsOfRequests
    BY <1>3, <2>1 DEF SlotsOfRequests
  <2> QED
    BY <1>1, <1>2, <2>2 DEF Outdates
<1> QED
  BY <1>4 DEF next

\* A request that no longer holds the operation is awaited as before.
LEMMA ReleasedRequests ==
    ASSUME NEW reqs \in SlotsOfRequests, NEW kinds, NEW out, Outdates(reqs, kinds, out)
    PROVE  Outdates(reqs, kinds, Released(out))
<1> DEFINE next == Released(out)
<1>1. out \in SlotsOfRequests
  BY DEF Outdates
<1>2. ASSUME NEW t \in Slots, reqs[t] = Nothing PROVE next[t] = Nothing
  BY <1>2 DEF Released, Outdates
<1>3. ASSUME NEW t \in Slots, reqs[t] # Nothing
      PROVE  /\ Like(next[t], reqs[t])
             /\ next[t].awaited <=> reqs[t].awaited /\ reqs[t].kind \notin kinds
  <2>1. /\ Like(out[t], reqs[t])
        /\ out[t].awaited <=> reqs[t].awaited /\ reqs[t].kind \notin kinds
    BY <1>3 DEF Outdates
  <2>2. out[t] \in Request /\ out[t] # Nothing
    BY <2>1 DEF Like
  <2>3. next[t] = [out[t] EXCEPT !.holds = FALSE]
    BY <2>2 DEF Released
  <2> HIDE DEF next
  <2>4. Like(next[t], out[t]) /\ (next[t].awaited <=> out[t].awaited)
    BY <2>2, <2>3 DEF Request, Like
  <2> QED
    BY <2>1, <2>4 DEF Like
<1>4. next = [t \in Slots |-> next[t]]
  BY DEF Released
<1> HIDE DEF next
<1>5. Outdates(reqs, kinds, next)
  <2>1. ASSUME NEW t \in Slots PROVE next[t] \in Request \cup {Nothing}
    <3>1. CASE reqs[t] = Nothing
      BY <1>2, <3>1
    <3>2. CASE reqs[t] # Nothing
      <4>1. Like(next[t], reqs[t])
        BY <1>3, <3>2
      <4> QED
        BY <4>1 DEF Like
    <3> QED
      BY <3>1, <3>2
  <2>2. next \in SlotsOfRequests
    BY <1>4, <2>1 DEF SlotsOfRequests
  <2> QED
    BY <1>2, <1>3, <2>2 DEF Outdates
<1> QED
  BY <1>5 DEF next

\* A request is sent on a slot of its own.
LEMMA SentOn ==
    ASSUME StoreInv, NEW s \in Slots, NEW kind \in RequestKinds, NEW holds \in BOOLEAN, NEW kinds,
           NEW reqs, NEW out, Outdates(reqs, kinds, out),
           \A t \in Slots \ {s} : reqs[t] = requests[t],
           requests' = [out EXCEPT ![s] = Sent(kind, holds)]
    PROVE  Sends(s, kind, kinds) /\ requests' \in SlotsOfRequests
<1>1. out \in SlotsOfRequests
  BY DEF Outdates
<1>2. requests'[s] = Sent(kind, holds) /\ \A t \in Slots \ {s} : requests'[t] = out[t]
  BY <1>1 DEF SlotsOfRequests
<1>3. requests' \in SlotsOfRequests
  BY <1>1, SentRequest DEF SlotsOfRequests
<1> QED
  BY <1>2, <1>3, SentRequest DEF Outdates, Sends

\* Another request is outdated or sent by an action of the store.
LEMMA OutdatedSent ==
    ASSUME StoreInv, NEW s \in Slots, NEW kind \in RequestKinds, NEW kinds, NEW reqs,
           \/ reqs = Outdated(requests, kinds)
           \/ reqs = Released(Outdated(requests, kinds)),
           requests' = [reqs EXCEPT ![s] = Sent(kind, FALSE)]
    PROVE  Sends(s, kind, kinds) /\ requests' \in SlotsOfRequests
<1>1. requests \in SlotsOfRequests
  BY DEF StoreInv, StoreTypeOK, SlotsOfRequests
<1>2. Outdates(requests, kinds, reqs)
  BY <1>1, OutdatedRequests, ReleasedRequests
<1> QED
  BY <1>2, SentOn

\* A reload takes the place of the request that found out that it is needed.
LEMMA ReloadingSends ==
    ASSUME StoreInv, NEW s \in Slots, NEW holds \in BOOLEAN, NEW kinds,
           requests' = Reloading(s, holds, kinds)
    PROVE  Sends(s, "reload", kinds \cup {"reload"}) /\ requests' \in SlotsOfRequests
<1> DEFINE dropped == Dropped(s)
           all == kinds \cup {"reload"}
<1>1. /\ dropped \in SlotsOfRequests /\ \A t \in Slots \ {s} : dropped[t] = requests[t]
  BY DEF StoreInv, StoreTypeOK, SlotsOfRequests, Dropped
<1>2. requests' = [Outdated(dropped, all) EXCEPT ![s] = Sent("reload", holds)]
  BY DEF Reloading
<1>3. "reload" \in RequestKinds
  BY DEF RequestKinds
<1> HIDE DEF dropped, all
<1> DEFINE out == Outdated(dropped, all)
<1>4. Outdates(dropped, all, out) /\ requests' = [out EXCEPT ![s] = Sent("reload", holds)]
  BY <1>1, <1>2, OutdatedRequests
<1> HIDE DEF out
<1>5. \A t \in Slots \ {s} : dropped[t] = requests[t]
  BY <1>1
<1>6. Sends(s, "reload", all) /\ requests' \in SlotsOfRequests
  BY <1>3, <1>4, <1>5, SentOn, ZenonT(60)
<1> QED
  BY <1>6 DEF all

\* An answer leaves the request what it was.
LEMMA AnsweredRequest ==
    ASSUME NEW r \in Request, NEW code \in {"ok", "refused", "lost"},
           NEW reply \in Session \cup {Nothing}
    PROVE  /\ Answer(r, code, reply) \in Request
           /\ Answer(r, code, reply).kind = r.kind /\ Answer(r, code, reply).phase = "done"
           /\ Answer(r, code, reply).awaited = r.awaited /\ Answer(r, code, reply).code = code
           /\ Answer(r, code, reply).reply = reply
BY DEF Answer, Request

\* The server or the network answers one request.
LEMMA AnswerWorks ==
    ASSUME StoreInv, NEW s \in Slots, requests[s] # Nothing,
           NEW code \in {"ok", "refused", "lost"}, NEW reply \in Session \cup {Nothing},
           code = "ok" => reply = session',
           requests[s].kind \in {"load", "reload"} => code # "refused",
           requests' = [requests EXCEPT ![s] = Answer(requests[s], code, reply)]
    PROVE  Works(s) /\ requests' \in SlotsOfRequests /\ requests'[s].phase = "done"
<1>1. requests \in SlotsOfRequests
  BY DEF StoreInv, StoreTypeOK, SlotsOfRequests
<1>2. requests[s] \in Request
  BY <1>1 DEF SlotsOfRequests
<1>3. requests'[s] = Answer(requests[s], code, reply)
      /\ \A t \in Slots \ {s} : requests'[t] = requests[t]
  BY <1>1 DEF SlotsOfRequests
<1>4. requests' \in SlotsOfRequests
  BY <1>1, <1>2, AnsweredRequest DEF SlotsOfRequests
<1> QED
  BY <1>2, <1>3, <1>4, AnsweredRequest DEF Works

\* The calls and the commits of the server move the session on.
LEMMA SessionFollows ==
    ASSUME StoreInv
    PROVE  /\ Follows(session) /\ Follows(Turned)
           /\ session.status \notin Ended => Follows(Solved)
           /\ \A kind : Follows(After(kind))
<1>1. session \in Session
  BY DEF StoreInv, StoreTypeOK
<1>2. ASSUME NEW status \in Statuses
      PROVE  /\ Retimed(status) \in Session /\ Retimed(status).version = session.version
             /\ Retimed(status).timing = session.timing + 1
  <2> DEFINE named == [session EXCEPT !.status = status]
  <2>1. named \in Session /\ named.version = session.version /\ named.timing = session.timing
    BY <1>1 DEF Session
  <2>2. Retimed(status) = [named EXCEPT !.timing = @ + 1]
    BY <1>1 DEF Retimed, Session
  <2> HIDE DEF named
  <2> QED
    BY <2>1, <2>2 DEF Session
<1>3. Follows(session)
  BY <1>1 DEF Follows, Session
<1>4. Follows(Turned)
  BY <1>1 DEF Follows, Turned, Session
<1>5. session.status \notin Ended => \A status \in Statuses : Follows(Retimed(status))
  BY <1>1, <1>2 DEF Follows, Session
<1>6. session.status \notin Ended =>
        \A status \in Statuses : Follows([Retimed(status) EXCEPT !.version = @ + 1])
  <2>1. SUFFICES ASSUME session.status \notin Ended,
                        NEW next \in Session, next.version = session.version,
                        next.timing = session.timing + 1
                 PROVE  Follows([next EXCEPT !.version = @ + 1])
    BY <1>2
  <2> QED
    BY <1>1, <2>1 DEF Follows, Session
<1>7. session.status \notin Ended => Follows(Solved)
  BY <1>6 DEF Solved, Statuses
<1>8. ASSUME NEW kind PROVE Follows(After(kind))
  BY <1>3, <1>5, <1>6 DEF After, Statuses, Ended
<1> QED
  BY <1>3, <1>4, <1>7, <1>8

\* One of the student's clicks that the server has not answered.
Clicking(s) ==
    /\ requests[s] # Nothing /\ requests[s].phase # "done"
    /\ requests[s].kind \in Operations \cup {"hide"}

\* What pays for a new timing version: the bound, or a click.
Paid ==
    \/ session'.timing = session.timing
    \/ session.timing < MaxRevisions
    \/ \E s \in Slots : Clicking(s) /\ requests'[s].phase = "done"

ServerStep ==
    /\ Moves /\ Paid /\ requests' \in SlotsOfRequests
    /\ UNCHANGED requests \/ \E s \in Slots : Works(s)
    /\ losses' \in 0 .. MaxLosses /\ UNCHANGED <<store, clicks, told, missed>>

\* Serving a request, in each of its outcomes, is such a step.
LEMMA ServeSteps ==
    ASSUME StoreInv, NEW s \in Slots, Serve(s)
    PROVE  ServerStep
<1> DEFINE r == requests[s]
           kind == IF r.kind = "hide" THEN "pause" ELSE r.kind
           Accepts(next) == /\ SessionBecomes(next)
                            /\ requests' = [requests EXCEPT ![s] = Answer(r, "ok", next)]
           Refusal == /\ requests' = [requests EXCEPT ![s] = Answer(r, "refused", Nothing)]
                      /\ UNCHANGED <<session, statusAt>>
<1>1. /\ session \in Session /\ requests \in SlotsOfRequests
      /\ losses \in 0 .. MaxLosses
  BY DEF StoreInv, StoreTypeOK, SlotsOfRequests
<1>2. /\ r # Nothing /\ r \in Request /\ r.phase # "done"
      /\ UNCHANGED <<store, losses, clicks, told, missed>>
  BY <1>1 DEF Serve, SlotsOfRequests
<1>3. ASSUME NEW next, Follows(next), Accepts(next)
      PROVE  Moves /\ (\E t \in Slots : Works(t)) /\ requests' \in SlotsOfRequests
             /\ session' = next /\ requests'[s].phase = "done"
  <2>1. session' = next /\ next \in Session /\ SessionBecomes(session')
    BY <1>3 DEF SessionBecomes, Follows
  <2>2. Works(s) /\ requests' \in SlotsOfRequests /\ requests'[s].phase = "done"
    BY <1>2, <1>3, <2>1, AnswerWorks
  <2> QED
    BY <1>3, <2>1, <2>2 DEF Moves
<1>4. ASSUME Refusal, r.kind \notin {"load", "reload"}
      PROVE  Moves /\ (\E t \in Slots : Works(t)) /\ requests' \in SlotsOfRequests
             /\ session' = session
  <2>1. Works(s) /\ requests' \in SlotsOfRequests
    BY <1>2, <1>4, AnswerWorks
  <2> QED
    BY <1>4, <2>1 DEF Moves
<1>5. CASE kind \in {"load", "reload"} /\ Accepts(session)
  BY <1>1, <1>2, <1>3, <1>5, SessionFollows DEF ServerStep, Paid
<1>6. CASE kind \in {"pause", "resume", "abandon", "heartbeat"} /\ Refuses(kind) /\ Refusal
  BY <1>1, <1>2, <1>4, <1>6 DEF ServerStep, Paid
<1>7. CASE kind \in {"pause", "resume", "abandon", "heartbeat"} /\ Accepts(After(kind))
  <2>1. Moves /\ (\E t \in Slots : Works(t)) /\ requests' \in SlotsOfRequests
        /\ session' = After(kind) /\ requests'[s].phase = "done"
    BY <1>3, <1>7, SessionFollows
  <2>2. Paid
    <3>1. CASE r.kind = "heartbeat"
      <4>1. session.timing < MaxRevisions \/ session.status # "ACTIVE"
        BY <1>2, <3>1 DEF Serve
      <4>2. session.status # "ACTIVE" => After(kind) = session
        BY <3>1 DEF After
      <4> QED
        BY <2>1, <4>1, <4>2 DEF Paid
    <3>2. CASE r.kind # "heartbeat"
      <4>1. Clicking(s)
        BY <1>2, <1>7, <3>2 DEF Clicking, Operations
      <4> QED
        BY <2>1, <4>1 DEF Paid
    <3> QED
      BY <3>1, <3>2
  <2> QED
    BY <1>1, <1>2, <2>1, <2>2 DEF ServerStep
<1>8. CASE /\ kind = "teach" /\ r.phase = "sent" /\ session.status = "ACTIVE"
           /\ requests' = [requests EXCEPT ![s].phase = "begun"]
           /\ UNCHANGED <<session, statusAt>>
  <2> DEFINE begun1 == [r EXCEPT !.phase = "begun"]
  <2>1. /\ begun1 \in Request /\ begun1.kind = r.kind /\ begun1.phase = "begun"
        /\ begun1.awaited = r.awaited
    BY <1>2 DEF Request
  <2>2. requests' = [requests EXCEPT ![s] = begun1]
    BY <1>8
  <2> HIDE DEF begun1
  <2>3. requests' \in SlotsOfRequests /\ requests'[s] = begun1
        /\ \A t \in Slots \ {s} : requests'[t] = requests[t]
    BY <1>1, <2>1, <2>2 DEF SlotsOfRequests
  <2>4. Works(s)
    BY <1>2, <2>1, <2>3 DEF Works
  <2> QED
    BY <1>1, <1>2, <1>8, <2>3, <2>4 DEF ServerStep, Moves, Paid
<1>9. ASSUME kind = "teach", session.status \notin Ended, NEW next \in {Turned, Solved},
             Accepts(next)
      PROVE  ServerStep
  <2>1. Follows(next)
    BY <1>9, SessionFollows
  <2>2. Moves /\ (\E t \in Slots : Works(t)) /\ requests' \in SlotsOfRequests
        /\ requests'[s].phase = "done"
    BY <1>3, <1>9, <2>1
  <2>3. Clicking(s)
    BY <1>2, <1>9 DEF Clicking, Operations
  <2> QED
    BY <1>1, <1>2, <2>2, <2>3 DEF ServerStep, Paid
<1>10. CASE kind = "teach" /\ Refusal
  BY <1>1, <1>2, <1>4, <1>10 DEF ServerStep, Paid
<1> QED
  <2>1. \/ kind \in {"load", "reload"} /\ Accepts(session)
        \/ /\ kind \in {"pause", "resume", "abandon", "heartbeat"}
           /\ IF Refuses(kind) THEN Refusal ELSE Accepts(After(kind))
        \/ /\ kind = "teach" /\ r.phase = "sent" /\ session.status = "ACTIVE"
           /\ requests' = [requests EXCEPT ![s].phase = "begun"]
           /\ UNCHANGED <<session, statusAt>>
        \/ kind = "teach" /\ session.status \notin Ended
             /\ \E next \in {Turned, Solved} : Accepts(next)
        \/ kind = "teach" /\ Refusal
    BY DEF Serve
  <2> HIDE DEF kind, Accepts, Refusal
  <2> QED
    BY <2>1, <1>5, <1>6, <1>7, <1>8, <1>9, <1>10

\* The server and the network move the session on, and answer or lose one request.
LEMMA ServerSteps ==
    ASSUME StoreInv, Elsewhere \/ \E s \in Slots : Serve(s) \/ Lose(s)
    PROVE  ServerStep
<1>1. /\ session \in Session /\ requests \in SlotsOfRequests /\ losses \in 0 .. MaxLosses
  BY DEF StoreInv, StoreTypeOK, SlotsOfRequests
<1>2. CASE Elsewhere
  <2>1. PICK next : Follows(next) /\ SessionBecomes(next)
    BY <1>2, SessionFollows DEF Elsewhere
  <2>2. Moves
    BY <2>1 DEF Moves, SessionBecomes
  <2> QED
    BY <1>1, <1>2, <2>2 DEF Elsewhere, ServerStep, Paid
<1>3. ASSUME NEW s \in Slots, Lose(s) PROVE ServerStep
  <2>1. /\ requests[s] # Nothing /\ losses < MaxLosses /\ losses' = losses + 1
        /\ UNCHANGED <<session, statusAt, store, clicks, told, missed>>
    BY <1>3 DEF Lose
  <2>2. PICK code \in {"refused", "lost"} :
          /\ requests[s].kind \in {"load", "reload"} => code # "refused"
          /\ requests' = [requests EXCEPT ![s] = Answer(requests[s], code, Nothing)]
    BY <1>1, <1>3 DEF Lose, SlotsOfRequests
  <2>3. Works(s) /\ requests' \in SlotsOfRequests
    BY <2>1, <2>2, AnswerWorks
  <2> QED
    BY <1>1, <2>1, <2>3 DEF ServerStep, Moves, Paid
<1> QED
  BY <1>2, <1>3, ServeSteps

\* A status and its timing are taken together, from the store or from a reply.
SameTiming(a, b) == a.status = b.status /\ a.timing = b.timing

\* applyTiming takes all of the timing of a reply, or none of it.
LEMMA TimedTypes ==
    ASSUME StoreInv, NEW st \in Store, NEW new \in Session, st.shown = store.shown
    PROVE  /\ TimedStore(st, new) \in Store
           /\ TimedStore(st, new).shown = st.shown /\ TimedStore(st, new).version = st.version
           /\ TimedStore(st, new).snapshot = st.snapshot
           /\ \/ SameTiming(TimedStore(st, new), st)
              \/ /\ st.shown /\ new.timing >= store.timing
                 /\ SameTiming(TimedStore(st, new), new)
<1>1. CASE MayTime(new)
  <2>1. st.shown /\ new.timing >= store.timing
    BY <1>1 DEF MayTime
  <2> QED
    BY <1>1, <2>1 DEF TimedStore, Store, Session, SameTiming
<1>2. CASE ~MayTime(new)
  BY <1>2 DEF TimedStore, SameTiming
<1> QED
  BY <1>1, <1>2

\* applySession keeps the store, or takes the versions of the snapshot and the timing whole.
LEMMA SnapshotTypes ==
    ASSUME StoreInv, NEW new \in Session
    PROVE  \/ store.shown /\ new.version < store.version /\ Snapshot(new) = store
           \/ /\ store.shown => new.version >= store.version
              /\ Snapshot(new) \in Store /\ Snapshot(new).shown
              /\ Snapshot(new).version = new.version /\ Snapshot(new).snapshot = new.version
              /\ \/ /\ store.shown => new.timing >= store.timing
                    /\ SameTiming(Snapshot(new), new)
                 \/ store.shown /\ SameTiming(Snapshot(new), store)
<1>1. store \in Store /\ store.version \in Nat /\ new.version \in Nat /\ store.timing \in Nat
      /\ new.status \in Statuses /\ new.timing \in Nat
  BY DEF StoreInv, StoreTypeOK, Store, Session
<1>2. CASE store.shown /\ new.version < store.version
  BY <1>2 DEF Snapshot
<1>3. CASE ~(store.shown /\ new.version < store.version)
  <2> DEFINE status == IF AppliesTiming(new) THEN new.status ELSE store.status
             timing == IF AppliesTiming(new) THEN new.timing ELSE store.timing
  <2>1. Snapshot(new) = [store EXCEPT !.shown = TRUE, !.version = new.version,
                                      !.snapshot = new.version, !.status = status,
                                      !.timing = timing]
    BY <1>3 DEF Snapshot
  <2>2. /\ status \in Statuses \cup {Nothing} /\ timing \in Nat
        /\ \/ /\ status = new.status /\ timing = new.timing
              /\ store.shown => new.timing >= store.timing
           \/ store.shown /\ status = store.status /\ timing = store.timing
    BY <1>1 DEF Store, AppliesTiming
  <2> HIDE DEF status, timing
  <2>3. /\ Snapshot(new) \in Store /\ Snapshot(new).shown
        /\ Snapshot(new).version = new.version /\ Snapshot(new).snapshot = new.version
        /\ Snapshot(new).status = status /\ Snapshot(new).timing = timing
    BY <1>1, <2>1, <2>2 DEF Store
  <2> QED
    BY <1>1, <1>3, <2>2, <2>3 DEF SameTiming
<1> QED
  BY <1>2, <1>3

\* A loading flag is no part of what is shown.
LEMMA LoadingTypes ==
    ASSUME NEW st \in Store, NEW loading \in BOOLEAN
    PROVE  LET next == [st EXCEPT !.loading = loading] IN
           /\ next \in Store /\ SameTiming(next, st) /\ next.shown = st.shown
           /\ next.version = st.version /\ next.snapshot = st.snapshot
BY DEF Store, SameTiming

\* What a step of the store does: it changes no session, sends or drops a request, and shows
\* a status and timing that it had or that a reply brought.
ClientStep ==
    /\ UNCHANGED <<session, statusAt, losses>> /\ requests' \in SlotsOfRequests
    /\ store' \in Store /\ told' \in Nat /\ missed' \in BOOLEAN
    /\ clicks' \in 0 .. MaxClicks /\ clicks' \in {clicks, clicks + 1}
    /\ store'.shown =>
         \/ store.shown /\ SameTiming(store', store)
         \/ \E s \in Slots : /\ Replied(s) /\ SameTiming(store', requests[s].reply)
                             /\ store.shown => requests[s].reply.timing >= store.timing
    /\ \E s \in Slots :
         \/ requests[s] # Nothing /\ requests[s].phase = "done" /\ Drops(s)
         \/ /\ requests[s] = Nothing \/ requests[s].phase = "done"
            /\ \E kind \in RequestKinds, kinds \in SUBSET RequestKinds :
                 /\ Sends(s, kind, kinds)
                 /\ kind \in Operations \cup {"hide"} => clicks' = clicks + 1

\* Facts that the types give.
LEMMA StoreTypes ==
    ASSUME StoreInv
    PROVE  /\ session \in Session /\ store \in Store /\ requests \in SlotsOfRequests
           /\ clicks \in 0 .. MaxClicks /\ losses \in 0 .. MaxLosses
           /\ told \in Nat /\ missed \in BOOLEAN
           /\ \A s \in Slots : requests[s] # Nothing => requests[s] \in Request
           /\ \A s \in Slots : Replied(s) => requests[s].reply \in Session
BY DEF StoreInv, StoreTypeOK, SlotsOfRequests, RepliesAreSessions

\* What the student and the timer do, in the terms of ClientStep.
LEMMA SendingSteps ==
    ASSUME StoreInv,
           Load \/ Hide \/ Reconcile \/ (\E kind \in Operations : Operate(kind))
             \/ (\E kind \in {"heartbeat", "reload"} : Poll(kind))
    PROVE  ClientStep
<1>1. /\ store \in Store /\ clicks \in 0 .. MaxClicks /\ told \in Nat /\ missed \in BOOLEAN
  BY StoreTypes
<1>2. ASSUME NEW kinds \in SUBSET RequestKinds, NEW reqs, NEW kind \in RequestKinds,
             \/ reqs = Outdated(requests, kinds)
             \/ reqs = Released(Outdated(requests, kinds)),
             Send(reqs, kind), kind \in Operations \cup {"hide"} => clicks' = clicks + 1
      PROVE  /\ requests' \in SlotsOfRequests
             /\ \E s \in Slots : /\ requests[s] = Nothing
                                 /\ \E k \in RequestKinds, ks \in SUBSET RequestKinds :
                                      /\ Sends(s, k, ks)
                                      /\ k \in Operations \cup {"hide"} => clicks' = clicks + 1
  <2>1. PICK s \in Slots : /\ requests[s] = Nothing
                           /\ requests' = [reqs EXCEPT ![s] = Sent(kind, FALSE)]
    BY <1>2 DEF Send, Free
  <2>2. Sends(s, kind, kinds) /\ requests' \in SlotsOfRequests
    BY <1>2, <2>1, OutdatedSent
  <2> QED
    BY <1>2, <2>1, <2>2
<1>3. /\ Operations \subseteq RequestKinds /\ Timed \subseteq RequestKinds
      /\ {"load", "reload", "hide", "heartbeat"} \subseteq RequestKinds
      /\ "load" \notin Operations \cup {"hide"}
      /\ \A kind \in {"heartbeat", "reload"} : kind \notin Operations \cup {"hide"}
  BY DEF RequestKinds, Timed, Operations
<1>4. Clicks => clicks' = clicks + 1 /\ clicks' \in 0 .. MaxClicks
  BY <1>1 DEF Clicks
<1>5. CASE Load
  <2>1. store' \in Store /\ ~store'.shown
    BY <1>5 DEF Load, NoSession, Store
  <2> DEFINE kinds == Operations \cup Timed \cup {"load"}
  <2>2. kinds \in SUBSET RequestKinds /\ "load" \in RequestKinds
        /\ Send(Released(Outdated(requests, kinds)), "load")
    BY <1>3, <1>5 DEF Load
  <2> HIDE DEF kinds
  <2>3. Clicks /\ UNCHANGED <<session, statusAt, losses, told, missed>>
    BY <1>5 DEF Load
  <2> QED
    BY <1>1, <1>2, <1>3, <1>4, <2>1, <2>2, <2>3 DEF ClientStep
<1>6. CASE Hide
  <2>1. /\ Clicks /\ Timed \in SUBSET RequestKinds /\ "hide" \in RequestKinds
        /\ Send(Outdated(requests, Timed), "hide")
        /\ UNCHANGED <<session, statusAt, store, losses, told, missed>>
    BY <1>3, <1>6 DEF Hide
  <2> QED
    BY <1>1, <1>2, <1>4, <2>1 DEF ClientStep, SameTiming
<1>7. ASSUME NEW kind \in Operations, Operate(kind) PROVE ClientStep
  <2> DEFINE kinds == IF kind = "teach" THEN Operations ELSE Operations \cup Timed
  <2>1. /\ Clicks /\ kinds \in SUBSET RequestKinds /\ kind \in RequestKinds
        /\ Send(Released(Outdated(requests, kinds)), kind)
        /\ UNCHANGED <<session, statusAt, losses, told, missed>>
    BY <1>3, <1>7 DEF Operate
  <2> HIDE DEF kinds
  <2>2. store.shown /\ store' \in Store /\ SameTiming(store', store)
    BY <1>1, <1>7, LoadingTypes DEF Operate
  <2> QED
    BY <1>1, <1>2, <1>4, <2>1, <2>2 DEF ClientStep
<1>8. ASSUME NEW kind \in {"heartbeat", "reload"}, Poll(kind) PROVE ClientStep
  <2> DEFINE kinds == IF kind = "heartbeat" THEN Timed ELSE {"reload"}
  <2>1. /\ kinds \in SUBSET RequestKinds /\ kind \in RequestKinds
        /\ kind \notin Operations \cup {"hide"}
        /\ Send(Outdated(requests, kinds), kind)
        /\ UNCHANGED <<session, statusAt, store, clicks, losses, told, missed>>
    BY <1>3, <1>8 DEF Poll
  <2> HIDE DEF kinds
  <2> QED
    BY <1>1, <1>2, <2>1 DEF ClientStep, SameTiming
<1>9. CASE Reconcile
  <2>1. /\ Clicks /\ {"reload"} \in SUBSET RequestKinds /\ "reload" \in RequestKinds
        /\ Send(Outdated(requests, {"reload"}), "reload")
        /\ UNCHANGED <<session, statusAt, store, losses, told, missed>>
    BY <1>3, <1>9 DEF Reconcile
  <2> QED
    BY <1>1, <1>2, <1>4, <2>1 DEF ClientStep, SameTiming
<1> QED
  BY <1>5, <1>6, <1>7, <1>8, <1>9

\* What is done with an answered request.
LEMMA ReloadStep ==
    ASSUME StoreInv, NEW s \in Slots, Done(s), NEW holds \in BOOLEAN,
           NEW kinds \in SUBSET RequestKinds, requests' = Reloading(s, holds, kinds)
    PROVE  /\ requests' \in SlotsOfRequests /\ requests[s].phase = "done"
           /\ \E kind \in RequestKinds, all \in SUBSET RequestKinds :
                Sends(s, kind, all) /\ kind \notin Operations \cup {"hide"}
<1>1. Sends(s, "reload", kinds \cup {"reload"}) /\ requests' \in SlotsOfRequests
  BY ReloadingSends
<1>2. "reload" \in RequestKinds /\ "reload" \notin Operations \cup {"hide"}
      /\ kinds \cup {"reload"} \in SUBSET RequestKinds
  BY DEF RequestKinds, Operations
<1> QED
  BY <1>1, <1>2 DEF Done

\* An answered request that is dropped leaves its slot free.
LEMMA DropStep ==
    ASSUME StoreInv, NEW s \in Slots, Done(s), requests' = Dropped(s)
    PROVE  /\ requests' \in SlotsOfRequests /\ requests[s].phase = "done"
           /\ requests[s] # Nothing /\ Drops(s)
BY StoreTypes DEF Done, Dropped, Drops, SlotsOfRequests

\* What replies do, in the terms of ClientStep.
LEMMA ReceivingSteps ==
    ASSUME StoreInv, NEW s \in Slots, Receive(s)
    PROVE  ClientStep
<1> DEFINE r == requests[s]
<1>1. /\ store \in Store /\ clicks \in 0 .. MaxClicks /\ told \in Nat /\ missed \in BOOLEAN
      /\ store.loading \in BOOLEAN
  BY StoreTypes DEF Store
<1>2. Receive(s) => Done(s) /\ r \in Request /\ r.awaited \in BOOLEAN /\ r.holds \in BOOLEAN
  <2>1. Receive(s) => Done(s)
    BY DEF Receive, Taught, TimingReplied, HeartbeatRefused, SessionReplied, Useless, Answered
  <2> QED
    BY <2>1, StoreTypes DEF Done, Request
<1>3. Timed \subseteq RequestKinds /\ {} \subseteq RequestKinds
  BY DEF RequestKinds, Timed
<1>4. ASSUME NEW kinds, Answered(s, kinds)
      PROVE  Replied(s) /\ r.reply \in Session /\ r.reply.version \in Nat
  <2>1. Replied(s)
    BY <1>4 DEF Answered, Replied
  <2> QED
    BY <2>1, StoreTypes DEF Session
<1>5. CASE Taught(s)
  <2> DEFINE taken == [store EXCEPT !.version = r.reply.version]
             kinds == IF r.reply.status = "COMPLETED" THEN Timed ELSE {}
  <2>1. Replied(s) /\ r.reply \in Session /\ r.reply.version \in Nat
    BY <1>4, <1>5 DEF Taught
  <2>2. taken \in Store /\ SameTiming(taken, store) /\ taken.shown = store.shown
    BY <1>1, <2>1 DEF Store, SameTiming
  <2>3. /\ store' = TimedStore(taken, r.reply) /\ Tells(r.reply.version)
        /\ requests' = Reloading(s, TRUE, kinds) /\ kinds \in SUBSET RequestKinds
        /\ UNCHANGED <<session, statusAt, clicks, losses, missed>>
    BY <1>3, <1>5 DEF Taught
  <2> HIDE DEF taken, kinds
  <2>4. /\ store' \in Store
        /\ \/ store'.shown = store.shown /\ SameTiming(store', taken)
           \/ SameTiming(store', r.reply) /\ r.reply.timing >= store.timing
    BY <2>1, <2>2, <2>3, TimedTypes
  <2>5. told' \in Nat
    BY <1>1, <2>1, <2>3 DEF Tells
  <2>6. store'.shown => \/ store.shown /\ SameTiming(store', store)
                        \/ SameTiming(store', r.reply) /\ r.reply.timing >= store.timing
    BY <2>2, <2>4 DEF SameTiming
  <2> QED
    BY <1>1, <1>2, <2>1, <2>3, <2>4, <2>5, <2>6, ReloadStep DEF ClientStep
<1>6. CASE TimingReplied(s)
  <2> DEFINE behind == r.reply.version > store.snapshot
             operation == r.kind \in Operations
             timed == TimedStore(store, r.reply)
             loading == IF operation /\ ~behind THEN FALSE ELSE timed.loading
  <2>1. Replied(s) /\ r.reply \in Session /\ r.reply.version \in Nat
    BY <1>4, <1>6 DEF TimingReplied
  <2>2. /\ timed \in Store /\ timed.shown = store.shown
        /\ \/ SameTiming(timed, store)
           \/ SameTiming(timed, r.reply) /\ r.reply.timing >= store.timing
    BY <1>1, <2>1, TimedTypes
  <2>3. /\ store' = [timed EXCEPT !.loading = loading] /\ Tells(r.reply.version)
        /\ requests' = IF behind THEN Reloading(s, operation, {}) ELSE Dropped(s)
        /\ UNCHANGED <<session, statusAt, clicks, losses, missed>>
    BY <1>6 DEF TimingReplied
  <2> HIDE DEF behind, timed
  <2>4. loading \in BOOLEAN /\ operation \in BOOLEAN
    <3>1. timed.loading \in BOOLEAN
      BY <2>2 DEF Store
    <3>2. operation \in BOOLEAN
      OBVIOUS
    <3> HIDE DEF operation
    <3> QED
      BY <3>1, <3>2
  <2> HIDE DEF operation, loading
  <2>5. store' \in Store /\ SameTiming(store', timed) /\ store'.shown = store.shown
    BY <2>2, <2>3, <2>4, LoadingTypes
  <2>6. told' \in Nat
    BY <1>1, <2>1, <2>3 DEF Tells
  <2>7. store'.shown => \/ store.shown /\ SameTiming(store', store)
                        \/ SameTiming(store', r.reply) /\ r.reply.timing >= store.timing
    BY <2>2, <2>5 DEF SameTiming
  <2>8. /\ requests' \in SlotsOfRequests /\ r.phase = "done"
        /\ \/ requests[s] # Nothing /\ Drops(s)
           \/ \E kind \in RequestKinds, all \in SUBSET RequestKinds :
                Sends(s, kind, all) /\ kind \notin Operations \cup {"hide"}
    <3>1. CASE behind
      BY <1>2, <1>3, <2>3, <2>4, <3>1, ReloadStep
    <3>2. CASE ~behind
      BY <1>2, <2>3, <3>2, DropStep
    <3> QED
      BY <3>1, <3>2
  <2> QED
    BY <1>1, <2>1, <2>3, <2>5, <2>6, <2>7, <2>8 DEF ClientStep
<1>7. CASE HeartbeatRefused(s)
  <2>1. requests' = Reloading(s, FALSE, {})
        /\ UNCHANGED <<session, statusAt, store, clicks, losses, told, missed>>
    BY <1>7 DEF HeartbeatRefused
  <2>2. /\ requests' \in SlotsOfRequests /\ r.phase = "done"
        /\ \E kind \in RequestKinds, all \in SUBSET RequestKinds :
             Sends(s, kind, all) /\ kind \notin Operations \cup {"hide"}
    <3>1. Done(s) /\ {} \in SUBSET RequestKinds /\ FALSE \in BOOLEAN
      BY <1>2
    <3>2. requests' = Reloading(s, FALSE, {})
      BY <2>1
    <3> QED
      BY <3>1, <3>2, ReloadStep, Zenon
  <2>3. clicks' \in {clicks, clicks + 1} /\ SameTiming(store', store)
    BY <2>1 DEF SameTiming
  <2> QED
    BY <1>1, <2>1, <2>2, <2>3 DEF ClientStep
<1>8. CASE SessionReplied(s)
  <2> DEFINE loading == IF r.holds THEN FALSE ELSE Snapshot(r.reply).loading
  <2>1. Replied(s) /\ r.reply \in Session
    BY <1>4, <1>8 DEF SessionReplied
  <2>2. /\ Snapshot(r.reply) \in Store
        /\ \/ store.shown /\ SameTiming(Snapshot(r.reply), store)
           \/ /\ SameTiming(Snapshot(r.reply), r.reply)
              /\ store.shown => r.reply.timing >= store.timing
    BY <1>1, <2>1, SnapshotTypes DEF SameTiming
  <2>3. /\ store' = [Snapshot(r.reply) EXCEPT !.loading = loading]
        /\ requests' = Dropped(s) /\ missed' = FALSE
        /\ UNCHANGED <<session, statusAt, clicks, losses, told>>
    BY <1>8 DEF SessionReplied
  <2>4. loading \in BOOLEAN
    BY <2>2 DEF Store
  <2> HIDE DEF loading
  <2>5. store' \in Store /\ SameTiming(store', Snapshot(r.reply))
    BY <2>2, <2>3, <2>4, LoadingTypes
  <2>6. \/ store.shown /\ SameTiming(store', store)
        \/ SameTiming(store', r.reply) /\ (store.shown => r.reply.timing >= store.timing)
    BY <2>2, <2>5 DEF SameTiming
  <2> QED
    BY <1>1, <1>2, <2>1, <2>3, <2>5, <2>6, DropStep DEF ClientStep
<1>9. CASE Useless(s)
  <2> DEFINE operation == r.kind \in Operations /\ r.awaited
             loading == IF operation \/ r.holds THEN FALSE ELSE store.loading
             miss == r.code = "lost" /\ r.awaited /\ r.kind \in {"load", "reload"}
  <2>1. /\ store' = [store EXCEPT !.loading = loading] /\ missed' = (missed \/ miss)
        /\ requests' = Dropped(s) /\ UNCHANGED <<session, statusAt, clicks, losses, told>>
    BY <1>9 DEF Useless
  <2>2. loading \in BOOLEAN
    BY <1>1
  <2>3. missed' \in BOOLEAN
    BY <2>1
  <2> HIDE DEF loading
  <2>4. store' \in Store /\ SameTiming(store', store) /\ store'.shown = store.shown
    BY <1>1, <2>1, <2>2, LoadingTypes
  <2> QED
    BY <1>1, <1>2, <2>1, <2>3, <2>4, DropStep DEF ClientStep
<1> QED
  BY <1>5, <1>6, <1>7, <1>8, <1>9 DEF Receive

\* No step of the store makes a reply, and the server replies with its session.
LEMMA ClientReplies ==
    ASSUME StoreInv, ClientStep, NEW t \in Slots
    PROVE  /\ Done(t)' => /\ Done(t) /\ requests'[t].kind = requests[t].kind
                          /\ requests'[t].code = requests[t].code
           /\ Replied(t)' => Replied(t) /\ requests'[t].reply = requests[t].reply
<1>1. requests \in SlotsOfRequests /\ requests' \in SlotsOfRequests
  BY StoreTypes DEF ClientStep
<1>2. ASSUME NEW s \in Slots, Drops(s)
      PROVE  requests'[t] = Nothing \/ requests'[t] = requests[t]
  BY <1>1, <1>2 DEF Drops, SlotsOfRequests
<1>3. ASSUME NEW s \in Slots, NEW kind, NEW kinds, Sends(s, kind, kinds)
      PROVE  \/ requests'[t] = Nothing \/ requests'[t].phase = "sent"
             \/ requests[t] # Nothing /\ Like(requests'[t], requests[t])
  BY <1>3 DEF Sends
<1>4. \/ requests'[t] = Nothing \/ requests'[t] = requests[t] \/ requests'[t].phase = "sent"
      \/ requests[t] # Nothing /\ Like(requests'[t], requests[t])
  BY <1>2, <1>3 DEF ClientStep
<1> QED
  BY <1>4 DEF Done, Replied, Like

\* A reply that is new is the session of that moment; a load or reload is never refused.
LEMMA ServerReplies ==
    ASSUME StoreInv, ServerStep, NEW t \in Slots
    PROVE  /\ Replied(t)' => \/ Replied(t) /\ requests'[t].reply = requests[t].reply
                             \/ requests'[t].reply = session'
           /\ Done(t)' /\ requests'[t].kind \in {"load", "reload"} =>
                requests'[t].code \in {"ok", "lost"}
<1>1. CASE UNCHANGED requests
  BY <1>1 DEF Done, Replied, StoreInv, RepliesAreSessions
<1>2. ASSUME NEW s \in Slots, Works(s), t # s
      PROVE  requests'[t] = requests[t]
  BY <1>2 DEF Works
<1>3. ASSUME NEW s \in Slots, Works(s), t = s
      PROVE  /\ Replied(t)' => requests'[t].reply = session'
             /\ Done(t)' /\ requests'[t].kind \in {"load", "reload"} =>
                  requests'[t].code \in {"ok", "lost"}
  BY <1>3 DEF Works, Done, Replied
<1> QED
  BY <1>1, <1>2, <1>3 DEF ServerStep, Done, Replied, StoreInv, RepliesAreSessions

\* Every step is one of the two kinds.
LEMMA StoreSteps ==
    ASSUME StoreInv, [StoreNext]_storeVars
    PROVE  ServerStep \/ ClientStep \/ UNCHANGED storeVars
BY ServerSteps, SendingSteps, ReceivingSteps DEF StoreNext

\* The session and its history keep their types.
LEMMA StatusAtTypes ==
    ASSUME StoreInv, Moves
    PROVE  session' \in Session /\ statusAt' \in [Revisions -> Statuses \cup {Nothing}]
<1>1. session \in Session /\ statusAt \in [Revisions -> Statuses \cup {Nothing}]
  BY DEF StoreInv, StoreTypeOK
<1>2. CASE UNCHANGED <<session, statusAt>>
  BY <1>1, <1>2
<1>3. CASE Follows(session') /\ SessionBecomes(session')
  <2>1. session' \in Session /\ session'.status \in Statuses
    BY <1>3 DEF Follows, Session
  <2> QED
    BY <1>1, <1>3, <2>1 DEF SessionBecomes
<1> QED
  BY <1>2, <1>3 DEF Moves

\* Every step keeps the types.
LEMMA StoreInvStep ==
    ASSUME StoreInv, [StoreNext]_storeVars
    PROVE  StoreInv'
<1>1. CASE ServerStep
  <2>1. session' \in Session /\ statusAt' \in [Revisions -> Statuses \cup {Nothing}]
    BY <1>1, StatusAtTypes DEF ServerStep
  <2>2. StoreTypeOK'
    BY <1>1, <2>1 DEF ServerStep, StoreInv, StoreTypeOK, SlotsOfRequests
  <2>3. ASSUME NEW t \in Slots
        PROVE  /\ Replied(t)' => requests'[t].reply \in Session
               /\ Done(t)' /\ requests'[t].kind \in {"load", "reload"} =>
                    requests'[t].code \in {"ok", "lost"}
    BY <1>1, <2>1, ServerReplies, StoreTypes
  <2>4. RepliesAreSessions'
    BY <2>3 DEF RepliesAreSessions
  <2> QED
    BY <2>2, <2>4 DEF StoreInv
<1>2. CASE ClientStep
  <2>1. store'.shown => store'.status # Nothing
    <3>1. ASSUME store.shown, SameTiming(store', store) PROVE store'.status # Nothing
      BY <3>1 DEF SameTiming, StoreInv, StoreTypeOK
    <3>2. ASSUME NEW s \in Slots, Replied(s), SameTiming(store', requests[s].reply)
          PROVE  store'.status # Nothing
      <4>1. store'.status \in Statuses
        BY <3>2, StoreTypes DEF SameTiming, Session
      <4> QED
        BY <4>1
    <3> QED
      BY <1>2, <3>1, <3>2 DEF ClientStep
  <2>2. StoreTypeOK'
    BY <1>2, <2>1 DEF ClientStep, StoreInv, StoreTypeOK, SlotsOfRequests
  <2>3. RepliesAreSessions'
    BY <1>2, ClientReplies DEF RepliesAreSessions, StoreInv
  <2> QED
    BY <2>2, <2>3 DEF StoreInv
<1>3. CASE UNCHANGED storeVars
  BY <1>3 DEF storeVars, StoreInv, StoreTypeOK, RepliesAreSessions, Replied, Done
<1> QED
  BY <1>1, <1>2, <1>3, StoreSteps

\* At first nothing is shown and nothing under way.
LEMMA StoreInvInit == StoreInit => StoreInv
<1> SUFFICES ASSUME StoreInit PROVE StoreInv
  OBVIOUS
<1>1. session \in Session /\ store \in Store /\ ~store.shown
  BY DEF StoreInit, Session, Statuses, Store, NoSession
<1>2. statusAt \in [Revisions -> Statuses \cup {Nothing}]
  BY DEF StoreInit, Statuses
<1>3. requests \in [Slots -> Request \cup {Nothing}] /\ \A s \in Slots : requests[s] = Nothing
  BY DEF StoreInit
<1>4. /\ clicks \in 0 .. MaxClicks /\ losses \in 0 .. MaxLosses /\ told \in Nat
      /\ missed \in BOOLEAN
  <2>1. clicks = 0 /\ losses = 0 /\ told = 0 /\ missed = FALSE
    BY DEF StoreInit
  <2>2. 0 \in 0 .. MaxClicks /\ 0 \in 0 .. MaxLosses
    OBVIOUS
  <2> QED
    BY <2>1, <2>2
<1> QED
  BY <1>1, <1>2, <1>3, <1>4 DEF StoreInv, StoreTypeOK, RepliesAreSessions, Replied, Done

\* The session, the store and its requests keep their types, and a session that is shown has
\* a status.
THEOREM StoreTypeCorrect == StoreSpec => []StoreTypeOK
<1>1. StoreInv => StoreTypeOK
  BY DEF StoreInv
<1> QED
  BY <1>1, StoreInvInit, StoreInvStep, PTL DEF StoreSpec

(***************************************************************************)
(* The timing version stays within Revisions, where statusAt records it:   *)
(* every new version is within the bound of the others, or one of the      *)
(* student's clicks pays for it.                                           *)
(***************************************************************************)
OpenClicks == {s \in Slots : Clicking(s)}

ClickInv ==
    /\ IsFiniteSet(OpenClicks) /\ Cardinality(OpenClicks) <= clicks
    /\ session.timing + Cardinality(OpenClicks) <= MaxRevisions + clicks

\* A subset of a finite set is finite and no larger, and smaller if it is another set.
LEMMA Subsets ==
    ASSUME NEW A, NEW B, IsFiniteSet(A), B \subseteq A
    PROVE  /\ IsFiniteSet(B) /\ Cardinality(A) \in Nat /\ Cardinality(B) \in Nat
           /\ Cardinality(B) <= Cardinality(A)
           /\ A # B => Cardinality(B) # Cardinality(A)
<1>1. B \in SUBSET A
  OBVIOUS
<1>2. IsFiniteSet(B) /\ Cardinality(B) <= Cardinality(A)
      /\ (Cardinality(A) = Cardinality(B) => A = B)
  BY <1>1, FS_Subset
<1> QED
  BY <1>2, FS_CardinalityType

\* The server closes clicks, and no action but a click opens one.
LEMMA ServerClicks ==
    ASSUME StoreInv, ServerStep
    PROVE  OpenClicks' \subseteq OpenClicks
<1> SUFFICES ASSUME NEW t \in Slots, Clicking(t)' PROVE Clicking(t)
  BY DEF OpenClicks
<1>1. CASE UNCHANGED requests
  BY <1>1 DEF Clicking
<1>2. ASSUME NEW s \in Slots, Works(s) PROVE Clicking(t)
  <2>1. CASE t = s
    BY <1>2, <2>1 DEF Works, Clicking
  <2>2. CASE t # s
    <3>1. requests'[t] = requests[t]
      BY <1>2, <2>2 DEF Works
    <3> QED
      BY <3>1 DEF Clicking
  <2> QED
    BY <2>1, <2>2
<1> QED
  BY <1>1, <1>2 DEF ServerStep

\* A step of the store opens one click at most, and counts it.
LEMMA ClientClicks ==
    ASSUME StoreInv, ClientStep
    PROVE  \/ OpenClicks' \subseteq OpenClicks
           \/ clicks' = clicks + 1 /\ \E s \in Slots : OpenClicks' \subseteq OpenClicks \cup {s}
<1>1. requests \in SlotsOfRequests
  BY StoreTypes
<1>2. ASSUME NEW s \in Slots, Drops(s) PROVE OpenClicks' \subseteq OpenClicks
  <2>1. \A t \in Slots : requests'[t] = Nothing \/ requests'[t] = requests[t]
    BY <1>1, <1>2 DEF Drops, SlotsOfRequests
  <2> QED
    BY <2>1 DEF OpenClicks, Clicking
<1>3. ASSUME NEW s \in Slots, NEW kind, NEW kinds, Sends(s, kind, kinds)
      PROVE  /\ OpenClicks' \subseteq OpenClicks \cup {s}
             /\ kind \notin Operations \cup {"hide"} => OpenClicks' \subseteq OpenClicks
  <2>1. ASSUME NEW t \in Slots, t # s, Clicking(t)' PROVE Clicking(t)
    <3>1. requests'[t] # Nothing
      BY <2>1 DEF Clicking
    <3>2. requests[t] # Nothing /\ Like(requests'[t], requests[t])
      BY <1>3, <2>1, <3>1 DEF Sends
    <3> QED
      BY <2>1, <3>2 DEF Clicking, Like
  <2>2. requests'[s].kind = kind
    BY <1>3 DEF Sends
  <2> QED
    BY <2>1, <2>2 DEF OpenClicks, Clicking
<1> QED
  BY <1>2, <1>3 DEF ClientStep

\* Every step keeps the bound.
LEMMA ClickStep ==
    ASSUME StoreInv, StoreInv', ClickInv, [StoreNext]_storeVars
    PROVE  ClickInv'
<1> DEFINE open == OpenClicks
           n == Cardinality(open)
           m == Cardinality(open')
<1>1. /\ clicks \in Nat /\ clicks' \in Nat /\ session.timing \in Nat /\ session'.timing \in Nat
  BY StoreTypes DEF Session, StoreInv, StoreTypeOK
<1>2. IsFiniteSet(open) /\ n <= clicks /\ session.timing + n <= MaxRevisions + clicks
  BY DEF ClickInv
<1>3. n \in Nat
  BY <1>2, Subsets
<1>4. ASSUME IsFiniteSet(open'), m <= clicks', session'.timing + m <= MaxRevisions + clicks'
      PROVE  ClickInv'
  BY <1>4 DEF ClickInv
<1>5. ASSUME open' \subseteq open
      PROVE  IsFiniteSet(open') /\ m \in Nat /\ m <= n /\ (open' # open => m < n)
  <2>1. IsFiniteSet(open') /\ m \in Nat /\ m <= n /\ (open # open' => m # n)
    BY <1>2, <1>5, Subsets
  <2> HIDE DEF n, m
  <2> QED
    BY <1>3, <2>1
<1>6. CASE ServerStep
  <2>1. open' \subseteq open /\ clicks' = clicks
    BY <1>6, ServerClicks DEF ServerStep
  <2>2. session'.timing <= session.timing + 1
    BY <1>1, <1>6 DEF ServerStep, Moves, Follows
  <2>3. \/ session'.timing = session.timing
        \/ session.timing < MaxRevisions
        \/ open' # open
    BY <1>6 DEF ServerStep, Paid, OpenClicks, Clicking
  <2>4. IsFiniteSet(open') /\ m \in Nat /\ m <= n /\ (open' # open => m < n)
    BY <1>5, <2>1
  <2> HIDE DEF open, n, m
  <2>5. m <= clicks' /\ session'.timing + m <= MaxRevisions + clicks'
    BY <1>1, <1>2, <1>3, <2>1, <2>2, <2>3, <2>4
  <2> QED
    BY <1>4, <2>4, <2>5
<1>7. CASE ClientStep
  <2>1. session' = session /\ clicks' \in {clicks, clicks + 1}
    BY <1>7 DEF ClientStep
  <2>2. CASE open' \subseteq open
    <3>1. IsFiniteSet(open') /\ m \in Nat /\ m <= n
      BY <1>5, <2>2
    <3> HIDE DEF open, n, m
    <3>2. m <= clicks' /\ session'.timing + m <= MaxRevisions + clicks'
      BY <1>1, <1>2, <1>3, <2>1, <3>1
    <3> QED
      BY <1>4, <3>1, <3>2
  <2>3. ASSUME clicks' = clicks + 1, NEW s \in Slots, open' \subseteq open \cup {s}
        PROVE  ClickInv'
    <3> DEFINE more == open \cup {s}
               k == Cardinality(more)
    <3>1. IsFiniteSet(more) /\ (k = n \/ k = n + 1)
      BY <1>2, FS_AddElement
    <3>2. IsFiniteSet(open') /\ m \in Nat /\ m <= k
      BY <2>3, <3>1, Subsets
    <3> HIDE DEF open, n, m, more, k
    <3>3. m <= clicks' /\ session'.timing + m <= MaxRevisions + clicks'
      BY <1>1, <1>2, <1>3, <2>1, <2>3, <3>1, <3>2
    <3> QED
      BY <1>4, <3>2, <3>3
  <2> QED
    BY <1>7, <2>2, <2>3, ClientClicks
<1>8. CASE UNCHANGED storeVars
  BY <1>8 DEF storeVars, ClickInv, OpenClicks, Clicking
<1> QED
  BY <1>6, <1>7, <1>8, StoreSteps

\* At first there are no clicks.
LEMMA ClickInit == StoreInit => ClickInv
<1> SUFFICES ASSUME StoreInit PROVE ClickInv
  OBVIOUS
<1>1. session.timing = 0 /\ clicks = 0
  BY DEF StoreInit
<1>2. OpenClicks = {}
  BY DEF StoreInit, OpenClicks, Clicking
<1>3. IsFiniteSet(OpenClicks) /\ Cardinality(OpenClicks) = 0
  BY <1>2, FS_EmptySet
<1> QED
  BY <1>1, <1>3 DEF ClickInv

\* Hence the history has a place for the timing version of the session.
LEMMA TimingBound ==
    ASSUME StoreInv, ClickInv
    PROVE  session.timing \in Revisions
<1> DEFINE n == Cardinality(OpenClicks)
<1>1. n \in Nat /\ session.timing + n <= MaxRevisions + clicks
  BY Subsets DEF ClickInv
<1>2. session.timing \in Nat /\ clicks \in 0 .. MaxClicks
  BY StoreTypes DEF Session
<1> HIDE DEF n
<1> QED
  BY <1>1, <1>2 DEF Revisions

(***************************************************************************)
(* What is shown is what the session was.                                  *)
(***************************************************************************)
\* The session had that status at that timing version.
Had(status, timing) == timing <= session.timing /\ statusAt[timing] = status

RealInv ==
    /\ Had(session.status, session.timing)
    /\ store.shown => Had(store.status, store.timing)
    /\ \A s \in Slots : Replied(s) => Had(requests[s].reply.status, requests[s].reply.timing)

\* The history only grows.
LEMMA HistoryStays ==
    ASSUME StoreInv, ClickInv', StoreInv', RealInv, Moves
    PROVE  /\ Had(session.status, session.timing)'
           /\ \A status, timing : timing \in Nat /\ Had(status, timing) => Had(status, timing)'
<1>1. /\ session \in Session /\ session.timing \in Nat /\ session'.timing \in Nat
      /\ statusAt \in [Revisions -> Statuses \cup {Nothing}]
  BY StoreTypes DEF Session, StoreInv, StoreTypeOK
<1>2. session'.timing \in Revisions
  <2>1. (StoreInv /\ ClickInv => session.timing \in Revisions)'
    BY TimingBound, PTL
  <2> QED
    BY <2>1
<1>3. Had(session.status, session.timing)
  BY DEF RealInv
<1>4. CASE UNCHANGED <<session, statusAt>>
  BY <1>3, <1>4 DEF Had
<1>5. CASE Follows(session') /\ SessionBecomes(session')
  <2>1. statusAt' = [statusAt EXCEPT ![session'.timing] = session'.status]
    BY <1>5 DEF SessionBecomes
  <2>2. /\ statusAt'[session'.timing] = session'.status
        /\ \A timing \in Revisions \ {session'.timing} : statusAt'[timing] = statusAt[timing]
    BY <1>1, <1>2, <2>1
  <2>3. \/ session'.timing = session.timing /\ session'.status = session.status
        \/ session'.timing = session.timing + 1
    BY <1>5 DEF Follows
  <2>4. ASSUME NEW status, NEW timing \in Nat, Had(status, timing)
        PROVE  Had(status, timing)'
    <3>1. timing <= session'.timing /\ timing \in Revisions
      BY <1>1, <1>2, <2>3, <2>4 DEF Had, Revisions
    <3>2. CASE timing = session'.timing
      <4>1. timing = session.timing /\ session'.status = session.status
        BY <1>1, <2>3, <2>4, <3>2 DEF Had
      <4>2. status = session.status
        BY <1>3, <2>4, <4>1 DEF Had
      <4> QED
        BY <2>2, <3>1, <3>2, <4>1, <4>2 DEF Had
    <3>3. CASE timing # session'.timing
      BY <2>2, <2>4, <3>1, <3>3 DEF Had
    <3> QED
      BY <3>2, <3>3
  <2> QED
    BY <1>1, <2>2, <2>4 DEF Had
<1> QED
  BY <1>4, <1>5 DEF Moves

\* Every step keeps what is shown, and what replies say, in the history.
LEMMA RealStep ==
    ASSUME StoreInv, StoreInv', ClickInv', RealInv, [StoreNext]_storeVars
    PROVE  RealInv'
<1>1. /\ store.timing \in Nat /\ store'.timing \in Nat
      /\ \A s \in Slots : Replied(s) => requests[s].reply.timing \in Nat
  BY StoreTypes DEF Session, Store, StoreInv, StoreTypeOK
<1>2. /\ store.shown => Had(store.status, store.timing)
      /\ \A s \in Slots : Replied(s) => Had(requests[s].reply.status, requests[s].reply.timing)
  BY DEF RealInv
<1>3. CASE ServerStep
  <2>1. /\ Had(session.status, session.timing)'
        /\ \A status, timing : timing \in Nat /\ Had(status, timing) => Had(status, timing)'
    BY <1>3, HistoryStays DEF ServerStep
  <2>2. store'.shown => Had(store.status, store.timing)'
    BY <1>1, <1>2, <1>3, <2>1 DEF ServerStep
  <2>3. ASSUME NEW t \in Slots, Replied(t)'
        PROVE  Had(requests[t].reply.status, requests[t].reply.timing)'
    <3>1. CASE Replied(t) /\ requests'[t].reply = requests[t].reply
      <4> DEFINE status == requests[t].reply.status
                 timing == requests[t].reply.timing
      <4>1. timing \in Nat /\ Had(status, timing)
        BY <1>1, <1>2, <3>1
      <4>2. timing <= session'.timing /\ statusAt'[timing] = status
        BY <2>1, <4>1 DEF Had
      <4> QED
        BY <3>1, <4>2 DEF Had
    <3>2. CASE requests'[t].reply = session'
      BY <2>1, <3>2 DEF Had
    <3> QED
      BY <1>3, <2>3, <3>1, <3>2, ServerReplies
  <2> QED
    BY <2>1, <2>2, <2>3 DEF RealInv
<1>4. CASE ClientStep
  <2>1. UNCHANGED <<session, statusAt>>
    BY <1>4 DEF ClientStep
  <2>2. ASSUME store'.shown PROVE Had(store.status, store.timing)'
    <3>1. CASE store.shown /\ SameTiming(store', store)
      BY <1>2, <2>1, <3>1 DEF Had, SameTiming
    <3>2. ASSUME NEW s \in Slots, Replied(s), SameTiming(store', requests[s].reply)
          PROVE  Had(store.status, store.timing)'
      BY <1>2, <2>1, <3>2 DEF Had, SameTiming
    <3> QED
      BY <1>4, <2>2, <3>1, <3>2 DEF ClientStep
  <2>3. ASSUME NEW t \in Slots, Replied(t)'
        PROVE  Had(requests[t].reply.status, requests[t].reply.timing)'
    <3>1. Replied(t) /\ requests'[t].reply = requests[t].reply
      BY <1>4, <2>3, ClientReplies
    <3> QED
      BY <1>2, <2>1, <3>1 DEF Had
  <2>4. Had(session.status, session.timing)'
    BY <2>1 DEF Had, RealInv
  <2> QED
    BY <2>2, <2>3, <2>4 DEF RealInv
<1>5. CASE UNCHANGED storeVars
  BY <1>5 DEF storeVars, RealInv, Had, Replied, Done
<1> QED
  BY <1>3, <1>4, <1>5, StoreSteps

\* At first the history is the status of the session.
LEMMA RealInit == StoreInit => RealInv
<1> SUFFICES ASSUME StoreInit PROVE RealInv
  OBVIOUS
<1>1. session.status = "ACTIVE" /\ session.timing = 0
  BY DEF StoreInit
<1>2. 0 \in Revisions
  BY DEF Revisions
<1>3. Had(session.status, session.timing)
  BY <1>1, <1>2 DEF StoreInit, Had
<1> QED
  BY <1>3 DEF StoreInit, NoSession, RealInv, Replied, Done

\* However replies overtake each other, the status that the store shows is one that the
\* session had, at the timing version that the store holds.
THEOREM ShowsRealStatusHolds == StoreSpec => []ShowsRealStatus
<1>1. StoreInit => StoreInv /\ ClickInv /\ RealInv
  BY StoreInvInit, ClickInit, RealInit
<1>2. StoreInv /\ ClickInv /\ RealInv /\ [StoreNext]_storeVars => (StoreInv /\ ClickInv /\ RealInv)'
  <2> SUFFICES ASSUME StoreInv, ClickInv, RealInv, [StoreNext]_storeVars
               PROVE  (StoreInv /\ ClickInv /\ RealInv)'
    OBVIOUS
  <2>1. StoreInv'
    BY StoreInvStep
  <2>2. ClickInv'
    BY <2>1, ClickStep
  <2>3. RealInv'
    BY <2>1, <2>2, RealStep
  <2> QED
    BY <2>1, <2>2, <2>3
<1>3. RealInv => ShowsRealStatus
  BY DEF RealInv, Had, ShowsRealStatus
<1> QED
  BY <1>1, <1>2, <1>3, PTL DEF StoreSpec

(***************************************************************************)
(* What has ended stays so in the eyes of the student: applySession takes  *)
(* a later snapshot whatever is shown, and is right because the server     *)
(* never moves the timing of a session that has ended.                     *)
(***************************************************************************)
EndIsLast ==
    \A timing \in Revisions :
        timing <= session.timing /\ statusAt[timing] \in Ended => timing = session.timing

\* No new timing version follows an end.
LEMMA EndStep ==
    ASSUME StoreInv, StoreInv', ClickInv', RealInv, EndIsLast, [StoreNext]_storeVars
    PROVE  EndIsLast'
<1>1. /\ session \in Session /\ session.timing \in Nat /\ session'.timing \in Nat
      /\ statusAt \in [Revisions -> Statuses \cup {Nothing}]
  BY StoreTypes DEF Session, StoreInv, StoreTypeOK
<1>2. CASE UNCHANGED <<session, statusAt>>
  BY <1>2 DEF EndIsLast
<1>3. CASE Follows(session') /\ SessionBecomes(session')
  <2>1. statusAt' = [statusAt EXCEPT ![session'.timing] = session'.status]
    BY <1>3 DEF SessionBecomes
  <2>2. statusAt[session.timing] = session.status
    BY DEF RealInv, Had
  <2>3. ASSUME NEW timing \in Revisions, timing <= session'.timing, timing # session'.timing
        PROVE  statusAt'[timing] \notin Ended
    <3>1. statusAt'[timing] = statusAt[timing] /\ timing \in Nat
      BY <1>1, <2>1, <2>3 DEF Revisions
    <3>2. CASE session'.timing = session.timing
      BY <2>3, <3>1, <3>2 DEF EndIsLast
    <3>3. CASE session'.timing = session.timing + 1 /\ session.status \notin Ended
      <4>1. timing <= session.timing
        BY <1>1, <2>3, <3>1, <3>3
      <4>2. CASE timing = session.timing
        BY <2>2, <3>1, <3>3, <4>2
      <4>3. CASE timing # session.timing
        BY <2>3, <3>1, <4>1, <4>3 DEF EndIsLast
      <4> QED
        BY <4>2, <4>3
    <3> QED
      BY <1>3, <3>2, <3>3 DEF Follows
  <2> QED
    BY <2>3 DEF EndIsLast
<1> QED
  BY <1>2, <1>3, StoreSteps DEF ServerStep, ClientStep, Moves, storeVars

\* A status that is shown is replaced by a later one only, and an end by none.
LEMMA KeepsTheEnd ==
    ASSUME StoreInv, ClickInv, RealInv, EndIsLast, [StoreNext]_storeVars, store.shown,
           store'.shown
    PROVE  /\ store'.timing >= store.timing
           /\ store.status \in Ended => store'.status = store.status
<1>1. /\ store.timing \in Nat /\ session.timing \in Nat /\ session.timing \in Revisions
      /\ Had(store.status, store.timing)
  BY StoreTypes, TimingBound DEF Store, Session, RealInv
<1>2. CASE UNCHANGED store
  BY <1>1, <1>2
<1>3. CASE SameTiming(store', store)
  BY <1>1, <1>3 DEF SameTiming
<1>4. ASSUME NEW s \in Slots, Replied(s), SameTiming(store', requests[s].reply),
             requests[s].reply.timing >= store.timing
      PROVE  /\ store'.timing >= store.timing
             /\ store.status \in Ended => store'.status = store.status
  <2> DEFINE status == requests[s].reply.status
             timing == requests[s].reply.timing
  <2>1. timing \in Nat /\ timing >= store.timing /\ Had(status, timing)
    BY <1>4, StoreTypes DEF Session, RealInv
  <2>2. store'.timing = timing /\ store'.status = status
    BY <1>4 DEF SameTiming
  <2> HIDE DEF status, timing
  <2>3. ASSUME store.status \in Ended PROVE status = store.status
    <3>1. store.timing \in Revisions
      BY <1>1 DEF Had, Revisions
    <3>2. store.timing = session.timing
      BY <1>1, <2>3, <3>1 DEF Had, EndIsLast
    <3>3. timing = store.timing
      BY <1>1, <2>1, <3>2 DEF Had
    <3> QED
      BY <1>1, <2>1, <3>3 DEF Had
  <2> QED
    BY <2>1, <2>2, <2>3
<1> QED
  BY <1>2, <1>3, <1>4, StoreSteps DEF ServerStep, ClientStep, storeVars

\* While a session is shown, the timing that is shown never goes back, and a session that was
\* shown as ended is never shown as going on (docs/api/http.md: timing_version
\* is a "persistent monotonic order for lifecycle changes").
THEOREM NeverReopens ==
    StoreSpec => [][store.shown /\ store'.shown =>
                      /\ store'.timing >= store.timing
                      /\ store.status \in Ended => store'.status = store.status]_storeVars
<1> DEFINE Inv == StoreInv /\ ClickInv /\ RealInv /\ EndIsLast
           Kept == store.shown /\ store'.shown =>
                      /\ store'.timing >= store.timing
                      /\ store.status \in Ended => store'.status = store.status
<1>1. StoreInit => Inv
  <2>1. StoreInit => EndIsLast
    BY DEF StoreInit, EndIsLast, Revisions
  <2> QED
    BY <2>1, StoreInvInit, ClickInit, RealInit
<1>2. Inv /\ [StoreNext]_storeVars => Inv'
  <2> SUFFICES ASSUME Inv, [StoreNext]_storeVars PROVE Inv'
    OBVIOUS
  <2>1. StoreInv'
    BY StoreInvStep
  <2>2. ClickInv'
    BY <2>1, ClickStep
  <2> QED
    BY <2>1, <2>2, RealStep, EndStep
<1>3. Inv /\ [StoreNext]_storeVars => [Kept]_storeVars
  BY KeepsTheEnd
<1> QED
  BY <1>1, <1>2, <1>3, PTL DEF StoreSpec

(***************************************************************************)
(* Turns that a reply told of are shown when all is quiet.  While the      *)
(* session is behind what it was told of, a reload is awaited (or was      *)
(* lost) that is answered with a session at least as new: whatever tells   *)
(* of a newer version outdates the reloads of before.                      *)
(***************************************************************************)
VersionsInv ==
    /\ told <= session.version
    /\ \A s \in Slots : Replied(s) => requests[s].reply.version <= session.version
    /\ store.shown => /\ store.snapshot <= store.version
                      /\ store.version <= told \/ store.version <= store.snapshot

\* Either the one load of the store is awaited, or requests of a session that is shown.
LoadsInv ==
    /\ ~store.shown => \A s \in Slots : ~Asked(s, Operations \cup Timed)
    /\ store.shown => \A s \in Slots : ~Asked(s, {"load"})
    /\ \A s, t \in Slots : Asked(s, {"load"}) /\ Asked(t, {"load"}) => s = t
    /\ \A s \in Slots : Asked(s, {"load"}) /\ Replied(s) => requests[s].reply.version >= told

BehindInv ==
    store.shown /\ store.snapshot < told =>
        /\ \A s \in Slots : Asked(s, {"reload"}) /\ Replied(s) => requests[s].reply.version >= told
        /\ missed \/ \E s \in Slots : Asked(s, {"reload"})

QuietInv == VersionsInv /\ LoadsInv /\ BehindInv

\* Versions are numbers.
LEMMA VersionTypes ==
    ASSUME StoreInv
    PROVE  /\ told \in Nat /\ session.version \in Nat
           /\ store.version \in Nat /\ store.snapshot \in Nat /\ store.shown \in BOOLEAN
           /\ \A s \in Slots : Replied(s) => requests[s].reply.version \in Nat
BY StoreTypes DEF Session, Store

\* Which requests are awaited after a request was sent, and after one was dropped.
LEMMA AskedAfterSend ==
    ASSUME StoreInv, NEW s \in Slots, NEW kind, NEW kinds, Sends(s, kind, kinds),
           NEW t \in Slots, NEW some
    PROVE  /\ Asked(t, some)' =>
                \/ t = s /\ kind \in some /\ ~Replied(t)'
                \/ /\ t # s /\ Asked(t, some) /\ requests[t].kind \notin kinds
                   /\ Replied(t)' => Replied(t) /\ requests'[t].reply = requests[t].reply
           /\ kind \in some => Asked(s, some)'
           /\ t # s /\ Asked(t, some) /\ kinds \cap some = {} => Asked(t, some)'
<1>1. /\ requests'[s] # Nothing /\ requests'[s].kind = kind /\ requests'[s].phase = "sent"
      /\ requests'[s].awaited
  BY DEF Sends
<1>2. kind \in some => Asked(s, some)'
  BY <1>1 DEF Asked
<1>3. CASE t = s
  BY <1>1, <1>2, <1>3 DEF Asked, Replied, Done
<1>4. CASE t # s
  <2>1. CASE requests[t] = Nothing
    <3>1. requests'[t] = Nothing
      BY <1>4, <2>1 DEF Sends
    <3> QED
      BY <1>2, <1>4, <2>1, <3>1 DEF Asked
  <2>2. CASE requests[t] # Nothing
    <3>1. /\ Like(requests'[t], requests[t])
          /\ requests'[t].awaited <=> requests[t].awaited /\ requests[t].kind \notin kinds
      BY <1>4, <2>2 DEF Sends
    <3>2. requests'[t] # Nothing /\ requests'[t].kind = requests[t].kind
          /\ requests'[t].phase = requests[t].phase /\ requests'[t].code = requests[t].code
          /\ requests'[t].reply = requests[t].reply
      BY <3>1 DEF Like
    <3> QED
      BY <1>2, <1>4, <2>2, <3>1, <3>2 DEF Asked, Replied, Done
  <2> QED
    BY <2>1, <2>2
<1> QED
  BY <1>3, <1>4

\* The others are awaited as before.
LEMMA AskedAfterDrop ==
    ASSUME StoreInv, NEW s \in Slots, Drops(s), NEW t \in Slots, NEW some
    PROVE  /\ Asked(t, some)' => t # s /\ Asked(t, some)
           /\ Replied(t)' => Replied(t) /\ requests'[t].reply = requests[t].reply
           /\ t # s /\ Asked(t, some) => Asked(t, some)'
<1>1. requests' = [requests EXCEPT ![s] = Nothing] /\ requests \in SlotsOfRequests
  BY StoreTypes DEF Drops
<1>2. IF t = s THEN requests'[t] = Nothing ELSE requests'[t] = requests[t]
  BY <1>1 DEF SlotsOfRequests
<1> QED
  BY <1>2 DEF Asked, Replied, Done

\* The server and the network do not change what is awaited.
LEMMA AskedAfterServer ==
    ASSUME StoreInv, ServerStep, NEW t \in Slots, NEW some
    PROVE  Asked(t, some)' <=> Asked(t, some)
<1>1. ASSUME NEW s \in Slots, Works(s)
      PROVE  Asked(t, some)' <=> Asked(t, some)
  <2>1. CASE t = s
    BY <1>1, <2>1 DEF Works, Asked
  <2>2. CASE t # s
    <3>1. requests'[t] = requests[t]
      BY <1>1, <2>2 DEF Works
    <3> QED
      BY <3>1 DEF Asked
  <2> QED
    BY <2>1, <2>2
<1> QED
  BY <1>1 DEF ServerStep, Asked

\* A reply of the server is as new as anything the store was told of.
LEMMA QuietServer ==
    ASSUME StoreInv, StoreInv', QuietInv, ServerStep
    PROVE  QuietInv'
<1>1. session'.version >= session.version /\ UNCHANGED <<store, told, missed>>
  BY VersionTypes DEF ServerStep, Moves, Follows
<1>2. /\ told \in Nat /\ session.version \in Nat /\ session'.version \in Nat
      /\ \A s \in Slots : Replied(s) => requests[s].reply.version \in Nat
  BY VersionTypes DEF StoreInv, StoreTypeOK, Session
<1>3. told <= session.version
      /\ \A s \in Slots : Replied(s) => requests[s].reply.version <= session.version
  BY DEF QuietInv, VersionsInv
<1>4. ASSUME NEW t \in Slots, Replied(t)'
      PROVE  /\ requests'[t].reply.version <= session'.version
             /\ \/ requests'[t].reply.version >= told
                \/ Replied(t) /\ requests'[t].reply = requests[t].reply
  <2>1. CASE Replied(t) /\ requests'[t].reply = requests[t].reply
    BY <1>1, <1>2, <1>3, <2>1
  <2>2. CASE requests'[t].reply = session'
    BY <1>1, <1>2, <1>3, <2>2
  <2> QED
    BY <1>4, <2>1, <2>2, ServerReplies
<1>5. VersionsInv'
  BY <1>1, <1>2, <1>3, <1>4 DEF QuietInv, VersionsInv
<1>6. LoadsInv'
  BY <1>1, <1>4, AskedAfterServer DEF QuietInv, LoadsInv
<1>7. BehindInv'
  BY <1>1, <1>4, AskedAfterServer DEF QuietInv, BehindInv
<1> QED
  BY <1>5, <1>6, <1>7 DEF QuietInv

\* loadSession begins anew: nothing is shown, and only the load is awaited.
LEMMA QuietLoad ==
    ASSUME StoreInv, QuietInv, NEW s \in Slots, NEW kinds, Sends(s, "load", kinds),
           Operations \cup Timed \cup {"load"} \subseteq kinds, ~store'.shown,
           UNCHANGED <<session, told>>
    PROVE  QuietInv'
<1>1. ASSUME NEW t \in Slots, NEW some, some \subseteq kinds, Asked(t, some)'
      PROVE  t = s /\ "load" \in some /\ ~Replied(t)'
  <2>1. ~(t # s /\ Asked(t, some) /\ requests[t].kind \notin kinds)
    BY <1>1 DEF Asked
  <2> QED
    BY <1>1, <2>1, AskedAfterSend
<1>2. \A t \in Slots : Replied(t)' => Replied(t) /\ requests'[t].reply = requests[t].reply
  <2> SUFFICES ASSUME NEW t \in Slots, Replied(t)'
               PROVE  Replied(t) /\ requests'[t].reply = requests[t].reply
    OBVIOUS
  <2>1. t # s
    BY DEF Sends, Replied, Done
  <2>2. requests'[t] # Nothing
    BY DEF Replied, Done
  <2>3. requests[t] # Nothing /\ Like(requests'[t], requests[t])
    BY <2>1, <2>2 DEF Sends
  <2> QED
    BY <2>3 DEF Like, Replied, Done
<1>3. VersionsInv'
  BY <1>2 DEF QuietInv, VersionsInv
<1>4. "load" \notin Operations \cup Timed
  BY DEF Operations, Timed
<1>5. LoadsInv'
  <2>1. \A t \in Slots : ~Asked(t, Operations \cup Timed)'
    BY <1>1, <1>4
  <2>2. \A t \in Slots : Asked(t, {"load"})' => t = s /\ ~Replied(t)'
    BY <1>1
  <2> QED
    BY <2>1, <2>2 DEF LoadsInv
<1> QED
  BY <1>3, <1>5 DEF QuietInv, BehindInv

\* An operation, a hidden page or a heartbeat leaves the reloads awaited.
LEMMA QuietSend ==
    ASSUME StoreInv, QuietInv, NEW s \in Slots, requests[s] = Nothing,
           NEW kind \in Operations \cup Timed, NEW kinds, Sends(s, kind, kinds),
           kinds \subseteq Operations \cup Timed, store.shown, store'.shown,
           store'.version = store.version, store'.snapshot = store.snapshot,
           UNCHANGED <<session, told, missed>>
    PROVE  QuietInv'
<1>1. /\ kind \notin {"load"} /\ kind \notin {"reload"} /\ kinds \cap {"reload"} = {}
      /\ \A some : \A t \in Slots : Asked(t, some) => t # s
  BY DEF Operations, Timed, Asked
<1>2. ASSUME NEW t \in Slots
      PROVE  /\ ~Asked(t, {"load"})'
             /\ Asked(t, {"reload"})' => Asked(t, {"reload"})
             /\ Asked(t, {"reload"}) => Asked(t, {"reload"})'
  BY <1>1, AskedAfterSend DEF QuietInv, LoadsInv
<1>3. ASSUME NEW t \in Slots, Replied(t)'
      PROVE  Replied(t) /\ requests'[t].reply = requests[t].reply
  <2>1. t # s /\ requests'[t] # Nothing
    BY <1>3 DEF Sends, Replied, Done
  <2>2. requests[t] # Nothing /\ Like(requests'[t], requests[t])
    BY <2>1 DEF Sends
  <2> QED
    BY <1>3, <2>2 DEF Like, Replied, Done
<1>4. VersionsInv'
  BY <1>3 DEF QuietInv, VersionsInv
<1>5. LoadsInv'
  BY <1>2 DEF LoadsInv
<1>6. BehindInv'
  BY <1>2, <1>3 DEF QuietInv, BehindInv
<1> QED
  BY <1>4, <1>5, <1>6 DEF QuietInv

\* A reload that is sent is the only one awaited, and nothing has answered it.
LEMMA QuietReload ==
    ASSUME StoreInv, StoreInv', QuietInv, NEW s \in Slots, NEW kinds,
           Sends(s, "reload", kinds), "reload" \in kinds, store.shown, store'.shown,
           store'.snapshot = store.snapshot, store'.version >= store.version,
           store'.version = store.version \/ store'.version <= told',
           told' >= told, told' <= session.version, UNCHANGED session
    PROVE  QuietInv'
<1>1. /\ told \in Nat /\ told' \in Nat /\ store.version \in Nat /\ store'.version \in Nat
      /\ store.snapshot \in Nat
  BY VersionTypes DEF StoreInv, StoreTypeOK, Store
<1>2. ASSUME NEW t \in Slots
      PROVE  ~Asked(t, {"load"})' /\ (Asked(t, {"reload"})' => ~Replied(t)')
  <2>1. ~(Asked(t, {"reload"}) /\ requests[t].kind \notin kinds)
    BY DEF Asked
  <2> QED
    BY <2>1, AskedAfterSend DEF QuietInv, LoadsInv
<1>3. Asked(s, {"reload"})'
  BY AskedAfterSend
<1>4. ASSUME NEW t \in Slots, Replied(t)'
      PROVE  Replied(t) /\ requests'[t].reply = requests[t].reply
  <2>1. t # s /\ requests'[t] # Nothing
    BY <1>4 DEF Sends, Replied, Done
  <2>2. requests[t] # Nothing /\ Like(requests'[t], requests[t])
    BY <2>1 DEF Sends
  <2> QED
    BY <1>4, <2>2 DEF Like, Replied, Done
<1>5. VersionsInv'
  <2>1. /\ store.snapshot <= store.version
        /\ store.version <= told \/ store.version <= store.snapshot
    BY DEF QuietInv, VersionsInv
  <2>2. /\ store'.snapshot <= store'.version
        /\ store'.version <= told' \/ store'.version <= store'.snapshot
    BY <1>1, <2>1
  <2> QED
    BY <1>4, <2>2 DEF QuietInv, VersionsInv
<1>6. LoadsInv'
  BY <1>2 DEF LoadsInv
<1>7. BehindInv'
  BY <1>2, <1>3 DEF BehindInv
<1> QED
  BY <1>5, <1>6, <1>7 DEF QuietInv

\* An answered request is dropped: no reload, or one that was lost, unless the store is up to
\* date with what it was told of.
LEMMA QuietDrop ==
    ASSUME StoreInv, StoreInv', QuietInv, NEW s \in Slots, Drops(s), UNCHANGED session,
           told' = told \/ (told' > told /\ store.shown /\ ~Asked(s, {"load"})),
           told' <= session.version, store'.shown = store.shown \/ Asked(s, {"load"}),
           store'.shown => store'.snapshot <= store'.version
                           /\ (store'.version <= told' \/ store'.version <= store'.snapshot),
           store'.shown => \/ store'.snapshot >= told'
                           \/ /\ store.shown /\ store'.snapshot = store.snapshot /\ told' = told
                              /\ missed => missed'
                              /\ Asked(s, {"reload"}) => missed'
    PROVE  QuietInv'
<1>1. told \in Nat /\ told' \in Nat
  BY VersionTypes DEF StoreInv, StoreTypeOK
<1>2. ASSUME NEW t \in Slots, NEW some
      PROVE  /\ Asked(t, some)' => t # s /\ Asked(t, some)
             /\ Replied(t)' => Replied(t) /\ requests'[t].reply = requests[t].reply
             /\ t # s /\ Asked(t, some) => Asked(t, some)'
  BY AskedAfterDrop
<1>3. VersionsInv'
  BY <1>2 DEF QuietInv, VersionsInv
<1>4. LoadsInv'
  <2>1. ~store'.shown => \A t \in Slots : ~Asked(t, Operations \cup Timed)'
    <3>1. CASE Asked(s, {"load"})
      <4>1. ~store.shown
        BY <3>1 DEF QuietInv, LoadsInv
      <4> QED
        BY <1>2, <4>1 DEF QuietInv, LoadsInv
    <3>2. CASE store'.shown = store.shown
      BY <1>2, <3>2 DEF QuietInv, LoadsInv
    <3> QED
      BY <3>1, <3>2
  <2>2. store'.shown => \A t \in Slots : ~Asked(t, {"load"})'
    BY <1>2 DEF QuietInv, LoadsInv
  <2>3. \A t, u \in Slots : Asked(t, {"load"})' /\ Asked(u, {"load"})' => t = u
    BY <1>2 DEF QuietInv, LoadsInv
  <2>4. \A t \in Slots : Asked(t, {"load"})' /\ Replied(t)' => requests'[t].reply.version >= told'
    BY <1>2 DEF QuietInv, LoadsInv
  <2> QED
    BY <2>1, <2>2, <2>3, <2>4 DEF LoadsInv
<1>5. BehindInv'
  <2> SUFFICES ASSUME store'.shown, store'.snapshot < told'
               PROVE  /\ \A t \in Slots : Asked(t, {"reload"})' /\ Replied(t)' =>
                                            requests'[t].reply.version >= told'
                      /\ missed' \/ \E t \in Slots : Asked(t, {"reload"})'
    BY DEF BehindInv
  <2>1. store'.snapshot \in Nat
    BY VersionTypes DEF StoreInv, StoreTypeOK, Store
  <2>2. /\ store.shown /\ store.snapshot < told /\ told' = told
        /\ missed => missed'
        /\ Asked(s, {"reload"}) => missed'
    BY <1>1, <2>1
  <2>3. /\ \A t \in Slots : Asked(t, {"reload"}) /\ Replied(t) => requests[t].reply.version >= told
        /\ missed \/ \E t \in Slots : Asked(t, {"reload"})
    BY <2>2 DEF QuietInv, BehindInv
  <2>4. ASSUME NEW t \in Slots, Asked(t, {"reload"})', Replied(t)'
        PROVE  requests'[t].reply.version >= told'
    <3>1. /\ Asked(t, {"reload"}) /\ Replied(t) /\ requests'[t].reply = requests[t].reply
      BY <1>2, <2>4
    <3> QED
      BY <2>2, <2>3, <3>1
  <2>5. ASSUME ~missed' PROVE \E t \in Slots : Asked(t, {"reload"})'
    <3>1. PICK t \in Slots : Asked(t, {"reload"})
      BY <2>2, <2>3, <2>5
    <3>2. t # s
      <4>1. ~Asked(s, {"reload"})
        BY <2>2, <2>5
      <4> QED
        BY <3>1, <4>1
    <3>3. Asked(t, {"reload"})'
      BY <1>2, <3>1, <3>2
    <3> QED
      BY <3>3
  <2> QED
    BY <2>4, <2>5
<1> QED
  BY <1>3, <1>4, <1>5 DEF QuietInv

\* What the student and the timer send keeps the invariant.
LEMMA QuietSending ==
    ASSUME StoreInv, StoreInv', QuietInv,
           Load \/ Hide \/ Reconcile \/ (\E kind \in Operations : Operate(kind))
             \/ (\E kind \in {"heartbeat", "reload"} : Poll(kind))
    PROVE  QuietInv'
<1>1. store \in Store /\ store.version \in Nat /\ store.snapshot \in Nat /\ told \in Nat
  BY StoreTypes, VersionTypes
<1>2. told <= session.version
  BY DEF QuietInv, VersionsInv
<1>3. "load" \in RequestKinds /\ "hide" \in RequestKinds /\ "reload" \in RequestKinds
      /\ "heartbeat" \in RequestKinds /\ "hide" \in Timed /\ "heartbeat" \in Timed
      /\ \A kind \in Operations : kind \in RequestKinds
  BY DEF RequestKinds, Operations, Timed
<1>4. ASSUME NEW kinds, NEW reqs, NEW kind \in RequestKinds,
             \/ reqs = Outdated(requests, kinds)
             \/ reqs = Released(Outdated(requests, kinds)),
             Send(reqs, kind)
      PROVE  \E s \in Slots : requests[s] = Nothing /\ Sends(s, kind, kinds)
  <2>1. PICK s \in Slots : /\ requests[s] = Nothing
                           /\ requests' = [reqs EXCEPT ![s] = Sent(kind, FALSE)]
    BY <1>4 DEF Send, Free
  <2> QED
    BY <1>4, <2>1, OutdatedSent
<1>5. CASE Load
  <2> DEFINE kinds == Operations \cup Timed \cup {"load"}
  <2>1. Send(Released(Outdated(requests, kinds)), "load")
    BY <1>5 DEF Load
  <2>2. Operations \cup Timed \cup {"load"} \subseteq kinds
    OBVIOUS
  <2> HIDE DEF kinds
  <2>3. PICK s \in Slots : Sends(s, "load", kinds)
    BY <1>3, <1>4, <2>1
  <2>4. ~store'.shown /\ UNCHANGED <<session, told>>
    BY <1>5 DEF Load, NoSession
  <2> QED
    BY <2>2, <2>3, <2>4, QuietLoad
<1>6. CASE Hide
  <2>1. Send(Outdated(requests, Timed), "hide") /\ store.shown
        /\ UNCHANGED <<session, store, told, missed>>
    BY <1>6 DEF Hide
  <2>2. PICK s \in Slots : requests[s] = Nothing /\ Sends(s, "hide", Timed)
    BY <1>3, <1>4, <2>1
  <2>3. "hide" \in Operations \cup Timed /\ Timed \subseteq Operations \cup Timed
    BY <1>3
  <2> QED
    BY <2>1, <2>2, <2>3, QuietSend
<1>7. ASSUME NEW kind \in Operations, Operate(kind) PROVE QuietInv'
  <2> DEFINE kinds == IF kind = "teach" THEN Operations ELSE Operations \cup Timed
  <2>1. Send(Released(Outdated(requests, kinds)), kind) /\ store.shown
        /\ store' = [store EXCEPT !.loading = TRUE] /\ UNCHANGED <<session, told, missed>>
    BY <1>7 DEF Operate
  <2>2. kinds \subseteq Operations \cup Timed /\ kind \in Operations \cup Timed
    OBVIOUS
  <2> HIDE DEF kinds
  <2>3. PICK s \in Slots : requests[s] = Nothing /\ Sends(s, kind, kinds)
    BY <1>3, <1>4, <2>1
  <2>4. store'.shown /\ store'.version = store.version /\ store'.snapshot = store.snapshot
    BY <1>1, <2>1 DEF Store
  <2> QED
    BY <2>1, <2>2, <2>3, <2>4, QuietSend
<1>8. CASE Poll("heartbeat")
  <2>1. Send(Outdated(requests, Timed), "heartbeat") /\ store.shown
        /\ UNCHANGED <<session, store, told, missed>>
    BY <1>8 DEF Poll
  <2>2. PICK s \in Slots : requests[s] = Nothing /\ Sends(s, "heartbeat", Timed)
    BY <1>3, <1>4, <2>1
  <2>3. "heartbeat" \in Operations \cup Timed /\ Timed \subseteq Operations \cup Timed
    BY <1>3
  <2> QED
    BY <2>1, <2>2, <2>3, QuietSend
<1>9. CASE Poll("reload") \/ Reconcile
  <2>1. Send(Outdated(requests, {"reload"}), "reload") /\ store.shown
        /\ UNCHANGED <<session, store, told>>
    BY <1>9 DEF Poll, Reconcile
  <2>2. PICK s \in Slots : Sends(s, "reload", {"reload"})
    BY <1>3, <1>4, <2>1
  <2>3. "reload" \in {"reload"} /\ store'.version >= store.version /\ told' >= told
        /\ told' <= session.version
    BY <1>1, <1>2, <2>1
  <2> QED
    BY <2>1, <2>2, <2>3, QuietReload
<1> QED
  BY <1>5, <1>6, <1>7, <1>8, <1>9

\* The reply to a turn and a refused heartbeat have the session reloaded.
LEMMA QuietTaught ==
    ASSUME StoreInv, StoreInv', QuietInv, NEW s \in Slots,
           Taught(s) \/ HeartbeatRefused(s)
    PROVE  QuietInv'
<1> DEFINE r == requests[s]
<1>1. /\ store \in Store /\ store.version \in Nat /\ store.snapshot \in Nat /\ told \in Nat
      /\ session.version \in Nat /\ told <= session.version
  BY StoreTypes, VersionTypes DEF QuietInv, VersionsInv
<1>2. CASE Taught(s)
  <2> DEFINE taken == [store EXCEPT !.version = r.reply.version]
             kinds == IF r.reply.status = "COMPLETED" THEN Timed ELSE {}
  <2>1. Replied(s) /\ Asked(s, Operations \cup Timed) /\ r.reply.version >= store.version
    BY <1>2 DEF Taught, Answered, Replied, Done, Asked, Operations
  <2>2. store.shown
    BY <2>1 DEF QuietInv, LoadsInv
  <2>3. r.reply \in Session /\ r.reply.version \in Nat /\ r.reply.version <= session.version
    BY <2>1, StoreTypes, VersionTypes DEF QuietInv, VersionsInv
  <2>4. /\ store' = TimedStore(taken, r.reply) /\ Tells(r.reply.version)
        /\ requests' = Reloading(s, TRUE, kinds) /\ UNCHANGED session
    BY <1>2 DEF Taught
  <2>5. /\ taken \in Store /\ taken.shown = store.shown /\ taken.version = r.reply.version
        /\ taken.snapshot = store.snapshot
    BY <1>1, <2>3 DEF Store
  <2> HIDE DEF taken, kinds
  <2>6. store'.shown /\ store'.version = r.reply.version /\ store'.snapshot = store.snapshot
    BY <2>2, <2>3, <2>4, <2>5, TimedTypes
  <2>7. told' >= told /\ told' >= r.reply.version /\ told' <= session.version
    BY <1>1, <2>3, <2>4 DEF Tells
  <2>8. Sends(s, "reload", kinds \cup {"reload"}) /\ "reload" \in kinds \cup {"reload"}
    BY <2>4, ReloadingSends
  <2>9. store'.version >= store.version /\ store'.version <= told'
    BY <2>1, <2>6, <2>7
  <2> QED
    BY <2>2, <2>4, <2>6, <2>7, <2>8, <2>9, QuietReload
<1>3. CASE HeartbeatRefused(s)
  <2>1. /\ store.shown /\ requests' = Reloading(s, FALSE, {})
        /\ UNCHANGED <<session, store, told>>
    BY <1>3 DEF HeartbeatRefused
  <2>2. Sends(s, "reload", {} \cup {"reload"}) /\ "reload" \in {} \cup {"reload"}
    BY <2>1, ReloadingSends
  <2>3. store'.version >= store.version /\ told' >= told /\ told' <= session.version
    BY <1>1, <2>1
  <2> QED
    BY <2>1, <2>2, <2>3, QuietReload
<1> QED
  BY <1>2, <1>3

\* A reply with a version that is not shown yet has the session reloaded; another tells nothing.
LEMMA QuietTimed ==
    ASSUME StoreInv, StoreInv', QuietInv, NEW s \in Slots, TimingReplied(s)
    PROVE  QuietInv'
<1> DEFINE r == requests[s]
           behind == r.reply.version > store.snapshot
           operation == r.kind \in Operations
           timed == TimedStore(store, r.reply)
           loading == IF operation /\ ~behind THEN FALSE ELSE timed.loading
<1>1. /\ store \in Store /\ store.version \in Nat /\ store.snapshot \in Nat /\ told \in Nat
      /\ session.version \in Nat /\ told <= session.version
  BY StoreTypes, VersionTypes DEF QuietInv, VersionsInv
<1>2. Replied(s) /\ Asked(s, Operations \cup Timed) /\ ~Asked(s, {"load"}) /\ ~Asked(s, {"reload"})
  BY DEF TimingReplied, Answered, Replied, Done, Asked, Operations, Timed
<1>3. store.shown
  BY <1>2 DEF QuietInv, LoadsInv
<1>4. r.reply \in Session /\ r.reply.version \in Nat /\ r.reply.version <= session.version
  BY <1>2, StoreTypes, VersionTypes DEF QuietInv, VersionsInv
<1>5. /\ store' = [timed EXCEPT !.loading = loading] /\ Tells(r.reply.version)
      /\ requests' = IF behind THEN Reloading(s, operation, {}) ELSE Dropped(s)
      /\ UNCHANGED <<session, missed>>
  BY DEF TimingReplied
<1>6. /\ timed \in Store /\ timed.shown = store.shown /\ timed.version = store.version
      /\ timed.snapshot = store.snapshot
  BY <1>1, <1>4, TimedTypes
<1>7. operation \in BOOLEAN
  OBVIOUS
<1> HIDE DEF timed, loading, operation
<1>8. store'.shown /\ store'.version = store.version /\ store'.snapshot = store.snapshot
  BY <1>3, <1>5, <1>6 DEF Store
<1>9. /\ told' >= told /\ told' <= session.version
      /\ told' = told \/ (told' > told /\ told' = r.reply.version)
  BY <1>1, <1>4, <1>5 DEF Tells
<1>10. CASE behind
  <2>1. requests' = Reloading(s, operation, {})
    BY <1>5, <1>10
  <2>2. Sends(s, "reload", {} \cup {"reload"}) /\ "reload" \in {} \cup {"reload"}
    BY <1>7, <2>1, ReloadingSends
  <2>3. store'.version >= store.version
    BY <1>1, <1>8
  <2> QED
    BY <1>3, <1>5, <1>8, <1>9, <2>2, <2>3, QuietReload
<1>11. CASE ~behind
  <2>1. requests' = Dropped(s)
    BY <1>5, <1>11
  <2>2. Drops(s)
    BY <2>1 DEF Dropped, Drops
  <2>3. /\ store.snapshot <= store.version
        /\ store.version <= told \/ store.version <= store.snapshot
    BY <1>3 DEF QuietInv, VersionsInv
  <2>4. told' \in Nat
    BY VersionTypes DEF StoreInv, StoreTypeOK
  <2>5. store'.snapshot <= store'.version
        /\ (store'.version <= told' \/ store'.version <= store'.snapshot)
    BY <1>1, <1>8, <1>9, <2>3, <2>4
  <2>6. store'.snapshot >= told' \/ told' = told
    BY <1>1, <1>4, <1>8, <1>9, <1>11
  <2> QED
    BY <1>2, <1>3, <1>5, <1>8, <1>9, <2>2, <2>5, <2>6, QuietDrop
<1> QED
  BY <1>10, <1>11

\* The reply to the load or the reload that is awaited brings the store up to date.
LEMMA QuietReplied ==
    ASSUME StoreInv, StoreInv', QuietInv, NEW s \in Slots, SessionReplied(s)
    PROVE  QuietInv'
<1> DEFINE r == requests[s]
           new == Snapshot(r.reply)
           loading == IF r.holds THEN FALSE ELSE new.loading
<1>1. /\ store \in Store /\ store.version \in Nat /\ store.snapshot \in Nat /\ told \in Nat
      /\ told <= session.version
  BY StoreTypes, VersionTypes DEF QuietInv, VersionsInv
<1>2. /\ Replied(s) /\ (Asked(s, {"load"}) \/ (Asked(s, {"reload"}) /\ store.shown))
      /\ requests' = Dropped(s) /\ missed' = FALSE /\ UNCHANGED <<session, told>>
      /\ store' = [new EXCEPT !.loading = loading]
  BY DEF SessionReplied, Answered, Replied, Done, Asked
<1>3. r.reply \in Session /\ r.reply.version \in Nat
  BY <1>2, StoreTypes, VersionTypes
<1>4. \/ store.shown /\ r.reply.version < store.version /\ new = store
      \/ /\ store.shown => r.reply.version >= store.version
         /\ new \in Store /\ new.shown
         /\ new.version = r.reply.version /\ new.snapshot = r.reply.version
  BY <1>3, SnapshotTypes
<1> HIDE DEF new, loading
<1>5. new \in Store /\ new.shown
  BY <1>1, <1>4
<1>6. store'.shown /\ store'.version = new.version /\ store'.snapshot = new.snapshot
  BY <1>2, <1>5 DEF Store
<1>7. Drops(s)
  BY <1>2 DEF Dropped, Drops
\* What answers the only request for a session that is awaited is as new as what was told.
<1>8. ~store.shown \/ store.snapshot < told => r.reply.version >= told
  <2>1. Asked(s, {"load"}) => r.reply.version >= told
    BY <1>2 DEF QuietInv, LoadsInv
  <2>2. store.shown /\ store.snapshot < told /\ Asked(s, {"reload"}) => r.reply.version >= told
    BY <1>2 DEF QuietInv, BehindInv
  <2> QED
    BY <1>2, <2>1, <2>2
<1>9. store.shown => store.snapshot <= store.version
                     /\ (store.version <= told \/ store.version <= store.snapshot)
  BY DEF QuietInv, VersionsInv
<1>10. new.snapshot >= told /\ new.snapshot <= new.version
       /\ (new.version <= told \/ new.version <= new.snapshot)
  BY <1>1, <1>3, <1>4, <1>8, <1>9
<1>11. store'.shown = store.shown \/ Asked(s, {"load"})
  BY <1>2, <1>6, VersionTypes
<1> QED
  BY <1>1, <1>2, <1>6, <1>7, <1>10, <1>11, QuietDrop

\* A reload that is awaited is useless only when it was lost.
LEMMA QuietUseless ==
    ASSUME StoreInv, StoreInv', QuietInv, NEW s \in Slots, Useless(s)
    PROVE  QuietInv'
<1> DEFINE r == requests[s]
           operation == r.kind \in Operations /\ r.awaited
           loading == IF operation \/ r.holds THEN FALSE ELSE store.loading
           miss == r.code = "lost" /\ r.awaited /\ r.kind \in {"load", "reload"}
<1>1. /\ store' = [store EXCEPT !.loading = loading] /\ missed' = (missed \/ miss)
      /\ requests' = Dropped(s) /\ UNCHANGED <<session, told>> /\ Done(s)
  BY DEF Useless
<1>2. store \in Store /\ told <= session.version /\ store.snapshot \in Nat /\ told \in Nat
  BY StoreTypes, VersionTypes DEF QuietInv, VersionsInv
<1>3. Asked(s, {"reload"}) /\ store.shown => miss
  <2> SUFFICES ASSUME Asked(s, {"reload"}), store.shown PROVE miss
    OBVIOUS
  <2>1. r.kind = "reload" /\ r.awaited
    BY DEF Asked
  <2>2. r.code # "ok"
    BY <2>1 DEF Useless
  <2>3. r.code \in {"ok", "lost"}
    BY <1>1, <2>1 DEF StoreInv, RepliesAreSessions
  <2> QED
    BY <2>1, <2>2, <2>3
<1>4. /\ missed => missed'
      /\ Asked(s, {"reload"}) /\ store.shown => missed'
  BY <1>1, <1>3
<1> HIDE DEF loading, miss
<1>5. store'.shown = store.shown /\ store'.version = store.version
      /\ store'.snapshot = store.snapshot
  BY <1>1, <1>2 DEF Store
<1>6. Drops(s)
  BY <1>1 DEF Dropped, Drops
<1>7. store.shown => store.snapshot <= store.version
                     /\ (store.version <= told \/ store.version <= store.snapshot)
  BY DEF QuietInv, VersionsInv
<1> QED
  BY <1>1, <1>2, <1>4, <1>5, <1>6, <1>7, QuietDrop

\* Every step keeps the invariant.
LEMMA QuietStep ==
    ASSUME StoreInv, StoreInv', QuietInv, [StoreNext]_storeVars
    PROVE  QuietInv'
<1>1. CASE UNCHANGED storeVars
  BY <1>1 DEF storeVars, QuietInv, VersionsInv, LoadsInv, BehindInv, Asked, Replied, Done
<1>2. CASE Elsewhere \/ \E s \in Slots : Serve(s) \/ Lose(s)
  BY <1>2, ServerSteps, QuietServer
<1>3. ASSUME NEW s \in Slots, Receive(s) PROVE QuietInv'
  BY <1>3, QuietTaught, QuietTimed, QuietReplied, QuietUseless DEF Receive
<1> QED
  BY <1>1, <1>2, <1>3, QuietSending DEF StoreNext

\* When no request is under way, no turn that the store was told of is missing from what it
\* shows, unless the reload that would have brought it was lost.
THEOREM QuietIsCurrentHolds == StoreSpec => []QuietIsCurrent
<1>1. StoreInit => StoreInv /\ QuietInv
  <2>1. ASSUME StoreInit PROVE QuietInv
    <3>1. told = 0 /\ session.version = 1 /\ ~store.shown /\ \A s \in Slots : requests[s] = Nothing
      BY <2>1 DEF StoreInit, NoSession
    <3> QED
      BY <3>1 DEF QuietInv, VersionsInv, LoadsInv, BehindInv, Asked, Replied, Done
  <2> QED
    BY <2>1, StoreInvInit
<1>2. StoreInv /\ QuietInv /\ [StoreNext]_storeVars => (StoreInv /\ QuietInv)'
  BY StoreInvStep, QuietStep
<1>3. StoreInv /\ QuietInv => QuietIsCurrent
  <2> SUFFICES ASSUME StoreInv, QuietInv, store.shown, ~missed,
                      \A s \in Slots : requests[s] = Nothing
               PROVE  store.snapshot >= told
    BY DEF QuietIsCurrent
  <2>1. ~(store.snapshot < told)
    BY DEF QuietInv, BehindInv, Asked
  <2> QED
    BY <2>1, VersionTypes
<1> QED
  BY <1>1, <1>2, <1>3, PTL DEF StoreSpec
=============================================================================
