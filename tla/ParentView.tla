------------------------------ MODULE ParentView ------------------------------
(***************************************************************************)
(* The live view of a parent: the supervision store of the browser         *)
(* (apps/web/src/stores/supervision.ts), the hub and the socket that feed  *)
(* it (server/internal/realtime), and the calls it makes (ParentChildren   *)
(* and LiveSession).                                                       *)
(*                                                                         *)
(* Of a session there is whose it is and which of the child's it is; what  *)
(* else the view shows of it is set together with the session.  Calls of   *)
(* an earlier generation (requestGeneration) have no effect and are left   *)
(* out; of the sockets of an earlier generation (socketGeneration) there   *)
(* is the close that comes late, as a closing socket delivers no messages. *)
(***************************************************************************)
EXTENDS Integers, Sequences

CONSTANTS
    Children,     \* children of the parent
    Buffer,       \* events of a subscription that the hub keeps
    MaxSessions,  \* bound: sessions of a child
    MaxCommits,   \* bound: commits of all children
    MaxChoices,   \* bound: what the parent does
    MaxFaults,    \* bound: calls and connections that fail
    Nobody        \* no child, no session, no call

ASSUME ParentBounds ==
    /\ Nobody \notin Children \cup (Children \X Nat)
    /\ Buffer \in Nat \ {0} /\ MaxSessions \in Nat

VARIABLES
    begun,     \* sessions that each child has begun
    live,      \* children whose latest session is open
    unsent,    \* events that were committed and not published yet, of each commit
    view,      \* the supervision store
    listing,   \* the call of initialize for the children
    refreshes, \* calls of refreshSession
    timer,     \* refreshTimer: the session to be refreshed
    socket,    \* parentSocket and the subscription behind it
    closing,   \* children whose earlier sockets are told to close and are not closed yet
    counts     \* commits, choices and faults so far

parentVars == <<begun, live, unsent, view, listing, refreshes, timer, socket, closing,
                counts>>

-----------------------------------------------------------------------------
LessonsOf(child) == {child} \X (1 .. MaxSessions)
AllLessons == Children \X (1 .. MaxSessions)
LessonOrNone == AllLessons \cup {Nobody}
ChildOf(lesson) == lesson[1]

Event == [lesson : AllLessons, type : {"STARTED", "OTHER", "ENDED"}]
NewestOf(child) == <<child, begun[child]>>

NoSocket == [student |-> Nobody, phase |-> "none", subscribed |-> FALSE, feed |-> <<>>]

ParentInit ==
    /\ begun = [c \in Children |-> 0] /\ live = {} /\ unsent = {}
    /\ view = [open |-> FALSE, student |-> Nobody, session |-> Nobody,
               active |-> [c \in Children |-> Nobody]]
    /\ listing = Nobody /\ refreshes = {} /\ timer = Nobody
    /\ socket = NoSocket /\ closing = {}
    /\ counts = [commits |-> 0, choices |-> 0, faults |-> 0]

Counted(count, bound) == counts[count] < bound /\ counts' = [counts EXCEPT ![count] = @ + 1]

-----------------------------------------------------------------------------
(* The classroom of a child.  Each request publishes its events after its  *)
(* commit, in order; requests do so side by side.                          *)

Begins(child) ==
    /\ Counted("commits", MaxCommits)
    /\ child \notin live /\ begun[child] < MaxSessions
    /\ begun' = [begun EXCEPT ![child] = @ + 1]
    /\ live' = live \cup {child}
    /\ unsent' = unsent \cup {<<[lesson |-> NewestOf(child)', type |-> "STARTED"]>>}
    /\ UNCHANGED <<view, listing, refreshes, timer, socket, closing>>

WorksOn(child) ==
    /\ Counted("commits", MaxCommits)
    /\ child \in live
    /\ unsent' = unsent \cup {<<[lesson |-> NewestOf(child), type |-> "OTHER"]>>}
    /\ UNCHANGED <<begun, live, view, listing, refreshes, timer, socket, closing>>

\* The plan that is made after a completion is announced with the events of the old session.
Ends(child) ==
    /\ Counted("commits", MaxCommits)
    /\ child \in live
    /\ live' = live \ {child}
    /\ unsent' = unsent \cup {<<[lesson |-> NewestOf(child), type |-> "ENDED"],
                                [lesson |-> NewestOf(child), type |-> "OTHER"]>>}
    /\ UNCHANGED <<begun, view, listing, refreshes, timer, socket, closing>>

\* Faulty variant: the hub keeps what a slow observer has not read.
PublishKeeping(events) ==
    /\ unsent' = (unsent \ {events}) \cup (IF Len(events) > 1 THEN {Tail(events)} ELSE {})
    /\ socket' = IF socket.subscribed /\ socket.student = ChildOf(Head(events).lesson)
                 THEN [socket EXCEPT !.feed = Append(@, Head(events))] ELSE socket
    /\ UNCHANGED <<begun, live, view, listing, refreshes, timer, closing, counts>>

\* Hub.Publish drops what a subscription has no room for.
Publish(events) ==
    /\ unsent' = (unsent \ {events}) \cup (IF Len(events) > 1 THEN {Tail(events)} ELSE {})
    /\ socket' = IF /\ socket.subscribed /\ Len(socket.feed) < Buffer
                    /\ socket.student = ChildOf(Head(events).lesson)
                 THEN [socket EXCEPT !.feed = Append(@, Head(events))] ELSE socket
    /\ UNCHANGED <<begun, live, view, listing, refreshes, timer, closing, counts>>

-----------------------------------------------------------------------------
(* The socket.                                                             *)

\* openRealtime, with the socket that a pending attempt to reconnect gives up.
Watched(student) ==
    IF socket.student = student /\ socket.phase \in {"connecting", "open"} THEN socket
    ELSE [student |-> student, phase |-> "connecting", subscribed |-> FALSE, feed |-> <<>>]

\* openRealtime closes the socket that it replaces.
Watch(student) ==
    /\ socket' = Watched(student)
    /\ closing' = IF socket.student # student /\ socket.phase \in {"connecting", "open"}
                  THEN closing \cup {socket.student} ELSE closing

\* WebSocketHandler.ServeHTTP subscribes once it has accepted the socket.
Subscribe ==
    /\ socket.phase \in {"connecting", "open"} /\ ~socket.subscribed
    /\ socket' = [socket EXCEPT !.subscribed = TRUE]
    /\ UNCHANGED <<begun, live, unsent, view, listing, refreshes, timer, closing, counts>>

Opened ==
    /\ socket.phase = "connecting"
    /\ socket' = [socket EXCEPT !.phase = "open"]
    /\ UNCHANGED <<begun, live, unsent, view, listing, refreshes, timer, closing, counts>>

\* The socket fails or cannot be opened; an attempt to reconnect is due.
SocketLost ==
    /\ Counted("faults", MaxFaults)
    /\ socket.phase \in {"connecting", "open"}
    /\ socket' = [socket EXCEPT !.phase = "closed", !.subscribed = FALSE, !.feed = <<>>]
    /\ UNCHANGED <<begun, live, unsent, view, listing, refreshes, timer, closing>>

\* Faulty variant: a late close counts as one of the socket that replaced the closed one, and
\* which is then replaced in turn.
EarlierClosedCounts(child) ==
    /\ closing' = IF child = view.student /\ socket.phase # "none" THEN closing
                  ELSE closing \ {child}
    /\ socket' = IF child = view.student /\ socket.phase # "none"
                 THEN [socket EXCEPT !.phase = "closed", !.subscribed = FALSE, !.feed = <<>>]
                 ELSE socket
    /\ UNCHANGED <<begun, live, unsent, view, listing, refreshes, timer, counts>>

\* The late close of a socket of an earlier generation leaves the current one alone.
EarlierClosed(child) ==
    /\ closing' = closing \ {child}
    /\ UNCHANGED <<begun, live, unsent, view, listing, refreshes, timer, socket, counts>>

Reconnect ==
    /\ socket.phase = "closed"
    /\ Watch(socket.student)
    /\ UNCHANGED <<begun, live, unsent, view, listing, refreshes, timer, counts>>

\* A message: applyRealtimeMessage and scheduleSessionRefresh.
Message ==
    LET event == Head(socket.feed) IN
    /\ socket.phase = "open" /\ socket.feed # <<>>
    /\ socket' = [socket EXCEPT !.feed = Tail(@)]
    /\ IF ChildOf(event.lesson) = view.student
       THEN /\ view' = [view EXCEPT
                 !.session = event.lesson,
                 !.active[view.student] = CASE event.type = "STARTED" -> event.lesson
                                            [] event.type = "ENDED" -> Nobody
                                            [] OTHER -> @]
            /\ timer' = event.lesson
       ELSE UNCHANGED <<view, timer>>
    /\ UNCHANGED <<begun, live, unsent, listing, refreshes, closing, counts>>

-----------------------------------------------------------------------------
(* Calls.                                                                  *)

\* selectChild, until its call: another child, or one without a session, has the view cleared.
Shown(student, wanted, active) ==
    [view EXCEPT !.student = student, !.active = active,
                 !.session = IF student # view.student \/ wanted = Nobody THEN Nobody ELSE @]

\* refreshSession
Refreshed(student, lesson) ==
    IF student = Nobody \/ lesson = Nobody THEN {} ELSE {[student |-> student, lesson |-> lesson]}

\* The page is opened, for a child and a session of it or for none: initialize.
OpenView(student, lesson) ==
    /\ Counted("choices", MaxChoices)
    /\ ~view.open
    /\ view' = [view EXCEPT !.open = TRUE]
    /\ listing' = [student |-> student, lesson |-> lesson, active |-> Nobody]
    /\ refreshes' = {}
    /\ UNCHANGED <<begun, live, unsent, timer, socket, closing>>

\* ParentChildren: a session that is paused or silent is not listed.
ListChildren ==
    /\ listing # Nobody /\ listing.active = Nobody
    /\ \E busy \in SUBSET live :
         listing' = [listing EXCEPT !.active =
                       [c \in Children |-> IF c \in busy THEN NewestOf(c) ELSE Nobody]]
    /\ UNCHANGED <<begun, live, unsent, view, refreshes, timer, socket, closing, counts>>

\* initialize chooses the child: the one asked for, the current one, one with a session, any.
Preferred(student, active) ==
    LET busy == {c \in Children : active[c] # Nobody}
    IN IF student # Nobody THEN {student}
       ELSE IF view.student # Nobody THEN {view.student}
       ELSE IF busy # {} THEN busy ELSE Children

Listed ==
    /\ listing # Nobody /\ listing.active # Nobody
    /\ \E student \in Preferred(listing.student, listing.active) :
         LET wanted == IF listing.lesson # Nobody THEN listing.lesson
                       ELSE listing.active[student]
         IN /\ view' = Shown(student, wanted, listing.active)
            /\ refreshes' = refreshes \cup Refreshed(student, wanted)
            /\ Watch(student)
    /\ listing' = Nobody
    /\ UNCHANGED <<begun, live, unsent, timer, counts>>

\* The parent chooses another child, or the same once more: a new generation.
Choose(student) ==
    /\ Counted("choices", MaxChoices)
    /\ view.open /\ view.student # Nobody
    /\ view' = Shown(student, view.active[student], view.active)
    /\ refreshes' = Refreshed(student, view.active[student])
    /\ Watch(student)
    /\ listing' = Nobody
    /\ UNCHANGED <<begun, live, unsent, timer>>

\* The refresh that a message asked for, with the child that is selected by now.
RefreshDue ==
    /\ timer # Nobody
    /\ refreshes' = refreshes \cup Refreshed(view.student, timer)
    /\ timer' = Nobody
    /\ UNCHANGED <<begun, live, unsent, view, listing, socket, closing, counts>>

\* LiveSession finds the sessions of the child that is asked for.
Finds(student, lesson) == ChildOf(lesson) = student

\* Faulty variant: the reply is taken, whichever child is selected by now.
RefreshRepliedLate(call) ==
    /\ view' = IF Finds(call.student, call.lesson)
               THEN [view EXCEPT !.session = call.lesson] ELSE view
    /\ refreshes' = refreshes \ {call}
    /\ UNCHANGED <<begun, live, unsent, listing, timer, socket, closing, counts>>

RefreshReplied(call) ==
    /\ view' = IF Finds(call.student, call.lesson) /\ call.student = view.student
               THEN [view EXCEPT !.session = call.lesson] ELSE view
    /\ refreshes' = refreshes \ {call}
    /\ UNCHANGED <<begun, live, unsent, listing, timer, socket, closing, counts>>

CallFails ==
    /\ Counted("faults", MaxFaults)
    /\ \/ listing # Nobody /\ listing' = Nobody /\ UNCHANGED refreshes
       \/ \E call \in refreshes : refreshes' = refreshes \ {call} /\ UNCHANGED listing
    /\ UNCHANGED <<begun, live, unsent, view, timer, socket, closing>>

\* The page is left: disconnect.  A call for the children stays awaited.
LeaveView ==
    /\ view.open
    /\ view' = [view EXCEPT !.open = FALSE]
    /\ socket' = NoSocket /\ timer' = Nobody
    /\ closing' = IF socket.phase \in {"connecting", "open"}
                  THEN closing \cup {socket.student} ELSE closing
    /\ UNCHANGED <<begun, live, unsent, listing, refreshes, counts>>

-----------------------------------------------------------------------------
ParentNext ==
    \/ \E c \in Children : Begins(c) \/ WorksOn(c) \/ Ends(c) \/ Choose(c)
    \/ \E events \in unsent : Publish(events)
    \/ Subscribe \/ Opened \/ SocketLost \/ Reconnect \/ Message
    \/ OpenView(Nobody, Nobody)
    \/ \E c \in Children : \E lesson \in LessonsOf(c) : OpenView(c, lesson)
    \/ ListChildren \/ Listed \/ RefreshDue \/ CallFails \/ LeaveView
    \/ \E call \in refreshes : RefreshReplied(call)
    \/ \E c \in closing : EarlierClosed(c)

\* Timers run, and an attempt to connect ends; those that fail are bounded.
ParentFairness == WF_parentVars(Opened \/ Reconnect)

ParentSpec == ParentInit /\ [][ParentNext]_parentVars /\ ParentFairness

-----------------------------------------------------------------------------
\* Every variable keeps its type, and the hub keeps no more events than it has room for.
ParentTypeOK ==
    /\ begun \in [Children -> 0 .. MaxSessions] /\ live \subseteq Children
    /\ \A events \in unsent : Len(events) \in 1 .. 2 /\ \A i \in DOMAIN events : events[i] \in Event
    /\ view \in [open : BOOLEAN, student : Children \cup {Nobody}, session : LessonOrNone,
                 active : [Children -> LessonOrNone]]
    /\ listing # Nobody => listing.student \in Children \cup {Nobody}
    /\ refreshes \subseteq [student : Children, lesson : AllLessons]
    /\ timer \in LessonOrNone
    /\ socket.student \in Children \cup {Nobody} /\ Len(socket.feed) <= Buffer
    /\ closing \subseteq Children \cup {Nobody}

\* The view shows a session of the child that is selected, and listens to that child, however
\* messages, timers and replies of the child before cross a change of the selection.
ShowsSelectedChild ==
    /\ view.session # Nobody => ChildOf(view.session) = view.student
    /\ socket.phase # "none" => socket.student = view.student

\* A view that has lost its socket gets another, unless the page is left: late closes of
\* earlier sockets do not keep it from being connected.
Reconnects == socket.phase \in {"connecting", "closed"} ~> socket.phase \in {"open", "none"}
=============================================================================
