---------------------------- MODULE ClassroomStore ----------------------------
(***************************************************************************)
(* The classroom in the student's browser (apps/web/src/stores/learning.ts *)
(* and the polling of layouts/StudentLayout.vue) beside the session on the *)
(* server, whose replies may come in any order.                            *)
(*                                                                         *)
(* Of the session there is its status, its version, which orders teaching, *)
(* and its timing version, which orders everything else.  The counters     *)
(* that the store compares to see whether a reply is still awaited         *)
(* (operationSequence, timingSequence, ...) are the field awaited of a     *)
(* request: a counter that moves on leaves its earlier requests unawaited. *)
(*                                                                         *)
(* A poll is sent when the one before has been answered: answers take less *)
(* than the 30 seconds between polls.                                      *)
(***************************************************************************)
EXTENDS Integers

CONSTANTS
    Slots,         \* requests that may be under way
    MaxRevisions,  \* bound: the timing version that heartbeats and others may reach
    MaxClicks,     \* bound: what the student does
    MaxLosses,     \* bound: requests that fail
    Nothing

ASSUME StoreBounds ==
    MaxRevisions \in Nat /\ MaxClicks \in Nat /\ MaxLosses \in Nat

VARIABLES
    session,   \* learning_sessions, on the server
    statusAt,  \* history: the status of the session at each timing version
    store,     \* the learning store
    requests,  \* requests of the store under way
    clicks,    \* what the student did so far
    losses,    \* requests that failed so far
    told,      \* history: the greatest version in a reply that the store accepted
    missed     \* history: the last reload of the session failed

storeVars == <<session, statusAt, store, requests, clicks, losses, told, missed>>

-----------------------------------------------------------------------------
Statuses == {"ACTIVE", "PAUSED", "COMPLETED", "ABANDONED"}
Ended == {"COMPLETED", "ABANDONED"}
Revisions == 0 .. MaxRevisions + MaxClicks
Operations == {"teach", "pause", "resume", "abandon"}

Session == [status : Statuses, version : Nat, timing : Nat]
Store == [shown : BOOLEAN, status : Statuses \cup {Nothing}, version : Nat, snapshot : Nat,
          timing : Nat, loading : BOOLEAN]
NoSession == [shown |-> FALSE, status |-> Nothing, version |-> 0, snapshot |-> 0, timing |-> 0,
              loading |-> FALSE]

\* A request and its reply.  holds says of a reload that the current operation awaits it.
Request == [kind : Operations \cup {"load", "reload", "hide", "heartbeat"},
            phase : {"sent", "begun", "done"}, awaited : BOOLEAN, holds : BOOLEAN,
            code : {"ok", "refused", "lost", Nothing}, reply : Session \cup {Nothing}]

\* No value is none of the values.
ASSUME NothingAssumption == Nothing \notin Statuses \cup Request

StoreInit ==
    /\ session = [status |-> "ACTIVE", version |-> 1, timing |-> 0]
    /\ statusAt = [n \in Revisions |-> IF n = 0 THEN "ACTIVE" ELSE Nothing]
    /\ store = NoSession
    /\ requests = [s \in Slots |-> Nothing]
    /\ clicks = 0 /\ losses = 0 /\ told = 0 /\ missed = FALSE

-----------------------------------------------------------------------------
(* The session on the server.                                              *)

Retimed(status) == [session EXCEPT !.status = status, !.timing = @ + 1]

\* The session after a call that it accepts.
After(kind) ==
    CASE kind = "pause" /\ session.status = "ACTIVE" -> Retimed("PAUSED")
      [] kind = "resume" /\ session.status = "PAUSED" -> Retimed("ACTIVE")
      [] kind = "abandon" /\ session.status \notin Ended ->
           [Retimed("ABANDONED") EXCEPT !.version = @ + 1]
      [] kind = "heartbeat" /\ session.status = "ACTIVE" -> Retimed("ACTIVE")
      [] OTHER -> session

\* What it refuses: transitionSession
Refuses(kind) ==
    \/ kind \in {"pause", "resume", "heartbeat"} /\ session.status \in Ended
    \/ kind = "abandon" /\ session.status = "COMPLETED"

\* The commit of a turn, and of a right answer (service.go).
Turned == [session EXCEPT !.version = @ + 1]
Solved == [Retimed("COMPLETED") EXCEPT !.version = @ + 1]

SessionBecomes(next) ==
    /\ session' = next
    /\ statusAt' = [statusAt EXCEPT ![next.timing] = next.status]

\* Another device, the recovery of stale sessions or a logout.
Elsewhere ==
    /\ session.timing < MaxRevisions /\ session.version < MaxRevisions
    /\ \/ \E kind \in {"pause", "resume", "abandon"} : SessionBecomes(After(kind))
       \/ session.status \notin Ended /\ \E next \in {Turned, Solved} : SessionBecomes(next)
    /\ UNCHANGED <<store, requests, clicks, losses, told, missed>>

Answer(request, code, reply) ==
    [request EXCEPT !.phase = "done", !.code = code, !.reply = reply]

\* The server works on a request.  A turn begins in an active session, and may be
\* committed into one that was paused.
Serve(s) ==
    /\ requests[s] # Nothing /\ requests[s].phase # "done"
    /\ requests[s].kind = "heartbeat" =>
         session.timing < MaxRevisions \/ session.status # "ACTIVE"
    /\ LET r == requests[s]
           kind == IF r.kind = "hide" THEN "pause" ELSE r.kind
           Accepts(next) ==
               /\ SessionBecomes(next)
               /\ requests' = [requests EXCEPT ![s] = Answer(r, "ok", next)]
           Refusal ==
               /\ requests' = [requests EXCEPT ![s] = Answer(r, "refused", Nothing)]
               /\ UNCHANGED <<session, statusAt>>
       IN \/ kind \in {"load", "reload"} /\ Accepts(session)
          \/ /\ kind \in {"pause", "resume", "abandon", "heartbeat"}
             /\ IF Refuses(kind) THEN Refusal ELSE Accepts(After(kind))
          \/ /\ kind = "teach" /\ r.phase = "sent" /\ session.status = "ACTIVE"
             /\ requests' = [requests EXCEPT ![s].phase = "begun"]
             /\ UNCHANGED <<session, statusAt>>
          \/ kind = "teach" /\ r.phase = "begun" /\ session.status \notin Ended
               /\ \E next \in {Turned, Solved} : Accepts(next)
          \/ /\ kind = "teach"
             /\ session.status \in IF r.phase = "sent" THEN Statuses \ {"ACTIVE"} ELSE Ended
             /\ Refusal
    /\ UNCHANGED <<store, clicks, losses, told, missed>>

\* The connection, the request or the server fails, or the server does not find the session
\* for the login that the browser sends and that another tab may have changed.  Only a
\* heartbeat tells the two apart: refreshSession is silent, and what loadSession and the
\* operations show of the error is no part of the session.
Lose(s) ==
    /\ requests[s] # Nothing /\ losses < MaxLosses
    /\ requests[s].code # "lost"
    /\ \E code \in IF requests[s].kind = "heartbeat" THEN {"lost", "refused"} ELSE {"lost"} :
         requests' = [requests EXCEPT ![s] = Answer(@, code, Nothing)]
    /\ losses' = losses + 1
    /\ UNCHANGED <<session, statusAt, store, clicks, told, missed>>

-----------------------------------------------------------------------------
(* Requests of the store.                                                  *)

Timed == {"hide", "heartbeat"}

\* Requests of these kinds are not awaited any more.
Outdated(reqs, kinds) ==
    [s \in Slots |-> IF reqs[s] # Nothing /\ reqs[s].kind \in kinds
                     THEN [reqs[s] EXCEPT !.awaited = FALSE] ELSE reqs[s]]

\* A reload does not hold the operation any more.
Released(reqs) ==
    [s \in Slots |-> IF reqs[s] # Nothing THEN [reqs[s] EXCEPT !.holds = FALSE] ELSE reqs[s]]

Sent(kind, holds) ==
    [kind |-> kind, phase |-> "sent", awaited |-> TRUE, holds |-> holds, code |-> Nothing,
     reply |-> Nothing]

Free == {s \in Slots : requests[s] = Nothing}
Send(reqs, kind) == \E s \in Free : requests' = [reqs EXCEPT ![s] = Sent(kind, FALSE)]
Clicks == clicks < MaxClicks /\ clicks' = clicks + 1

\* loadSession
Load ==
    /\ Clicks
    /\ store' = NoSession
    /\ Send(Released(Outdated(requests, Operations \cup Timed \cup {"load"})), "load")
    /\ UNCHANGED <<session, statusAt, losses, told, missed>>

\* submitAnswer, requestSupport, returnFromVoice; and changeLifecycle, which also outdates
\* the polls.
Operate(kind) ==
    /\ Clicks
    /\ store.shown /\ ~store.loading
    /\ store' = [store EXCEPT !.loading = TRUE]
    /\ Send(Released(Outdated(requests, IF kind = "teach" THEN Operations ELSE Operations \cup Timed)),
            kind)
    /\ UNCHANGED <<session, statusAt, losses, told, missed>>

\* pauseForVisibility: the page was hidden.
Hide ==
    /\ Clicks
    /\ store.shown /\ store.status = "ACTIVE"
    /\ Send(Outdated(requests, Timed), "hide")
    /\ UNCHANGED <<session, statusAt, store, losses, told, missed>>

Waiting(kinds) == \E s \in Slots : requests[s] # Nothing /\ requests[s].kind \in kinds

\* reconcileVisible: the page is shown again.  It waits for the pause and the resume that
\* are under way, here without the reloads that they may go on to.
Reconcile ==
    /\ Clicks
    /\ store.shown /\ ~Waiting({"hide", "resume"})
    /\ Send(Outdated(requests, {"reload"}), "reload")
    /\ UNCHANGED <<session, statusAt, store, losses, told, missed>>

\* StudentLayout's timer: a heartbeat, or a reload when the student is idle; a heartbeat
\* needs an operation to be over.
Poll(kind) ==
    /\ store.shown /\ store.status = "ACTIVE" /\ ~Waiting({"heartbeat", "reload"})
    /\ kind = "heartbeat" => ~store.loading
    /\ Send(Outdated(requests, IF kind = "heartbeat" THEN Timed ELSE {"reload"}), kind)
    /\ UNCHANGED <<session, statusAt, store, clicks, losses, told, missed>>

-----------------------------------------------------------------------------
(* Replies.                                                                *)

\* Faulty variant: a first snapshot counts as one of the session that is shown.
AppliesTimingOnce(new) ==
    new.timing > store.timing \/ (new.timing = store.timing /\ new.status = store.status)

\* applySession: whether a snapshot brings the timing with it.
AppliesTiming(new) ==
    \/ ~store.shown
    \/ new.timing > store.timing
    \/ new.timing = store.timing /\ new.status = store.status

\* applySession
Snapshot(new) ==
    IF store.shown /\ new.version < store.version THEN store
    ELSE [store EXCEPT !.shown = TRUE, !.version = new.version, !.snapshot = new.version,
                       !.status = IF AppliesTiming(new) THEN new.status ELSE @,
                       !.timing = IF AppliesTiming(new) THEN new.timing ELSE @]

\* applyTiming: whether a status is taken from a reply.
MayTime(new) ==
    /\ store.shown /\ new.timing >= store.timing
    /\ new.timing = store.timing => new.status = store.status
    /\ store.status \in Ended => new.status = store.status

\* Faulty variant: the status goes without its order.
RetimedStatus(st, new) == IF MayTime(new) THEN [st EXCEPT !.status = new.status] ELSE st

\* applyTiming
TimedStore(st, new) ==
    IF MayTime(new) THEN [st EXCEPT !.status = new.status, !.timing = new.timing] ELSE st

Done(s) == requests[s] # Nothing /\ requests[s].phase = "done"
Answered(s, kinds) == Done(s) /\ requests[s].kind \in kinds /\ requests[s].code = "ok"
Dropped(s) == [requests EXCEPT ![s] = Nothing]
Tells(version) == told' = IF version > told THEN version ELSE told

\* Faulty variant: a poll is enough, the turns come with the next load.
ReloadingNever(s, holds, kinds) ==
    Outdated(Dropped(s), kinds)

\* refreshSession takes the place of the request that found out that it is needed.
Reloading(s, holds, kinds) ==
    [Outdated(Dropped(s), kinds \cup {"reload"}) EXCEPT ![s] = Sent("reload", holds)]

\* The reply to a turn: its version is taken, and then all of the session.
Taught(s) ==
    LET r == requests[s] IN
    /\ Answered(s, {"teach"}) /\ r.awaited /\ r.reply.version >= store.version
    /\ store' = TimedStore([store EXCEPT !.version = r.reply.version], r.reply)
    /\ Tells(r.reply.version)
    /\ requests' = Reloading(s, TRUE, IF r.reply.status = "COMPLETED" THEN Timed ELSE {})
    /\ UNCHANGED <<session, statusAt, clicks, losses, missed>>

\* The reply to a pause, resume, abandon or poll; a newer version has it reloaded.
TimingReplied(s) ==
    LET r == requests[s]
        behind == r.reply.version > store.snapshot
        operation == r.kind \in Operations
        timed == TimedStore(store, r.reply)
    IN
    /\ Answered(s, {"pause", "resume", "abandon"} \cup Timed) /\ r.awaited
    /\ r.kind = "heartbeat" => store.status = "ACTIVE"
    /\ store' = [timed EXCEPT !.loading = IF operation /\ ~behind THEN FALSE ELSE @]
    /\ Tells(r.reply.version)
    /\ requests' = IF behind THEN Reloading(s, operation, {}) ELSE Dropped(s)
    /\ UNCHANGED <<session, statusAt, clicks, losses, missed>>

\* Faulty variant: a heartbeat that is refused is tried once more with the next poll.
HeartbeatIgnored(s) ==
    /\ Done(s) /\ requests[s].kind = "heartbeat" /\ requests[s].code = "refused" /\ store.shown
    /\ requests' = Dropped(s)
    /\ UNCHANGED <<session, statusAt, store, clicks, losses, told, missed>>

\* A heartbeat is refused: the session is reloaded.
HeartbeatRefused(s) ==
    /\ Done(s) /\ requests[s].kind = "heartbeat" /\ requests[s].code = "refused" /\ store.shown
    /\ requests' = Reloading(s, FALSE, {})
    /\ UNCHANGED <<session, statusAt, store, clicks, losses, told, missed>>

\* The reply to loadSession or refreshSession, which may end the operation that waited.
SessionReplied(s) ==
    LET r == requests[s] IN
    /\ Answered(s, {"load", "reload"}) /\ r.awaited
    /\ r.kind = "reload" => store.shown
    /\ store' = [Snapshot(r.reply) EXCEPT !.loading = IF r.holds THEN FALSE ELSE @]
    /\ missed' = FALSE
    /\ requests' = Dropped(s)
    /\ UNCHANGED <<session, statusAt, clicks, losses, told>>

\* A reply that is refused, lost or not awaited any more.
Useless(s) ==
    LET r == requests[s]
        operation == r.kind \in Operations /\ r.awaited
    IN
    /\ Done(s)
    /\ \/ r.code # "ok" /\ ~(r.kind = "heartbeat" /\ r.code = "refused" /\ store.shown)
       \/ ~r.awaited /\ ~(r.kind = "heartbeat" /\ r.code = "refused" /\ store.shown)
       \/ r.kind = "teach" /\ r.code = "ok" /\ r.reply.version < store.version
       \/ r.kind = "heartbeat" /\ r.code = "ok" /\ store.status # "ACTIVE"
       \/ r.kind = "reload" /\ ~store.shown
    /\ store' = [store EXCEPT !.loading = IF operation \/ r.holds THEN FALSE ELSE @]
    /\ missed' = (missed \/ (r.code = "lost" /\ r.awaited /\ r.kind \in {"load", "reload"}))
    /\ requests' = Dropped(s)
    /\ UNCHANGED <<session, statusAt, clicks, losses, told>>

Receive(s) ==
    Taught(s) \/ TimingReplied(s) \/ HeartbeatRefused(s) \/ SessionReplied(s) \/ Useless(s)

-----------------------------------------------------------------------------
StoreNext ==
    \/ Elsewhere
    \/ Load \/ Hide \/ Reconcile
    \/ \E kind \in Operations : Operate(kind)
    \/ \E kind \in {"heartbeat", "reload"} : Poll(kind)
    \/ \E s \in Slots : Serve(s) \/ Lose(s) \/ Receive(s)

\* Requests are answered, replies are handled, and the timer runs.  That some request goes
\* on is enough, as none is under way for ever.
StoreFairness ==
    /\ WF_storeVars(\E s \in Slots : Serve(s) \/ Receive(s))
    /\ WF_storeVars(\E kind \in {"heartbeat", "reload"} : Poll(kind))

StoreSpec == StoreInit /\ [][StoreNext]_storeVars /\ StoreFairness

-----------------------------------------------------------------------------
\* Every variable keeps its type, and a session that is shown has a status.
StoreTypeOK ==
    /\ session \in Session /\ statusAt \in [Revisions -> Statuses \cup {Nothing}]
    /\ store \in Store /\ (store.shown => store.status # Nothing)
    /\ requests \in [Slots -> Request \cup {Nothing}]
    /\ clicks \in 0 .. MaxClicks /\ losses \in 0 .. MaxLosses
    /\ told \in Nat /\ missed \in BOOLEAN

\* What the store shows as status is what the session had at the timing version that is
\* shown, however replies overtake each other (docs/api/http.md: timing_version is the
\* order of lifecycle changes, and a conflicting status is ignored).
ShowsRealStatus == store.shown => store.status = statusAt[store.timing]

\* When no request is under way, the turns that are shown are as new as any reply that was
\* taken; only a reload that failed leaves them behind.
QuietIsCurrent ==
    store.shown /\ ~missed /\ (\A s \in Slots : requests[s] = Nothing) => store.snapshot >= told

\* A browser that shows an active session finds out that it is not: paused or ended
\* elsewhere, it is not shown as active for ever.
CatchesUp ==
    (store.shown /\ store.status = "ACTIVE" /\ session.status # "ACTIVE")
        ~> (store.status # "ACTIVE" \/ session.status = "ACTIVE")
=============================================================================
