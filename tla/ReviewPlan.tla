----------------------------- MODULE ReviewPlan -----------------------------
(***************************************************************************)
(* Daily plans and the review queue of one student: package                *)
(* server/internal/planner with the transactions of the classroom that     *)
(* read plan blocks and write review_queue.                                *)
(*                                                                         *)
(* Three kinds of requests carry a time from one moment to a transaction   *)
(* that uses it later: the student asks for today, a parent's preferences  *)
(* are followed by a replan, and a completed session by the plan of the    *)
(* next day.  Each of them is a call with its asOf.  The student's own     *)
(* session steps take the time in their transaction.  All of them lock     *)
(* the student, or write rows that no other writes meanwhile, so that each *)
(* transaction is one action; Classroom has what happens between two       *)
(* steps of one session.                                                   *)
(*                                                                         *)
(* Data left out: minutes, reasons, order of blocks, skill scores and      *)
(* grades.  They only decide which candidates a plan takes, and here it    *)
(* takes any.  A study day has TicksPerDay ticks.                          *)
(***************************************************************************)
EXTENDS Naturals

CONSTANTS
    Kps,          \* released knowledge points
    Subject,      \* the subject of a knowledge point
    Choices,      \* what a parent may enable: sets of subjects, {} for all of them
    InGrade,      \* the knowledge points of the student's own grade band, not a lower one
    DueAtFirst,   \* the knowledge points with a review left by earlier days
    Dependencies, \* cross_subject_dependencies: <<source, prerequisite>>
    Calls,        \* planner calls in flight at once
    TicksPerDay,  \* 24 hours
    Intervals,    \* days until the next review after a success (mastery.NewEngine)
    MaxTime,      \* bound: the last tick
    MaxChanges,   \* bound: changes of the parent's preferences
    MaxCalls,     \* bound: planner calls in a behaviour
    MaxSessions,  \* bound: sessions started in a behaviour
    Null          \* SQL NULL, and what is not there

ASSUME DependencyAssumption ==
    /\ InGrade \subseteq Kps /\ DueAtFirst \subseteq Kps
    /\ Dependencies \subseteq Kps \X Kps
    /\ \A k \in Kps : <<k, k>> \notin Dependencies
ASSUME ChoicesAssumption == {} \in Choices
ASSUME DayAssumption == TicksPerDay \in Nat \ {0} /\ Intervals \subseteq Nat \ {0}
ASSUME HorizonAssumption == 
    MaxTime \in Nat /\ MaxChanges \in Nat /\ MaxCalls \in Nat /\ MaxSessions \in Nat
ASSUME PlanNullAssumption == Null \notin Kps \cup Nat \cup {"TODAY", "TOMORROW", "REPLAN"}

VARIABLES
    now,     \* the clock
    queue,   \* review_queue
    miscon,  \* knowledge points with an ACTIVE student_misconceptions row
    plan,    \* learning_plans with their learning_plan_blocks
    open,    \* the open session, if any
    prefs,   \* parent_preferences, rev counting their changes
    call,    \* planner calls in flight
    promise, \* history: what the latest answer of each kind told the parent
    used     \* calls made and sessions started

vars == <<now, queue, miscon, plan, open, prefs, call, promise, used>>

-----------------------------------------------------------------------------
(* Types.                                                                  *)

\* day: midnight to midnight in Asia/Shanghai.
Day(t) == t \div TicksPerDay
Days == 0 .. Day(MaxTime) + 1
Tomorrow(t) == t + TicksPerDay

\* The sources that the code inserts, with their priorities.
Sources == {"MISCONCEPTION", "PARENT_PRIORITY"}
Priority(s) == IF s = "MISCONCEPTION" THEN 80 ELSE 70

\* review_queue: the latest item of a knowledge point and a source, which the unique
\* index on PENDING items makes the only one that can be pending.  gen tells an item
\* from its predecessors; last is history, the time of the evidence that closed the
\* predecessor.
Item == [gen : Nat, pending : BOOLEAN, due : Nat, last : Nat \cup {Null}]
Absent == [gen |-> 0, pending |-> FALSE, due |-> 0, last |-> Null]

\* review_queue_id of a block or a session
Ref == [source : Sources, gen : Nat]

Modes == {"CURRENT_GRADE", "REMEDIATION", "MICRO_BACKTRACK", "REVIEW"}
Block == [mode : Modes, status : {"AVAILABLE", "ACTIVE", "COMPLETED"},
          item : Ref \cup {Null}, home : Kps \cup {Null}]
ASSUME BlockNullAssumption == Null \notin Ref \cup Block

\* The plan of a date: at most one is current (PROPOSED or ACTIVE).  started: one of
\* its blocks has had a session.  rev: the preferences it was built from.
Plan == [gen : Nat, current : BOOLEAN, started : BOOLEAN, rev : Nat,
         blocks : [Kps -> Block \cup {Null}]]
NoPlan(gen) == [gen |-> gen, current |-> FALSE, started |-> FALSE, rev |-> 0,
                blocks |-> [k \in Kps |-> Null]]

\* learning_sessions: the plan block it came from, active_task_id, original_task_id,
\* whether evidence_form is REVIEW, and review_attempt_failed_at.
Session == [day : Days, gen : Nat, block : Kps, task : Kps, home : Kps \cup {Null},
            review : BOOLEAN, item : Ref \cup {Null}, failedAt : Nat \cup {Null}]

Call == [kind : {"TODAY", "TOMORROW", "REPLAN"}, asOf : Nat]

\* The answers to ParentPreferences that name a date, applies_from, for the preferences
\* it has saved: with the plans replaced, and with no content for the subjects enabled.
Answers == {"200", "422"}
Promise == [from : Days, rev : 0 .. MaxChanges]

Init ==
    /\ now = 0
    /\ miscon = {}
    /\ queue = [k \in Kps |-> [s \in Sources |->
                  IF k \in DueAtFirst /\ s = "MISCONCEPTION"
                  THEN [gen |-> 1, pending |-> TRUE, due |-> 0, last |-> Null] ELSE Absent]]
    /\ plan = [d \in Days |-> NoPlan(0)]
    /\ open = Null
    /\ prefs = [reviewOnly |-> FALSE, enabled |-> {}, rev |-> 0]
    /\ call = [c \in Calls |-> Null]
    /\ promise = [answer \in Answers |-> [from |-> 0, rev |-> 0]]
    /\ used = [calls |-> 0, sessions |-> 0]

-----------------------------------------------------------------------------
(* The review queue.                                                       *)

\* The item that a block or a session is bound to is still PENDING.
StillPending(k, ref) == queue[k][ref.source].gen = ref.gen /\ queue[k][ref.source].pending

NewItem(old, due) == [gen |-> old.gen + 1, pending |-> TRUE, due |-> due, last |-> old.last]

\* Faulty variant: the later date wins.
UpsertedLate(old, due) == IF old.pending THEN [old EXCEPT !.due = due] ELSE NewItem(old, due)

\* INSERT ... ON CONFLICT DO UPDATE SET due_at = LEAST(...)
Upserted(old, due) ==
    IF old.pending THEN [old EXCEPT !.due = IF due < @ THEN due ELSE @] ELSE NewItem(old, due)

\* Faulty variant: a next_review_at that the engine did not set is stored.
RescheduledUnset(old, evidence, due) ==
    [gen |-> old.gen + 1, pending |-> TRUE, due |-> Null, last |-> evidence]

\* Faulty variant: the review comes back as soon as it is closed.
RescheduledAtOnce(old, evidence, due) ==
    [gen |-> old.gen + 1, pending |-> TRUE, due |-> evidence, last |-> evidence]

\* The item is closed by evidence taken at a time, and its successor of the same source
\* scheduled, in one transaction.
Rescheduled(old, evidence, due) ==
    [gen |-> old.gen + 1, pending |-> TRUE, due |-> due, last |-> evidence]

\* The pending items of k that are due, and the one a plan takes first.
DueSources(k, asOf) == {s \in Sources : queue[k][s].pending /\ queue[k][s].due <= asOf}
Before(k, s, t) ==
    \/ queue[k][s].due < queue[k][t].due
    \/ queue[k][s].due = queue[k][t].due /\ Priority(s) >= Priority(t)
FirstDue(k, asOf) ==
    CHOOSE s \in DueSources(k, asOf) : \A t \in DueSources(k, asOf) : Before(k, s, t)

-----------------------------------------------------------------------------
(* Building a plan: candidates, Engine.Build and the rows it inserts.      *)

IsReview(k, asOf) == k \in miscon \/ DueSources(k, asOf) # {}

\* The knowledge points of the subjects that the parent has enabled.
Enabled == {k \in Kps : prefs.enabled = {} \/ Subject[k] \in prefs.enabled}

\* With review_only on, only reviews, unless there are none.
Eligible(asOf) ==
    IF prefs.reviewOnly /\ \E k \in Enabled : IsReview(k, asOf)
    THEN {k \in Enabled : IsReview(k, asOf)} ELSE Enabled

\* classify; home is the original task of a cross-subject gap.
Classify(k, home, asOf) ==
    IF home # Null THEN "MICRO_BACKTRACK"
    ELSE IF k \in miscon THEN "REMEDIATION"
    ELSE IF DueSources(k, asOf) # {} THEN "REVIEW" ELSE "CURRENT_GRADE"

\* candidateMode: what is taken with review_only on without being a review becomes one.
ModeOf(k, home, asOf) ==
    IF prefs.reviewOnly /\ ~IsReview(k, asOf) THEN "REVIEW" ELSE Classify(k, home, asOf)

\* A review that nothing is due for gets a PARENT_PRIORITY item of its own.
AsksForItem(k, home, asOf) == ModeOf(k, home, asOf) = "REVIEW" /\ DueSources(k, asOf) = {}
ItemAsked(k, asOf) == Upserted(queue[k]["PARENT_PRIORITY"], asOf)

BlockFor(k, home, asOf) ==
    [mode |-> ModeOf(k, home, asOf), status |-> "AVAILABLE", home |-> home,
     item |-> IF ModeOf(k, home, asOf) # "REVIEW" THEN Null
              ELSE IF AsksForItem(k, home, asOf)
              THEN [source |-> "PARENT_PRIORITY", gen |-> ItemAsked(k, asOf).gen]
              ELSE LET s == FirstDue(k, asOf) IN [source |-> s, gen |-> queue[k][s].gen]]

\* The prerequisites whose cross-subject gap may be open, with the task each blocks.
Gaps == {gap \in [Kps -> Kps \cup {Null}] :
            \A k \in Kps : gap[k] # Null => <<gap[k], k>> \in Dependencies}

\* gradeBandAllowsMode: nothing new is taken from a lower grade band.
Allowed(k, home, asOf) == ModeOf(k, home, asOf) # "CURRENT_GRADE" \/ k \in InGrade

\* What a plan can be built from.
Candidates(gap, asOf) == {k \in Eligible(asOf) : Allowed(k, gap[k], asOf)}

\* diversify: one candidate of each subject that has any.
Selections(candidates) ==
    {chosen \in SUBSET candidates :
        \A k \in candidates : \E one \in chosen :
            Subject[one] = Subject[k] /\ \A l \in chosen : Subject[l] = Subject[k] => l = one}

\* A plan of a date is built, base being the plans as they are without it.
Build(base, date, asOf) ==
    \E gap \in Gaps :
      \E chosen \in Selections(Candidates(gap, asOf)) :
        /\ chosen # {}
        /\ plan' = [base EXCEPT ![date] =
             [gen |-> base[date].gen + 1, current |-> TRUE, started |-> FALSE, rev |-> prefs.rev,
              blocks |-> [k \in Kps |->
                            IF k \in chosen THEN BlockFor(k, gap[k], asOf) ELSE Null]]]
        /\ queue' = [k \in Kps |->
             IF k \in chosen /\ AsksForItem(k, gap[k], asOf)
             THEN [queue[k] EXCEPT !["PARENT_PRIORITY"] = ItemAsked(k, asOf)] ELSE queue[k]]

-----------------------------------------------------------------------------
(* Planner calls.                                                          *)

\* Today: the handler takes the time, then the planner's transaction runs.
AskToday(c) ==
    /\ call[c] = Null /\ used.calls < MaxCalls
    /\ call' = [call EXCEPT ![c] = [kind |-> "TODAY", asOf |-> now]]
    /\ used' = [used EXCEPT !.calls = @ + 1]
    /\ UNCHANGED <<now, queue, miscon, plan, open, prefs, promise>>

\* EnsureWithStatus: a plan that is there is left as it is.
Ensure(c) ==
    LET asOf == call[c].asOf IN
    /\ call[c] # Null /\ call[c].kind \in {"TODAY", "TOMORROW"}
    /\ IF plan[Day(asOf)].current
       THEN UNCHANGED <<plan, queue>>
       ELSE Build(plan, Day(asOf), asOf)
    /\ call' = [call EXCEPT ![c] = Null]
    /\ UNCHANGED <<now, miscon, open, prefs, promise, used>>

\* A planner transaction fails and is rolled back: nothing can be planned, the database
\* or the client is gone.  Preferences that were saved before stay saved; the answer to a
\* replan is then 500 and names no date (ReplanUnavailable is the one that does).
FailCall(c) ==
    /\ call[c] # Null
    /\ call' = [call EXCEPT ![c] = Null]
    /\ UNCHANGED <<now, queue, miscon, plan, open, prefs, promise, used>>

\* ParentPreferences saves, in a transaction of its own, and then replans; it takes the
\* time as soon as the first transaction is through.
SavePreferences(c) ==
    /\ call[c] = Null /\ used.calls < MaxCalls
    /\ prefs.rev < MaxChanges
    /\ \E reviewOnly \in BOOLEAN, enabled \in Choices :
         prefs' = [reviewOnly |-> reviewOnly, enabled |-> enabled, rev |-> prefs.rev + 1]
    /\ call' = [call EXCEPT ![c] = [kind |-> "REPLAN", asOf |-> now]]
    /\ used' = [used EXCEPT !.calls = @ + 1]
    /\ UNCHANGED <<now, queue, miscon, plan, open, promise>>

\* ParentIntervention REVIEW_ONLY, REDUCE_INTENSITY or STATE_NOT_GOOD changes the
\* preferences and does not replan.
Intervene ==
    /\ prefs.rev < MaxChanges
    /\ \E only \in BOOLEAN :
         prefs' = [reviewOnly |-> prefs.reviewOnly \/ only, enabled |-> prefs.enabled,
                   rev |-> prefs.rev + 1]
    /\ UNCHANGED <<now, queue, miscon, plan, open, call, promise, used>>

\* Faulty variant: what was started and left does not count.
PreservedByOpen(date) == open # Null /\ open.day = date

\* shouldPreserveToday: an open session of a plan of that date, or a block of the
\* current one that has been started.
Preserved(date) ==
    \/ open # Null /\ open.day = date
    \/ plan[date].current /\ plan[date].started

\* Faulty variant: only the plan of the date itself is replaced.
WithdrawnOn(date) == [plan EXCEPT ![date] = NoPlan(@.gen)]

\* The current plans of that date and of all later ones are REPLACED.
Withdrawn(date) == [d \in Days |-> IF d >= date THEN NoPlan(plan[d].gen) ELSE plan[d]]

\* The day from which a replan replaces plans, and the time it plans for.
AppliesFrom(c) ==
    LET date == Day(call[c].asOf) IN IF Preserved(date) THEN date + 1 ELSE date
ReplanAsOf(c) ==
    IF Preserved(Day(call[c].asOf)) THEN Tomorrow(call[c].asOf) ELSE call[c].asOf

\* The parent is told that the preferences are saved and from which day they apply.
Answered(c, answer) ==
    /\ promise' = [promise EXCEPT ![answer] = [from |-> AppliesFrom(c), rev |-> prefs.rev]]
    /\ call' = [call EXCEPT ![c] = Null]
    /\ UNCHANGED <<now, miscon, open, prefs, used>>

\* ReplaceToday.  With today preserved and nothing to replace it only tries whether a plan
\* for tomorrow could be built.
Replan(c) ==
    /\ call[c] # Null /\ call[c].kind = "REPLAN"
    /\ IF Preserved(Day(call[c].asOf)) /\ \A d \in Days : d >= AppliesFrom(c) => ~plan[d].current
       THEN /\ \E gap \in Gaps : Candidates(gap, ReplanAsOf(c)) # {}
            /\ UNCHANGED <<plan, queue>>
       ELSE Build(Withdrawn(AppliesFrom(c)), AppliesFrom(c), ReplanAsOf(c))
    /\ Answered(c, "200")

\* ReplaceToday finds no content of the subjects enabled: the transaction is rolled back
\* with its REPLACED plans, and the answer is 422, saved, with applies_from all the same.
ReplanUnavailable(c) ==
    /\ call[c] # Null /\ call[c].kind = "REPLAN"
    /\ prefs.enabled # {}
    /\ \E gap \in Gaps : Candidates(gap, ReplanAsOf(c)) = {}
    /\ UNCHANGED <<plan, queue>>
    /\ Answered(c, "422")

-----------------------------------------------------------------------------
(* The student's session.                                                  *)

\* Faulty variant: only that the block is bound to an item is checked.
StartableBound(k, block) == block.mode = "REVIEW" => block.item # Null

\* A review block needs its item, pending and due.
Startable(k, block) ==
    block.mode = "REVIEW" =>
        StillPending(k, block.item) /\ queue[k][block.item.source].due <= now

\* StartSession on a block of today's current plan.
Start(k) ==
    LET today == plan[Day(now)]
        block == today.blocks[k]
    IN
    /\ open = Null /\ used.sessions < MaxSessions
    /\ today.current /\ block # Null
    /\ block.status = "AVAILABLE"
    /\ Startable(k, block)
    /\ open' = [day |-> Day(now), gen |-> today.gen, block |-> k, task |-> k,
                home |-> block.home, review |-> block.mode = "REVIEW", item |-> block.item,
                failedAt |-> Null]
    /\ plan' = [plan EXCEPT ![Day(now)].started = TRUE,
                            ![Day(now)].blocks[k].status = "ACTIVE"]
    /\ used' = [used EXCEPT !.sessions = @ + 1]
    /\ UNCHANGED <<now, queue, miscon, prefs, call, promise>>

\* The plan block of the open session gets a status; its plan may have been replaced.
Settled(status) ==
    IF plan[open.day].current /\ plan[open.day].gen = open.gen
    THEN [plan EXCEPT ![open.day].blocks[open.block].status = status] ELSE plan

\* A wrong answer: the misconceptions found, the first failure of a review attempt, and
\* perhaps a step back to a prerequisite, in one transaction.
WrongAnswer ==
    /\ open # Null
    /\ \E found \in BOOLEAN :
         /\ miscon' = IF found THEN miscon \cup {open.task} ELSE miscon
         /\ queue' = IF found
                     THEN [queue EXCEPT ![open.task]["MISCONCEPTION"] = Upserted(@, Tomorrow(now))]
                     ELSE queue
    /\ LET failed == [open EXCEPT !.failedAt = IF open.review /\ @ = Null THEN now ELSE @]
       IN \/ open' = failed
          \/ \E k \in Kps :
               /\ <<open.task, k>> \in Dependencies
               /\ open' = [failed EXCEPT !.task = k, !.review = FALSE,
                                         !.home = IF @ = Null THEN open.task ELSE @]
    /\ UNCHANGED <<now, plan, prefs, call, promise, used>>

\* resolveSuccessfulReview: in review form the bound item, which must be pending, is
\* closed, and the next review scheduled.
Closed(interval) ==
    IF open.review
    THEN [queue EXCEPT ![open.task][open.item.source] =
            Rescheduled(@, now, now + interval * TicksPerDay)]
    ELSE queue

\* A right answer on a prerequisite: the original task is restored, in variant form.
AnswerReturns ==
    /\ open # Null /\ open.home \notin {Null, open.task}
    /\ open.review => StillPending(open.task, open.item)
    /\ \E interval \in Intervals : queue' = Closed(interval)
    /\ miscon' = miscon \ {open.task}
    /\ open' = [open EXCEPT !.task = open.home, !.review = FALSE]
    /\ UNCHANGED <<now, plan, prefs, call, promise, used>>

\* A right answer on the original task ends the session; the plan of the next day is
\* ensured by a call of its own.
AnswerCompletes(c) ==
    /\ open # Null /\ open.home \in {Null, open.task}
    /\ open.review => StillPending(open.task, open.item)
    /\ call[c] = Null /\ used.calls < MaxCalls
    /\ \E interval \in Intervals : queue' = Closed(interval)
    /\ miscon' = miscon \ {open.task}
    /\ plan' = Settled("COMPLETED")
    /\ open' = Null
    /\ call' = [call EXCEPT ![c] = [kind |-> "TOMORROW", asOf |-> Tomorrow(now)]]
    /\ used' = [used EXCEPT !.calls = @ + 1]
    /\ UNCHANGED <<now, prefs, promise>>

\* resolveFailedReviewOnAbandon settles a failed attempt if its item is still pending.
SettlesReview ==
    /\ open.item # Null /\ open.failedAt # Null
    /\ StillPending(open.block, open.item)

\* The session is given up, by the student or by recovery.
Abandon ==
    /\ open # Null
    /\ plan' = Settled(IF SettlesReview THEN "COMPLETED" ELSE "AVAILABLE")
    /\ queue' = IF SettlesReview
                THEN [queue EXCEPT ![open.block][open.item.source] =
                        Rescheduled(@, open.failedAt, Tomorrow(open.failedAt))]
                ELSE queue
    /\ open' = Null
    /\ UNCHANGED <<now, miscon, prefs, call, promise, used>>

Tick ==
    /\ now < MaxTime
    /\ now' = now + 1
    /\ UNCHANGED <<queue, miscon, plan, open, prefs, call, promise, used>>

-----------------------------------------------------------------------------
Next ==
    \/ \E c \in Calls :
         AskToday(c) \/ Ensure(c) \/ FailCall(c) \/ SavePreferences(c) \/ Replan(c)
         \/ ReplanUnavailable(c) \/ AnswerCompletes(c)
    \/ \E k \in Kps : Start(k)
    \/ Intervene
    \/ WrongAnswer \/ AnswerReturns \/ Abandon
    \/ Tick

Spec == Init /\ [][Next]_vars

-----------------------------------------------------------------------------
(* Properties.                                                             *)

\* Every variable keeps its type, and the clock and the revisions their bounds.
TypeOK ==
    /\ now \in 0 .. MaxTime
    /\ queue \in [Kps -> [Sources -> Item]]
    /\ miscon \subseteq Kps
    /\ plan \in [Days -> Plan]
    /\ open \in Session \cup {Null}
    /\ prefs \in [reviewOnly : BOOLEAN, enabled : Choices, rev : 0 .. MaxChanges]
    /\ call \in [Calls -> Call \cup {Null}]
    /\ promise \in [Answers -> Promise]
    /\ used \in [calls : 0 .. MaxCalls, sessions : 0 .. MaxSessions]

\* A review session that is open can be finished: the item it is bound to is pending,
\* though blocks of two days may be bound to one item.
OpenReviewCanFinish ==
    open # Null /\ open.review => open.item # Null /\ StillPending(open.task, open.item)

\* A review block whose item is still pending can be started on the day of its plan:
\* nothing pushes the item's due date past that day (scheduleReview overwrites due_at, the
\* other writers take the earlier one).
DueByPlanDay ==
    \A d \in Days, k \in Kps :
        plan[d].current /\ plan[d].blocks[k] # Null /\ plan[d].blocks[k].mode = "REVIEW"
            => LET ref == plan[d].blocks[k].item IN
               ref # Null /\ (StillPending(k, ref) => Day(queue[k][ref.source].due) <= d)

\* A misconception is reviewed again only a day or more after the answer that settled its
\* last review, whatever upserts touch the item in between (REQ-MASTERY-03: review
\* across time).  A parent's review-only wish may pull PARENT_PRIORITY items forward.
SpacedReviews ==
    open # Null /\ open.review /\ open.item.source = "MISCONCEPTION"
        => LET last == queue[open.task]["MISCONCEPTION"].last IN
           last # Null => now >= Tomorrow(last)

\* From the day that an answer named as applies_from no plan of older preferences is
\* current, plans made ahead included.
Applied(answer) ==
    \A d \in Days :
        d >= promise[answer].from /\ plan[d].current => plan[d].rev >= promise[answer].rev

\* A replan that succeeds keeps what it tells the parent, through later plans, replans
\* that are rolled back and other changes (the comment in ReplaceToday: "replace future
\* proposals too so a new preference is not silently ignored").
PreferencesTakeEffect == Applied("200")

\* A plan that has been started is not replaced any more, unless midnight has passed
\* since the replan took its time (ReplaceToday: "today's history remains stable").
HistoryStable ==
    [][\A d \in Days :
         plan[d].current /\ plan[d].started /\ ~(plan'[d].current /\ plan'[d].gen = plan[d].gen)
            => \E c \in Calls : call[c] # Null /\ call'[c] = Null /\ Day(call[c].asOf) < Day(now)]_vars

\* docs/api/http.md:21: a block of today's current plan that is AVAILABLE can be started
\* today.
ReviewBlocksStart ==
    \A k \in Kps :
        LET today == plan[Day(now)] IN
        today.current /\ today.blocks[k] # Null /\ today.blocks[k].status = "AVAILABLE"
            /\ today.blocks[k].mode = "REVIEW" => StillPending(k, today.blocks[k].item)

\* docs/api/http.md:78: the preferences that an answer says are saved apply from the date
\* it names, the answer 422 too.
AppliesFromKept == Applied("422")
=============================================================================
