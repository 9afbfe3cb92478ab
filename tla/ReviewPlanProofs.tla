-------------------------- MODULE ReviewPlanProofs --------------------------
(***************************************************************************)
(* Plans and reviews for any knowledge points, dependencies, intervals and *)
(* length of a day: types, and the five properties of ReviewPlan, by one   *)
(* invariant about calls, plans, items and the open session.               *)
(***************************************************************************)
EXTENDS ReviewPlan, TLAPS

\* A call carries a time that has come, or the same hour of the next day.
CallsTimely ==
    \A c \in Calls : call[c] # Null =>
        call[c].asOf <= (IF call[c].kind = "TOMORROW" THEN Tomorrow(now) ELSE now)

\* The plan of the open session is the one it was started on, or a later one.
OpenOnPlan ==
    open # Null =>
        /\ open.gen <= plan[open.day].gen
        /\ plan[open.day].current /\ plan[open.day].gen = open.gen
             => plan[open.day].blocks[open.block] # Null

TypeInv == TypeOK /\ CallsTimely /\ OpenOnPlan

\* A plan is started on its day.
StartedByNow == \A d \in Days : plan[d].current /\ plan[d].started => d <= Day(now)

\* A review block names an item that exists, due on the day of the plan.
Bound(k, ref, items, d) ==
    /\ ref \in Ref
    /\ ref.gen <= items[k][ref.source].gen
    /\ items[k][ref.source].gen = ref.gen /\ items[k][ref.source].pending
         => Day(items[k][ref.source].due) <= d
BlocksBound ==
    \A d \in Days, k \in Kps :
        plan[d].blocks[k] # Null /\ plan[d].blocks[k].mode = "REVIEW"
            => Bound(k, plan[d].blocks[k].item, queue, d)

\* A misconception's next review is a day after the last one.
SpacedItem(item, t) ==
    item.last # Null => item.last <= t /\ (item.pending => Tomorrow(item.last) <= item.due)
ItemsSpaced == \A k \in Kps : SpacedItem(queue[k]["MISCONCEPTION"], now)

\* The open session: its failure is past, and its review can be closed, now or later.
Reviewing(ses, items, t) ==
    /\ ses.failedAt # Null => ses.failedAt <= t
    /\ ses.review =>
         /\ ses.item # Null
         /\ items[ses.task][ses.item.source].gen = ses.item.gen
         /\ items[ses.task][ses.item.source].pending
         /\ ses.item.source = "MISCONCEPTION" =>
              LET last == items[ses.task]["MISCONCEPTION"].last IN
              last # Null => Tomorrow(last) <= t
OpenSound == open # Null => Reviewing(open, queue, now)

Promised == promise["200"].rev <= prefs.rev /\ PreferencesTakeEffect

ReviewInv == StartedByNow /\ BlocksBound /\ ItemsSpaced /\ OpenSound /\ Promised

-----------------------------------------------------------------------------
(* Time and items.                                                         *)

\* Days are numbered in the order of time.
LEMMA DayFacts ==
    /\ \A t \in Nat : Day(t) \in Nat /\ Tomorrow(t) \in Nat /\ t < Tomorrow(t)
    /\ \A t, u \in Nat : t <= u => Day(t) <= Day(u)
    /\ \A t \in Nat : Day(Tomorrow(t)) = Day(t) + 1
<1>1. \A t \in Nat : Day(t) \in Nat /\ Tomorrow(t) \in Nat /\ t < Tomorrow(t)
  BY DayAssumption DEF Day, Tomorrow
<1>2. \A t, u \in Nat : t <= u => Day(t) <= Day(u)
  BY DayAssumption, SMTT(30) DEF Day
<1>3. \A t \in Nat : Day(Tomorrow(t)) = Day(t) + 1
  BY DayAssumption, SMTT(30) DEF Day, Tomorrow
<1> QED
  BY <1>1, <1>2, <1>3

\* What is due on the last day or before has a day of its own, and so has the next day.
LEMMA DaysReached ==
    ASSUME NEW t \in 0 .. MaxTime
    PROVE  Day(t) \in Days /\ Day(t) + 1 \in Days /\ Day(Tomorrow(t)) \in Days
<1>1. MaxTime \in Nat /\ t \in Nat /\ t <= MaxTime
  BY HorizonAssumption
<1>2. Day(t) \in Nat /\ Day(MaxTime) \in Nat /\ Day(t) <= Day(MaxTime)
  BY <1>1, DayFacts
<1> QED
  BY <1>1, <1>2, DayFacts DEF Days

\* The next review after a success is a day away at least.
LEMMA IntervalFacts ==
    ASSUME NEW t \in Nat, NEW interval \in Intervals
    PROVE  t + interval * TicksPerDay \in Nat /\ Tomorrow(t) <= t + interval * TicksPerDay
<1>1. interval \in Nat \ {0} /\ TicksPerDay \in Nat \ {0}
  BY DayAssumption
<1>2. interval * TicksPerDay \in Nat /\ TicksPerDay <= interval * TicksPerDay
  BY <1>1, SMTT(30)
<1> QED
  BY <1>1, <1>2 DEF Tomorrow

\* What an upsert makes of an item.
LEMMA UpsertedFacts ==
    ASSUME NEW old \in Item, NEW due \in Nat
    PROVE  /\ Upserted(old, due) \in Item
           /\ Upserted(old, due).pending
           /\ Upserted(old, due).last = old.last
           /\ Upserted(old, due).due <= due
           /\ old.pending => /\ Upserted(old, due).gen = old.gen
                             /\ Upserted(old, due).due <= old.due
                             /\ Upserted(old, due).due \in {old.due, due}
           /\ ~old.pending => /\ Upserted(old, due).gen = old.gen + 1
                              /\ Upserted(old, due).due = due
<1>1. CASE old.pending
  <2>1. Upserted(old, due) = [old EXCEPT !.due = IF due < old.due THEN due ELSE old.due]
    BY <1>1 DEF Upserted
  <2> QED
    BY <1>1, <2>1 DEF Item
<1>2. CASE ~old.pending
  BY <1>2 DEF Upserted, NewItem, Item
<1> QED
  BY <1>1, <1>2

\* A due item that a plan takes is a due item.
LEMMA FirstDueFacts ==
    ASSUME TypeOK, NEW k \in Kps, NEW asOf \in Nat, DueSources(k, asOf) # {}
    PROVE  FirstDue(k, asOf) \in DueSources(k, asOf)
<1>1. \A s \in Sources : queue[k][s] \in Item /\ queue[k][s].due \in Nat /\ Priority(s) \in Nat
  BY DEF TypeOK, Item, Priority
<1>2. \A s, t \in Sources : Before(k, s, t) \/ Before(k, t, s)
  BY <1>1 DEF Before
<1>3. DueSources(k, asOf) \subseteq Sources
  BY DEF DueSources
<1>4. \E s \in DueSources(k, asOf) : \A t \in DueSources(k, asOf) : Before(k, s, t)
  BY <1>2, <1>3 DEF Sources
<1> QED
  BY <1>4 DEF FirstDue

-----------------------------------------------------------------------------
(* Building a plan.                                                        *)

\* The items of a knowledge point after a plan has taken it.
ItemsAfter(k, home, asOf) ==
    IF AsksForItem(k, home, asOf)
    THEN [queue[k] EXCEPT !["PARENT_PRIORITY"] = ItemAsked(k, asOf)] ELSE queue[k]

\* A block of a new plan, and the pending and due item of a review block.
LEMMA BlockForFacts ==
    ASSUME TypeOK, NEW k \in Kps, NEW home \in Kps \cup {Null}, NEW asOf \in Nat
    PROVE  LET block == BlockFor(k, home, asOf)
               items == ItemsAfter(k, home, asOf)
           IN  /\ block \in Block
               /\ items \in [Sources -> Item]
               /\ \A s \in Sources :
                    items[s] = queue[k][s]
                    \/ (s = "PARENT_PRIORITY" /\ items[s] = Upserted(queue[k][s], asOf))
               /\ block.mode = "REVIEW" =>
                    /\ block.item \in Ref
                    /\ items[block.item.source].gen = block.item.gen
                    /\ items[block.item.source].pending
                    /\ items[block.item.source].due <= asOf
<1> DEFINE block == BlockFor(k, home, asOf)
           items == ItemsAfter(k, home, asOf)
           mode == ModeOf(k, home, asOf)
<1>1. queue[k] \in [Sources -> Item] /\ "PARENT_PRIORITY" \in Sources
  BY DEF TypeOK, Sources
<1>2. /\ ItemAsked(k, asOf) \in Item
      /\ ItemAsked(k, asOf) = Upserted(queue[k]["PARENT_PRIORITY"], asOf)
      /\ ItemAsked(k, asOf).pending /\ ItemAsked(k, asOf).due <= asOf
      /\ ItemAsked(k, asOf).gen \in Nat
  BY <1>1, UpsertedFacts DEF ItemAsked, Item
<1>3. items \in [Sources -> Item]
      /\ \A s \in Sources : items[s] = queue[k][s]
                            \/ (s = "PARENT_PRIORITY" /\ items[s] = Upserted(queue[k][s], asOf))
  BY <1>1, <1>2 DEF ItemsAfter
<1>4. mode \in Modes
  BY DEF ModeOf, Classify, Modes
<1>5. block.mode = mode /\ block.status = "AVAILABLE" /\ block.home = home
  BY DEF BlockFor
<1>6. CASE mode # "REVIEW"
  <2>1. block = [mode |-> mode, status |-> "AVAILABLE", home |-> home, item |-> Null]
    BY <1>6 DEF BlockFor
  <2> QED
    BY <1>3, <1>4, <1>6, <2>1 DEF Block
<1>7. CASE mode = "REVIEW" /\ AsksForItem(k, home, asOf)
  <2> DEFINE ref == [source |-> "PARENT_PRIORITY", gen |-> ItemAsked(k, asOf).gen]
  <2>1. block = [mode |-> mode, status |-> "AVAILABLE", home |-> home, item |-> ref]
    BY <1>7 DEF BlockFor
  <2>2. ref \in Ref
    BY <1>1, <1>2 DEF Ref
  <2>3. items["PARENT_PRIORITY"] = ItemAsked(k, asOf)
    BY <1>1, <1>7 DEF ItemsAfter
  <2> QED
    BY <1>2, <1>3, <1>4, <2>1, <2>2, <2>3 DEF Block
<1>8. CASE mode = "REVIEW" /\ ~AsksForItem(k, home, asOf)
  <2> DEFINE s == FirstDue(k, asOf)
             ref == [source |-> s, gen |-> queue[k][s].gen]
  <2>1. block = [mode |-> mode, status |-> "AVAILABLE", home |-> home, item |-> ref]
    BY <1>8 DEF BlockFor
  <2>2. DueSources(k, asOf) # {}
    BY <1>8 DEF AsksForItem
  <2>3. s \in Sources /\ queue[k][s].pending /\ queue[k][s].due <= asOf
    BY <2>2, FirstDueFacts DEF DueSources
  <2>4. ref \in Ref
    BY <1>1, <2>3 DEF Ref, Item
  <2>5. items[s] = queue[k][s]
    BY <1>8 DEF ItemsAfter
  <2> QED
    BY <1>3, <1>4, <2>1, <2>3, <2>4, <2>5 DEF Block
<1> QED
  BY <1>6, <1>7, <1>8

\* A plan built on others: it is current and not started, its review blocks are bound to
\* pending items, and items only come into being or come due earlier.
LEMMA BuildFacts ==
    ASSUME TypeOK, NEW base \in [Days -> Plan], NEW date \in Days, NEW asOf \in Nat,
           Build(base, date, asOf)
    PROVE  /\ plan' \in [Days -> Plan]
           /\ queue' \in [Kps -> [Sources -> Item]]
           /\ \A d \in Days : d # date => plan'[d] = base[d]
           /\ plan'[date].gen = base[date].gen + 1
           /\ plan'[date].current /\ ~plan'[date].started /\ plan'[date].rev = prefs.rev
           /\ \A k \in Kps, s \in Sources :
                queue'[k][s] = queue[k][s]
                \/ (s = "PARENT_PRIORITY" /\ queue'[k][s] = Upserted(queue[k][s], asOf))
           /\ \A k \in Kps :
                LET block == plan'[date].blocks[k] IN
                block # Null /\ block.mode = "REVIEW" =>
                    /\ block.item \in Ref
                    /\ queue'[k][block.item.source].gen = block.item.gen
                    /\ queue'[k][block.item.source].pending
                    /\ queue'[k][block.item.source].due <= asOf
<1>1. PICK gap \in Gaps :
        \E chosen \in Selections(Candidates(gap, asOf)) :
          /\ plan' = [base EXCEPT ![date] =
               [gen |-> base[date].gen + 1, current |-> TRUE, started |-> FALSE, rev |-> prefs.rev,
                blocks |-> [k \in Kps |->
                              IF k \in chosen THEN BlockFor(k, gap[k], asOf) ELSE Null]]]
          /\ queue' = [k \in Kps |->
               IF k \in chosen /\ AsksForItem(k, gap[k], asOf)
               THEN [queue[k] EXCEPT !["PARENT_PRIORITY"] = ItemAsked(k, asOf)] ELSE queue[k]]
  BY DEF Build
<1>2. PICK chosen \in Selections(Candidates(gap, asOf)) :
          /\ plan' = [base EXCEPT ![date] =
               [gen |-> base[date].gen + 1, current |-> TRUE, started |-> FALSE, rev |-> prefs.rev,
                blocks |-> [k \in Kps |->
                              IF k \in chosen THEN BlockFor(k, gap[k], asOf) ELSE Null]]]
          /\ queue' = [k \in Kps |->
               IF k \in chosen /\ AsksForItem(k, gap[k], asOf)
               THEN [queue[k] EXCEPT !["PARENT_PRIORITY"] = ItemAsked(k, asOf)] ELSE queue[k]]
  BY <1>1
<1> DEFINE new == [gen |-> base[date].gen + 1, current |-> TRUE, started |-> FALSE,
                   rev |-> prefs.rev,
                   blocks |-> [k \in Kps |->
                                 IF k \in chosen THEN BlockFor(k, gap[k], asOf) ELSE Null]]
<1>3. \A k \in Kps : gap[k] \in Kps \cup {Null}
  BY DEF Gaps
<1>4. \A k \in Kps : queue'[k] = IF k \in chosen THEN ItemsAfter(k, gap[k], asOf) ELSE queue[k]
  BY <1>2 DEF ItemsAfter
<1>5. queue \in [Kps -> [Sources -> Item]] /\ prefs.rev \in Nat /\ base[date].gen + 1 \in Nat
  BY HorizonAssumption DEF TypeOK, Plan
<1>6. ASSUME NEW k \in Kps
      PROVE  /\ queue'[k] \in [Sources -> Item]
             /\ \A s \in Sources :
                  queue'[k][s] = queue[k][s]
                  \/ (s = "PARENT_PRIORITY" /\ queue'[k][s] = Upserted(queue[k][s], asOf))
  <2>1. PICK home \in Kps \cup {Null} : home = gap[k]
    BY <1>3
  <2>2. /\ ItemsAfter(k, home, asOf) \in [Sources -> Item]
        /\ \A s \in Sources :
             ItemsAfter(k, home, asOf)[s] = queue[k][s]
             \/ (s = "PARENT_PRIORITY"
                   /\ ItemsAfter(k, home, asOf)[s] = Upserted(queue[k][s], asOf))
    BY BlockForFacts
  <2>3. queue'[k] = IF k \in chosen THEN ItemsAfter(k, home, asOf) ELSE queue[k]
    BY <1>4, <2>1
  <2> QED
    BY <1>5, <2>2, <2>3
<1>7. new \in Plan
  <2>1. new.blocks \in [Kps -> Block \cup {Null}]
    BY <1>3, BlockForFacts
  <2> QED
    BY <1>5, <2>1 DEF Plan
<1>8. plan' = [base EXCEPT ![date] = new]
  BY <1>2
<1>9. /\ plan' \in [Days -> Plan] /\ plan'[date] = new
      /\ \A d \in Days : d # date => plan'[d] = base[d]
  BY <1>7, <1>8
<1>10. queue' \in [Kps -> [Sources -> Item]]
  BY <1>2, <1>6
<1>11. \A k \in Kps, s \in Sources :
         queue'[k][s] = queue[k][s]
         \/ (s = "PARENT_PRIORITY" /\ queue'[k][s] = Upserted(queue[k][s], asOf))
  BY <1>6
<1>12. ASSUME NEW k \in Kps, new.blocks[k] # Null, new.blocks[k].mode = "REVIEW"
       PROVE  /\ new.blocks[k].item \in Ref
              /\ queue'[k][new.blocks[k].item.source].gen = new.blocks[k].item.gen
              /\ queue'[k][new.blocks[k].item.source].pending
              /\ queue'[k][new.blocks[k].item.source].due <= asOf
  <2>1. k \in chosen /\ new.blocks[k] = BlockFor(k, gap[k], asOf)
    BY <1>12
  <2>2. PICK home \in Kps \cup {Null}, block \in {new.blocks[k]} :
          home = gap[k] /\ block = BlockFor(k, home, asOf)
    BY <1>3, <2>1
  <2>3. queue'[k] = ItemsAfter(k, home, asOf) /\ block.mode = "REVIEW"
    BY <1>4, <1>12, <2>1, <2>2
  <2>4. LET taken == BlockFor(k, home, asOf)
            items == ItemsAfter(k, home, asOf)
        IN  taken.mode = "REVIEW" =>
              /\ taken.item \in Ref
              /\ items[taken.item.source].gen = taken.item.gen
              /\ items[taken.item.source].pending
              /\ items[taken.item.source].due <= asOf
    BY BlockForFacts
  <2>5. /\ block.item \in Ref
        /\ ItemsAfter(k, home, asOf)[block.item.source].gen = block.item.gen
        /\ ItemsAfter(k, home, asOf)[block.item.source].pending
        /\ ItemsAfter(k, home, asOf)[block.item.source].due <= asOf
    BY <2>2, <2>3, <2>4
  <2>6. block = new.blocks[k]
    OBVIOUS
  <2> HIDE DEF new
  <2> QED
    BY <2>3, <2>5, <2>6
<1> HIDE DEF new
<1>13. /\ plan'[date].gen = base[date].gen + 1
       /\ plan'[date].current /\ ~plan'[date].started /\ plan'[date].rev = prefs.rev
  BY <1>9 DEF new
<1> QED
  BY <1>9, <1>10, <1>11, <1>12, <1>13

-----------------------------------------------------------------------------
(* What the planner's transactions do to plans and items.                  *)

\* The plan of a day is new, or has been replaced.
NewPlan(d) ==
    /\ plan'[d].gen = plan[d].gen + 1
    /\ plan'[d].current /\ ~plan'[d].started /\ plan'[d].rev = prefs.rev
    /\ \A k \in Kps :
         plan'[d].blocks[k] # Null /\ plan'[d].blocks[k].mode = "REVIEW"
             => Bound(k, plan'[d].blocks[k].item, queue', d)
GonePlan(d) == plan'[d] = NoPlan(plan[d].gen)

\* Items are asked for, a misconception's for the next day.
Asked(s, old, new) ==
    \E due \in Nat :
        /\ s = "MISCONCEPTION" => due = Tomorrow(now)
        /\ new = Upserted(old, due)
ItemsAsked == \A k \in Kps, s \in Sources :
    queue'[k][s] = queue[k][s] \/ Asked(s, queue[k][s], queue'[k][s])

Planned ==
    /\ plan' \in [Days -> Plan]
    /\ queue' \in [Kps -> [Sources -> Item]]
    /\ \A d \in Days : plan'[d] = plan[d] \/ NewPlan(d) \/ GonePlan(d)
    /\ ItemsAsked

\* No plan is a plan.
LEMMA NoPlanType == ASSUME NEW gen \in Nat PROVE NoPlan(gen) \in Plan
  BY DEF NoPlan, Plan

\* The days that a call is about are days of the model.
LEMMA CallFacts ==
    ASSUME TypeInv, NEW c \in Calls, call[c] # Null
    PROVE  /\ call[c] \in Call /\ call[c].asOf \in Nat
           /\ Day(call[c].asOf) \in Days
           /\ call[c].kind = "REPLAN" =>
                /\ Day(call[c].asOf) <= Day(now)
                /\ Day(call[c].asOf) + 1 \in Days
<1>1. now \in 0 .. MaxTime /\ now \in Nat /\ MaxTime \in Nat
  BY HorizonAssumption DEF TypeInv, TypeOK
<1>2. call[c] \in Call /\ call[c].asOf \in Nat
  BY DEF TypeInv, TypeOK, Call
<1>3. Tomorrow(now) \in Nat /\ now < Tomorrow(now)
  BY <1>1, DayFacts
<1>4. call[c].asOf <= Tomorrow(now) /\ (call[c].kind # "TOMORROW" => call[c].asOf <= now)
  BY <1>1, <1>2, <1>3 DEF TypeInv, CallsTimely
<1>5. /\ Day(call[c].asOf) \in Nat
      /\ Day(call[c].asOf) <= Day(Tomorrow(now))
      /\ call[c].kind = "REPLAN" => Day(call[c].asOf) <= Day(now)
  BY <1>1, <1>2, <1>3, <1>4, DayFacts
<1>6. Day(now) \in Days /\ Day(now) + 1 \in Days /\ Day(Tomorrow(now)) \in Days
  BY <1>1, DaysReached
<1>7. Day(MaxTime) \in Nat
  BY <1>1, DayFacts
<1> QED
  BY <1>2, <1>5, <1>6, <1>7 DEF Days

\* Building on plans that differ from the present ones only by being withdrawn.
LEMMA BuildPlans ==
    ASSUME TypeOK, NEW base \in [Days -> Plan], NEW asOf \in Nat, Day(asOf) \in Days,
           \A d \in Days : base[d] = plan[d] \/ base[d] = NoPlan(plan[d].gen),
           Build(base, Day(asOf), asOf)
    PROVE  /\ Planned
           /\ \A d \in Days : d # Day(asOf) => plan'[d] = base[d]
           /\ NewPlan(Day(asOf))
<1> DEFINE date == Day(asOf)
<1>1. date \in Days
  OBVIOUS
<1>2. /\ plan' \in [Days -> Plan]
      /\ queue' \in [Kps -> [Sources -> Item]]
      /\ \A d \in Days : d # date => plan'[d] = base[d]
      /\ plan'[date].gen = base[date].gen + 1
      /\ plan'[date].current /\ ~plan'[date].started /\ plan'[date].rev = prefs.rev
      /\ \A k \in Kps, s \in Sources :
           queue'[k][s] = queue[k][s]
           \/ (s = "PARENT_PRIORITY" /\ queue'[k][s] = Upserted(queue[k][s], asOf))
      /\ \A k \in Kps :
           plan'[date].blocks[k] # Null /\ plan'[date].blocks[k].mode = "REVIEW" =>
               /\ plan'[date].blocks[k].item \in Ref
               /\ queue'[k][plan'[date].blocks[k].item.source].gen = plan'[date].blocks[k].item.gen
               /\ queue'[k][plan'[date].blocks[k].item.source].pending
               /\ queue'[k][plan'[date].blocks[k].item.source].due <= asOf
  BY <1>1, BuildFacts
<1>3. base[date].gen = plan[date].gen
  BY <1>1 DEF NoPlan
<1>4. ASSUME NEW k \in Kps,
             plan'[date].blocks[k] # Null /\ plan'[date].blocks[k].mode = "REVIEW"
      PROVE  Bound(k, plan'[date].blocks[k].item, queue', date)
  <2>1. PICK ref \in Ref : ref = plan'[date].blocks[k].item
    BY <1>2, <1>4
  <2>2. ref.source \in Sources /\ ref.gen \in Nat
    BY DEF Ref
  <2>3. PICK item \in Item : item = queue'[k][ref.source]
    BY <1>2, <2>2
  <2>4. item.gen = ref.gen /\ item.pending /\ item.due <= asOf
    BY <1>2, <1>4, <2>1, <2>3
  <2>5. item.due \in Nat /\ Day(item.due) <= date
    BY <2>4, DayFacts DEF Item
  <2>6. Bound(k, ref, queue', date)
    BY <2>2, <2>3, <2>4, <2>5 DEF Bound
  <2> QED
    BY <2>1, <2>6
<1>5. NewPlan(date)
  BY <1>2, <1>3, <1>4 DEF NewPlan
<1>6. ItemsAsked
  BY <1>2 DEF ItemsAsked, Asked
<1>7. \A d \in Days : plan'[d] = plan[d] \/ NewPlan(d) \/ GonePlan(d)
  BY <1>2, <1>5 DEF GonePlan
<1> QED
  BY <1>2, <1>5, <1>6, <1>7 DEF Planned

\* A plan that is there, or none, stays; another is built where none is.
LEMMA EnsurePlans ==
    ASSUME TypeInv, NEW c \in Calls, Ensure(c)
    PROVE  /\ Planned
           /\ \A d \in Days : plan[d].current => plan'[d] = plan[d]
<1>1. /\ call[c].asOf \in Nat /\ Day(call[c].asOf) \in Days
  BY CallFacts DEF Ensure
<1>2. plan \in [Days -> Plan] /\ TypeOK
  BY DEF TypeInv, TypeOK
<1>3. CASE plan[Day(call[c].asOf)].current
  <2>1. UNCHANGED <<plan, queue>>
    BY <1>3 DEF Ensure
  <2> QED
    BY <2>1 DEF Planned, ItemsAsked, TypeInv, TypeOK
<1>4. CASE ~plan[Day(call[c].asOf)].current
  <2>1. Build(plan, Day(call[c].asOf), call[c].asOf)
    BY <1>4 DEF Ensure
  <2> QED
    BY <1>1, <1>2, <1>4, <2>1, BuildPlans
<1> QED
  BY <1>3, <1>4

\* The answer to a replan names the day of its call or the next, today being preserved,
\* and leaves what the other answer said.
LEMMA AnsweredFacts ==
    ASSUME TypeInv, NEW c \in Calls, call[c] # Null, call[c].kind = "REPLAN"
    PROVE  /\ AppliesFrom(c) \in Days
           /\ AppliesFrom(c) \in {Day(call[c].asOf), Day(call[c].asOf) + 1}
           /\ Preserved(Day(call[c].asOf)) => AppliesFrom(c) = Day(call[c].asOf) + 1
           /\ ReplanAsOf(c) \in Nat /\ Day(ReplanAsOf(c)) = AppliesFrom(c)
           /\ \A answer \in Answers : Answered(c, answer) =>
                /\ promise' \in [Answers -> Promise]
                /\ promise'[answer] = [from |-> AppliesFrom(c), rev |-> prefs.rev]
                /\ \A other \in Answers \ {answer} : promise'[other] = promise[other]
<1>1. call[c].asOf \in Nat /\ Day(call[c].asOf) \in Days /\ Day(call[c].asOf) + 1 \in Days
  BY CallFacts
<1>2. /\ AppliesFrom(c) \in Days
      /\ AppliesFrom(c) \in {Day(call[c].asOf), Day(call[c].asOf) + 1}
      /\ Preserved(Day(call[c].asOf)) => AppliesFrom(c) = Day(call[c].asOf) + 1
  BY <1>1 DEF AppliesFrom
<1>3. ReplanAsOf(c) \in Nat /\ Day(ReplanAsOf(c)) = AppliesFrom(c)
  BY <1>1, DayFacts DEF ReplanAsOf, AppliesFrom
<1>4. ASSUME NEW answer \in Answers, Answered(c, answer)
      PROVE  /\ promise' \in [Answers -> Promise]
             /\ promise'[answer] = [from |-> AppliesFrom(c), rev |-> prefs.rev]
             /\ \A other \in Answers \ {answer} : promise'[other] = promise[other]
  <2> DEFINE told == [from |-> AppliesFrom(c), rev |-> prefs.rev]
  <2>1. promise \in [Answers -> Promise] /\ prefs.rev \in 0 .. MaxChanges
    BY DEF TypeInv, TypeOK
  <2>2. told \in Promise
    BY <1>2, <2>1 DEF Promise
  <2>3. promise' = [promise EXCEPT ![answer] = told]
    BY <1>4 DEF Answered
  <2> HIDE DEF told
  <2>4. /\ promise' \in [Answers -> Promise] /\ promise'[answer] = told
        /\ \A other \in Answers \ {answer} : promise'[other] = promise[other]
    BY <2>1, <2>2, <2>3
  <2> QED
    BY <2>4 DEF told
<1> QED
  BY <1>2, <1>3, <1>4

\* From the day that a replan names, no old plan stays current; earlier plans stay.
LEMMA ReplanPlans ==
    ASSUME TypeInv, NEW c \in Calls, Replan(c)
    PROVE  /\ Planned
           /\ \A d \in Days : d < AppliesFrom(c) => plan'[d] = plan[d]
           /\ \A d \in Days : d >= AppliesFrom(c) => NewPlan(d) \/ ~plan'[d].current
<1> DEFINE date == Day(call[c].asOf)
           from == AppliesFrom(c)
           asOf == ReplanAsOf(c)
<1>1. call[c] # Null /\ call[c].kind = "REPLAN"
  BY DEF Replan
<1>2. asOf \in Nat /\ Day(asOf) = from /\ from \in Days
  BY <1>1, AnsweredFacts
<1>3. plan \in [Days -> Plan] /\ TypeOK /\ queue \in [Kps -> [Sources -> Item]]
  BY DEF TypeInv, TypeOK
<1> HIDE DEF from, asOf
<1>5. CASE Preserved(date) /\ \A d \in Days : d >= from => ~plan[d].current
  <2>1. UNCHANGED <<plan, queue>>
    BY <1>5 DEF Replan, from
  <2>2. Planned
    BY <1>3, <2>1 DEF Planned, ItemsAsked
  <2> QED
    BY <1>2, <1>3, <1>5, <2>1, <2>2 DEF from
<1>6. CASE ~(Preserved(date) /\ \A d \in Days : d >= from => ~plan[d].current)
  <2> DEFINE base == Withdrawn(from)
  <2>1. Build(base, Day(asOf), asOf)
    BY <1>2, <1>6 DEF Replan, from, asOf
  <2>2. \A d \in Days : NoPlan(plan[d].gen) \in Plan /\ plan[d] \in Plan
    BY <1>3, NoPlanType DEF Plan
  <2>3. base \in [Days -> Plan]
    BY <2>2 DEF Withdrawn
  <2>4. \A d \in Days : base[d] = IF d >= from THEN NoPlan(plan[d].gen) ELSE plan[d]
    BY DEF Withdrawn
  <2>5. /\ Planned /\ NewPlan(from)
        /\ \A d \in Days : d # from => plan'[d] = base[d]
    BY <1>2, <1>3, <2>1, <2>3, <2>4, BuildPlans
  <2>6. from \in Nat /\ \A d \in Days : d \in Nat
    BY <1>2 DEF Days
  <2>7. \A d \in Days : d < from => plan'[d] = plan[d]
    BY <2>4, <2>5, <2>6
  <2>8. ASSUME NEW d \in Days, d >= from
        PROVE  NewPlan(d) \/ ~plan'[d].current
    <3>1. CASE d = from
      BY <2>5, <3>1
    <3>2. CASE d # from
      <4>1. plan'[d] = NoPlan(plan[d].gen)
        BY <2>4, <2>5, <2>8, <3>2
      <4> QED
        BY <4>1 DEF NoPlan
    <3> QED
      BY <3>1, <3>2
  <2> QED
    BY <2>5, <2>7, <2>8 DEF from
<1> QED
  BY <1>5, <1>6

-----------------------------------------------------------------------------
(* What the steps of the session do.                                       *)

\* An item that is closed has a successor.
LEMMA RescheduledType ==
    ASSUME NEW items \in [Kps -> [Sources -> Item]], NEW k, NEW s, NEW evidence \in Nat,
           NEW due \in Nat
    PROVE  [items EXCEPT ![k][s] = Rescheduled(@, evidence, due)] \in [Kps -> [Sources -> Item]]
<1>1. \A j \in Kps, t \in Sources : Rescheduled(items[j][t], evidence, due) \in Item
  BY DEF Rescheduled, Item
<1>2. ASSUME NEW j \in Kps
      PROVE  [items[j] EXCEPT ![s] = Rescheduled(@, evidence, due)] \in [Sources -> Item]
  BY <1>1
<1> QED
  BY <1>2

\* The items after a right answer.
LEMMA ClosedType ==
    ASSUME TypeOK, NEW interval \in Intervals
    PROVE  Closed(interval) \in [Kps -> [Sources -> Item]]
<1>1. now \in Nat /\ queue \in [Kps -> [Sources -> Item]]
  BY HorizonAssumption DEF TypeOK
<1>2. now + interval * TicksPerDay \in Nat
  BY <1>1, IntervalFacts
<1> QED
  BY <1>1, <1>2, RescheduledType DEF Closed

\* The status of a block does not change what the block is.
LEMMA SettledFacts ==
    ASSUME TypeInv, open # Null, NEW status \in {"AVAILABLE", "COMPLETED"}
    PROVE  /\ Settled(status) \in [Days -> Plan]
           /\ \A d \in Days :
                /\ Settled(status)[d].gen = plan[d].gen
                /\ Settled(status)[d].current = plan[d].current
                /\ Settled(status)[d].started = plan[d].started
                /\ Settled(status)[d].rev = plan[d].rev
           /\ \A d \in Days, k \in Kps :
                Settled(status)[d].blocks[k] # Null =>
                    /\ plan[d].blocks[k] # Null
                    /\ Settled(status)[d].blocks[k].mode = plan[d].blocks[k].mode
                    /\ Settled(status)[d].blocks[k].item = plan[d].blocks[k].item
<1>1. plan \in [Days -> Plan] /\ open \in Session
  BY DEF TypeInv, TypeOK
<1>2. open.day \in Days /\ open.block \in Kps
  BY <1>1 DEF Session
<1>3. CASE plan[open.day].current /\ plan[open.day].gen = open.gen
  <2> DEFINE old == plan[open.day].blocks[open.block]
             block == [old EXCEPT !.status = status]
             new == [plan[open.day] EXCEPT !.blocks[open.block] = block]
  <2>1. Settled(status) = [plan EXCEPT ![open.day] = new]
    BY <1>1, <1>2, <1>3 DEF Settled, Plan
  <2>2. old # Null /\ old \in Block
    BY <1>1, <1>2, <1>3 DEF TypeInv, OpenOnPlan, Plan
  <2>3. block \in Block /\ block.mode = old.mode /\ block.item = old.item
    BY <2>2 DEF Block
  <2>4. /\ new \in Plan
        /\ new.gen = plan[open.day].gen /\ new.current = plan[open.day].current
        /\ new.started = plan[open.day].started /\ new.rev = plan[open.day].rev
        /\ new.blocks = [plan[open.day].blocks EXCEPT ![open.block] = block]
    BY <1>1, <1>2, <2>3 DEF Plan
  <2>5. \A k \in Kps : new.blocks[k] # Null =>
             /\ plan[open.day].blocks[k] # Null
             /\ new.blocks[k].mode = plan[open.day].blocks[k].mode
             /\ new.blocks[k].item = plan[open.day].blocks[k].item
    BY <1>1, <1>2, <2>2, <2>3, <2>4 DEF Plan
  <2> HIDE DEF new
  <2>6. /\ Settled(status)[open.day] = new
        /\ \A d \in Days : d # open.day => Settled(status)[d] = plan[d]
    BY <1>1, <1>2, <2>1
  <2>7. Settled(status) \in [Days -> Plan]
    BY <1>1, <1>2, <2>1, <2>4
  <2>8. ASSUME NEW d \in Days
        PROVE  /\ Settled(status)[d].gen = plan[d].gen
               /\ Settled(status)[d].current = plan[d].current
               /\ Settled(status)[d].started = plan[d].started
               /\ Settled(status)[d].rev = plan[d].rev
    BY <2>4, <2>6
  <2>9. ASSUME NEW d \in Days, NEW k \in Kps, Settled(status)[d].blocks[k] # Null
        PROVE  /\ plan[d].blocks[k] # Null
               /\ Settled(status)[d].blocks[k].mode = plan[d].blocks[k].mode
               /\ Settled(status)[d].blocks[k].item = plan[d].blocks[k].item
    BY <2>5, <2>6, <2>9
  <2> QED
    BY <2>7, <2>8, <2>9
<1>4. CASE ~(plan[open.day].current /\ plan[open.day].gen = open.gen)
  BY <1>1, <1>4 DEF Settled
<1> QED
  BY <1>3, <1>4

\* A wrong answer: the plan the session belongs to stays, items are only asked for, and
\* the session either keeps its task or leaves the review form.
LEMMA WrongAnswerFacts ==
    ASSUME TypeInv, WrongAnswer
    PROVE  /\ miscon' \subseteq Kps
           /\ queue' \in [Kps -> [Sources -> Item]]
           /\ ItemsAsked
           /\ open' \in Session
           /\ open'.day = open.day /\ open'.gen = open.gen /\ open'.block = open.block
           /\ open'.item = open.item
           /\ open'.failedAt \in {open.failedAt, now}
           /\ open'.review => open.review /\ open'.task = open.task
<1>1. open \in Session /\ open.task \in Kps /\ open.day \in Days
  BY DEF WrongAnswer, TypeInv, TypeOK, Session
<1>2. now \in Nat /\ queue \in [Kps -> [Sources -> Item]] /\ miscon \subseteq Kps
  BY HorizonAssumption DEF TypeInv, TypeOK
<1>3. miscon' \subseteq Kps
  BY <1>1, <1>2 DEF WrongAnswer
<1>4. queue' \in [Kps -> [Sources -> Item]] /\ ItemsAsked
  <2> DEFINE item == Upserted(queue[open.task]["MISCONCEPTION"], Tomorrow(now))
  <2>1. Tomorrow(now) \in Nat /\ "MISCONCEPTION" \in Sources
    BY <1>2, DayFacts DEF Sources
  <2>2. item \in Item
    BY <1>1, <1>2, <2>1, UpsertedFacts
  <2>3. queue' = queue \/ queue' = [queue EXCEPT ![open.task]["MISCONCEPTION"] = item]
    BY <1>1, <1>2, <2>1 DEF WrongAnswer
  <2> HIDE DEF item
  <2>4. queue' \in [Kps -> [Sources -> Item]]
    BY <1>1, <1>2, <2>1, <2>2, <2>3
  <2>5. ASSUME NEW k \in Kps, NEW s \in Sources, queue'[k][s] # queue[k][s]
        PROVE  Asked(s, queue[k][s], queue'[k][s])
    <3>1. k = open.task /\ s = "MISCONCEPTION" /\ queue'[k][s] = item
      BY <1>1, <1>2, <2>1, <2>3, <2>5
    <3> QED
      BY <2>1, <3>1 DEF item, Asked
  <2> QED
    BY <2>4, <2>5 DEF ItemsAsked
<1> DEFINE failed == [open EXCEPT !.failedAt = IF open.review /\ @ = Null THEN now ELSE @]
<1>5. /\ failed \in Session /\ failed.failedAt \in {open.failedAt, now}
      /\ failed.day = open.day /\ failed.gen = open.gen /\ failed.block = open.block
      /\ failed.task = open.task /\ failed.home = open.home
      /\ failed.item = open.item /\ failed.review = open.review
  BY <1>1, <1>2 DEF Session
<1>6. \/ open' = failed
      \/ \E k \in Kps :
           open' = [failed EXCEPT !.task = k, !.review = FALSE,
                                  !.home = IF failed.home = Null THEN open.task ELSE failed.home]
  BY DEF WrongAnswer
<1> HIDE DEF failed
<1>7. CASE open' = failed
  BY <1>3, <1>4, <1>5, <1>7
<1>8. ASSUME NEW k \in Kps,
             open' = [failed EXCEPT !.task = k, !.review = FALSE,
                        !.home = IF failed.home = Null THEN open.task ELSE failed.home]
      PROVE  /\ open' \in Session /\ open'.failedAt = failed.failedAt
             /\ open'.day = failed.day /\ open'.gen = failed.gen /\ open'.block = failed.block
             /\ open'.item = failed.item /\ open'.review = FALSE
  BY <1>1, <1>5, <1>8 DEF Session
<1> QED
  BY <1>3, <1>4, <1>5, <1>6, <1>7, <1>8

-----------------------------------------------------------------------------
(* Types.                                                                  *)

\* The first state is of the right types.
LEMMA TypeInit == Init => TypeInv
<1> SUFFICES ASSUME Init PROVE TypeInv
  OBVIOUS
<1>1. 0 \in 0 .. MaxTime /\ 0 \in 0 .. MaxChanges /\ 0 \in 0 .. MaxCalls
      /\ 0 \in 0 .. MaxSessions
  BY HorizonAssumption
<1>2. 0 \in Days
  BY <1>1, DaysReached, DayFacts, HorizonAssumption DEF Days
<1>3. queue \in [Kps -> [Sources -> Item]]
  BY DEF Init, Item, Absent
<1>4. plan \in [Days -> Plan]
  BY NoPlanType DEF Init
<1>5. [from |-> 0, rev |-> 0] \in Promise
  BY <1>1, <1>2 DEF Promise
<1>6. promise \in [Answers -> Promise]
  BY <1>5 DEF Init
<1>7. prefs \in [reviewOnly : BOOLEAN, enabled : Choices, rev : 0 .. MaxChanges]
  BY <1>1, ChoicesAssumption DEF Init
<1>8. TypeOK
  BY <1>1, <1>3, <1>4, <1>6, <1>7 DEF Init, TypeOK
<1> QED
  BY <1>8 DEF Init, TypeInv, CallsTimely, OpenOnPlan

\* The open session stays on its plan when the planner works.
LEMMA OpenStaysOnPlan ==
    ASSUME TypeInv, Planned, open' = open
    PROVE  OpenOnPlan'
<1> SUFFICES ASSUME open # Null
             PROVE  /\ open.gen <= plan'[open.day].gen
                    /\ plan'[open.day].current /\ plan'[open.day].gen = open.gen
                         => plan'[open.day].blocks[open.block] # Null
  BY DEF OpenOnPlan
<1>1. open.day \in Days /\ open.gen \in Nat /\ plan[open.day].gen \in Nat
  BY DEF TypeInv, TypeOK, Session, Plan
<1>2. /\ open.gen <= plan[open.day].gen
      /\ plan[open.day].current /\ plan[open.day].gen = open.gen
           => plan[open.day].blocks[open.block] # Null
  BY DEF TypeInv, OpenOnPlan
<1>3. CASE plan'[open.day] = plan[open.day]
  BY <1>2, <1>3
<1>4. CASE NewPlan(open.day)
  BY <1>1, <1>2, <1>4 DEF NewPlan
<1>5. CASE GonePlan(open.day)
  BY <1>1, <1>2, <1>5 DEF GonePlan, NoPlan
<1> QED
  BY <1>1, <1>3, <1>4, <1>5 DEF Planned

\* A call that ends, or begins at the present time, keeps the calls timely.
LEMMA CallsStep ==
    ASSUME TypeInv, now' = now, NEW c \in Calls, NEW x \in Call \cup {Null},
           call' = [call EXCEPT ![c] = x],
           x # Null => x.asOf <= (IF x.kind = "TOMORROW" THEN Tomorrow(now) ELSE now)
    PROVE  call' \in [Calls -> Call \cup {Null}] /\ CallsTimely'
  BY DEF TypeInv, TypeOK, CallsTimely

\* Every step keeps the types, the times of the calls and the session on its plan.
LEMMA TypeStep == TypeInv /\ [Next]_vars => TypeInv'
<1> SUFFICES ASSUME TypeInv, [Next]_vars PROVE TypeInv'
  OBVIOUS
<1> USE DEF TypeInv
<1>1. /\ now \in 0 .. MaxTime /\ now \in Nat /\ Tomorrow(now) \in Nat
      /\ now <= Tomorrow(now) /\ Day(now) \in Days
  <2>1. now \in 0 .. MaxTime /\ now \in Nat
    BY HorizonAssumption DEF TypeOK
  <2>2. Tomorrow(now) \in Nat /\ now < Tomorrow(now)
    BY <2>1, DayFacts
  <2>3. now <= Tomorrow(now)
    BY <2>1, <2>2
  <2> QED
    BY <2>1, <2>2, <2>3, DaysReached
<1>2. \A c \in Calls : used.calls < MaxCalls => [used EXCEPT !.calls = @ + 1] \in
                         [calls : 0 .. MaxCalls, sessions : 0 .. MaxSessions]
  BY HorizonAssumption DEF TypeOK
<1>3. ASSUME NEW c \in Calls, AskToday(c) PROVE TypeInv'
  <2>1. PICK x \in Call \cup {Null} : x = [kind |-> "TODAY", asOf |-> now]
    BY <1>1 DEF Call
  <2>2. x.asOf <= (IF x.kind = "TOMORROW" THEN Tomorrow(now) ELSE now)
    BY <1>1, <2>1
  <2>3. call' \in [Calls -> Call \cup {Null}] /\ CallsTimely'
    <3>1. call' = [call EXCEPT ![c] = x] /\ now' = now
      BY <1>3, <2>1 DEF AskToday
    <3> QED
      BY <2>2, <3>1, CallsStep
  <2> QED
    BY <1>2, <1>3, <2>3 DEF AskToday, TypeOK, OpenOnPlan
<1>4. ASSUME NEW c \in Calls, Ensure(c) PROVE TypeInv'
  <2>1. Planned /\ OpenOnPlan'
    BY <1>4, EnsurePlans, OpenStaysOnPlan DEF Ensure
  <2>2. call' \in [Calls -> Call \cup {Null}] /\ CallsTimely'
    BY <1>4, CallsStep DEF Ensure
  <2> QED
    BY <1>4, <2>1, <2>2 DEF Ensure, TypeOK, Planned
<1>5. ASSUME NEW c \in Calls, FailCall(c) PROVE TypeInv'
  <2>1. call' \in [Calls -> Call \cup {Null}] /\ CallsTimely'
    BY <1>5, CallsStep DEF FailCall
  <2> QED
    BY <1>5, <2>1 DEF FailCall, TypeOK, OpenOnPlan
<1>6. ASSUME NEW c \in Calls, SavePreferences(c) PROVE TypeInv'
  <2>1. PICK x \in Call \cup {Null} : x = [kind |-> "REPLAN", asOf |-> now]
    BY <1>1 DEF Call
  <2>2. x.asOf <= (IF x.kind = "TOMORROW" THEN Tomorrow(now) ELSE now)
    BY <1>1, <2>1
  <2>3. call' \in [Calls -> Call \cup {Null}] /\ CallsTimely'
    <3>1. call' = [call EXCEPT ![c] = x] /\ now' = now
      BY <1>6, <2>1 DEF SavePreferences
    <3> QED
      BY <2>2, <3>1, CallsStep
  <2>4. prefs' \in [reviewOnly : BOOLEAN, enabled : Choices, rev : 0 .. MaxChanges]
    BY <1>6, HorizonAssumption DEF SavePreferences, TypeOK
  <2> QED
    BY <1>2, <1>6, <2>3, <2>4 DEF SavePreferences, TypeOK, OpenOnPlan
<1>7. ASSUME NEW c \in Calls, Replan(c) PROVE TypeInv'
  <2>1. Planned /\ OpenOnPlan'
    BY <1>7, ReplanPlans, OpenStaysOnPlan DEF Replan, Answered
  <2>2. promise' \in [Answers -> Promise]
    BY <1>7, AnsweredFacts DEF Replan, Answers
  <2>3. call' \in [Calls -> Call \cup {Null}] /\ CallsTimely'
    BY <1>7, CallsStep DEF Replan, Answered
  <2> QED
    BY <1>7, <2>1, <2>2, <2>3 DEF Replan, Answered, TypeOK, Planned
<1>8. ASSUME NEW c \in Calls, AnswerCompletes(c) PROVE TypeInv'
  <2>1. PICK x \in Call \cup {Null} : x = [kind |-> "TOMORROW", asOf |-> Tomorrow(now)]
    BY <1>1 DEF Call
  <2>2. x.asOf <= (IF x.kind = "TOMORROW" THEN Tomorrow(now) ELSE now)
    BY <1>1, <2>1
  <2>3. call' \in [Calls -> Call \cup {Null}] /\ CallsTimely'
    <3>1. call' = [call EXCEPT ![c] = x] /\ now' = now
      BY <1>8, <2>1 DEF AnswerCompletes
    <3> QED
      BY <2>2, <3>1, CallsStep
  <2>4. plan' \in [Days -> Plan]
    BY <1>8, SettledFacts DEF AnswerCompletes
  <2>5. queue' \in [Kps -> [Sources -> Item]]
    BY <1>8, ClosedType DEF AnswerCompletes
  <2> QED
    BY <1>2, <1>8, <2>3, <2>4, <2>5 DEF AnswerCompletes, TypeOK, OpenOnPlan
<1>9. ASSUME NEW k \in Kps, Start(k) PROVE TypeInv'
  <2> DEFINE today == plan[Day(now)]
             block == today.blocks[k]
             active == [block EXCEPT !.status = "ACTIVE"]
             new == [today EXCEPT !.started = TRUE, !.blocks[k] = active]
  <2>1. today \in Plan /\ block \in Block /\ block # Null
    BY <1>1, <1>9 DEF Start, TypeOK, Plan
  <2>2. active \in Block
    BY <2>1 DEF Block
  <2>3. new \in Plan /\ new.gen = today.gen /\ new.blocks[k] = active
    BY <2>1, <2>2 DEF Plan
  <2>4. plan' = [plan EXCEPT ![Day(now)] = new]
    BY <1>1, <1>9, <2>1 DEF Start, TypeOK, Plan
  <2>5. open' = [day |-> Day(now), gen |-> today.gen, block |-> k, task |-> k,
                 home |-> block.home, review |-> block.mode = "REVIEW", item |-> block.item,
                 failedAt |-> Null]
    BY <1>9 DEF Start
  <2>6. open' \in Session
    BY <1>1, <2>1, <2>5 DEF Session, Block, Plan
  <2>7. plan' \in [Days -> Plan]
    BY <2>3, <2>4 DEF TypeOK
  <2>8. used' \in [calls : 0 .. MaxCalls, sessions : 0 .. MaxSessions]
    BY <1>9, HorizonAssumption DEF Start, TypeOK
  <2>9. OpenOnPlan'
    <3>1. plan'[Day(now)] = new /\ open'.day = Day(now) /\ open'.block = k
          /\ open'.gen = new.gen /\ new.gen \in Nat
      BY <1>1, <2>1, <2>3, <2>4, <2>5 DEF TypeOK, Plan
    <3>2. new.blocks[k] # Null
      BY <2>2, <2>3, BlockNullAssumption
    <3> HIDE DEF new
    <3>3. open'.gen <= plan'[open'.day].gen /\ plan'[open'.day].blocks[open'.block] # Null
      BY <3>1, <3>2
    <3> QED
      BY <3>3 DEF OpenOnPlan
  <2> QED
    BY <1>9, <2>6, <2>7, <2>8, <2>9 DEF Start, TypeOK, CallsTimely
<1>10. ASSUME Intervene PROVE TypeInv'
  <2>1. prefs' \in [reviewOnly : BOOLEAN, enabled : Choices, rev : 0 .. MaxChanges]
    BY <1>10, HorizonAssumption DEF Intervene, TypeOK
  <2> QED
    BY <1>10, <2>1 DEF Intervene, TypeOK, CallsTimely, OpenOnPlan
<1>11. ASSUME WrongAnswer PROVE TypeInv'
  BY <1>11, WrongAnswerFacts DEF WrongAnswer, TypeOK, CallsTimely, OpenOnPlan
<1>12. ASSUME AnswerReturns PROVE TypeInv'
  <2>1. queue' \in [Kps -> [Sources -> Item]]
    BY <1>12, ClosedType DEF AnswerReturns
  <2>2. open \in Session /\ open.home \in Kps
    BY <1>12 DEF AnswerReturns, TypeOK, Session
  <2>3. /\ open' \in Session
        /\ open'.day = open.day /\ open'.gen = open.gen /\ open'.block = open.block
    BY <1>12, <2>2 DEF AnswerReturns, Session
  <2> QED
    BY <1>12, <2>1, <2>3 DEF AnswerReturns, TypeOK, CallsTimely, OpenOnPlan
<1>13. ASSUME Abandon PROVE TypeInv'
  <2>1. plan' \in [Days -> Plan]
    BY <1>13, SettledFacts DEF Abandon
  <2>2. queue' \in [Kps -> [Sources -> Item]]
    <3>1. CASE SettlesReview
      <4>1. open.failedAt \in Nat /\ Tomorrow(open.failedAt) \in Nat
        BY <1>13, <3>1, DayFacts DEF Abandon, SettlesReview, TypeOK, Session
      <4> QED
        BY <1>13, <3>1, <4>1, RescheduledType DEF Abandon, TypeOK
    <3>2. CASE ~SettlesReview
      BY <1>13, <3>2 DEF Abandon, TypeOK
    <3> QED
      BY <3>1, <3>2
  <2> QED
    BY <1>13, <2>1, <2>2 DEF Abandon, TypeOK, CallsTimely, OpenOnPlan
<1>14. ASSUME Tick PROVE TypeInv'
  <2>1. now' \in 0 .. MaxTime /\ now <= now' /\ Tomorrow(now) <= Tomorrow(now')
        /\ Tomorrow(now') \in Nat
    BY <1>1, <1>14, HorizonAssumption, DayAssumption DEF Tick, Tomorrow
  <2>2. CallsTimely'
    BY <1>1, <1>14, <2>1, HorizonAssumption DEF Tick, TypeOK, Call, CallsTimely
  <2> QED
    BY <1>14, <2>1, <2>2 DEF Tick, TypeOK, OpenOnPlan
<1>15. ASSUME UNCHANGED vars PROVE TypeInv'
  BY <1>15 DEF vars, TypeOK, CallsTimely, OpenOnPlan
<1>16. ASSUME NEW c \in Calls, ReplanUnavailable(c) PROVE TypeInv'
  <2>1. promise' \in [Answers -> Promise]
    BY <1>16, AnsweredFacts DEF ReplanUnavailable, Answers
  <2>2. call' \in [Calls -> Call \cup {Null}] /\ CallsTimely'
    BY <1>16, CallsStep DEF ReplanUnavailable, Answered
  <2> QED
    BY <1>16, <2>1, <2>2 DEF ReplanUnavailable, Answered, TypeOK, OpenOnPlan
<1> QED
  BY <1>3, <1>4, <1>5, <1>6, <1>7, <1>8, <1>9, <1>10, <1>11, <1>12, <1>13, <1>14, <1>15, <1>16
     DEF Next

\* So they hold of every behaviour.
LEMMA TypeInvariant == Spec => []TypeInv
  BY TypeInit, TypeStep, PTL DEF Spec

\* TypeOK: every variable keeps its type, whatever the calls, plans and sessions do.
THEOREM TypeCorrect == Spec => []TypeOK
<1>1. TypeInv => TypeOK
  BY DEF TypeInv
<1> QED
  BY <1>1, TypeInvariant, PTL

-----------------------------------------------------------------------------
(* Items and the blocks bound to them.                                     *)

\* An item is asked for, or closed by evidence that is past and due a day after it.
Moved(s, old, new) ==
    \/ Asked(s, old, new)
    \/ \E evidence, due \in Nat :
         /\ evidence <= now /\ Tomorrow(evidence) <= due
         /\ new = Rescheduled(old, evidence, due)
ItemsMoved == \A k \in Kps, s \in Sources :
    queue'[k][s] = queue[k][s] \/ Moved(s, queue[k][s], queue'[k][s])

\* A moved item is not bound to what its predecessor was, or it is due no later.
LEMMA MovedFacts ==
    ASSUME now \in Nat, NEW s \in Sources, NEW old \in Item, NEW new, Moved(s, old, new)
    PROVE  /\ new \in Item /\ old.gen <= new.gen
           /\ new.gen = old.gen => old.pending /\ new.due <= old.due
           /\ s = "MISCONCEPTION" /\ SpacedItem(old, now) => SpacedItem(new, now)
<1>1. ASSUME NEW due \in Nat, s = "MISCONCEPTION" => due = Tomorrow(now),
             new = Upserted(old, due)
      PROVE  /\ new \in Item /\ old.gen <= new.gen
             /\ new.gen = old.gen => old.pending /\ new.due <= old.due
             /\ s = "MISCONCEPTION" /\ SpacedItem(old, now) => SpacedItem(new, now)
  <2>1. /\ new \in Item /\ new.last = old.last
        /\ old.pending => /\ new.gen = old.gen /\ new.due <= old.due
                          /\ new.due \in {old.due, due}
        /\ ~old.pending => new.gen = old.gen + 1 /\ new.due = due
    BY <1>1, UpsertedFacts
  <2>2. old.gen \in Nat /\ old.pending \in BOOLEAN
    BY DEF Item
  <2>3. ASSUME s = "MISCONCEPTION", SpacedItem(old, now), new.last # Null
        PROVE  new.last <= now /\ Tomorrow(new.last) <= new.due
    <3>1. old.last \in Nat /\ old.last <= now /\ new.last = old.last
      BY <2>1, <2>3 DEF SpacedItem, Item
    <3>2. Tomorrow(old.last) <= Tomorrow(now)
      BY <3>1, DayAssumption DEF Tomorrow
    <3>3. due = Tomorrow(now)
      BY <1>1, <2>3
    <3> QED
      BY <2>1, <2>3, <3>1, <3>2, <3>3 DEF SpacedItem
  <2> QED
    BY <2>1, <2>2, <2>3 DEF SpacedItem
<1>2. ASSUME NEW evidence \in Nat, NEW due \in Nat, evidence <= now, Tomorrow(evidence) <= due,
             new = Rescheduled(old, evidence, due)
      PROVE  /\ new \in Item /\ old.gen <= new.gen
             /\ new.gen = old.gen => old.pending /\ new.due <= old.due
             /\ s = "MISCONCEPTION" /\ SpacedItem(old, now) => SpacedItem(new, now)
  BY <1>2 DEF Rescheduled, Item, SpacedItem
<1> QED
  BY <1>1, <1>2 DEF Moved, Asked

\* Moving items keeps every block bound, and misconceptions spaced.
LEMMA MovedKeeps ==
    ASSUME TypeInv, ItemsMoved, queue' \in [Kps -> [Sources -> Item]]
    PROVE  /\ \A k \in Kps, d \in Days : \A ref :
                Bound(k, ref, queue, d) => Bound(k, ref, queue', d)
           /\ ItemsSpaced /\ now' = now => ItemsSpaced'
<1>1. now \in Nat /\ queue \in [Kps -> [Sources -> Item]]
  BY HorizonAssumption DEF TypeInv, TypeOK
<1>2. ASSUME NEW k \in Kps, NEW d \in Days, NEW ref, Bound(k, ref, queue, d)
      PROVE  Bound(k, ref, queue', d)
  <2>1. ref \in Ref /\ ref.source \in Sources /\ ref.gen \in Nat
    BY <1>2 DEF Bound, Ref
  <2>2. PICK old \in Item, new \in Item :
          old = queue[k][ref.source] /\ new = queue'[k][ref.source]
    BY <1>1, <2>1
  <2>3. /\ ref.gen <= old.gen
        /\ old.gen = ref.gen /\ old.pending => Day(old.due) <= d
    BY <1>2, <2>2 DEF Bound
  <2>4. old.gen \in Nat /\ new.gen \in Nat /\ old.due \in Nat /\ new.due \in Nat /\ d \in Nat
    BY DEF Item, Days
  <2>5. new = old \/ Moved(ref.source, old, new)
    BY <2>1, <2>2 DEF ItemsMoved
  <2>6. /\ old.gen <= new.gen
        /\ new = old \/ (new.gen = old.gen => old.pending /\ new.due <= old.due)
    BY <1>1, <2>1, <2>4, <2>5, MovedFacts
  <2>7. ref.gen <= new.gen
    BY <2>1, <2>3, <2>4, <2>6
  <2>8. ASSUME new.gen = ref.gen, new.pending
        PROVE  Day(new.due) <= d
    <3>1. old.gen = ref.gen
      BY <2>1, <2>3, <2>4, <2>6, <2>8
    <3>2. CASE new = old
      BY <2>3, <2>8, <3>1, <3>2
    <3>3. CASE new # old
      <4>1. old.pending /\ new.due <= old.due
        BY <2>6, <2>8, <3>1, <3>3
      <4>2. Day(old.due) <= d /\ Day(new.due) <= Day(old.due)
            /\ Day(old.due) \in Nat /\ Day(new.due) \in Nat
        BY <2>3, <2>4, <3>1, <4>1, DayFacts
      <4> QED
        BY <2>4, <4>2
    <3> QED
      BY <3>2, <3>3
  <2> QED
    BY <2>1, <2>2, <2>7, <2>8 DEF Bound
<1>3. ASSUME ItemsSpaced, now' = now
      PROVE  ItemsSpaced'
  <2> SUFFICES ASSUME NEW k \in Kps
               PROVE  SpacedItem(queue'[k]["MISCONCEPTION"], now)
    BY <1>3 DEF ItemsSpaced
  <2>1. PICK old \in Item, new \in Item :
          old = queue[k]["MISCONCEPTION"] /\ new = queue'[k]["MISCONCEPTION"]
    BY <1>1 DEF Sources
  <2>2. SpacedItem(old, now) /\ (new = old \/ Moved("MISCONCEPTION", old, new))
    BY <1>3, <2>1 DEF ItemsSpaced, ItemsMoved, Sources
  <2>3. SpacedItem(new, now)
    BY <1>1, <2>2, MovedFacts DEF Sources
  <2> QED
    BY <2>1, <2>3
<1> QED
  BY <1>2, <1>3

\* Asking for items moves them.
LEMMA AskedMoves == ItemsAsked => ItemsMoved
  BY DEF ItemsAsked, ItemsMoved, Moved

\* So does a right answer in review.
LEMMA ClosedMoves ==
    ASSUME TypeInv, open # Null, NEW interval \in Intervals, queue' = Closed(interval)
    PROVE  ItemsMoved
<1>1. now \in Nat /\ queue \in [Kps -> [Sources -> Item]]
  BY HorizonAssumption DEF TypeInv, TypeOK
<1>2. PICK due \in Nat : due = now + interval * TicksPerDay /\ Tomorrow(now) <= due
  BY <1>1, IntervalFacts
<1>3. queue' = queue
      \/ queue' = [queue EXCEPT ![open.task][open.item.source] = Rescheduled(@, now, due)]
  BY <1>2 DEF Closed
<1>4. \A k \in Kps, s \in Sources :
        queue'[k][s] = queue[k][s] \/ queue'[k][s] = Rescheduled(queue[k][s], now, due)
  BY <1>1, <1>3
<1> QED
  BY <1>1, <1>2, <1>4 DEF ItemsMoved, Moved

\* The end of a session that failed its review moves its item.
LEMMA AbandonMoves ==
    ASSUME TypeInv, OpenSound, Abandon
    PROVE  ItemsMoved
<1>1. now \in Nat /\ queue \in [Kps -> [Sources -> Item]] /\ open \in Session
  BY HorizonAssumption DEF Abandon, TypeInv, TypeOK
<1>2. CASE SettlesReview
  <2>1. PICK evidence \in Nat : evidence = open.failedAt /\ evidence <= now
    BY <1>1, <1>2 DEF SettlesReview, Session, OpenSound, Reviewing, Abandon
  <2>2. PICK due \in Nat : due = Tomorrow(evidence) /\ Tomorrow(evidence) <= due
    BY DayFacts
  <2>3. queue' = [queue EXCEPT ![open.block][open.item.source] = Rescheduled(@, evidence, due)]
    BY <1>2, <2>1, <2>2 DEF Abandon
  <2>4. \A k \in Kps, s \in Sources :
          queue'[k][s] = queue[k][s] \/ queue'[k][s] = Rescheduled(queue[k][s], evidence, due)
    BY <1>1, <2>3
  <2> QED
    BY <2>1, <2>2, <2>4 DEF ItemsMoved, Moved
<1>3. CASE ~SettlesReview
  BY <1>3 DEF Abandon, ItemsMoved
<1> QED
  BY <1>2, <1>3

-----------------------------------------------------------------------------
(* Plans: started in time, and bound blocks.                               *)

\* A plan is started on its day, and only then.
LEMMA StartedStep ==
    ASSUME TypeInv, StartedByNow, [Next]_vars
    PROVE  StartedByNow'
<1>1. /\ now \in Nat /\ Day(now) \in Days /\ Day(now) \in Nat
      /\ plan \in [Days -> Plan]
      /\ \A d \in Days : d \in Nat
  <2>1. now \in 0 .. MaxTime /\ now \in Nat /\ plan \in [Days -> Plan]
    BY HorizonAssumption DEF TypeInv, TypeOK
  <2>2. Day(now) \in Days /\ Day(now) \in Nat
    BY <2>1, DaysReached, DayFacts
  <2>3. \A d \in Days : d \in Nat
    BY DEF Days
  <2> QED
    BY <2>1, <2>2, <2>3
<1>2. ASSUME Planned, now' = now PROVE StartedByNow'
  BY <1>2 DEF Planned, NewPlan, GonePlan, NoPlan, StartedByNow
<1>3. ASSUME NEW c \in Calls, Ensure(c) \/ Replan(c) PROVE StartedByNow'
  <2>1. now' = now
    BY <1>3 DEF Ensure, Replan, Answered
  <2> QED
    BY <1>2, <1>3, <2>1, EnsurePlans, ReplanPlans
<1>4. ASSUME NEW c \in Calls,
             AskToday(c) \/ FailCall(c) \/ SavePreferences(c) \/ ReplanUnavailable(c)
      PROVE  StartedByNow'
  BY <1>4 DEF AskToday, FailCall, SavePreferences, ReplanUnavailable, Answered, StartedByNow
<1>5. ASSUME Intervene \/ WrongAnswer \/ AnswerReturns \/ UNCHANGED vars
      PROVE  StartedByNow'
  BY <1>5 DEF Intervene, WrongAnswer, AnswerReturns, vars, StartedByNow
<1>6. ASSUME NEW c \in Calls, AnswerCompletes(c) PROVE StartedByNow'
  BY <1>6, SettledFacts DEF AnswerCompletes, StartedByNow
<1>7. ASSUME NEW k \in Kps, Start(k) PROVE StartedByNow'
  <2>1. \A d \in Days : d # Day(now) => plan'[d] = plan[d]
    BY <1>1, <1>7 DEF Start
  <2> QED
    BY <1>1, <1>7, <2>1 DEF Start, StartedByNow
<1>8. ASSUME Abandon PROVE StartedByNow'
  BY <1>8, SettledFacts DEF Abandon, StartedByNow
<1>9. ASSUME Tick PROVE StartedByNow'
  <2>1. now' \in Nat /\ now <= now' /\ plan' = plan
    BY <1>1, <1>9 DEF Tick
  <2>2. Day(now) <= Day(now') /\ Day(now') \in Nat
    BY <1>1, <2>1, DayFacts
  <2> QED
    BY <1>1, <2>1, <2>2 DEF StartedByNow
<1> QED
  BY <1>3, <1>4, <1>5, <1>6, <1>7, <1>8, <1>9 DEF Next

\* Blocks that are new are bound, blocks that stay remain so.
LEMMA BlocksKept ==
    ASSUME TypeInv, BlocksBound, ItemsMoved, queue' \in [Kps -> [Sources -> Item]],
           \A d \in Days, k \in Kps :
             plan'[d].blocks[k] # Null /\ plan'[d].blocks[k].mode = "REVIEW" =>
                \/ Bound(k, plan'[d].blocks[k].item, queue', d)
                \/ /\ plan[d].blocks[k] # Null /\ plan[d].blocks[k].mode = "REVIEW"
                   /\ plan'[d].blocks[k].item = plan[d].blocks[k].item
    PROVE  BlocksBound'
<1> SUFFICES ASSUME NEW d \in Days, NEW k \in Kps,
                    plan'[d].blocks[k] # Null, plan'[d].blocks[k].mode = "REVIEW"
             PROVE  Bound(k, plan'[d].blocks[k].item, queue', d)
  BY DEF BlocksBound, Bound
<1>1. CASE /\ plan[d].blocks[k] # Null /\ plan[d].blocks[k].mode = "REVIEW"
           /\ plan'[d].blocks[k].item = plan[d].blocks[k].item
  <2>1. Bound(k, plan[d].blocks[k].item, queue, d)
    BY <1>1 DEF BlocksBound
  <2>2. Bound(k, plan[d].blocks[k].item, queue', d)
    BY <2>1, MovedKeeps
  <2> QED
    BY <1>1, <2>2
<1> QED
  BY <1>1

\* New review blocks are bound to items due on the day of their plan, and stay so; the
\* reviews of a misconception stay spaced.
LEMMA BlocksStep ==
    ASSUME TypeInv, BlocksBound, ItemsSpaced, OpenSound, [Next]_vars
    PROVE  BlocksBound' /\ ItemsSpaced'
<1>1. /\ now \in Nat /\ Day(now) \in Days
      /\ plan \in [Days -> Plan] /\ queue \in [Kps -> [Sources -> Item]]
  BY HorizonAssumption, DaysReached DEF TypeInv, TypeOK
<1>2. ASSUME Planned, now' = now PROVE BlocksBound' /\ ItemsSpaced'
  <2>1. ItemsMoved /\ queue' \in [Kps -> [Sources -> Item]]
    BY <1>2, AskedMoves DEF Planned
  <2>2. ASSUME NEW d \in Days, NEW k \in Kps,
               plan'[d].blocks[k] # Null, plan'[d].blocks[k].mode = "REVIEW"
        PROVE  \/ Bound(k, plan'[d].blocks[k].item, queue', d)
               \/ plan'[d] = plan[d]
    <3>1. CASE NewPlan(d)
      BY <2>2, <3>1 DEF NewPlan
    <3>2. CASE GonePlan(d)
      BY <2>2, <3>2 DEF GonePlan, NoPlan
    <3> QED
      BY <1>2, <3>1, <3>2 DEF Planned
  <2>3. BlocksBound'
    BY <2>1, <2>2, BlocksKept
  <2> QED
    BY <1>2, <2>1, <2>3, MovedKeeps
<1>3. ASSUME NEW c \in Calls, Ensure(c) \/ Replan(c) PROVE BlocksBound' /\ ItemsSpaced'
  <2>1. now' = now
    BY <1>3 DEF Ensure, Replan, Answered
  <2> QED
    BY <1>2, <1>3, <2>1, EnsurePlans, ReplanPlans
<1>4. ASSUME UNCHANGED <<now, queue, plan>> PROVE BlocksBound' /\ ItemsSpaced'
  BY <1>4 DEF BlocksBound, ItemsSpaced
<1>5. ASSUME NEW c \in Calls,
             AskToday(c) \/ FailCall(c) \/ SavePreferences(c) \/ ReplanUnavailable(c)
      PROVE  BlocksBound' /\ ItemsSpaced'
  BY <1>4, <1>5 DEF AskToday, FailCall, SavePreferences, ReplanUnavailable, Answered
<1>6. ASSUME Intervene \/ UNCHANGED vars PROVE BlocksBound' /\ ItemsSpaced'
  BY <1>4, <1>6 DEF Intervene, vars
<1>7. ASSUME ItemsMoved, queue' \in [Kps -> [Sources -> Item]], now' = now, open # Null,
             NEW status \in {"AVAILABLE", "COMPLETED"}, plan' = Settled(status)
      PROVE  BlocksBound' /\ ItemsSpaced'
  <2>1. \A d \in Days, k \in Kps :
          plan'[d].blocks[k] # Null =>
              /\ plan[d].blocks[k] # Null
              /\ plan'[d].blocks[k].mode = plan[d].blocks[k].mode
              /\ plan'[d].blocks[k].item = plan[d].blocks[k].item
    BY <1>7, SettledFacts
  <2>2. BlocksBound'
    BY <1>7, <2>1, BlocksKept
  <2> QED
    BY <1>7, <2>2, MovedKeeps
<1>8. ASSUME NEW c \in Calls, AnswerCompletes(c) PROVE BlocksBound' /\ ItemsSpaced'
  <2>1. ItemsMoved /\ queue' \in [Kps -> [Sources -> Item]]
    BY <1>8, ClosedMoves, ClosedType DEF AnswerCompletes, TypeInv
  <2> QED
    BY <1>7, <1>8, <2>1 DEF AnswerCompletes
<1>9. ASSUME Abandon PROVE BlocksBound' /\ ItemsSpaced'
  <2>1. ItemsMoved /\ queue' \in [Kps -> [Sources -> Item]]
    BY <1>9, AbandonMoves, TypeStep DEF TypeInv, TypeOK
  <2> QED
    BY <1>7, <1>9, <2>1 DEF Abandon
<1>10. ASSUME ItemsMoved, queue' \in [Kps -> [Sources -> Item]], UNCHANGED <<now, plan>>
       PROVE  BlocksBound' /\ ItemsSpaced'
  BY <1>10, BlocksKept, MovedKeeps
<1>11. ASSUME AnswerReturns PROVE BlocksBound' /\ ItemsSpaced'
  BY <1>10, <1>11, ClosedMoves, ClosedType DEF AnswerReturns, TypeInv
<1>12. ASSUME WrongAnswer PROVE BlocksBound' /\ ItemsSpaced'
  <2>1. UNCHANGED <<now, plan>>
    BY <1>12 DEF WrongAnswer
  <2> QED
    BY <1>10, <1>12, <2>1, WrongAnswerFacts, AskedMoves
<1>13. ASSUME NEW k \in Kps, Start(k) PROVE BlocksBound' /\ ItemsSpaced'
  <2>1. UNCHANGED <<now, queue>> /\ plan[Day(now)].blocks[k] # Null
    BY <1>13 DEF Start
  <2>2. ASSUME NEW d \in Days, NEW j \in Kps, plan'[d].blocks[j] # Null,
               plan'[d].blocks[j].mode = "REVIEW"
        PROVE  /\ plan[d].blocks[j] # Null /\ plan[d].blocks[j].mode = "REVIEW"
               /\ plan'[d].blocks[j].item = plan[d].blocks[j].item
    <3>1. plan[Day(now)].blocks[k] \in Block
      BY <1>1, <2>1 DEF Plan
    <3>2. plan' = [plan EXCEPT ![Day(now)].started = TRUE, ![Day(now)].blocks[k].status = "ACTIVE"]
      BY <1>13 DEF Start
    <3>3. CASE d = Day(now) /\ j = k
      BY <1>1, <2>1, <2>2, <3>1, <3>2, <3>3 DEF Plan, Block
    <3>4. CASE ~(d = Day(now) /\ j = k)
      <4>1. plan'[d].blocks[j] = plan[d].blocks[j]
        BY <1>1, <3>2, <3>4 DEF Plan
      <4> QED
        BY <2>2, <4>1
    <3> QED
      BY <3>3, <3>4
  <2>3. ItemsMoved
    BY <2>1 DEF ItemsMoved
  <2>4. BlocksBound'
    BY <1>1, <2>1, <2>2, <2>3, BlocksKept
  <2> QED
    BY <2>1, <2>4 DEF ItemsSpaced
<1>14. ASSUME Tick PROVE BlocksBound' /\ ItemsSpaced'
  <2>1. UNCHANGED <<queue, plan>> /\ now' \in Nat /\ now <= now'
    BY <1>1, <1>14 DEF Tick
  <2>2. BlocksBound'
    BY <2>1 DEF BlocksBound
  <2>3. ASSUME NEW k \in Kps PROVE SpacedItem(queue[k]["MISCONCEPTION"], now')
    <3>1. PICK item \in Item : item = queue[k]["MISCONCEPTION"] /\ SpacedItem(item, now)
      BY <1>1 DEF ItemsSpaced, Sources
    <3>2. SpacedItem(item, now')
      BY <1>1, <2>1, <3>1 DEF SpacedItem, Item
    <3> QED
      BY <3>1, <3>2
  <2>4. ItemsSpaced'
    BY <2>1, <2>3 DEF ItemsSpaced
  <2> QED
    BY <2>2, <2>4
<1> QED
  BY <1>3, <1>5, <1>6, <1>8, <1>9, <1>11, <1>12, <1>13, <1>14 DEF Next

-----------------------------------------------------------------------------
(* The open session, and what the parent was told.                         *)

\* Asking for items leaves a pending one as it is, but for its date.
LEMMA ReviewKept ==
    ASSUME TypeInv, NEW ses \in Session, Reviewing(ses, queue, now), ItemsAsked,
           ses.item \in Ref \cup {Null}
    PROVE  Reviewing(ses, queue', now)
<1>1. CASE ~ses.review
  BY <1>1 DEF Reviewing
<1>2. CASE ses.review
  <2>1. ses.item \in Ref /\ ses.task \in Kps
    BY <1>2 DEF Reviewing, Session
  <2>2. PICK k \in Kps, s \in Sources : k = ses.task /\ s = ses.item.source
    BY <2>1 DEF Ref
  <2>3. PICK old \in Item : old = queue[k][s]
    BY <2>2 DEF TypeInv, TypeOK
  <2>4. old.pending /\ old.gen = ses.item.gen
    BY <1>2, <2>2, <2>3 DEF Reviewing
  <2>5. queue'[k][s].pending /\ queue'[k][s].gen = old.gen /\ queue'[k][s].last = old.last
    <3>1. queue'[k][s] = old \/ \E due \in Nat : queue'[k][s] = Upserted(old, due)
      BY <2>2, <2>3 DEF ItemsAsked, Asked
    <3> QED
      BY <2>3, <2>4, <3>1, UpsertedFacts
  <2> QED
    BY <1>2, <2>2, <2>3, <2>4, <2>5 DEF Reviewing
<1> QED
  BY <1>1, <1>2 DEF Session

\* A session starts on an item that is due, which nobody else closes while it is open.
LEMMA OpenStep ==
    ASSUME TypeInv, BlocksBound, ItemsSpaced, OpenSound, [Next]_vars
    PROVE  OpenSound'
<1>1. /\ now \in Nat /\ Day(now) \in Days
      /\ plan \in [Days -> Plan] /\ queue \in [Kps -> [Sources -> Item]]
      /\ open # Null => open \in Session /\ open.item \in Ref \cup {Null}
  BY HorizonAssumption, DaysReached DEF TypeInv, TypeOK, Session
<1>2. ASSUME NEW c \in Calls, Ensure(c) \/ Replan(c) PROVE OpenSound'
  <2>1. ItemsAsked /\ UNCHANGED <<now, open>>
    BY <1>2, EnsurePlans, ReplanPlans DEF Ensure, Replan, Answered, Planned
  <2> QED
    BY <1>1, <2>1, ReviewKept DEF OpenSound
<1>3. ASSUME UNCHANGED <<now, queue, open>> PROVE OpenSound'
  BY <1>3 DEF OpenSound
<1>4. ASSUME NEW c \in Calls,
             AskToday(c) \/ FailCall(c) \/ SavePreferences(c) \/ ReplanUnavailable(c)
      PROVE  OpenSound'
  BY <1>3, <1>4 DEF AskToday, FailCall, SavePreferences, ReplanUnavailable, Answered
<1>5. ASSUME Intervene \/ UNCHANGED vars PROVE OpenSound'
  BY <1>3, <1>5 DEF Intervene, vars
<1>6. ASSUME NEW c \in Calls, AnswerCompletes(c) PROVE OpenSound'
  BY <1>6 DEF AnswerCompletes, OpenSound
<1>7. ASSUME Abandon PROVE OpenSound'
  BY <1>7 DEF Abandon, OpenSound
<1>8. ASSUME AnswerReturns PROVE OpenSound'
  <2>1. /\ open # Null /\ now' = now
        /\ open' = [open EXCEPT !.task = open.home, !.review = FALSE]
    BY <1>8 DEF AnswerReturns
  <2>2. open'.failedAt = open.failedAt /\ open'.review = FALSE
    BY <1>1, <2>1 DEF Session
  <2> QED
    BY <2>1, <2>2 DEF OpenSound, Reviewing
<1>9. ASSUME WrongAnswer PROVE OpenSound'
  <2>1. /\ open # Null /\ now' = now /\ ItemsAsked
        /\ open'.item = open.item /\ open'.failedAt \in {open.failedAt, now}
        /\ open'.review => open.review /\ open'.task = open.task
    BY <1>9, WrongAnswerFacts DEF WrongAnswer
  <2>2. Reviewing(open, queue, now) /\ Reviewing(open, queue', now)
    BY <1>1, <2>1, ReviewKept DEF OpenSound
  <2>3. Reviewing(open', queue', now)
    BY <1>1, <2>1, <2>2 DEF Reviewing
  <2> QED
    BY <2>1, <2>3 DEF OpenSound
<1>10. ASSUME NEW k \in Kps, Start(k) PROVE OpenSound'
  <2> DEFINE block == plan[Day(now)].blocks[k]
  <2>1. /\ block # Null /\ Startable(k, block) /\ UNCHANGED <<now, queue>>
        /\ open' = [day |-> Day(now), gen |-> plan[Day(now)].gen, block |-> k, task |-> k,
                    home |-> block.home, review |-> block.mode = "REVIEW",
                    item |-> block.item, failedAt |-> Null]
    BY <1>10 DEF Start
  <2>2. ASSUME block.mode = "REVIEW"
        PROVE  /\ block.item # Null
               /\ queue[k][block.item.source].gen = block.item.gen
               /\ queue[k][block.item.source].pending
               /\ block.item.source = "MISCONCEPTION" =>
                    LET last == queue[k]["MISCONCEPTION"].last IN
                    last # Null => Tomorrow(last) <= now
    <3>1. block.item \in Ref
      BY <1>1, <2>1, <2>2 DEF BlocksBound, Bound
    <3>2. PICK s \in Sources : s = block.item.source
      BY <3>1 DEF Ref
    <3>3. PICK item \in Item : item = queue[k][s]
      BY <1>1
    <3>4. item.gen = block.item.gen /\ item.pending /\ item.due <= now
      BY <2>1, <2>2, <3>2, <3>3 DEF Startable, StillPending
    <3>5. ASSUME s = "MISCONCEPTION", item.last # Null
          PROVE  Tomorrow(item.last) <= now
      <4>1. item.last \in Nat /\ Tomorrow(item.last) <= item.due
        BY <3>3, <3>4, <3>5 DEF ItemsSpaced, SpacedItem, Item
      <4> QED
        BY <1>1, <3>4, <4>1, DayFacts DEF Item
    <3> QED
      BY <3>1, <3>2, <3>3, <3>4, <3>5, BlockNullAssumption
  <2>3. Reviewing(open', queue, now)
    BY <2>1, <2>2 DEF Reviewing
  <2> QED
    BY <2>1, <2>3 DEF OpenSound
<1>11. ASSUME Tick PROVE OpenSound'
  <2>1. UNCHANGED <<queue, open>> /\ now' \in Nat /\ now <= now'
    BY <1>1, <1>11 DEF Tick
  <2>2. ASSUME open # Null PROVE Reviewing(open, queue, now')
    <3>1. Reviewing(open, queue, now) /\ open.failedAt \in Nat \cup {Null} /\ open.task \in Kps
      BY <1>1, <2>2 DEF OpenSound, Session
    <3>2. queue[open.task]["MISCONCEPTION"].last \in Nat \cup {Null}
      BY <1>1, <3>1 DEF Item, Sources
    <3>3. \A t \in Nat : Tomorrow(t) \in Nat
      BY DayFacts
    <3> QED
      BY <1>1, <2>1, <3>1, <3>2, <3>3 DEF Reviewing
  <2> QED
    BY <2>1, <2>2 DEF OpenSound
<1> QED
  BY <1>2, <1>4, <1>5, <1>6, <1>7, <1>8, <1>9, <1>10, <1>11 DEF Next

\* A replan tells the parent what it does, and later plans have later preferences.
LEMMA PromiseStep ==
    ASSUME TypeInv, Promised, [Next]_vars
    PROVE  Promised'
<1> DEFINE told == promise["200"]
<1>1. /\ prefs.rev \in Nat /\ told.rev \in Nat /\ told.from \in Nat
      /\ plan \in [Days -> Plan] /\ \A d \in Days : d \in Nat
      /\ \A d \in Days : plan[d].rev \in Nat
  <2>1. \A d \in Days : d \in Nat
    BY DEF Days
  <2>2. told \in Promise /\ prefs.rev \in Nat
    BY HorizonAssumption DEF TypeInv, TypeOK, Answers
  <2>3. told.rev \in Nat /\ told.from \in Days
    BY <2>2, HorizonAssumption DEF Promise
  <2>4. plan \in [Days -> Plan]
    BY DEF TypeInv, TypeOK
  <2>5. \A d \in Days : plan[d].rev \in Nat
    BY <2>4 DEF Plan
  <2> QED
    BY <2>1, <2>2, <2>3, <2>4, <2>5
<1>2. told.rev <= prefs.rev
      /\ \A d \in Days : d >= told.from /\ plan[d].current => plan[d].rev >= told.rev
  BY DEF Promised, PreferencesTakeEffect, Applied
<1>3. ASSUME NEW c \in Calls, Ensure(c) PROVE Promised'
  <2>1. Planned /\ UNCHANGED <<prefs, promise>>
    BY <1>3, EnsurePlans DEF Ensure
  <2>2. ASSUME NEW d \in Days, d >= told.from, plan'[d].current
        PROVE  plan'[d].rev >= told.rev
    BY <1>1, <1>2, <2>1, <2>2 DEF Planned, NewPlan, GonePlan, NoPlan
  <2> QED
    BY <1>2, <2>1, <2>2 DEF Promised, PreferencesTakeEffect, Applied
<1>4. ASSUME NEW c \in Calls, Replan(c) PROVE Promised'
  <2>1. /\ promise'["200"] = [from |-> AppliesFrom(c), rev |-> prefs.rev] /\ UNCHANGED prefs
        /\ \A d \in Days : d >= AppliesFrom(c) => NewPlan(d) \/ ~plan'[d].current
    BY <1>4, AnsweredFacts, ReplanPlans DEF Replan, Answered, Answers
  <2> QED
    BY <1>1, <2>1 DEF Promised, PreferencesTakeEffect, Applied, NewPlan
<1>5. ASSUME NEW c \in Calls, AskToday(c) \/ FailCall(c) PROVE Promised'
  BY <1>5 DEF AskToday, FailCall, Promised, PreferencesTakeEffect, Applied
<1>6. ASSUME prefs'.rev = prefs.rev + 1, UNCHANGED <<plan, promise>> PROVE Promised'
  BY <1>1, <1>6 DEF Promised, PreferencesTakeEffect, Applied
<1>7. ASSUME NEW c \in Calls, SavePreferences(c) PROVE Promised'
  BY <1>6, <1>7 DEF SavePreferences
<1>8. ASSUME Intervene PROVE Promised'
  BY <1>6, <1>8 DEF Intervene
<1>9. ASSUME WrongAnswer \/ AnswerReturns \/ Tick \/ UNCHANGED vars PROVE Promised'
  BY <1>9 DEF WrongAnswer, AnswerReturns, Tick, vars, Promised, PreferencesTakeEffect, Applied
<1>10. ASSUME NEW c \in Calls, AnswerCompletes(c) PROVE Promised'
  BY <1>2, <1>10, SettledFacts DEF AnswerCompletes, Promised, PreferencesTakeEffect, Applied
<1>11. ASSUME Abandon PROVE Promised'
  BY <1>2, <1>11, SettledFacts DEF Abandon, Promised, PreferencesTakeEffect, Applied
<1>12. ASSUME NEW k \in Kps, Start(k) PROVE Promised'
  BY <1>1, <1>2, <1>12 DEF Start, Promised, PreferencesTakeEffect, Applied, Plan
<1>13. ASSUME NEW c \in Calls, ReplanUnavailable(c) PROVE Promised'
  <2>1. promise'["200"] = promise["200"] /\ UNCHANGED <<prefs, plan>>
    BY <1>13, AnsweredFacts DEF ReplanUnavailable, Answered, Answers
  <2> QED
    BY <2>1 DEF Promised, PreferencesTakeEffect, Applied
<1> QED
  BY <1>3, <1>4, <1>5, <1>7, <1>8, <1>9, <1>10, <1>11, <1>12, <1>13 DEF Next

-----------------------------------------------------------------------------
(* The theorems.                                                           *)

\* No plan, call or session at first: the items left by earlier days are not closed yet.
LEMMA ReviewInit == Init => ReviewInv
<1> SUFFICES ASSUME Init PROVE ReviewInv
  OBVIOUS
<1>1. StartedByNow /\ BlocksBound /\ OpenSound
  BY DEF Init, StartedByNow, BlocksBound, OpenSound, NoPlan
<1>2. ItemsSpaced
  BY DEF Init, ItemsSpaced, SpacedItem, Absent, Sources
<1>3. Promised
  BY DEF Init, Promised, PreferencesTakeEffect, Applied, Answers, NoPlan
<1> QED
  BY <1>1, <1>2, <1>3 DEF ReviewInv

\* Every step keeps ReviewInv, so that it holds of every behaviour.
LEMMA ReviewInvariant == Spec => []ReviewInv
<1>1. TypeInv /\ ReviewInv /\ [Next]_vars => ReviewInv'
  BY StartedStep, BlocksStep, OpenStep, PromiseStep DEF ReviewInv
<1> QED
  BY <1>1, ReviewInit, TypeInvariant, PTL DEF Spec

\* OpenReviewCanFinish: resolveSuccessfulReview finds the item of an open review session
\* PENDING; no other block, upsert or replan closes it meanwhile.
THEOREM OpenReviewCanFinishHolds == Spec => []OpenReviewCanFinish
<1>1. ReviewInv => OpenReviewCanFinish
  BY DEF ReviewInv, OpenSound, Reviewing, OpenReviewCanFinish, StillPending
<1> QED
  BY <1>1, ReviewInvariant, PTL

\* DueByPlanDay: an item that a review block of a current plan is bound to, while it is
\* pending, falls due on the day of that plan or before.
THEOREM DueByPlanDayHolds == Spec => []DueByPlanDay
<1>1. ReviewInv => DueByPlanDay
  BY BlockNullAssumption DEF ReviewInv, BlocksBound, Bound, DueByPlanDay, StillPending
<1> QED
  BY <1>1, ReviewInvariant, PTL

\* SpacedReviews: a misconception is in review only a day after the evidence that closed
\* its last review, for every interval of at least a day.
THEOREM SpacedReviewsHolds == Spec => []SpacedReviews
<1>1. TypeInv /\ ReviewInv => SpacedReviews
  BY DEF ReviewInv, OpenSound, Reviewing, SpacedReviews
<1> QED
  BY <1>1, TypeInvariant, ReviewInvariant, PTL

\* PreferencesTakeEffect: from the date that the latest successful replan named, no
\* current plan is older than the preferences it was made for, whatever replans are
\* rolled back later.  An answer 422 names a date too and is not kept: AppliesFromKept.
THEOREM PreferencesTakeEffectHolds == Spec => []PreferencesTakeEffect
<1>1. ReviewInv => PreferencesTakeEffect
  BY DEF ReviewInv, Promised
<1> QED
  BY <1>1, ReviewInvariant, PTL

\* A step that takes a started plan away is a replan that took its time before midnight.
LEMMA HistoryStep ==
    ASSUME TypeInv, StartedByNow, [Next]_vars, NEW d \in Days,
           plan[d].current, plan[d].started,
           ~(plan'[d].current /\ plan'[d].gen = plan[d].gen)
    PROVE  \E c \in Calls : call[c] # Null /\ call'[c] = Null /\ Day(call[c].asOf) < Day(now)
<1>1. /\ plan \in [Days -> Plan] /\ call \in [Calls -> Call \cup {Null}]
      /\ \A e \in Days : e \in Nat
  BY DEF TypeInv, TypeOK, Days
<1>2. plan'[d] # plan[d]
  OBVIOUS
<1>3. ASSUME NEW c \in Calls, Replan(c)
      PROVE  call[c] # Null /\ call'[c] = Null /\ Day(call[c].asOf) < Day(now)
  <2>1. call[c] # Null /\ call'[c] = Null
    BY <1>1, <1>3 DEF Replan, Answered
  <2>2. PICK date \in Days : date = Day(call[c].asOf)
    BY <2>1, CallFacts
  <2>3. /\ AppliesFrom(c) \in {date, date + 1} /\ AppliesFrom(c) \in Days
        /\ Preserved(date) => AppliesFrom(c) = date + 1
    BY <1>3, <2>2, AnsweredFacts DEF Replan
  <2>4. d >= AppliesFrom(c)
    BY <1>1, <1>2, <1>3, <2>3, ReplanPlans
  <2>5. d # date
    <3>1. d = date => Preserved(date)
      BY DEF Preserved
    <3> QED
      BY <1>1, <2>3, <2>4, <3>1
  <2>6. d <= Day(now)
    BY DEF StartedByNow
  <2>7. Day(now) \in Nat
    <3>1. now \in Nat
      BY HorizonAssumption DEF TypeInv, TypeOK
    <3> QED
      BY <3>1, DayFacts
  <2> QED
    BY <1>1, <2>1, <2>2, <2>3, <2>5, <2>6, <2>7, <2>4
<1>4. ASSUME NEW c \in Calls, Ensure(c) PROVE FALSE
  BY <1>2, <1>4, EnsurePlans
<1>5. ~UNCHANGED plan
  BY <1>2
<1>6. ASSUME open # Null, NEW status \in {"AVAILABLE", "COMPLETED"}, plan' = Settled(status)
      PROVE  FALSE
  BY <1>6, SettledFacts
<1>7. ASSUME NEW k \in Kps, Start(k) PROVE FALSE
  BY <1>1, <1>7 DEF Start, Plan
<1>8. ASSUME NEW c \in Calls, AnswerCompletes(c) PROVE FALSE
  BY <1>6, <1>8 DEF AnswerCompletes
<1>9. ASSUME Abandon PROVE FALSE
  BY <1>6, <1>9 DEF Abandon
<1> QED
  BY <1>3, <1>4, <1>5, <1>7, <1>8, <1>9
     DEF Next, vars, AskToday, FailCall, SavePreferences, ReplanUnavailable, Intervene, WrongAnswer,
         AnswerReturns, Tick

\* HistoryStable: what the student has started is not replanned, except by a replan that
\* took its time on an earlier day.
THEOREM HistoryStableHolds == Spec => HistoryStable
<1> DEFINE Kept == \A d \in Days :
         plan[d].current /\ plan[d].started /\ ~(plan'[d].current /\ plan'[d].gen = plan[d].gen)
            => \E c \in Calls : call[c] # Null /\ call'[c] = Null /\ Day(call[c].asOf) < Day(now)
<1>1. TypeInv /\ ReviewInv /\ [Next]_vars => [Kept]_vars
  BY HistoryStep DEF ReviewInv
<1>2. [][Kept]_vars <=> HistoryStable
  BY DEF HistoryStable
<1> QED
  BY <1>1, <1>2, TypeInvariant, ReviewInvariant, PTL DEF Spec
=============================================================================
