---------------------------- MODULE DailyProofs ----------------------------
(* Theorems about Daily, for every value of its constants. *)
EXTENDS Daily, FiniteSetTheorems, TLAPS

\* What moves money: nothing, or the delivery of a claim that has no receipt, for
\* a player's day that has none, in the day it is judged in.
Issues(i) ==
    /\ Is(i, "daily") /\ Receipts(i) = {} /\ ~Claimed(i)
    /\ intent[i].period = Period(clock)
    /\ Issue(i, clock)

LEMMA ClaimIssues ==
    ASSUME NEW i \in Interaction, Is(i, "daily"), Claim(i)
    PROVE  UNCHANGED ledgerVars \/ Issues(i)
<1>1. /\ Receipts(i) = {}
      /\ IF Verdict(i, clock) = "claimed" THEN Issue(i, clock) ELSE UNCHANGED ledgerVars
      BY DEF Claim, Samples
<1>2. CASE Verdict(i, clock) = "claimed"
  <2>1. intent[i].period = Period(clock) /\ ~Claimed(i)
        BY <1>2 DEF Verdict
  <2>. QED BY <1>1, <1>2, <2>1 DEF Issues
<1>. QED BY <1>1, <1>2

LEMMA IssueStep ==
    ASSUME [Next]_vars
    PROVE  UNCHANGED ledgerVars \/ \E i \in Interaction : Issues(i)
<1>1. ASSUME NEW i \in Interaction, Deliver(i)
      PROVE  UNCHANGED ledgerVars \/ Issues(i)
  <2>1. ReplayRow(i) \/ Join(i) \/ ReplayReceipt(i) => UNCHANGED ledgerVars
        BY DEF ReplayRow, Join, ReplayReceipt
  <2>. QED BY <1>1, <2>1, ClaimIssues DEF Deliver
<1>2. \A i, command, p : Press(i, command, p) => UNCHANGED ledgerVars
      BY DEF Press
<1>3. \A p : Switch(p) => UNCHANGED ledgerVars
      BY DEF Switch
<1>4. Cleanup \/ Tick \/ UNCHANGED vars => UNCHANGED ledgerVars
      BY DEF Cleanup, Tick, vars
<1>. QED BY <1>1, <1>2, <1>3, <1>4 DEF Next

\* A new receipt is the first of its interaction and of the player's day.
LEMMA StepAdds ==
    ASSUME [Next]_vars, claims' # claims
    PROVE  \E i \in Interaction : \E n :
              /\ claims' = claims \cup {n}
              /\ n.player = intent[i].actor /\ n.period = intent[i].period /\ n.interaction = i
              /\ Receipts(i) = {} /\ ~Claimed(i)
              /\ intent[i].period = Period(clock)
<1>1. PICK i \in Interaction : Issues(i)
      BY IssueStep DEF ledgerVars
<1>. DEFINE n == [player |-> intent[i].actor, period |-> intent[i].period, interaction |-> i,
                  at |-> clock, after |-> wallet[intent[i].actor] + Reward]
<1>2. claims' = claims \cup {n}
      BY <1>1 DEF Issues, Issue
<1>3. n.player = intent[i].actor /\ n.period = intent[i].period /\ n.interaction = i
      OBVIOUS
<1>. HIDE DEF n
<1>. QED BY <1>1, <1>2, <1>3 DEF Issues

\* One reward per player and UTC day and one per interaction: find and request,
\* read in the transaction that issues, suffice, whatever cleanup, repeated
\* deliveries and a clock that is set back do.
THEOREM OneReward == Spec => []OneRewardPerDay
<1>1. Init => OneRewardPerDay
      BY DEF Init, OneRewardPerDay
<1>2. OneRewardPerDay /\ [Next]_vars => OneRewardPerDay'
  <2>. SUFFICES ASSUME OneRewardPerDay, [Next]_vars
                PROVE  OneRewardPerDay'
       OBVIOUS
  <2>1. CASE claims' = claims
        BY <2>1 DEF OneRewardPerDay
  <2>2. CASE claims' # claims
    <3>1. PICK i \in Interaction, n \in claims' :
                   /\ claims' = claims \cup {n}
                   /\ n.player = intent[i].actor /\ n.period = intent[i].period
                   /\ n.interaction = i
                   /\ Receipts(i) = {} /\ ~Claimed(i)
          BY <2>2, StepAdds
    <3>2. ASSUME NEW c \in claims
          PROVE  ~(c.player = n.player /\ c.period = n.period) /\ c.interaction # n.interaction
          BY <3>1 DEF Receipts, Claimed
    <3>. QED BY <3>1, <3>2 DEF OneRewardPerDay
  <2>. QED BY <2>1, <2>2
<1>. QED BY <1>1, <1>2, PTL DEF Spec

\* A reward is credited in the UTC day in which it was asked for.
THEOREM Credited == Spec => CreditedInItsDay
<1>1. ASSUME [Next]_vars
      PROVE  \A c \in claims' \ claims :
                c.period = intent[c.interaction].period /\ c.period = Period(clock)
  <2>. SUFFICES ASSUME NEW c \in claims' \ claims
                PROVE  c.period = intent[c.interaction].period /\ c.period = Period(clock)
       OBVIOUS
  <2>1. claims' # claims
        OBVIOUS
  <2>. QED BY <1>1, <2>1, StepAdds
<1>. QED BY <1>1, PTL DEF Spec, CreditedInItsDay

-----------------------------------------------------------------------------
(* Daily implements ExactlyOnce, when the clock moves forward and an outcome *)
(* is kept for a day or longer.                                              *)

LEMMA PeriodBounds ==
    ASSUME NEW t \in Nat
    PROVE  Period(t) \in Nat /\ Day * Period(t) <= t /\ t < Day * (Period(t) + 1)
BY DayAssumption DEF Period

LEMMA PeriodMonotone ==
    ASSUME NEW s \in Nat, NEW t \in Nat, s <= t
    PROVE  Period(s) <= Period(t)
<1>1. ASSUME Period(t) + 1 <= Period(s) PROVE FALSE
  <2>1. Day * (Period(t) + 1) <= Day * Period(s)
        BY <1>1, PeriodBounds, DayAssumption
  <2>. QED BY <2>1, PeriodBounds, DayAssumption
<1>. QED BY <1>1, PeriodBounds

\* A day later it is another day.
LEMMA PeriodPasses ==
    ASSUME NEW s \in Nat, NEW t \in Nat, s + Day <= t
    PROVE  Period(s) < Period(t)
<1>1. ASSUME Period(t) <= Period(s) PROVE FALSE
  <2>1. Day * (Period(t) + 1) <= Day * (Period(s) + 1)
        BY <1>1, PeriodBounds, DayAssumption
  <2>2. Day * (Period(s) + 1) = Day * Period(s) + Day
        BY PeriodBounds, DayAssumption
  <2>. QED BY <2>1, <2>2, PeriodBounds, DayAssumption
<1>. QED BY <1>1, PeriodBounds

Typed ==
    /\ clock \in Nat
    /\ rows \in [Interaction -> Row \cup {NoRow}]
    /\ intent \in [Interaction -> Intent \cup {NoIntent}]
    /\ wallet \in [Player -> Nat]
    /\ told \subseteq [request : Interaction, outcome : Outcome]
    /\ \A c \in claims : c.after \in Nat

\* Nothing is known of an interaction that does not exist, and none is of a day to come.
IntentsFirst ==
    \A i \in Interaction :
        /\ Receipts(i) # {} => Is(i, "daily")
        /\ Stored(i) => intent[i] # NoIntent
        /\ intent[i] # NoIntent => intent[i].period <= Period(clock)

\* A row of a claim says whether there is a receipt, and outlives its day.
RowsTrue ==
    \A i \in Interaction : Stored(i) /\ Is(i, "daily") =>
        /\ (rows[i].outcome.status = "claimed") <=> (Receipts(i) # {})
        /\ intent[i].period < Period(rows[i].retain)

\* So is an answer true, and a refusal either stored or of a day that is over.
AnswersTrue ==
    \A a \in told :
        /\ intent[a.request] # NoIntent
        /\ Is(a.request, "daily") =>
            IF a.outcome.status = "claimed" THEN Receipts(a.request) # {}
            ELSE /\ Receipts(a.request) = {}
                 /\ Stored(a.request) \/ intent[a.request].period < Period(clock)

PromiseInv == Typed /\ IntentsFirst /\ RowsTrue /\ AnswersTrue

\* The clock moves forward, and an outcome is kept for a day or longer.
Deployment == ClockSteps \subseteq Nat /\ Day <= Retention

LEMMA PromiseInit == Init => PromiseInv
BY BoundAssumption DEF Init, PromiseInv, Typed, IntentsFirst, RowsTrue, AnswersTrue,
   Receipts, Stored, Is

\* What an answer adds.
LEMMA AnswerAdds ==
    ASSUME NEW i \in Interaction, NEW outcome \in Outcome, Answer(i, outcome),
           told \subseteq [request : Interaction, outcome : Outcome]
    PROVE  /\ told' \subseteq [request : Interaction, outcome : Outcome]
           /\ \A a \in told' : a \in told \/ (a.request = i /\ a.outcome = outcome)
BY DEF Answer

\* The claim is judged by the present instant.
LEMMA ClaimJudges ==
    ASSUME NEW i \in Interaction, Claim(i), Typed, intent[i] # NoIntent
    PROVE  \E outcome \in Outcome :
        /\ Receipts(i) = {} /\ ~Stored(i)
        /\ Store(i, outcome, clock) /\ Answer(i, outcome)
        /\ \/ /\ outcome.status = "claimed"
              /\ outcome.balance = wallet[intent[i].actor] + Reward
              /\ intent[i].period = Period(clock)
              /\ Issue(i, clock)
           \/ outcome.status # "claimed" /\ UNCHANGED ledgerVars
        /\ UNCHANGED <<clock, intent>>
<1>. DEFINE verdict == Verdict(i, clock)
            outcome == IF verdict = "claimed"
                       THEN [status |-> verdict, balance |-> wallet[intent[i].actor] + Reward]
                       ELSE Rejection(verdict)
<1>1. /\ Receipts(i) = {} /\ ~Stored(i)
      /\ Store(i, outcome, clock) /\ Answer(i, outcome)
      /\ IF verdict = "claimed" THEN Issue(i, clock) ELSE UNCHANGED ledgerVars
      /\ UNCHANGED <<clock, intent>>
      BY DEF Claim, Samples
<1>2. verdict \in Statuses
      BY DEF Verdict, Statuses
<1>3. wallet[intent[i].actor] + Reward \in Nat
      BY DayAssumption DEF Typed, Intent
<1>4. outcome \in Outcome /\ (outcome.status = verdict)
      BY <1>2, <1>3 DEF Outcome, Rejection
<1>5. verdict = "claimed" => intent[i].period = Period(clock)
      BY DEF Verdict
<1>6. verdict = "claimed" => outcome.balance = wallet[intent[i].actor] + Reward
      OBVIOUS
<1>. HIDE DEF verdict, outcome
<1>. QED BY <1>1, <1>4, <1>5, <1>6

LEMMA TypedStep ==
    ASSUME Typed, [Next]_vars
    PROVE  Typed'
<1>1. ASSUME NEW i \in Interaction, NEW command \in {"join", "daily"}, NEW p \in Player,
             Press(i, command, p)
      PROVE  Typed'
  <2>1. [command |-> command, actor |-> p, period |-> Period(clock)] \in Intent
        BY PeriodBounds DEF Typed, Intent
  <2>. QED BY <1>1, <2>1 DEF Press, Typed, ledgerVars
<1>2. ASSUME NEW i \in Interaction, Deliver(i)
      PROVE  Typed'
  <2>1. CASE ReplayRow(i)
    <3>1. rows[i].outcome \in Outcome
          BY <2>1, NoneAssumption DEF ReplayRow, Stored, Typed, Row
    <3>. QED BY <2>1, <3>1, AnswerAdds DEF ReplayRow, Typed, ledgerVars
  <2>2. CASE Join(i)
    <3>1. Rejection(JoinVerdict(intent[i].actor)) \in Outcome
          BY DEF Rejection, JoinVerdict, Outcome, Statuses
    <3>2. \A now \in Arrivals : now + Retention \in Nat
          BY RetentionAssumption DEF Arrivals
    <3>3. rows' \in [Interaction -> Row \cup {NoRow}]
          BY <2>2, <3>1, <3>2 DEF Join, Store, Typed, Row
    <3>. QED BY <2>2, <3>1, <3>3, AnswerAdds DEF Join, Typed, ledgerVars
  <2>3. CASE ReplayReceipt(i)
    <3>1. PICK c \in Receipts(i) : Answer(i, [status |-> "claimed", balance |-> c.after])
          BY <2>3 DEF ReplayReceipt
    <3>2. [status |-> "claimed", balance |-> c.after] \in Outcome
          BY DEF Typed, Receipts, Outcome, Statuses
    <3>. QED BY <2>3, <3>1, <3>2, AnswerAdds DEF ReplayReceipt, Typed, ledgerVars
  <2>4. CASE Is(i, "daily") /\ Claim(i)
    <3>1. PICK outcome \in Outcome :
            /\ Store(i, outcome, clock) /\ Answer(i, outcome)
            /\ Issue(i, clock) \/ UNCHANGED ledgerVars
            /\ UNCHANGED <<clock, intent>>
          BY <2>4, ClaimJudges DEF Is
    <3>2. clock + Retention \in Nat
          BY RetentionAssumption DEF Typed
    <3>3. rows' \in [Interaction -> Row \cup {NoRow}]
          BY <3>1, <3>2 DEF Store, Typed, Row
    <3>4. intent[i] \in Intent
          BY <2>4 DEF Is, Typed
    <3>5. wallet[intent[i].actor] + Reward \in Nat
          BY <3>4, DayAssumption DEF Typed, Intent
    <3>6. wallet' \in [Player -> Nat] /\ \A c \in claims' : c.after \in Nat
      <4>1. CASE Issue(i, clock)
            BY <4>1, <3>4, <3>5 DEF Issue, Typed, Intent
      <4>2. CASE UNCHANGED ledgerVars
            BY <4>2 DEF ledgerVars, Typed
      <4>. QED BY <3>1, <4>1, <4>2
    <3>. QED BY <3>1, <3>3, <3>6, AnswerAdds DEF Typed
  <2>. QED BY <1>2, <2>1, <2>2, <2>3, <2>4 DEF Deliver
<1>3. CASE Cleanup
      BY <1>3 DEF Cleanup, DeleteExpired, Typed, ledgerVars
<1>4. ASSUME NEW p \in Player, Switch(p)
      PROVE  Typed'
      BY <1>4 DEF Switch, Typed, ledgerVars
<1>5. CASE Tick
      BY <1>5, BoundAssumption DEF Tick, Typed, ledgerVars
<1>6. CASE UNCHANGED vars
      BY <1>6 DEF vars, ledgerVars, Typed
<1>. QED BY <1>1, <1>2, <1>3, <1>4, <1>5, <1>6 DEF Next

\* The rest of the invariant, one conjunct at a time where a step disturbs it.
LEMMA PressKeeps ==
    ASSUME PromiseInv, NEW i \in Interaction, NEW command \in {"join", "daily"},
           NEW p \in Player, Press(i, command, p)
    PROVE  IntentsFirst' /\ RowsTrue' /\ AnswersTrue'
<1>1. [command |-> command, actor |-> p, period |-> Period(clock)] \in Intent
      BY PeriodBounds DEF PromiseInv, Typed, Intent
<1>2. /\ intent[i] = NoIntent /\ intent'[i] # NoIntent
      /\ intent'[i].period = Period(clock)
      /\ \A j \in Interaction \ {i} : intent'[j] = intent[j]
      /\ UNCHANGED <<rows, clock, claims, told>>
      BY <1>1, NoneAssumption DEF Press, ledgerVars, PromiseInv, Typed
<1>3. ~Stored(i) /\ Receipts(i) = {} /\ \A a \in told : a.request # i
      BY <1>2 DEF PromiseInv, IntentsFirst, AnswersTrue, Is
<1>4. \A j \in Interaction : (Stored(j)' <=> Stored(j)) /\ Receipts(j)' = Receipts(j)
      BY <1>2 DEF Stored, Receipts
<1>5. \A j \in Interaction \ {i} : Is(j, "daily")' <=> Is(j, "daily")
      BY <1>2 DEF Is
<1>6. \A a \in told : a.request \in Interaction \ {i}
      BY <1>3 DEF PromiseInv, Typed
<1>7. Period(clock)' = Period(clock) /\ Period(clock) \in Nat
      BY <1>2, PeriodBounds DEF Period, PromiseInv, Typed
<1>8. IntentsFirst'
      BY <1>2, <1>3, <1>4, <1>5, <1>7 DEF PromiseInv, IntentsFirst
<1>9. RowsTrue'
  <2>. SUFFICES ASSUME NEW j \in Interaction, Stored(j)', Is(j, "daily")'
                PROVE  /\ (rows'[j].outcome.status = "claimed") <=> (Receipts(j)' # {})
                       /\ intent'[j].period < Period(rows[j].retain)'
       BY DEF RowsTrue
  <2>1. j # i
        BY <1>3, <1>4
  <2>. QED BY <2>1, <1>2, <1>4, <1>5 DEF PromiseInv, RowsTrue, Period
<1>10. AnswersTrue'
       BY <1>2, <1>4, <1>5, <1>6, <1>7 DEF PromiseInv, AnswersTrue
<1>. QED BY <1>8, <1>9, <1>10

\* A step that leaves rows and receipts alone and may repeat what a row or a
\* receipt says.
LEMMA RepeatKeeps ==
    ASSUME PromiseInv, NEW i \in Interaction, NEW outcome \in Outcome,
           Answer(i, outcome), UNCHANGED <<rows, clock, intent, claims>>, intent[i] # NoIntent,
           Is(i, "daily") => IF outcome.status = "claimed" THEN Receipts(i) # {}
                             ELSE Receipts(i) = {} /\ Stored(i)
    PROVE  IntentsFirst' /\ RowsTrue' /\ AnswersTrue'
<1>1. \A j \in Interaction : /\ Stored(j)' <=> Stored(j)
                             /\ Receipts(j)' = Receipts(j)
                             /\ Is(j, "daily")' <=> Is(j, "daily")
      BY DEF Stored, Receipts, Is
<1>2. \A a \in told' : a \in told \/ (a.request = i /\ a.outcome = outcome)
      BY AnswerAdds DEF PromiseInv, Typed
<1>3. IntentsFirst' /\ RowsTrue'
      BY <1>1 DEF PromiseInv, IntentsFirst, RowsTrue, Period
<1>4. AnswersTrue'
  <2>. SUFFICES ASSUME NEW a \in told'
                PROVE  /\ intent[a.request] # NoIntent
                       /\ Is(a.request, "daily") =>
                            IF a.outcome.status = "claimed" THEN Receipts(a.request) # {}
                            ELSE /\ Receipts(a.request) = {}
                                 /\ Stored(a.request) \/ intent[a.request].period < Period(clock)
       BY <1>1, <1>2 DEF AnswersTrue, Period, PromiseInv, Typed
  <2>1. CASE a \in told
        BY <2>1 DEF PromiseInv, AnswersTrue
  <2>2. CASE a.request = i /\ a.outcome = outcome
        BY <2>2
  <2>. QED BY <1>2, <2>1, <2>2
<1>. QED BY <1>3, <1>4

LEMMA JoinKeeps ==
    ASSUME PromiseInv, NEW i \in Interaction, Is(i, "join"), Join(i), Typed'
    PROVE  IntentsFirst' /\ RowsTrue' /\ AnswersTrue'
<1>1. ~Is(i, "daily") /\ intent[i] # NoIntent
      BY DEF Is
<1>2. /\ \A j \in Interaction \ {i} : rows'[j] = rows[j]
      /\ UNCHANGED <<clock, intent, claims>>
      /\ Answer(i, Rejection(JoinVerdict(intent[i].actor)))
      BY DEF Join, Store, ledgerVars, PromiseInv, Typed
<1>3. Rejection(JoinVerdict(intent[i].actor)) \in Outcome
      BY DEF Rejection, JoinVerdict, Outcome, Statuses
<1>4. \A j \in Interaction : /\ Receipts(j)' = Receipts(j)
                             /\ Is(j, "daily")' <=> Is(j, "daily")
                             /\ j # i => (Stored(j)' <=> Stored(j))
      BY <1>2 DEF Stored, Receipts, Is
<1>5. \A a \in told' : a \in told \/ a.request = i
      BY <1>2, <1>3, AnswerAdds DEF PromiseInv, Typed
<1>6. IntentsFirst'
      BY <1>1, <1>2, <1>4 DEF PromiseInv, IntentsFirst, Period
<1>7. RowsTrue'
      BY <1>1, <1>2, <1>4 DEF PromiseInv, RowsTrue, Period
<1>8. AnswersTrue'
  <2>. SUFFICES ASSUME NEW a \in told'
                PROVE  /\ intent[a.request] # NoIntent
                       /\ Is(a.request, "daily") =>
                            IF a.outcome.status = "claimed" THEN Receipts(a.request) # {}
                            ELSE /\ Receipts(a.request) = {}
                                 /\ Stored(a.request)' \/ intent[a.request].period < Period(clock)
       BY <1>2, <1>4 DEF AnswersTrue, Period, Typed
  <2>1. CASE a.request # i
    <3>1. a \in told /\ a.request \in Interaction
          BY <2>1, <1>5 DEF PromiseInv, Typed
    <3>. QED BY <2>1, <3>1, <1>4 DEF PromiseInv, AnswersTrue
  <2>2. CASE a.request = i
        BY <2>2, <1>1
  <2>. QED BY <2>1, <2>2
<1>. QED BY <1>6, <1>7, <1>8

LEMMA ClaimKeeps ==
    ASSUME PromiseInv, Deployment, NEW i \in Interaction, Is(i, "daily"), Claim(i), Typed'
    PROVE  IntentsFirst' /\ RowsTrue' /\ AnswersTrue'
<1>1. PICK outcome \in Outcome :
        /\ Receipts(i) = {} /\ ~Stored(i)
        /\ Store(i, outcome, clock) /\ Answer(i, outcome)
        /\ \/ /\ outcome.status = "claimed"
              /\ intent[i].period = Period(clock)
              /\ Issue(i, clock)
           \/ outcome.status # "claimed" /\ UNCHANGED ledgerVars
        /\ UNCHANGED <<clock, intent>>
      BY ClaimJudges DEF Is, PromiseInv
<1>2. intent[i] \in Intent /\ intent[i].period \in Nat /\ intent[i].period <= Period(clock)
      BY DEF Is, PromiseInv, Typed, IntentsFirst, Intent
<1>3. clock \in Nat /\ clock + Retention \in Nat /\ clock + Day <= clock + Retention
      BY RetentionAssumption, DayAssumption DEF PromiseInv, Typed, Deployment
<1>4. intent[i].period < Period(clock + Retention)
      BY <1>2, <1>3, PeriodPasses, PeriodBounds
<1>5. /\ rows'[i] = [outcome |-> outcome, retain |-> clock + Retention]
      /\ \A j \in Interaction \ {i} : rows'[j] = rows[j]
      BY <1>1 DEF Store, PromiseInv, Typed
<1>6. [outcome |-> outcome, retain |-> clock + Retention] \in Row
      BY <1>3 DEF Row
<1>7. Stored(i)' /\ \A j \in Interaction \ {i} : Stored(j)' <=> Stored(j)
      BY <1>5, <1>6, NoneAssumption DEF Stored
<1>8. \A j \in Interaction \ {i} : Receipts(j)' = Receipts(j)
      BY <1>1 DEF Receipts, Issue, ledgerVars
<1>9. IF outcome.status = "claimed" THEN Receipts(i)' # {} ELSE Receipts(i)' = {}
  <2>1. CASE outcome.status = "claimed"
    <3>. DEFINE n == [player |-> intent[i].actor, period |-> intent[i].period,
                      interaction |-> i, at |-> clock,
                      after |-> wallet[intent[i].actor] + Reward]
    <3>1. n \in claims' /\ n.interaction = i
          BY <1>1, <2>1 DEF Issue
    <3>. HIDE DEF n
    <3>. QED BY <2>1, <3>1 DEF Receipts
  <2>2. CASE outcome.status # "claimed"
        BY <1>1, <2>2 DEF Receipts, ledgerVars
  <2>. QED BY <2>1, <2>2
<1>10. /\ \A j \in Interaction : Is(j, "daily")' <=> Is(j, "daily")
       /\ Period(clock)' = Period(clock)
       BY <1>1 DEF Is, Period
<1>11. IntentsFirst'
       BY <1>1, <1>7, <1>8, <1>10 DEF PromiseInv, IntentsFirst, Is
<1>12. RowsTrue'
  <2>. SUFFICES ASSUME NEW j \in Interaction, Stored(j)', Is(j, "daily")
                PROVE  /\ (rows'[j].outcome.status = "claimed") <=> (Receipts(j)' # {})
                       /\ intent[j].period < Period(rows'[j].retain)
       BY <1>1, <1>10 DEF RowsTrue, Period
  <2>1. CASE j = i
        BY <2>1, <1>4, <1>5, <1>9
  <2>2. CASE j # i
        BY <2>2, <1>5, <1>7, <1>8 DEF PromiseInv, RowsTrue
  <2>. QED BY <2>1, <2>2
<1>13. AnswersTrue'
  <2>. SUFFICES ASSUME NEW a \in told'
                PROVE  /\ intent[a.request] # NoIntent
                       /\ Is(a.request, "daily") =>
                            IF a.outcome.status = "claimed" THEN Receipts(a.request)' # {}
                            ELSE /\ Receipts(a.request)' = {}
                                 /\ Stored(a.request)' \/ intent[a.request].period < Period(clock)
       BY <1>1, <1>10 DEF AnswersTrue, Typed
  <2>1. a \in told \/ (a.request = i /\ a.outcome = outcome)
        BY <1>1, AnswerAdds DEF PromiseInv, Typed
  <2>2. CASE a.request = i /\ a.outcome = outcome
        BY <2>2, <1>7, <1>9 DEF Is
  <2>3. CASE a \in told /\ a.request # i
        BY <2>3, <1>7, <1>8 DEF PromiseInv, AnswersTrue, Typed
  <2>4. CASE a \in told /\ a.request = i
        \* An older refusal: its day is over, so that no reward is issued.
    <3>1. a.outcome.status # "claimed" /\ intent[i].period < Period(clock)
          BY <2>4, <1>1 DEF PromiseInv, AnswersTrue
    <3>2. outcome.status # "claimed"
          BY <3>1, <1>1, <1>2, <1>3, PeriodBounds
    <3>. QED BY <2>4, <3>1, <3>2, <1>2, <1>9 DEF Is
  <2>. QED BY <2>1, <2>2, <2>3, <2>4
<1>. QED BY <1>11, <1>12, <1>13

LEMMA PromiseStep ==
    ASSUME PromiseInv, Deployment, [Next]_vars
    PROVE  PromiseInv'
<1>1. Typed'
      BY TypedStep DEF PromiseInv
<1>. SUFFICES IntentsFirst' /\ RowsTrue' /\ AnswersTrue'
     BY <1>1 DEF PromiseInv
<1>2. ASSUME NEW i \in Interaction, Deliver(i)
      PROVE  IntentsFirst' /\ RowsTrue' /\ AnswersTrue'
  <2>1. intent[i] # NoIntent
        BY <1>2 DEF Deliver, Is
  <2>2. ASSUME ReplayRow(i), Is(i, "daily") => Receipts(i) = {}
        PROVE  IntentsFirst' /\ RowsTrue' /\ AnswersTrue'
    <3>1. /\ Stored(i) /\ Answer(i, rows[i].outcome)
          /\ UNCHANGED <<rows, clock, intent, claims>>
          BY <2>2 DEF ReplayRow, ledgerVars
    <3>2. rows[i].outcome \in Outcome
          BY <3>1, NoneAssumption DEF Stored, PromiseInv, Typed, Row
    <3>3. Is(i, "daily") => rows[i].outcome.status # "claimed"
          BY <2>2, <3>1 DEF PromiseInv, RowsTrue
    <3>. QED BY <2>1, <2>2, <3>1, <3>2, <3>3, RepeatKeeps
  <2>3. CASE Is(i, "join") /\ Join(i)
        BY <1>1, <2>3, JoinKeeps
  <2>4. CASE Is(i, "daily") /\ ReplayReceipt(i)
    <3>1. PICK c \in Receipts(i) : Answer(i, [status |-> "claimed", balance |-> c.after])
          BY <2>4 DEF ReplayReceipt
    <3>2. [status |-> "claimed", balance |-> c.after] \in Outcome
          BY DEF PromiseInv, Typed, Receipts, Outcome, Statuses
    <3>3. UNCHANGED <<rows, clock, intent, claims>>
          BY <2>4 DEF ReplayReceipt, ledgerVars
    <3>. QED BY <2>1, <3>1, <3>2, <3>3, RepeatKeeps
  <2>5. CASE Is(i, "daily") /\ Claim(i)
        BY <1>1, <2>5, ClaimKeeps
  <2>6. Is(i, "join") => ~Is(i, "daily")
        BY DEF Is
  <2>. QED BY <1>2, <2>2, <2>3, <2>4, <2>5, <2>6 DEF Deliver
<1>3. ASSUME NEW i \in Interaction, NEW command \in {"join", "daily"}, NEW p \in Player,
             Press(i, command, p)
      PROVE  IntentsFirst' /\ RowsTrue' /\ AnswersTrue'
      BY <1>3, PressKeeps
<1>4. CASE Cleanup
  <2>1. PICK gone \in SUBSET Expired(clock) :
            rows' = [i \in Interaction |-> IF i \in gone THEN NoRow ELSE rows[i]]
        BY <1>4 DEF Cleanup, DeleteExpired, kSubset
  <2>2. UNCHANGED <<clock, intent, claims, told>>
        BY <1>4 DEF Cleanup, ledgerVars
  <2>3. \A i \in Interaction : /\ Receipts(i)' = Receipts(i)
                               /\ Is(i, "daily")' <=> Is(i, "daily")
                               /\ Stored(i)' <=> Stored(i) /\ i \notin gone
                               /\ Stored(i)' => rows'[i] = rows[i]
        BY <2>1, <2>2 DEF Receipts, Is, Stored
  <2>4. IntentsFirst' /\ RowsTrue'
        BY <2>2, <2>3 DEF PromiseInv, IntentsFirst, RowsTrue, Period
  <2>5. \A i \in Interaction : Stored(i) /\ ~Stored(i)' /\ Is(i, "daily")
            => intent[i].period < Period(clock)
    <3>. SUFFICES ASSUME NEW i \in Interaction, Stored(i), ~Stored(i)', Is(i, "daily")
                  PROVE  intent[i].period < Period(clock)
         OBVIOUS
    <3>1. rows[i] \in Row /\ rows[i].retain <= clock
          BY <2>1, <2>3 DEF Expired, Stored, PromiseInv, Typed
    <3>2. Period(rows[i].retain) <= Period(clock) /\ Period(rows[i].retain) \in Nat
          BY <3>1, PeriodMonotone, PeriodBounds DEF Row, PromiseInv, Typed
    <3>3. intent[i].period \in Nat
          BY DEF Is, PromiseInv, Typed, Intent
    <3>4. intent[i].period < Period(rows[i].retain)
          BY DEF PromiseInv, RowsTrue
    <3>. QED BY <3>2, <3>3, <3>4, PeriodBounds DEF PromiseInv, Typed
  <2>6. AnswersTrue'
        BY <2>2, <2>3, <2>5 DEF PromiseInv, AnswersTrue, Typed, Period
  <2>. QED BY <2>4, <2>6
<1>5. CASE Tick
  <2>1. clock' \in Nat /\ clock <= clock'
        BY <1>5, BoundAssumption DEF Tick, Deployment, PromiseInv, Typed
  <2>2. UNCHANGED <<rows, intent, claims, told>>
        BY <1>5 DEF Tick, ledgerVars
  <2>3. Period(clock) <= Period(clock') /\ Period(clock) \in Nat /\ Period(clock') \in Nat
        BY <2>1, PeriodMonotone, PeriodBounds DEF PromiseInv, Typed
  <2>4. \A i \in Interaction : /\ Receipts(i)' = Receipts(i)
                               /\ Is(i, "daily")' <=> Is(i, "daily")
                               /\ Stored(i)' <=> Stored(i)
        BY <2>2 DEF Receipts, Is, Stored
  <2>5. \A i \in Interaction : intent[i] # NoIntent => intent[i].period \in Nat
        BY DEF PromiseInv, Typed, Intent
  <2>6. Period(clock)' = Period(clock')
        BY DEF Period
  <2>7. IntentsFirst'
        BY <2>2, <2>3, <2>4, <2>5, <2>6 DEF PromiseInv, IntentsFirst
  <2>8. RowsTrue'
        BY <2>2, <2>4 DEF PromiseInv, RowsTrue, Period
  <2>9. AnswersTrue'
        BY <2>2, <2>3, <2>4, <2>5, <2>6 DEF PromiseInv, AnswersTrue, Typed
  <2>. QED BY <2>7, <2>8, <2>9
<1>6. ASSUME UNCHANGED <<rows, clock, intent, claims, told>>
      PROVE  IntentsFirst' /\ RowsTrue' /\ AnswersTrue'
      BY <1>6 DEF PromiseInv, IntentsFirst, RowsTrue, AnswersTrue, Receipts, Stored, Is, Period
<1>7. ASSUME NEW p \in Player, Switch(p)
      PROVE  UNCHANGED <<rows, clock, intent, claims, told>>
      BY <1>7 DEF Switch, ledgerVars
<1>8. CASE UNCHANGED vars
      BY <1>6, <1>8 DEF vars, ledgerVars
<1>. QED BY <1>2, <1>3, <1>4, <1>5, <1>6, <1>7, <1>8 DEF Next

-----------------------------------------------------------------------------
(* Steps of Daily are steps of ExactlyOnce.                                  *)

LEMMA HeardAdds ==
    ASSUME PromiseInv, NEW i \in Interaction, NEW outcome \in Outcome, Answer(i, outcome),
           UNCHANGED intent
    PROVE  IF Is(i, "daily")
           THEN Heard' \in {Heard, Heard \cup {<<i, outcome.status = "claimed">>}}
           ELSE Heard' = Heard
<1>1. \A j : Is(j, "daily")' <=> Is(j, "daily")
      BY DEF Is
<1>2. CASE told' = told
      BY <1>1, <1>2 DEF Heard
<1>3. CASE told' = told \cup {[request |-> i, outcome |-> outcome]}
      BY <1>1, <1>3 DEF Heard
<1>. QED BY <1>2, <1>3 DEF Answer

\* Repeating what is so.
LEMMA AnswerMaps ==
    ASSUME PromiseInv, NEW i \in Interaction, NEW outcome \in Outcome, Answer(i, outcome),
           UNCHANGED <<intent, claims>>,
           Is(i, "daily") => (outcome.status = "claimed" <=> Receipts(i) # {})
    PROVE  [Promise!Next]_(Promise!vars)
<1>1. Applied' = Applied /\ (Receipts(i) # {} <=> i \in Applied)
      BY DEF Applied, Receipts
<1>2. CASE Heard' = Heard
      BY <1>1, <1>2 DEF Promise!vars
<1>3. CASE Is(i, "daily") /\ Heard' = Heard \cup {<<i, outcome.status = "claimed">>}
  <2>1. (outcome.status = "claimed") = (i \in Applied)
        BY <1>1, <1>3
  <2>2. Promise!Answer(i)
        BY <1>1, <1>3, <2>1 DEF Promise!Answer
  <2>. QED BY <2>2 DEF Promise!Next
<1>. QED BY <1>2, <1>3, HeardAdds

LEMMA ClaimMaps ==
    ASSUME PromiseInv, NEW i \in Interaction, Is(i, "daily"), Claim(i)
    PROVE  [Promise!Next]_(Promise!vars)
<1>1. PICK outcome \in Outcome :
        /\ Receipts(i) = {} /\ ~Stored(i)
        /\ Store(i, outcome, clock) /\ Answer(i, outcome)
        /\ \/ /\ outcome.status = "claimed"
              /\ intent[i].period = Period(clock)
              /\ Issue(i, clock)
           \/ outcome.status # "claimed" /\ UNCHANGED ledgerVars
        /\ UNCHANGED <<clock, intent>>
      BY ClaimJudges DEF Is, PromiseInv
<1>2. CASE outcome.status # "claimed"
      BY <1>1, <1>2, AnswerMaps DEF ledgerVars
<1>3. CASE outcome.status = "claimed"
  <2>1. Applied' = Applied \cup {i}
    <3>. DEFINE n == [player |-> intent[i].actor, period |-> intent[i].period,
                      interaction |-> i, at |-> clock,
                      after |-> wallet[intent[i].actor] + Reward]
    <3>1. claims' = claims \cup {n} /\ n.interaction = i
          BY <1>1, <1>3 DEF Issue
    <3>. HIDE DEF n
    <3>. QED BY <3>1 DEF Applied
  <2>2. i \notin Applied
        BY <1>1 DEF Applied, Receipts
  <2>3. <<i, FALSE>> \notin Heard
    <3>. SUFFICES ASSUME NEW a \in told, Is(a.request, "daily"), a.request = i,
                         a.outcome.status # "claimed"
                  PROVE  FALSE
         BY DEF Heard
    <3>1. intent[i].period < Period(clock)
          BY <1>1 DEF PromiseInv, AnswersTrue
    <3>. QED BY <3>1, <1>1, <1>3, PeriodBounds DEF PromiseInv, Typed
  <2>4. Heard' \in {Heard, Heard \cup {<<i, outcome.status = "claimed">>}}
        BY <1>1, HeardAdds
  <2>5. (outcome.status = "claimed") = TRUE
        BY <1>3
  <2>6. Promise!Apply(i)
        BY <2>1, <2>2, <2>3, <2>4, <2>5 DEF Promise!Apply
  <2>. QED BY <2>6 DEF Promise!Next
<1>. QED BY <1>2, <1>3

LEMMA StepMaps ==
    ASSUME PromiseInv, [Next]_vars
    PROVE  [Promise!Next]_(Promise!vars)
<1>1. ASSUME NEW i \in Interaction, Deliver(i)
      PROVE  [Promise!Next]_(Promise!vars)
  <2>1. Is(i, "join") => ~Is(i, "daily")
        BY DEF Is
  <2>2. ASSUME ReplayRow(i), Is(i, "daily") => Receipts(i) = {}
        PROVE  [Promise!Next]_(Promise!vars)
    <3>1. /\ Stored(i) /\ Answer(i, rows[i].outcome) /\ UNCHANGED <<intent, claims>>
          BY <2>2 DEF ReplayRow, ledgerVars
    <3>2. rows[i].outcome \in Outcome
          BY <3>1, NoneAssumption DEF Stored, PromiseInv, Typed, Row
    <3>3. Is(i, "daily") => rows[i].outcome.status # "claimed"
          BY <2>2, <3>1 DEF PromiseInv, RowsTrue
    <3>. QED BY <2>2, <3>1, <3>2, <3>3, AnswerMaps
  <2>3. CASE Is(i, "join") /\ Join(i)
    <3>1. Rejection(JoinVerdict(intent[i].actor)) \in Outcome
          BY DEF Rejection, JoinVerdict, Outcome, Statuses
    <3>. QED BY <2>1, <2>3, <3>1, AnswerMaps DEF Join, ledgerVars
  <2>4. CASE Is(i, "daily") /\ ReplayReceipt(i)
    <3>1. PICK c \in Receipts(i) : Answer(i, [status |-> "claimed", balance |-> c.after])
          BY <2>4 DEF ReplayReceipt
    <3>2. [status |-> "claimed", balance |-> c.after] \in Outcome
          BY DEF PromiseInv, Typed, Receipts, Outcome, Statuses
    <3>. QED BY <2>4, <3>1, <3>2, AnswerMaps DEF ReplayReceipt, ledgerVars
  <2>5. CASE Is(i, "daily") /\ Claim(i)
        BY <2>5, ClaimMaps
  <2>. QED BY <1>1, <2>1, <2>2, <2>3, <2>4, <2>5 DEF Deliver
<1>2. ASSUME NEW i \in Interaction, NEW command \in {"join", "daily"}, NEW p \in Player,
             Press(i, command, p)
      PROVE  UNCHANGED <<Applied, Heard>>
  <2>1. claims' = claims /\ told' = told
        BY <1>2 DEF Press, ledgerVars
  <2>2. \A a \in told : a.request # i /\ a.request \in Interaction
        BY <1>2 DEF Press, PromiseInv, AnswersTrue, Typed
  <2>3. \A j \in Interaction \ {i} : Is(j, "daily")' <=> Is(j, "daily")
        BY <1>2 DEF Press, Is, PromiseInv, Typed
  <2>. QED BY <2>1, <2>2, <2>3 DEF Applied, Heard
<1>3. ASSUME UNCHANGED <<intent, claims, told>>
      PROVE  UNCHANGED <<Applied, Heard>>
      BY <1>3 DEF Applied, Heard, Is
<1>4. CASE Cleanup
      BY <1>3, <1>4 DEF Cleanup, ledgerVars, Promise!vars
<1>5. ASSUME NEW p \in Player, Switch(p)
      PROVE  UNCHANGED <<Applied, Heard>>
      BY <1>3, <1>5 DEF Switch, ledgerVars
<1>6. CASE Tick
      BY <1>3, <1>6 DEF Tick, ledgerVars, Promise!vars
<1>7. CASE UNCHANGED vars
      BY <1>3, <1>7 DEF vars, ledgerVars, Promise!vars
<1>. QED BY <1>1, <1>2, <1>4, <1>5, <1>6, <1>7 DEF Next, Promise!vars

\* The daily claim implements ExactlyOnce: applied at most once, every answer
\* true, a refusal that was heard final, in every deployment that keeps outcomes
\* for a day and whose clock moves forward.
THEOREM Implements ==
    ASSUME Deployment
    PROVE  Spec => KeepsPromise
<1>1. Init => PromiseInv
      BY PromiseInit
<1>2. PromiseInv /\ [Next]_vars => PromiseInv'
      BY PromiseStep
<1>3. Init => Promise!Init
      BY DEF Init, Promise!Init, Applied, Heard
<1>4. PromiseInv /\ [Next]_vars => [Promise!Next]_(Promise!vars)
      BY StepMaps
<1>. QED BY <1>1, <1>2, <1>3, <1>4, PTL DEF Spec, KeepsPromise, Promise!Spec

-----------------------------------------------------------------------------
(* Types *)

LEMMA TypeStep ==
    ASSUME TypeOK, [Next]_vars
    PROVE  TypeOK'
<1>1. Typed
      BY BoundAssumption DEF TypeOK, Typed
<1>2. Typed'
      BY <1>1, TypedStep
<1>3. clock' \in 0..MaxClock
  <2>1. \A i, command, p : Press(i, command, p) \/ Switch(p) => UNCHANGED clock
        BY DEF Press, Switch
  <2>2. \A i : Deliver(i) => UNCHANGED clock
        BY DEF Deliver, ReplayRow, Join, ReplayReceipt, Claim
  <2>3. Cleanup \/ UNCHANGED vars => UNCHANGED clock
        BY DEF Cleanup, vars
  <2>4. Tick => clock' \in 0..MaxClock
        BY DEF Tick
  <2>. QED BY <2>1, <2>2, <2>3, <2>4 DEF Next, TypeOK
<1>4. disabled' \in SUBSET Player
  <2>1. \A i, command, p : Press(i, command, p) => UNCHANGED disabled
        BY DEF Press
  <2>2. \A i : Deliver(i) => UNCHANGED disabled
        BY DEF Deliver, ReplayRow, Join, ReplayReceipt, Claim
  <2>3. Cleanup \/ Tick \/ UNCHANGED vars => UNCHANGED disabled
        BY DEF Cleanup, Tick, vars
  <2>4. \A p \in Player : Switch(p) => disabled' \in SUBSET Player
        BY DEF Switch, TypeOK
  <2>. QED BY <2>1, <2>2, <2>3, <2>4 DEF Next, TypeOK
<1>5. joined' \in SUBSET Player
  <2>1. \A i, command, p : Press(i, command, p) \/ Switch(p) => UNCHANGED joined
        BY DEF Press, Switch
  <2>2. \A i : ReplayRow(i) \/ ReplayReceipt(i) \/ Claim(i) => UNCHANGED joined
        BY DEF ReplayRow, ReplayReceipt, Claim
  <2>3. Cleanup \/ Tick \/ UNCHANGED vars => UNCHANGED joined
        BY DEF Cleanup, Tick, vars
  <2>4. \A i \in Interaction : Is(i, "join") /\ Join(i) => joined' \in SUBSET Player
        BY DEF Is, Join, TypeOK, Intent
  <2>. QED BY <2>1, <2>2, <2>3, <2>4 DEF Next, Deliver, TypeOK
<1>6. /\ claims' \in SUBSET [player : Player, period : Nat, interaction : Interaction,
                             at : 0..MaxClock, after : Nat]
      /\ issuance' \in Int
  <2>1. CASE UNCHANGED ledgerVars
        BY <2>1 DEF ledgerVars, TypeOK
  <2>2. ASSUME NEW i \in Interaction, Issues(i)
        PROVE  /\ claims' \in SUBSET [player : Player, period : Nat, interaction : Interaction,
                                      at : 0..MaxClock, after : Nat]
               /\ issuance' \in Int
    <3>1. intent[i].actor \in Player /\ intent[i].period \in Nat
          BY <2>2 DEF Issues, Is, TypeOK, Intent
    <3>2. wallet[intent[i].actor] + Reward \in Nat
          BY <3>1, DayAssumption DEF TypeOK
    <3>. QED BY <2>2, <3>1, <3>2, DayAssumption DEF Issues, Issue, TypeOK
  <2>. QED BY <2>1, <2>2, IssueStep
<1>. QED BY <1>2, <1>3, <1>4, <1>5, <1>6 DEF Typed, TypeOK

\* Every variable stays in its range, whatever the clock does.
THEOREM Types == Spec => []TypeOK
<1>1. Init => TypeOK
      BY BoundAssumption DEF Init, TypeOK
<1>. QED BY <1>1, TypeStep, PTL DEF Spec

-----------------------------------------------------------------------------
(* What the receipts say of the wallets.                                     *)

Mine(p) == {c \in claims : c.player = p}

RewardsInv ==
    /\ IsFiniteSet(claims)
    /\ RewardsExplained

LEMMA RewardsInit == Init => RewardsInv
<1>. SUFFICES ASSUME Init PROVE RewardsInv
     OBVIOUS
<1>1. claims = {} /\ issuance = 0 /\ \A p \in Player : wallet[p] = 0
      BY DEF Init
<1>2. IsFiniteSet({}) /\ Cardinality({}) = 0
      BY FS_EmptySet
<1>3. Reward * 0 = 0 /\ (-Reward) * 0 = 0 /\ 1..0 = {}
      BY DayAssumption
<1>4. \A p \in Player : Mine(p) = {}
      BY <1>1 DEF Mine
<1>. QED BY <1>1, <1>2, <1>3, <1>4 DEF RewardsInv, RewardsExplained, Mine

\* The multiples of the reward, one more.
LEMMA OneMore ==
    ASSUME NEW n \in Nat
    PROVE  /\ Reward * (n + 1) = Reward * n + Reward /\ Reward * n \in Int
           /\ {Reward * k : k \in 1..(n + 1)} = {Reward * k : k \in 1..n} \cup {Reward * n + Reward}
<1>1. \A a \in Int : a * (n + 1) = a * n + a /\ a * n \in Int
      OBVIOUS
<1>2. Reward * (n + 1) = Reward * n + Reward /\ Reward * n \in Int
      BY <1>1, DayAssumption
<1>3. 1..(n + 1) = (1..n) \cup {n + 1}
      OBVIOUS
<1>. QED BY <1>2, <1>3

LEMMA RewardStep ==
    ASSUME TypeOK, RewardsInv, NEW i \in Interaction, Issues(i)
    PROVE  RewardsInv'
<1>. DEFINE a == intent[i].actor
            n == [player |-> a, period |-> intent[i].period, interaction |-> i,
                  at |-> clock, after |-> wallet[a] + Reward]
<1>1. a \in Player /\ wallet[a] \in Nat
      BY DEF Issues, Is, TypeOK, Intent
<1>2. /\ claims' = claims \cup {n}
      /\ wallet' = [wallet EXCEPT ![a] = @ + Reward]
      /\ issuance' = issuance - Reward
      /\ \A c \in claims : c.interaction # i
      BY DEF Issues, Issue, Receipts
<1>3. n.player = a /\ n.after = wallet[a] + Reward /\ n \notin claims
      BY <1>2
<1>. HIDE DEF n, a
<1>4. IsFiniteSet(claims') /\ Cardinality(claims') = Cardinality(claims) + 1
      BY <1>2, <1>3, FS_AddElement DEF RewardsInv
<1>5. issuance' = -(Reward * Cardinality(claims'))
  <2>1. Cardinality(claims) \in Nat
        BY FS_CardinalityType DEF RewardsInv
  <2>2. issuance = -(Reward * Cardinality(claims))
        BY DEF RewardsInv, RewardsExplained
  <2>3. /\ Reward * (Cardinality(claims) + 1) = Reward * Cardinality(claims) + Reward
        /\ Reward * Cardinality(claims) \in Int
        BY <2>1, OneMore
  <2>. QED BY <1>2, <1>4, <2>2, <2>3, DayAssumption
<1>6. ASSUME NEW p \in Player
      PROVE  /\ wallet'[p] = Reward * Cardinality(Mine(p)')
             /\ {c.after : c \in Mine(p)'} = {Reward * k : k \in 1..Cardinality(Mine(p)')}
  <2>1. /\ IsFiniteSet(Mine(p)) /\ Cardinality(Mine(p)) \in Nat
        /\ wallet[p] = Reward * Cardinality(Mine(p))
        /\ {c.after : c \in Mine(p)} = {Reward * k : k \in 1..Cardinality(Mine(p))}
    <3>1. Mine(p) \subseteq claims
          BY DEF Mine
    <3>2. IsFiniteSet(Mine(p))
          BY <3>1, FS_Subset DEF RewardsInv
    <3>. QED BY <3>2, FS_CardinalityType DEF RewardsInv, RewardsExplained, Mine
  <2>2. CASE p = a
    <3>1. Mine(p)' = Mine(p) \cup {n} /\ n \notin Mine(p)
          BY <1>2, <1>3, <2>2 DEF Mine
    <3>2. Cardinality(Mine(p)') = Cardinality(Mine(p)) + 1
          BY <2>1, <3>1, FS_AddElement
    <3>3. wallet'[p] = wallet[p] + Reward
          BY <1>2, <2>2 DEF TypeOK
    <3>4. {c.after : c \in Mine(p)'} = {c.after : c \in Mine(p)} \cup {wallet[p] + Reward}
          BY <1>3, <2>2, <3>1
    <3>. QED BY <2>1, <3>2, <3>3, <3>4, OneMore
  <2>3. CASE p # a
    <3>1. Mine(p)' = Mine(p)
          BY <1>2, <1>3, <2>3 DEF Mine
    <3>2. wallet'[p] = wallet[p]
          BY <1>2, <2>3 DEF TypeOK
    <3>. QED BY <2>1, <3>1, <3>2
  <2>. QED BY <2>2, <2>3
<1>. QED BY <1>4, <1>5, <1>6 DEF RewardsInv, RewardsExplained, Mine

\* Every wallet is the number of its receipts times the reward, the receipts hold
\* each balance it went through once, and the issuance account balances all of
\* them, whatever retries, cleanups and a clock that is set back do.
THEOREM Rewards == Spec => []RewardsExplained
<1>1. ASSUME RewardsInv, UNCHANGED ledgerVars PROVE RewardsInv'
      BY <1>1 DEF RewardsInv, RewardsExplained, ledgerVars
<1>2. TypeOK /\ RewardsInv /\ [Next]_vars => RewardsInv'
      BY <1>1, RewardStep, IssueStep
<1>3. RewardsInv => RewardsExplained
      BY DEF RewardsInv
<1>. QED BY <1>2, <1>3, RewardsInit, Types, PTL DEF Spec

-----------------------------------------------------------------------------
(* Answers from a receipt and from its row.                                  *)

\* A receipt is of a claim, and its row, while it stands, tells the same.
RowsMatch ==
    \A i \in Interaction : \A c \in Receipts(i) :
        /\ Is(i, "daily")
        /\ Stored(i) => rows[i].outcome = [status |-> "claimed", balance |-> c.after]

LEMMA ClaimMatches ==
    ASSUME TypeOK, RowsMatch, NEW i \in Interaction, Is(i, "daily"), Claim(i)
    PROVE  RowsMatch'
<1>1. Typed /\ intent[i] # NoIntent
      BY BoundAssumption DEF TypeOK, Typed, Is
<1>2. PICK outcome \in Outcome :
        /\ Receipts(i) = {} /\ Store(i, outcome, clock)
        /\ \/ /\ outcome.status = "claimed"
              /\ outcome.balance = wallet[intent[i].actor] + Reward
              /\ Issue(i, clock)
           \/ UNCHANGED ledgerVars
        /\ UNCHANGED <<clock, intent>>
      BY <1>1, ClaimJudges
<1>3. \A j \in Interaction : Is(j, "daily")' <=> Is(j, "daily")
      BY <1>2 DEF Is
<1>4. /\ rows'[i].outcome = outcome
      /\ \A j \in Interaction \ {i} : rows'[j] = rows[j] /\ (Stored(j)' <=> Stored(j))
      BY <1>2 DEF Store, TypeOK, Stored
<1>5. \A j \in Interaction \ {i} : Receipts(j)' = Receipts(j)
      BY <1>2 DEF Receipts, Issue, ledgerVars
<1>6. ASSUME NEW c \in Receipts(i)'
      PROVE  rows'[i].outcome = [status |-> "claimed", balance |-> c.after]
  <2>1. Issue(i, clock) /\ outcome.status = "claimed"
                        /\ outcome.balance = wallet[intent[i].actor] + Reward
        BY <1>2, <1>6 DEF Receipts, ledgerVars
  <2>2. c.after = wallet[intent[i].actor] + Reward
        BY <1>2, <1>6, <2>1 DEF Receipts, Issue
  <2>3. outcome = [status |-> "claimed", balance |-> c.after]
        BY <2>1, <2>2 DEF Outcome
  <2>. QED BY <1>4, <2>3
<1>7. ASSUME NEW j \in Interaction \ {i}, NEW c \in Receipts(j)'
      PROVE  /\ Is(j, "daily")'
             /\ Stored(j)' => rows'[j].outcome = [status |-> "claimed", balance |-> c.after]
      BY <1>3, <1>4, <1>5, <1>7 DEF RowsMatch
<1>. QED BY <1>3, <1>6, <1>7 DEF RowsMatch

LEMMA MatchStep ==
    ASSUME TypeOK, RowsMatch, [Next]_vars
    PROVE  RowsMatch'
<1>1. ASSUME NEW i \in Interaction, Deliver(i) PROVE RowsMatch'
  <2>1. CASE ReplayRow(i) \/ ReplayReceipt(i)
    <3>1. UNCHANGED <<rows, intent, claims>>
          BY <2>1 DEF ReplayRow, ReplayReceipt, ledgerVars
    <3>. QED BY <3>1 DEF RowsMatch, Receipts, Is, Stored
  <2>2. CASE Is(i, "join") /\ Join(i)
    <3>1. Receipts(i) = {}
          BY <2>2 DEF RowsMatch, Is
    <3>2. UNCHANGED <<intent, claims>> /\ \A j \in Interaction \ {i} : rows'[j] = rows[j]
          BY <2>2 DEF Join, Store, ledgerVars, TypeOK
    <3>. QED BY <3>1, <3>2 DEF RowsMatch, Receipts, Is, Stored
  <2>3. CASE Is(i, "daily") /\ Claim(i)
        BY <2>3, ClaimMatches
  <2>. QED BY <1>1, <2>1, <2>2, <2>3 DEF Deliver
<1>2. ASSUME NEW i \in Interaction, NEW command \in {"join", "daily"}, NEW p \in Player,
             Press(i, command, p)
      PROVE  RowsMatch'
  <2>1. /\ intent[i] = NoIntent /\ UNCHANGED <<rows, claims>>
        /\ \A j \in Interaction \ {i} : intent'[j] = intent[j]
        BY <1>2 DEF Press, ledgerVars, TypeOK
  <2>2. Receipts(i) = {} /\ \A j \in Interaction : Receipts(j)' = Receipts(j)
        BY <2>1 DEF RowsMatch, Receipts, Is
  <2>3. \A j \in Interaction \ {i} : /\ Is(j, "daily")' <=> Is(j, "daily")
                                    /\ rows'[j] = rows[j] /\ (Stored(j)' <=> Stored(j))
        BY <2>1 DEF Is, Stored
  <2>. QED BY <2>2, <2>3 DEF RowsMatch
<1>3. CASE Cleanup
  <2>1. /\ UNCHANGED <<intent, claims>>
        /\ \A j \in Interaction : rows'[j] \in {NoRow, rows[j]}
        BY <1>3 DEF Cleanup, DeleteExpired, ledgerVars
  <2>. QED BY <2>1 DEF RowsMatch, Receipts, Is, Stored
<1>4. ASSUME UNCHANGED <<rows, intent, claims>> PROVE RowsMatch'
      BY <1>4 DEF RowsMatch, Receipts, Is, Stored
<1>5. (\E p \in Player : Switch(p)) \/ Tick \/ UNCHANGED vars => UNCHANGED <<rows, intent, claims>>
      BY DEF Switch, Tick, vars, ledgerVars
<1>. QED BY <1>1, <1>2, <1>3, <1>4, <1>5 DEF Next

\* An answer to an interaction whose row stands is the stored one, also when it is
\* given from the receipt and the player has been paid again since.
THEOREM Replays == Spec => ReplaysExact
<1>1. Init => RowsMatch
      BY DEF Init, RowsMatch, Receipts
<1>2. ASSUME RowsMatch, [Next]_vars, NEW a \in told' \ told, Stored(a.request)
      PROVE  a.outcome = rows[a.request].outcome
  <2>1. ASSUME NEW i \in Interaction, NEW outcome, Answer(i, outcome)
        PROVE  a.request = i /\ a.outcome = outcome
        BY <1>2, <2>1 DEF Answer
  <2>2. PICK i \in Interaction : Deliver(i)
    <3>1. (\E i \in Interaction, command \in {"join", "daily"}, p \in Player : Press(i, command, p))
             \/ Cleanup \/ (\E p \in Player : Switch(p)) \/ Tick \/ UNCHANGED vars
          => told' = told
          BY DEF Press, Cleanup, Switch, Tick, vars
    <3>. QED BY <1>2, <3>1 DEF Next
  <2>3. CASE ReplayRow(i)
        BY <2>1, <2>3 DEF ReplayRow
  <2>4. CASE Join(i)
        BY <1>2, <2>1, <2>4 DEF Join
  <2>5. CASE ReplayReceipt(i)
    <3>1. PICK c \in Receipts(i) : Answer(i, [status |-> "claimed", balance |-> c.after])
          BY <2>5 DEF ReplayReceipt
    <3>2. a.request = i /\ a.outcome = [status |-> "claimed", balance |-> c.after]
          BY <2>1, <3>1
    <3>. QED BY <1>2, <3>2 DEF RowsMatch
  <2>6. CASE Claim(i)
        BY <1>2, <2>1, <2>6 DEF Claim
  <2>. QED BY <2>2, <2>3, <2>4, <2>5, <2>6 DEF Deliver
<1>3. RowsMatch /\ [Next]_vars
        => \A a \in told' \ told : Stored(a.request) => a.outcome = rows[a.request].outcome
      BY <1>2
<1>. QED BY <1>1, <1>3, MatchStep, Types, PTL DEF Spec, ReplaysExact

-----------------------------------------------------------------------------
(* What the answers to one interaction have in common.                       *)

\* What is said of an interaction: a success of a claim is what its receipt says.
Backed(i, outcome) ==
    /\ intent[i] # NoIntent
    /\ Is(i, "daily") /\ outcome.status = "claimed" =>
         \E c \in Receipts(i) : outcome = [status |-> "claimed", balance |-> c.after]

AllBacked ==
    /\ \A i \in Interaction : Stored(i) => Backed(i, rows[i].outcome)
    /\ \A a \in told : Backed(a.request, a.outcome)

\* Receipts and intents are permanent, so what was true of them stays true.
LEMMA BackedStays ==
    ASSUME TypeOK, [Next]_vars, NEW i \in Interaction, NEW outcome, Backed(i, outcome)
    PROVE  Backed(i, outcome)'
<1>1. claims \subseteq claims'
  <2>1. CASE claims' # claims
        BY <2>1, StepAdds
  <2>. QED BY <2>1
<1>2. intent'[i] = intent[i]
  <2>1. ASSUME NEW j \in Interaction, NEW command \in {"join", "daily"}, NEW p \in Player,
               Press(j, command, p)
        PROVE  intent'[i] = intent[i]
        BY <2>1 DEF Press, Backed, TypeOK
  <2>2. ASSUME NEW j \in Interaction, Deliver(j)
        PROVE  intent' = intent
        BY <2>2 DEF Deliver, ReplayRow, Join, ReplayReceipt, Claim
  <2>. QED BY <2>1, <2>2 DEF Next, Cleanup, Switch, Tick, vars
<1>. QED BY <1>1, <1>2 DEF Backed, Is, Receipts

\* What a delivery answers and stores is backed, once it is done.
LEMMA DeliveryBacked ==
    ASSUME TypeOK, AllBacked, NEW i \in Interaction, Deliver(i)
    PROVE  \E outcome : /\ Answer(i, outcome) /\ Backed(i, outcome)'
                        /\ UNCHANGED rows \/ \E now : Store(i, outcome, now)
<1>1. intent[i] # NoIntent /\ UNCHANGED intent /\ (Is(i, "join") => ~Is(i, "daily"))
      BY BoundAssumption DEF Deliver, Is, ReplayRow, Join, ReplayReceipt, Claim
<1>2. CASE ReplayRow(i)
      BY <1>2 DEF ReplayRow, AllBacked, Backed, Is, Receipts, ledgerVars
<1>3. CASE Is(i, "join") /\ Join(i)
      BY <1>1, <1>3 DEF Join, Backed, Is
<1>4. CASE ReplayReceipt(i)
  <2>1. PICK c \in Receipts(i) : Answer(i, [status |-> "claimed", balance |-> c.after])
        BY <1>4 DEF ReplayReceipt
  <2>2. UNCHANGED <<rows, intent, claims>>
        BY <1>4 DEF ReplayReceipt, ledgerVars
  <2>. QED BY <1>1, <2>1, <2>2 DEF Backed, Receipts
<1>5. CASE Is(i, "daily") /\ Claim(i)
  <2>1. Typed /\ intent[i] # NoIntent
        BY <1>1 DEF TypeOK, Typed
  <2>2. PICK outcome \in Outcome :
          /\ Store(i, outcome, clock) /\ Answer(i, outcome)
          /\ \/ /\ outcome.status = "claimed"
                /\ outcome.balance = wallet[intent[i].actor] + Reward
                /\ Issue(i, clock)
             \/ outcome.status # "claimed" /\ UNCHANGED ledgerVars
        BY <1>5, <2>1, ClaimJudges
  <2>3. CASE outcome.status = "claimed"
    <3>1. PICK c \in Receipts(i)' : c.after = wallet[intent[i].actor] + Reward
      <4>. DEFINE c == [player |-> intent[i].actor, period |-> intent[i].period,
                        interaction |-> i, at |-> clock,
                        after |-> wallet[intent[i].actor] + Reward]
      <4>1. c \in claims' /\ c.interaction = i
            BY <2>2, <2>3 DEF Issue
      <4>2. c \in Receipts(i)' /\ c.after = wallet[intent[i].actor] + Reward
            BY <4>1 DEF Receipts
      <4>. QED BY <4>2
    <3>2. outcome = [status |-> "claimed", balance |-> c.after]
          BY <2>2, <2>3, <3>1 DEF Outcome
    <3>. QED BY <1>1, <2>2, <3>1, <3>2 DEF Backed
  <2>. QED BY <1>1, <2>2, <2>3 DEF Backed
<1>. QED BY <1>2, <1>3, <1>4, <1>5 DEF Deliver

LEMMA BackedStep ==
    ASSUME TypeOK, AllBacked, [Next]_vars
    PROVE  AllBacked'
<1>1. /\ \A i \in Interaction : \A outcome : Backed(i, outcome) => Backed(i, outcome)'
      /\ \A a \in told : a.request \in Interaction
      BY BackedStays DEF TypeOK
<1>2. ASSUME NEW i \in Interaction, Deliver(i) PROVE AllBacked'
  <2>1. PICK outcome : /\ Answer(i, outcome) /\ Backed(i, outcome)'
                       /\ UNCHANGED rows \/ \E now : Store(i, outcome, now)
        BY <1>2, DeliveryBacked
  <2>2. \A a \in told' : a \in told \/ (a.request = i /\ a.outcome = outcome)
        BY <2>1 DEF Answer
  <2>3. \A j \in Interaction :
            \/ rows'[j] = rows[j]
            \/ j = i /\ rows'[j].outcome = outcome
        BY <2>1 DEF Store, TypeOK
  <2>4. \A j \in Interaction : Stored(j)' => Backed(j, rows[j].outcome)'
        BY <1>1, <2>1, <2>3 DEF AllBacked, Stored
  <2>5. \A a \in told' : Backed(a.request, a.outcome)'
        BY <1>1, <2>1, <2>2 DEF AllBacked
  <2>. QED BY <2>4, <2>5 DEF AllBacked
<1>3. ASSUME told' = told, \A j \in Interaction : rows'[j] \in {NoRow, rows[j]}
      PROVE  AllBacked'
      BY <1>1, <1>3 DEF AllBacked, Stored
<1>4. Cleanup => told' = told /\ \A j \in Interaction : rows'[j] \in {NoRow, rows[j]}
      BY DEF Cleanup, DeleteExpired
<1>5. (\E i \in Interaction, command \in {"join", "daily"}, p \in Player : Press(i, command, p))
         \/ (\E p \in Player : Switch(p)) \/ Tick \/ UNCHANGED vars
      => UNCHANGED <<told, rows>>
      BY DEF Press, Switch, Tick, vars
<1>. QED BY <1>2, <1>3, <1>4, <1>5 DEF Next

\* All successes a user hears of one claim tell the same balance, that of its
\* receipt, however often it was delivered, whatever became of its row, of the day
\* or of the player, and wherever the clock went.
SuccessesAgree ==
    \A a, b \in told :
        /\ a.request = b.request /\ Is(a.request, "daily")
        /\ a.outcome.status = "claimed" /\ b.outcome.status = "claimed"
        => a.outcome = b.outcome

\* Redeliveries of a claim never disagree on what was paid: an answer from the
\* request, from its row and from its receipt are the same.
THEOREM SameSuccess == Spec => []SuccessesAgree
<1>1. Init => AllBacked
      BY BoundAssumption DEF Init, AllBacked, Stored
<1>2. AllBacked /\ OneRewardPerDay => SuccessesAgree
  <2>. SUFFICES ASSUME AllBacked, OneRewardPerDay, NEW a \in told, NEW b \in told,
                       a.request = b.request, Is(a.request, "daily"),
                       a.outcome.status = "claimed", b.outcome.status = "claimed"
                PROVE  a.outcome = b.outcome
       BY DEF SuccessesAgree
  <2>1. PICK c \in Receipts(a.request) :
                a.outcome = [status |-> "claimed", balance |-> c.after]
        BY DEF AllBacked, Backed
  <2>2. PICK d \in Receipts(a.request) :
                b.outcome = [status |-> "claimed", balance |-> d.after]
        BY DEF AllBacked, Backed
  <2>3. c = d
        BY DEF Receipts, OneRewardPerDay
  <2>. QED BY <2>1, <2>2, <2>3
<1>. QED BY <1>1, <1>2, BackedStep, Types, OneReward, PTL DEF Spec

\* No two answers to a claim contradict each other: a user never hears of a
\* refusal and of a success.
AnswersAgree ==
    \A a, b \in told :
        a.request = b.request /\ Is(a.request, "daily") =>
            (a.outcome.status = "claimed" <=> b.outcome.status = "claimed")

\* With rows kept for a day and a forward clock a refused claim is never judged
\* anew, nor a paid one refused when it is delivered again.
THEOREM NoContradiction ==
    ASSUME Deployment
    PROVE  Spec => []AnswersAgree
<1>1. PromiseInv => AnswersAgree
      BY DEF PromiseInv, AnswersTrue, AnswersAgree
<1>. QED BY <1>1, PromiseInit, PromiseStep, PTL DEF Spec
=============================================================================
