------------------------------- MODULE Daily -------------------------------
(***************************************************************************)
(* Joining and the daily reward, as JoinService and DailyService run them  *)
(* on the transport-idempotency facility.  A delivery of an interaction is *)
(* one serialised write transaction, so it is one action; an attempt that  *)
(* fails rolls everything back and is no step.  The same interaction may   *)
(* be delivered again at any time, and its answer may be lost.             *)
(***************************************************************************)
EXTENDS Idempotency

CONSTANTS
    Player,        \* Discord users
    Reward,        \* DAILY_COINS
    Day,           \* DAY_MS
    MaxClock,      \* bound: the last instant
    ClockSteps,    \* how the wall clock moves
    MaxLag,        \* how far the clock may move while a request waits for the writer
    CleanupLimit,  \* rows one cleanup may delete
    NoIntent

ASSUME DayAssumption == Day \in Nat \ {0} /\ Reward \in Nat \ {0}
ASSUME BoundAssumption == MaxClock \in Nat /\ MaxLag \in Nat /\ CleanupLimit \in Nat \ {0}

VARIABLES
    clock,      \* what clock_ms returns
    intent,     \* interactions: command, actor and the UTC day of their creation
    disabled,   \* players whom eligibility or a freeze stops
    joined,     \* active players with a wallet
    claims,     \* the economy_daily_claims rows
    wallet,     \* wallet projections
    issuance,   \* projection of issuance.daily
    told        \* answers that reached a user

ledgerVars == <<claims, wallet, issuance>>
vars == <<rows, clock, intent, disabled, joined, ledgerVars, told>>

Statuses == {"claimed", "expired", "disabled", "unjoined", "already_claimed",
             "created", "already_joined"}
Outcome == [status : Statuses, balance : Nat]
Row == [outcome : Outcome, retain : Nat]
Intent == [command : {"join", "daily"}, actor : Player, period : Nat]

ASSUME NoneAssumption == NoRow \notin Row /\ NoIntent \notin Intent

Init ==
    /\ rows = [i \in Interaction |-> NoRow]
    /\ clock = 0
    /\ intent = [i \in Interaction |-> NoIntent]
    /\ disabled = {} /\ joined = {}
    /\ claims = {} /\ wallet = [p \in Player |-> 0] /\ issuance = 0
    /\ told = {}

Period(t) == t \div Day
Is(i, command) == intent[i] # NoIntent /\ intent[i].command = command
Rejection(status) == [status |-> status, balance |-> 0]

\* The answer reaches the user, or is lost with the process or the connection.
Answer(i, outcome) == told' \in {told, told \cup {[request |-> i, outcome |-> outcome]}}

\* A user runs a command; the interaction's identity fixes its day.  Discord
\* stamps it with a clock of its own, here the one the bot reads.
Press(i, command, p) ==
    /\ intent[i] = NoIntent
    /\ intent' = [intent EXCEPT ![i] =
                    [command |-> command, actor |-> p, period |-> Period(clock)]]
    /\ UNCHANGED <<rows, clock, disabled, joined, ledgerVars, told>>

\* A key that is known answers with its row.
ReplayRow(i) ==
    /\ Stored(i)
    /\ Answer(i, rows[i].outcome)
    /\ UNCHANGED <<rows, clock, intent, disabled, joined, ledgerVars>>

-----------------------------------------------------------------------------
(* Joining.                                                                *)

\* Ahead of the clock when that was set back while the request waited.
Arrivals ==
    {t \in 0..MaxClock : /\ t - clock \in -MaxLag..MaxLag
                         /\ t > clock => \E step \in ClockSteps : step < 0}

JoinVerdict(p) ==
    IF p \in disabled THEN "disabled"
    ELSE IF p \in joined THEN "already_joined" ELSE "created"

\* join samples the clock when the request arrives.
Join(i) ==
    LET verdict == JoinVerdict(intent[i].actor) IN
    /\ ~Stored(i)
    /\ \E now \in Arrivals : Store(i, Rejection(verdict), now)
    /\ joined' = IF verdict = "created" THEN joined \cup {intent[i].actor} ELSE joined
    /\ Answer(i, Rejection(verdict))
    /\ UNCHANGED <<clock, intent, disabled, ledgerVars>>

-----------------------------------------------------------------------------
(* The daily claim.                                                        *)

Receipts(i) == {c \in claims : c.interaction = i}

\* Mutant: only the interaction's own claim counts.
ClaimedByInteraction(i) == Receipts(i) # {}
Claimed(i) == \E c \in claims : c.player = intent[i].actor /\ c.period = intent[i].period

\* The instant a claim is judged by; mutant: sampled when the request arrives.
SampledOnArrival == Arrivals
Samples == {clock}

\* The checks of claim, in their order.
Verdict(i, now) ==
    IF intent[i].period # Period(now) THEN "expired"
    ELSE IF intent[i].actor \in disabled THEN "disabled"
    ELSE IF intent[i].actor \notin joined THEN "unjoined"
    ELSE IF Claimed(i) THEN "already_claimed" ELSE "claimed"

\* Mutant: the answer shows the present balance.
ReplayPresentBalance(i) ==
    /\ Receipts(i) # {}
    /\ Answer(i, [status |-> "claimed", balance |-> wallet[intent[i].actor]])
    /\ UNCHANGED <<rows, clock, intent, disabled, joined, ledgerVars>>

\* A retried success is answered from its receipt, whatever became of the day,
\* the row or the player.
ReplayReceipt(i) ==
    \E c \in Receipts(i) :
        /\ Answer(i, [status |-> "claimed", balance |-> c.after])
        /\ UNCHANGED <<rows, clock, intent, disabled, joined, ledgerVars>>

\* Mutant: the reward is credited without its debit.
IssueOneSided(i, now) ==
    LET p == intent[i].actor IN
    /\ claims' = claims \cup {[player |-> p, period |-> intent[i].period, interaction |-> i,
                               at |-> now, after |-> wallet[p] + Reward]}
    /\ wallet' = [wallet EXCEPT ![p] = @ + Reward]
    /\ UNCHANGED issuance

\* issue: one balanced ledger transaction and its receipt.
Issue(i, now) ==
    LET p == intent[i].actor IN
    /\ claims' = claims \cup {[player |-> p, period |-> intent[i].period, interaction |-> i,
                               at |-> now, after |-> wallet[p] + Reward]}
    /\ wallet' = [wallet EXCEPT ![p] = @ + Reward]
    /\ issuance' = issuance - Reward

\* A claim that is neither receipted nor known is judged and stored.  It samples
\* its instant once it is the writer; that and its commit are one step, so an
\* instant of the claim is always the sampled one.
Claim(i) ==
    \E now \in Samples :
        LET verdict == Verdict(i, now)
            outcome == IF verdict = "claimed"
                       THEN [status |-> verdict, balance |-> wallet[intent[i].actor] + Reward]
                       ELSE Rejection(verdict)
        IN
        /\ Receipts(i) = {} /\ ~Stored(i)
        /\ Store(i, outcome, now)
        /\ IF verdict = "claimed" THEN Issue(i, now) ELSE UNCHANGED ledgerVars
        /\ Answer(i, outcome)
        /\ UNCHANGED <<clock, intent, disabled, joined>>

-----------------------------------------------------------------------------
(* The environment.                                                        *)

Deliver(i) ==
    \/ Is(i, "join") /\ (ReplayRow(i) \/ Join(i))
    \/ Is(i, "daily") /\ (ReplayReceipt(i) \/ (Receipts(i) = {} /\ ReplayRow(i)) \/ Claim(i))

\* TransportIdempotencyMaintenance.cleanup.
Cleanup ==
    /\ DeleteExpired(clock, CleanupLimit)
    /\ UNCHANGED <<clock, intent, disabled, joined, ledgerVars, told>>

\* A freeze, its release, or the storage becoming unsafe or safe again.
Switch(p) ==
    /\ disabled' = IF p \in disabled THEN disabled \ {p} ELSE disabled \cup {p}
    /\ UNCHANGED <<rows, clock, intent, joined, ledgerVars, told>>

\* The clock port refuses negative instants.
Tick ==
    /\ \E d \in ClockSteps : clock' = clock + d /\ clock + d \in 0..MaxClock
    /\ UNCHANGED <<rows, intent, disabled, joined, ledgerVars, told>>

Next ==
    \/ \E i \in Interaction, command \in {"join", "daily"}, p \in Player : Press(i, command, p)
    \/ \E i \in Interaction : Deliver(i)
    \/ Cleanup
    \/ \E p \in Player : Switch(p)
    \/ Tick

Spec == Init /\ [][Next]_vars

-----------------------------------------------------------------------------
(* Properties.                                                             *)

\* Every variable stays in its range.
TypeOK ==
    /\ rows \in [Interaction -> Row \cup {NoRow}]
    /\ clock \in 0..MaxClock
    /\ intent \in [Interaction -> Intent \cup {NoIntent}]
    /\ disabled \in SUBSET Player /\ joined \in SUBSET Player
    /\ claims \in SUBSET [player : Player, period : Nat, interaction : Interaction,
                          at : 0..MaxClock, after : Nat]
    /\ wallet \in [Player -> Nat] /\ issuance \in Int
    /\ told \in SUBSET [request : Interaction, outcome : Outcome]

\* One reward per player and UTC day, and one per interaction, however often,
\* by however many interactions and however late it is asked for.
OneRewardPerDay ==
    \A c, d \in claims :
        (c.player = d.player /\ c.period = d.period) \/ c.interaction = d.interaction => c = d

\* A reward belongs to the day in which the user asked, and the instant sampled
\* inside the transaction lies in it: a claim that waits for the writer across
\* midnight earns nothing.  (The commit itself may fall after midnight.)
CreditedInItsDay ==
    [][\A c \in claims' \ claims :
        c.period = intent[c.interaction].period /\ c.period = Period(clock)]_vars

\* Receipts and rows agree: while a row stands, every answer to its interaction
\* is the stored one, also when it comes from the receipt.
ReplaysExact ==
    [][\A a \in told' \ told : Stored(a.request) => a.outcome = rows[a.request].outcome]_vars

\* The wallet is explained by the receipts, the issuance account balances it, and
\* the balances in the receipts are those the wallet went through, each once.
RewardsExplained ==
    /\ \A p \in Player :
        LET mine == {c \in claims : c.player = p} IN
        /\ wallet[p] = Reward * Cardinality(mine)
        /\ {c.after : c \in mine} = {Reward * n : n \in 1..Cardinality(mine)}
    /\ issuance = -Reward * Cardinality(claims)

\* What callers of the daily claim may rely on; a refusal they heard is final
\* because an outcome is kept longer than the day it was asked for.
Applied == {c.interaction : c \in claims}
Heard == {<<a.request, a.outcome.status = "claimed">> :
            a \in {b \in told : Is(b.request, "daily")}}
Promise == INSTANCE ExactlyOnce WITH Request <- Interaction, applied <- Applied, told <- Heard

\* The daily claim implements the promise.
KeepsPromise == Promise!Spec
=============================================================================
