----------------------------- MODULE RateWindows -----------------------------
(***************************************************************************)
(* The counters that bound how often something is done                     *)
(* (infra/ratelimit/service.py, agents/token_budget.py, time_budget.py): a *)
(* fixed window is a Redis counter whose TTL is set by a second call after *)
(* the first hit, and can be refunded; a budget adds a weight after the    *)
(* work was let through.  Every caller hits once.                          *)
(***************************************************************************)
EXTENDS Integers, FiniteSets

CONSTANTS
    Hitters,    \* callers of check_and_increment
    Spenders,   \* callers of a budget
    Weight,     \* spender -> what its work costs
    MaxHits,    \* max_per_window
    Window,     \* window_seconds
    MaxTicks,   \* bound: ticks of the clock
    MaxLosses   \* bound: callers that die

ASSUME RateAssumption ==
    /\ Hitters \cap Spenders = {} /\ Weight \in [Spenders -> Nat]
    /\ MaxHits \in Nat /\ Window \in Nat \ {0} /\ MaxTicks \in Nat

Callers == Hitters \cup Spenders
Windows == {"hits", "spent"}
KeyOf(c) == IF c \in Hitters THEN "hits" ELSE "spent"
Forever == Window + 1

VARIABLES
    doing,      \* caller -> step
    count,      \* key -> its value
    left,       \* key -> ticks of its TTL, Forever without one, 0 if absent
    saw,        \* caller -> what its INCR returned
    counted,    \* history: callers counted in the key that exists now
    crossed,    \* history: the hit of an older window was refunded in this one
    dead,       \* callers that died
    ticks

rateVars == <<doing, count, left, saw, counted, crossed, dead, ticks>>

Weights == {1} \cup {Weight[c] : c \in Spenders}
RateTypeOK ==
    /\ doing \in [Callers -> {"idle", "counted", "granted", "denied",
                              "refunding", "negative", "done"}]
    /\ count \in [Windows -> Int] /\ left \in [Windows -> 0..Forever]
    /\ saw \in [Callers -> Int]
    /\ counted \subseteq Callers /\ crossed \in BOOLEAN /\ dead \subseteq Callers
    /\ ticks \in 0..MaxTicks

RateInit ==
    /\ doing = [c \in Callers |-> "idle"]
    /\ count = [k \in Windows |-> 0] /\ left = [k \in Windows |-> 0]
    /\ saw = [c \in Callers |-> 0]
    /\ counted = {} /\ crossed = FALSE /\ dead = {}
    /\ ticks = 0

-----------------------------------------------------------------------------
(* Fixed windows. *)

Exists(k) == left[k] > 0
Does(c, step) == doing' = [doing EXCEPT ![c] = step]

\* INCR and INCRBY make the key without a TTL where it is absent.
Adds(c, n) ==
    LET k == KeyOf(c) IN
    /\ count' = [count EXCEPT ![k] = (IF Exists(k) THEN @ ELSE 0) + n]
    /\ left' = [left EXCEPT ![k] = IF Exists(k) THEN @ ELSE Forever]

\* check_and_increment up to the INCR.
Hit(c) ==
    /\ c \in Hitters /\ doing[c] = "idle"
    /\ Adds(c, 1)
    /\ saw' = [saw EXCEPT ![c] = count'["hits"]]
    /\ counted' = counted \cup {c}
    /\ Does(c, "counted")
    /\ UNCHANGED <<crossed, dead, ticks>>

\* What has been spent is below the limit.
BudgetLeft == ~Exists("spent") \/ count["spent"] < MaxHits

\* has_budget_remaining, peek_usage: work that may start is let finish.
Peek(c) ==
    /\ c \in Spenders /\ doing[c] = "idle"
    /\ Does(c, IF BudgetLeft THEN "granted" ELSE "denied")
    /\ UNCHANGED <<count, left, saw, counted, crossed, dead, ticks>>

\* record_tokens, record_active_seconds: the cost, after the work.
Record(c) ==
    /\ c \in Spenders /\ doing[c] = "granted"
    /\ Adds(c, Weight[c])
    /\ saw' = [saw EXCEPT ![c] = count'["spent"]]
    /\ Does(c, "counted")
    /\ UNCHANGED <<counted, crossed, dead, ticks>>

\* The hit that finds nothing but itself starts the window.
StartsWindow(c) == saw[c] = (IF c \in Spenders THEN Weight[c] ELSE 1)

Within(n) == n <= MaxHits

\* EXPIRE, where the window starts; then the caller has its answer.
Expire(c) ==
    LET k == KeyOf(c) IN
    /\ doing[c] = "counted"
    /\ left' = IF StartsWindow(c) /\ Exists(k) THEN [left EXCEPT ![k] = Window] ELSE left
    /\ Does(c, IF c \in Spenders THEN "done" ELSE IF Within(saw[c]) THEN "granted" ELSE "denied")
    /\ UNCHANGED <<count, saw, counted, crossed, dead, ticks>>

\* refund_increment of a hit whose work failed: EXISTS ...
RefundAsks(c) ==
    /\ c \in Hitters /\ doing[c] = "granted"
    /\ Does(c, IF Exists("hits") THEN "refunding" ELSE "done")
    /\ UNCHANGED <<count, left, saw, counted, crossed, dead, ticks>>

\* ... DECR, which is not told of which window the hit was ...
RefundTakes(c) ==
    /\ doing[c] = "refunding"
    /\ Adds(c, -1)
    /\ Does(c, IF count'["hits"] < 0 THEN "negative" ELSE "done")
    /\ crossed' = (crossed \/ c \notin counted)
    /\ UNCHANGED <<saw, counted, dead, ticks>>

\* ... and SET 0 KEEPTTL of a counter that went below zero.
RefundFloors(c) ==
    /\ doing[c] = "negative"
    /\ count' = [count EXCEPT !["hits"] = 0]
    /\ left' = [left EXCEPT !["hits"] = IF @ = 0 THEN Forever ELSE @]
    /\ Does(c, "done")
    /\ crossed' = TRUE
    /\ UNCHANGED <<saw, counted, dead, ticks>>

\* A caller dies between INCR and EXPIRE.
Dies(c) ==
    /\ doing[c] = "counted" /\ Cardinality(dead) < MaxLosses
    /\ dead' = dead \cup {c}
    /\ Does(c, "done")
    /\ UNCHANGED <<count, left, saw, counted, crossed, ticks>>

-----------------------------------------------------------------------------
\* Time passes; a key whose TTL runs out is gone, and with it its window.
Tick ==
    /\ ticks < MaxTicks
    /\ ticks' = ticks + 1
    /\ left' = [k \in Windows |-> IF left[k] \in 1..Window THEN left[k] - 1 ELSE left[k]]
    /\ counted' = IF left'["hits"] = 0 THEN {} ELSE counted
    /\ crossed' = (crossed /\ left'["hits"] > 0)
    /\ UNCHANGED <<doing, count, saw, dead>>

RateNext ==
    \/ \E c \in Callers :
         \/ Hit(c) \/ Peek(c) \/ Record(c) \/ Expire(c)
         \/ RefundAsks(c) \/ RefundTakes(c) \/ RefundFloors(c) \/ Dies(c)
    \/ Tick

RateSpec == RateInit /\ [][RateNext]_rateVars

-----------------------------------------------------------------------------
\* A fixed window lets through max_per_window callers beside those refunded,
\* whatever INCRs, EXPIREs, refunds and expiries interleave; a refund of an
\* older window's hit alone can make room for more.  A limit always lifts: a
\* counter has a TTL, or a caller that is about to set it, or one that died
\* before it did, or is so low that the next hit starts the window.
WindowHolds ==
    /\ ~crossed => Cardinality({c \in counted : doing[c] = "granted"}) <= MaxHits
    /\ \A k \in Windows : left[k] = Forever =>
          \/ dead # {} \/ count[k] <= 0 \/ crossed
          \/ \E c \in Callers : KeyOf(c) = k /\ doing[c] = "counted" /\ StartsWindow(c)

=============================================================================
