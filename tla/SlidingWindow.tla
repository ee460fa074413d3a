---------------------------- MODULE SlidingWindow ----------------------------
(***************************************************************************)
(* The sliding window of infra/ratelimit/service.py and                    *)
(* common/src/ratelimit.rs: a sorted set of hits changed by one script,    *)
(* with the clock of the process that calls it.  A caller hits once.       *)
(***************************************************************************)
EXTENDS Integers, FiniteSets

CONSTANTS
    Sliders,    \* callers of check_sliding_window
    ServerOf,   \* slider -> the process it runs in
    Ahead,      \* process -> ticks its clock is ahead
    SlideLimit, \* max_per_window
    SlideWindow,\* window_seconds
    Seqs,       \* members of one millisecond that _next_member tells apart
    SlideTicks  \* bound: ticks of the clock

Servers == {ServerOf[c] : c \in Sliders}

ASSUME SlideAssumption ==
    /\ Ahead \in [Servers -> Nat] /\ Seqs \in Nat \ {0}
    /\ SlideLimit \in Nat /\ SlideWindow \in Nat /\ SlideTicks \in Nat

VARIABLES
    log,        \* the sorted set: [score, member]
    seq,        \* process -> _member_seq
    slid,       \* callers that asked
    let,        \* history: [at, who] that the script let through
    unanswered, \* history: callers that got an error instead of an answer
    skewed,     \* history: a process whose clock is ahead asked
    collided,   \* history: a member was added twice
    clock

slideVars == <<log, seq, slid, let, unanswered, skewed, collided, clock>>

SlideTypeOK ==
    /\ log \subseteq [score : Nat, member : Nat \X (0..Seqs - 1)]
    /\ seq \in [Servers -> 0..Seqs - 1]
    /\ slid \subseteq Sliders /\ unanswered \subseteq slid
    /\ let \subseteq [at : 0..SlideTicks, who : Sliders]
    /\ skewed \in BOOLEAN /\ collided \in BOOLEAN /\ clock \in 0..SlideTicks

SlideInit ==
    /\ log = {} /\ seq = [s \in Servers |-> 0] /\ slid = {} /\ let = {}
    /\ unanswered = {}
    /\ skewed = FALSE /\ collided = FALSE /\ clock = 0

-----------------------------------------------------------------------------

\* now_ms of the calling process.
NowAt(c) == clock + Ahead[ServerOf[c]]

\* ZREMRANGEBYSCORE up to now - window.
Live(now) == {h \in log : h.score > now - SlideWindow}

\* _next_member: the millisecond and a counter of the process.
NextSeq(s) == (seq[s] + 1) % Seqs

\* A caller takes a member and calls the script.
NewHit(c) == [score |-> NowAt(c), member |-> <<NowAt(c), NextSeq(ServerOf[c])>>]
Call(c) ==
    LET s == ServerOf[c] IN
    /\ c \notin slid
    /\ slid' = slid \cup {c}
    /\ seq' = [seq EXCEPT ![s] = NextSeq(s)]
    /\ skewed' = (skewed \/ Ahead[s] > 0)
    /\ UNCHANGED clock

\* The script: below the limit the hit is added.
UnderLimit(c) == Cardinality(Live(NowAt(c))) < SlideLimit
RunScript(c) ==
    /\ log' = Live(NowAt(c)) \cup (IF UnderLimit(c) THEN {NewHit(c)} ELSE {})
    /\ collided' = (collided \/ (UnderLimit(c) /\ NewHit(c) \in log))

Slide(c) ==
    /\ Call(c)
    /\ RunScript(c)
    /\ let' = let \cup (IF UnderLimit(c) THEN {[at |-> clock, who |-> c]} ELSE {})
    /\ UNCHANGED unanswered

\* A Redis error, before the script ran or after it: the Rust limiter lets the
\* call through, the Python one raises.
SlideFails(c) ==
    /\ Call(c)
    /\ RunScript(c) \/ UNCHANGED <<log, collided>>
    /\ unanswered' = unanswered \cup {c}
    /\ UNCHANGED let

\* peek_sliding_window drops what is old and adds nothing.
PeekSlide(s) ==
    /\ Live(clock + Ahead[s]) # log
    /\ log' = Live(clock + Ahead[s])
    /\ skewed' = (skewed \/ Ahead[s] > 0)
    /\ UNCHANGED <<seq, slid, let, unanswered, collided, clock>>

SlideTick ==
    /\ clock < SlideTicks
    /\ clock' = clock + 1
    /\ UNCHANGED <<log, seq, slid, let, unanswered, skewed, collided>>

SlideNext ==
    \/ SlideTick
    \/ \E c \in Sliders : Slide(c) \/ SlideFails(c)
    \/ \E s \in Servers : PeekSlide(s)

SlideSpec == SlideInit /\ [][SlideNext]_slideVars

-----------------------------------------------------------------------------
\* The script lets through no more than the limit in any span of the window's
\* length, however the callers of several processes interleave and calls fail,
\* unless two processes chose the same member in one millisecond or one's clock
\* is ahead.  Calls that got no answer from it are let through besides.
SlidingHolds ==
    ~collided /\ ~skewed => \A t \in 0..clock :
        Cardinality({g \in let : g.at \in (t - SlideWindow + 1)..t}) <= SlideLimit

=============================================================================
