---------------------------- MODULE SearchStreams ----------------------------
(***************************************************************************)
(* Streamed searches of one user (search/router.py, search/service.py): a  *)
(* Redis key with a time to live admits one stream at a time, and the      *)
(* stream's generator deletes the key when it is left.                     *)
(***************************************************************************)
EXTENDS Integers, FiniteSets

CONSTANTS
    Streams,    \* requests
    LockTtl,    \* stream_lock_ttl_seconds
    MaxRun,     \* stream_max_seconds
    MaxRows,    \* stream_max_results
    Matches,    \* rows the query finds
    StreamTicks,\* bound: ticks of the clock
    StreamFaults \* bound: failures of Redis and of the query

ASSUME StreamAssumption ==
    /\ LockTtl \in Nat \ {0} /\ MaxRun \in Nat /\ MaxRows \in Nat /\ Matches \in Nat
    /\ StreamTicks \in Nat /\ StreamFaults \in Nat

VARIABLES
    lockEnd,    \* when the key expires, 0 when there is none
    stream,     \* request -> [step, since, rows, cut]
    outlived,   \* history: a stream ran on after its key expired
    leftLocked, \* history: a stream ended without deleting the key
    refusedIdle,\* history: a request was refused while no stream ran
    streamFaults, streamClock

streamVars == <<lockEnd, stream, outlived, leftLocked, refusedIdle, streamFaults, streamClock>>

NoStream == [step |-> "unsent", since |-> 0, rows |-> 0, cut |-> FALSE]
StreamTypeOK ==
    /\ lockEnd \in 0..StreamTicks + LockTtl /\ streamClock \in 0..StreamTicks
    /\ stream \in [Streams -> [step : {"unsent", "admitted", "opened", "rows", "leaving", "over", "refused"},
                             since : 0..StreamTicks, rows : 0..MaxRows, cut : BOOLEAN]]
    /\ outlived \in BOOLEAN /\ leftLocked \in BOOLEAN /\ refusedIdle \in BOOLEAN
    /\ streamFaults \in 0..StreamFaults

StreamInit ==
    /\ lockEnd = 0 /\ stream = [r \in Streams |-> NoStream]
    /\ outlived = FALSE /\ leftLocked = FALSE /\ refusedIdle = FALSE
    /\ streamFaults = 0 /\ streamClock = 0

-----------------------------------------------------------------------------

Runs(r) == stream[r].step \in {"admitted", "opened", "rows", "leaving"}
Enters(r, s) == stream' = [stream EXCEPT ![r].step = s]
StreamFault == streamFaults < StreamFaults /\ streamFaults' = streamFaults + 1

\* SET NX EX.
Admits(r) == lockEnd <= streamClock

\* stream_search_messages
Open(r) ==
    /\ stream[r].step = "unsent"
    /\ IF Admits(r)
       THEN /\ lockEnd' = streamClock + LockTtl
            /\ Enters(r, "admitted") /\ UNCHANGED refusedIdle
       ELSE /\ Enters(r, "refused") /\ UNCHANGED lockEnd
            /\ refusedIdle' = (refusedIdle \/ ~\E o \in Streams : Runs(o))
    /\ UNCHANGED <<outlived, leftLocked, streamFaults, streamClock>>

\* The generator starts its clock and yields before its try block.
Start(r) ==
    /\ stream[r].step = "admitted"
    /\ stream' = [stream EXCEPT ![r] = [@ EXCEPT !.step = "opened", !.since = streamClock]]
    /\ UNCHANGED <<lockEnd, outlived, leftLocked, refusedIdle, streamFaults, streamClock>>

\* The client goes before the first row: the finally block is not reached.
LeftEarly(r) ==
    /\ stream[r].step \in {"admitted", "opened"}
    /\ Enters(r, "over") /\ leftLocked' = TRUE
    /\ UNCHANGED <<lockEnd, outlived, refusedIdle, streamFaults, streamClock>>

Query(r) ==
    /\ stream[r].step = "opened" /\ Enters(r, "rows")
    /\ UNCHANGED <<lockEnd, outlived, leftLocked, refusedIdle, streamFaults, streamClock>>

\* The caps on rows and on time, looked at before a row is sent.
Cut(r) == stream[r].rows >= MaxRows \/ streamClock - stream[r].since >= MaxRun

\* The next row of the cursor, or the end of it.
Row(r) ==
    /\ stream[r].step = "rows"
    /\ IF stream[r].rows = Matches
       THEN Enters(r, "leaving")
       ELSE IF Cut(r)
       THEN stream' = [stream EXCEPT ![r] = [@ EXCEPT !.step = "leaving", !.cut = TRUE]]
       ELSE stream' = [stream EXCEPT ![r].rows = @ + 1]
    /\ UNCHANGED <<lockEnd, outlived, leftLocked, refusedIdle, streamFaults, streamClock>>

\* The client goes, or the query fails, inside the try block.
Broken(r) ==
    /\ stream[r].step = "rows" /\ Enters(r, "leaving") /\ StreamFault
    /\ UNCHANGED <<lockEnd, outlived, leftLocked, refusedIdle, streamClock>>

\* The finally block deletes the key, whoever set it.
Leave(r) ==
    /\ stream[r].step = "leaving" /\ Enters(r, "over")
    /\ \/ lockEnd' = 0 /\ UNCHANGED <<leftLocked, streamFaults>>
       \/ StreamFault /\ leftLocked' = TRUE /\ UNCHANGED lockEnd
    /\ UNCHANGED <<outlived, refusedIdle, streamClock>>

StreamTick ==
    /\ streamClock < StreamTicks
    /\ streamClock' = streamClock + 1
    /\ outlived' = (outlived \/ (lockEnd = streamClock' /\ \E r \in Streams : Runs(r)))
    /\ UNCHANGED <<lockEnd, stream, leftLocked, refusedIdle, streamFaults>>

StreamNext ==
    \/ StreamTick
    \/ \E r \in Streams : Open(r) \/ Start(r) \/ LeftEarly(r) \/ Query(r) \/ Row(r) \/ Broken(r) \/ Leave(r)

StreamSpec == StreamInit /\ [][StreamNext]_streamVars

-----------------------------------------------------------------------------

\* Two streams of a user run at a time only after one ran on past its key; a
\* user without a running stream is refused only while the key of one that
\* ended without its finally block, or whose delete failed, is still there.
StreamsTakeTurns ==
    /\ outlived \/ Cardinality({r \in Streams : Runs(r)}) <= 1
    /\ refusedIdle => leftLocked

=============================================================================
