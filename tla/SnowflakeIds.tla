----------------------------- MODULE SnowflakeIds -----------------------------
(***************************************************************************)
(* Ids: a timestamp, the id of the machine and a sequence number, in this  *)
(* order.  An app process mints under a lock (infra/ids/snowflake.py); the *)
(* id service mints with a compare-and-swap of one word that holds both    *)
(* timestamp and sequence (id_service/src/main.rs); an app process asks    *)
(* the service and mints itself when the call fails (infra/ids/client.py). *)
(***************************************************************************)
EXTENDS Integers, Sequences

CONSTANTS
    Minters,    \* threads that mint; each mints once at a time
    ProcOf,     \* minter -> its process
    MachineOf,  \* process -> machine_id or NODE_ID
    Service,    \* the processes that are the Rust service
    SeqSpace,   \* sequence numbers of a millisecond
    MaxMillis,  \* bound: the clock
    MaxIds,     \* bound: ids minted
    ClockSteps, \* bound: steps of the clock backwards
    Restarts    \* bound: restarts of a process

ASSUME IdsAssumption ==
    /\ SeqSpace \in Nat \ {0}
    /\ MaxMillis \in Nat /\ ClockSteps \in Nat /\ Restarts \in Nat

Processes == {ProcOf[m] : m \in Minters}
Millis == 0..MaxMillis
\* The state of a generator before its first id: older than every clock.
Fresh == [ts |-> -1, seq |-> 0]
NoState == [ts |-> -2, seq |-> 0]

VARIABLES
    millis,     \* the clock of the host
    last,       \* process -> _last_timestamp_ms, _sequence; the service's state
    lockHolder,     \* process -> the minter that waits with the lock, or "free"
    read,       \* minter of the service -> the state it loaded, or NoState
    made,       \* minter of the service -> the state it is about to swap in
    minted,     \* history: [ts, node, seq, by, life], in the order they were returned
    stepped,    \* steps of the clock backwards
    restarted   \* process -> restarts

idVars == <<millis, last, lockHolder, read, made, minted, stepped, restarted>>

States == [ts : Millis \cup {-1}, seq : 0..SeqSpace - 1]
IdsTypeOK ==
    /\ millis \in Millis /\ last \in [Processes -> States]
    /\ lockHolder \in [Processes -> Minters \cup {"free"}]
    /\ read \in [Minters -> States \cup {NoState}]
    /\ made \in [Minters -> States \cup {NoState}]
    /\ \A i \in 1..Len(minted) : minted[i].ts \in Millis /\ minted[i].by \in Processes
    /\ stepped \in 0..ClockSteps /\ restarted \in [Processes -> 0..Restarts]

IdsInit ==
    /\ millis = 0 /\ last = [p \in Processes |-> Fresh]
    /\ lockHolder = [p \in Processes |-> "free"]
    /\ read = [m \in Minters |-> NoState] /\ made = [m \in Minters |-> NoState]
    /\ minted = <<>> /\ stepped = 0 /\ restarted = [p \in Processes |-> 0]

-----------------------------------------------------------------------------

Mints(p, s) ==
    /\ Len(minted) < MaxIds
    /\ minted' = Append(minted, [ts |-> s.ts, node |-> MachineOf[p], seq |-> s.seq, by |-> p,
                                 life |-> restarted[p]])

\* The state after one more id, at the clock read.
NextState(s, now) ==
    IF now # s.ts THEN [ts |-> now, seq |-> 0]
    ELSE IF s.seq + 1 < SeqSpace THEN [ts |-> now, seq |-> s.seq + 1]
    ELSE [ts |-> -1, seq |-> 0]

\* The sequence of this millisecond is exhausted.
Exhausted(s, now) == NextState(s, now).ts = -1

Local(m) == ProcOf[m] \notin Service

\* next_id of a process: raises while the clock is behind, takes the lock and
\* keeps it while it waits for the next millisecond.
MintLocally(m) ==
    LET p == ProcOf[m] IN
    /\ Local(m) /\ lockHolder[p] = "free" /\ millis >= last[p].ts
    /\ IF Exhausted(last[p], millis)
       THEN /\ Len(minted) < MaxIds
            /\ lockHolder' = [lockHolder EXCEPT ![p] = m]
            /\ UNCHANGED <<last, minted>>
       ELSE /\ last' = [last EXCEPT ![p] = NextState(@, millis)]
            /\ Mints(p, last'[p])
            /\ UNCHANGED lockHolder
    /\ UNCHANGED <<millis, read, made, stepped, restarted>>

\* _wait_for_next_millis ends.
WaitEnds(m) ==
    LET p == ProcOf[m] IN
    /\ Local(m) /\ lockHolder[p] = m /\ millis > last[p].ts
    /\ last' = [last EXCEPT ![p] = [ts |-> millis, seq |-> 0]]
    /\ Mints(p, last'[p])
    /\ lockHolder' = [lockHolder EXCEPT ![p] = "free"]
    /\ UNCHANGED <<millis, read, made, stepped, restarted>>

-----------------------------------------------------------------------------
(* The service. *)

\* A request arrives: state.load.
LoadState(m) ==
    /\ ~Local(m) /\ read[m] = NoState
    /\ read' = [read EXCEPT ![m] = last[ProcOf[m]]]
    /\ UNCHANGED <<millis, last, lockHolder, made, minted, stepped, restarted>>

\* The clock is read and the new state formed; the thread goes round while the
\* clock is behind, and waits while it is not past a full millisecond.
FormState(m) ==
    /\ ~Local(m) /\ read[m] # NoState /\ made[m] = NoState
    /\ millis >= read[m].ts /\ ~Exhausted(read[m], millis)
    /\ made' = [made EXCEPT ![m] = NextState(read[m], millis)]
    /\ UNCHANGED <<millis, last, lockHolder, read, minted, stepped, restarted>>

\* Mutant of Unchanged: only the timestamp of the word is compared.
UnchangedMilli(m) == last[ProcOf[m]].ts = read[m].ts

\* compare_exchange succeeds ...
Unchanged(m) == last[ProcOf[m]] = read[m]

\* ... and the id is returned, or the state found is the one to start from.
Swap(m) ==
    LET p == ProcOf[m] IN
    /\ ~Local(m) /\ made[m] # NoState
    /\ IF Unchanged(m)
       THEN /\ last' = [last EXCEPT ![p] = made[m]]
            /\ Mints(p, made[m])
            /\ read' = [read EXCEPT ![m] = NoState]
       ELSE read' = [read EXCEPT ![m] = last[p]] /\ UNCHANGED <<last, minted>>
    /\ made' = [made EXCEPT ![m] = NoState]
    /\ UNCHANGED <<millis, lockHolder, stepped, restarted>>

-----------------------------------------------------------------------------
MillisPass == millis < MaxMillis /\ millis' = millis + 1
              /\ UNCHANGED <<last, lockHolder, read, made, minted, stepped, restarted>>

\* The clock is corrected.
ClockStepsBack ==
    /\ millis > 0 /\ stepped < ClockSteps
    /\ millis' = millis - 1 /\ stepped' = stepped + 1
    /\ UNCHANGED <<last, lockHolder, read, made, minted, restarted>>

\* A process starts again and remembers no timestamp.
ProcessRestarts(p) ==
    LET its == {m \in Minters : ProcOf[m] = p} IN
    /\ restarted[p] < Restarts
    /\ restarted' = [restarted EXCEPT ![p] = @ + 1]
    /\ last' = [last EXCEPT ![p] = Fresh]
    /\ lockHolder' = [lockHolder EXCEPT ![p] = "free"]
    /\ read' = [m \in Minters |-> IF m \in its THEN NoState ELSE read[m]]
    /\ made' = [m \in Minters |-> IF m \in its THEN NoState ELSE made[m]]
    /\ UNCHANGED <<millis, minted, stepped>>

IdsNext ==
    \/ \E m \in Minters : MintLocally(m) \/ WaitEnds(m) \/ LoadState(m) \/ FormState(m) \/ Swap(m)
    \/ \E p \in Processes : ProcessRestarts(p)
    \/ MillisPass \/ ClockStepsBack

IdsSpec == IdsInit /\ [][IdsNext]_idVars

-----------------------------------------------------------------------------
\* Ids are unique however the threads of the processes interleave, a
\* millisecond's sequence runs out or the clock steps back, unless two
\* processes have one machine id or one restarted and its clock is not past
\* the ids of its earlier life; and one process returns them in increasing
\* order.
IdsUnique ==
    \A i, j \in 1..Len(minted) : i < j =>
        LET a == minted[i]
            b == minted[j]
        IN  /\ a.by # b.by /\ MachineOf[a.by] # MachineOf[b.by] =>
                  <<a.ts, a.node, a.seq>> # <<b.ts, b.node, b.seq>>
            /\ a.by = b.by /\ (a.life = b.life \/ b.ts > a.ts) =>
                  a.ts < b.ts \/ (a.ts = b.ts /\ a.seq < b.seq)

\* ... with the types of the variables.
IdsHold == IdsTypeOK /\ IdsUnique

=============================================================================
