---------------------------- MODULE EmbeddingQueue ----------------------------
(***************************************************************************)
(* The queue of texts to embed (vector_search/queue.py and service.py): a  *)
(* Redis list without acknowledgements.  Sends push, background flushes    *)
(* and searches pop, ask the provider and push back what failed.           *)
(***************************************************************************)
EXTENDS Integers, SequencesExt

CONSTANTS
    Texts,      \* message texts
    Unfit,      \* texts the provider answers 4xx for
    Flushes,    \* background tasks of the process
    Drains,     \* searches: they drain the queue first
    FlushSize,  \* queue_flush_size
    ChunkSize,  \* gemini_batch_size
    MaxTries,   \* embed_max_attempts
    DrainRounds,\* drain_rounds
    QueueFaults \* bound: failures of the provider, the database, Redis, the process

ASSUME EmbedAssumption ==
    /\ FlushSize \in Nat \ {0} /\ ChunkSize \in Nat \ {0} /\ MaxTries \in Nat \ {0}
    /\ DrainRounds \in Nat /\ QueueFaults \in Nat

Tasks == Flushes \cup Drains

VARIABLES
    waiting,    \* the list: [id, attempts]
    paused,     \* the backoff key
    task,       \* task -> what it holds, see TaskState
    sent,       \* texts of messages that were sent
    embedded,   \* texts whose vector is stored
    dropped,    \* texts given up
    failures,   \* history: text -> failed tries that were not a 429
    textsRefused,    \* history: texts the provider refused on their own
    textsLost,       \* history: texts a fault of Redis or of the process took
    queueFaults

embedVars == <<waiting, paused, task, sent, embedded, dropped, failures, textsRefused, textsLost, queueFaults>>

Items == [id : Texts, attempts : 0..MaxTries - 1]
IdsOf(s) == {s[i].id : i \in DOMAIN s}

\* items were popped and not asked yet; pieces are what _embed_chunk has still
\* to ask of the chunk at hand, each with the number of items behind it.
TaskState ==
    [at : {"idle", "check", "pop", "embed"}, rounds : 0..DrainRounds, budget : Nat,
     items : Seq(Items), pieces : Seq([behind : Nat, second : BOOLEAN]),
     rows : Seq(Items), back : Seq(Items), broken : BOOLEAN]
IdleTask == [at |-> "idle", rounds |-> 0, budget |-> 0, items |-> <<>>, pieces |-> <<>>,
             rows |-> <<>>, back |-> <<>>, broken |-> FALSE]

EmbedTypeOK ==
    /\ waiting \in Seq(Items) /\ paused \in BOOLEAN /\ task \in [Tasks -> TaskState]
    /\ sent \subseteq Texts /\ embedded \subseteq sent /\ dropped \subseteq sent
    /\ textsRefused \subseteq sent /\ textsLost \subseteq sent
    /\ failures \in [Texts -> 0..MaxTries] /\ queueFaults \in 0..QueueFaults

EmbedInit ==
    /\ waiting = <<>> /\ paused = FALSE /\ task = [t \in Tasks |-> IdleTask]
    /\ sent = {} /\ embedded = {} /\ dropped = {}
    /\ failures = [x \in Texts |-> 0] /\ textsRefused = {} /\ textsLost = {} /\ queueFaults = 0

-----------------------------------------------------------------------------

QueueFault == queueFaults < QueueFaults /\ queueFaults' = queueFaults + 1
Becomes(t, s) == task' = [task EXCEPT ![t] = s]

\* enqueue_message_for_embedding: RPUSH; a long queue starts a flush.
Enqueue(x) ==
    LET idle == {f \in Flushes : task[f].at = "idle"}
    IN  /\ x \notin sent
        /\ sent' = sent \cup {x}
        /\ waiting' = Append(waiting, [id |-> x, attempts |-> 0])
        /\ IF Len(waiting') >= FlushSize /\ idle # {}
           THEN Becomes(CHOOSE f \in idle : TRUE, [IdleTask EXCEPT !.at = "check"])
           ELSE UNCHANGED task
        /\ UNCHANGED <<paused, embedded, dropped, failures, textsRefused, textsLost, queueFaults>>

\* The worker dies, or Redis fails, between the commit of the message and RPUSH.
NeverQueued(x) ==
    /\ x \notin sent /\ QueueFault
    /\ sent' = sent \cup {x} /\ textsLost' = textsLost \cup {x}
    /\ UNCHANGED <<waiting, paused, task, embedded, dropped, failures, textsRefused>>

Search(d) ==
    /\ d \in Drains /\ task[d].at = "idle" /\ waiting # <<>>
    /\ Becomes(d, [IdleTask EXCEPT !.at = "check", !.rounds = DrainRounds])
    /\ UNCHANGED <<waiting, paused, sent, embedded, dropped, failures, textsRefused, textsLost, queueFaults>>

\* The backoff key ends a flush; a drain takes LLEN for the round's budget.
Check(t) ==
    LET left == task[t].rounds
    IN  /\ task[t].at = "check"
        /\ Becomes(t, IF paused \/ (t \in Drains /\ (left = 0 \/ waiting = <<>>)) THEN IdleTask
                      ELSE IF t \in Flushes THEN [IdleTask EXCEPT !.at = "pop", !.budget = FlushSize]
                      ELSE [IdleTask EXCEPT !.at = "pop", !.budget = Len(waiting), !.rounds = left - 1])
        /\ UNCHANGED <<waiting, paused, sent, embedded, dropped, failures, textsRefused, textsLost, queueFaults>>

Piece(behind, second) == [behind |-> behind, second |-> second]

\* The next chunk of the items of a flush, in one piece.
Chunk(items) == <<Piece(IF Len(items) > ChunkSize THEN Len(items) - ChunkSize ELSE 0, FALSE)>>

\* pop_batch; an empty queue ends a flush and the round of a drain.
Pop(t) ==
    LET n == Min({FlushSize, task[t].budget, Len(waiting)})
        batch == SubSeq(waiting, 1, n)
    IN  /\ task[t].at = "pop"
        /\ waiting' = SubSeq(waiting, n + 1, Len(waiting))
        /\ Becomes(t, IF n > 0 THEN [task[t] EXCEPT !.at = "embed", !.budget = @ - n,
                                         !.items = batch, !.pieces = Chunk(batch)]
                      ELSE IF t \in Drains THEN [task[t] EXCEPT !.at = "check"] ELSE IdleTask)
        /\ UNCHANGED <<paused, sent, embedded, dropped, failures, textsRefused, textsLost, queueFaults>>

\* _bump_or_drop: one more failed try; the last allowed one drops the text.
LastTry(it) == it.attempts + 1 >= MaxTries
Nth(K, j) == CHOOSE i \in K : Cardinality({k \in K : k <= i}) = j
Again(s) == LET K == {i \in DOMAIN s : ~LastTry(s[i])}
            IN  [j \in 1..Cardinality(K) |-> [s[Nth(K, j)] EXCEPT !.attempts = @ + 1]]
Charge(s) ==
    /\ dropped' = dropped \cup {s[i].id : i \in {j \in DOMAIN s : LastTry(s[j])}}
    /\ failures' = [x \in Texts |-> failures[x] + (IF x \in IdsOf(s) THEN 1 ELSE 0)]

\* A 429 is not the texts' fault: they go back as they are.
AfterQuota(s) == s

\* Mutant of Unasked: the second half is forgotten when the first half met a 429.
UnaskedForgets(s) == <<>>

\* The second half that is not asked goes back as it is.
Unasked(s) == s

\* _embed_chunk on the next piece.  A refused piece is asked again in halves,
\* the second one only while no 429 pauses the queue.
EmbedPiece(t) ==
    LET me == task[t]
        behind == Head(me.pieces).behind
        n == Len(me.items) - behind
        half == n \div 2
        s == SubSeq(me.items, 1, n)
        rest == [me EXCEPT !.items = SubSeq(@, n + 1, Len(@)), !.pieces = Tail(@)]
        Refuse == IF n = 1
                  THEN /\ Becomes(t, rest)
                       /\ dropped' = dropped \cup IdsOf(s) /\ textsRefused' = textsRefused \cup IdsOf(s)
                  ELSE /\ Becomes(t, [me EXCEPT !.pieces =
                             <<Piece(behind + n - half, FALSE), Piece(behind, TRUE)>> \o Tail(@)])
                       /\ UNCHANGED <<dropped, textsRefused>>
    IN  /\ me.at = "embed" /\ me.pieces # <<>>
        /\ \/ /\ Head(me.pieces).second /\ paused
              /\ Becomes(t, [rest EXCEPT !.back = @ \o Unasked(s)])
              /\ UNCHANGED <<paused, dropped, failures, textsRefused, queueFaults>>
           \/ /\ ~(Head(me.pieces).second /\ paused)
              /\ \/ /\ IdsOf(s) \cap Unfit = {}
                    /\ Becomes(t, [rest EXCEPT !.rows = @ \o s])
                    /\ UNCHANGED <<paused, dropped, failures, textsRefused, queueFaults>>
                 \/ /\ IdsOf(s) \cap Unfit # {}
                    /\ Refuse /\ UNCHANGED <<paused, failures, queueFaults>>
                 \/ /\ QueueFault
                    /\ Becomes(t, [rest EXCEPT !.back = @ \o AfterQuota(s)])
                    /\ paused' = TRUE /\ UNCHANGED <<dropped, failures, textsRefused>>
                 \/ /\ QueueFault
                    /\ Becomes(t, [rest EXCEPT !.back = @ \o Again(s)])
                    /\ Charge(s) /\ UNCHANGED <<paused, textsRefused>>
        /\ UNCHANGED <<waiting, sent, embedded, textsLost>>

\* update_embeddings of one chunk.  The session is not rolled back after an
\* error, so every later chunk of the flush fails as well.
Store(t) ==
    LET me == task[t]
        next == [me EXCEPT !.rows = <<>>]
    IN  /\ me.at = "embed" /\ me.pieces = <<>> /\ me.rows # <<>>
        /\ \/ /\ ~me.broken
              /\ embedded' = embedded \cup IdsOf(me.rows)
              /\ Becomes(t, next)
              /\ UNCHANGED <<dropped, failures, queueFaults>>
           \/ /\ IF me.broken THEN UNCHANGED queueFaults ELSE QueueFault
              /\ Becomes(t, [next EXCEPT !.back = @ \o Again(me.rows), !.broken = TRUE])
              /\ Charge(me.rows) /\ UNCHANGED embedded
        /\ UNCHANGED <<waiting, paused, sent, textsRefused, textsLost>>

\* The next chunk of the flush.
Advance(t) ==
    LET me == task[t]
    IN  /\ me.at = "embed" /\ me.pieces = <<>> /\ me.rows = <<>> /\ me.items # <<>>
        /\ Becomes(t, [me EXCEPT !.pieces = Chunk(me.items)])
        /\ UNCHANGED <<waiting, paused, sent, embedded, dropped, failures, textsRefused, textsLost, queueFaults>>

\* requeue pushes back what failed, all at once and at the end; a drain goes on
\* with its round, or with the next one.
Requeue(t) ==
    LET me == task[t]
    IN  /\ me.at = "embed" /\ me.pieces = <<>> /\ me.rows = <<>> /\ me.items = <<>>
        /\ \/ /\ waiting' = waiting \o me.back
              /\ Becomes(t, IF t \in Flushes THEN IdleTask
                            ELSE [IdleTask EXCEPT !.at = IF me.budget > 0 THEN "pop" ELSE "check",
                                              !.rounds = me.rounds, !.budget = me.budget])
              /\ UNCHANGED <<textsLost, queueFaults>>
           \/ /\ me.back # <<>> /\ QueueFault
              /\ textsLost' = textsLost \cup IdsOf(me.back)
              /\ Becomes(t, IdleTask) /\ UNCHANGED waiting
        /\ UNCHANGED <<paused, sent, embedded, dropped, failures, textsRefused>>

Held(t) == IdsOf(task[t].items) \cup IdsOf(task[t].rows) \cup IdsOf(task[t].back)

\* Redis fails a task: EXISTS or LLEN at its start, the LPOP, or, with texts in
\* hand, the SET of the backoff key after a 429 or the EXISTS between two halves
\* (only the provider's errors are caught there).  What it held is gone.
RedisFails(t) ==
    LET asking == task[t].at = "embed"
    IN  /\ task[t].at # "idle" /\ (asking => task[t].pieces # <<>>)
        /\ QueueFault
        /\ textsLost' = textsLost \cup Held(t)
        /\ paused' \in (IF asking THEN {paused, TRUE} ELSE {paused})
        /\ Becomes(t, IdleTask)
        /\ UNCHANGED <<waiting, sent, embedded, dropped, failures, textsRefused>>

\* LPOP took the batch, and its answer never came.
BatchIsLost(t) ==
    LET n == Min({FlushSize, task[t].budget, Len(waiting)})
    IN  /\ task[t].at = "pop" /\ n > 0
        /\ QueueFault
        /\ waiting' = SubSeq(waiting, n + 1, Len(waiting))
        /\ textsLost' = textsLost \cup IdsOf(SubSeq(waiting, 1, n))
        /\ Becomes(t, IdleTask)
        /\ UNCHANGED <<paused, sent, embedded, dropped, failures, textsRefused>>

\* The process dies with every flush and every drain.
Die ==
    /\ \E t \in Tasks : task[t].at = "embed"
    /\ QueueFault
    /\ textsLost' = textsLost \cup UNION {Held(t) : t \in Tasks}
    /\ task' = [t \in Tasks |-> IdleTask]
    /\ UNCHANGED <<waiting, paused, sent, embedded, dropped, failures, textsRefused>>

BackoffEnds ==
    /\ paused /\ paused' = FALSE
    /\ UNCHANGED <<waiting, task, sent, embedded, dropped, failures, textsRefused, textsLost, queueFaults>>

EmbedNext ==
    \/ \E x \in Texts : Enqueue(x) \/ NeverQueued(x)
    \/ \E d \in Drains : Search(d)
    \/ \E t \in Tasks : Check(t) \/ Pop(t) \/ EmbedPiece(t) \/ Store(t) \/ Advance(t) \/ Requeue(t)
                          \/ RedisFails(t) \/ BatchIsLost(t)
    \/ Die \/ BackoffEnds

EmbedSpec == EmbedInit /\ [][EmbedNext]_embedVars

-----------------------------------------------------------------------------

Copies(x) == Cardinality({i \in DOMAIN waiting : waiting[i].id = x})
               + Cardinality({t \in Tasks : x \in Held(t)})

\* However flushes and searches share the queue, a text that was sent is
\* embedded, given up, or in one place from where it will be tried again, and
\* never in two; only a failure of Redis under the task that holds the text, or
\* a death of the process, loses one.
TextIsKept ==
    \A x \in Texts : /\ Copies(x) <= 1
                     /\ x \in sent \ (embedded \cup dropped \cup textsLost) => Copies(x) = 1

\* A text is given up for its own failures only: the provider refused it alone,
\* or it used up its tries.  A 429 costs a text none.
DroppedForCause ==
    \A x \in dropped : x \in textsRefused \/ failures[x] >= MaxTries
=============================================================================
