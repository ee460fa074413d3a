--------------------------- MODULE TimePartitions ----------------------------
(***************************************************************************)
(* The time partitions of `message_receipt_log` and, but for the           *)
(* retention, of `messages` (scripts/manage_partitions.py,                 *)
(* prune_receipt_log.py): rows that find no dated partition land in        *)
(* DEFAULT; --ensure creates the partitions of the periods ahead;          *)
(* --migrate-default moves the rows of DEFAULT into dated partitions while *)
(* the application goes on writing, one committed transaction at a time;   *)
(* old partitions are dropped.  A moment is the number of its period.      *)
(***************************************************************************)
EXTENDS Naturals, FiniteSets

CONSTANTS
    PartRows,       \* rows the application writes, each once
    LastPeriod, \* bound: the last period the clock reaches
    Precreate,  \* MESSAGE_PARTITION_PRECREATE_WEEKS
    BatchRows,  \* --batch-size
    Retention,  \* RECEIPT_LOG_RETENTION_DAYS
    MaxStops    \* bound: migrations that are interrupted

ASSUME PartitionAssumption ==
    /\ IsFiniteSet(PartRows) /\ BatchRows \in Nat \ {0} /\ Precreate \in Nat
    /\ LastPeriod \in Nat /\ Retention \in Nat /\ MaxStops \in Nat

VARIABLES
    today,      \* the current period
    dated,      \* periods that have their partition
    attached,   \* DEFAULT is a partition of its parent
    default,    \* rows in DEFAULT
    placed,     \* rows in dated partitions
    period,     \* row -> period of its created_at, if it was written
    migrating,  \* where the migration is
    span,       \* [lo, hi] of the periods it creates
    before,     \* rows it counted
    moved,      \* rows it moved
    stops,      \* interrupted migrations
    gone,       \* rows of dropped partitions
    refused,    \* history: rows no table took, and whether a migration ran
    late,       \* history: a period began without its partition
    pruned,     \* history: partitions were dropped during a migration
    stranded    \* history: a migration was refused a partition, with DEFAULT detached

partVars == <<today, dated, attached, default, placed, period, migrating, span,
              before, moved, stops, gone, refused, late, pruned, stranded>>

Periods == 0..LastPeriod + Precreate
WrittenRows == default \cup placed \cup gone
InDefaultAt == {period[r] : r \in default}

PartTypeOK ==
    /\ today \in 0..LastPeriod /\ dated \subseteq Periods /\ attached \in BOOLEAN
    /\ default \subseteq PartRows /\ placed \subseteq PartRows
    /\ period \in [PartRows -> 0..LastPeriod]
    /\ migrating \in {"no", "attached", "spanned", "counted", "detached", "created", "mismatch"}
    /\ span \in [lo : Periods, hi : Periods]
    /\ before \in 0..Cardinality(PartRows) /\ moved \in 0..Cardinality(PartRows)
    /\ stops \in 0..MaxStops
    /\ gone \subseteq PartRows /\ refused \subseteq PartRows \X BOOLEAN
    /\ late \in BOOLEAN /\ pruned \in BOOLEAN /\ stranded \in BOOLEAN

\* A database of which only DEFAULT exists, as init_db leaves it.
PartInit ==
    /\ today = 0 /\ dated = {} /\ attached = TRUE
    /\ default = {} /\ placed = {} /\ period = [r \in PartRows |-> 0]
    /\ migrating = "no" /\ span = [lo |-> 0, hi |-> 0]
    /\ before = 0 /\ moved = 0 /\ stops = 0
    /\ gone = {} /\ refused = {} /\ late = FALSE /\ pruned = FALSE
    /\ stranded = FALSE

-----------------------------------------------------------------------------

\* wanted_partitions: this period and those up to the horizon.
WantedPartitions == today..(today + Precreate)

\* Mutant of PartitionsBetween: the last period is left out.
PartitionsBetweenOpen(lo, hi) == lo..(hi - 1)

\* partitions_between: the closed span.
PartitionsBetween(lo, hi) == lo..hi

\* PostgreSQL creates no partition whose rows an attached DEFAULT holds.
CanCreate(ps) == attached => (ps \ dated) \cap InDefaultAt = {}

\* PostgreSQL attaches no DEFAULT with rows of an existing partition.
CanAttach == InDefaultAt \cap dated = {}

\* An INSERT of the application: its dated partition, DEFAULT, or an error.
InsertRow(r) ==
    /\ r \notin WrittenRows /\ ~\E during \in BOOLEAN : <<r, during>> \in refused
    /\ period' = [period EXCEPT ![r] = today]
    /\ \/ today \in dated /\ placed' = placed \cup {r} /\ UNCHANGED <<default, refused>>
       \/ /\ today \notin dated /\ attached
          /\ default' = default \cup {r} /\ UNCHANGED <<placed, refused>>
       \/ /\ today \notin dated /\ ~attached
          /\ refused' = refused \cup {<<r, migrating # "no">>}
          /\ UNCHANGED <<default, placed>>
    /\ UNCHANGED <<today, dated, attached, migrating, span, before, moved, stops, late, gone, pruned, stranded>>

\* From reading the span to creating it takes less than two periods.
NextPeriod ==
    /\ today < LastPeriod
    /\ migrating \in {"spanned", "counted", "detached"} => today = span.hi
    /\ today' = today + 1
    /\ late' = (late \/ today + 1 \notin dated)
    /\ UNCHANGED <<dated, attached, default, placed, period, migrating, span,
                   before, moved, stops, refused, gone, pruned, stranded>>

\* ensure_partitions, one transaction for both parents: it fails as a whole, and
\* changes nothing, if either DEFAULT holds rows of a wanted period.
Ensure ==
    /\ ~WantedPartitions \subseteq dated
    /\ CanCreate(WantedPartitions)
    /\ dated' = dated \cup WantedPartitions
    /\ UNCHANGED <<today, attached, default, placed, period, migrating, span,
                   before, moved, stops, refused, late, gone, pruned, stranded>>

\* prune_receipt_log: partitions that end before the cutoff are dropped.
Prune ==
    LET old == {p \in dated : p + 1 + Retention <= today} IN
    /\ old # {}
    /\ dated' = dated \ old
    /\ placed' = {r \in placed : period[r] \notin old}
    /\ gone' = gone \cup (placed \ placed')
    /\ pruned' = (pruned \/ migrating # "no")
    /\ UNCHANGED <<today, attached, default, period, migrating, span, before,
                   moved, stops, refused, late, stranded>>

-----------------------------------------------------------------------------
(* migrate_default. *)

StepTo(step) == migrating' = step
Fails == migrating' = "no"

\* An orphan of an interrupted run is attached again, if PostgreSQL agrees.
Reattach ==
    /\ migrating = "no"
    /\ attached \/ CanAttach
    /\ attached' = TRUE
    /\ StepTo("attached")
    /\ UNCHANGED <<today, dated, default, placed, period, span, before, moved,
                   stops, refused, late, gone, pruned, stranded>>

\* _span_in_default, and the span is extended to now.
ReadSpan ==
    /\ migrating = "attached"
    /\ IF default = {}
       THEN Fails /\ UNCHANGED span
       ELSE /\ StepTo("spanned")
            /\ span' = [lo |-> CHOOSE p \in InDefaultAt : \A q \in InDefaultAt : p <= q,
                        hi |-> today]
    /\ UNCHANGED <<today, dated, attached, default, placed, period, before,
                   moved, stops, refused, late, gone, pruned, stranded>>

Count ==
    /\ migrating = "spanned"
    /\ before' = Cardinality(default) /\ moved' = 0
    /\ StepTo("counted")
    /\ UNCHANGED <<today, dated, attached, default, placed, period, span,
                   stops, refused, late, gone, pruned, stranded>>

Detach ==
    /\ migrating = "counted"
    /\ attached' = FALSE
    /\ StepTo("detached")
    /\ UNCHANGED <<today, dated, default, placed, period, span, before, moved,
                   stops, refused, late, gone, pruned, stranded>>

\* The transaction of CreateHistory creates the partitions ahead of the other
\* parent too.  If the other DEFAULT, whose rows are not modelled, holds one of
\* their periods, PostgreSQL refuses and the script dies: DEFAULT stays detached.
CreateRefused ==
    /\ migrating = "detached"
    /\ Fails /\ stranded' = TRUE
    /\ UNCHANGED <<today, dated, attached, default, placed, period, span, before,
                   moved, stops, refused, late, gone, pruned>>

\* The partitions of the span and those ahead, one transaction.
CreateHistory ==
    /\ migrating = "detached"
    /\ dated' = dated \cup PartitionsBetween(span.lo, span.hi) \cup WantedPartitions
    /\ StepTo("created")
    /\ UNCHANGED <<today, attached, default, placed, period, span, before,
                   moved, stops, refused, late, gone, pruned, stranded>>

\* The oldest rows, up to batch_size of them.
Batch(b) ==
    /\ b # {} /\ Cardinality(b) <= BatchRows
    /\ Cardinality(b) = BatchRows \/ b = default
    /\ \A r \in b, s \in default \ b : period[r] <= period[s]

\* Rows inserted through the parent, which is an error without a partition.
Routed(b) == IF \A r \in b : period[r] \in dated THEN b ELSE {}

\* DELETE ... RETURNING into INSERT, a committed batch, or an error.
Drain ==
    /\ migrating = "created"
    /\ \E b \in SUBSET default :
         /\ Batch(b)
         /\ IF Routed(b) # {}
            THEN /\ default' = default \ b /\ placed' = placed \cup Routed(b)
                 /\ moved' = moved + Cardinality(b)
                 /\ UNCHANGED migrating
            ELSE Fails /\ UNCHANGED <<default, placed, moved>>
    /\ UNCHANGED <<today, dated, attached, period, span, before, stops, refused, late, gone, pruned, stranded>>

\* The emptied table becomes DEFAULT again; rows that came between the count
\* and the detach make the run report a mismatch.
Attach ==
    /\ migrating = "created" /\ default = {}
    /\ attached' = TRUE
    /\ StepTo(IF moved = before THEN "no" ELSE "mismatch")
    /\ UNCHANGED <<today, dated, default, placed, period, span, before, moved,
                   stops, refused, late, gone, pruned, stranded>>

Report ==
    /\ migrating = "mismatch" /\ Fails
    /\ UNCHANGED <<today, dated, attached, default, placed, period, span,
                   before, moved, stops, refused, late, gone, pruned, stranded>>

\* The script is interrupted between two transactions.
Interrupt ==
    /\ migrating # "no" /\ stops < MaxStops
    /\ stops' = stops + 1
    /\ Fails
    /\ UNCHANGED <<today, dated, attached, default, placed, period, span,
                   before, moved, refused, late, gone, pruned, stranded>>

PartNext ==
    \/ \E r \in PartRows : InsertRow(r)
    \/ NextPeriod \/ Ensure \/ Prune
    \/ Reattach \/ ReadSpan \/ Count \/ Detach \/ CreateRefused \/ CreateHistory
    \/ Drain \/ Attach \/ Report \/ Interrupt

PartSpec == PartInit /\ [][PartNext]_partVars

-----------------------------------------------------------------------------
\* A row that was written stays in one table, and outside a migration every
\* table is one the application reads, unless a migration was interrupted, died
\* because the other parent's DEFAULT refused a partition, or had partitions
\* dropped under it by the retention.  Rows are refused only while one runs.
\* While every period begins with its partition, DEFAULT stays empty, so that
\* the partitions ahead can always be created.
RowsHaveAHome ==
    /\ default \cap placed = {}
    /\ \A r \in placed : period[r] \in dated
    /\ migrating = "no" /\ stops = 0 /\ ~pruned /\ ~stranded =>
          /\ attached /\ \A x \in refused : x[2]
          /\ ~late /\ today > 0 => default = {}

\* Partitions: every row that was written can be read.
TablesHold == PartTypeOK /\ RowsHaveAHome

=============================================================================
