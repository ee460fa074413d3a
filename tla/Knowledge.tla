------------------------------ MODULE Knowledge ------------------------------
(***************************************************************************)
(* The knowledge base of an agent (agents/knowledge_service.py): documents *)
(* are committed from an uploaded object or from text, within a quota that *)
(* is counted first, and deleted object first, row second.                 *)
(***************************************************************************)
EXTENDS Integers, FiniteSets

CONSTANTS
    Files,      \* keys of objects
    Commits,    \* commits of documents; each makes one
    Removals,   \* requests to delete one
    MaxDocs,    \* AGENT_KNOWLEDGE_MAX_DOCUMENTS_PER_AGENT
    KnowFaults  \* bound: failures of storage and of the provider, requests that die

NoFile == "no file"

ASSUME KnowledgeAssumption == NoFile \notin Files /\ MaxDocs \in Nat /\ KnowFaults \in Nat

VARIABLES
    bucket,     \* objects in storage
    docs,       \* committed documents: commit -> [file, embedded], a partial function
    commit,     \* commit -> [step, file]
    removal,    \* removal -> [step, doc]
    crowded,    \* history: two commits were between their count and their commit
    shares,     \* history: two commits named one object
    stranded,   \* history: documents whose object a removal deleted that then died
    unread,     \* history: commits that named an object that was not in storage
    knowFaults

knowVars == <<bucket, docs, commit, removal, crowded, shares, stranded, unread, knowFaults>>

NoCommit == [step |-> "unsent", file |-> NoFile]
NoRemoval == [step |-> "unsent", doc |-> "none"]
KnowTypeOK ==
    /\ bucket \subseteq Files /\ DOMAIN docs \subseteq Commits
    /\ \A d \in DOMAIN docs : docs[d].file \in Files \cup {NoFile} /\ docs[d].embedded \in BOOLEAN
    /\ \A q \in Commits : commit[q].step \in {"unsent", "fetched", "counted", "flushed", "unembedded", "done", "refused"}
    /\ \A r \in Removals : removal[r].step \in {"unsent", "found", "dropped", "done"}
    /\ crowded \in BOOLEAN /\ shares \in BOOLEAN /\ stranded \subseteq Commits
    /\ unread \subseteq Commits /\ knowFaults \in 0..KnowFaults

KnowInit ==
    /\ bucket \in SUBSET Files /\ docs = <<>>
    /\ commit = [q \in Commits |-> NoCommit] /\ removal = [r \in Removals |-> NoRemoval]
    /\ crowded = FALSE /\ shares = FALSE /\ stranded = {} /\ unread = {} /\ knowFaults = 0

-----------------------------------------------------------------------------

KnowFault == knowFaults < KnowFaults /\ knowFaults' = knowFaults + 1
Step(q, s) == commit' = [commit EXCEPT ![q].step = s]
Saved(q, vectors) == docs' = [d \in DOMAIN docs \cup {q} |->
    IF d = q THEN [file |-> commit[q].file, embedded |-> vectors] ELSE docs[d]]

\* A client puts the object of its ticket, at any time.
Upload(f) ==
    /\ f \notin bucket /\ bucket' = bucket \cup {f}
    /\ UNCHANGED <<docs, commit, removal, crowded, shares, stranded, unread, knowFaults>>

\* commit_knowledge_document reads the object of a text, to split it into
\* chunks; the chunks of a PDF come with the request and its object is never
\* looked at.
CommitFile(q) ==
    /\ commit[q].step = "unsent"
    /\ \E f \in Files, pdf \in BOOLEAN :
         /\ commit' = [commit EXCEPT ![q] =
                [step |-> IF pdf \/ f \in bucket THEN "fetched" ELSE "refused", file |-> f]]
         /\ shares' = (shares \/ \E p \in Commits : commit[p].file = f)
         /\ unread' = IF f \in bucket THEN unread ELSE unread \cup {q}
    /\ UNCHANGED <<bucket, docs, removal, crowded, stranded, knowFaults>>

\* commit_knowledge_text, called by a tool inside a turn.
CommitText(q) ==
    /\ commit[q].step = "unsent"
    /\ commit' = [commit EXCEPT ![q] = [step |-> "fetched", file |-> NoFile]]
    /\ UNCHANGED <<bucket, docs, removal, crowded, shares, stranded, unread, knowFaults>>

\* Mutant of WithinQuota: the document to add is not counted.
WithinQuotaLate == Cardinality(DOMAIN docs) <= MaxDocs

\* check_knowledge_quota counts committed rows.
WithinQuota == Cardinality(DOMAIN docs) < MaxDocs

CheckQuota(q) ==
    /\ commit[q].step = "fetched"
    /\ Step(q, IF WithinQuota THEN "counted" ELSE "refused")
    /\ crowded' = (crowded \/ \E p \in Commits : commit[p].step \in {"counted", "flushed", "unembedded"})
    /\ UNCHANGED <<bucket, docs, removal, shares, stranded, unread, knowFaults>>

\* The document and its chunks are flushed, not committed.
FlushRows(q) ==
    /\ commit[q].step = "counted" /\ Step(q, "flushed")
    /\ UNCHANGED <<bucket, docs, removal, crowded, shares, stranded, unread, knowFaults>>

\* _embed_chunks_best_effort: with vectors the session commits here; without,
\* the chunks stay unembedded and the caller has to commit.
Embed(q) ==
    /\ commit[q].step = "flushed"
    /\ \/ Saved(q, TRUE) /\ Step(q, "done") /\ UNCHANGED knowFaults
       \/ KnowFault /\ Step(q, "unembedded") /\ UNCHANGED docs
    /\ UNCHANGED <<bucket, removal, crowded, shares, stranded, unread>>

\* The router's commit, or the next one of the turn.
CommitUnembedded(q) ==
    /\ commit[q].step = "unembedded"
    /\ Saved(q, FALSE) /\ Step(q, "done")
    /\ UNCHANGED <<bucket, removal, crowded, shares, stranded, unread, knowFaults>>

CommitDies(q) ==
    /\ commit[q].step \in {"counted", "flushed", "unembedded"} /\ KnowFault
    /\ Step(q, "refused")
    /\ UNCHANGED <<bucket, docs, removal, crowded, shares, stranded, unread>>

\* get_knowledge_document
FindDoc(r) ==
    /\ removal[r].step = "unsent"
    /\ \E d \in DOMAIN docs : removal' = [removal EXCEPT ![r] = [step |-> "found", doc |-> d]]
    /\ UNCHANGED <<bucket, docs, commit, crowded, shares, stranded, unread, knowFaults>>

FileOf(r) == IF removal[r].doc \in DOMAIN docs THEN docs[removal[r].doc].file ELSE commit[removal[r].doc].file

\* The object goes first; a failure leaves it behind.
DropObject(r) ==
    /\ removal[r].step = "found"
    /\ \/ bucket' = bucket \ {FileOf(r)} /\ UNCHANGED knowFaults
       \/ FileOf(r) # NoFile /\ KnowFault /\ UNCHANGED bucket
    /\ removal' = [removal EXCEPT ![r].step = "dropped"]
    /\ UNCHANGED <<docs, commit, crowded, shares, stranded, unread>>

\* The row goes with its chunks.
RowGoes(r) == docs' = [d \in DOMAIN docs \ {removal[r].doc} |-> docs[d]]

DropRow(r) ==
    /\ removal[r].step = "dropped" /\ RowGoes(r)
    /\ removal' = [removal EXCEPT ![r].step = "done"]
    /\ UNCHANGED <<bucket, commit, crowded, shares, stranded, unread, knowFaults>>

RemovalDies(r) ==
    /\ removal[r].step \in {"found", "dropped"} /\ KnowFault
    /\ removal' = [removal EXCEPT ![r].step = "done"]
    /\ stranded' = IF removal[r].step = "dropped" THEN stranded \cup {removal[r].doc} ELSE stranded
    /\ UNCHANGED <<bucket, docs, commit, crowded, shares, unread>>

KnowNext ==
    \/ \E f \in Files : Upload(f)
    \/ \E q \in Commits : \/ CommitFile(q) \/ CommitText(q) \/ CheckQuota(q) \/ FlushRows(q)
                          \/ Embed(q) \/ CommitUnembedded(q) \/ CommitDies(q)
    \/ \E r \in Removals : FindDoc(r) \/ DropObject(r) \/ DropRow(r) \/ RemovalDies(r)

KnowSpec == KnowInit /\ [][KnowNext]_knowVars

-----------------------------------------------------------------------------

\* An agent has no more documents than the quota, unless two commits counted
\* before either of them committed.
QuotaIsKept == crowded \/ Cardinality(DOMAIN docs) <= MaxDocs

\* A document made from a file has its object, unless a removal is between the
\* object and the row, or died there, or two commits named the object, or the
\* document is a PDF committed before its object was put.
DocHasItsFile ==
    \A d \in DOMAIN docs :
        \/ docs[d].file \in bucket \cup {NoFile} \/ shares \/ d \in unread
        \/ d \in stranded \/ \E r \in Removals : removal[r].doc = d /\ removal[r].step = "dropped"

=============================================================================
