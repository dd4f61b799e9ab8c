-------------------------- MODULE ArtifactDocuments --------------------------
(* The versions of one generated artifact and of an artifact derived from   *)
(* it (a translation or a variant), and their approval: the routes of       *)
(* services/gateway/routers/artifact_documents.py over                      *)
(* artifact_document_store.py, artifact_document_edit_service.py,           *)
(* artifact_language_version_service.py, artifact_approval_service.py and   *)
(* review_note_store.py, next to the graph that persists what it generates  *)
(* (artifact_document_content_store.py).                                    *)
(*                                                                          *)
(* Each request is a handler with a transaction of its own, interleaved at  *)
(* its statements.  A statement sees what was committed before it (READ     *)
(* COMMITTED).  Documents are unique per version: an insert fails on a      *)
(* committed row of the same version and waits for an uncommitted one.      *)
EXTENDS Naturals, FiniteSets

CONSTANTS
    Requests,     \* teacher requests, each made once
    Generations,  \* artifact_generation_id values of the run's graph
    Notes,        \* blocking review notes
    NoDoc         \* no document of that version; nobody holds the lock

Lineages == {"source", "derived"}
MaxVersion == 1 + Cardinality(Requests)
Versions == 1..MaxVersion
\* content: who wrote it; base: the version its author started from.
Docs == [content : Requests \cup Generations, base : 0..MaxVersion]

ASSUME DocumentAssumption ==
    /\ IsFiniteSet(Requests)
    /\ Requests \cap Generations = {}
    /\ NoDoc \notin Docs /\ NoDoc \notin Requests

VARIABLES
    docs,       \* committed artifact_documents rows
    approvals,  \* committed content_approvals rows: lineage and version
    notes,      \* state of each review note, and the lineage it is on
    generated,  \* what became of each generation
    pc,         \* where each request is
    line,       \* the lineage it works on
    draft,      \* the document it would write
    seen,       \* the head it read when it numbered the new version
    todo,       \* lineages an approval still has to look at
    marks,      \* approvals a request inserted and did not commit yet
    lock,       \* holder of the advisory lock of each lineage
    blockers    \* history: notes open without interruption since it began

docVars == <<docs, generated>>
noteVars == <<approvals, notes>>
editVars == <<line, draft, seen, lock>>
okVars == <<todo, marks, blockers>>
vars == <<docVars, noteVars, pc, editVars, okVars>>

Steps == {"idle", "latest", "lock", "insert", "commit", "source", "head", "notes",
          "done"}
NoDraft == [content |-> NoDoc, base |-> 0]

DocumentInit ==
    /\ docs = [l \in Lineages |-> [v \in Versions |-> NoDoc]]
    /\ approvals = {}
    /\ notes = [n \in Notes |-> <<"absent", "source">>]
    /\ generated = [g \in Generations |-> "no"]
    /\ pc = [q \in Requests |-> "idle"]
    /\ line = [q \in Requests |-> "source"]
    /\ draft = [q \in Requests |-> NoDraft]
    /\ seen = [q \in Requests |-> 0]
    /\ todo = [q \in Requests |-> {}]
    /\ marks = [q \in Requests |-> {}]
    /\ lock = [l \in Lineages |-> NoDoc]
    /\ blockers = [q \in Requests |-> {}]

-----------------------------------------------------------------------------
(* The store.                                                               *)

Exists(l, v) == v \in Versions /\ docs[l][v] # NoDoc

\* get_latest, 0 when the artifact has no version.
Head(l) == CHOOSE v \in 0..MaxVersion :
    /\ v = 0 \/ Exists(l, v)
    /\ \A w \in Versions : Exists(l, w) => w <= v

\* has_open_blocking.
OpenNotes(l) == {n \in Notes : notes[n] = <<"open", l>>}

\* Requests whose uncommitted row has the version q is about to insert.
Rivals(q) ==
    {r \in Requests \ {q} : pc[r] = "commit" /\ line[r] = line[q] /\ seen[r] = seen[q]}

\* Mutation of Unlocked: a session-level lock, released only after a commit.
Unlocked_OnCommit(q) ==
    [l \in Lineages |-> IF lock[l] = q /\ pc[q] = "commit" THEN NoDoc ELSE lock[l]]

\* The transaction ends: advisory locks go with it.
Unlocked(q) == [l \in Lineages |-> IF lock[l] = q THEN NoDoc ELSE lock[l]]

EndRequest(q) ==
    /\ pc' = [pc EXCEPT ![q] = "done"]
    /\ lock' = Unlocked(q)
    /\ draft' = [draft EXCEPT ![q] = NoDraft]
    /\ marks' = [marks EXCEPT ![q] = {}]
    /\ todo' = [todo EXCEPT ![q] = {}]
    /\ blockers' = [blockers EXCEPT ![q] = {}]
    /\ line' = [line EXCEPT ![q] = "source"]
    /\ seen' = [seen EXCEPT ![q] = 0]

-----------------------------------------------------------------------------
(* Generation: GatewayArtifactDocumentContentStore.persist_result.          *)

\* A generated document always has version 1 and artifact id "<type>-1".  The
\* insert ignores a row of the same document id, that is of this generation.
Generate(g) ==
    /\ generated[g] = "no"
    /\ Head("source") = 0
    /\ docs' = [docs EXCEPT !["source"][1] = [content |-> g, base |-> 0]]
    /\ generated' = [generated EXCEPT ![g] = "stored"]
    /\ UNCHANGED <<noteVars, pc, editVars, okVars>>

\* Mutation of GenerateAgain: the insert updates the row on conflict.
GenerateAgain_Upsert(g) ==
    /\ generated[g] = "no"
    /\ Head("source") # 0
    /\ docs' = [docs EXCEPT !["source"][1] = [content |-> g, base |-> 0]]
    /\ generated' = [generated EXCEPT ![g] = "stored"]
    /\ UNCHANGED <<noteVars, pc, editVars, okVars>>

\* A later generation meets uq_artifact_documents_version: IntegrityError, which
\* generate_one_artifact does not catch.
GenerateAgain(g) ==
    /\ generated[g] = "no"
    /\ Head("source") # 0
    /\ generated' = [generated EXCEPT ![g] = "refused"]
    /\ UNCHANGED <<docs, noteVars, pc, editVars, okVars>>

-----------------------------------------------------------------------------
(* Editing, restoring and deriving.                                         *)

\* edit_artifact_document_route: the teacher has version b on the screen.
Edit(q, l, b) ==
    /\ pc[q] = "idle" /\ Exists(l, b)
    /\ pc' = [pc EXCEPT ![q] = "latest"]
    /\ line' = [line EXCEPT ![q] = l]
    /\ draft' = [draft EXCEPT ![q] = [content |-> q, base |-> b]]
    /\ UNCHANGED <<docVars, noteVars, seen, lock, okVars>>

\* restore_artifact_document: the payload of version t, based on the head of
\* the same read.
Restore(q, l, t) ==
    /\ pc[q] = "idle" /\ Exists(l, t)
    /\ pc' = [pc EXCEPT ![q] = "latest"]
    /\ line' = [line EXCEPT ![q] = l]
    /\ draft' = [draft EXCEPT ![q] = [content |-> docs[l][t].content, base |-> Head(l)]]
    /\ UNCHANGED <<docVars, noteVars, seen, lock, okVars>>

\* edit_artifact_document numbers the new version before it takes the lock.
ReadLatest(q) ==
    /\ pc[q] = "latest"
    /\ seen' = [seen EXCEPT ![q] = Head(line[q])]
    /\ pc' = [pc EXCEPT ![q] = "lock"]
    /\ UNCHANGED <<docVars, noteVars, line, draft, lock, okVars>>

\* create_language_version and create_content_variant need a source version ...
Derive(q) ==
    /\ pc[q] = "idle" /\ Head("source") # 0
    /\ pc' = [pc EXCEPT ![q] = "source"]
    /\ line' = [line EXCEPT ![q] = "derived"]
    /\ draft' = [draft EXCEPT ![q] = [content |-> q, base |-> 0]]
    /\ UNCHANGED <<docVars, noteVars, seen, lock, okVars>>

\* ... and then read the head of the derived artifact.  When it has none yet
\* the first version is persisted without the lock.
ReadDerived(q) ==
    /\ pc[q] = "source"
    /\ seen' = [seen EXCEPT ![q] = Head("derived")]
    /\ draft' = [draft EXCEPT ![q].base = Head("derived")]
    /\ pc' = [pc EXCEPT ![q] = IF Head("derived") = 0 THEN "insert" ELSE "lock"]
    /\ UNCHANGED <<docVars, noteVars, line, lock, okVars>>

\* Mutation of StillHead: any version not newer than the head will do.
StillHead_Older(q) == draft[q].base <= Head(line[q])

StillHead(q) == Head(line[q]) = draft[q].base

\* create_edit: the lock, then the head again.
LockAndCheck(q) ==
    /\ pc[q] = "lock" /\ lock[line[q]] = NoDoc
    /\ \/ /\ StillHead(q)
          /\ lock' = [lock EXCEPT ![line[q]] = q]
          /\ pc' = [pc EXCEPT ![q] = "insert"]
          /\ UNCHANGED <<docVars, noteVars, line, draft, seen, okVars>>
       \/ /\ ~StillHead(q)   \* StaleArtifactVersionError, 409
          /\ EndRequest(q)
          /\ UNCHANGED <<docVars, noteVars>>

Insert(q) ==
    /\ pc[q] = "insert" /\ Rivals(q) = {}
    /\ \/ /\ ~Exists(line[q], seen[q] + 1)
          /\ pc' = [pc EXCEPT ![q] = "commit"]
          /\ UNCHANGED <<docVars, noteVars, editVars, okVars>>
       \/ /\ Exists(line[q], seen[q] + 1)   \* IntegrityError, 500
          /\ EndRequest(q)
          /\ UNCHANGED <<docVars, noteVars>>

CommitVersion(q) ==
    /\ pc[q] = "commit"
    /\ docs' = [docs EXCEPT ![line[q]][seen[q] + 1] = draft[q]]
    /\ EndRequest(q)
    /\ UNCHANGED <<generated, noteVars>>

-----------------------------------------------------------------------------
(* Review notes and approval.                                               *)

OpenNote(n, l) ==
    /\ notes[n][1] = "absent" /\ Head(l) # 0
    /\ notes' = [notes EXCEPT ![n] = <<"open", l>>]
    /\ UNCHANGED <<docVars, approvals, pc, editVars, okVars>>

ResolveNote(n) ==
    /\ notes[n][1] = "open"
    /\ notes' = [notes EXCEPT ![n] = <<"resolved", @[2]>>]
    /\ blockers' = [q \in Requests |-> blockers[q] \ {n}]
    /\ UNCHANGED <<docVars, approvals, pc, editVars, todo, marks>>

AllOpen == UNION {OpenNotes(l) : l \in Lineages}

\* approve_artifact: version v of lineage l, which the teacher has seen.
Approve(q, l, v) ==
    /\ pc[q] = "idle" /\ Exists(l, v)
    /\ pc' = [pc EXCEPT ![q] = IF Head(l) = v THEN "notes" ELSE "done"]   \* 409
    /\ todo' = [todo EXCEPT ![q] = IF Head(l) = v THEN {l} ELSE {}]
    /\ blockers' = [blockers EXCEPT ![q] = IF Head(l) = v THEN AllOpen ELSE {}]
    /\ seen' = [seen EXCEPT ![q] = v]
    /\ line' = [line EXCEPT ![q] = l]
    /\ UNCHANGED <<docVars, noteVars, draft, lock, marks>>

\* approve_all_current_route over the artifacts the request lists.
ApproveAll(q) ==
    /\ pc[q] = "idle"
    /\ pc' = [pc EXCEPT ![q] = "head"]
    /\ todo' = [todo EXCEPT ![q] = Lineages]
    /\ blockers' = [blockers EXCEPT ![q] = AllOpen]
    /\ UNCHANGED <<docVars, noteVars, editVars, marks>>

\* Mutation of ReadHead: an artifact without a version is not skipped.
ReadHead_NoVersionToo(q, l) ==
    /\ pc[q] = "head" /\ l \in todo[q]
    /\ line' = [line EXCEPT ![q] = l]
    /\ seen' = [seen EXCEPT ![q] = Head(l)]
    /\ pc' = [pc EXCEPT ![q] = "notes"]
    /\ UNCHANGED <<docVars, noteVars, draft, lock, okVars>>

\* The head of the next artifact; one without a version is reported blocked.
ReadHead(q, l) ==
    /\ pc[q] = "head" /\ l \in todo[q]
    /\ \/ /\ Head(l) = 0
          /\ todo' = [todo EXCEPT ![q] = @ \ {l}]
          /\ UNCHANGED <<pc, line, seen>>
       \/ /\ Head(l) # 0
          /\ line' = [line EXCEPT ![q] = l]
          /\ seen' = [seen EXCEPT ![q] = Head(l)]
          /\ pc' = [pc EXCEPT ![q] = "notes"]
          /\ UNCHANGED todo
    /\ UNCHANGED <<docVars, noteVars, draft, lock, marks, blockers>>

\* Mutation of Blocked: the notes of a derived artifact are not looked up.
Blocked_NotOnDerived(l) == l = "source" /\ OpenNotes(l) # {}

Blocked(l) == OpenNotes(l) # {}

\* An approval of one artifact answers 409 when blocked, one of many skips it.
CheckNotes(q) ==
    /\ pc[q] = "notes"
    /\ marks' = [marks EXCEPT ![q] = IF Blocked(line[q]) THEN @ ELSE @ \cup {<<line[q], seen[q]>>}]
    /\ todo' = [todo EXCEPT ![q] = @ \ {line[q]}]
    /\ pc' = [pc EXCEPT ![q] = "head"]
    /\ UNCHANGED <<docVars, noteVars, editVars, blockers>>

CommitApproval(q) ==
    /\ pc[q] = "head" /\ todo[q] = {}
    /\ approvals' = approvals \cup marks[q]
    /\ EndRequest(q)
    /\ UNCHANGED <<docVars, notes>>

\* The client or the process goes away before the commit.
RequestLost(q) ==
    /\ pc[q] \notin {"idle", "done"}
    /\ EndRequest(q)
    /\ UNCHANGED <<docVars, noteVars>>

-----------------------------------------------------------------------------

Handle(q) ==
    \/ ReadLatest(q) \/ ReadDerived(q) \/ LockAndCheck(q) \/ Insert(q) \/ CommitVersion(q)
    \/ (\E l \in Lineages : ReadHead(q, l)) \/ CheckNotes(q) \/ CommitApproval(q)

DocumentNext ==
    \/ \E q \in Requests : Handle(q) \/ Derive(q) \/ ApproveAll(q) \/ RequestLost(q)
    \/ \E q \in Requests, l \in Lineages, v \in Versions :
        Edit(q, l, v) \/ Restore(q, l, v) \/ Approve(q, l, v)
    \/ \E g \in Generations : Generate(g) \/ GenerateAgain(g)
    \/ \E n \in Notes : ResolveNote(n) \/ \E l \in Lineages : OpenNote(n, l)

DocumentSpec == DocumentInit /\ [][DocumentNext]_vars

-----------------------------------------------------------------------------
(* Properties.                                                              *)

\* Types, and what a request has at each of its steps.
DocumentTypeOK ==
    /\ docs \in [Lineages -> [Versions -> Docs \cup {NoDoc}]]
    /\ approvals \subseteq Lineages \X Versions
    /\ notes \in [Notes -> {"absent", "open", "resolved"} \X Lineages]
    /\ generated \in [Generations -> {"no", "stored", "refused"}]
    /\ pc \in [Requests -> Steps]
    /\ line \in [Requests -> Lineages]
    /\ draft \in [Requests -> Docs \cup {NoDraft}]
    /\ seen \in [Requests -> 0..MaxVersion]
    /\ todo \in [Requests -> SUBSET Lineages]
    /\ marks \in [Requests -> SUBSET (Lineages \X Versions)]
    /\ lock \in [Lineages -> Requests \cup {NoDoc}]
    /\ blockers \in [Requests -> SUBSET Notes]

\* No edit is lost: every version was written by someone who had the version
\* right before it in hand, although the version is numbered from a read made
\* before the lock and the first derived version takes no lock (create_edit
\* 168-188, edit_artifact_document 58-94, _persist_or_extend 92-121).
NoLostEdit ==
    \A l \in Lineages, v \in Versions :
        Exists(l, v) => docs[l][v].base = v - 1 /\ (v > 1 => Exists(l, v - 1))

\* No approval is committed over a blocking note that was open all the time
\* since the approval was asked for, whatever else was approved, edited or
\* resolved meanwhile (approve_artifact_version 53-61, approve_all_current 75-91).
NotesRespected ==
    \A q \in Requests, n \in Notes :
        pc[q] = "head" /\ n \in blockers[q] => \A m \in marks[q] : m[1] # notes[n][2]

\* History is append-only: no committed document changes, not by a restore, a
\* stale edit or a generation of the same artifact that comes later, and no
\* approval goes away (persist 107-138, restore 97-124 "History is never mutated").
HistoryKept ==
    [][/\ \A l \in Lineages, v \in Versions : Exists(l, v) => docs'[l][v] = docs[l][v]
       /\ approvals \subseteq approvals']_vars

Active == {q \in Requests : pc[q] \notin {"idle", "done"}}

\* Whom q waits for: the holder of its advisory lock, or the requests with an
\* uncommitted row of its version.
WaitsFor(q) ==
    {r \in Requests : pc[q] = "lock" /\ lock[line[q]] = r}
        \cup {r \in Rivals(q) : pc[q] = "insert"}

\* A request that waits for nobody can go on, and while requests are being
\* handled there is one: advisory locks and uncommitted versions never leave
\* everyone waiting, in particular no lock outlives the request that took it
\* (create_edit 179-188, the 409 and 500 paths).
NobodyStuck ==
    /\ \A q \in Active : WaitsFor(q) = {} <=> ENABLED Handle(q)
    /\ Active # {} => \E q \in Active : ENABLED Handle(q)

==============================================================================
