-------------------------- MODULE SnapshotVersions --------------------------
(***************************************************************************)
(* The version lineage of one slide deck of a run, its export files and    *)
(* records, and the live session it is published to (services/gateway:     *)
(* teaching_pack_snapshot_store.py, routers/teaching_pack_previews.py,     *)
(* export_manifest_service.py, teaching_pack_export_store.py,              *)
(* teaching_pack_export_writer.py, routers/exports.py, the export part of  *)
(* teaching_pack_completion.py, routers/slide_deck_live_publication.py).   *)
(*                                                                         *)
(* A version is its place in created_at order; version 1 is the snapshot   *)
(* the content gate stored.  A deck is a function from blocks to texts; a  *)
(* restored version also carries a tag in its metadata, which later edits  *)
(* keep.  What content_hash tells apart is the pair of the two.  A file    *)
(* holds the version it was rendered from.                                 *)
(***************************************************************************)
EXTENDS Naturals, Sequences

CONSTANTS
  Requests,   \* HTTP requests, each made once
  Worker,     \* the execution that completes the run
  Blocks,     \* blocks of the deck
  Texts,      \* what a block may say
  NoOne,      \* nobody; also the tag of a version that is no restored copy
  MaxFaults   \* bound: requests and executions that die

ASSUME SnapshotAssumption ==
  /\ Worker \notin Requests
  /\ NoOne \notin Requests \cup {Worker}
  /\ MaxFaults \in Nat

Actors  == Requests \cup {Worker}
\* "bundle" is the HTML of the whole pack.
Formats == {"html", "gift", "bundle"}

VARIABLES
  versions,  \* committed artifact_snapshots of the deck, oldest first
  records,   \* committed export_records, oldest first
  files,     \* the version each export file holds, by path
  runDone,   \* the run is COMPLETED, not AWAITING_APPROVAL
  live,      \* the version the live session is pinned to, 0 if there is none
  lock,      \* holder of the advisory lock on the artifact
  pc,        \* where an actor is
  base,      \* the version its client worked on
  seen,      \* the version it has read
  draft,     \* the row it is about to insert
  format,    \* what it exports
  result,    \* the version the answer names
  faults

tables  == <<versions, records, files, runDone, live>>
request == <<base, seen, draft, format, result>>
vars    == <<tables, lock, pc, request, faults>>

None == 0
HeadVersion == Len(versions)

Decks == [Blocks -> Texts]

\* edit is the block and the text of an edit, << >> for any other version.
Row(deck, tag, edit, from) ==
  [deck |-> deck, tag |-> tag, edit |-> edit, from |-> from, approved |-> FALSE]

SnapshotInit ==
  /\ \E d \in Decks : versions = <<Row(d, NoOne, << >>, None)>>
  /\ records = << >>
  /\ files = [p \in {} |-> None]
  /\ runDone = FALSE
  /\ live = None
  /\ lock = NoOne
  /\ pc = [q \in Actors |-> "idle"]
  /\ base = [q \in Actors |-> None]
  /\ seen = [q \in Actors |-> None]
  /\ draft = [q \in Actors |-> << >>]
  /\ format = [q \in Actors |-> "none"]
  /\ result = [q \in Actors |-> None]
  /\ faults = 0

Goto(q, s) == pc' = [pc EXCEPT ![q] = s]

-----------------------------------------------------------------------------
(* Editing and restoring.                                                  *)

\* edit_slide_deck_snapshot_block: the head is read and edited before any lock
\* is taken, and rendered; b is the base_snapshot_id the client sent.
EditDraft(q, b, block, text) ==
  /\ pc[q] = "idle"
  /\ base' = [base EXCEPT ![q] = b]
  /\ seen' = [seen EXCEPT ![q] = HeadVersion]
  /\ draft' = [draft EXCEPT ![q] =
       Row([versions[HeadVersion].deck EXCEPT ![block] = text], versions[HeadVersion].tag, <<block, text>>, b)]
  /\ Goto(q, "drafted")
  /\ UNCHANGED <<tables, lock, format, result, faults>>

\* Mutation of RestoreTag: the copy is byte for byte.
RestoreTag_None(q, v) == versions[v].tag

\* _restored_content: the metadata say what was restored and when.
RestoreTag(q, v) == q

\* restore_artifact_version.
RestoreDraft(q, b, v) ==
  /\ pc[q] = "idle"
  /\ base' = [base EXCEPT ![q] = b]
  /\ seen' = [seen EXCEPT ![q] = v]
  /\ draft' = [draft EXCEPT ![q] = Row(versions[v].deck, RestoreTag(q, v), << >>, b)]
  /\ Goto(q, "drafted")
  /\ UNCHANGED <<tables, lock, format, result, faults>>

\* Mutation of StillHead: the head that was read without the lock.
StillHead_Read(q) == base[q] = seen[q] \/ draft[q].edit = << >>

\* create_scoped_edit_snapshot, under the advisory lock.
StillHead(q) == base[q] = HeadVersion

\* Versions whose content_hash is that of the draft.
SameContent(q) ==
  {v \in DOMAIN versions : versions[v].deck = draft[q].deck /\ versions[v].tag = draft[q].tag}

\* pg_advisory_xact_lock, the check of the base and create_snapshot's insert,
\* which does nothing when the content exists: the row found is the answer.
Insert(q) ==
  /\ pc[q] = "drafted"
  /\ lock = NoOne
  /\ StillHead(q)
  /\ lock' = q
  /\ result' = [result EXCEPT ![q] =
       IF SameContent(q) = {} THEN HeadVersion + 1 ELSE CHOOSE v \in SameContent(q) : TRUE]
  /\ Goto(q, "inserted")
  /\ UNCHANGED <<tables, base, seen, draft, format, faults>>

\* SnapshotBaseVersionConflictError: 409.
Conflict(q) ==
  /\ pc[q] = "drafted"
  /\ lock = NoOne
  /\ ~StillHead(q)
  /\ Goto(q, "refused")
  /\ UNCHANGED <<tables, lock, request, faults>>

CommitVersion(q) ==
  /\ pc[q] = "inserted"
  /\ versions' = IF result[q] > HeadVersion THEN Append(versions, draft[q]) ELSE versions
  /\ lock' = NoOne
  /\ Goto(q, "answered")
  /\ UNCHANGED <<records, files, runDone, live, request, faults>>

-----------------------------------------------------------------------------
(* Approving and publishing.                                               *)

\* approve_rendered_snapshots: the status is read without a lock ...
ApproveRead(q, v) ==
  /\ pc[q] = "idle"
  /\ ~runDone
  /\ seen' = [seen EXCEPT ![q] = v]
  /\ Goto(q, "approving")
  /\ UNCHANGED <<tables, lock, base, draft, format, result, faults>>

Approved(row) == [row EXCEPT !.approved = TRUE]

\* ... and the rows are approved by id.
ApproveCommit(q) ==
  /\ pc[q] = "approving"
  /\ versions' = [versions EXCEPT ![seen[q]] = Approved(@)]
  /\ Goto(q, "answered")
  /\ UNCHANGED <<records, files, runDone, live, lock, request, faults>>

\* Mutation of Publishable: an earlier version was approved.
Publishable_Any == \E v \in DOMAIN versions : versions[v].approved

\* publish and republish fail closed unless the head is approved.
Publishable == versions[HeadVersion].approved

PublishRead(q) ==
  /\ pc[q] = "idle"
  /\ Publishable
  /\ seen' = [seen EXCEPT ![q] = HeadVersion]
  /\ Goto(q, "publishing")
  /\ UNCHANGED <<tables, lock, base, draft, format, result, faults>>

PublishCommit(q) ==
  /\ pc[q] = "publishing"
  /\ live' = seen[q]
  /\ Goto(q, "answered")
  /\ UNCHANGED <<versions, records, files, runDone, lock, request, faults>>

-----------------------------------------------------------------------------
(* Exports.                                                                *)

\* Mutation of Path: one HTML file per run, like the other formats.
Path_PerRun(f, v) == <<f, None>>

\* HTML is named after its snapshot; everything else is named after the run.
Path(f, v) == IF f = "html" THEN <<f, v>> ELSE <<f, None>>

\* export_records: the bundle is recorded as HTML of its first snapshot.
Record(f, v) ==
  [owner |-> IF f = "bundle" THEN "pack" ELSE "deck",
   format |-> IF f = "gift" THEN "gift" ELSE "html",
   snapshot |-> v, path |-> Path(f, v)]

\* create_export_record: nothing when (snapshot_id, format) is taken.
Recorded(R, r) ==
  IF \E i \in DOMAIN R : R[i].snapshot = r.snapshot /\ R[i].format = r.format
  THEN R ELSE Append(R, r)

\* The version of the deck's newest record of a format, 0 if there is none.
LatestExport(R, f) ==
  LET I == {i \in DOMAIN R : R[i].owner = "deck" /\ R[i].format = f}
  IN  IF I = {} THEN None ELSE R[CHOOSE i \in I : \A k \in I : k <= i].snapshot

Written(p, v) == [x \in DOMAIN files \cup {p} |-> IF x = p THEN v ELSE files[x]]

\* regenerate_exports of one format: an up-to-date one is reused.
RegenerateRead(q, f) ==
  /\ pc[q] = "idle"
  /\ LatestExport(records, f) # HeadVersion
  /\ seen' = [seen EXCEPT ![q] = HeadVersion]
  /\ format' = [format EXCEPT ![q] = f]
  /\ Goto(q, "exporting")
  /\ UNCHANGED <<tables, lock, base, draft, result, faults>>

\* export_teaching_pack_bundle: the head, if it is approved.
BundleRead(q) ==
  /\ pc[q] = "idle"
  /\ versions[HeadVersion].approved
  /\ seen' = [seen EXCEPT ![q] = HeadVersion]
  /\ format' = [format EXCEPT ![q] = "bundle"]
  /\ Goto(q, "exporting")
  /\ UNCHANGED <<tables, lock, base, draft, result, faults>>

\* The file is on disk before the record is committed.
WriteFile(q) ==
  /\ pc[q] = "exporting"
  /\ files' = Written(Path(format[q], seen[q]), seen[q])
  /\ Goto(q, "written")
  /\ UNCHANGED <<versions, records, runDone, live, lock, request, faults>>

RecordExport(q) ==
  /\ pc[q] = "written"
  /\ records' = Recorded(records, Record(format[q], seen[q]))
  /\ Goto(q, "answered")
  /\ UNCHANGED <<versions, files, runDone, live, lock, request, faults>>

\* persist_completion: the snapshots the gate showed, as the graph holds them,
\* whatever was edited since; here in both formats.
CompleteWrite ==
  /\ pc[Worker] = "idle"
  /\ files' = [x \in DOMAIN files \cup {Path("html", 1), Path("gift", 1)} |->
                 IF x \in {Path("html", 1), Path("gift", 1)} THEN 1 ELSE files[x]]
  /\ Goto(Worker, "written")
  /\ UNCHANGED <<versions, records, runDone, live, lock, request, faults>>

CompleteCommit ==
  /\ pc[Worker] = "written"
  /\ records' = Recorded(Recorded(records, Record("html", 1)), Record("gift", 1))
  /\ runDone' = TRUE
  /\ Goto(Worker, "answered")
  /\ UNCHANGED <<versions, files, live, lock, request, faults>>

-----------------------------------------------------------------------------
Busy == {"drafted", "inserted", "approving", "publishing", "exporting", "written"}

\* A request dies, or the worker, whose job is claimed again: the transaction
\* is rolled back, the file stays.
Dies(q) ==
  /\ pc[q] \in Busy
  /\ faults < MaxFaults
  /\ faults' = faults + 1
  /\ lock' = IF lock = q THEN NoOne ELSE lock
  /\ Goto(q, IF q = Worker THEN "idle" ELSE "refused")
  /\ UNCHANGED <<tables, request>>

SnapshotNext ==
  \/ \E q \in Requests, b \in DOMAIN versions :
       \/ \E block \in Blocks, text \in Texts : EditDraft(q, b, block, text)
       \/ \E v \in DOMAIN versions : RestoreDraft(q, b, v)
       \/ ApproveRead(q, b)
  \/ \E q \in Requests :
       \/ Insert(q) \/ Conflict(q) \/ CommitVersion(q)
       \/ ApproveCommit(q) \/ PublishRead(q) \/ PublishCommit(q)
       \/ BundleRead(q) \/ WriteFile(q) \/ RecordExport(q)
       \/ \E f \in {"html", "gift"} : RegenerateRead(q, f)
  \/ CompleteWrite \/ CompleteCommit
  \/ \E q \in Actors : Dies(q)

SnapshotSpec == SnapshotInit /\ [][SnapshotNext]_vars

-----------------------------------------------------------------------------
(* Properties.                                                             *)

\* The lineage is linear and no edit is lost: each version was made from the
\* one before it, and an edit differs from it in the edited block only,
\* although the route edits a head it read before it had the lock
\* (edit_slide_deck_snapshot_block, create_scoped_edit_snapshot; ADR-047, "no
\* silent last-write-wins").
NoLostUpdate ==
  \A v \in DOMAIN versions \ {1} :
    /\ versions[v].from = v - 1
    /\ versions[v].edit # << >> =>
         versions[v].deck =
           [versions[v - 1].deck EXCEPT ![versions[v].edit[1]] = versions[v].edit[2]]

\* A restore that was answered made a version of its own after the head it
\* replaced, although content_hash is unique over the whole table and the
\* insert is silently skipped on a conflict (_restored_content).
RestoreIsAVersion ==
  \A q \in Requests :
    /\ pc[q] = "answered"
    /\ draft[q] # << >>
    /\ draft[q].edit = << >>
    => result[q] = base[q] + 1

\* The HTML file of a recorded export is the rendering of the recorded
\* snapshot, for ever, whatever is edited, exported again or retried after a
\* crash between the file and its record (regenerate_stale_exports,
\* FileSystemTeachingPackExportWriter; ADR-056, "Existing downloads remain
\* immutable").  The other formats do not have it: see the README.
RecordedHtmlKept ==
  \A i \in DOMAIN records :
    records[i].owner = "deck" /\ records[i].format = "html" =>
      files[records[i].path] = records[i].snapshot

\* The live session shows a version the teacher approved: "an unapproved or
\* in-progress edit must never become a live, student-facing session"
\* (slide_deck_live_publication.py), also when the head moves while it is
\* published.
LiveWasApproved == live # None => versions[live].approved

=============================================================================
