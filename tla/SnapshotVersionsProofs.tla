----------------------- MODULE SnapshotVersionsProofs -----------------------
(***************************************************************************)
(* Proofs about SnapshotVersions.                                          *)
(***************************************************************************)
EXTENDS SnapshotVersions, TLAPS

-----------------------------------------------------------------------------
(* Types.                                                                  *)

Edits == {<< >>} \cup (Blocks \X Texts)

VersionRows ==
  [deck : Decks, tag : Requests \cup {NoOne}, edit : Edits, from : Nat, approved : BOOLEAN]

Paths == Formats \X Nat

ExportRows ==
  [owner : {"pack", "deck"}, format : {"gift", "html"}, snapshot : Nat, path : Paths]

Phases == {"idle", "drafted", "inserted", "approving", "publishing", "exporting",
           "written", "answered", "refused"}

\* Types of the tables and of the requests' locals, and what a request has at
\* each of its stages.
TablesOK ==
  /\ versions \in Seq(VersionRows) /\ Len(versions) > 0
  /\ records \in Seq(ExportRows)
  /\ DOMAIN files \subseteq Paths
  /\ live \in Nat
  /\ lock \in Requests \cup {NoOne}

LocalsOK ==
  /\ pc \in [Actors -> Phases]
  /\ base \in [Actors -> Nat]
  /\ seen \in [Actors -> Nat]
  /\ draft \in [Actors -> {<< >>} \cup VersionRows]
  /\ format \in [Actors -> Formats \cup {"none"}]
  /\ result \in [Actors -> Nat]

Reading == {"approving", "publishing", "exporting", "written"}

StagesOK ==
  /\ \A q \in Requests :
       /\ pc[q] \in {"idle"} \cup Reading => draft[q] = << >>
       /\ pc[q] \in {"drafted", "inserted"} => draft[q] \in VersionRows
       /\ pc[q] \in Reading => seen[q] \in DOMAIN versions
       /\ pc[q] \in {"exporting", "written"} => format[q] \in Formats
  /\ pc[Worker] \in {"idle", "written", "answered"}

SnapshotTypeOK == TablesOK /\ LocalsOK /\ StagesOK

\* The rows the handlers build are rows: an edited one, a copy and an approved one.
LEMMA RowTypes ==
  ASSUME NEW r \in VersionRows, NEW n \in Nat
  PROVE  /\ \A block \in Blocks, text \in Texts :
               Row([r.deck EXCEPT ![block] = text], r.tag, <<block, text>>, n) \in VersionRows
         /\ \A q \in Requests : Row(r.deck, q, << >>, n) \in VersionRows
         /\ Approved(r) \in VersionRows
<1>1. << >> \in Edits /\ \A block \in Blocks, text \in Texts : <<block, text>> \in Edits
  BY DEF Edits
<1>2. \A block \in Blocks, text \in Texts : [r.deck EXCEPT ![block] = text] \in Decks
  BY DEF VersionRows, Decks
<1>3. Approved(r) \in VersionRows
  BY DEF Approved, VersionRows
<1> QED BY <1>1, <1>2, <1>3 DEF Row, VersionRows

LEMMA TypeInit == SnapshotInit => SnapshotTypeOK
<1> SUFFICES ASSUME SnapshotInit PROVE SnapshotTypeOK
  OBVIOUS
<1> USE SnapshotAssumption DEF SnapshotInit, Actors, Phases, None
<1>1. TablesOK
  <2>1. PICK d \in Decks : versions = <<Row(d, NoOne, << >>, None)>>
    OBVIOUS
  <2>2. Row(d, NoOne, << >>, None) \in VersionRows
    BY DEF Row, VersionRows, Edits
  <2>3. versions \in Seq(VersionRows) /\ Len(versions) > 0
    BY <2>1, <2>2
  <2> QED BY <2>3 DEF TablesOK
<1>2. LocalsOK
  BY DEF LocalsOK
<1>3. StagesOK
  BY DEF StagesOK, Reading
<1> QED BY <1>1, <1>2, <1>3 DEF SnapshotTypeOK

LEMMA RecordedType ==
  ASSUME NEW R \in Seq(ExportRows), NEW f \in Formats, NEW v \in Nat
  PROVE  Recorded(R, Record(f, v)) \in Seq(ExportRows)
<1>1. Record(f, v) \in ExportRows
  BY DEF Record, ExportRows, Path, Paths, Formats, None
<1> QED BY <1>1 DEF Recorded

\* What a draft of an edit and of a restore is.
\* The steps as the proofs use them: each disjunct of the next-state relation.
LEMMA TablesStep == SnapshotTypeOK /\ [SnapshotNext]_vars => TablesOK'
<1> SUFFICES ASSUME SnapshotTypeOK, [SnapshotNext]_vars PROVE TablesOK'
  OBVIOUS
<1> USE DEF SnapshotTypeOK, TablesOK, tables, request
<1>1. CASE UNCHANGED <<tables, lock>>
  BY <1>1
<1>2. ASSUME NEW q \in Requests, Insert(q) PROVE TablesOK'
  BY <1>2 DEF Insert
<1>3. ASSUME NEW q \in Requests, CommitVersion(q) PROVE TablesOK'
  <2>1. draft[q] \in VersionRows
    BY <1>3 DEF CommitVersion, StagesOK
  <2> QED BY <1>3, <2>1 DEF CommitVersion
<1>4. ASSUME NEW q \in Requests, ApproveCommit(q) PROVE TablesOK'
  <2>1. seen[q] \in DOMAIN versions
    BY <1>4 DEF ApproveCommit, StagesOK, Reading
  <2>2. Approved(versions[seen[q]]) \in VersionRows
    BY <2>1, RowTypes
  <2> QED BY <1>4, <2>1, <2>2 DEF ApproveCommit
<1>5. ASSUME NEW q \in Requests, PublishCommit(q) PROVE TablesOK'
  BY <1>5 DEF PublishCommit, LocalsOK, Actors
<1>6. ASSUME NEW q \in Requests, WriteFile(q) PROVE TablesOK'
  <2>1. Path(format[q], seen[q]) \in Paths
    BY <1>6 DEF WriteFile, Path, Paths, StagesOK, LocalsOK, Actors, None, Formats
  <2> QED BY <1>6, <2>1 DEF WriteFile, Written
<1>7. ASSUME NEW q \in Requests, RecordExport(q) PROVE TablesOK'
  <2>1. format[q] \in Formats /\ seen[q] \in Nat
    BY <1>7 DEF RecordExport, StagesOK, LocalsOK, Actors
  <2> QED BY <1>7, <2>1, RecordedType DEF RecordExport
<1>8. CASE CompleteWrite
  <2>1. {Path("html", 1), Path("gift", 1)} \subseteq Paths
    BY DEF Path, Paths, Formats, None
  <2> QED BY <1>8, <2>1 DEF CompleteWrite
<1>9. CASE CompleteCommit
  <2>1. Recorded(records, Record("html", 1)) \in Seq(ExportRows)
    BY RecordedType DEF Formats
  <2> QED BY <1>9, <2>1, RecordedType DEF CompleteCommit, Formats
<1>10. ASSUME NEW q \in Actors, Dies(q) PROVE TablesOK'
  BY <1>10 DEF Dies
<1> QED
  BY <1>1, <1>2, <1>3, <1>4, <1>5, <1>6, <1>7, <1>8, <1>9, <1>10
  DEF SnapshotNext, vars, EditDraft, RestoreDraft, ApproveRead, Conflict, PublishRead,
      BundleRead, RegenerateRead

\* The row a request is about to insert is a row.
LEMMA EditedRow ==
  ASSUME TablesOK, NEW b \in DOMAIN versions, NEW block \in Blocks, NEW text \in Texts
  PROVE  Row([versions[HeadVersion].deck EXCEPT ![block] = text], versions[HeadVersion].tag,
             <<block, text>>, b) \in VersionRows
<1>1. versions[HeadVersion] \in VersionRows /\ b \in Nat
  BY DEF TablesOK, HeadVersion
<1> QED BY <1>1, RowTypes

LEMMA RestoredRow ==
  ASSUME TablesOK, NEW q \in Requests, NEW b \in DOMAIN versions, NEW v \in DOMAIN versions
  PROVE  Row(versions[v].deck, RestoreTag(q, v), << >>, b) \in VersionRows
<1>1. versions[v] \in VersionRows /\ b \in Nat
  BY DEF TablesOK
<1> QED BY <1>1, RowTypes DEF RestoreTag

\* The row of the same content that an insert finds.
LEMMA FoundRow ==
  ASSUME NEW q \in Requests, SameContent(q) # {}
  PROVE  (CHOOSE v \in SameContent(q) : TRUE) \in SameContent(q)
<1>1. \E v : v \in SameContent(q)
  OBVIOUS
<1> QED BY <1>1

LEMMA LocalsStep == SnapshotTypeOK /\ [SnapshotNext]_vars => LocalsOK'
<1> SUFFICES ASSUME SnapshotTypeOK, [SnapshotNext]_vars PROVE LocalsOK'
  OBVIOUS
<1>0. HeadVersion \in Nat /\ DOMAIN versions \subseteq Nat
  BY DEF SnapshotTypeOK, TablesOK, HeadVersion
<1> USE DEF SnapshotTypeOK, LocalsOK, Actors, Phases, Goto, request
<1>1. ASSUME NEW q \in Requests, NEW b \in DOMAIN versions, NEW block \in Blocks,
             NEW text \in Texts, EditDraft(q, b, block, text)
      PROVE  LocalsOK'
  BY <1>0, <1>1, EditedRow DEF EditDraft
<1>2. ASSUME NEW q \in Requests, NEW b \in DOMAIN versions, NEW v \in DOMAIN versions,
             RestoreDraft(q, b, v)
      PROVE  LocalsOK'
  BY <1>0, <1>2, RestoredRow DEF RestoreDraft
<1>3. ASSUME NEW q \in Requests, NEW b \in DOMAIN versions, ApproveRead(q, b)
      PROVE  LocalsOK'
  BY <1>0, <1>3 DEF ApproveRead
<1>4. ASSUME NEW q \in Requests, Insert(q) PROVE LocalsOK'
  <2>1. result' \in [Actors -> Nat]
    <3>1. SameContent(q) # {} => (CHOOSE v \in SameContent(q) : TRUE) \in Nat
      BY <1>0, FoundRow DEF SameContent
    <3> QED BY <1>0, <1>4, <3>1 DEF Insert
  <2> QED BY <1>4, <2>1 DEF Insert
<1>5. ASSUME NEW q \in Requests, PublishRead(q) \/ BundleRead(q) PROVE LocalsOK'
  <2>1. CASE PublishRead(q)
    BY <1>0, <2>1 DEF PublishRead
  <2>2. CASE BundleRead(q)
    BY <1>0, <2>2 DEF BundleRead, Formats
  <2> QED BY <1>5, <2>1, <2>2
<1>6. ASSUME NEW q \in Requests, NEW f \in {"html", "gift"}, RegenerateRead(q, f)
       PROVE  LocalsOK'
  BY <1>0, <1>6 DEF RegenerateRead, Formats
<1>7. ASSUME NEW q \in Requests, \/ Conflict(q) \/ CommitVersion(q) \/ ApproveCommit(q)
                                \/ PublishCommit(q) \/ WriteFile(q) \/ RecordExport(q)
      PROVE  LocalsOK'
  BY <1>7 DEF Conflict, CommitVersion, ApproveCommit, PublishCommit, WriteFile, RecordExport
<1>8. CASE CompleteWrite \/ CompleteCommit
  BY <1>8 DEF CompleteWrite, CompleteCommit
<1>9. ASSUME NEW q \in Actors, Dies(q) PROVE LocalsOK'
  BY <1>9 DEF Dies
<1>10. CASE UNCHANGED vars
  BY <1>10 DEF vars
<1> HIDE DEF LocalsOK
<1> QED
  BY <1>1, <1>2, <1>3, <1>4, <1>5, <1>6, <1>7, <1>8, <1>9, <1>10 DEF SnapshotNext

LEMMA StagesStep == SnapshotTypeOK /\ [SnapshotNext]_vars => StagesOK'
<1> SUFFICES ASSUME SnapshotTypeOK, [SnapshotNext]_vars PROVE StagesOK'
  OBVIOUS
<1>0. HeadVersion \in DOMAIN versions
  BY DEF SnapshotTypeOK, TablesOK, HeadVersion
<1> USE SnapshotAssumption
    DEF SnapshotTypeOK, LocalsOK, StagesOK, Actors, Goto, Reading, request, tables
<1>1. ASSUME NEW q \in Requests, NEW b \in DOMAIN versions, NEW block \in Blocks,
             NEW text \in Texts, EditDraft(q, b, block, text)
      PROVE  StagesOK'
  BY <1>1, EditedRow DEF EditDraft
<1>2. ASSUME NEW q \in Requests, NEW b \in DOMAIN versions, NEW v \in DOMAIN versions,
             RestoreDraft(q, b, v)
      PROVE  StagesOK'
  BY <1>2, RestoredRow DEF RestoreDraft
<1>3. ASSUME NEW q \in Requests, NEW b \in DOMAIN versions, ApproveRead(q, b)
      PROVE  StagesOK'
  BY <1>3 DEF ApproveRead
<1>4. ASSUME NEW q \in Requests, Insert(q) \/ Conflict(q) PROVE StagesOK'
  BY <1>4 DEF Insert, Conflict
<1>5. ASSUME NEW q \in Requests, PublishRead(q) \/ BundleRead(q) PROVE StagesOK'
  BY <1>0, <1>5 DEF PublishRead, BundleRead, Formats
<1>6. ASSUME NEW q \in Requests, NEW f \in {"html", "gift"}, RegenerateRead(q, f)
       PROVE  StagesOK'
  BY <1>0, <1>6 DEF RegenerateRead, Formats
<1>7. ASSUME NEW q \in Requests, CommitVersion(q) PROVE StagesOK'
  <2>1. DOMAIN versions \subseteq DOMAIN versions'
    BY <1>7 DEF CommitVersion, TablesOK
  <2> QED BY <1>7, <2>1 DEF CommitVersion
<1>8. ASSUME NEW q \in Requests, ApproveCommit(q) PROVE StagesOK'
  <2>1. DOMAIN versions' = DOMAIN versions
    BY <1>8 DEF ApproveCommit
  <2> QED BY <1>8, <2>1 DEF ApproveCommit
<1>9. ASSUME NEW q \in Requests, PublishCommit(q) \/ WriteFile(q) \/ RecordExport(q)
      PROVE  StagesOK'
  BY <1>9 DEF PublishCommit, WriteFile, RecordExport
<1>10. CASE CompleteWrite \/ CompleteCommit
  BY <1>10 DEF CompleteWrite, CompleteCommit
<1>11. ASSUME NEW q \in Actors, Dies(q) PROVE StagesOK'
  BY <1>11 DEF Dies, Busy
<1>12. CASE UNCHANGED vars
  BY <1>12 DEF vars
<1> HIDE DEF StagesOK
<1> QED
  BY <1>1, <1>2, <1>3, <1>4, <1>5, <1>6, <1>7, <1>8, <1>9, <1>10, <1>11, <1>12
  DEF SnapshotNext

LEMMA TypeStep == SnapshotTypeOK /\ [SnapshotNext]_vars => SnapshotTypeOK'
BY TablesStep, LocalsStep, StagesStep DEF SnapshotTypeOK

\* The tables and the requests' locals keep their types: in particular only
\* writers have a draft, and what a request has read stays a version.
THEOREM SnapshotTypeCorrect == SnapshotSpec => []SnapshotTypeOK
BY TypeInit, TypeStep, PTL DEF SnapshotSpec

-----------------------------------------------------------------------------
(* The lineage.                                                            *)

\* Approving a version leaves the rest of its row alone.
LEMMA ApprovedRow ==
  ASSUME NEW r \in VersionRows
  PROVE  /\ Approved(r).deck = r.deck /\ Approved(r).tag = r.tag
         /\ Approved(r).edit = r.edit /\ Approved(r).from = r.from
         /\ Approved(r).approved
BY DEF Approved, VersionRows

\* A version keeps its content, and its approval, for ever.
SameVersion(v) ==
  /\ v \in DOMAIN versions'
  /\ versions'[v].deck = versions[v].deck /\ versions'[v].tag = versions[v].tag
  /\ versions'[v].edit = versions[v].edit /\ versions'[v].from = versions[v].from
  /\ versions[v].approved => versions'[v].approved

LEMMA VersionsKept ==
  ASSUME SnapshotTypeOK, [SnapshotNext]_vars
  PROVE  \A v \in DOMAIN versions : SameVersion(v)
<1> USE DEF SnapshotTypeOK, tables, request
<1>1. CASE versions' = versions
  BY <1>1 DEF SameVersion
<1>2. ASSUME NEW q \in Requests, CommitVersion(q)
      PROVE  \A v \in DOMAIN versions : SameVersion(v)
  <2>1. \A v \in DOMAIN versions : v \in DOMAIN versions' /\ versions'[v] = versions[v]
    BY <1>2 DEF CommitVersion, TablesOK
  <2> QED BY <2>1 DEF SameVersion
<1>3. ASSUME NEW q \in Requests, ApproveCommit(q)
      PROVE  \A v \in DOMAIN versions : SameVersion(v)
  <2>1. seen[q] \in DOMAIN versions
    BY <1>3 DEF ApproveCommit, StagesOK, Reading
  <2>2. /\ DOMAIN versions' = DOMAIN versions
        /\ \A v \in DOMAIN versions :
             versions'[v] = IF v = seen[q] THEN Approved(versions[v]) ELSE versions[v]
    BY <1>3, <2>1 DEF ApproveCommit
  <2>3. \A v \in DOMAIN versions : versions[v] \in VersionRows
    BY DEF TablesOK
  <2> QED BY <2>2, <2>3, ApprovedRow DEF SameVersion
<1> QED
  BY <1>1, <1>2, <1>3
  DEF SnapshotNext, vars, EditDraft, RestoreDraft, ApproveRead, Conflict, PublishRead,
      BundleRead, RegenerateRead, Insert, PublishCommit, WriteFile, RecordExport,
      CompleteWrite, CompleteCommit, Dies

\* A request that wants to add a version: what it has in hand.  An edit was
\* made on a head that came no earlier than the version its client worked on;
\* a restored row carries a tag nobody else has.
DraftOK(q) ==
  /\ base[q] \in DOMAIN versions
  /\ draft[q].from = base[q]
  /\ draft[q].edit = << >> => draft[q].tag = q
  /\ draft[q].edit # << >> =>
       /\ seen[q] \in DOMAIN versions /\ base[q] <= seen[q]
       /\ draft[q].tag = versions[seen[q]].tag
       /\ draft[q].deck =
            [versions[seen[q]].deck EXCEPT ![draft[q].edit[1]] = draft[q].edit[2]]

DraftsOK == \A q \in Requests : pc[q] \in {"drafted", "inserted"} => DraftOK(q)

\* The row is inserted under the lock, on the head it was made from.
InsertOK(q) ==
  /\ lock = q
  /\ base[q] = HeadVersion
  /\ result[q] = HeadVersion + 1 \/ result[q] \in DOMAIN versions
  /\ draft[q].edit = << >> => result[q] = HeadVersion + 1

InsertsOK == \A q \in Requests : pc[q] = "inserted" => InsertOK(q)

\* The tag of a request is on no version before its restore is answered.
TagsAnswered == \A v \in DOMAIN versions, q \in Requests : versions[v].tag = q => pc[q] = "answered"

LineageInv ==
  /\ SnapshotTypeOK /\ DraftsOK /\ InsertsOK /\ TagsAnswered
  /\ NoLostUpdate /\ RestoreIsAVersion

LEMMA LineageInit == SnapshotInit => LineageInv
<1> SUFFICES ASSUME SnapshotInit PROVE LineageInv
  OBVIOUS
<1>1. DraftsOK /\ InsertsOK /\ RestoreIsAVersion
  BY DEF SnapshotInit, Actors, DraftsOK, InsertsOK, RestoreIsAVersion
<1>2. PICK d \in Decks : versions = <<Row(d, NoOne, << >>, None)>>
  BY DEF SnapshotInit
<1>3. DOMAIN versions = {1} /\ versions[1].tag = NoOne
  BY <1>2 DEF Row
<1>4. TagsAnswered /\ NoLostUpdate
  BY <1>3, SnapshotAssumption DEF TagsAnswered, NoLostUpdate
<1> QED BY <1>1, <1>4, TypeInit DEF LineageInv

\* What each writer has in hand stays true while others commit.
LEMMA DraftsStep == LineageInv /\ [SnapshotNext]_vars => DraftsOK'
<1> SUFFICES ASSUME LineageInv, [SnapshotNext]_vars,
                    NEW r \in Requests, pc'[r] \in {"drafted", "inserted"}
             PROVE  DraftOK(r)'
  BY DEF DraftsOK
<1> USE SnapshotAssumption DEF LineageInv, SnapshotTypeOK, LocalsOK, Actors, Goto, request
<1>0. \A v \in DOMAIN versions : SameVersion(v)
  BY VersionsKept
<1>1. ASSUME pc[r] \in {"drafted", "inserted"}, base'[r] = base[r], draft'[r] = draft[r],
             seen'[r] = seen[r]
      PROVE  DraftOK(r)'
  <2>1. DraftOK(r)
    BY <1>1 DEF DraftsOK
  <2>2. SameVersion(base[r]) /\ (draft[r].edit # << >> => SameVersion(seen[r]))
    BY <1>0, <2>1 DEF DraftOK
  <2> QED BY ONLY <1>1, <2>1, <2>2 DEF DraftOK, SameVersion
<1>2. ASSUME NEW b \in DOMAIN versions, NEW block \in Blocks, NEW text \in Texts,
             EditDraft(r, b, block, text)
      PROVE  DraftOK(r)'
  <2>1. /\ base'[r] = b /\ seen'[r] = HeadVersion /\ versions' = versions
        /\ draft'[r] = Row([versions[HeadVersion].deck EXCEPT ![block] = text],
                           versions[HeadVersion].tag, <<block, text>>, b)
    BY <1>2 DEF EditDraft, tables
  <2>2. HeadVersion \in DOMAIN versions /\ b <= HeadVersion
    BY DEF TablesOK, HeadVersion
  <2>3. /\ draft'[r].from = b /\ draft'[r].tag = versions[HeadVersion].tag
        /\ draft'[r].edit = <<block, text>>
        /\ draft'[r].deck = [versions[HeadVersion].deck EXCEPT ![block] = text]
    BY <2>1 DEF Row
  <2>4. draft'[r].edit # << >> /\ draft'[r].edit[1] = block /\ draft'[r].edit[2] = text
    BY <2>3
  <2> QED BY <2>1, <2>2, <2>3, <2>4 DEF DraftOK
<1>3. ASSUME NEW b \in DOMAIN versions, NEW v \in DOMAIN versions, RestoreDraft(r, b, v)
      PROVE  DraftOK(r)'
  <2>1. /\ base'[r] = b /\ versions' = versions
        /\ draft'[r] = Row(versions[v].deck, r, << >>, b)
    BY <1>3 DEF RestoreDraft, tables, RestoreTag
  <2> QED BY <2>1 DEF DraftOK, Row
<1>4. \/ /\ pc[r] \in {"drafted", "inserted"}
         /\ base'[r] = base[r] /\ draft'[r] = draft[r] /\ seen'[r] = seen[r]
      \/ \E b \in DOMAIN versions :
           \/ \E block \in Blocks, text \in Texts : EditDraft(r, b, block, text)
           \/ \E v \in DOMAIN versions : RestoreDraft(r, b, v)
  <2>1. ASSUME NEW q \in Requests, NEW b \in DOMAIN versions,
               \/ \E block \in Blocks, text \in Texts : EditDraft(q, b, block, text)
               \/ \E v \in DOMAIN versions : RestoreDraft(q, b, v)
        PROVE  <1>4
    BY <2>1 DEF EditDraft, RestoreDraft
  <2>2. ASSUME NEW q \in Requests, NEW b \in DOMAIN versions, ApproveRead(q, b)
        PROVE  <1>4
    BY <2>2 DEF ApproveRead
  <2>3. ASSUME NEW q \in Requests,
               \/ Insert(q) \/ Conflict(q) \/ CommitVersion(q) \/ ApproveCommit(q)
               \/ PublishCommit(q) \/ WriteFile(q) \/ RecordExport(q)
        PROVE  <1>4
    BY <2>3 DEF Insert, Conflict, CommitVersion, ApproveCommit, PublishCommit, WriteFile,
                RecordExport
  <2>4. ASSUME NEW q \in Requests,
               PublishRead(q) \/ BundleRead(q) \/ \E f \in {"html", "gift"} : RegenerateRead(q, f)
        PROVE  <1>4
    BY <2>4 DEF PublishRead, BundleRead, RegenerateRead
  <2>5. CASE CompleteWrite \/ CompleteCommit
    BY <2>5 DEF CompleteWrite, CompleteCommit
  <2>6. ASSUME NEW q \in Actors, Dies(q) PROVE <1>4
    BY <2>6 DEF Dies
  <2>7. CASE UNCHANGED vars
    BY <2>7 DEF vars
  <2> QED
    BY <2>1, <2>2, <2>3, <2>4, <2>5, <2>6, <2>7 DEF SnapshotNext
<1> QED BY <1>1, <1>2, <1>3, <1>4

\* A restore finds no row of its content: its tag is new.
LEMMA RestoreIsNew ==
  ASSUME LineageInv, NEW q \in Requests, pc[q] = "drafted", draft[q].edit = << >>
  PROVE  SameContent(q) = {}
<1>1. draft[q].tag = q
  BY DEF LineageInv, DraftsOK, DraftOK
<1> QED BY <1>1 DEF SameContent, LineageInv, TagsAnswered

\* A row that is inserted and not yet committed stays what it is, and so does
\* the number of versions, which the lock keeps from growing.
LEMMA InsertedStays ==
  ASSUME LineageInv, [SnapshotNext]_vars, NEW r \in Requests, pc'[r] = "inserted"
  PROVE  \/ Insert(r)
         \/ /\ pc[r] = "inserted" /\ (versions' = versions \/ Len(versions') = Len(versions))
            /\ UNCHANGED <<lock, base[r], draft[r], result[r]>>
<1> USE SnapshotAssumption DEF LineageInv, SnapshotTypeOK, LocalsOK, Actors, Goto, request
<1> DEFINE Stays == \/ Insert(r)
                    \/ /\ pc[r] = "inserted" /\ (versions' = versions \/ Len(versions') = Len(versions))
                       /\ UNCHANGED <<lock, base[r], draft[r], result[r]>>
<1>1. ASSUME NEW q \in Requests, NEW b \in DOMAIN versions,
             \/ \E block \in Blocks, text \in Texts : EditDraft(q, b, block, text)
             \/ \E v \in DOMAIN versions : RestoreDraft(q, b, v)
      PROVE  Stays
  BY <1>1 DEF EditDraft, RestoreDraft, tables
<1>2. ASSUME NEW q \in Requests, NEW b \in DOMAIN versions, ApproveRead(q, b)
      PROVE  Stays
  BY <1>2 DEF ApproveRead, tables
<1>3. ASSUME NEW q \in Requests, Insert(q) \/ Conflict(q) \/ CommitVersion(q)
      PROVE  Stays
  <2>1. q # r => lock = r \/ pc[r] # "inserted"
    BY DEF InsertsOK, InsertOK
  <2>2. pc[q] = "inserted" => lock = q
    BY DEF InsertsOK, InsertOK
  <2> QED BY <1>3, <2>1, <2>2 DEF Insert, Conflict, CommitVersion, tables
<1>4. ASSUME NEW q \in Requests, ApproveCommit(q) PROVE Stays
  <2>1. Len(versions') = Len(versions)
    BY <1>4 DEF ApproveCommit, TablesOK
  <2> QED BY <1>4, <2>1 DEF ApproveCommit
<1>5. ASSUME NEW q \in Requests, PublishCommit(q) \/ WriteFile(q) \/ RecordExport(q)
      PROVE  Stays
  BY <1>5 DEF PublishCommit, WriteFile, RecordExport
<1>6. ASSUME NEW q \in Requests,
             PublishRead(q) \/ BundleRead(q) \/ \E f \in {"html", "gift"} : RegenerateRead(q, f)
      PROVE  Stays
  BY <1>6 DEF PublishRead, BundleRead, RegenerateRead, tables
<1>7. CASE CompleteWrite \/ CompleteCommit
  BY <1>7 DEF CompleteWrite, CompleteCommit
<1>8. ASSUME NEW q \in Actors, Dies(q) PROVE Stays
  <2>1. q # r => lock # q \/ pc[r] # "inserted"
    BY DEF InsertsOK, InsertOK
  <2> QED BY <1>8, <2>1 DEF Dies, tables
<1>9. CASE UNCHANGED vars
  BY <1>9 DEF vars, tables
<1> QED
  BY <1>1, <1>2, <1>3, <1>4, <1>5, <1>6, <1>7, <1>8, <1>9 DEF SnapshotNext

LEMMA InsertsStep == LineageInv /\ [SnapshotNext]_vars => InsertsOK'
<1> SUFFICES ASSUME LineageInv, [SnapshotNext]_vars,
                    NEW r \in Requests, pc'[r] = "inserted"
             PROVE  InsertOK(r)'
  BY DEF InsertsOK
<1> USE SnapshotAssumption DEF LineageInv, SnapshotTypeOK, LocalsOK, Actors, Goto, request
<1>1. CASE Insert(r)
  <2>1. /\ lock' = r /\ versions' = versions /\ base'[r] = base[r] /\ draft'[r] = draft[r]
        /\ base[r] = HeadVersion /\ pc[r] = "drafted"
        /\ result'[r] = IF SameContent(r) = {} THEN HeadVersion + 1
                        ELSE CHOOSE v \in SameContent(r) : TRUE
    BY <1>1 DEF Insert, StillHead, tables
  <2>2. SameContent(r) # {} => (CHOOSE v \in SameContent(r) : TRUE) \in DOMAIN versions
    BY FoundRow DEF SameContent
  <2>3. draft[r].edit = << >> => SameContent(r) = {}
    BY <2>1, RestoreIsNew
  <2> QED BY <2>1, <2>2, <2>3 DEF InsertOK, HeadVersion
<1>2. ASSUME pc[r] = "inserted", versions' = versions \/ Len(versions') = Len(versions),
             UNCHANGED <<lock, base[r], draft[r], result[r]>>
      PROVE  InsertOK(r)'
  <2>1. InsertOK(r)
    BY <1>2 DEF InsertsOK
  <2>2. DOMAIN versions' = DOMAIN versions /\ Len(versions') = Len(versions)
    <3>1. CASE versions' = versions
      BY <3>1
    <3>2. CASE Len(versions') = Len(versions)
      <4>1. SnapshotTypeOK'
        BY TypeStep
      <4> QED BY <3>2, <4>1 DEF TablesOK
    <3> QED BY <1>2, <3>1, <3>2
  <2> QED BY ONLY <1>2, <2>1, <2>2 DEF InsertOK, HeadVersion
<1> QED BY <1>1, <1>2, InsertedStays

\* Only a commit adds a version, and it adds the draft of its request.
LEMMA NewVersion ==
  ASSUME LineageInv, [SnapshotNext]_vars, NEW v \in DOMAIN versions', v \notin DOMAIN versions
  PROVE  \E q \in Requests :
           /\ pc[q] = "inserted" /\ pc'[q] = "answered"
           /\ v = HeadVersion + 1 /\ versions'[v] = draft[q]
<1> USE DEF LineageInv, SnapshotTypeOK, TablesOK, LocalsOK, Actors, Goto, HeadVersion, tables
<1>1. ASSUME NEW q \in Requests, CommitVersion(q)
      PROVE  /\ pc[q] = "inserted" /\ pc'[q] = "answered"
             /\ v = HeadVersion + 1 /\ versions'[v] = draft[q]
  BY <1>1 DEF CommitVersion
<1>2. ASSUME NEW q \in Requests, ApproveCommit(q) PROVE FALSE
  BY <1>2 DEF ApproveCommit
<1>3. \/ \E q \in Requests : CommitVersion(q) \/ ApproveCommit(q)
      \/ versions' = versions
  BY DEF SnapshotNext, vars, EditDraft, RestoreDraft, ApproveRead, Conflict, PublishRead,
         BundleRead, RegenerateRead, Insert, PublishCommit, WriteFile, RecordExport,
         CompleteWrite, CompleteCommit, Dies
<1> QED BY <1>1, <1>2, <1>3

\* An answer is final.
LEMMA AnsweredStays ==
  ASSUME SnapshotTypeOK, [SnapshotNext]_vars, NEW r \in Requests, pc[r] = "answered"
  PROVE  pc'[r] = "answered" /\ UNCHANGED <<base[r], draft[r], result[r]>>
<1> USE SnapshotAssumption DEF SnapshotTypeOK, LocalsOK, Actors, Goto, request
<1>1. ASSUME NEW q \in Requests, NEW b \in DOMAIN versions,
             \/ \E block \in Blocks, text \in Texts : EditDraft(q, b, block, text)
             \/ \E v \in DOMAIN versions : RestoreDraft(q, b, v)
             \/ ApproveRead(q, b)
      PROVE  pc'[r] = "answered" /\ UNCHANGED <<base[r], draft[r], result[r]>>
  BY <1>1 DEF EditDraft, RestoreDraft, ApproveRead
<1>2. ASSUME NEW q \in Requests,
             \/ Insert(q) \/ Conflict(q) \/ CommitVersion(q) \/ ApproveCommit(q)
             \/ PublishCommit(q) \/ WriteFile(q) \/ RecordExport(q)
      PROVE  pc'[r] = "answered" /\ UNCHANGED <<base[r], draft[r], result[r]>>
  BY <1>2 DEF Insert, Conflict, CommitVersion, ApproveCommit, PublishCommit, WriteFile,
              RecordExport
<1>3. ASSUME NEW q \in Requests,
             PublishRead(q) \/ BundleRead(q) \/ \E f \in {"html", "gift"} : RegenerateRead(q, f)
      PROVE  pc'[r] = "answered" /\ UNCHANGED <<base[r], draft[r], result[r]>>
  BY <1>3 DEF PublishRead, BundleRead, RegenerateRead
<1>4. CASE CompleteWrite \/ CompleteCommit
  BY <1>4 DEF CompleteWrite, CompleteCommit
<1>5. ASSUME NEW q \in Actors, Dies(q)
      PROVE  pc'[r] = "answered" /\ UNCHANGED <<base[r], draft[r], result[r]>>
  BY <1>5 DEF Dies, Busy
<1>6. CASE UNCHANGED vars
  BY <1>6 DEF vars
<1> QED BY <1>1, <1>2, <1>3, <1>4, <1>5, <1>6 DEF SnapshotNext

LEMMA TagsStep == LineageInv /\ [SnapshotNext]_vars => TagsAnswered'
<1> SUFFICES ASSUME LineageInv, [SnapshotNext]_vars,
                    NEW v \in DOMAIN versions', NEW r \in Requests, versions'[v].tag = r
             PROVE  pc'[r] = "answered"
  BY DEF TagsAnswered
<1>1. CASE v \in DOMAIN versions
  <2>1. SameVersion(v)
    BY <1>1, VersionsKept DEF LineageInv
  <2> QED BY <1>1, <2>1, AnsweredStays DEF SameVersion, LineageInv, TagsAnswered
<1>2. CASE v \notin DOMAIN versions
  <2>1. PICK q \in Requests : /\ pc[q] = "inserted" /\ pc'[q] = "answered"
                              /\ versions'[v] = draft[q]
    BY <1>2, NewVersion
  <2>2. DraftOK(q)
    BY <2>1 DEF LineageInv, DraftsOK
  <2>3. CASE draft[q].edit = << >>
    BY <2>1, <2>2, <2>3 DEF DraftOK
  <2>4. CASE draft[q].edit # << >>
    BY <2>1, <2>2, <2>4, AnsweredStays DEF DraftOK, LineageInv, TagsAnswered
  <2> QED BY <2>3, <2>4
<1> QED BY <1>1, <1>2

\* The step of the first property: a version is added after the head it was
\* made from.
LEMMA LostUpdateStep == LineageInv /\ [SnapshotNext]_vars => NoLostUpdate'
<1> SUFFICES ASSUME LineageInv, [SnapshotNext]_vars, NEW v \in DOMAIN versions' \ {1}
             PROVE  /\ versions'[v].from = v - 1
                    /\ versions'[v].edit # << >> =>
                         versions'[v].deck =
                           [versions'[v - 1].deck
                              EXCEPT ![versions'[v].edit[1]] = versions'[v].edit[2]]
  BY DEF NoLostUpdate
<1>0. \A w \in DOMAIN versions : SameVersion(w)
  BY VersionsKept DEF LineageInv
<1>1. CASE v \in DOMAIN versions
  <2>1. v - 1 \in DOMAIN versions
    BY <1>1 DEF LineageInv, SnapshotTypeOK, TablesOK
  <2>2. SameVersion(v) /\ SameVersion(v - 1)
    BY <1>0, <1>1, <2>1
  <2>3. /\ versions[v].from = v - 1
        /\ versions[v].edit # << >> =>
             versions[v].deck =
               [versions[v - 1].deck EXCEPT ![versions[v].edit[1]] = versions[v].edit[2]]
    BY <1>1 DEF LineageInv, NoLostUpdate
  <2> QED BY ONLY <2>2, <2>3 DEF SameVersion
<1>2. CASE v \notin DOMAIN versions
  <2>1. PICK q \in Requests : /\ pc[q] = "inserted" /\ v = HeadVersion + 1
                              /\ versions'[v] = draft[q]
    BY <1>2, NewVersion
  <2>2. DraftOK(q) /\ InsertOK(q)
    BY <2>1 DEF LineageInv, DraftsOK, InsertsOK
  <2>3. HeadVersion \in Nat /\ DOMAIN versions = 1..HeadVersion
    BY DEF LineageInv, SnapshotTypeOK, TablesOK, HeadVersion
  <2>4. base[q] = v - 1 /\ (draft[q].edit # << >> => seen[q] = v - 1)
    BY <2>1, <2>2, <2>3 DEF DraftOK, InsertOK
  <2>5. SameVersion(base[q])
    BY <1>0, <2>2 DEF DraftOK
  <2> QED BY ONLY <2>1, <2>2, <2>4, <2>5 DEF DraftOK, SameVersion
<1> QED BY <1>1, <1>2

\* A request whose answer carries a draft has just committed its version.
LEMMA AnswersComeFrom ==
  ASSUME SnapshotTypeOK, [SnapshotNext]_vars, NEW r \in Requests,
         pc'[r] = "answered", draft'[r] # << >>, pc[r] # "answered"
  PROVE  CommitVersion(r)
<1> USE SnapshotAssumption DEF SnapshotTypeOK, LocalsOK, Actors, Goto, request
<1> DEFINE Ends == CommitVersion(r) \/ ApproveCommit(r) \/ PublishCommit(r) \/ RecordExport(r)
<1>1. ASSUME NEW q \in Requests, NEW b \in DOMAIN versions,
             \/ \E block \in Blocks, text \in Texts : EditDraft(q, b, block, text)
             \/ \E v \in DOMAIN versions : RestoreDraft(q, b, v)
             \/ ApproveRead(q, b)
      PROVE  Ends
  BY <1>1 DEF EditDraft, RestoreDraft, ApproveRead
<1>2. ASSUME NEW q \in Requests,
             \/ Insert(q) \/ Conflict(q) \/ CommitVersion(q) \/ ApproveCommit(q)
             \/ PublishCommit(q) \/ WriteFile(q) \/ RecordExport(q)
      PROVE  Ends
  <2>1. q # r => pc'[r] = pc[r]
    BY <1>2 DEF Insert, Conflict, CommitVersion, ApproveCommit, PublishCommit,
                WriteFile, RecordExport
  <2>2. pc'[q] = "answered" => ~Insert(q) /\ ~Conflict(q) /\ ~WriteFile(q)
    BY DEF Insert, Conflict, WriteFile
  <2> QED BY <1>2, <2>1, <2>2
<1>3. ASSUME NEW q \in Requests,
             PublishRead(q) \/ BundleRead(q) \/ \E f \in {"html", "gift"} : RegenerateRead(q, f)
      PROVE  Ends
  BY <1>3 DEF PublishRead, BundleRead, RegenerateRead
<1>4. CASE CompleteWrite \/ CompleteCommit
  BY <1>4 DEF CompleteWrite, CompleteCommit
<1>5. ASSUME NEW q \in Actors, Dies(q) PROVE Ends
  BY <1>5 DEF Dies
<1>6. CASE UNCHANGED vars
  BY <1>6 DEF vars
<1>7. Ends
  BY <1>1, <1>2, <1>3, <1>4, <1>5, <1>6 DEF SnapshotNext
<1>8. ~(ApproveCommit(r) \/ PublishCommit(r) \/ RecordExport(r))
  BY DEF ApproveCommit, PublishCommit, RecordExport, StagesOK, Reading
<1> QED BY <1>7, <1>8

LEMMA RestoreStep == LineageInv /\ [SnapshotNext]_vars => RestoreIsAVersion'
<1> SUFFICES ASSUME LineageInv, [SnapshotNext]_vars, NEW r \in Requests,
                    pc'[r] = "answered", draft'[r] # << >>, draft'[r].edit = << >>
             PROVE  result'[r] = base'[r] + 1
  BY DEF RestoreIsAVersion
<1> USE SnapshotAssumption DEF LineageInv, SnapshotTypeOK, LocalsOK, Actors, Goto, request
<1>1. CASE pc[r] = "answered"
  BY <1>1, AnsweredStays DEF RestoreIsAVersion
<1>2. CASE pc[r] # "answered"
  <2>1. CommitVersion(r)
    BY <1>2, AnswersComeFrom
  <2>2. pc[r] = "inserted" /\ UNCHANGED <<base, draft, result>>
    BY <2>1 DEF CommitVersion
  <2> QED BY <2>2 DEF InsertsOK, InsertOK
<1> QED BY <1>1, <1>2

LEMMA LineageStep == LineageInv /\ [SnapshotNext]_vars => LineageInv'
<1>1. LineageInv /\ [SnapshotNext]_vars => SnapshotTypeOK'
  BY TypeStep DEF LineageInv
<1> QED
  BY <1>1, DraftsStep, InsertsStep, TagsStep, LostUpdateStep, RestoreStep DEF LineageInv

LEMMA LineageCorrect == SnapshotSpec => []LineageInv
BY LineageInit, LineageStep, PTL DEF SnapshotSpec

\* The lineage is linear and no edit is lost, however many requests work on the
\* deck and on however many blocks.
THEOREM NoUpdateIsLost == SnapshotSpec => []NoLostUpdate
<1>1. LineageInv => NoLostUpdate
  BY DEF LineageInv
<1> QED BY <1>1, LineageCorrect, PTL

\* A restore that was answered is a version of its own after the head it
\* replaced: the tag keeps the insert from being skipped as a duplicate.
THEOREM RestoresAreVersions == SnapshotSpec => []RestoreIsAVersion
<1>1. LineageInv => RestoreIsAVersion
  BY DEF LineageInv
<1> QED BY <1>1, LineageCorrect, PTL

-----------------------------------------------------------------------------
(* Publication.                                                            *)

\* What a request is about to publish is approved, and stays so.
PublishInv ==
  /\ SnapshotTypeOK
  /\ live # None => live \in DOMAIN versions /\ versions[live].approved
  /\ \A q \in Requests : pc[q] = "publishing" => versions[seen[q]].approved

LEMMA PublishInit == SnapshotInit => PublishInv
BY TypeInit DEF SnapshotInit, PublishInv, Actors

LEMMA PublishStep == PublishInv /\ [SnapshotNext]_vars => PublishInv'
<1> SUFFICES ASSUME PublishInv, [SnapshotNext]_vars PROVE PublishInv'
  OBVIOUS
<1>0. SnapshotTypeOK' /\ \A v \in DOMAIN versions : SameVersion(v)
  BY TypeStep, VersionsKept DEF PublishInv
<1> USE SnapshotAssumption DEF SnapshotTypeOK, LocalsOK, Actors, Goto, request
<1>1. live' # None => live' \in DOMAIN versions' /\ versions'[live'].approved
  <2>1. CASE live' = live
    BY <1>0, <2>1 DEF PublishInv, SameVersion
  <2>2. ASSUME NEW q \in Requests, PublishCommit(q)
        PROVE  live' \in DOMAIN versions' /\ versions'[live'].approved
    <3>1. seen[q] \in DOMAIN versions /\ versions[seen[q]].approved
      BY <2>2 DEF PublishCommit, PublishInv, StagesOK, Reading
    <3> QED BY <1>0, <2>2, <3>1 DEF PublishCommit, SameVersion
  <2> QED
    BY <2>1, <2>2
    DEF SnapshotNext, vars, tables, EditDraft, RestoreDraft, ApproveRead, ApproveCommit,
        Conflict, PublishRead, BundleRead, RegenerateRead, Insert, CommitVersion, WriteFile,
        RecordExport, CompleteWrite, CompleteCommit, Dies
<1>2. ASSUME NEW r \in Requests, pc'[r] = "publishing" PROVE versions'[seen'[r]].approved
  <2>1. CASE pc[r] = "publishing" /\ seen'[r] = seen[r]
    <3>1. seen[r] \in DOMAIN versions /\ versions[seen[r]].approved
      BY <2>1 DEF PublishInv, StagesOK, Reading
    <3> QED BY <1>0, <2>1, <3>1 DEF SameVersion
  <2>2. CASE PublishRead(r)
    BY <2>2 DEF PublishRead, Publishable, HeadVersion, TablesOK, tables, PublishInv
  <2>3. \/ pc[r] = "publishing" /\ seen'[r] = seen[r]
        \/ PublishRead(r)
    <3>1. ASSUME NEW q \in Requests, NEW b \in DOMAIN versions,
                 \/ \E block \in Blocks, text \in Texts : EditDraft(q, b, block, text)
                 \/ \E v \in DOMAIN versions : RestoreDraft(q, b, v)
                 \/ ApproveRead(q, b)
          PROVE  <2>3
      BY <1>2, <3>1 DEF EditDraft, RestoreDraft, ApproveRead, PublishInv
    <3>2. ASSUME NEW q \in Requests,
                 \/ Insert(q) \/ Conflict(q) \/ CommitVersion(q) \/ ApproveCommit(q)
                 \/ PublishCommit(q) \/ WriteFile(q) \/ RecordExport(q)
          PROVE  <2>3
      BY <1>2, <3>2 DEF Insert, Conflict, CommitVersion, ApproveCommit, PublishCommit,
                        WriteFile, RecordExport, PublishInv
    <3>3. ASSUME NEW q \in Requests, PublishRead(q) PROVE <2>3
      BY <1>2, <3>3 DEF PublishRead, PublishInv
    <3>4. ASSUME NEW q \in Requests,
                 BundleRead(q) \/ \E f \in {"html", "gift"} : RegenerateRead(q, f)
          PROVE  <2>3
      BY <1>2, <3>4 DEF BundleRead, RegenerateRead, PublishInv
    <3>5. CASE CompleteWrite \/ CompleteCommit
      BY <1>2, <3>5 DEF CompleteWrite, CompleteCommit, PublishInv
    <3>6. ASSUME NEW q \in Actors, Dies(q) PROVE <2>3
      BY <1>2, <3>6 DEF Dies, PublishInv
    <3>7. CASE UNCHANGED vars
      BY <1>2, <3>7 DEF vars
    <3> QED BY <3>1, <3>2, <3>3, <3>4, <3>5, <3>6, <3>7 DEF SnapshotNext
  <2> QED BY <2>1, <2>2, <2>3
<1> QED BY <1>0, <1>1, <1>2 DEF PublishInv

\* No unapproved edit is ever live, however the head moves meanwhile.
THEOREM OnlyApprovedGoesLive == SnapshotSpec => []LiveWasApproved
<1>1. PublishInv => LiveWasApproved
  BY DEF PublishInv, LiveWasApproved
<1> QED BY <1>1, PublishInit, PublishStep, PTL DEF SnapshotSpec

-----------------------------------------------------------------------------
(* Exports.                                                                *)

HtmlFile(v) == <<"html", v>>

\* An HTML file holds the version it is named after, whoever wrote it and how
\* often, and it is on disk before anything refers to it.
FilesOK == \A p \in DOMAIN files : p[1] = "html" => files[p] = p[2]

RecordsOK ==
  \A i \in DOMAIN records :
    records[i].owner = "deck" /\ records[i].format = "html" =>
      /\ records[i].path = HtmlFile(records[i].snapshot)
      /\ records[i].path \in DOMAIN files

WrittenOK ==
  /\ \A q \in Requests :
       pc[q] = "written" /\ format[q] = "html" => HtmlFile(seen[q]) \in DOMAIN files
  /\ pc[Worker] = "written" => HtmlFile(1) \in DOMAIN files

ExportInv == SnapshotTypeOK /\ FilesOK /\ RecordsOK /\ WrittenOK

LEMMA ExportInit == SnapshotInit => ExportInv
BY TypeInit, SnapshotAssumption
DEF SnapshotInit, ExportInv, FilesOK, RecordsOK, WrittenOK, Actors

\* Files are replaced and added, never removed.
LEMMA FilesStep ==
  ASSUME ExportInv, [SnapshotNext]_vars
  PROVE  DOMAIN files \subseteq DOMAIN files' /\ FilesOK'
<1> USE DEF ExportInv, FilesOK
<1>1. CASE files' = files
  BY <1>1
<1>2. ASSUME NEW q \in Requests, WriteFile(q)
      PROVE  DOMAIN files \subseteq DOMAIN files' /\ FilesOK'
  <2>1. Path(format[q], seen[q])[1] = "html" => Path(format[q], seen[q])[2] = seen[q]
    BY DEF Path
  <2> QED BY <1>2, <2>1 DEF WriteFile, Written
<1>3. CASE CompleteWrite
  <2>1. /\ Path("html", 1)[2] = 1
        /\ Path("gift", 1)[1] = "gift"
    BY DEF Path
  <2> QED BY <1>3, <2>1 DEF CompleteWrite
<1> QED
  BY <1>1, <1>2, <1>3
  DEF SnapshotNext, vars, tables, EditDraft, RestoreDraft, ApproveRead, ApproveCommit,
      Conflict, PublishRead, PublishCommit, BundleRead, RegenerateRead, Insert,
      CommitVersion, RecordExport, CompleteCommit, Dies

LEMMA WrittenStep == ExportInv /\ [SnapshotNext]_vars => WrittenOK'
<1> SUFFICES ASSUME ExportInv, [SnapshotNext]_vars PROVE WrittenOK'
  OBVIOUS
<1>0. DOMAIN files \subseteq DOMAIN files'
  BY FilesStep
<1> USE SnapshotAssumption
    DEF ExportInv, SnapshotTypeOK, LocalsOK, WrittenOK, Actors, Goto, request
<1>1. ASSUME NEW q \in Requests, NEW b \in DOMAIN versions,
             \/ \E block \in Blocks, text \in Texts : EditDraft(q, b, block, text)
             \/ \E v \in DOMAIN versions : RestoreDraft(q, b, v)
             \/ ApproveRead(q, b)
      PROVE  WrittenOK'
  BY <1>0, <1>1 DEF EditDraft, RestoreDraft, ApproveRead
<1>2. ASSUME NEW q \in Requests,
             \/ Insert(q) \/ Conflict(q) \/ CommitVersion(q) \/ ApproveCommit(q)
             \/ PublishCommit(q) \/ RecordExport(q)
      PROVE  WrittenOK'
  BY <1>0, <1>2 DEF Insert, Conflict, CommitVersion, ApproveCommit, PublishCommit, RecordExport
<1>3. ASSUME NEW q \in Requests, WriteFile(q) PROVE WrittenOK'
  <2>1. Path(format[q], seen[q]) \in DOMAIN files'
    BY <1>3 DEF WriteFile, Written
  <2>2. format[q] = "html" => Path(format[q], seen[q]) = HtmlFile(seen[q])
    BY DEF Path, HtmlFile
  <2> QED BY <1>0, <1>3, <2>1, <2>2 DEF WriteFile
<1>4. ASSUME NEW q \in Requests,
             \/ PublishRead(q) \/ BundleRead(q)
             \/ \E f \in {"html", "gift"} : RegenerateRead(q, f)
      PROVE  WrittenOK'
  BY <1>0, <1>4 DEF PublishRead, BundleRead, RegenerateRead
<1>5. CASE CompleteWrite
  <2>1. HtmlFile(1) \in DOMAIN files'
    BY <1>5 DEF CompleteWrite, HtmlFile, Path
  <2> QED BY <1>0, <1>5, <2>1 DEF CompleteWrite
<1>6. CASE CompleteCommit
  BY <1>0, <1>6 DEF CompleteCommit
<1>7. ASSUME NEW q \in Actors, Dies(q) PROVE WrittenOK'
  BY <1>0, <1>7 DEF Dies
<1>8. CASE UNCHANGED vars
  BY <1>8 DEF vars, tables
<1> QED BY <1>1, <1>2, <1>3, <1>4, <1>5, <1>6, <1>7, <1>8 DEF SnapshotNext

\* A record that is added names its own snapshot's file, which is on disk.
LEMMA RecordAdded ==
  ASSUME NEW R \in Seq(ExportRows), NEW f \in Formats, NEW v \in Nat, NEW F,
         f = "html" => HtmlFile(v) \in F,
         \A i \in DOMAIN R : R[i].owner = "deck" /\ R[i].format = "html" =>
            R[i].path = HtmlFile(R[i].snapshot) /\ R[i].path \in F
  PROVE  LET S == Recorded(R, Record(f, v))
         IN  \A i \in DOMAIN S : S[i].owner = "deck" /\ S[i].format = "html" =>
               S[i].path = HtmlFile(S[i].snapshot) /\ S[i].path \in F
<1> DEFINE r == Record(f, v)
           S == Recorded(R, r)
<1>1. r.owner = "deck" /\ r.format = "html" => r.path = HtmlFile(r.snapshot) /\ r.path \in F
  <2>1. r.owner = "deck" /\ r.format = "html" => f = "html"
    BY DEF Record, Formats
  <2>2. r.snapshot = v /\ (f = "html" => r.path = HtmlFile(v))
    BY DEF Record, Path, HtmlFile
  <2> QED BY <2>1, <2>2
<1>2. S = R \/ S = Append(R, r)
  BY DEF Recorded
<1>3. \A i \in DOMAIN Append(R, r) : \/ i \in DOMAIN R /\ Append(R, r)[i] = R[i]
                                     \/ Append(R, r)[i] = r
  OBVIOUS
<1> HIDE DEF r, S
<1>4. ASSUME NEW i \in DOMAIN S, S[i].owner = "deck", S[i].format = "html"
      PROVE  S[i].path = HtmlFile(S[i].snapshot) /\ S[i].path \in F
  <2>1. (i \in DOMAIN R /\ S[i] = R[i]) \/ S[i] = r
    BY <1>2, <1>3, <1>4
  <2>2. CASE i \in DOMAIN R /\ S[i] = R[i]
    BY <1>4, <2>2
  <2>3. CASE S[i] = r
    BY <1>1, <1>4, <2>3
  <2> QED BY <2>1, <2>2, <2>3
<1> QED BY <1>4 DEF r, S

LEMMA RecordsStep == ExportInv /\ [SnapshotNext]_vars => RecordsOK'
<1> SUFFICES ASSUME ExportInv, [SnapshotNext]_vars PROVE RecordsOK'
  OBVIOUS
<1>0. DOMAIN files \subseteq DOMAIN files' /\ records \in Seq(ExportRows)
  BY FilesStep DEF ExportInv, SnapshotTypeOK, TablesOK
<1>1. CASE records' = records
  BY <1>0, <1>1 DEF ExportInv, RecordsOK
<1>2. ASSUME NEW q \in Requests, RecordExport(q) PROVE RecordsOK'
  <2>1. /\ format[q] \in Formats /\ seen[q] \in Nat
        /\ format[q] = "html" => HtmlFile(seen[q]) \in DOMAIN files
    BY <1>2 DEF RecordExport, ExportInv, SnapshotTypeOK, LocalsOK, StagesOK, WrittenOK, Actors
  <2>2. records' = Recorded(records, Record(format[q], seen[q])) /\ files' = files
    BY <1>2 DEF RecordExport
  <2> QED BY <1>0, <2>1, <2>2, RecordAdded DEF ExportInv, RecordsOK
<1>3. CASE CompleteCommit
  <2> DEFINE R == Recorded(records, Record("html", 1))
  <2>1. "html" \in Formats /\ "gift" \in Formats /\ HtmlFile(1) \in DOMAIN files
    BY <1>3 DEF CompleteCommit, Formats, ExportInv, WrittenOK
  <2>2. R \in Seq(ExportRows)
    BY <1>0, <2>1, RecordedType
  <2>3. \A i \in DOMAIN R : R[i].owner = "deck" /\ R[i].format = "html" =>
               R[i].path = HtmlFile(R[i].snapshot) /\ R[i].path \in DOMAIN files
    BY <1>0, <2>1, RecordAdded DEF ExportInv, RecordsOK
  <2>4. records' = Recorded(R, Record("gift", 1)) /\ files' = files
    BY <1>3 DEF CompleteCommit
  <2> HIDE DEF R
  <2> QED BY <2>1, <2>2, <2>3, <2>4, RecordAdded DEF RecordsOK
<1> QED
  BY <1>1, <1>2, <1>3
  DEF SnapshotNext, vars, tables, EditDraft, RestoreDraft, ApproveRead, ApproveCommit,
      Conflict, PublishRead, PublishCommit, BundleRead, RegenerateRead, Insert,
      CommitVersion, WriteFile, CompleteWrite, Dies

LEMMA ExportStep == ExportInv /\ [SnapshotNext]_vars => ExportInv'
BY TypeStep, FilesStep, WrittenStep, RecordsStep DEF ExportInv

\* The HTML of a recorded export is the rendering of its snapshot for ever,
\* through crashes between the file and its record and any number of repeats.
THEOREM RecordedHtmlStays == SnapshotSpec => []RecordedHtmlKept
<1>1. ExportInv => RecordedHtmlKept
  <2> SUFFICES ASSUME ExportInv, NEW i \in DOMAIN records,
                      records[i].owner = "deck", records[i].format = "html"
               PROVE  files[records[i].path] = records[i].snapshot
    BY DEF RecordedHtmlKept
  <2>1. records[i].path = HtmlFile(records[i].snapshot) /\ records[i].path \in DOMAIN files
    BY DEF ExportInv, RecordsOK
  <2>2. records[i].path[1] = "html" /\ records[i].path[2] = records[i].snapshot
    BY <2>1 DEF HtmlFile
  <2> QED BY <2>1, <2>2 DEF ExportInv, FilesOK
<1> QED BY <1>1, ExportInit, ExportStep, PTL DEF SnapshotSpec

-----------------------------------------------------------------------------
(* What is stored once and kept.                                           *)

\* content_hash is unique: no two versions say the same under the same tag.
ContentUnique ==
  \A v, w \in DOMAIN versions :
    versions[v].deck = versions[w].deck /\ versions[v].tag = versions[w].tag => v = w

Holds(q, v) == v \in SameContent(q)

\* An insert that was not skipped is of content no version has; a skipped one
\* answers with the version that has it.
InsertResult(q) ==
  IF result[q] \in DOMAIN versions THEN Holds(q, result[q])
  ELSE result[q] = HeadVersion + 1 /\ SameContent(q) = {}

InsertResults == \A q \in Requests : pc[q] = "inserted" => InsertResult(q)

\* The version an edit or a restore was answered with holds what was asked for.
AnswersHold ==
  \A q \in Requests :
    pc[q] = "answered" /\ draft[q] # << >> => Holds(q, result[q])

StoredOnce == ContentUnique /\ AnswersHold

StoreInv == StoredOnce /\ InsertResults

\* Versions are added at the end, one at a time, and neither rewritten nor
\* removed, and an approval is not withdrawn; neither is an export record.
LineageKept ==
  [][/\ Len(versions') \in {Len(versions), Len(versions) + 1}
     /\ \A v \in DOMAIN versions : SameVersion(v)
     /\ \A i \in DOMAIN records : i \in DOMAIN records' /\ records'[i] = records[i]]_vars

\* The version a request found or made keeps holding what it holds.
LEMMA HoldsStays ==
  ASSUME SnapshotTypeOK, [SnapshotNext]_vars, NEW q \in Requests,
         draft'[q] = draft[q], NEW v, Holds(q, v)
  PROVE  Holds(q, v)'
<1>1. v \in DOMAIN versions /\ SameVersion(v)
  BY VersionsKept DEF Holds, SameContent
<1> QED BY <1>1 DEF SameVersion, Holds, SameContent

\* Versions are only added by a commit, whose insert was not skipped.
LEMMA Growth ==
  ASSUME LineageInv, [SnapshotNext]_vars
  PROVE  \/ Len(versions') = Len(versions)
         \/ \E q \in Requests :
              /\ CommitVersion(q) /\ versions' = Append(versions, draft[q])
              /\ result[q] \notin DOMAIN versions
<1>0. versions \in Seq(VersionRows)
  BY DEF LineageInv, SnapshotTypeOK, TablesOK
<1>1. ASSUME NEW q \in Requests, CommitVersion(q)
      PROVE  \/ versions' = versions
             \/ versions' = Append(versions, draft[q]) /\ result[q] \notin DOMAIN versions
  BY <1>0, <1>1 DEF CommitVersion, HeadVersion
<1>2. ASSUME NEW q \in Requests, ApproveCommit(q) PROVE Len(versions') = Len(versions)
  BY <1>0, <1>2 DEF ApproveCommit
<1>3. \/ \E q \in Requests : CommitVersion(q) \/ ApproveCommit(q)
      \/ versions' = versions
  BY DEF SnapshotNext, vars, tables, EditDraft, RestoreDraft, ApproveRead, Conflict,
         PublishRead, BundleRead, RegenerateRead, Insert, PublishCommit, WriteFile,
         RecordExport, CompleteWrite, CompleteCommit, Dies
<1> QED BY <1>1, <1>2, <1>3

LEMMA UniqueStep == LineageInv /\ StoreInv /\ [SnapshotNext]_vars => ContentUnique'
<1> SUFFICES ASSUME LineageInv, StoreInv, [SnapshotNext]_vars,
                    NEW v \in DOMAIN versions', NEW w \in DOMAIN versions',
                    versions'[v].deck = versions'[w].deck, versions'[v].tag = versions'[w].tag
             PROVE  v = w
  BY DEF ContentUnique
<1>0. /\ versions \in Seq(VersionRows) /\ SnapshotTypeOK /\ SnapshotTypeOK'
      /\ versions' \in Seq(VersionRows)
  BY TypeStep DEF LineageInv, SnapshotTypeOK, TablesOK
<1>1. \A u \in DOMAIN versions : SameVersion(u)
  BY <1>0, VersionsKept
<1>2. CASE v \in DOMAIN versions /\ w \in DOMAIN versions
  BY <1>1, <1>2 DEF SameVersion, StoreInv, StoredOnce, ContentUnique
<1>3. ASSUME NEW q \in Requests, CommitVersion(q), versions' = Append(versions, draft[q]),
             result[q] \notin DOMAIN versions
      PROVE  v = w
  <2>1. SameContent(q) = {}
    BY <1>3 DEF CommitVersion, StoreInv, InsertResults, InsertResult
  <2>2. DOMAIN versions' = DOMAIN versions \cup {Len(versions) + 1}
    BY <1>0, <1>3
  <2>3. versions'[Len(versions) + 1] = draft[q]
    BY <1>0, <1>3
  <2>4. \A u \in DOMAIN versions :
          ~(versions'[u].deck = draft[q].deck /\ versions'[u].tag = draft[q].tag)
    BY <1>1, <2>1 DEF SameVersion, SameContent
  <2> QED BY <1>2, <2>2, <2>3, <2>4
<1>4. CASE Len(versions') = Len(versions)
  <2>1. DOMAIN versions' = DOMAIN versions
    BY <1>0, <1>4
  <2> QED BY <1>2, <2>1
<1> QED BY <1>3, <1>4, Growth

LEMMA InsertResultsStep == LineageInv /\ StoreInv /\ [SnapshotNext]_vars => InsertResults'
<1> SUFFICES ASSUME LineageInv, StoreInv, [SnapshotNext]_vars,
                    NEW r \in Requests, pc'[r] = "inserted"
             PROVE  InsertResult(r)'
  BY DEF InsertResults
<1>0. /\ versions \in Seq(VersionRows) /\ versions' \in Seq(VersionRows)
      /\ SnapshotTypeOK /\ result \in [Actors -> Nat] /\ r \in Actors
  BY TypeStep DEF LineageInv, SnapshotTypeOK, TablesOK, LocalsOK, Actors
<1>1. CASE Insert(r)
  <2>1. versions' = versions /\ draft' = draft
    BY <1>1 DEF Insert, tables
  <2>2. SameContent(r)' = SameContent(r)
    BY <2>1 DEF SameContent
  <2>3. result'[r] = IF SameContent(r) = {} THEN HeadVersion + 1
                     ELSE CHOOSE v \in SameContent(r) : TRUE
    BY <1>0, <1>1 DEF Insert
  <2>4. CASE SameContent(r) = {}
    <3>1. HeadVersion + 1 \notin DOMAIN versions
      BY <1>0 DEF HeadVersion
    <3> QED BY <2>1, <2>2, <2>3, <2>4, <3>1 DEF InsertResult, HeadVersion
  <2>5. CASE SameContent(r) # {}
    <3>1. result'[r] \in SameContent(r)
      BY <2>3, <2>5
    <3>2. result'[r] \in DOMAIN versions
      BY <3>1 DEF SameContent
    <3> QED BY <2>1, <2>2, <3>1, <3>2 DEF InsertResult, Holds
  <2> QED BY <2>4, <2>5
<1>2. CASE /\ pc[r] = "inserted" /\ (versions' = versions \/ Len(versions') = Len(versions))
           /\ UNCHANGED <<lock, base[r], draft[r], result[r]>>
  <2>1. InsertResult(r)
    BY <1>2 DEF StoreInv, InsertResults
  <2>2. DOMAIN versions' = DOMAIN versions /\ HeadVersion' = HeadVersion
    BY <1>0, <1>2 DEF HeadVersion
  <2>3. \A v \in DOMAIN versions : SameVersion(v)
    BY <1>0, VersionsKept
  <2>4. SameContent(r)' = SameContent(r)
    BY <1>2, <2>2, <2>3 DEF SameContent, SameVersion
  <2> QED BY <1>2, <2>1, <2>2, <2>4 DEF InsertResult, Holds
<1> QED BY <1>1, <1>2, InsertedStays

LEMMA AnswersStep == LineageInv /\ StoreInv /\ [SnapshotNext]_vars => AnswersHold'
<1> SUFFICES ASSUME LineageInv, StoreInv, [SnapshotNext]_vars,
                    NEW r \in Requests, pc'[r] = "answered", draft'[r] # << >>
             PROVE  Holds(r, result[r])'
  BY DEF AnswersHold
<1>0. SnapshotTypeOK /\ versions \in Seq(VersionRows) /\ r \in Actors
  BY DEF LineageInv, SnapshotTypeOK, TablesOK, Actors
<1>1. CASE pc[r] = "answered"
  <2>1. draft'[r] = draft[r] /\ result'[r] = result[r]
    BY <1>0, <1>1, AnsweredStays
  <2>2. Holds(r, result[r])
    BY <1>1, <2>1 DEF StoreInv, StoredOnce, AnswersHold
  <2> QED BY <1>0, <2>1, <2>2, HoldsStays DEF Holds
<1>2. CASE pc[r] # "answered"
  <2>1. CommitVersion(r)
    BY <1>0, <1>2, AnswersComeFrom
  <2>2. draft' = draft /\ result' = result /\ InsertResult(r)
    BY <2>1 DEF CommitVersion, request, StoreInv, InsertResults
  <2>3. CASE result[r] \in DOMAIN versions
    <3>1. Holds(r, result[r])
      BY <2>2, <2>3 DEF InsertResult
    <3> QED BY <1>0, <2>2, <3>1, HoldsStays DEF Holds
  <2>4. CASE result[r] \notin DOMAIN versions
    <3>1. result[r] = Len(versions) + 1
      BY <2>2, <2>4 DEF InsertResult, HeadVersion
    <3>2. versions' = Append(versions, draft[r])
      BY <1>0, <2>1, <3>1 DEF CommitVersion, HeadVersion
    <3>3. result[r] \in DOMAIN versions' /\ versions'[result[r]] = draft[r]
      BY <1>0, <3>1, <3>2
    <3> QED BY <2>2, <3>3 DEF Holds, SameContent
  <2> QED BY <2>3, <2>4
<1> QED BY <1>1, <1>2

LEMMA StoreInit == SnapshotInit => StoreInv
<1> SUFFICES ASSUME SnapshotInit PROVE StoreInv
  OBVIOUS
<1>1. PICK d \in Decks : versions = <<Row(d, NoOne, << >>, None)>>
  BY DEF SnapshotInit
<1>2. DOMAIN versions = {1}
  BY <1>1
<1> QED
  BY <1>2
  DEF SnapshotInit, StoreInv, StoredOnce, ContentUnique, AnswersHold, InsertResults, Actors

LEMMA StoreCorrect == SnapshotSpec => [](LineageInv /\ StoreInv)
<1>1. LineageInv /\ StoreInv /\ [SnapshotNext]_vars => StoreInv'
  BY UniqueStep, InsertResultsStep, AnswersStep DEF StoreInv, StoredOnce
<1> QED BY <1>1, StoreInit, LineageCorrect, PTL DEF SnapshotSpec

\* content_hash stays unique over the lineage, and the version a request is
\* answered with holds what it asked for, also when its insert was skipped for
\* a row that has the content already (create_snapshot).
THEOREM ContentIsStoredOnce == SnapshotSpec => []StoredOnce
<1>1. StoreInv => StoredOnce
  BY DEF StoreInv
<1> QED BY <1>1, StoreCorrect, PTL

\* Export records are added at the end.
LEMMA RecordsGrow ==
  ASSUME SnapshotTypeOK, [SnapshotNext]_vars
  PROVE  \A i \in DOMAIN records : i \in DOMAIN records' /\ records'[i] = records[i]
<1>1. ASSUME NEW R \in Seq(ExportRows), NEW e
      PROVE  \A i \in DOMAIN R : i \in DOMAIN Recorded(R, e) /\ Recorded(R, e)[i] = R[i]
  BY DEF Recorded
<1>2. records \in Seq(ExportRows)
  BY DEF SnapshotTypeOK, TablesOK
<1>3. ASSUME NEW q \in Requests, RecordExport(q)
      PROVE  \A i \in DOMAIN records : i \in DOMAIN records' /\ records'[i] = records[i]
  BY <1>1, <1>2, <1>3 DEF RecordExport
<1>4. CASE CompleteCommit
  <2> DEFINE R == Recorded(records, Record("html", 1))
  <2>1. R \in Seq(ExportRows)
    BY <1>2, RecordedType DEF Formats
  <2>2. records' = Recorded(R, Record("gift", 1))
    BY <1>4 DEF CompleteCommit
  <2>3. \A i \in DOMAIN records : i \in DOMAIN R /\ R[i] = records[i]
    BY <1>1, <1>2
  <2> HIDE DEF R
  <2> QED BY <1>1, <2>1, <2>2, <2>3
<1>5. CASE records' = records
  BY <1>5
<1> QED
  BY <1>3, <1>4, <1>5
  DEF SnapshotNext, vars, tables, EditDraft, RestoreDraft, ApproveRead, ApproveCommit,
      Conflict, PublishRead, PublishCommit, BundleRead, RegenerateRead, Insert,
      CommitVersion, WriteFile, CompleteWrite, Dies

\* The history a teacher may restore from and the records downloads are found
\* by are append-only, whatever is edited, restored, exported or retried
\* (create_scoped_edit_snapshot, create_export_record; ADR-056).
THEOREM LineageIsKept == SnapshotSpec => LineageKept
<1>1. LineageInv /\ [SnapshotNext]_vars =>
        /\ Len(versions') \in {Len(versions), Len(versions) + 1}
        /\ \A v \in DOMAIN versions : SameVersion(v)
        /\ \A i \in DOMAIN records : i \in DOMAIN records' /\ records'[i] = records[i]
  <2> SUFFICES ASSUME LineageInv, [SnapshotNext]_vars
               PROVE  /\ Len(versions') \in {Len(versions), Len(versions) + 1}
                      /\ \A v \in DOMAIN versions : SameVersion(v)
                      /\ \A i \in DOMAIN records :
                           i \in DOMAIN records' /\ records'[i] = records[i]
    OBVIOUS
  <2>1. SnapshotTypeOK /\ versions \in Seq(VersionRows)
    BY DEF LineageInv, SnapshotTypeOK, TablesOK
  <2>2. Len(versions') \in {Len(versions), Len(versions) + 1}
    BY <2>1, Growth
  <2> QED BY <2>1, <2>2, VersionsKept, RecordsGrow
<1> QED BY <1>1, LineageCorrect, PTL DEF SnapshotSpec, LineageKept

=============================================================================
