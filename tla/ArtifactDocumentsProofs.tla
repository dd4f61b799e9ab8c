----------------------- MODULE ArtifactDocumentsProofs -----------------------
(* Proofs about ArtifactDocuments.                                          *)
EXTENDS ArtifactDocuments, FiniteSetTheorems, TLAPS

-----------------------------------------------------------------------------
(* The inductive invariant.                                                 *)

\* The versions of an artifact are 1 to its head: the head is what get_latest
\* says it is.
Contiguous ==
    \A l \in Lineages : \E n \in 0..MaxVersion :
        \A v \in Versions : Exists(l, v) <=> v <= n

BaseOK ==
    \A l \in Lineages, v \in Versions : Exists(l, v) => docs[l][v].base = v - 1

Writing == {"latest", "lock", "insert", "commit"}

\* What a request that writes a version has in hand.  The number it read may be
\* older than the head until it holds the lock; a row it has inserted is the
\* next one after the head.
Draft(q) ==
    /\ pc[q] \in Writing \cup {"source"} => draft[q] \in Docs
    /\ pc[q] = "source" => line[q] = "derived"
    /\ pc[q] = "latest" => draft[q].base <= Head(line[q])
    /\ pc[q] = "lock" => draft[q].base <= seen[q] /\ seen[q] <= Head(line[q])
    /\ pc[q] = "insert" => draft[q].base = seen[q] /\ seen[q] <= Head(line[q])
    /\ pc[q] = "commit" => draft[q].base = seen[q] /\ seen[q] = Head(line[q])
    /\ pc[q] \in Writing /\ line[q] = "source" => Head("source") # 0
    /\ pc[q] = "notes" => seen[q] \in Versions

Drafts == \A q \in Requests : Draft(q)

\* At most one request has an uncommitted row of an artifact.
OneWriter ==
    \A q, r \in Requests :
        pc[q] = "commit" /\ pc[r] = "commit" /\ line[q] = line[r] => q = r

VersionInv == DocumentTypeOK /\ Contiguous /\ BaseOK /\ Drafts /\ OneWriter

\* The notes a request must respect are open, and its marks respect them.
NoteInv ==
    /\ \A q \in Requests : \A n \in blockers[q] :
         /\ notes[n][1] = "open"
         /\ \A m \in marks[q] : m[1] # notes[n][2]
    /\ \A q \in Requests : pc[q] = "idle" => marks[q] = {}

-----------------------------------------------------------------------------
(* The head.                                                                *)

LEMMA MaxVersionType == MaxVersion \in Nat /\ MaxVersion >= 1
<1>1. Cardinality(Requests) \in Nat
  BY DocumentAssumption, FS_CardinalityType DEF DocumentAssumption
<1> QED BY <1>1 DEF MaxVersion

\* The head of an artifact is the only number its versions can have.
HeadIs ==
    \A l \in Lineages, n \in 0..MaxVersion :
        (\A v \in Versions : Exists(l, v) <=> v <= n) => Head(l) = n

LEMMA HeadNow == HeadIs
<1> SUFFICES ASSUME NEW l \in Lineages, NEW n \in 0..MaxVersion,
                    \A v \in Versions : Exists(l, v) <=> v <= n
             PROVE  Head(l) = n
  BY DEF HeadIs
<1> USE MaxVersionType DEF Versions
<1>1. /\ n = 0 \/ Exists(l, n)
      /\ \A w \in Versions : Exists(l, w) => w <= n
  OBVIOUS
<1>2. ASSUME NEW m \in 0..MaxVersion, m = 0 \/ Exists(l, m),
             \A w \in Versions : Exists(l, w) => w <= m
      PROVE  m = n
  <2>1. m <= n
    BY <1>2 DEF Exists
  <2>2. n <= m
    BY <1>1, <1>2 DEF Exists
  <2> QED BY <2>1, <2>2
<1> QED BY <1>1, <1>2 DEF Head

LEMMA HeadNext == HeadIs'
BY HeadNow, PTL

LEMMA HeadFacts ==
    ASSUME Contiguous, NEW l \in Lineages
    PROVE  /\ Head(l) \in 0..MaxVersion
           /\ \A v \in Versions : Exists(l, v) <=> v <= Head(l)
           /\ Head(l) # 0 => Head(l) \in Versions
<1>1. PICK n \in 0..MaxVersion : \A v \in Versions : Exists(l, v) <=> v <= n
  BY DEF Contiguous
<1>2. Head(l) = n
  BY <1>1, HeadNow DEF HeadIs
<1> QED BY <1>1, <1>2, MaxVersionType DEF Versions

-----------------------------------------------------------------------------
(* Types.                                                                   *)

LEMMA TypeInit == DocumentInit => DocumentTypeOK
<1> SUFFICES ASSUME DocumentInit PROVE DocumentTypeOK
  OBVIOUS
<1> USE MaxVersionType DEF DocumentInit, Lineages, Steps
<1>1. docs \in [Lineages -> [Versions -> Docs \cup {NoDoc}]]
  OBVIOUS
<1>2. notes \in [Notes -> {"absent", "open", "resolved"} \X Lineages]
  OBVIOUS
<1>3. /\ approvals \subseteq Lineages \X Versions
      /\ generated \in [Generations -> {"no", "stored", "refused"}]
      /\ pc \in [Requests -> Steps]
      /\ line \in [Requests -> Lineages]
      /\ seen \in [Requests -> 0..MaxVersion]
  OBVIOUS
<1>4. /\ draft \in [Requests -> Docs \cup {NoDraft}]
      /\ todo \in [Requests -> SUBSET Lineages]
      /\ marks \in [Requests -> SUBSET (Lineages \X Versions)]
      /\ lock \in [Lineages -> Requests \cup {NoDoc}]
      /\ blockers \in [Requests -> SUBSET Notes]
  OBVIOUS
<1> QED BY <1>1, <1>2, <1>3, <1>4 DEF DocumentTypeOK

\* The locals of a request that is over.
LEMMA EndTypes ==
    ASSUME DocumentTypeOK, NEW q \in Requests, EndRequest(q)
    PROVE  /\ pc' \in [Requests -> Steps]
           /\ line' \in [Requests -> Lineages]
           /\ draft' \in [Requests -> Docs \cup {NoDraft}]
           /\ seen' \in [Requests -> 0..MaxVersion]
           /\ todo' \in [Requests -> SUBSET Lineages]
           /\ marks' \in [Requests -> SUBSET (Lineages \X Versions)]
           /\ lock' \in [Lineages -> Requests \cup {NoDoc}]
           /\ blockers' \in [Requests -> SUBSET Notes]
<1> USE MaxVersionType DEF DocumentTypeOK, EndRequest, Unlocked, Lineages, Steps
<1>1. pc' \in [Requests -> Steps] /\ line' \in [Requests -> Lineages]
  OBVIOUS
<1>2. draft' \in [Requests -> Docs \cup {NoDraft}] /\ seen' \in [Requests -> 0..MaxVersion]
  OBVIOUS
<1>3. /\ todo' \in [Requests -> SUBSET Lineages]
      /\ marks' \in [Requests -> SUBSET (Lineages \X Versions)]
      /\ blockers' \in [Requests -> SUBSET Notes]
  OBVIOUS
<1>4. lock' \in [Lineages -> Requests \cup {NoDoc}]
  OBVIOUS
<1> QED BY <1>1, <1>2, <1>3, <1>4

LEMMA TypeStep == VersionInv /\ [DocumentNext]_vars => DocumentTypeOK'
<1> SUFFICES ASSUME VersionInv, [DocumentNext]_vars PROVE DocumentTypeOK'
  OBVIOUS
<1>0. \A l \in Lineages : Head(l) \in 0..MaxVersion
  BY HeadFacts DEF VersionInv
<1>l. "source" \in Lineages /\ "derived" \in Lineages
  BY DEF Lineages
<1> USE MaxVersionType
    DEF VersionInv, DocumentTypeOK, Steps, docVars, noteVars, editVars, okVars
<1>1. ASSUME NEW q \in Requests, NEW l \in Lineages, NEW b \in Versions,
             Edit(q, l, b)
      PROVE  DocumentTypeOK'
  <2>1. [content |-> q, base |-> b] \in Docs
    BY DEF Docs, Versions
  <2> QED BY <1>1, <2>1 DEF Edit
<1>2. ASSUME NEW q \in Requests, NEW l \in Lineages, NEW t \in Versions,
             Restore(q, l, t)
      PROVE  DocumentTypeOK'
  <2>1. docs[l][t] \in Docs
    BY <1>2 DEF Restore, Exists
  <2>2. [content |-> docs[l][t].content, base |-> Head(l)] \in Docs
    BY <1>0, <2>1 DEF Docs
  <2> QED BY <1>2, <2>2 DEF Restore
<1>3. ASSUME NEW q \in Requests, NEW l \in Lineages, NEW v \in Versions,
             Approve(q, l, v)
      PROVE  DocumentTypeOK'
  <2>1. AllOpen \subseteq Notes /\ v \in 0..MaxVersion
    BY DEF AllOpen, OpenNotes, Versions
  <2> QED BY <1>3, <2>1 DEF Approve
<1>4. ASSUME NEW q \in Requests, Derive(q) PROVE DocumentTypeOK'
  <2>1. [content |-> q, base |-> 0] \in Docs
    BY DEF Docs
  <2> QED BY <1>l, <1>4, <2>1 DEF Derive
<1>5. ASSUME NEW q \in Requests, ApproveAll(q) PROVE DocumentTypeOK'
  <2>1. AllOpen \subseteq Notes
    BY DEF AllOpen, OpenNotes
  <2> QED BY <1>5, <2>1 DEF ApproveAll
<1>6. ASSUME NEW q \in Requests, RequestLost(q) PROVE DocumentTypeOK'
  BY <1>6, EndTypes DEF RequestLost
<1>7. ASSUME NEW q \in Requests, ReadLatest(q) PROVE DocumentTypeOK'
  BY <1>0, <1>7 DEF ReadLatest
<1>8. ASSUME NEW q \in Requests, ReadDerived(q) PROVE DocumentTypeOK'
  <2>1. draft[q] \in Docs
    BY <1>8 DEF ReadDerived, Drafts, Draft
  <2>2. [draft[q] EXCEPT !.base = Head("derived")] \in Docs
    BY <1>0, <1>l, <2>1 DEF Docs
  <2>3. draft' = [draft EXCEPT ![q] = [draft[q] EXCEPT !.base = Head("derived")]]
    BY <1>8 DEF ReadDerived
  <2> HIDE DEF Docs
  <2> QED BY <1>0, <1>l, <1>8, <2>2, <2>3 DEF ReadDerived
<1>9. ASSUME NEW q \in Requests, LockAndCheck(q) PROVE DocumentTypeOK'
  <2>1. CASE StillHead(q)
    <3>1. line[q] \in Lineages
      OBVIOUS
    <3>2. lock' = [lock EXCEPT ![line[q]] = q] /\ pc' = [pc EXCEPT ![q] = "insert"]
      BY <1>9, <2>1 DEF LockAndCheck
    <3>3. /\ lock' \in [Lineages -> Requests \cup {NoDoc}]
          /\ pc' \in [Requests -> Steps]
      BY <3>1, <3>2
    <3> QED BY <1>9, <2>1, <3>3 DEF LockAndCheck
  <2>2. CASE ~StillHead(q)
    BY <1>9, <2>2, EndTypes DEF LockAndCheck
  <2> QED BY <2>1, <2>2
<1>10. ASSUME NEW q \in Requests, Insert(q) PROVE DocumentTypeOK'
  <2>1. CASE Exists(line[q], seen[q] + 1)
    BY <1>10, <2>1, EndTypes DEF Insert
  <2>2. CASE ~Exists(line[q], seen[q] + 1)
    BY <1>10, <2>2 DEF Insert
  <2> QED BY <2>1, <2>2
<1>11. ASSUME NEW q \in Requests, CommitVersion(q) PROVE DocumentTypeOK'
  <2>1. draft[q] \in Docs
    BY <1>11 DEF CommitVersion, Drafts, Draft, Writing
  <2>2. docs' \in [Lineages -> [Versions -> Docs \cup {NoDoc}]]
    BY <1>11, <2>1 DEF CommitVersion
  <2> QED BY <1>11, <2>2, EndTypes DEF CommitVersion
<1>12. ASSUME NEW q \in Requests, NEW l \in Lineages, ReadHead(q, l) PROVE DocumentTypeOK'
  <2>1. CASE Head(l) = 0
    BY <1>12, <2>1 DEF ReadHead
  <2>2. CASE Head(l) # 0
    <3>1. /\ line' = [line EXCEPT ![q] = l]
          /\ seen' = [seen EXCEPT ![q] = Head(l)]
          /\ pc' = [pc EXCEPT ![q] = "notes"]
          /\ UNCHANGED <<docs, generated, approvals, notes, draft, lock, todo, marks, blockers>>
      BY <1>12, <2>2 DEF ReadHead
    <3>2. seen' \in [Requests -> 0..MaxVersion]
      BY <1>0, <3>1
    <3> QED BY <3>1, <3>2
  <2> QED BY <2>1, <2>2
<1>13. ASSUME NEW q \in Requests, CheckNotes(q) PROVE DocumentTypeOK'
  <2>1. <<line[q], seen[q]>> \in Lineages \X Versions
    BY <1>13 DEF CheckNotes, Drafts, Draft
  <2> QED BY <1>13, <2>1 DEF CheckNotes
<1>14. ASSUME NEW q \in Requests, CommitApproval(q) PROVE DocumentTypeOK'
  BY <1>14, EndTypes DEF CommitApproval
<1>15. ASSUME NEW g \in Generations, Generate(g) \/ GenerateAgain(g) PROVE DocumentTypeOK'
  <2>1. [content |-> g, base |-> 0] \in Docs
    BY DEF Docs
  <2>2. CASE Generate(g)
    <3>1. docs' \in [Lineages -> [Versions -> Docs \cup {NoDoc}]]
      BY <2>1, <2>2 DEF Generate
    <3> QED BY <2>2, <3>1 DEF Generate
  <2>3. CASE GenerateAgain(g)
    BY <2>3 DEF GenerateAgain
  <2> QED BY <1>15, <2>2, <2>3
<1>16. ASSUME NEW n \in Notes, ResolveNote(n) PROVE DocumentTypeOK'
  <2>1. notes' \in [Notes -> {"absent", "open", "resolved"} \X Lineages]
    BY <1>16 DEF ResolveNote
  <2> QED BY <1>16, <2>1 DEF ResolveNote
<1>17. ASSUME NEW n \in Notes, NEW l \in Lineages, OpenNote(n, l) PROVE DocumentTypeOK'
  BY <1>17 DEF OpenNote
<1>18. CASE UNCHANGED vars
  BY <1>18 DEF vars
<1> HIDE DEF DocumentTypeOK
<1> QED
  BY <1>1, <1>2, <1>3, <1>4, <1>5, <1>6, <1>7, <1>8, <1>9, <1>10, <1>11, <1>12, <1>13,
     <1>14, <1>15, <1>16, <1>17, <1>18
  DEF DocumentNext, Handle

-----------------------------------------------------------------------------
(* Versions.                                                                *)

\* A version is appended to an artifact.
Appended(l, d) ==
    /\ Head(l) + 1 \in Versions
    /\ d.base = Head(l)
    /\ docs' = [docs EXCEPT ![l][Head(l) + 1] = d]

\* What a step may do to the documents.
LEMMA DocsStep ==
    ASSUME VersionInv, [DocumentNext]_vars
    PROVE  \/ docs' = docs
           \/ \E l \in Lineages, d \in Docs : Appended(l, d)
<1> USE MaxVersionType DEF VersionInv
<1>1. ASSUME NEW g \in Generations, Generate(g)
      PROVE  \E l \in Lineages, d \in Docs : Appended(l, d)
  <2>1. "source" \in Lineages /\ 0 + 1 \in Versions
    BY DEF Lineages, Versions
  <2>2. [content |-> g, base |-> 0] \in Docs
    BY DEF Docs
  <2>3. Appended("source", [content |-> g, base |-> 0])
    <3> DEFINE d == [content |-> g, base |-> 0]
    <3>1. Head("source") = 0 /\ docs' = [docs EXCEPT !["source"][1] = d] /\ d.base = 0
      BY <1>1 DEF Generate
    <3> HIDE DEF d
    <3>2. Head("source") + 1 = 1 /\ 0 + 1 = 1
      BY <3>1
    <3>3. docs' = [docs EXCEPT !["source"][Head("source") + 1] = d]
      BY <3>1, <3>2
    <3>4. Appended("source", d)
      BY <2>1, <3>1, <3>2, <3>3 DEF Appended
    <3> QED BY <3>4 DEF d
  <2> QED BY <2>1, <2>2, <2>3
<1>2. ASSUME NEW q \in Requests, CommitVersion(q)
      PROVE  docs' = docs \/ \E l \in Lineages, d \in Docs : Appended(l, d)
  <2>1. /\ draft[q] \in Docs /\ draft[q].base = seen[q] /\ seen[q] = Head(line[q])
        /\ line[q] \in Lineages
    BY <1>2 DEF CommitVersion, Drafts, Draft, Writing, DocumentTypeOK
  <2>2. docs' = [docs EXCEPT ![line[q]][Head(line[q]) + 1] = draft[q]]
    BY <1>2, <2>1 DEF CommitVersion
  <2>3. CASE Head(line[q]) + 1 \in Versions
    BY <2>1, <2>2, <2>3 DEF Appended
  <2>4. CASE Head(line[q]) + 1 \notin Versions
    <3>1. docs[line[q]] \in [Versions -> Docs \cup {NoDoc}] /\ DOMAIN docs = Lineages
      BY <2>1 DEF DocumentTypeOK
    <3>2. [docs[line[q]] EXCEPT ![Head(line[q]) + 1] = draft[q]] = docs[line[q]]
      BY <2>4, <3>1
    <3>3. docs = [l \in Lineages |-> docs[l]]
      BY DEF DocumentTypeOK
    <3> QED BY <2>2, <3>2, <3>3
  <2> QED BY <2>3, <2>4
<1>3. CASE UNCHANGED vars
  BY <1>3 DEF vars, docVars
<1> QED
  BY <1>1, <1>2, <1>3
  DEF DocumentNext, Handle, Edit, Restore, Approve, Derive, ApproveAll, RequestLost,
      ReadLatest, ReadDerived, LockAndCheck, Insert, ReadHead, CheckNotes,
      CommitApproval, GenerateAgain, ResolveNote, OpenNote, docVars

LEMMA AppendFacts ==
    ASSUME VersionInv, NEW l \in Lineages, NEW d \in Docs, Appended(l, d)
    PROVE  /\ Head(l)' = Head(l) + 1
           /\ \A m \in Lineages \ {l} : Head(m)' = Head(m)
           /\ \A m \in Lineages, v \in Versions : Exists(m, v)' <=> v <= Head(m)'
           /\ \A m \in Lineages, v \in Versions : Exists(m, v) => docs'[m][v] = docs[m][v]
           /\ BaseOK'
<1> USE MaxVersionType
<1>0. /\ docs \in [Lineages -> [Versions -> Docs \cup {NoDoc}]]
      /\ Head(l) + 1 \in Versions /\ d.base = Head(l) /\ d # NoDoc
      /\ docs' = [docs EXCEPT ![l][Head(l) + 1] = d]
  BY DocumentAssumption DEF VersionInv, DocumentTypeOK, Appended, DocumentAssumption
<1>1. \A m \in Lineages : /\ Head(m) \in 0..MaxVersion
                          /\ \A v \in Versions : Exists(m, v) <=> v <= Head(m)
  BY HeadFacts DEF VersionInv
<1>2. /\ \A v \in Versions : docs'[l][v] = IF v = Head(l) + 1 THEN d ELSE docs[l][v]
      /\ \A m \in Lineages \ {l} : docs'[m] = docs[m]
  BY <1>0
<1>3. \A v \in Versions : Exists(l, v)' <=> v <= Head(l) + 1
  BY <1>0, <1>1, <1>2 DEF Exists, Versions
<1>4. \A m \in Lineages \ {l} : \A v \in Versions : Exists(m, v)' <=> v <= Head(m)
  BY <1>1, <1>2 DEF Exists
<1>5. Head(l)' = Head(l) + 1
  BY <1>0, <1>3, HeadNext DEF HeadIs, Versions
<1>6. \A m \in Lineages \ {l} : Head(m)' = Head(m)
  BY <1>1, <1>4, HeadNext DEF HeadIs
<1>7. \A m \in Lineages, v \in Versions : Exists(m, v) => docs'[m][v] = docs[m][v]
  BY <1>0, <1>1, <1>2 DEF Versions
<1>8. BaseOK'
  <2> SUFFICES ASSUME NEW m \in Lineages, NEW v \in Versions, Exists(m, v)'
               PROVE  docs'[m][v].base = v - 1
    BY DEF BaseOK
  <2>1. CASE m = l /\ v = Head(l) + 1
    BY <1>0, <1>1, <1>2, <2>1 DEF Versions
  <2>2. CASE ~(m = l /\ v = Head(l) + 1)
    <3>1. Exists(m, v)
      BY <1>1, <1>3, <1>4, <2>2 DEF Versions
    <3> QED BY <1>7, <3>1 DEF VersionInv, BaseOK
  <2> QED BY <2>1, <2>2
<1> QED BY <1>3, <1>4, <1>5, <1>6, <1>7, <1>8

\* Without a document written the heads stay.
LEMMA SameDocs ==
    ASSUME docs' = docs
    PROVE  /\ \A l \in Lineages : Head(l)' = Head(l)
           /\ \A l \in Lineages, v \in Versions : Exists(l, v)' <=> Exists(l, v)
BY DEF Head, Exists

LEMMA HistoryStep ==
    ASSUME VersionInv, [DocumentNext]_vars
    PROVE  /\ Contiguous' /\ BaseOK'
           /\ \A l \in Lineages : /\ Head(l) \in 0..MaxVersion /\ Head(l)' \in 0..MaxVersion
                                  /\ Head(l) <= Head(l)'
           /\ \A l \in Lineages, v \in Versions : Exists(l, v) => docs'[l][v] = docs[l][v]
<1> USE MaxVersionType
<1>1. \A l \in Lineages : /\ Head(l) \in 0..MaxVersion
                          /\ \A v \in Versions : Exists(l, v) <=> v <= Head(l)
  BY HeadFacts DEF VersionInv
<1>2. CASE docs' = docs
  <2>1. BaseOK'
    BY <1>2, SameDocs DEF VersionInv, BaseOK
  <2>2. Contiguous'
    BY <1>1, <1>2, SameDocs DEF Contiguous
  <2> QED BY <1>1, <1>2, <2>1, <2>2, SameDocs
<1>3. ASSUME NEW l \in Lineages, NEW d \in Docs, Appended(l, d)
      PROVE  /\ Contiguous' /\ BaseOK'
             /\ \A m \in Lineages : Head(m)' \in 0..MaxVersion /\ Head(m) <= Head(m)'
             /\ \A m \in Lineages, v \in Versions : Exists(m, v) => docs'[m][v] = docs[m][v]
  <2>1. \A m \in Lineages : Head(m)' \in 0..MaxVersion /\ Head(m) <= Head(m)'
    <3>1. Head(l)' = Head(l) + 1 /\ \A m \in Lineages \ {l} : Head(m)' = Head(m)
      BY <1>3, AppendFacts
    <3>2. Head(l) + 1 \in 0..MaxVersion
      BY <1>3 DEF Appended, Versions
    <3> QED BY <1>1, <3>1, <3>2
  <2>2. Contiguous'
    BY <1>3, <2>1, AppendFacts DEF Contiguous
  <2> QED BY <1>3, <2>1, <2>2, AppendFacts
<1> QED BY <1>1, <1>2, <1>3, DocsStep

-----------------------------------------------------------------------------
(* What each request has in hand.                                           *)

Kept(r) == /\ pc'[r] = pc[r] /\ line'[r] = line[r]
           /\ draft'[r] = draft[r] /\ seen'[r] = seen[r]

\* A request without a version to write.
LEMMA DraftEnd ==
    ASSUME DocumentTypeOK, NEW q \in Requests, EndRequest(q), NEW r \in Requests
    PROVE  (r = q /\ Draft(r)') \/ (r # q /\ Kept(r))
BY DEF DocumentTypeOK, EndRequest, Draft, Kept, Writing

\* A row that is inserted stays the next one until its own commit.
LEMMA HeadsStep ==
    ASSUME VersionInv, [DocumentNext]_vars, NEW r \in Requests, Kept(r), pc[r] = "commit"
    PROVE  Head(line[r])' = Head(line[r])
<1> USE DEF VersionInv
<1>1. line[r] \in Lineages /\ seen[r] = Head(line[r])
  BY DEF DocumentTypeOK, Drafts, Draft
<1>2. ASSUME NEW l \in Lineages, l = line[r], docs'[l] = docs[l]
      PROVE  Head(l)' = Head(l)
  BY <1>2 DEF Head, Exists
<1>3. ASSUME NEW g \in Generations, Generate(g) PROVE docs'[line[r]] = docs[line[r]]
  <2>1. line[r] # "source"
    BY <1>3 DEF Generate, Drafts, Draft, Writing
  <2> QED BY <1>1, <1>3, <2>1 DEF Generate, DocumentTypeOK
<1>4. ASSUME NEW q \in Requests, CommitVersion(q) PROVE docs'[line[r]] = docs[line[r]]
  <2>1. q # r
    BY <1>4 DEF CommitVersion, EndRequest, Kept, DocumentTypeOK
  <2>2. line[q] # line[r] /\ line[q] \in Lineages
    BY <1>4, <2>1 DEF CommitVersion, OneWriter, DocumentTypeOK
  <2> QED BY <1>1, <1>4, <2>2 DEF CommitVersion, DocumentTypeOK
<1>5. ASSUME docs' = docs PROVE docs'[line[r]] = docs[line[r]]
  BY <1>5
<1>6. docs'[line[r]] = docs[line[r]]
  BY <1>3, <1>4, <1>5
  DEF vars, DocumentNext, Handle, Edit, Restore, Approve, Derive, ApproveAll, RequestLost,
      ReadLatest, ReadDerived, LockAndCheck, Insert, ReadHead, CheckNotes,
      CommitApproval, GenerateAgain, ResolveNote, OpenNote, docVars
<1> QED BY <1>1, <1>2, <1>6 DEF Kept

LEMMA DraftKept ==
    ASSUME VersionInv, [DocumentNext]_vars, NEW r \in Requests, Kept(r)
    PROVE  Draft(r)'
<1>1. \A l \in Lineages : /\ Head(l) \in 0..MaxVersion /\ Head(l)' \in 0..MaxVersion
                          /\ Head(l) <= Head(l)'
  BY HistoryStep
<1>2. pc[r] = "commit" => Head(line[r])' = Head(line[r])
  BY HeadsStep
<1>3. /\ Draft(r) /\ line[r] \in Lineages /\ "source" \in Lineages
      /\ seen[r] \in 0..MaxVersion
      /\ pc[r] \in Writing => draft[r].base \in 0..MaxVersion
  BY DEF VersionInv, Drafts, Draft, Docs, DocumentTypeOK, Lineages
<1> QED BY <1>1, <1>2, <1>3, MaxVersionType DEF Draft, Kept, Writing

LEMMA DraftStep ==
    ASSUME VersionInv, [DocumentNext]_vars
    PROVE  Drafts'
<1> SUFFICES ASSUME NEW r \in Requests PROVE Draft(r)'
  BY DEF Drafts
<1>k. Kept(r) => Draft(r)'
  BY DraftKept
<1>h. \A l \in Lineages : /\ Head(l) \in 0..MaxVersion
                          /\ \A v \in Versions : Exists(l, v) <=> v <= Head(l)
                          /\ Head(l) # 0 => Head(l) \in Versions
  BY HeadFacts DEF VersionInv
<1>l. "source" \in Lineages /\ "derived" \in Lineages /\ "source" # "derived"
  BY DEF Lineages
<1> USE MaxVersionType DEF VersionInv, docVars, noteVars, editVars, okVars
<1>t. /\ pc \in [Requests -> Steps] /\ line \in [Requests -> Lineages]
      /\ draft \in [Requests -> Docs \cup {NoDraft}] /\ seen \in [Requests -> 0..MaxVersion]
      /\ Draft(r)
  BY DEF DocumentTypeOK, Drafts
<1>1. ASSUME NEW q \in Requests, NEW l \in Lineages, NEW b \in Versions,
             Edit(q, l, b)
      PROVE  Draft(r)'
  <2>1. CASE r = q
    <3>1. /\ pc'[r] = "latest" /\ line'[r] = l /\ draft'[r] = [content |-> q, base |-> b]
          /\ b <= Head(l) /\ docs' = docs
      BY <1>h, <1>t, <1>1, <2>1 DEF Edit
    <3>2. [content |-> q, base |-> b] \in Docs /\ [content |-> q, base |-> b].base = b
      BY DEF Docs, Versions
    <3> QED BY <1>h, <1>l, <3>1, <3>2, SameDocs DEF Draft, Writing, Versions
  <2>2. CASE r # q
    BY <1>k, <1>t, <1>1, <2>2 DEF Edit, Kept
  <2> QED BY <2>1, <2>2
<1>2. ASSUME NEW q \in Requests, NEW l \in Lineages, NEW t \in Versions,
             Restore(q, l, t)
      PROVE  Draft(r)'
  <2>1. CASE r = q
    <3> DEFINE d == [content |-> docs[l][t].content, base |-> Head(l)]
    <3>1. pc'[r] = "latest" /\ line'[r] = l /\ draft'[r] = d /\ t <= Head(l) /\ docs' = docs
      BY <1>h, <1>t, <1>2, <2>1 DEF Restore
    <3>2. docs[l][t] \in Docs
      BY <1>2 DEF Restore, Exists, DocumentTypeOK
    <3>3. d \in Docs /\ d.base = Head(l)
      BY <1>h, <3>2 DEF Docs
    <3> HIDE DEF d
    <3> QED BY <1>h, <1>l, <3>1, <3>3, SameDocs DEF Draft, Writing, Versions
  <2>2. CASE r # q
    BY <1>k, <1>t, <1>2, <2>2 DEF Restore, Kept
  <2> QED BY <2>1, <2>2
<1>3. ASSUME NEW q \in Requests, NEW l \in Lineages, NEW v \in Versions,
             Approve(q, l, v)
      PROVE  Draft(r)'
  <2>1. CASE r = q
    BY <1>t, <1>3, <2>1 DEF Approve, Draft, Writing
  <2>2. CASE r # q
    BY <1>k, <1>t, <1>3, <2>2 DEF Approve, Kept
  <2> QED BY <2>1, <2>2
<1>4. ASSUME NEW q \in Requests, Derive(q) PROVE Draft(r)'
  <2>1. CASE r = q
    <3>1. [content |-> q, base |-> 0] \in Docs
      BY DEF Docs
    <3> QED BY <1>l, <1>t, <1>4, <2>1, <3>1 DEF Derive, Draft, Writing
  <2>2. CASE r # q
    BY <1>k, <1>t, <1>4, <2>2 DEF Derive, Kept
  <2> QED BY <2>1, <2>2
<1>5. ASSUME NEW q \in Requests, ApproveAll(q) PROVE Draft(r)'
  BY <1>k, <1>t, <1>5 DEF ApproveAll, Kept, Draft, Writing
<1>6. ASSUME NEW q \in Requests, EndRequest(q) PROVE Draft(r)'
  BY <1>k, <1>6, DraftEnd
<1>7. ASSUME NEW q \in Requests, ReadLatest(q) PROVE Draft(r)'
  <2>1. CASE r = q
    <3>1. /\ pc[r] = "latest" /\ pc'[r] = "lock" /\ line'[r] = line[r] /\ draft'[r] = draft[r]
          /\ seen'[r] = Head(line[r]) /\ docs' = docs /\ line[r] \in Lineages
      BY <1>t, <1>7, <2>1 DEF ReadLatest
    <3> QED BY <1>h, <1>l, <1>t, <3>1, SameDocs DEF Draft, Writing
  <2>2. CASE r # q
    BY <1>k, <1>t, <1>7, <2>2 DEF ReadLatest, Kept
  <2> QED BY <2>1, <2>2
<1>8. ASSUME NEW q \in Requests, ReadDerived(q) PROVE Draft(r)'
  <2>1. CASE r = q
    <3> DEFINE d == [draft[q] EXCEPT !.base = Head("derived")]
    <3>1. /\ pc[r] = "source" /\ pc'[r] = IF Head("derived") = 0 THEN "insert" ELSE "lock"
          /\ line'[r] = line[r] /\ draft'[r] = d
          /\ seen'[r] = Head("derived") /\ docs' = docs
      BY <1>t, <1>8, <2>1 DEF ReadDerived
    <3>2. draft[q] \in Docs /\ line[r] = "derived"
      BY <1>t, <2>1, <3>1 DEF Draft
    <3>3. d \in Docs /\ d.base = Head("derived")
      BY <1>h, <1>l, <3>2 DEF Docs
    <3> HIDE DEF d
    <3> QED BY <1>h, <1>l, <3>1, <3>2, <3>3, SameDocs DEF Draft, Writing
  <2>2. CASE r # q
    BY <1>k, <1>t, <1>8, <2>2 DEF ReadDerived, Kept
  <2> QED BY <2>1, <2>2
<1>9. ASSUME NEW q \in Requests, LockAndCheck(q), StillHead(q) PROVE Draft(r)'
  <2>1. CASE r = q
    <3>1. /\ pc[r] = "lock" /\ pc'[r] = "insert" /\ line'[r] = line[r] /\ draft'[r] = draft[r]
          /\ seen'[r] = seen[r] /\ docs' = docs /\ line[r] \in Lineages
          /\ Head(line[r]) = draft[r].base
      BY <1>t, <1>9, <2>1 DEF LockAndCheck, StillHead
    <3> QED BY <1>h, <1>l, <1>t, <3>1, SameDocs DEF Draft, Writing
  <2>2. CASE r # q
    BY <1>k, <1>t, <1>9, <2>2 DEF LockAndCheck, Kept
  <2> QED BY <2>1, <2>2
<1>10. ASSUME NEW q \in Requests, Insert(q), ~Exists(line[q], seen[q] + 1) PROVE Draft(r)'
  <2>1. CASE r = q
    <3>1. /\ pc[r] = "insert" /\ pc'[r] = "commit" /\ line'[r] = line[r] /\ draft'[r] = draft[r]
          /\ seen'[r] = seen[r] /\ docs' = docs /\ line[r] \in Lineages
          /\ ~Exists(line[r], seen[r] + 1)
      BY <1>t, <1>10, <2>1 DEF Insert
    <3>2. draft[r].base = seen[r] /\ seen[r] <= Head(line[r]) /\ seen[r] \in 0..MaxVersion
      BY <1>t, <3>1 DEF Draft
    <3>3. seen[r] = Head(line[r])
      BY <1>h, <3>1, <3>2 DEF Versions
    <3> QED BY <1>l, <1>t, <3>1, <3>2, <3>3, SameDocs DEF Draft, Writing
  <2>2. CASE r # q
    BY <1>k, <1>t, <1>10, <2>2 DEF Insert, Kept
  <2> QED BY <2>1, <2>2
<1>11. ASSUME NEW q \in Requests, NEW l \in Lineages, ReadHead(q, l) PROVE Draft(r)'
  <2>1. CASE r = q /\ Head(l) # 0
    BY <1>h, <1>t, <1>11, <2>1 DEF ReadHead, Draft, Writing
  <2>2. CASE r # q \/ Head(l) = 0
    BY <1>k, <1>t, <1>11, <2>2 DEF ReadHead, Kept
  <2> QED BY <2>1, <2>2
<1>12. ASSUME NEW q \in Requests, CheckNotes(q) PROVE Draft(r)'
  BY <1>k, <1>t, <1>12 DEF CheckNotes, Kept, Draft, Writing
<1>13. CASE UNCHANGED <<pc, line, draft, seen>>
  BY <1>k, <1>13 DEF Kept
<1>14. CASE UNCHANGED vars
  BY <1>13, <1>14 DEF vars
<1>15. ASSUME NEW q \in Requests, Handle(q) PROVE Draft(r)'
  BY <1>6, <1>7, <1>8, <1>9, <1>10, <1>11, <1>12, <1>15
  DEF Handle, LockAndCheck, Insert, CommitVersion, CommitApproval
<1> QED
  BY <1>1, <1>2, <1>3, <1>4, <1>5, <1>6, <1>13, <1>14, <1>15
  DEF DocumentNext, RequestLost, Generate, GenerateAgain, ResolveNote, OpenNote

\* Requests with a row inserted.
LEMMA WriterStep ==
    ASSUME VersionInv, [DocumentNext]_vars
    PROVE  OneWriter'
<1> USE DEF VersionInv, docVars, noteVars, editVars, okVars
<1>t. pc \in [Requests -> Steps] /\ line \in [Requests -> Lineages]
  BY DEF DocumentTypeOK
<1> DEFINE NoNew == \A r \in Requests : pc'[r] = "commit" => pc[r] = "commit" /\ line'[r] = line[r]
<1>1. ASSUME NEW q \in Requests, Insert(q), ~Exists(line[q], seen[q] + 1) PROVE OneWriter'
  <2>1. /\ pc[q] = "insert" /\ pc' = [pc EXCEPT ![q] = "commit"] /\ line' = line
        /\ Rivals(q) = {} /\ seen[q] = seen'[q] /\ docs' = docs
    BY <1>1 DEF Insert
  <2>2. Draft(q)' /\ \A r \in Requests : Draft(r)
    BY DraftStep DEF Drafts
  <2>3. seen[q] = Head(line[q])
    <3>1. line[q] \in Lineages
      BY <1>t
    <3> QED BY <1>t, <2>1, <2>2, <3>1, SameDocs DEF Draft
  <2>4. \A r \in Requests \ {q} : ~(pc[r] = "commit" /\ line[r] = line[q])
    BY <2>1, <2>2, <2>3 DEF Rivals, Draft
  <2> QED BY <1>t, <2>1, <2>4 DEF OneWriter
<1>2. ASSUME NEW q \in Requests, EndRequest(q) PROVE NoNew
  BY <1>t, <1>2 DEF EndRequest
<1>3. ASSUME NEW q \in Requests, Handle(q) PROVE NoNew \/ OneWriter'
  <2>1. ASSUME NEW l \in Lineages, ReadHead(q, l) PROVE NoNew
    BY <1>t, <2>1 DEF ReadHead
  <2>2. CASE ReadLatest(q) \/ ReadDerived(q) \/ CheckNotes(q)
    BY <1>t, <2>2 DEF ReadLatest, ReadDerived, CheckNotes
  <2>3. CASE LockAndCheck(q)
    BY <1>t, <1>2, <2>3 DEF LockAndCheck
  <2> HIDE DEF NoNew
  <2> QED BY <1>1, <1>2, <1>3, <2>1, <2>2, <2>3 DEF Handle, Insert, CommitVersion, CommitApproval
<1>4. ASSUME NEW q \in Requests, NEW l \in Lineages, NEW v \in Versions,
             Edit(q, l, v) \/ Restore(q, l, v) \/ Approve(q, l, v)
      PROVE  NoNew
  BY <1>t, <1>4 DEF Edit, Restore, Approve
<1>5. ASSUME NEW q \in Requests, Derive(q) \/ ApproveAll(q) PROVE NoNew
  BY <1>t, <1>5 DEF Derive, ApproveAll
<1>6. ASSUME UNCHANGED <<pc, line>> PROVE NoNew
  BY <1>6
<1>7. ASSUME UNCHANGED vars PROVE NoNew
  BY <1>6, <1>7 DEF vars
<1>8. CASE NoNew
  BY <1>8 DEF OneWriter
<1> HIDE DEF NoNew
<1> QED
  BY <1>2, <1>3, <1>4, <1>5, <1>6, <1>7, <1>8
  DEF DocumentNext, RequestLost, Generate, GenerateAgain, ResolveNote, OpenNote

LEMMA VersionInit == DocumentInit => VersionInv
<1> SUFFICES ASSUME DocumentInit PROVE VersionInv
  OBVIOUS
<1> USE MaxVersionType
<1>1. \A l \in Lineages, v \in Versions : ~Exists(l, v)
  BY DEF DocumentInit, Exists
<1>2. Contiguous
  <2>1. \A l \in Lineages, v \in Versions : Exists(l, v) <=> v <= 0
    BY <1>1 DEF Versions
  <2> QED BY <2>1 DEF Contiguous
<1>3. BaseOK
  BY <1>1 DEF BaseOK
<1>4. \A q \in Requests : pc[q] = "idle"
  BY DEF DocumentInit
<1>5. Drafts /\ OneWriter
  BY <1>4 DEF Drafts, Draft, Writing, OneWriter
<1> QED BY TypeInit, <1>2, <1>3, <1>5 DEF VersionInv

LEMMA VersionStep == VersionInv /\ [DocumentNext]_vars => VersionInv'
BY TypeStep, HistoryStep, DraftStep, WriterStep DEF VersionInv

-----------------------------------------------------------------------------
(* Notes and approvals.                                                     *)

LEMMA NoteInit == DocumentInit => NoteInv
BY DEF DocumentInit, NoteInv

LEMMA NoteStep ==
    ASSUME DocumentTypeOK, NoteInv, [DocumentNext]_vars
    PROVE  NoteInv'
<1> USE DEF docVars, noteVars, editVars, okVars
<1>t. /\ pc \in [Requests -> Steps] /\ line \in [Requests -> Lineages]
      /\ marks \in [Requests -> SUBSET (Lineages \X Versions)]
      /\ blockers \in [Requests -> SUBSET Notes]
      /\ notes \in [Notes -> {"absent", "open", "resolved"} \X Lineages]
  BY DEF DocumentTypeOK
<1>o. \A n \in AllOpen : n \in Notes /\ notes[n][1] = "open"
  BY DEF AllOpen, OpenNotes
<1>1. ASSUME NEW q \in Requests, NEW l \in Lineages, NEW v \in Versions, Approve(q, l, v)
      PROVE  NoteInv'
  <2>1. /\ pc[q] = "idle" /\ marks[q] = {} /\ marks' = marks /\ notes' = notes
        /\ \A r \in Requests \ {q} : blockers'[r] = blockers[r] /\ pc'[r] = pc[r]
        /\ blockers'[q] \subseteq AllOpen /\ pc'[q] # "idle"
    BY <1>t, <1>1 DEF Approve, NoteInv
  <2> QED BY <1>o, <2>1 DEF NoteInv
<1>2. ASSUME NEW q \in Requests, ApproveAll(q) PROVE NoteInv'
  <2>1. /\ pc[q] = "idle" /\ marks[q] = {} /\ marks' = marks /\ notes' = notes
        /\ \A r \in Requests \ {q} : blockers'[r] = blockers[r] /\ pc'[r] = pc[r]
        /\ blockers'[q] \subseteq AllOpen /\ pc'[q] # "idle"
    BY <1>t, <1>2 DEF ApproveAll, NoteInv
  <2> QED BY <1>o, <2>1 DEF NoteInv
<1>3. ASSUME NEW q \in Requests, CheckNotes(q) PROVE NoteInv'
  <2>1. /\ blockers' = blockers /\ notes' = notes /\ pc'[q] # "idle"
        /\ \A r \in Requests \ {q} : marks'[r] = marks[r] /\ pc'[r] = pc[r]
        /\ marks'[q] = IF Blocked(line[q]) THEN marks[q]
                       ELSE marks[q] \cup {<<line[q], seen[q]>>}
    BY <1>t, <1>3 DEF CheckNotes
  <2>2. ASSUME NEW n \in blockers[q], NEW m \in marks'[q] PROVE m[1] # notes[n][2]
    <3>1. CASE m \in marks[q]
      BY <3>1 DEF NoteInv
    <3>2. CASE m \notin marks[q]
      <4>1. m = <<line[q], seen[q]>> /\ OpenNotes(line[q]) = {}
        BY <2>1, <3>2 DEF Blocked
      <4>2. n \in Notes /\ notes[n][1] = "open" /\ notes[n] = <<notes[n][1], notes[n][2]>>
        BY <1>t DEF NoteInv
      <4>3. notes[n] # <<"open", line[q]>>
        BY <4>1, <4>2 DEF OpenNotes
      <4> QED BY <4>1, <4>2, <4>3
    <3> QED BY <3>1, <3>2
  <2> QED BY <2>1, <2>2 DEF NoteInv
<1>4. ASSUME NEW n \in Notes, ResolveNote(n) PROVE NoteInv'
  <2>1. /\ \A r \in Requests : blockers'[r] = blockers[r] \ {n}
        /\ \A k \in Notes \ {n} : notes'[k] = notes[k]
        /\ marks' = marks /\ pc' = pc
    BY <1>t, <1>4 DEF ResolveNote
  <2> QED BY <1>t, <2>1 DEF NoteInv
<1>5. ASSUME NEW n \in Notes, NEW l \in Lineages, OpenNote(n, l) PROVE NoteInv'
  <2>1. /\ notes[n][1] = "absent" /\ \A k \in Notes \ {n} : notes'[k] = notes[k]
        /\ UNCHANGED <<marks, blockers, pc>>
    BY <1>t, <1>5 DEF OpenNote
  <2>2. \A r \in Requests : n \notin blockers[r]
    BY <2>1 DEF NoteInv
  <2> QED BY <1>t, <2>1, <2>2 DEF NoteInv
<1>6. ASSUME NEW q \in Requests, EndRequest(q), UNCHANGED notes PROVE NoteInv'
  <2>1. /\ \A r \in Requests \ {q} : /\ marks'[r] = marks[r] /\ pc'[r] = pc[r]
                                    /\ blockers'[r] = blockers[r]
        /\ blockers'[q] = {} /\ pc'[q] # "idle" /\ notes' = notes
    BY <1>t, <1>6 DEF EndRequest
  <2> QED BY <2>1 DEF NoteInv
<1> DEFINE Still == /\ UNCHANGED <<notes, marks, blockers>>
                    /\ \A r \in Requests : pc'[r] = "idle" => pc[r] = "idle"
<1>7. CASE Still
  BY <1>7 DEF NoteInv
<1>8. ASSUME NEW q \in Requests, NEW l \in Lineages, NEW v \in Versions,
             Edit(q, l, v) \/ Restore(q, l, v)
      PROVE  Still
  BY <1>t, <1>8 DEF Edit, Restore
<1>9. ASSUME NEW q \in Requests, Derive(q) \/ ReadLatest(q) \/ ReadDerived(q) PROVE Still
  BY <1>t, <1>9 DEF Derive, ReadLatest, ReadDerived
<1>10. ASSUME NEW q \in Requests, NEW l \in Lineages, ReadHead(q, l) PROVE Still
  BY <1>t, <1>10 DEF ReadHead
<1>11. ASSUME NEW q \in Requests, LockAndCheck(q) PROVE NoteInv'
  <2>1. CASE StillHead(q)
    <3>1. Still
      BY <1>t, <1>11, <2>1 DEF LockAndCheck
    <3> QED BY <1>7, <3>1
  <2> QED BY <1>6, <1>11, <2>1 DEF LockAndCheck
<1>12. ASSUME NEW q \in Requests, Insert(q) PROVE NoteInv'
  <2>1. CASE ~Exists(line[q], seen[q] + 1)
    <3>1. Still
      BY <1>t, <1>12, <2>1 DEF Insert
    <3> QED BY <1>7, <3>1
  <2> QED BY <1>6, <1>12, <2>1 DEF Insert
<1>13. ASSUME NEW g \in Generations, Generate(g) \/ GenerateAgain(g) PROVE Still
  BY <1>13 DEF Generate, GenerateAgain
<1>14. ASSUME UNCHANGED vars PROVE Still
  BY <1>14 DEF vars
<1>15. ASSUME NEW q \in Requests, Handle(q) PROVE NoteInv'
  <2> HIDE DEF Still
  <2> QED
    BY <1>3, <1>6, <1>7, <1>9, <1>10, <1>11, <1>12, <1>15
    DEF Handle, CommitVersion, CommitApproval
<1> HIDE DEF Still
<1> QED
  BY <1>1, <1>2, <1>4, <1>5, <1>6, <1>7, <1>8, <1>9, <1>13, <1>14, <1>15
  DEF DocumentNext, RequestLost

-----------------------------------------------------------------------------
(* The theorems.                                                            *)

LEMMA DocumentInvariant == DocumentSpec => [](VersionInv /\ NoteInv)
<1>1. DocumentInit => VersionInv /\ NoteInv
  BY VersionInit, NoteInit
<1>2. VersionInv /\ NoteInv /\ [DocumentNext]_vars => (VersionInv /\ NoteInv)'
  BY VersionStep, NoteStep DEF VersionInv
<1> QED BY <1>1, <1>2, PTL DEF DocumentSpec

\* Every reachable state is well typed (all routes of artifact_documents.py).
THEOREM DocumentTypeCorrect == DocumentSpec => []DocumentTypeOK
<1>1. VersionInv => DocumentTypeOK
  BY DEF VersionInv
<1> QED BY <1>1, DocumentInvariant, PTL

\* However many teachers edit, restore and derive at once, every version of an
\* artifact was written over the version right before it, and versions have no
\* gap: the check under the lock and the unique constraint make up for the
\* number that create_edit got from a read before the lock.
THEOREM EditsAreNotLost == DocumentSpec => []NoLostEdit
<1>1. VersionInv => NoLostEdit
  <2> SUFFICES ASSUME VersionInv, NEW l \in Lineages, NEW v \in Versions, Exists(l, v)
               PROVE  docs[l][v].base = v - 1 /\ (v > 1 => Exists(l, v - 1))
    BY DEF NoLostEdit
  <2>1. Head(l) \in 0..MaxVersion /\ \A w \in Versions : Exists(l, w) <=> w <= Head(l)
    BY HeadFacts DEF VersionInv
  <2>2. v > 1 => Exists(l, v - 1)
    BY <2>1, MaxVersionType DEF Versions
  <2> QED BY <2>2 DEF VersionInv, BaseOK
<1> QED BY <1>1, DocumentInvariant, PTL

\* No approval is committed over a blocking note that was open since it was
\* asked for (approve_artifact_version, approve_all_current).
THEOREM ApprovalsRespectNotes == DocumentSpec => []NotesRespected
<1>1. NoteInv => NotesRespected
  BY DEF NoteInv, NotesRespected
<1> QED BY <1>1, DocumentInvariant, PTL

\* No step changes a committed version or takes an approval away (persist,
\* restore_artifact_document, persist_result).
THEOREM HistoryIsKept == DocumentSpec => HistoryKept
<1>1. VersionInv /\ [DocumentNext]_vars =>
        [/\ \A l \in Lineages, v \in Versions : Exists(l, v) => docs'[l][v] = docs[l][v]
         /\ approvals \subseteq approvals']_vars
  <2> SUFFICES ASSUME VersionInv, [DocumentNext]_vars
               PROVE  /\ \A l \in Lineages, v \in Versions :
                            Exists(l, v) => docs'[l][v] = docs[l][v]
                      /\ approvals \subseteq approvals'
    OBVIOUS
  <2>1. approvals \subseteq approvals'
    BY DEF vars, DocumentNext, Handle, Edit, Restore, Approve, Derive, ApproveAll,
       RequestLost, ReadLatest, ReadDerived, LockAndCheck, Insert, CommitVersion,
       ReadHead, CheckNotes, CommitApproval, Generate, GenerateAgain, ResolveNote,
       OpenNote, noteVars
  <2> QED BY <2>1, HistoryStep
<1> QED BY <1>1, DocumentInvariant, PTL DEF DocumentSpec, HistoryKept

-----------------------------------------------------------------------------
(* Waiting and progress.                                                    *)

\* Who has an advisory lock is past the check it protects, and an approval that
\* looks at the notes of an artifact still has it to do.
WaitInv ==
    /\ \A l \in Lineages : lock[l] # NoDoc =>
         /\ pc[lock[l]] \in {"insert", "commit"}
         /\ line[lock[l]] = l
    /\ \A q \in Requests : pc[q] = "notes" => line[q] \in todo[q]

\* How far a request that writes a version has come.
Stage(q) == IF pc[q] = "commit" THEN 2 ELSE IF pc[q] = "insert" THEN 1 ELSE 0

\* Whoever is waited for is further than the one that waits, and some request
\* waits for nobody.
WaitsEnd ==
    /\ \A q \in Requests : \A r \in WaitsFor(q) : r \in Active /\ Stage(r) > Stage(q)
    /\ Active # {} => \E q \in Active : WaitsFor(q) = {}

\* The statements a request still has to execute at most.
StepsLeft(q) ==
    CASE pc[q] = "idle" -> 2 * Cardinality(Lineages) + 2
      [] pc[q] = "head" -> 2 * Cardinality(todo[q]) + 1
      [] pc[q] = "notes" -> 2 * Cardinality(todo[q])
      [] pc[q] \in {"latest", "source"} -> 4
      [] pc[q] = "lock" -> 3
      [] pc[q] = "insert" -> 2
      [] pc[q] = "commit" -> 1
      [] pc[q] = "done" -> 0

\* Every step of a request brings it closer to its end, and nobody sends
\* another one back.
StepsRunOut ==
    [][\A q \in Requests : /\ StepsLeft(q)' <= StepsLeft(q)
                           /\ Handle(q) => StepsLeft(q)' < StepsLeft(q)]_vars

LEMMA WaitStep ==
    ASSUME DocumentTypeOK, WaitInv, [DocumentNext]_vars
    PROVE  WaitInv'
<1> USE DEF docVars, noteVars, editVars, okVars
<1>t. /\ pc \in [Requests -> Steps] /\ line \in [Requests -> Lineages]
      /\ todo \in [Requests -> SUBSET Lineages]
      /\ lock \in [Lineages -> Requests \cup {NoDoc}] /\ NoDoc \notin Requests
  BY DocumentAssumption DEF DocumentTypeOK, DocumentAssumption
\* Steps of a request that holds no lock and takes none.
<1> DEFINE Unlocking(q) ==
             /\ pc[q] \notin {"insert", "commit"} /\ lock' = lock
             /\ \A r \in Requests \ {q} :
                  pc'[r] = pc[r] /\ line'[r] = line[r] /\ todo'[r] = todo[r]
             /\ pc'[q] = "notes" => line'[q] \in todo'[q]
<1>1. ASSUME NEW q \in Requests, Unlocking(q) PROVE WaitInv'
  BY <1>t, <1>1 DEF WaitInv
<1>2. ASSUME NEW q \in Requests, NEW l \in Lineages, NEW v \in Versions,
             Edit(q, l, v) \/ Restore(q, l, v) \/ Approve(q, l, v)
      PROVE  Unlocking(q)
  <2>1. CASE Edit(q, l, v) \/ Restore(q, l, v)
    BY <1>t, <2>1 DEF Edit, Restore
  <2>2. CASE Approve(q, l, v)
    BY <1>t, <2>2 DEF Approve
  <2> QED BY <1>2, <2>1, <2>2
<1>3. ASSUME NEW q \in Requests, Derive(q) \/ ApproveAll(q) PROVE Unlocking(q)
  BY <1>t, <1>3 DEF Derive, ApproveAll
<1>4. ASSUME NEW q \in Requests, ReadLatest(q) \/ ReadDerived(q) \/ CheckNotes(q)
      PROVE  Unlocking(q)
  BY <1>t, <1>4 DEF ReadLatest, ReadDerived, CheckNotes
<1>5. ASSUME NEW q \in Requests, NEW l \in Lineages, ReadHead(q, l) PROVE Unlocking(q)
  <2>1. CASE Head(l) = 0
    BY <1>t, <1>5, <2>1 DEF ReadHead
  <2>2. CASE Head(l) # 0
    BY <1>t, <1>5, <2>2 DEF ReadHead
  <2> QED BY <2>1, <2>2
<1>6. ASSUME NEW q \in Requests, EndRequest(q) PROVE WaitInv'
  <2>1. /\ \A r \in Requests \ {q} :
             pc'[r] = pc[r] /\ line'[r] = line[r] /\ todo'[r] = todo[r]
        /\ pc'[q] = "done"
        /\ \A l \in Lineages : lock'[l] = IF lock[l] = q THEN NoDoc ELSE lock[l]
    BY <1>t, <1>6 DEF EndRequest, Unlocked
  <2> QED BY <1>t, <2>1 DEF WaitInv
<1>7. ASSUME NEW q \in Requests, LockAndCheck(q), StillHead(q) PROVE WaitInv'
  <2>1. /\ lock[line[q]] = NoDoc /\ line[q] \in Lineages /\ pc[q] = "lock"
        /\ lock' = [lock EXCEPT ![line[q]] = q]
        /\ pc' = [pc EXCEPT ![q] = "insert"] /\ line' = line /\ todo' = todo
    BY <1>t, <1>7 DEF LockAndCheck
  <2> QED BY <1>t, <2>1 DEF WaitInv
<1>8. ASSUME NEW q \in Requests, Insert(q), ~Exists(line[q], seen[q] + 1) PROVE WaitInv'
  <2>1. /\ pc[q] = "insert" /\ pc' = [pc EXCEPT ![q] = "commit"]
        /\ line' = line /\ lock' = lock /\ todo' = todo
    BY <1>8 DEF Insert
  <2> QED BY <1>t, <2>1 DEF WaitInv
<1>9. ASSUME UNCHANGED <<pc, line, lock, todo>> PROVE WaitInv'
  BY <1>9 DEF WaitInv
<1>10. ASSUME UNCHANGED vars PROVE WaitInv'
  BY <1>9, <1>10 DEF vars
<1> HIDE DEF Unlocking
<1>11. ASSUME NEW q \in Requests, Handle(q) PROVE WaitInv'
  BY <1>1, <1>4, <1>5, <1>6, <1>7, <1>8, <1>11
  DEF Handle, LockAndCheck, Insert, CommitVersion, CommitApproval
<1> QED
  BY <1>1, <1>2, <1>3, <1>6, <1>9, <1>10, <1>11
  DEF DocumentNext, RequestLost, Generate, GenerateAgain, ResolveNote, OpenNote

LEMMA WaitInvariant == DocumentSpec => []WaitInv
<1>1. DocumentInit => WaitInv
  BY DEF DocumentInit, WaitInv
<1>2. DocumentTypeOK /\ WaitInv /\ [DocumentNext]_vars => WaitInv'
  BY WaitStep
<1> QED BY <1>1, <1>2, DocumentTypeCorrect, PTL DEF DocumentSpec

\* Nobody waits in a circle: a request waits for the holder of its advisory lock
\* or for an uncommitted row of its version, whoever it waits for is further
\* than itself, and a request that has inserted its row waits for nobody
\* (create_edit 168-188, the unique constraint of artifact_documents).  Since
\* LockAndCheck and Insert are all that wait, some request in progress can go on.
THEOREM NobodyWaitsInACircle == DocumentSpec => []WaitsEnd
<1>1. DocumentTypeOK /\ WaitInv => WaitsEnd
  <2> SUFFICES ASSUME DocumentTypeOK, WaitInv PROVE WaitsEnd
    OBVIOUS
  <2>t. /\ line \in [Requests -> Lineages] /\ NoDoc \notin Requests
    BY DocumentAssumption DEF DocumentTypeOK, DocumentAssumption
  <2>1. ASSUME NEW q \in Requests, NEW r \in WaitsFor(q)
        PROVE  r \in Active /\ Stage(r) > Stage(q)
    <3>1. CASE pc[q] = "lock" /\ lock[line[q]] = r
      <4>1. r \in Requests /\ line[q] \in Lineages /\ lock[line[q]] # NoDoc
        BY <2>t, <3>1 DEF WaitsFor, Rivals
      <4> QED BY <3>1, <4>1 DEF WaitInv, Active, Stage
    <3>2. CASE pc[q] = "insert" /\ r \in Rivals(q)
      BY <3>2 DEF Rivals, Active, Stage
    <3> QED BY <3>1, <3>2 DEF WaitsFor
  <2>2. ASSUME NEW q \in Active PROVE \E r \in Active : WaitsFor(r) = {}
    <3>1. ASSUME NEW r \in Active, Stage(r) = 2 PROVE WaitsFor(r) = {}
      BY <3>1 DEF Stage, WaitsFor
    <3>2. ASSUME NEW r \in Active, Stage(r) = 1 PROVE \E s \in Active : WaitsFor(s) = {}
      <4>1. CASE WaitsFor(r) = {}
        BY <4>1
      <4>2. CASE WaitsFor(r) # {}
        <5>1. PICK s \in WaitsFor(r) : TRUE
          BY <4>2
        <5>2. s \in Active /\ Stage(s) > 1
          BY <2>1, <3>2, <5>1 DEF Active
        <5>3. Stage(s) = 2
          BY <5>2 DEF Stage
        <5> QED BY <3>1, <5>2, <5>3
      <4> QED BY <4>1, <4>2
    <3>3. CASE WaitsFor(q) = {}
      BY <3>3
    <3>4. CASE WaitsFor(q) # {}
      <4>1. PICK s \in WaitsFor(q) : TRUE
        BY <3>4
      <4>2. s \in Active /\ Stage(s) > Stage(q)
        BY <2>1, <4>1 DEF Active
      <4>3. Stage(s) \in {1, 2}
        BY <4>2 DEF Stage
      <4> QED BY <3>1, <3>2, <4>2, <4>3
    <3> QED BY <3>3, <3>4
  <2> QED BY <2>1, <2>2 DEF WaitsEnd
<1> QED BY <1>1, DocumentTypeCorrect, WaitInvariant, PTL

\* The work left of an approval is counted by the artifacts it has to look at.
LEMMA StepsType ==
    ASSUME DocumentTypeOK
    PROVE  /\ Cardinality(Lineages) = 2
           /\ \A q \in Requests : Cardinality(todo[q]) \in 0..2
           /\ \A q \in Requests : \A l \in todo[q] :
                Cardinality(todo[q]) > 0 /\ Cardinality(todo[q] \ {l}) = Cardinality(todo[q]) - 1
           /\ \A l \in Lineages : Cardinality({l}) = 1
           /\ Cardinality({}) = 0
<1>1. IsFiniteSet(Lineages) /\ Cardinality(Lineages) = 2
  <2>1. IsFiniteSet({"source"}) /\ Cardinality({"source"}) = 1
    BY FS_Singleton
  <2>2. {"source"} \cup {"derived"} = Lineages /\ "derived" \notin {"source"}
    BY DEF Lineages
  <2> QED BY <2>1, <2>2, FS_AddElement
<1>2. ASSUME NEW q \in Requests
      PROVE  IsFiniteSet(todo[q]) /\ Cardinality(todo[q]) \in 0..2
  <2>1. todo[q] \subseteq Lineages
    BY DEF DocumentTypeOK
  <2>2. IsFiniteSet(todo[q]) /\ Cardinality(todo[q]) <= Cardinality(Lineages)
    BY <1>1, <2>1, FS_Subset
  <2> QED BY <1>1, <2>2, FS_CardinalityType
<1>3. ASSUME NEW q \in Requests, NEW l \in todo[q]
      PROVE  Cardinality(todo[q]) > 0 /\ Cardinality(todo[q] \ {l}) = Cardinality(todo[q]) - 1
  <2>1. Cardinality(todo[q] \ {l}) = Cardinality(todo[q]) - 1 /\ IsFiniteSet(todo[q] \ {l})
    BY <1>2, FS_RemoveElement
  <2>2. Cardinality(todo[q] \ {l}) \in Nat /\ Cardinality(todo[q]) \in Nat
    BY <1>2, <2>1, FS_CardinalityType
  <2> QED BY <2>1, <2>2
<1> QED BY <1>1, <1>2, <1>3, FS_Singleton, FS_EmptySet

LEMMA StepsStep ==
    ASSUME DocumentTypeOK, WaitInv, DocumentNext, NEW q \in Requests
    PROVE  /\ StepsLeft(q)' <= StepsLeft(q)
           /\ Handle(q) => StepsLeft(q)' < StepsLeft(q)
<1> USE DEF docVars, noteVars, editVars, okVars
<1>t. /\ pc \in [Requests -> Steps] /\ todo \in [Requests -> SUBSET Lineages]
      /\ line \in [Requests -> Lineages]
  BY DEF DocumentTypeOK
<1>c. /\ Cardinality(Lineages) = 2
      /\ \A r \in Requests : Cardinality(todo[r]) \in 0..2
      /\ \A r \in Requests : \A l \in todo[r] :
           Cardinality(todo[r]) > 0 /\ Cardinality(todo[r] \ {l}) = Cardinality(todo[r]) - 1
      /\ \A l \in Lineages : Cardinality({l}) = 1
      /\ Cardinality({}) = 0
  BY StepsType
<1>i. pc[q] = "notes" => Cardinality(todo[q]) > 0
  BY <1>c DEF WaitInv
\* What is left at each step.
<1>s. /\ StepsLeft(q) \in 0..6
      /\ pc[q] \notin {"idle", "done"} => StepsLeft(q) \in 1..5
      /\ pc[q] = "idle" => StepsLeft(q) = 6
  BY <1>t, <1>c, <1>i DEF StepsLeft, Steps
<1> DEFINE Same(r) == pc'[r] = pc[r] /\ todo'[r] = todo[r]
           Lower == StepsLeft(q)' \in Nat /\ StepsLeft(q)' < StepsLeft(q)
<1>0. ASSUME Same(q) PROVE StepsLeft(q)' = StepsLeft(q)
  BY <1>0 DEF StepsLeft
<1>1. ASSUME NEW r \in Requests, EndRequest(r), pc[r] \notin {"idle", "done"}
      PROVE  IF r = q THEN Lower ELSE Same(q)
  <2>1. CASE r = q
    <3>1. pc'[q] = "done"
      BY <1>t, <1>1, <2>1 DEF EndRequest
    <3>2. StepsLeft(q)' = 0
      BY <3>1 DEF StepsLeft
    <3> QED BY <1>1, <1>s, <2>1, <3>2
  <2>2. CASE r # q
    BY <1>t, <1>1, <2>2 DEF EndRequest
  <2> QED BY <2>1, <2>2
<1>2. ASSUME NEW r \in Requests, NEW l \in Lineages, NEW v \in Versions,
             Edit(r, l, v) \/ Restore(r, l, v) \/ Approve(r, l, v)
      PROVE  IF r = q THEN Lower ELSE Same(q)
  <2>1. CASE r = q
    <3>1. CASE Edit(r, l, v) \/ Restore(r, l, v)
      <4>1. pc[q] = "idle" /\ pc'[q] = "latest"
        BY <1>t, <2>1, <3>1 DEF Edit, Restore
      <4>2. StepsLeft(q)' = 4
        BY <4>1 DEF StepsLeft
      <4> QED BY <1>s, <2>1, <4>1, <4>2
    <3>2. CASE Approve(r, l, v)
      <4>1. /\ pc[q] = "idle"
            /\ pc'[q] = "done" \/ (pc'[q] = "notes" /\ todo'[q] = {l})
        BY <1>t, <2>1, <3>2 DEF Approve
      <4>2. StepsLeft(q)' \in {0, 2}
        BY <1>c, <4>1 DEF StepsLeft
      <4> QED BY <1>s, <2>1, <4>1, <4>2
    <3> QED BY <1>2, <3>1, <3>2
  <2>2. CASE r # q
    BY <1>t, <1>2, <2>2 DEF Edit, Restore, Approve
  <2> QED BY <2>1, <2>2
<1>3. ASSUME NEW r \in Requests, Derive(r) \/ ApproveAll(r)
      PROVE  IF r = q THEN Lower ELSE Same(q)
  <2>1. CASE r = q
    <3>1. /\ pc[q] = "idle"
          /\ pc'[q] = "source" \/ (pc'[q] = "head" /\ todo'[q] = Lineages)
      BY <1>t, <1>3, <2>1 DEF Derive, ApproveAll
    <3>2. StepsLeft(q)' \in {4, 5}
      BY <1>c, <3>1 DEF StepsLeft
    <3> QED BY <1>s, <2>1, <3>1, <3>2
  <2>2. CASE r # q
    BY <1>t, <1>3, <2>2 DEF Derive, ApproveAll
  <2> QED BY <2>1, <2>2
<1>4. ASSUME NEW r \in Requests, ReadLatest(r) \/ ReadDerived(r) \/ Insert(r) \/ LockAndCheck(r)
      PROVE  IF r = q THEN Lower ELSE Same(q)
  <2>1. CASE EndRequest(r)
    <3>1. pc[r] \in {"insert", "lock", "latest", "source"}
      BY <1>4 DEF ReadLatest, ReadDerived, Insert, LockAndCheck
    <3> QED BY <1>1, <2>1, <3>1
  <2>2. CASE ~EndRequest(r)
    <3>1. /\ <<pc[r], pc'[r]>> \in {<<"latest", "lock">>, <<"source", "insert">>,
                                    <<"source", "lock">>, <<"lock", "insert">>,
                                    <<"insert", "commit">>}
          /\ r # q => Same(q)
      BY <1>t, <1>4, <2>2 DEF ReadLatest, ReadDerived, Insert, LockAndCheck
    <3>2. r = q => Lower
      BY <3>1 DEF StepsLeft
    <3> QED BY <3>1, <3>2
  <2> QED BY <2>1, <2>2
<1>5. ASSUME NEW r \in Requests, NEW l \in Lineages, ReadHead(r, l)
      PROVE  IF r = q THEN Lower ELSE Same(q)
  <2>1. /\ pc[r] = "head" /\ l \in todo[r]
        /\ r # q => Same(q)
        /\ \/ pc'[r] = "head" /\ todo'[r] = todo[r] \ {l}
           \/ pc'[r] = "notes" /\ todo'[r] = todo[r]
    BY <1>t, <1>5 DEF ReadHead
  <2>2. CASE r = q
    <3> DEFINE n == Cardinality(todo[q])
               m == Cardinality(todo[q] \ {l})
    <3>0. l \in todo[q] /\ todo'[q] \in {todo[q], todo[q] \ {l}}
      BY <2>1, <2>2
    <3>1. n \in 0..2 /\ n > 0 /\ m = n - 1
      BY <1>c, <3>0
    <3>2. StepsLeft(q) = 2 * n + 1
      BY <2>1, <2>2 DEF StepsLeft
    <3>3. \/ StepsLeft(q)' = 2 * m + 1
          \/ StepsLeft(q)' = 2 * n
      BY <2>1, <2>2 DEF StepsLeft
    <3> HIDE DEF n, m
    <3>4. Lower
      BY <3>1, <3>2, <3>3
    <3> QED BY <2>2, <3>4
  <2> QED BY <2>1, <2>2
<1>6. ASSUME NEW r \in Requests, CheckNotes(r)
      PROVE  IF r = q THEN Lower ELSE Same(q)
  <2>1. /\ pc[r] = "notes" /\ pc'[r] = "head" /\ todo'[r] = todo[r] \ {line[r]}
        /\ line[r] \in todo[r]
        /\ r # q => Same(q)
    BY <1>t, <1>6 DEF CheckNotes, WaitInv
  <2>2. CASE r = q
    <3> DEFINE n == Cardinality(todo[q])
               m == Cardinality(todo[q] \ {line[q]})
    <3>0. line[q] \in todo[q] /\ todo'[q] \in {todo[q], todo[q] \ {line[q]}}
      BY <2>1, <2>2
    <3>1. n \in 0..2 /\ n > 0 /\ m = n - 1
      BY <1>c, <3>0
    <3>2. StepsLeft(q) = 2 * n
      BY <2>1, <2>2 DEF StepsLeft
    <3>3. StepsLeft(q)' = 2 * m + 1
      BY <2>1, <2>2 DEF StepsLeft
    <3> HIDE DEF n, m
    <3>4. Lower
      BY <3>1, <3>2, <3>3
    <3> QED BY <2>2, <3>4
  <2> QED BY <2>1, <2>2
<1>7. ASSUME NEW r \in Requests, CommitVersion(r) \/ CommitApproval(r) \/ RequestLost(r)
      PROVE  IF r = q THEN Lower ELSE Same(q)
  BY <1>1, <1>7 DEF CommitVersion, CommitApproval, RequestLost
<1>8. ASSUME UNCHANGED <<pc, todo>> PROVE Same(q)
  BY <1>8
<1> HIDE DEF Same, Lower
<1>9. ASSUME NEW r \in Requests, Handle(r)
      PROVE  IF r = q THEN Lower ELSE Same(q)
  BY <1>4, <1>5, <1>6, <1>7, <1>9 DEF Handle
<1>10. Lower \/ Same(q)
  BY <1>2, <1>3, <1>7, <1>8, <1>9
  DEF DocumentNext, Generate, GenerateAgain, ResolveNote, OpenNote
<1> QED BY <1>0, <1>9, <1>10, <1>s DEF Lower

\* A handler has no loop: each of its statements leaves fewer to execute, four
\* for a version and two for each artifact of an approval, and no other request
\* makes it start over (edit_artifact_document, create_edit, approve_all_current).
THEOREM RequestsRunOutOfSteps == DocumentSpec => StepsRunOut
<1>1. DocumentTypeOK /\ WaitInv /\ [DocumentNext]_vars =>
        [\A q \in Requests : /\ StepsLeft(q)' <= StepsLeft(q)
                             /\ Handle(q) => StepsLeft(q)' < StepsLeft(q)]_vars
  BY StepsStep DEF vars
<1> QED BY <1>1, DocumentTypeCorrect, WaitInvariant, PTL DEF DocumentSpec, StepsRunOut

=============================================================================
