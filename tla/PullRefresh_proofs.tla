------------------------- MODULE PullRefresh_proofs -------------------------
(***************************************************************************)
(* Proofs about PullRefresh, for any documents and any clock, whatever may *)
(* fail, die or be restarted.                                              *)
(***************************************************************************)
EXTENDS PullRefresh, TLAPS

-----------------------------------------------------------------------------
(* Types.                                                                  *)
LEMMA TypeInit == Init => TypeOK
<1> SUFFICES ASSUME Init PROVE TypeOK
  OBVIOUS
<1>1. Shipped \in Document
  BY DEF Shipped, Document
<1>2. part \in FileType /\ local \in FileType
  BY <1>1 DEF Init, NoPart, FileType
<1>3. QED
  BY <1>1, <1>2 DEF Init, TypeOK, Labels

LEMMA TypeDie == ASSUME TypeOK, Die PROVE TypeOK'
<1>1. NoPart \in FileType
  BY DEF NoPart, FileType, Shipped, Document
<1>2. QED
  BY <1>1 DEF TypeOK, Die, Goto, world, Labels

LEMMA TypeStep == ASSUME TypeOK, [Next]_vars PROVE TypeOK'
<1> USE DEF TypeOK, Goto, world, files, history, Labels
<1>0. NoPart \in FileType
  BY DEF NoPart, FileType, Shipped, Document
<1>1. CASE CheckIn
  <2>1. remote' \in Document
    BY <1>1, BoundAssumption DEF CheckIn, Document
  <2>2. QED
    BY <1>1, <2>1 DEF CheckIn
<1>2. CASE Tick
  BY <1>2 DEF Tick
<1>3. CASE StartLoop
  BY <1>3 DEF StartLoop
<1>4. CASE Check
  <2>1. CASE ReadClock
    BY <2>1 DEF ReadClock
  <2>2. CASE CheckFails \/ NotDue
    BY <2>2 DEF CheckFails, NotDue
  <2>3. CASE BeginRefresh
    BY <2>3 DEF BeginRefresh
  <2>4. QED
    BY <1>4, <2>1, <2>2, <2>3 DEF Check
<1>5. CASE Load
  <2>1. CASE OpenPart
    <3>1. part' \in FileType
      BY <2>1 DEF OpenPart, FileType
    <3>2. QED
      BY <2>1, <3>1 DEF OpenPart
  <2>2. CASE OpenFails
    BY <2>2, TypeDie DEF OpenFails
  <2>3. CASE WritePart
    <3>1. part' \in FileType
      BY <2>3 DEF WritePart, FileType
    <3>2. QED
      BY <2>3, <3>1 DEF WritePart
  <2>4. CASE RenamePart
    <3>1. failed' \in BOOLEAN
      BY <2>4 DEF RenamePart, FileType
    <3>2. QED
      BY <1>0, <2>4, <3>1 DEF RenamePart
  <2>5. CASE FallBack
    BY <1>0, <2>5 DEF FallBack
  <2>6. CASE ParseFails
    BY <2>6 DEF ParseFails
  <2>7. CASE ParseText
    BY <2>7 DEF ParseText
  <2>8. CASE PublishText
    <3>1. front' \in Nat
      BY <2>8 DEF PublishText, FileType, Document
    <3>2. QED
      BY <2>8, <3>1 DEF PublishText
  <2>9. QED
    BY <1>5, <2>1, <2>2, <2>3, <2>4, <2>5, <2>6, <2>7, <2>8 DEF Load
<1>6. CASE MarkDone \/ WakeUp
  BY <1>6 DEF MarkDone, WakeUp
<1>7. CASE WorkerDies
  BY <1>7, TypeDie DEF WorkerDies
<1>8. CASE RestartWorker
  BY <1>8 DEF RestartWorker
<1>9. CASE RestartApplication
  BY <1>0, <1>9 DEF RestartApplication
<1>10. CASE UNCHANGED vars
  BY <1>10 DEF vars
<1>11. QED
  BY <1>1, <1>2, <1>3, <1>4, <1>5, <1>6, <1>7, <1>8, <1>9, <1>10 DEF Next

(* Every variable of the pull loop holds a value of its type.              *)
THEOREM TypeCorrect == Spec => []TypeOK
<1>1. Init => TypeOK
  BY TypeInit
<1>2. TypeOK /\ [Next]_vars => TypeOK'
  BY TypeStep
<1>3. QED
  BY <1>1, <1>2, PTL DEF Spec

-----------------------------------------------------------------------------
(* Documents are numbered in the order they are checked in, and what is on *)
(* disk or was acted upon is a document that was in the repository.        *)
Precedes(d, e) == d.id <= e.id /\ (d.id = e.id => d = e)

Downloading == pc \in {"write", "rename"}

Numbered ==
    /\ Precedes(local.doc, remote)
    /\ \A d \in begun : Precedes(d, remote)
    /\ Downloading => Precedes(local.doc, part.doc) /\ Precedes(part.doc, remote)

\* A file is parsed only when it is whole, and published only if it parses.
Checked ==
    /\ pc = "rename" => part.whole
    /\ pc = "publish" => Parses(local)

\* The document that a round downloads is none older than the one whose date
\* began it.
Fresh ==
    /\ Downloading => \A d \in begun : d.id <= part.doc.id
    /\ pc \in {"parse", "publish", "mark"} =>
          failed \/ \A d \in begun : d.id <= local.doc.id

\* The loop's timestamp lies at or after every date it acted upon, except
\* while it acts.
Dated ==
    /\ now <= clock
    /\ \A d \in begun : d.at <= clock
    /\ pc \in {"check", "fetch", "sleep"} => \A d \in begun : d.at <= last

PullParts == Numbered /\ Checked /\ Fresh /\ Dated /\ LocalCopyWhole
PullInv == TypeOK /\ PullParts

LEMMA PullInit == Init => PullInv
<1>1. Init => TypeOK
  BY TypeInit
<1>2. Init => PullParts
  BY DEF Init, PullParts, Numbered, Precedes, Downloading, Checked, Fresh, Dated,
     LocalCopyWhole, Shipped
<1>3. QED
  BY <1>1, <1>2 DEF PullInv

(* The end of a worker leaves the documents and the local copy.            *)
LEMMA PullDie == ASSUME PullInv, Die PROVE PullParts'
BY DEF PullInv, TypeOK, PullParts, Die, Goto, world, Numbered, Precedes, Downloading,
   Checked, Fresh, Dated, LocalCopyWhole

LEMMA PullLoad == ASSUME PullInv, Load PROVE PullParts'
<1> USE DEF PullInv, PullParts, Goto, world, files, history, Downloading
<1>0. /\ TypeOK /\ Numbered /\ Checked /\ Fresh /\ Dated /\ LocalCopyWhole
      /\ remote \in Document /\ local.doc \in Document /\ part.doc \in Document
      /\ begun \subseteq Document
  BY DEF TypeOK, FileType
<1>1. CASE OpenPart
  <2>1. /\ pc = "download" /\ pc' = "write" /\ part'.doc = remote
        /\ UNCHANGED <<remote, clock, last, now, local, front, begun, failed>>
    BY <1>1 DEF OpenPart
  <2>2. Numbered'
    BY <1>0, <2>1 DEF Numbered, Precedes, Document
  <2>3. Fresh'
    BY <1>0, <2>1 DEF Fresh, Numbered, Precedes
  <2>4. Checked' /\ Dated' /\ LocalCopyWhole'
    BY <1>0, <2>1 DEF Checked, Dated, LocalCopyWhole
  <2>5. QED
    BY <2>2, <2>3, <2>4
<1>2. CASE OpenFails
  BY <1>2, PullDie DEF OpenFails
<1>3. CASE WritePart
  <2>1. /\ pc = "write" /\ pc' = "rename" /\ part'.doc = part.doc /\ part'.whole
        /\ UNCHANGED <<remote, clock, last, now, local, front, begun, failed>>
    BY <1>0, <1>3 DEF WritePart, TypeOK, FileType
  <2>2. QED
    BY <1>0, <2>1 DEF Numbered, Checked, Fresh, Dated, LocalCopyWhole
<1>4. CASE RenamePart
  <2>1. /\ pc = "rename" /\ pc' = "parse" /\ local' = part
        /\ UNCHANGED <<remote, clock, last, now, front, begun>>
    BY <1>4 DEF RenamePart
  <2>2. Numbered' /\ Checked' /\ Fresh' /\ Dated'
    BY <1>0, <2>1 DEF Numbered, Checked, Fresh, Dated
  <2>3. LocalCopyWhole'
    BY <1>0, <2>1 DEF LocalCopyWhole, Checked, Numbered, Precedes, TypeOK, Document
  <2>4. QED
    BY <2>2, <2>3
<1>5. CASE FallBack
  <2>1. /\ pc' = "parse" /\ failed' = TRUE
        /\ UNCHANGED <<remote, clock, last, now, local, front, begun>>
    BY <1>5 DEF FallBack
  <2>2. QED
    BY <1>0, <2>1 DEF Numbered, Checked, Fresh, Dated, LocalCopyWhole
<1>6. CASE ParseFails
  BY <1>0, <1>6 DEF ParseFails, Numbered, Checked, Fresh, Dated, LocalCopyWhole
<1>7. CASE ParseText
  BY <1>0, <1>7 DEF ParseText, Numbered, Checked, Fresh, Dated, LocalCopyWhole
<1>8. CASE PublishText
  <2>1. /\ pc = "publish" /\ pc' \in {"start", "mark"} /\ front' = local.doc.id
        /\ UNCHANGED <<remote, clock, last, now, part, local, begun, failed>>
    BY <1>8 DEF PublishText
  <2>2. Numbered' /\ Checked' /\ Fresh' /\ Dated'
    BY <1>0, <2>1 DEF Numbered, Checked, Fresh, Dated
  <2>3. LocalCopyWhole'
    BY <1>0, <2>1 DEF LocalCopyWhole, Checked, Parses, Document
  <2>4. QED
    BY <2>2, <2>3
<1>9. QED
  BY <1>1, <1>2, <1>3, <1>4, <1>5, <1>6, <1>7, <1>8 DEF Load

LEMMA PullStep == ASSUME PullInv, [Next]_vars PROVE PullInv'
<1>0. /\ TypeOK /\ PullParts /\ TypeOK'
      /\ remote \in Document /\ begun \subseteq Document
      /\ local.doc \in Document /\ part.doc \in Document
  BY TypeStep DEF PullInv, TypeOK, FileType
<1> SUFFICES PullParts'
  BY <1>0 DEF PullInv
<1> USE DEF PullParts, Goto, world, files, history, Downloading
<1>1. CASE CheckIn
  <2>1. /\ remote'.id = remote.id + 1
        /\ UNCHANGED <<clock, pc, last, now, part, local, front, begun, failed>>
    BY <1>1 DEF CheckIn
  <2>2. Numbered'
    BY <1>0, <2>1 DEF Numbered, Precedes, Document
  <2>3. QED
    BY <1>0, <2>1, <2>2 DEF Checked, Fresh, Dated, LocalCopyWhole
<1>2. CASE Tick
  BY <1>0, <1>2 DEF Tick, TypeOK, Document, Numbered, Checked, Fresh, Dated, LocalCopyWhole
<1>3. CASE StartLoop
  BY <1>0, <1>3 DEF StartLoop, Numbered, Checked, Fresh, Dated, LocalCopyWhole
<1>4. CASE ReadClock
  BY <1>0, <1>4 DEF ReadClock, TypeOK, Numbered, Checked, Fresh, Dated, LocalCopyWhole
<1>5. CASE CheckFails \/ NotDue
  BY <1>0, <1>5 DEF CheckFails, NotDue, TypeOK, Numbered, Checked, Fresh, Dated,
     LocalCopyWhole
<1>6. CASE BeginRefresh
  <2>1. /\ pc' = "download" /\ begun' = begun \cup {remote} /\ now' = 0
        /\ remote.at <= now /\ UNCHANGED <<remote, clock, last, part, local, front>>
    BY <1>6 DEF BeginRefresh, Due
  <2>2. Numbered'
    BY <1>0, <2>1 DEF Numbered, Precedes, Document
  <2>3. Dated'
    BY <1>0, <2>1 DEF Dated, TypeOK, Document
  <2>4. QED
    BY <1>0, <2>1, <2>2, <2>3 DEF Checked, Fresh, LocalCopyWhole
<1>7. CASE Load
  BY <1>7, PullLoad
<1>8. CASE MarkDone \/ WakeUp
  BY <1>0, <1>8 DEF MarkDone, WakeUp, Numbered, Checked, Fresh, Dated, LocalCopyWhole
<1>9. CASE WorkerDies
  BY <1>9, PullDie DEF WorkerDies
<1>10. CASE RestartWorker
  BY <1>0, <1>10 DEF RestartWorker, Numbered, Checked, Fresh, Dated, LocalCopyWhole
<1>11. CASE RestartApplication
  BY <1>0, <1>11 DEF RestartApplication, TypeOK, Document, Numbered, Checked, Fresh,
     Dated, LocalCopyWhole
<1>12. CASE UNCHANGED vars
  BY <1>0, <1>12 DEF vars, Numbered, Checked, Fresh, Dated, LocalCopyWhole, Parses
<1>13. QED
  BY <1>1, <1>2, <1>3, <1>4, <1>5, <1>6, <1>7, <1>8, <1>9, <1>10, <1>11, <1>12
  DEF Next, Check

(* The local copy is all of an answer, and never older than what is served *)
(* (cc_getRemoteResourcePath).                                             *)
THEOREM CopyAlwaysWhole == Spec => []LocalCopyWhole
<1>1. Init => PullInv
  BY PullInit
<1>2. PullInv /\ [Next]_vars => PullInv'
  BY PullStep
<1>3. PullInv => LocalCopyWhole
  BY DEF PullInv, PullParts
<1>4. QED
  BY <1>1, <1>2, <1>3, PTL DEF Spec

(* A refresh that ran its course and whose download did not fail leaves    *)
(* the document it was begun for, or a later one (cc_refreshConfigCore).   *)
THEOREM RefreshAlwaysLoads == Spec => []RefreshLoadsIt
<1>1. Init => PullInv
  BY PullInit
<1>2. PullInv /\ [Next]_vars => PullInv'
  BY PullStep
<1>3. PullInv => RefreshLoadsIt
  BY DEF PullInv, PullParts, TypeOK, FileType, Document, Fresh, RefreshLoadsIt
<1>4. QED
  BY <1>1, <1>2, <1>3, PTL DEF Spec

(* No date is acted upon twice, however often worker and application are   *)
(* restarted (cm_canAutoRefreshNow).                                       *)
THEOREM DatesActOnce == Spec => OncePerDate
<1>1. Init => PullInv
  BY PullInit
<1>2. PullInv /\ [Next]_vars => PullInv'
  BY PullStep
<1>3. PullInv => [BeginRefresh => \A d \in begun : d.at # remote.at]_vars
  BY DEF PullInv, PullParts, TypeOK, Document, Dated, BeginRefresh, Due
<1>4. QED
  BY <1>1, <1>2, <1>3, PTL DEF Spec, OncePerDate
=============================================================================
