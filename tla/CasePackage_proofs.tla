------------------------- MODULE CasePackage_proofs -------------------------
(***************************************************************************)
(* What a case that was imported or restored is worth, for any number of   *)
(* writers and crashes: ImportIsSnapshot, WholeUnlessCut and, in the       *)
(* second part, RestoreIsSnapshot and RefusedForAReason.                   *)
(*                                                                         *)
(* The argument for ImportIsSnapshot is that of a double collect.  The     *)
(* versions of a file only grow.  Let d be the directory when the second   *)
(* listing is made: every digest is at most the version in d, and every    *)
(* member at least.  A package that verifies has both equal, so they equal *)
(* d.                                                                      *)
(***************************************************************************)
EXTENDS CasePackage, TLAPS

\* While the digests are taken none is ahead of the directory.
DigestsBehind ==
  archiver \in {"hash", "manifest"} =>
    dir \in seen /\ \A f \in Files : digests[f] <= dir[f]

\* d separates the digests from the members and from the present directory.
Between(d) ==
  \A f \in Files :
    /\ digests[f] <= d[f]
    /\ archiver = "archive" => d[f] <= dir[f]
    /\ digests[f] # Absent =>
         (archiver = "archive" /\ f \in listed) \/ members[f] = Damaged \/ d[f] <= members[f]

Separated ==
  archiver \in {"archive", "delivered"} /\ mode = "export" => \E d \in seen : Between(d)

\* What has not been begun is empty, and nothing is altered before delivery.
Fresh ==
  /\ archiver = "idle" => digests = Nothing
  /\ archiver # "delivered" => members \in [Files -> Nat]
  /\ archiver = "hash" => mode = "export"

\* An import places what it has verified, a restore what the backup holds, file
\* by file into an empty place.
Placing ==
  /\ task # "none" => archiver = "delivered"
  /\ task \in {"verify", "remove", "copy"} => mode = "export"
  /\ task \in {"remove", "copy"} => Verified
  /\ task \in {"copy", "unzip"} => \A f \in Files \ todo : dest[f] = members[f]
  /\ ~there => dest = Nothing

\* An import that succeeded put the whole package in place.
Imported ==
  verdict = "imported" =>
    /\ task = "none" /\ archiver = "delivered" /\ mode = "export" /\ Verified
    /\ dest = members

\* The other vault is untouched or holds the whole archive.
Whole ==
  task \in {"none", "verify"} /\ there /\ ~cut =>
    dest = OldCase \/ (archiver = "delivered" /\ dest = members)

\* The inductive invariant.
PackageInv ==
  TypeOK /\ DigestsBehind /\ Separated /\ Fresh /\ Placing /\ Imported /\ Whole

-----------------------------------------------------------------------------

LEMMA WritesFiles ==
  ASSUME NEW o \in DOMAIN Writes
  PROVE  Writes[o] \in Seq(Files)
<1>1. o \in {"STATUS", "CUSTODY", "BENCHMARK", "SCAN", "SANITIZE"}
  BY DEF Writes
<1>2. CASE o = "STATUS"
  BY <1>2 DEF Writes, Files
<1>3. CASE o = "CUSTODY"
  BY <1>3 DEF Writes, Files
<1>4. CASE o = "SCAN"
  BY <1>4 DEF Writes, Files
<1>5. CASE o = "SANITIZE"
  BY <1>5 DEF Writes, Files
<1>6. CASE o = "BENCHMARK"
  BY <1>6 DEF Writes, Files
<1> QED BY <1>1, <1>2, <1>3, <1>4, <1>5, <1>6

\* An operation's next file is a file of the case.
LEMMA NextFile ==
  ASSUME TypeOK, NEW w \in Writers, Writing(w)
  PROVE  Writes[op[w]][written[w] + 1] \in Files
<1>1. Writes[op[w]] \in Seq(Files)
  BY WritesFiles DEF Writing
<1>2. written[w] + 1 \in 1..Len(Writes[op[w]])
  BY <1>1 DEF Writing, TypeOK
<1> QED BY <1>1, <1>2

\* Replacing a file moves no version back.
LEMMA ReplaceGrows ==
  ASSUME TypeOK, NEW w \in Writers, Replace(w)
  PROVE  dir' \in [Files -> Nat] /\ \A f \in Files : dir[f] <= dir'[f]
<1> DEFINE g == Writes[op[w]][written[w] + 1]
<1>1. g \in Files
  BY NextFile DEF Replace
<1>2. dir' = [dir EXCEPT ![g] = @ + 1]
  BY DEF Replace
<1> HIDE DEF g
<1> QED BY <1>1, <1>2 DEF TypeOK

-----------------------------------------------------------------------------
(* The two sides of a step *)

\* Before the delivery the other vault has not been touched.
LEMMA SourceSide ==
  ASSUME PackageInv, archiver # "delivered", UNCHANGED destVars
  PROVE  Placing' /\ Imported' /\ Whole'
<1>1. task = "none" /\ verdict # "imported"
  BY DEF PackageInv, Placing, Imported
<1>2. Placing'
  BY <1>1 DEF PackageInv, Placing, destVars
<1>3. Imported'
  BY <1>1 DEF Imported, destVars
<1>4. Whole'
  BY DEF PackageInv, Whole, destVars, OldCase, Files
<1> QED BY <1>2, <1>3, <1>4

\* The other vault changes nothing of the archive and its case.
LEMMA DestSide ==
  ASSUME PackageInv, UNCHANGED <<dirVars, archiveVars, seen>>
  PROVE  DigestsBehind' /\ Separated' /\ Fresh'
<1>1. DigestsBehind'
  BY DEF PackageInv, DigestsBehind, dirVars, archiveVars, Files
<1>2. Separated'
  BY DEF PackageInv, Separated, Between, dirVars, archiveVars, Files, Absent
<1>3. Fresh'
  BY DEF PackageInv, Fresh, archiveVars, Nothing, Files, Absent
<1> QED BY <1>1, <1>2, <1>3

\* A step that only changes writers' own state.
LEMMA DirStays ==
  ASSUME PackageInv, UNCHANGED <<dir, archiveVars, seen>>
  PROVE  DigestsBehind' /\ Separated' /\ Fresh'
<1>1. DigestsBehind'
  BY DEF PackageInv, DigestsBehind, archiveVars, Files
<1>2. Separated'
  BY DEF PackageInv, Separated, Between, archiveVars, Files, Absent
<1>3. Fresh'
  BY DEF PackageInv, Fresh, archiveVars, Nothing, Files, Absent
<1> QED BY <1>1, <1>2, <1>3

-----------------------------------------------------------------------------
(* Writers *)

LEMMA WriteTypes ==
  ASSUME TypeOK, NEW w \in Writers, Write(w)
  PROVE  TypeOK'
<1> USE DEF UnchangedButDir, archiveVars, destVars
<1>1. ASSUME NEW o \in Operations, Begin(w, o)
      PROVE  TypeOK'
  BY <1>1, PackageAssumption DEF TypeOK, Begin
<1>2. CASE WriteTemp(w)
  BY <1>2 DEF TypeOK, WriteTemp
<1>3. CASE Replace(w)
  <2>1. dir' \in [Files -> Nat]
    BY <1>3, ReplaceGrows
  <2>2. seen' \subseteq [Files -> Nat]
    BY <1>3, <2>1 DEF TypeOK, Replace
  <2>3. written' \in [Writers -> Nat] /\ temp' \subseteq Writers
    BY <1>3 DEF TypeOK, Replace
  <2> QED BY <1>3, <2>1, <2>2, <2>3 DEF TypeOK, Replace
<1>4. CASE WriteFails(w)
  BY <1>4 DEF TypeOK, WriteFails, Over
<1>5. CASE End(w)
  BY <1>5 DEF TypeOK, End, Over
<1> QED BY <1>1, <1>2, <1>3, <1>4, <1>5 DEF Write

LEMMA WriteStep ==
  ASSUME PackageInv, NEW w \in Writers, archiver # "delivered", Write(w)
  PROVE  PackageInv'
<1>1. TypeOK'
  BY WriteTypes DEF PackageInv
<1>2. UNCHANGED <<archiveVars, destVars>>
  BY DEF Write, Begin, WriteTemp, Replace, WriteFails, End, UnchangedButDir
<1>3. Placing' /\ Imported' /\ Whole'
  BY <1>2, SourceSide
<1>4. CASE ~Replace(w)
  <2>1. UNCHANGED <<dir, archiveVars, seen>>
    BY <1>2, <1>4 DEF Write, Begin, WriteTemp, WriteFails, End, UnchangedButDir
  <2> QED BY <1>1, <1>3, <2>1, DirStays DEF PackageInv
<1>5. CASE Replace(w)
  <2>1. /\ dir' \in [Files -> Nat] /\ dir \in [Files -> Nat]
        /\ digests \in [Files -> Nat] /\ seen \subseteq [Files -> Nat]
        /\ \A f \in Files : dir[f] <= dir'[f]
    BY <1>5, ReplaceGrows DEF PackageInv, TypeOK
  <2>2. seen' = IF Archiving THEN seen \cup {dir'} ELSE seen
    BY <1>5 DEF Replace
  <2>3. DigestsBehind'
    <3> SUFFICES ASSUME archiver \in {"hash", "manifest"}
                 PROVE  dir' \in seen' /\ \A f \in Files : digests[f] <= dir'[f]
      BY <1>2 DEF DigestsBehind, archiveVars
    <3>1. \A f \in Files : digests[f] <= dir[f]
      BY DEF PackageInv, DigestsBehind
    <3> QED BY <2>1, <2>2, <3>1 DEF Archiving
  <2>4. Separated'
    <3> SUFFICES ASSUME archiver = "archive", mode = "export"
                 PROVE  \E d \in seen' : Between(d)'
      BY <1>2 DEF Separated, archiveVars
    <3>1. PICK d \in seen : Between(d)
      BY DEF PackageInv, Separated
    <3>2. d \in seen' /\ d \in [Files -> Nat]
      BY <2>1, <2>2
    <3>3. Between(d)'
      BY <1>2, <2>1, <3>1, <3>2 DEF Between, archiveVars
    <3> QED BY <3>2, <3>3
  <2>5. Fresh'
    BY <1>2 DEF PackageInv, Fresh, archiveVars
  <2> QED BY <1>1, <1>3, <2>3, <2>4, <2>5 DEF PackageInv
<1> QED BY <1>4, <1>5

-----------------------------------------------------------------------------
(* Export and backup *)

LEMMA ArchiveTypes ==
  ASSUME TypeOK, Export \/ Archive
  PROVE  TypeOK'
<1> USE DEF UnchangedButArchive, destVars
<1>1. Present(dir) \subseteq Files /\ TempFiles \subseteq {"writer", "leftover"}
  BY DEF Present, TempFiles
<1>2. CASE ExportBegin
  BY <1>1, <1>2 DEF TypeOK, ExportBegin, List
<1>3. CASE HashTemp
  BY <1>3 DEF TypeOK, HashTemp
<1>4. CASE WriteManifest
  BY <1>4 DEF TypeOK, WriteManifest
<1>5. CASE ListForArchive
  BY <1>1, <1>5 DEF TypeOK, ListForArchive
<1>6. ASSUME NEW f \in Files, HashFile(f)
      PROVE  TypeOK'
  BY <1>6 DEF TypeOK, HashFile
<1>7. CASE BackupBegin
  BY <1>1, <1>7 DEF TypeOK, BackupBegin, List
<1>8. CASE AddTemp
  BY <1>8 DEF TypeOK, AddTemp
<1>9. CASE ArchiveFails
  BY <1>9 DEF TypeOK, ArchiveFails, Forget, Nothing, Absent
<1>10. CASE Deliver
  <2>1. members' \in [Files -> Nat \cup {Damaged}]
    BY <1>10 DEF TypeOK, Deliver, Present
  <2> QED BY <1>10, <2>1 DEF TypeOK, Deliver
<1>11. ASSUME NEW f \in Files, AddFile(f)
       PROVE  TypeOK'
  BY <1>11 DEF TypeOK, AddFile
<1> QED BY <1>2, <1>3, <1>4, <1>5, <1>6, <1>7, <1>8, <1>9, <1>10, <1>11 DEF Export, Archive

\* The facts about the archive that a step of the archiver has to keep.
ArchiveInv == DigestsBehind /\ Separated /\ Fresh

LEMMA ExportStep ==
  ASSUME PackageInv, Export
  PROVE  ArchiveInv'
<1> USE DEF UnchangedButArchive
<1>1. TypeOK /\ DigestsBehind /\ Separated /\ Fresh
  BY DEF PackageInv
<1>2. CASE ExportBegin
  <2>1. \A f \in Files : digests'[f] <= dir'[f]
    BY <1>1, <1>2 DEF ExportBegin, Fresh, TypeOK, Nothing, Absent
  <2> QED BY <1>1, <1>2, <2>1 DEF ExportBegin, ArchiveInv, DigestsBehind, Separated, Fresh
<1>3. CASE HashTemp
  BY <1>1, <1>3 DEF HashTemp, ArchiveInv, DigestsBehind, Separated, Fresh
<1>4. CASE WriteManifest
  BY <1>1, <1>4 DEF WriteManifest, ArchiveInv, DigestsBehind, Separated, Fresh
<1>5. CASE ListForArchive
  <2>1. dir \in seen /\ \A f \in Files : digests[f] <= dir[f]
    BY <1>1, <1>5 DEF ListForArchive, DigestsBehind
  <2>2. /\ dir' = dir /\ digests' = digests /\ seen' = seen
        /\ listed' = Present(dir) /\ archiver' = "archive"
    BY <1>5 DEF ListForArchive
  <2>3. \A f \in Files : digests[f] # Absent => f \in Present(dir)
    BY <1>1, <2>1 DEF TypeOK, Present, Absent
  <2>4. \A f \in Files : dir[f] <= dir[f]
    BY <1>1 DEF TypeOK
  <2>5. Between(dir)'
    BY <2>1, <2>2, <2>3, <2>4 DEF Between
  <2>6. Separated'
    BY <2>1, <2>2, <2>5 DEF Separated
  <2> QED BY <1>1, <1>5, <2>6 DEF ListForArchive, ArchiveInv, DigestsBehind, Fresh
<1>6. ASSUME NEW f \in Files, HashFile(f)
      PROVE  ArchiveInv'
  <2>1. \A g \in Files : digests'[g] <= dir'[g]
    BY <1>1, <1>6 DEF HashFile, DigestsBehind, TypeOK
  <2> QED BY <1>1, <1>6, <2>1 DEF HashFile, ArchiveInv, DigestsBehind, Separated, Fresh
<1> QED BY <1>2, <1>3, <1>4, <1>5, <1>6 DEF Export

LEMMA ArchiveStep ==
  ASSUME PackageInv, Archive
  PROVE  ArchiveInv'
<1> USE DEF UnchangedButArchive
<1>1. TypeOK /\ DigestsBehind /\ Separated /\ Fresh
  BY DEF PackageInv
<1>2. CASE BackupBegin
  BY <1>1, <1>2 DEF BackupBegin, ArchiveInv, DigestsBehind, Separated, Fresh
<1>3. CASE AddTemp
  <2>1. Separated'
    BY <1>1, <1>3 DEF AddTemp, Separated, Between
  <2> QED BY <1>1, <1>3, <2>1 DEF AddTemp, ArchiveInv, DigestsBehind, Fresh
<1>4. CASE ArchiveFails
  BY <1>1, <1>4 DEF ArchiveFails, Forget, Nothing, Absent, ArchiveInv, DigestsBehind, Separated, Fresh
<1>5. CASE Deliver
  <2>1. ASSUME mode = "export"
        PROVE  \E d \in seen' : Between(d)'
    <3>1. PICK d \in seen : Between(d)
      BY <1>1, <1>5, <2>1 DEF Deliver, Separated
    <3>2. \A f \in Files : members'[f] = members[f] \/ members'[f] = Damaged
      BY <1>1, <1>5 DEF Deliver, TypeOK, Present
    <3>3. Between(d)'
      BY <1>5, <3>1, <3>2 DEF Deliver, Between
    <3> QED BY <1>5, <3>3 DEF Deliver
  <2> QED BY <1>1, <1>5, <2>1 DEF Deliver, ArchiveInv, DigestsBehind, Separated, Fresh
<1>6. ASSUME NEW f \in Files, AddFile(f)
      PROVE  ArchiveInv'
  <2>1. members' \in [Files -> Nat]
    BY <1>1, <1>6 DEF AddFile, Fresh, TypeOK
  <2>2. ASSUME mode = "export"
        PROVE  \E d \in seen' : Between(d)'
    <3>1. PICK d \in seen : Between(d)
      BY <1>1, <1>6, <2>2 DEF AddFile, Separated
    <3>2. members \in [Files -> Nat] /\ members' = [members EXCEPT ![f] = dir[f]]
      BY <1>1, <1>6 DEF AddFile, Fresh
    <3>3. \A g \in Files : members'[g] = IF g = f THEN dir[f] ELSE members[g]
      BY <3>2
    <3>4. Between(d)'
      BY <1>6, <3>1, <3>3 DEF AddFile, Between
    <3> QED BY <1>6, <3>4 DEF AddFile
  <2> QED BY <1>1, <1>6, <2>1, <2>2 DEF AddFile, ArchiveInv, DigestsBehind, Separated, Fresh
<1> QED BY <1>2, <1>3, <1>4, <1>5, <1>6 DEF Archive

\* A whole step of the archiver.
LEMMA ArchiverStep ==
  ASSUME PackageInv, Export \/ Archive
  PROVE  PackageInv'
<1>1. archiver # "delivered" /\ UNCHANGED destVars
  BY DEF Export, Archive, ExportBegin, HashTemp, WriteManifest, ListForArchive, HashFile,
         BackupBegin, AddTemp, ArchiveFails, Deliver, AddFile, UnchangedButArchive
<1>2. TypeOK'
  BY ArchiveTypes DEF PackageInv
<1>3. Placing' /\ Imported' /\ Whole'
  BY <1>1, SourceSide
<1>4. ArchiveInv'
  BY ExportStep, ArchiveStep
<1> QED BY <1>2, <1>3, <1>4 DEF PackageInv, ArchiveInv

-----------------------------------------------------------------------------
(* Import and restore *)

\* What a step in the other vault has to keep.
DestInv == TypeOK /\ Placing /\ Imported /\ Whole

LEMMA ImportStep ==
  ASSUME PackageInv, Import
  PROVE  DestInv'
<1> USE DEF UnchangedButDest, dirVars, archiveVars
<1>1. TypeOK /\ Placing /\ Imported /\ Whole
  BY DEF PackageInv
<1>2. Present(members) \subseteq Files /\ (Verified' <=> Verified)
  BY DEF Present, Import, ImportBegin, Verify, RemoveFile, Removed, CopyFile, ImportEnds, Verified
<1>3. CASE ImportBegin
  <2>1. task = "none" /\ archiver = "delivered" /\ mode = "export" /\ UNCHANGED <<archiveVars, dest, there, cut>>
    BY <1>3 DEF ImportBegin
  <2>2. TypeOK'
    BY <1>1, <1>3 DEF ImportBegin, Refuse, TypeOK
  <2>3. task' \in {"none", "verify"} /\ verdict' \in {"none", "refused"}
    BY <1>3 DEF ImportBegin, Refuse
  <2> QED BY <1>1, <2>1, <2>2, <2>3 DEF DestInv, Placing, Imported, Whole
<1>4. CASE Verify
  <2>1. CASE Verified
    BY <1>1, <1>2, <1>4, <2>1 DEF Verify, DestInv, TypeOK, Placing, Imported, Whole
  <2>2. CASE ~Verified
    BY <1>1, <1>4, <2>2 DEF Verify, Refuse, DestInv, TypeOK, Placing, Imported, Whole
  <2> QED BY <2>1, <2>2
<1>5. ASSUME NEW f \in Files, RemoveFile(f)
      PROVE  DestInv'
  <2>1. dest' \in [Files -> Nat \cup {Old, Damaged}]
    BY <1>1, <1>5 DEF RemoveFile, TypeOK, Absent
  <2>2. ~there => dest' = Nothing
    BY <1>1, <1>5 DEF RemoveFile, Placing, Nothing
  <2> QED BY <1>1, <1>2, <1>5, <2>1, <2>2 DEF RemoveFile, DestInv, TypeOK, Placing, Imported, Whole
<1>6. CASE Removed
  <2>1. \A f \in Files : dest[f] = Absent
    BY <1>6 DEF Removed, Present
  <2>2. dest = Nothing
    BY <1>1, <2>1 DEF TypeOK, Nothing
  <2>3. \A f \in Files \ todo' : dest[f] = members[f]
    BY <1>6, <2>1 DEF Removed, Present
  <2> QED BY <1>1, <1>2, <1>6, <2>2, <2>3 DEF Removed, DestInv, TypeOK, Placing, Imported, Whole
<1>7. ASSUME NEW f \in Files, CopyFile(f)
      PROVE  DestInv'
  <2>1. dest' \in [Files -> Nat \cup {Old, Damaged}]
    BY <1>1, <1>7 DEF CopyFile, Place, TypeOK
  <2>2. \A g \in Files \ todo' : dest'[g] = members[g]
    BY <1>1, <1>7 DEF CopyFile, Place, Placing, TypeOK
  <2> QED BY <1>1, <1>2, <1>7, <2>1, <2>2 DEF CopyFile, Place, DestInv, TypeOK, Placing, Imported, Whole
<1>8. CASE ImportEnds
  <2>1. \A f \in Files : dest[f] = members[f]
    BY <1>1, <1>8 DEF ImportEnds, Placing
  <2>2. dest = members
    BY <1>1, <2>1 DEF TypeOK
  <2> QED BY <1>1, <1>2, <1>8, <2>2 DEF ImportEnds, DestInv, TypeOK, Placing, Imported, Whole
<1> QED BY <1>3, <1>4, <1>5, <1>6, <1>7, <1>8 DEF Import

LEMMA RestoreStep ==
  ASSUME PackageInv, Restore
  PROVE  DestInv'
<1> USE DEF UnchangedButDest, dirVars, archiveVars
<1>1. TypeOK /\ Placing /\ Imported /\ Whole
  BY DEF PackageInv
<1>2. Present(members) \subseteq Files
  BY DEF Present
<1>3. ASSUME NEW digest \in BOOLEAN, RestoreBegin(digest)
      PROVE  DestInv'
  <2>1. CASE ~there /\ task' = "unzip"
    <3>1. todo' = Present(members) /\ there' = TRUE /\ verdict' = "none" /\ dest = Nothing
      BY <1>1, <1>3, <2>1 DEF RestoreBegin, Refuse, Placing
    <3>2. \A f \in Files \ todo' : dest[f] = members[f]
      BY <3>1 DEF Present, Nothing
    <3> QED BY <1>1, <1>2, <1>3, <2>1, <3>1, <3>2
            DEF RestoreBegin, DestInv, TypeOK, Placing, Imported, Whole
  <2>2. CASE task' = "none" /\ todo' = {} /\ verdict' = "refused" /\ UNCHANGED there
    BY <1>1, <1>3, <2>2 DEF RestoreBegin, DestInv, TypeOK, Placing, Imported, Whole
  <2> QED BY <1>3, <2>1, <2>2 DEF RestoreBegin, Refuse
<1>4. ASSUME NEW f \in Files, UnzipFile(f)
      PROVE  DestInv'
  <2>1. dest' \in [Files -> Nat \cup {Old, Damaged}]
    BY <1>1, <1>4 DEF UnzipFile, Place, TypeOK
  <2>2. \A g \in Files \ todo' : dest'[g] = members[g]
    BY <1>1, <1>4 DEF UnzipFile, Place, Placing, TypeOK
  <2> QED BY <1>1, <1>4, <2>1, <2>2 DEF UnzipFile, Place, DestInv, TypeOK, Placing, Imported, Whole
<1>5. CASE RestoreRaises
  BY <1>1, <1>5 DEF RestoreRaises, Refuse, DestInv, TypeOK, Placing, Imported, Whole
<1>6. CASE RestoreEnds
  <2>1. dest = members
    <3>1. \A f \in Files : dest[f] = members[f]
      BY <1>1, <1>6 DEF RestoreEnds, Placing
    <3> QED BY <1>1, <3>1 DEF TypeOK
  <2>2. Nothing \in [Files -> Nat \cup {Old, Damaged}]
    BY DEF Nothing, Absent
  <2> QED BY <1>1, <1>6, <2>1, <2>2, ZenonT(60)
          DEF RestoreEnds, Refuse, DestInv, TypeOK, Placing, Imported, Whole
<1> QED BY <1>3, <1>4, <1>5, <1>6 DEF Restore

LEMMA CrashStep ==
  ASSUME PackageInv, (Followed /\ SourceCrash) \/ DestCrash
  PROVE  PackageInv'
<1>1. TypeOK /\ DigestsBehind /\ Separated /\ Fresh /\ Placing /\ Imported /\ Whole
  BY DEF PackageInv
<1>2. CASE Followed /\ SourceCrash
  <2>1. TypeOK'
    <3>1. crashes' \in 0..MaxCrashes
      BY <1>1, <1>2, PackageAssumption DEF SourceCrash, TypeOK
    <3>2. op' \in [Writers -> DOMAIN Writes \cup {"none", "over"}] /\ leftover' \in BOOLEAN
      BY <1>1, <1>2 DEF SourceCrash, TypeOK
    <3>3. Nothing \in [Files -> Nat]
      BY DEF Nothing, Absent
    <3>4. Nothing \in [Files -> Nat \cup {Damaged}]
      BY <3>3
    <3> QED BY <1>1, <1>2, <3>1, <3>2, <3>3, <3>4 DEF SourceCrash, Forget, TypeOK, destVars
  <2>2. DigestsBehind' /\ Separated' /\ Fresh'
    BY <1>2 DEF SourceCrash, Forget, Nothing, Absent, DigestsBehind, Separated, Fresh
  <2>3. Placing' /\ Imported' /\ Whole'
    BY <1>2, SourceSide DEF Followed, SourceCrash
  <2> QED BY <2>1, <2>2, <2>3 DEF PackageInv
<1>3. CASE DestCrash
  <2>1. TypeOK'
    BY <1>1, <1>3, PackageAssumption DEF DestCrash, TypeOK, dirVars, archiveVars
  <2>2. DigestsBehind' /\ Separated' /\ Fresh'
    BY <1>3, DestSide DEF DestCrash
  <2>3. Placing' /\ Imported' /\ Whole'
    BY <1>1, <1>3 DEF DestCrash, Placing, Imported, Whole, archiveVars
  <2> QED BY <2>1, <2>2, <2>3 DEF PackageInv
<1> QED BY <1>2, <1>3

-----------------------------------------------------------------------------

LEMMA PackageInit ==
  ASSUME Init
  PROVE  PackageInv
<1>1. TypeOK
  <2>1. /\ Nothing \in [Files -> Nat] /\ Nothing \in [Files -> Nat \cup {Damaged}]
        /\ Nothing \in [Files -> Nat \cup {Old, Damaged}]
        /\ OldCase \in [Files -> Nat \cup {Old, Damaged}]
    BY DEF Nothing, OldCase, Absent
  <2>2. dest \in [Files -> Nat \cup {Old, Damaged}]
    BY <2>1 DEF Init
  <2>3. dir \in [Files -> Nat] /\ written \in [Writers -> Nat]
    BY DEF Init, Absent
  <2>4. op \in [Writers -> DOMAIN Writes \cup {"none", "over"}]
    BY DEF Init
  <2>5. crashes \in 0..MaxCrashes
    BY PackageAssumption DEF Init
  <2> QED BY <2>1, <2>2, <2>3, <2>4, <2>5 DEF Init, TypeOK
<1>2. DigestsBehind /\ Separated /\ Fresh
  BY DEF Init, DigestsBehind, Separated, Fresh, Nothing, Absent
<1>3. Placing /\ Imported /\ Whole
  BY DEF Init, Placing, Imported, Whole
<1> QED BY <1>1, <1>2, <1>3 DEF PackageInv

LEMMA PackageNext ==
  ASSUME PackageInv, [Next]_vars
  PROVE  PackageInv'
<1>1. ASSUME NEW w \in Writers, Followed, Write(w)
      PROVE  PackageInv'
  BY <1>1, WriteStep DEF Followed
<1>2. CASE Export \/ Archive
  BY <1>2, ArchiverStep
<1>3. CASE Import \/ Restore
  <2>1. UNCHANGED <<dirVars, archiveVars, seen>>
    BY <1>3 DEF Import, Restore, ImportBegin, Verify, RemoveFile, Removed, CopyFile, ImportEnds,
                RestoreBegin, UnzipFile, RestoreRaises, RestoreEnds, UnchangedButDest
  <2>2. DigestsBehind' /\ Separated' /\ Fresh'
    BY <2>1, DestSide
  <2>3. DestInv'
    BY <1>3, ImportStep, RestoreStep
  <2> QED BY <2>2, <2>3 DEF PackageInv, DestInv
<1>4. CASE (Followed /\ SourceCrash) \/ DestCrash
  BY <1>4, CrashStep
<1>5. CASE UNCHANGED vars
  <2>1. UNCHANGED <<dirVars, archiveVars, seen, destVars, crashes>>
    BY <1>5 DEF vars
  <2>2. DigestsBehind' /\ Separated' /\ Fresh'
    BY <2>1, DestSide
  <2>3. TypeOK'
    BY <2>1 DEF PackageInv, TypeOK, dirVars, archiveVars, destVars
  <2>4. Placing' /\ Imported' /\ Whole'
    BY <2>1 DEF PackageInv, Placing, Imported, Whole, Verified, archiveVars, destVars, Nothing, OldCase
  <2> QED BY <2>2, <2>3, <2>4 DEF PackageInv
<1> QED BY <1>1, <1>2, <1>3, <1>4, <1>5 DEF Next

\* The invariant holds: digests, directory and members stay in order, and what
\* is placed is what was verified.
THEOREM PackageInvariant == Spec => []PackageInv
<1>1. Init => PackageInv
  BY PackageInit
<1>2. PackageInv /\ [Next]_vars => PackageInv'
  BY PackageNext
<1> QED BY <1>1, <1>2, PTL DEF Spec

\* Every variable has its type.
THEOREM PackageTypes == Spec => []TypeOK
<1>1. PackageInv => TypeOK
  BY DEF PackageInv
<1> QED BY <1>1, PackageInvariant, PTL

\* An imported case is the exported one as it was at one instant of an export
\* that took no lock.
THEOREM ImportIsSnapshotHolds == Spec => []ImportIsSnapshot
<1>1. PackageInv => ImportIsSnapshot
  <2> SUFFICES ASSUME PackageInv, verdict = "imported"
               PROVE  \E d \in seen : \A f \in Files : digests[f] # Absent => dest[f] = d[f]
    BY DEF ImportIsSnapshot
  <2>1. archiver = "delivered" /\ mode = "export" /\ Verified /\ dest = members
    BY DEF PackageInv, Imported
  <2>2. PICK d \in seen : Between(d)
    BY <2>1 DEF PackageInv, Separated
  <2>3. digests \in [Files -> Nat] /\ d \in [Files -> Nat]
    BY <2>2 DEF PackageInv, TypeOK
  <2>4. ASSUME NEW f \in Files, digests[f] # Absent
        PROVE  dest[f] = d[f]
    <3>1. members[f] = digests[f] /\ members[f] # Damaged
      BY <2>1, <2>3, <2>4, PackageAssumption DEF Verified
    <3>2. digests[f] <= d[f] /\ d[f] <= members[f]
      BY <2>1, <2>2, <2>4, <3>1 DEF Between
    <3> QED BY <2>1, <2>3, <3>1, <3>2
  <2> QED BY <2>2, <2>4
<1> QED BY <1>1, PackageInvariant, PTL

\* The other vault never holds a mixture of cases, unless its last change was
\* cut short.
THEOREM WholeUnlessCutHolds == Spec => []WholeUnlessCut
<1>1. PackageInv => WholeUnlessCut
  BY DEF PackageInv, Whole, WholeUnlessCut
<1> QED BY <1>1, PackageInvariant, PTL

-----------------------------------------------------------------------------
(* Why a restored case is a snapshot, and why a package is refused.        *)
(*                                                                         *)
(* A backup holds the lock of the case manager, so what is replaced while  *)
(* it runs is timelines and audit chains; the audit chain is visited last, *)
(* and the directory at that visit is the one that is restored.  A package *)
(* is refused without an alteration only if the directory had more than    *)
(* one state during the export: as long as it had one, digests and members *)
(* agree.                                                                  *)

\* The archiver knows the state of the directory, the lock belongs to the
\* operation under way, and the audit chain is there from create_case on.
Watched == Archiving => dir \in seen
OwnLock == \A w \in Writers : op[w] \in LockedOperations => lock = w
HasAudit == dir["audit"] # Absent
SourceInv == Watched /\ OwnLock /\ HasAudit

\* An export during which the directory had one state.
Steady == \A c, d \in seen : c = d
Undisturbed ==
  mode = "export" /\ Steady => \A f \in Files : digests[f] # Absent =>
    /\ Archiving => digests[f] = dir[f]
    /\ archiver = "archive" => f \in listed \/ members[f] = digests[f]
    /\ archiver = "delivered" => members[f] \in {digests[f], Damaged}

\* A backup.
OneInstant == \E d \in seen : \A f \in Files \ {"timeline"} : members[f] \in {d[f], Damaged}
BackupInstant ==
  /\ archiver = "idle" => members = Nothing
  /\ mode = "backup" => archiver \in {"archive", "delivered"}
  /\ mode = "backup" /\ archiver = "archive" =>
       /\ lock = "backup"
       /\ \A f \in {"case", "custody"} : f \in listed \/ members[f] = dir[f]
       /\ "audit" \notin listed => listed = {} /\ OneInstant
  /\ mode = "backup" /\ archiver = "delivered" => OneInstant

\* A restore with the digest of the backup that came so far has seen that
\* nothing is altered; a refusal has its reason.
Restored ==
  /\ task = "unzip" => mode = "backup" /\ (checked => ~Spoiled)
  /\ verdict = "restored" =>
       /\ task = "none" /\ archiver = "delivered" /\ mode = "backup" /\ dest = members
       /\ checked => ~Spoiled
Refused == verdict = "refused" => archiver = "delivered" /\ RefusedForAReason

SnapshotInv == SourceInv /\ Undisturbed /\ BackupInstant /\ Restored /\ Refused

LEMMA SnapshotInit ==
  ASSUME Init
  PROVE  SnapshotInv
<1>1. SourceInv
  BY DEF Init, SourceInv, Watched, OwnLock, HasAudit, Archiving, Files, Absent, LockedOperations
<1>2. Undisturbed /\ BackupInstant /\ Restored /\ Refused
  BY DEF Init, Undisturbed, BackupInstant, Restored, Refused
<1> QED BY <1>1, <1>2 DEF SnapshotInv

\* Before the delivery nothing is restored and nothing refused.
LEMMA UndeliveredSnapshot ==
  ASSUME PackageInv, SnapshotInv, archiver # "delivered", UNCHANGED destVars
  PROVE  Restored' /\ Refused'
<1>1. task = "none" /\ verdict # "restored" /\ verdict # "refused"
  BY DEF PackageInv, Placing, SnapshotInv, Restored, Refused
<1>2. task' = "none" /\ verdict' # "restored" /\ verdict' # "refused"
  BY <1>1 DEF destVars
<1> QED BY <1>2 DEF Restored, Refused

\* The other vault leaves the directory and the archive alone.
LEMMA DestSnapshot ==
  ASSUME SnapshotInv, UNCHANGED <<dirVars, archiveVars, seen>>
  PROVE  SourceInv' /\ Undisturbed' /\ BackupInstant'
<1>1. UNCHANGED <<dir, op, lock, archiver, mode, listed, digests, members, seen>>
  BY DEF dirVars, archiveVars
<1>2. SourceInv'
  BY <1>1 DEF SnapshotInv, SourceInv, Watched, OwnLock, HasAudit, Archiving
<1>3. Undisturbed'
  BY <1>1 DEF SnapshotInv, Undisturbed, Steady, Archiving
<1>4. BackupInstant'
  BY <1>1 DEF SnapshotInv, BackupInstant, OneInstant, Nothing
<1> QED BY <1>2, <1>3, <1>4

\* A writer takes the lock only when it is free, and gives back only its own.
LEMMA WriterLock ==
  ASSUME TypeOK, OwnLock, NEW w \in Writers, Write(w)
  PROVE  OwnLock' /\ (lock = "backup" => lock' = "backup")
<1> USE PackageAssumption
<1>1. ASSUME NEW o \in Operations, Begin(w, o)
      PROVE  OwnLock' /\ (lock = "backup" => lock' = "backup")
  BY <1>1 DEF Begin, OwnLock, TypeOK
<1>2. CASE WriteTemp(w) \/ Replace(w)
  BY <1>2 DEF WriteTemp, Replace, OwnLock
<1>3. CASE WriteFails(w) \/ End(w)
  <2>1. /\ op' = [op EXCEPT ![w] = "over"]
        /\ lock' = IF lock = w THEN NoOne ELSE lock
    BY <1>3 DEF WriteFails, End, Over
  <2>2. "over" \notin LockedOperations
    BY DEF LockedOperations
  <2> QED BY <2>1, <2>2 DEF OwnLock, TypeOK
<1> QED BY <1>1, <1>2, <1>3 DEF Write

\* While a backup holds the lock, what is replaced is a timeline or a chain.
LEMMA UnlockedWrites ==
  ASSUME TypeOK, OwnLock, NEW w \in Writers, Replace(w), lock \notin Writers
  PROVE  dir'["case"] = dir["case"] /\ dir'["custody"] = dir["custody"]
<1> DEFINE g == Writes[op[w]][written[w] + 1]
<1>1. op[w] \in {"SCAN", "SANITIZE"}
  BY DEF Replace, Writing, OwnLock, LockedOperations, Writes
<1>2. g \in {"timeline", "audit"}
  <2>1. written[w] \in Nat /\ written[w] < Len(Writes[op[w]])
    BY DEF Replace, Writing, TypeOK
  <2>2. CASE op[w] = "SCAN"
    <3>1. Writes[op[w]] = <<"timeline", "audit">>
      BY <2>2 DEF Writes
    <3>2. written[w] + 1 \in {1, 2}
      BY <2>1, <3>1
    <3> QED BY <3>1, <3>2
  <2>3. CASE op[w] = "SANITIZE"
    <3>1. Writes[op[w]] = <<"audit">>
      BY <2>3 DEF Writes
    <3>2. written[w] + 1 = 1
      BY <2>1, <3>1
    <3> QED BY <3>1, <3>2
  <2> QED BY <1>1, <2>2, <2>3
<1>3. dir' = [dir EXCEPT ![g] = @ + 1]
  BY DEF Replace
<1> HIDE DEF g
<1> QED BY <1>2, <1>3 DEF TypeOK

\* A replacement is a state the directory did not have.
LEMMA ReplaceMoves ==
  ASSUME TypeOK, NEW w \in Writers, Replace(w)
  PROVE  dir' # dir
<1> DEFINE g == Writes[op[w]][written[w] + 1]
<1>1. g \in Files
  BY NextFile DEF Replace
<1>2. dir' = [dir EXCEPT ![g] = @ + 1]
  BY DEF Replace
<1> HIDE DEF g
<1>3. dir'[g] = dir[g] + 1 /\ dir[g] \in Nat
  BY <1>1, <1>2 DEF TypeOK
<1>4. dir'[g] # dir[g]
  BY <1>3
<1> QED BY <1>4

LEMMA WriteSnapshot ==
  ASSUME PackageInv, SnapshotInv, NEW w \in Writers, archiver # "delivered", Write(w)
  PROVE  SnapshotInv'
<1>1. UNCHANGED <<archiveVars, destVars>>
  BY DEF Write, Begin, WriteTemp, Replace, WriteFails, End, UnchangedButDir
<1>2. UNCHANGED <<archiver, mode, listed, digests, members>>
  BY <1>1 DEF archiveVars
<1>3. TypeOK /\ SourceInv /\ Undisturbed /\ BackupInstant /\ OwnLock
  BY DEF PackageInv, SnapshotInv, SourceInv
<1>4. OwnLock' /\ (lock = "backup" => lock' = "backup")
  BY <1>3, WriterLock
<1>5. Restored' /\ Refused'
  BY <1>1, UndeliveredSnapshot
<1>6. CASE ~Replace(w)
  <2>1. UNCHANGED <<dir, seen>>
    BY <1>6 DEF Write, Begin, WriteTemp, WriteFails, End
  <2>2. SourceInv'
    BY <1>2, <1>3, <1>4, <2>1 DEF SourceInv, Watched, HasAudit, Archiving
  <2>3. Undisturbed'
    BY <1>2, <1>3, <2>1 DEF Undisturbed, Steady, Archiving
  <2>4. BackupInstant'
    BY <1>2, <1>3, <1>4, <2>1 DEF BackupInstant, OneInstant, Nothing
  <2> QED BY <1>5, <2>2, <2>3, <2>4 DEF SnapshotInv
<1>7. CASE Replace(w)
  <2>1. dir' \in [Files -> Nat] /\ \A f \in Files : dir[f] <= dir'[f]
    BY <1>3, <1>7, ReplaceGrows
  <2>2. seen' = IF Archiving THEN seen \cup {dir'} ELSE seen
    BY <1>7 DEF Replace
  <2>3. SourceInv'
    <3>1. Watched'
      BY <1>2, <2>2 DEF Watched, Archiving
    <3>2. dir["audit"] \in Nat /\ dir'["audit"] \in Nat /\ dir["audit"] <= dir'["audit"]
      BY <1>3, <2>1 DEF TypeOK, Files
    <3>3. HasAudit'
      BY <1>3, <3>2 DEF SourceInv, HasAudit, Absent
    <3> QED BY <1>4, <3>1, <3>3 DEF SourceInv
  <2>4. Undisturbed'
    <3>1. CASE Archiving
      <4>1. dir \in seen' /\ dir' \in seen' /\ dir # dir'
        BY <1>3, <1>7, <2>2, <3>1, ReplaceMoves DEF SourceInv, Watched
      <4>2. ~Steady'
        BY <4>1 DEF Steady
      <4> QED BY <4>2 DEF Undisturbed
    <3>2. CASE ~Archiving
      BY <1>2, <1>3, <2>2, <3>2 DEF Undisturbed, Archiving, Steady
    <3> QED BY <3>1, <3>2
  <2>5. BackupInstant'
    <3>1. CASE mode = "backup" /\ archiver = "archive"
      <4>1. lock = "backup" /\ lock \notin Writers
        BY <1>3, <3>1, PackageAssumption DEF BackupInstant
      <4>2. dir'["case"] = dir["case"] /\ dir'["custody"] = dir["custody"]
        BY <1>3, <1>7, <4>1, UnlockedWrites
      <4>3. OneInstant => OneInstant'
        BY <1>2, <2>2 DEF OneInstant
      <4> QED BY <1>2, <1>3, <1>4, <3>1, <4>1, <4>2, <4>3 DEF BackupInstant
    <3>2. CASE ~(mode = "backup" /\ archiver = "archive")
      BY <1>2, <1>3, <3>2 DEF BackupInstant, Nothing
    <3> QED BY <3>1, <3>2
  <2> QED BY <1>5, <2>3, <2>4, <2>5 DEF SnapshotInv
<1> QED BY <1>6, <1>7

LEMMA ExportSnapshot ==
  ASSUME PackageInv, SnapshotInv, Export
  PROVE  SourceInv' /\ Undisturbed' /\ BackupInstant'
<1> USE DEF UnchangedButArchive
<1>1. TypeOK /\ Fresh /\ Watched /\ OwnLock /\ HasAudit /\ Undisturbed /\ BackupInstant
  BY DEF PackageInv, SnapshotInv, SourceInv
<1>2. UNCHANGED <<dir, op, lock>>
  BY DEF Export, ExportBegin, HashTemp, WriteManifest, ListForArchive, HashFile
<1>3. OwnLock' /\ HasAudit'
  BY <1>1, <1>2 DEF OwnLock, HasAudit
<1>4. mode' = "export" \/ UNCHANGED mode
  BY DEF Export, ExportBegin, HashTemp, WriteManifest, ListForArchive, HashFile
<1>5. CASE ExportBegin
  <2>1. archiver' = "hash" /\ mode' = "export" /\ seen' = {dir} /\ digests' = Nothing
    BY <1>1, <1>5 DEF ExportBegin, Fresh
  <2>2. \A f \in Files : digests'[f] = Absent
    BY <2>1 DEF Nothing
  <2> QED BY <1>2, <1>3, <2>1, <2>2 DEF SourceInv, Watched, Undisturbed, BackupInstant
<1>6. CASE HashTemp \/ WriteManifest
  <2>1. /\ archiver = "hash" /\ archiver' \in {"hash", "manifest"}
        /\ UNCHANGED <<mode, listed, digests, members, seen>>
    BY <1>6 DEF HashTemp, WriteManifest
  <2>2. Watched'
    BY <1>1, <1>2, <2>1 DEF Watched, Archiving
  <2>3. Undisturbed'
    BY <1>1, <1>2, <2>1 DEF Undisturbed, Steady, Archiving
  <2>4. BackupInstant'
    BY <1>1, <2>1 DEF BackupInstant
  <2> QED BY <1>3, <2>2, <2>3, <2>4 DEF SourceInv
<1>7. CASE ListForArchive
  <2>1. /\ archiver = "manifest" /\ archiver' = "archive" /\ listed' = Present(dir)
        /\ UNCHANGED <<mode, digests, members, seen>>
    BY <1>7 DEF ListForArchive
  <2>2. Watched'
    BY <1>1, <1>2, <2>1 DEF Watched, Archiving
  <2>3. ASSUME mode = "export", Steady, NEW f \in Files, digests[f] # Absent
        PROVE  digests[f] = dir[f] /\ f \in listed'
    BY <1>1, <2>1, <2>3 DEF Undisturbed, Archiving, Present
  <2>4. Undisturbed'
    BY <1>2, <2>1, <2>3 DEF Undisturbed, Steady
  <2>5. BackupInstant'
    BY <1>1, <2>1 DEF BackupInstant
  <2> QED BY <1>3, <2>2, <2>4, <2>5 DEF SourceInv
<1>8. ASSUME NEW f \in Files, HashFile(f)
      PROVE  SourceInv' /\ Undisturbed' /\ BackupInstant'
  <2>1. /\ archiver = "hash" /\ archiver' = "hash" /\ UNCHANGED <<mode, members, seen>>
        /\ digests' = [digests EXCEPT ![f] = dir[f]]
    BY <1>8 DEF HashFile
  <2>2. \A g \in Files : digests'[g] = IF g = f THEN dir[f] ELSE digests[g]
    BY <1>1, <2>1 DEF TypeOK
  <2>3. Watched'
    BY <1>1, <1>2, <2>1 DEF Watched, Archiving
  <2>4. Undisturbed'
    BY <1>1, <1>2, <2>1, <2>2 DEF Undisturbed, Steady, Archiving
  <2>5. BackupInstant'
    BY <1>1, <2>1 DEF BackupInstant
  <2> QED BY <1>3, <2>3, <2>4, <2>5 DEF SourceInv
<1> QED BY <1>5, <1>6, <1>7, <1>8 DEF Export

LEMMA ArchiveSnapshot ==
  ASSUME PackageInv, SnapshotInv, Archive
  PROVE  SourceInv' /\ Undisturbed' /\ BackupInstant'
<1> USE DEF UnchangedButArchive
<1>1. TypeOK /\ Fresh /\ Watched /\ OwnLock /\ HasAudit /\ Undisturbed /\ BackupInstant
  BY DEF PackageInv, SnapshotInv, SourceInv
<1>2. UNCHANGED <<dir, op>> /\ HasAudit'
  BY <1>1 DEF Archive, BackupBegin, AddTemp, ArchiveFails, Deliver, AddFile, HasAudit
<1>3. CASE BackupBegin
  <2>1. /\ archiver = "idle" /\ lock = NoOne /\ lock' = "backup" /\ archiver' = "archive"
        /\ mode' = "backup" /\ listed' = Present(dir) /\ seen' = {dir} /\ UNCHANGED members
    BY <1>3 DEF BackupBegin, List
  <2>2. OwnLock'
    BY <1>1, <1>2, <2>1, PackageAssumption DEF OwnLock
  <2>3. "audit" \in listed'
    BY <1>1, <2>1 DEF HasAudit, Present, Files
  <2>4. \A f \in Files : f \in listed' \/ members'[f] = dir'[f]
    BY <1>1, <1>2, <2>1 DEF BackupInstant, Nothing, Present
  <2>5. BackupInstant'
    BY <2>1, <2>3, <2>4 DEF BackupInstant, Files
  <2> QED BY <1>2, <2>1, <2>2, <2>5 DEF SourceInv, Watched, Undisturbed
<1>4. CASE AddTemp
  <2>1. UNCHANGED <<archiver, mode, listed, digests, members, seen, lock>>
    BY <1>4 DEF AddTemp
  <2>2. SourceInv'
    BY <1>1, <1>2, <2>1 DEF SourceInv, Watched, Archiving, OwnLock
  <2>3. Undisturbed'
    BY <1>1, <1>2, <2>1 DEF Undisturbed, Steady, Archiving
  <2>4. BackupInstant'
    BY <1>1, <1>2, <2>1 DEF BackupInstant, OneInstant, Nothing
  <2> QED BY <2>2, <2>3, <2>4
<1>5. CASE ArchiveFails
  <2>1. archiver' = "idle" /\ mode' = "none" /\ members' = Nothing
        /\ lock' = IF lock = "backup" THEN NoOne ELSE lock
    BY <1>5 DEF ArchiveFails, Forget
  <2>2. OwnLock'
    BY <1>1, <1>2, <2>1, PackageAssumption DEF OwnLock
  <2> QED BY <1>2, <2>1, <2>2
          DEF SourceInv, Watched, Archiving, Undisturbed, BackupInstant, Nothing
<1>6. CASE Deliver
  <2>1. /\ archiver = "archive" /\ archiver' = "delivered" /\ listed = {}
        /\ UNCHANGED <<mode, digests, seen>>
        /\ lock' = IF lock = "backup" THEN NoOne ELSE lock
    BY <1>6 DEF Deliver
  <2>2. \A f \in Files : members'[f] \in {members[f], Damaged}
    BY <1>1, <1>6 DEF Deliver, TypeOK, Present
  <2>3. OwnLock'
    BY <1>1, <1>2, <2>1, PackageAssumption DEF OwnLock
  <2>4. Undisturbed'
    BY <1>1, <2>1, <2>2 DEF Undisturbed, Steady, Archiving
  <2>5. OneInstant => OneInstant'
    BY <2>1, <2>2 DEF OneInstant
  <2>6. BackupInstant'
    BY <1>1, <2>1, <2>5 DEF BackupInstant
  <2> QED BY <1>2, <2>1, <2>3, <2>4, <2>6 DEF SourceInv, Watched, Archiving
<1>7. ASSUME NEW f \in Files, AddFile(f)
      PROVE  SourceInv' /\ Undisturbed' /\ BackupInstant'
  <2>1. /\ archiver = "archive" /\ f \in listed /\ InTurn(f) /\ listed' = listed \ {f}
        /\ UNCHANGED <<archiver, mode, digests, seen, lock>>
        /\ members' = [members EXCEPT ![f] = dir[f]]
    BY <1>7 DEF AddFile
  <2>2. \A g \in Files : members'[g] = IF g = f THEN dir[f] ELSE members[g]
    BY <1>1, <2>1 DEF TypeOK
  <2>3. SourceInv'
    BY <1>1, <1>2, <2>1 DEF SourceInv, Watched, Archiving, OwnLock
  <2>4. Undisturbed'
    BY <1>1, <1>2, <2>1, <2>2 DEF Undisturbed, Steady, Archiving
  <2>5. ASSUME mode = "backup"
        PROVE  /\ lock' = "backup"
               /\ \A g \in {"case", "custody"} : g \in listed' \/ members'[g] = dir'[g]
    BY <1>1, <1>2, <2>1, <2>2, <2>5 DEF BackupInstant, Files
  <2>6. ASSUME mode = "backup", "audit" \notin listed'
        PROVE  listed' = {} /\ OneInstant'
    <3>1. "audit" \in listed
      BY <1>1, <2>1, <2>6 DEF BackupInstant
    <3>2. f = "audit" /\ listed \subseteq Files
      BY <1>1, <2>1, <2>6, <3>1 DEF TypeOK
    <3>3. listed' = {}
      BY <2>1, <2>6, <3>2 DEF InTurn
    <3>4. \A g \in Files \ {"timeline"} : members'[g] = dir[g]
      BY <1>2, <2>2, <2>5, <2>6, <3>2, <3>3 DEF Files
    <3>5. dir \in seen'
      BY <1>1, <2>1 DEF Watched, Archiving
    <3> QED BY <3>3, <3>4, <3>5 DEF OneInstant
  <2>7. BackupInstant'
    BY <1>1, <2>1, <2>5, <2>6 DEF BackupInstant
  <2> QED BY <2>3, <2>4, <2>7
<1> QED BY <1>3, <1>4, <1>5, <1>6, <1>7 DEF Archive

LEMMA ArchiverSnapshot ==
  ASSUME PackageInv, SnapshotInv, Export \/ Archive
  PROVE  SnapshotInv'
<1>1. archiver # "delivered" /\ UNCHANGED destVars
  BY DEF Export, Archive, ExportBegin, HashTemp, WriteManifest, ListForArchive, HashFile,
         BackupBegin, AddTemp, ArchiveFails, Deliver, AddFile, UnchangedButArchive
<1> QED BY <1>1, ExportSnapshot, ArchiveSnapshot, UndeliveredSnapshot DEF SnapshotInv

\* A package is not refused for nothing.
LEMMA RefusalHasReason ==
  ASSUME PackageInv, SnapshotInv, archiver = "delivered", mode = "export", ~Verified
  PROVE  Spoiled \/ tempDeclared \/ \E c, d \in seen : c # d
<1> SUFFICES ASSUME ~Spoiled, ~tempDeclared, Steady PROVE FALSE
  BY DEF Steady
<1>1. members["audit"] # Damaged /\ \A f \in Files : members[f] # Damaged
  BY DEF Spoiled, Files
<1>2. \A f \in Files : digests[f] # Absent => members[f] = digests[f]
  BY <1>1 DEF SnapshotInv, Undisturbed
<1> QED BY <1>1, <1>2 DEF Verified

LEMMA ImportSnapshot ==
  ASSUME PackageInv, SnapshotInv, Import
  PROVE  Restored' /\ Refused'
<1> USE DEF UnchangedButDest, dirVars, archiveVars
<1>1. TypeOK /\ Placing /\ Restored /\ Refused
  BY DEF PackageInv, SnapshotInv
<1>2. UNCHANGED <<archiver, mode, members, tempDeclared, seen>>
  BY DEF Import, ImportBegin, Verify, RemoveFile, Removed, CopyFile, ImportEnds
<1>3. (Spoiled' <=> Spoiled) /\ archiver = "delivered" /\ mode = "export"
  BY <1>1, <1>2 DEF Spoiled, Import, ImportBegin, Verify, RemoveFile, Removed, CopyFile, ImportEnds,
                    Placing
<1>4. verdict # "restored" /\ task' # "unzip"
  BY <1>1, <1>3 DEF Restored, Import, ImportBegin, Verify, RemoveFile, Removed, CopyFile, ImportEnds,
                    Refuse
<1>5. Restored'
  BY <1>4 DEF Restored, Import, ImportBegin, Verify, RemoveFile, Removed, CopyFile, ImportEnds, Refuse
<1>6. CASE verdict' = "refused"
  <2>1. verdict = "refused" \/ Spoiled \/ ~Verified
    BY <1>6 DEF Import, ImportBegin, Verify, RemoveFile, Removed, CopyFile, ImportEnds
  <2>2. RefusedForAReason'
    BY <1>1, <1>2, <1>3, <2>1, RefusalHasReason DEF Refused, RefusedForAReason
  <2> QED BY <1>2, <1>3, <1>5, <2>2 DEF Refused
<1>7. CASE verdict' # "refused"
  BY <1>5, <1>7 DEF Refused
<1> QED BY <1>5, <1>6, <1>7

LEMMA RestoreSnapshot ==
  ASSUME PackageInv, SnapshotInv, Restore
  PROVE  Restored' /\ Refused'
<1> USE DEF UnchangedButDest, dirVars, archiveVars
<1>1. TypeOK /\ Placing /\ Restored /\ Refused
  BY DEF PackageInv, SnapshotInv
<1>2. UNCHANGED <<archiver, mode, members>>
  BY DEF Restore, RestoreBegin, UnzipFile, RestoreRaises, RestoreEnds
<1>3. (Spoiled' <=> Spoiled) /\ archiver = "delivered" /\ mode = "backup"
  BY <1>1, <1>2 DEF Spoiled, Restore, RestoreBegin, UnzipFile, RestoreRaises, RestoreEnds, Placing,
                    Restored
<1>4. Refused'
  BY <1>2, <1>3 DEF Refused, RefusedForAReason
<1>5. ASSUME NEW digest \in BOOLEAN, RestoreBegin(digest)
      PROVE  Restored'
  BY <1>2, <1>3, <1>5 DEF RestoreBegin, Refuse, Restored
<1>6. ASSUME NEW f \in Files, UnzipFile(f)
      PROVE  Restored'
  BY <1>1, <1>2, <1>3, <1>6 DEF UnzipFile, Restored
<1>7. CASE RestoreRaises
  BY <1>4, <1>7 DEF RestoreRaises, Refuse, Restored
<1>8. CASE RestoreEnds
  <2>1. dest = members
    <3>1. \A f \in Files : dest[f] = members[f]
      BY <1>1, <1>8 DEF RestoreEnds, Placing
    <3> QED BY <1>1, <3>1 DEF TypeOK
  <2> QED BY <1>1, <1>2, <1>3, <1>4, <1>8, <2>1 DEF RestoreEnds, Refuse, Restored
<1> QED BY <1>4, <1>5, <1>6, <1>7, <1>8 DEF Restore

LEMMA CrashSnapshot ==
  ASSUME PackageInv, SnapshotInv, (Followed /\ SourceCrash) \/ DestCrash
  PROVE  SnapshotInv'
<1>1. CASE Followed /\ SourceCrash
  <2>1. /\ archiver # "delivered" /\ UNCHANGED <<dir, destVars>>
        /\ archiver' = "idle" /\ mode' = "none" /\ members' = Nothing
        /\ \A w \in Writers : op'[w] \in {"none", "over"}
    BY <1>1 DEF Followed, SourceCrash, Forget
  <2>2. Restored' /\ Refused'
    BY <2>1, UndeliveredSnapshot
  <2>3. SourceInv'
    BY <2>1 DEF SnapshotInv, SourceInv, Watched, Archiving, OwnLock, LockedOperations, HasAudit
  <2>4. Undisturbed' /\ BackupInstant'
    BY <2>1 DEF Undisturbed, BackupInstant, Nothing
  <2> QED BY <2>2, <2>3, <2>4 DEF SnapshotInv
<1>2. CASE DestCrash
  <2>1. UNCHANGED <<dirVars, archiveVars, seen>> /\ task' = "none" /\ verdict' = "none"
    BY <1>2 DEF DestCrash
  <2>2. Restored' /\ Refused'
    BY <2>1 DEF Restored, Refused
  <2> QED BY <2>1, <2>2, DestSnapshot DEF SnapshotInv
<1> QED BY <1>1, <1>2

LEMMA SnapshotNext ==
  ASSUME PackageInv, SnapshotInv, [Next]_vars
  PROVE  SnapshotInv'
<1>1. ASSUME NEW w \in Writers, Followed, Write(w)
      PROVE  SnapshotInv'
  BY <1>1, WriteSnapshot DEF Followed
<1>2. CASE Export \/ Archive
  BY <1>2, ArchiverSnapshot
<1>3. CASE Import \/ Restore
  <2>1. UNCHANGED <<dirVars, archiveVars, seen>>
    BY <1>3 DEF Import, Restore, ImportBegin, Verify, RemoveFile, Removed, CopyFile, ImportEnds,
                RestoreBegin, UnzipFile, RestoreRaises, RestoreEnds, UnchangedButDest
  <2> QED BY <1>3, <2>1, DestSnapshot, ImportSnapshot, RestoreSnapshot DEF SnapshotInv
<1>4. CASE (Followed /\ SourceCrash) \/ DestCrash
  BY <1>4, CrashSnapshot
<1>5. CASE UNCHANGED vars
  <2>1. UNCHANGED <<dirVars, archiveVars, seen>> /\ UNCHANGED destVars
    BY <1>5 DEF vars
  <2>2. Restored' /\ Refused'
    BY <2>1 DEF SnapshotInv, Restored, Refused, RefusedForAReason, Spoiled, archiveVars, destVars
  <2> QED BY <2>1, <2>2, DestSnapshot DEF SnapshotInv
<1> QED BY <1>1, <1>2, <1>3, <1>4, <1>5 DEF Next

\* The lock keeps all but the timeline and the audit chain still during a
\* backup, and the chain is visited last; an undisturbed export verifies.
THEOREM SnapshotInvariant == Spec => []SnapshotInv
<1>1. Init => SnapshotInv
  BY SnapshotInit
<1>2. PackageInv /\ SnapshotInv /\ [Next]_vars => SnapshotInv'
  BY SnapshotNext
<1> QED BY <1>1, <1>2, PackageInvariant, PTL DEF Spec

\* A case that restore_case_backup put in place under the digest of its backup
\* is the case, without its timeline, as it was at one instant of
\* create_case_backup.
THEOREM RestoreIsSnapshotHolds == Spec => []RestoreIsSnapshot
<1>1. PackageInv /\ SnapshotInv => RestoreIsSnapshot
  <2> SUFFICES ASSUME PackageInv, SnapshotInv, verdict = "restored", checked
               PROVE  \E d \in seen : \A f \in Files \ {"timeline"} : dest[f] = d[f]
    BY DEF RestoreIsSnapshot
  <2>1. archiver = "delivered" /\ mode = "backup" /\ dest = members /\ ~Spoiled
    BY DEF SnapshotInv, Restored
  <2>2. PICK d \in seen : \A f \in Files \ {"timeline"} : members[f] \in {d[f], Damaged}
    BY <2>1 DEF SnapshotInv, BackupInstant, OneInstant
  <2>3. \A f \in Files \ {"timeline"} : dest[f] = d[f]
    BY <2>1, <2>2 DEF Spoiled
  <2> QED BY <2>3
<1> QED BY <1>1, PackageInvariant, SnapshotInvariant, PTL

\* validate_and_import refuses a package only if it was altered, if the case
\* was written to during export_package, or if a temporary file was declared.
THEOREM RefusedForAReasonHolds == Spec => []RefusedForAReason
<1>1. SnapshotInv => RefusedForAReason
  BY DEF SnapshotInv, Refused, RefusedForAReason
<1> QED BY <1>1, SnapshotInvariant, PTL
=============================================================================
