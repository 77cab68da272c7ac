---------------------------- MODULE CasePackage ----------------------------
(***************************************************************************)
(* A case directory on its way into another vault (forensic_vault.py):     *)
(* export_package and create_case_backup archive it file by file while     *)
(* other threads write to it, validate_and_import and restore_case_backup  *)
(* put the archive in place.  Operations on a case hold the lock of        *)
(* ForensicCaseManager, and so does a backup; the workers of               *)
(* drex_server.py and an export do not.                                    *)
(*                                                                         *)
(* The content of a file is the number of times it was replaced: entries   *)
(* carry unique identifiers and times, so no content comes back, and equal *)
(* digests mean equal versions.  Every replacement is atomic               *)
(* (safe_atomic_write), so a read sees one version.                        *)
(***************************************************************************)
EXTENDS Naturals, Sequences

CONSTANTS
  Writers,      \* threads that write to the case: each performs one operation
  Operations,   \* the operations they may perform
  Old,          \* content of a file of the case the other vault already holds
  Damaged,      \* content of a file that was altered on the way
  NoOne,        \* the lock is free
  MaxCrashes    \* bound: crashes of the process

Files == {"case", "custody", "timeline", "audit"}
Absent == 0

\* The files an operation replaces, in order (see CaseLedger).
Writes ==
  [STATUS    |-> <<"case", "timeline", "audit">>,
   CUSTODY   |-> <<"custody", "timeline", "audit">>,
   BENCHMARK |-> <<"audit">>,
   SCAN      |-> <<"timeline", "audit">>,
   SANITIZE  |-> <<"audit">>]

LockedOperations == {"STATUS", "CUSTODY", "BENCHMARK"}

ASSUME PackageAssumption ==
  /\ Operations \subseteq DOMAIN Writes
  /\ Old \notin Nat /\ Damaged \notin Nat
  /\ NoOne \notin Writers /\ "backup" \notin Writers /\ NoOne # "backup"
  /\ MaxCrashes \in Nat

VARIABLES
  dir,            \* the case directory: the version of each file
  op,             \* the operation of each writer
  written,        \* how many of its files it has replaced
  temp,           \* the writers whose temporary file is in the directory
  leftover,       \* a temporary file of a crashed process is in the directory
  lock,           \* ForensicCaseManager._lock
  archiver,       \* where the export or the backup is
  mode,           \* which of the two it is
  listed,         \* the files it has listed and not visited
  tempListed,     \* the temporary files among them: a writer's, a leftover
  tempDeclared,   \* the manifest declares a temporary file
  digests,        \* the versions the manifest declares
  members,        \* the archive: the version of each file in it
  seen,           \* history: the directory during the export or backup
  task,           \* where the import or the restore is
  todo,           \* the files it has still to put in place
  checked,        \* the restore was given the digest of the backup
  dest,           \* the case in the other vault
  there,          \* its directory exists
  verdict,        \* how the last import or restore ended
  cut,            \* history: the last one that changed dest was cut short
  crashes

dirVars == <<dir, op, written, temp, leftover, lock>>
archiveVars == <<archiver, mode, listed, tempListed, tempDeclared, digests, members>>
destVars == <<task, todo, checked, dest, there, verdict, cut>>
vars == <<dirVars, archiveVars, seen, destVars, crashes>>

Present(d) == {f \in Files : d[f] # Absent}
Nothing == [f \in Files |-> Absent]
OldCase == [f \in Files |-> Old]
TempFiles == (IF temp # {} THEN {"writer"} ELSE {}) \cup (IF leftover THEN {"leftover"} ELSE {})

\* create_case has written everything but the custody records.
Init ==
  /\ dir = [f \in Files |-> IF f = "custody" THEN Absent ELSE 1]
  /\ op = [w \in Writers |-> "none"]
  /\ written = [w \in Writers |-> 0]
  /\ temp = {} /\ leftover = FALSE /\ lock = NoOne
  /\ archiver = "idle" /\ mode = "none"
  /\ listed = {} /\ tempListed = {} /\ tempDeclared = FALSE
  /\ digests = Nothing /\ members = Nothing /\ seen = {}
  /\ task = "none" /\ todo = {} /\ checked = FALSE
  /\ there \in BOOLEAN /\ dest = IF there THEN OldCase ELSE Nothing
  /\ verdict = "none" /\ cut = FALSE
  /\ crashes = 0

-----------------------------------------------------------------------------
(* Writers *)

UnchangedButDir == UNCHANGED <<archiveVars, destVars, crashes>>

Begin(w, o) ==
  /\ op[w] = "none"
  /\ op' = [op EXCEPT ![w] = o]
  /\ IF o \in LockedOperations THEN lock = NoOne /\ lock' = w ELSE lock' = lock
  /\ UNCHANGED <<dir, written, temp, leftover, seen>> /\ UnchangedButDir

Archiving == archiver \in {"hash", "manifest", "archive"}

Writing(w) == op[w] \in DOMAIN Writes /\ written[w] < Len(Writes[op[w]])

\* safe_atomic_write: mkstemp in the directory of the file ...
WriteTemp(w) ==
  /\ Writing(w) /\ w \notin temp
  /\ temp' = temp \cup {w}
  /\ UNCHANGED <<dir, op, written, leftover, lock, seen>> /\ UnchangedButDir

\* ... and os.replace.
Replace(w) ==
  /\ Writing(w) /\ w \in temp
  /\ LET f == Writes[op[w]][written[w] + 1] IN dir' = [dir EXCEPT ![f] = @ + 1]
  /\ written' = [written EXCEPT ![w] = @ + 1]
  /\ temp' = temp \ {w}
  /\ seen' = IF Archiving THEN seen \cup {dir'} ELSE seen
  /\ UNCHANGED <<op, leftover, lock>> /\ UnchangedButDir

Over(w) ==
  /\ op' = [op EXCEPT ![w] = "over"]
  /\ lock' = IF lock = w THEN NoOne ELSE lock

\* The write raises: the temporary file is unlinked and the operation ends.
WriteFails(w) ==
  /\ w \in temp
  /\ temp' = temp \ {w}
  /\ Over(w)
  /\ UNCHANGED <<dir, written, leftover, seen>> /\ UnchangedButDir

End(w) ==
  /\ op[w] \in DOMAIN Writes /\ ~Writing(w)
  /\ Over(w)
  /\ UNCHANGED <<dir, written, temp, leftover, seen>> /\ UnchangedButDir

-----------------------------------------------------------------------------
(* export_package and create_case_backup *)

UnchangedButArchive == UNCHANGED <<dir, op, written, temp, leftover, destVars, crashes>>

Sorted == [audit |-> 1, case |-> 2, custody |-> 3, timeline |-> 4]

\* sorted(rglob) goes by name; os.walk visits the files at the root, in no
\* particular order, before audit/audit_chain.json.
InTurn(f) ==
  \A g \in listed \ {f} :
    IF mode = "export" THEN Sorted[f] < Sorted[g] ELSE f # "audit"

List ==
  /\ listed' = Present(dir)
  /\ tempListed' = TempFiles

\* export_package lists the directory for its manifest.  One export at a time:
\* a second one would write the same manifest.json.
ExportBegin ==
  /\ archiver = "idle"
  /\ archiver' = "hash" /\ mode' = "export"
  /\ List
  /\ seen' = {dir}
  /\ UNCHANGED <<tempDeclared, digests, members, lock>> /\ UnchangedButArchive

HashFile(f) ==
  /\ archiver = "hash" /\ f \in listed /\ InTurn(f)
  /\ digests' = [digests EXCEPT ![f] = dir[f]]
  /\ listed' = listed \ {f}
  /\ UNCHANGED <<archiver, mode, tempListed, tempDeclared, members, seen, lock>>
  /\ UnchangedButArchive

\* A temporary file is hashed and declared like any other, if it is still there.
HashTemp ==
  /\ archiver = "hash" /\ tempListed # {}
  /\ tempListed' = {}
  /\ tempDeclared' = (tempListed \cap TempFiles # {})
  /\ UNCHANGED <<archiver, mode, listed, digests, members, seen, lock>>
  /\ UnchangedButArchive

\* manifest.json and manifest.sha256 are written ...
WriteManifest ==
  /\ archiver = "hash" /\ listed = {} /\ tempListed = {}
  /\ archiver' = "manifest"
  /\ UNCHANGED <<mode, listed, tempListed, tempDeclared, digests, members, seen, lock>>
  /\ UnchangedButArchive

\* ... and the directory is listed again, without temporary files.
ListForArchive ==
  /\ archiver = "manifest"
  /\ archiver' = "archive"
  /\ listed' = Present(dir)
  /\ UNCHANGED <<mode, tempListed, tempDeclared, digests, members, seen, lock>>
  /\ UnchangedButArchive

\* Mutant: a backup does without the lock.
BackupUnlocked ==
  /\ archiver = "idle"
  /\ archiver' = "archive" /\ mode' = "backup"
  /\ List
  /\ seen' = {dir}
  /\ UNCHANGED <<tempDeclared, digests, members, lock>> /\ UnchangedButArchive

\* create_case_backup.
BackupBegin ==
  /\ archiver = "idle"
  /\ lock = NoOne /\ lock' = "backup"
  /\ archiver' = "archive" /\ mode' = "backup"
  /\ List
  /\ seen' = {dir}
  /\ UNCHANGED <<tempDeclared, digests, members>> /\ UnchangedButArchive

\* Mutant: a file is hashed when it is added, and not before.
HashWhenAdded(f) ==
  /\ archiver = "archive" /\ f \in listed /\ InTurn(f)
  /\ members' = [members EXCEPT ![f] = dir[f]]
  /\ digests' = [digests EXCEPT ![f] = dir[f]]
  /\ listed' = listed \ {f}
  /\ UNCHANGED <<archiver, mode, tempListed, tempDeclared, seen, lock>>
  /\ UnchangedButArchive

\* tar.add and zf.write.
AddFile(f) ==
  /\ archiver = "archive" /\ f \in listed /\ InTurn(f)
  /\ members' = [members EXCEPT ![f] = dir[f]]
  /\ listed' = listed \ {f}
  /\ UNCHANGED <<archiver, mode, tempListed, tempDeclared, digests, seen, lock>>
  /\ UnchangedButArchive

\* A backup takes a temporary file along, which nobody reads again.
AddTemp ==
  /\ archiver = "archive" /\ tempListed # {}
  /\ tempListed \subseteq TempFiles
  /\ tempListed' = {}
  /\ UNCHANGED <<archiver, mode, listed, tempDeclared, digests, members, seen, lock>>
  /\ UnchangedButArchive

\* The archive is given up and its operation may be called again.
Forget ==
  /\ archiver' = "idle" /\ mode' = "none"
  /\ listed' = {} /\ tempListed' = {} /\ tempDeclared' = FALSE
  /\ digests' = Nothing /\ members' = Nothing
  /\ seen' = {}

\* The temporary file of a writer was listed and is gone when it is opened.
ArchiveFails ==
  /\ archiver \in {"hash", "archive"} /\ "writer" \in tempListed
  /\ Forget
  /\ lock' = IF lock = "backup" THEN NoOne ELSE lock
  /\ UnchangedButArchive

\* os.replace of the package, or the detached manifest of the backup; then the
\* archive travels, and one of its members may arrive altered.
Deliver ==
  /\ archiver = "archive" /\ listed = {} /\ tempListed = {}
  /\ archiver' = "delivered"
  /\ lock' = IF lock = "backup" THEN NoOne ELSE lock
  /\ \/ members' = members
     \/ \E f \in Present(members) : members' = [members EXCEPT ![f] = Damaged]
  /\ UNCHANGED <<mode, listed, tempListed, tempDeclared, digests, seen>>
  /\ UnchangedButArchive

-----------------------------------------------------------------------------
(* validate_and_import *)

UnchangedButDest == UNCHANGED <<dirVars, archiveVars, seen, crashes>>

Spoiled == \E f \in Files : members[f] = Damaged

Refuse == task' = "none" /\ todo' = {} /\ verdict' = "refused"

\* Extraction into a temporary directory; an altered archive may not open.
ImportBegin ==
  /\ archiver = "delivered" /\ mode = "export" /\ task = "none"
  /\ \/ task' = "verify" /\ verdict' = "none" /\ UNCHANGED todo
     \/ Spoiled /\ Refuse
  /\ UNCHANGED <<checked, dest, there, cut>> /\ UnchangedButDest

\* Mutant: every kind of file has to be there.
VerifiedAll ==
  /\ ~tempDeclared
  /\ \A f \in Files : members[f] = digests[f] /\ members[f] # Absent

\* Every declared file is there with its digest, and the audit chain verifies.
Verified ==
  /\ ~tempDeclared
  /\ \A f \in Files : digests[f] # Absent => members[f] = digests[f]
  /\ members["audit"] # Damaged

Verify ==
  /\ task = "verify"
  /\ IF Verified THEN task' = "remove" /\ UNCHANGED <<todo, verdict>> ELSE Refuse
  /\ UNCHANGED <<checked, dest, there, cut>> /\ UnchangedButDest

\* shutil.rmtree of the case that is there, file by file.
RemoveFile(f) ==
  /\ task = "remove" /\ dest[f] # Absent
  /\ dest' = [dest EXCEPT ![f] = Absent]
  /\ UNCHANGED <<task, todo, checked, there, verdict, cut>> /\ UnchangedButDest

\* Mutant: the package is copied over the case that is there.
CopyOver ==
  /\ task = "remove"
  /\ there' = FALSE
  /\ task' = "copy" /\ todo' = Present(members)
  /\ UNCHANGED <<checked, dest, verdict, cut>> /\ UnchangedButDest

\* shutil.copytree begins when nothing is left.
Removed ==
  /\ task = "remove" /\ Present(dest) = {}
  /\ there' = FALSE
  /\ task' = "copy" /\ todo' = Present(members)
  /\ UNCHANGED <<checked, dest, verdict, cut>> /\ UnchangedButDest

Place(f, content) ==
  /\ dest' = [dest EXCEPT ![f] = content]
  /\ there' = TRUE
  /\ todo' = todo \ {f}

CopyFile(f) ==
  /\ task = "copy" /\ f \in todo
  /\ Place(f, members[f])
  /\ UNCHANGED <<task, checked, verdict, cut>> /\ UnchangedButDest

ImportEnds ==
  /\ task = "copy" /\ todo = {}
  /\ task' = "none" /\ verdict' = "imported" /\ cut' = FALSE
  /\ UNCHANGED <<todo, checked, dest, there>> /\ UnchangedButDest

-----------------------------------------------------------------------------
(* restore_case_backup *)

\* The digest, if the caller gave one, case.json and the free place are
\* checked; then the directory is made.
RestoreBegin(digest) ==
  /\ archiver = "delivered" /\ mode = "backup" /\ task = "none"
  /\ checked' = digest
  /\ \/ /\ ~(digest /\ Spoiled) /\ ~there
        /\ task' = "unzip" /\ todo' = Present(members) /\ there' = TRUE
        /\ verdict' = "none"
     \/ /\ (digest /\ Spoiled) \/ members["case"] = Damaged \/ there
        /\ Refuse
        /\ UNCHANGED there
  /\ UNCHANGED <<dest, cut>> /\ UnchangedButDest

\* extractall.  An altered member may go through if its checksum was altered too.
UnzipFile(f) ==
  /\ task = "unzip" /\ f \in todo
  /\ Place(f, members[f])
  /\ UNCHANGED <<task, checked, verdict, cut>> /\ UnchangedButDest

\* An altered member, or a case.json that cannot be loaded, raises outside the
\* try block: what was extracted stays.
RestoreRaises ==
  /\ task = "unzip"
  /\ \/ \E f \in todo : members[f] = Damaged
     \/ todo = {} /\ dest["case"] = Damaged
  /\ Refuse
  /\ cut' = TRUE
  /\ UNCHANGED <<checked, dest, there>> /\ UnchangedButDest

\* The audit chain is verified; a case that fails is removed.
RestoreEnds ==
  /\ task = "unzip" /\ todo = {}
  /\ IF dest["audit"] = Damaged
     THEN Refuse /\ dest' = Nothing /\ there' = FALSE /\ cut' = cut
     ELSE /\ task' = "none" /\ verdict' = "restored" /\ cut' = FALSE
          /\ UNCHANGED <<todo, dest, there>>
  /\ UNCHANGED checked /\ UnchangedButDest

-----------------------------------------------------------------------------
(* Crashes *)

\* The process of the case's own vault: temporary files stay, nothing else does.
SourceCrash ==
  /\ crashes < MaxCrashes
  /\ crashes' = crashes + 1
  /\ op' = [w \in Writers |-> IF op[w] = "none" THEN "none" ELSE "over"]
  /\ temp' = {} /\ leftover' = (TempFiles # {} \/ archiver = "manifest")
  /\ lock' = NoOne
  /\ Forget
  /\ UNCHANGED <<dir, written, destVars>>

\* The process of the other vault.
DestCrash ==
  /\ crashes < MaxCrashes /\ task # "none"
  /\ crashes' = crashes + 1
  /\ task' = "none" /\ todo' = {} /\ verdict' = "none"
  /\ cut' = (cut \/ task # "verify")
  /\ UNCHANGED <<dirVars, archiveVars, seen, checked, dest, there>>

-----------------------------------------------------------------------------

Write(w) ==
  \/ \E o \in Operations : Begin(w, o)
  \/ WriteTemp(w) \/ Replace(w) \/ WriteFails(w) \/ End(w)

Export ==
  \/ ExportBegin \/ HashTemp \/ WriteManifest \/ ListForArchive
  \/ \E f \in Files : HashFile(f)

Archive ==
  \/ BackupBegin \/ AddTemp \/ ArchiveFails \/ Deliver
  \/ \E f \in Files : AddFile(f)

Import ==
  \/ ImportBegin \/ Verify \/ Removed \/ ImportEnds
  \/ \E f \in Files : RemoveFile(f) \/ CopyFile(f)

Restore ==
  \/ \E digest \in BOOLEAN : RestoreBegin(digest)
  \/ \E f \in Files : UnzipFile(f)
  \/ RestoreRaises \/ RestoreEnds

\* Bound: nothing looks at the directory once the archive is delivered, and
\* what happens to it is not followed any further.
Followed == archiver # "delivered"

Next ==
  \/ Followed /\ \E w \in Writers : Write(w)
  \/ Followed /\ SourceCrash
  \/ Export \/ Archive \/ Import \/ Restore
  \/ DestCrash

Spec == Init /\ [][Next]_vars

-----------------------------------------------------------------------------
(* Properties *)

\* Every variable has its type.
TypeOK ==
  /\ dir \in [Files -> Nat]
  /\ op \in [Writers -> DOMAIN Writes \cup {"none", "over"}]
  /\ written \in [Writers -> Nat]
  /\ temp \subseteq Writers /\ leftover \in BOOLEAN
  /\ lock \in Writers \cup {NoOne, "backup"}
  /\ archiver \in {"idle", "hash", "manifest", "archive", "delivered"}
  /\ mode \in {"none", "export", "backup"}
  /\ listed \subseteq Files /\ tempListed \subseteq {"writer", "leftover"} /\ tempDeclared \in BOOLEAN
  /\ digests \in [Files -> Nat]
  /\ members \in [Files -> Nat \cup {Damaged}]
  /\ seen \subseteq [Files -> Nat]
  /\ task \in {"none", "verify", "remove", "copy", "unzip"}
  /\ todo \subseteq Files /\ checked \in BOOLEAN
  /\ dest \in [Files -> Nat \cup {Old, Damaged}] /\ there \in BOOLEAN
  /\ verdict \in {"none", "refused", "imported", "restored"}
  /\ cut \in BOOLEAN
  /\ crashes \in 0..MaxCrashes

\* An imported case is the exported one as it was at one instant of the export,
\* although other threads wrote to it all the time and the export takes no
\* lock: all digests are taken before the first file is added, so a package
\* whose digests agree was not torn.  (A file that appears between the two
\* passes is not declared, not verified, and goes along.)
ImportIsSnapshot ==
  verdict = "imported" =>
    \E d \in seen : \A f \in Files : digests[f] # Absent => dest[f] = d[f]

\* A case restored with the digest of its backup is the case as it was at one
\* instant of the backup, audit appends of sanitization workers included.  The
\* timeline is left out: a scan worker writes timeline and audit chain without
\* the lock, and a backup that has read the old timeline may read the new chain.
RestoreIsSnapshot ==
  verdict = "restored" /\ checked =>
    \E d \in seen : \A f \in Files \ {"timeline"} : dest[f] = d[f]

\* Whatever was refused, retried or imported over an older case, the other
\* vault holds the old case or an archive as a whole, never a mixture, unless
\* a crash or an altered archive cut the last change short.
WholeUnlessCut ==
  task = "none" /\ there /\ ~cut => dest = OldCase \/ dest = members

\* A package is refused only if it was altered, if the case was written to
\* during its export, or if a temporary file was in the directory.
RefusedForAReason ==
  verdict = "refused" /\ mode = "export" =>
    Spoiled \/ tempDeclared \/ \E c, d \in seen : c # d
=============================================================================
