---------------------------- MODULE SectorImager ----------------------------
(***************************************************************************)
(* mediaimager, the native imaging tool (methods/Recovery, Module 8):      *)
(* image() copies a medium block by block, read_write() halves a block     *)
(* that cannot be read down to single sectors and retries those, and       *)
(* save_map() replaces the sector map after every block.  The image is     *)
(* written through a stream that may keep its last write until the next    *)
(* seekp; a crash of the process loses what the stream still holds.        *)
(***************************************************************************)
EXTENDS Naturals, Sequences, FiniteSets

CONSTANTS
  SectorCount,    \* sectors of the medium
  BlockSectors,   \* Policy.block_sectors
  Retries         \* Policy.retries

ASSUME ImagerAssumption ==
  SectorCount \in Nat \ {0} /\ BlockSectors \in Nat \ {0} /\ Retries \in Nat

Sectors == 0..SectorCount - 1

VARIABLES
  medium,      \* how each sector of the source reads
  shortTail,   \* the size of the source is not a multiple of the sector size
  sectors,     \* Map.sectors: the state of each sector
  image,       \* the sectors whose data are in the image file
  buffer,      \* the sectors whose data the stream has not written yet
  pos,         \* sec in image()
  work,        \* the ranges read_write still has to read, as <<first, count>>
  tries,       \* r in read_write
  mapFile,     \* the map on disk
  tmpFile,     \* the temporary file of save_map
  saved,       \* history: a map has been in place
  stranded,    \* history: the last rename failed and left no map in place
  saveOk,      \* history: what the last save_map returned
  cancelled,   \* what cancelled() answers
  full,        \* the destination has refused data: full, or a write error
  status,      \* Result.status
  pc

imageVars == <<sectors, image, buffer>>
mapVars == <<mapFile, tmpFile, saved, stranded, saveOk>>
inputVars == <<medium, shortTail, cancelled, full>>
vars == <<inputVars, imageVars, pos, work, tries, mapVars, status, pc>>

Blank == [s \in Sectors |-> "Unknown"]
NoFile == [is |-> "none", map |-> Blank]
Truncated == [is |-> "truncated", map |-> Blank]
Whole(m) == [is |-> "whole", map |-> m]

Init ==
  /\ medium \in [Sectors -> {"good", "flaky", "bad"}]
  /\ shortTail \in BOOLEAN
  /\ sectors = Blank /\ image = {} /\ buffer = {}
  /\ pos = 0 /\ work = <<>> /\ tries = 0
  /\ mapFile = NoFile /\ tmpFile = NoFile
  /\ saved = FALSE /\ stranded = FALSE /\ saveOk = FALSE
  /\ cancelled = FALSE /\ full = FALSE
  /\ status = "invalid" /\ pc = "open"

Go(from, to) == pc = from /\ pc' = to

-----------------------------------------------------------------------------
(* Reading and writing *)

Extent(r) == r[1]..r[1] + r[2] - 1

\* File::read_at refuses what reaches past the end of the source, so a last
\* sector that is not full cannot be read.
Refused(s) == shortTail /\ s = SectorCount - 1

MayRead(S) == \A s \in S : medium[s] # "bad" /\ ~Refused(s)
MustRead(S) == \A s \in S : medium[s] = "good" /\ ~Refused(s)

\* seekp writes out what the stream holds; the write that follows may stay in
\* the stream.  A stream that has failed ignores both, and nobody looks.
WriteData(S) ==
  IF full THEN UNCHANGED <<image, buffer>>
  ELSE \/ image' = image \cup buffer \cup S /\ buffer' = {}
       \/ image' = image \cup buffer /\ buffer' = S

\* The fill is what the image file was made of.
WriteFill == IF full THEN UNCHANGED <<image, buffer>> ELSE image' = image \cup buffer /\ buffer' = {}

Mark(S, state) == sectors' = [s \in Sectors |-> IF s \in S THEN state ELSE sectors[s]]

-----------------------------------------------------------------------------
(* image() *)

\* The image is created and extended to its size.
Open ==
  /\ \/ Go("open", "loop") /\ UNCHANGED status
     \/ Go("open", "done") /\ status' = "destination_error"
  /\ UNCHANGED <<inputVars, imageVars, pos, work, tries, mapVars>>

NextBlock ==
  /\ Go("loop", "read")
  /\ pos < SectorCount /\ ~cancelled
  /\ LET n == IF BlockSectors < SectorCount - pos THEN BlockSectors ELSE SectorCount - pos
     IN work' = << <<pos, n>> >> /\ pos' = pos + n
  /\ UNCHANGED <<inputVars, imageVars, tries, mapVars, status>>

\* The loop ends, at the end of the medium or because cancelled() says so; the
\* map is saved once more.
LoopEnds ==
  /\ Go("loop", "tmp")
  /\ \/ pos < SectorCount /\ cancelled /\ status' = "cancelled"
     \/ pos = SectorCount /\ status' = "complete"
  /\ UNCHANGED <<inputVars, imageVars, pos, work, tries, mapVars>>

BlockEnds ==
  /\ Go("read", "tmp")
  /\ work = <<>>
  /\ UNCHANGED <<inputVars, imageVars, pos, work, tries, mapVars, status>>

-----------------------------------------------------------------------------
(* read_write(): the ranges of work are its pending recursive calls *)

Reading == pc = "read" /\ work # <<>>

ReadRange ==
  /\ Reading /\ MayRead(Extent(Head(work)))
  /\ Mark(Extent(Head(work)), "Good")
  /\ WriteData(Extent(Head(work)))
  /\ work' = Tail(work)
  /\ UNCHANGED <<inputVars, pos, tries, mapVars, status, pc>>

\* Mutant: the second half is as long as the first.
HalvesEqual(r) ==
  LET a == r[2] \div 2 IN << <<r[1], a>>, <<r[1] + a, a>> >>

Halves(r) ==
  LET a == r[2] \div 2 IN << <<r[1], a>>, <<r[1] + a, r[2] - a>> >>

SplitRange ==
  /\ Reading /\ ~MustRead(Extent(Head(work)))
  /\ Head(work)[2] > 1
  /\ work' = Halves(Head(work)) \o Tail(work)
  /\ UNCHANGED <<inputVars, imageVars, pos, tries, mapVars, status, pc>>

ReadFails ==
  /\ Reading /\ ~MustRead(Extent(Head(work)))
  /\ Head(work)[2] = 1
  /\ pc' = "retry" /\ tries' = 0
  /\ UNCHANGED <<inputVars, imageVars, pos, work, mapVars, status>>

RetryReads ==
  /\ Go("retry", "read")
  /\ tries < Retries /\ MayRead(Extent(Head(work)))
  /\ Mark(Extent(Head(work)), "Good")
  /\ WriteData(Extent(Head(work)))
  /\ work' = Tail(work)
  /\ UNCHANGED <<inputVars, pos, tries, mapVars, status>>

RetryFails ==
  /\ pc = "retry"
  /\ tries < Retries /\ ~MustRead(Extent(Head(work)))
  /\ tries' = tries + 1
  /\ UNCHANGED <<inputVars, imageVars, pos, work, mapVars, status, pc>>

\* Mutant: a sector that was given up keeps the state of a read one.
GiveUpAsGood ==
  /\ Go("retry", "read")
  /\ tries = Retries
  /\ Mark(Extent(Head(work)), "Good")
  /\ WriteFill
  /\ work' = Tail(work)
  /\ UNCHANGED <<inputVars, pos, tries, mapVars, status>>

GiveUp ==
  /\ Go("retry", "read")
  /\ tries = Retries
  /\ Mark(Extent(Head(work)), "Failed")
  /\ WriteFill
  /\ work' = Tail(work)
  /\ UNCHANGED <<inputVars, pos, tries, mapVars, status>>

-----------------------------------------------------------------------------
(* save_map(); nobody looks at what it returns *)

Finished == status # "invalid"
AfterSave == IF Finished THEN "return" ELSE "loop"

\* Mutant: the old map goes first, and the file is renamed unclosed.
WriteTmpInPlace ==
  /\ Go("tmp", "remove")
  /\ mapFile' = NoFile
  /\ tmpFile' = Truncated
  /\ UNCHANGED <<inputVars, imageVars, pos, work, tries, saved, stranded, saveOk, status>>

\* The temporary file is written and closed.  A full disk may show only when
\* the file is closed, which nobody checks.
WriteTmp ==
  /\ Go("tmp", "remove")
  /\ tmpFile' = IF full THEN Truncated ELSE Whole(sectors)
  /\ UNCHANGED <<inputVars, imageVars, pos, work, tries, mapFile, saved, stranded, saveOk, status>>

\* The file cannot be opened, or an error shows before it is closed, on a full
\* disk or on any other: save_map returns.
WriteTmpFails ==
  /\ Go("tmp", AfterSave)
  /\ tmpFile' \in {tmpFile, Truncated}
  /\ saveOk' = FALSE
  /\ UNCHANGED <<inputVars, imageVars, pos, work, tries, mapFile, saved, stranded, status>>

\* Whether there was a map, and whether it could be removed, is not asked.
RemoveMap ==
  /\ Go("remove", "rename")
  /\ mapFile' \in {mapFile, NoFile}
  /\ UNCHANGED <<inputVars, imageVars, pos, work, tries, tmpFile, saved, stranded, saveOk, status>>

\* The rename replaces a map that could not be removed, or fails because of
\* it, or for any other reason.
RenameTmp ==
  /\ Go("rename", AfterSave)
  /\ \/ /\ mapFile' = tmpFile /\ tmpFile' = NoFile
        /\ saved' = TRUE /\ stranded' = FALSE /\ saveOk' = TRUE
     \/ /\ stranded' = (mapFile.is # "whole") /\ saveOk' = FALSE
        /\ UNCHANGED <<mapFile, tmpFile, saved>>
  /\ UNCHANGED <<inputVars, imageVars, pos, work, tries, status>>

\* image() returns and its stream is closed.
Return ==
  /\ Go("return", "done")
  /\ WriteFill
  /\ UNCHANGED <<inputVars, sectors, pos, work, tries, mapVars, status>>

-----------------------------------------------------------------------------
(* The environment *)

Running == pc \notin {"done", "crashed"}

Cancel ==
  /\ Running /\ ~cancelled
  /\ cancelled' = TRUE
  /\ UNCHANGED <<medium, shortTail, full, imageVars, pos, work, tries, mapVars, status, pc>>

DiskFills ==
  /\ Running /\ ~full
  /\ full' = TRUE
  /\ UNCHANGED <<medium, shortTail, cancelled, imageVars, pos, work, tries, mapVars, status, pc>>

\* The process ends; buffer keeps what the stream has lost, and a temporary
\* file may be incomplete.
Crash ==
  /\ Running
  /\ pc' = "crashed"
  /\ tmpFile' \in IF pc = "tmp" THEN {tmpFile, Truncated} ELSE {tmpFile}
  /\ UNCHANGED <<inputVars, imageVars, pos, work, tries, mapFile, saved, stranded, saveOk, status>>

-----------------------------------------------------------------------------

Next ==
  \/ Open \/ NextBlock \/ LoopEnds \/ BlockEnds
  \/ ReadRange \/ SplitRange \/ ReadFails \/ RetryReads \/ RetryFails \/ GiveUp
  \/ WriteTmp \/ WriteTmpFails \/ RemoveMap \/ RenameTmp \/ Return
  \/ Cancel \/ DiskFills \/ Crash

Spec == Init /\ [][Next]_vars

-----------------------------------------------------------------------------
(* Properties *)

\* Every variable has its type.
TypeOK ==
  /\ medium \in [Sectors -> {"good", "flaky", "bad"}] /\ shortTail \in BOOLEAN
  /\ sectors \in [Sectors -> {"Unknown", "Good", "Failed"}]
  /\ image \subseteq Sectors /\ buffer \subseteq Sectors
  /\ pos \in 0..SectorCount /\ tries \in 0..Retries
  /\ work \in Seq(Sectors \X (1..SectorCount))
  /\ {mapFile, tmpFile} \subseteq
       [is : {"none", "truncated", "whole"}, map : [Sectors -> {"Unknown", "Good", "Failed"}]]
  /\ saved \in BOOLEAN /\ stranded \in BOOLEAN /\ saveOk \in BOOLEAN
  /\ cancelled \in BOOLEAN /\ full \in BOOLEAN
  /\ status \in {"invalid", "destination_error", "cancelled", "complete"}
  /\ pc \in {"open", "loop", "read", "retry", "tmp", "remove", "rename", "return", "done",
             "crashed"}

\* From the first map on a crash at any instant leaves a whole map, in its
\* place or as the temporary file, although creating, writing and removing
\* may fail; unless the disk is full, or the last rename has failed and the
\* temporary file is the only copy, which the next save truncates.
KnownGoodMap ==
  saved /\ ~full /\ ~stranded => mapFile.is = "whole" \/ tmpFile.is = "whole"

\* The map on disk is ahead of the image on disk by at most the last write,
\* which a crash may take away before the stream has passed it on.
MapLeadsByOneWrite ==
  mapFile.is = "whole" /\ ~full =>
    \A s \in Sectors : mapFile.map[s] = "Good" => s \in image \cup buffer

\* "failed reads never become fabricated source data" (docs/SECURITY.md): when
\* image() has returned, every sector up to where it came has been decided,
\* the map it returns marks as good exactly the sectors whose data are in the
\* image, and no readable sector is missing.  That map is on disk if the last
\* save_map succeeded, which image() does not look at; if not, what map there
\* is on disk calls no sector good whose data are not in the image.
ReturnedMapIsTrue ==
  pc = "done" /\ status # "destination_error" /\ ~full =>
    /\ saveOk => mapFile = Whole(sectors)
    /\ mapFile.is = "whole" => \A s \in Sectors : mapFile.map[s] = "Good" => s \in image
    /\ \A s \in Sectors :
         /\ sectors[s] = "Unknown" <=> s >= pos
         /\ sectors[s] = "Good" <=> s \in image
         /\ s < pos /\ MustRead({s}) => sectors[s] = "Good"

\* "Do not remove the last known-good map until the replacement is fully
\* written", taken at its word: when the map has been removed, the temporary
\* file is whole.
RemovedWhenWritten ==
  pc = "rename" /\ saved /\ mapFile.is # "whole" => tmpFile.is = "whole"

\* "map updates are atomic via temporary file + rename" (docs/SECURITY.md): if
\* the destination takes what it is given, there is a whole map from the first
\* one on, even when the temporary file counts as one.
LastMapKept == saved /\ ~full => mapFile.is = "whole" \/ tmpFile.is = "whole"
=============================================================================
