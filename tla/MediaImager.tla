---------------------------- MODULE MediaImager ----------------------------
(***************************************************************************)
(* The imaging of a damaged medium: DirectDamagedMediaImager.image_source  *)
(* (recovery_adapter.py), which copies the readable sectors and records    *)
(* every sector in a GNU ddrescue mapfile, and DdrescueMapfile             *)
(* (damaged_media.py), whose merge puts the mapfiles of several passes     *)
(* over one medium together.                                               *)
(*                                                                         *)
(* The medium is a row of sectors.  The sizes of the code's blocks are in  *)
(* bytes; here they are in sectors, which divide the chunk and the medium. *)
(* A mapfile is its blocks.  Of its header the status that merge gives it  *)
(* is modelled (MergedStatus); the position and the number of the pass are *)
(* not: merge takes the larger of the two.                                 *)
(***************************************************************************)
EXTENDS Naturals, SequencesExt

CONSTANTS
  Size,        \* sectors of the medium
  Chunk,       \* sectors of a chunk
  External,    \* the statuses that mapfiles of other tools use
  MaxMaps      \* bound: mapfiles

ASSUME SizeAssumption == Size \in Nat /\ Chunk \in Nat \ {0} /\ MaxMaps \in Nat

\* MapBlockStatus.
NonTried == "?"
NonTrimmed == "*"
NonScraped == "/"
BadSector == "-"
Finished == "+"
Status == {NonTried, NonTrimmed, NonScraped, BadSector, Finished}

ASSUME ExternalAssumption == External \subseteq Status

VARIABLES
  bad,     \* bad_sector_ranges of the call
  cur,     \* cur_offset
  sec,     \* the sector of the chunk, in the fallback
  image,   \* the output image: "data" or "zero" for every sector written
  blocks,  \* map_blocks
  maps,    \* the mapfiles that were written or parsed so far
  pc

call == <<bad, cur, sec, image, blocks>>
vars == <<call, maps, pc>>

-----------------------------------------------------------------------------
(* Mapfiles *)

Block(p, n, st) == [pos |-> p, size |-> n, status |-> st]
End(b) == b.pos + b.size

\* total_size of a mapfile.
TotalSize(bs) == IF bs = <<>> THEN 0 ELSE Max({End(bs[k]) : k \in DOMAIN bs})

\* Mutant: adjacent blocks with the same status are not put together.
AppendOnly(bs, b) == Append(bs, b)

\* A block is added; the last one grows if it is adjacent and of one status.
Coalesced(bs, b) ==
  IF bs # <<>> /\ Last(bs).status = b.status /\ End(Last(bs)) = b.pos
  THEN [bs EXCEPT ![Len(bs)].size = @ + b.size]
  ELSE Append(bs, b)

\* get_status: the first block that holds the offset.
StatusAt(bs, off) ==
  LET holding == {k \in DOMAIN bs : bs[k].pos <= off /\ off < End(bs[k])}
  IN IF holding = {} THEN NonTried ELSE bs[Min(holding)].status

Priority(st) ==
  CASE st = NonTried -> 1 [] st = NonTrimmed -> 2 [] st = NonScraped -> 3
    [] st = BadSector -> 4 [] st = Finished -> 5

\* Mutant: the second mapfile is looked at for rescued sectors only.
WinnerIfFinished(a, b) == IF b = Finished THEN b ELSE a

Winner(a, b) == IF Priority(a) >= Priority(b) THEN a ELSE b

Boundaries(bs) == {bs[k].pos : k \in DOMAIN bs} \cup {End(bs[k]) : k \in DOMAIN bs}

\* Mutant: the boundaries of the second mapfile are left out.
PointsOfFirst(a, b) == {0, Max({TotalSize(a), TotalSize(b)})} \cup Boundaries(a)

\* The split points of two mapfiles.
Points(a, b) == {0, Max({TotalSize(a), TotalSize(b)})} \cup Boundaries(a) \cup Boundaries(b)

\* The split point before q.
Before(ps, q) == Max({p \in ps : p < q})

\* The blocks of what merge makes of two mapfiles: each split point closes the span
\* from the one before it, and a span has one status.  There is none between
\* two mapfiles without blocks.
Merge(a, b) ==
  LET ps == Points(a, b)
      span(p, q) == Block(p, q - p, Winner(StatusAt(a, p), StatusAt(b, p)))
      upTo[q \in ps] ==
        IF q = 0 THEN <<>> ELSE Coalesced(upTo[Before(ps, q)], span(Before(ps, q), q))
  IN upTo[Max(ps)]

\* Mutant: a mapfile counts as complete when every sector was tried.
CompleteIfTried(bs) == \A k \in DOMAIN bs : bs[k].status # NonTried

\* is_complete, which a mapfile without blocks is too.
Complete(bs) == \A k \in DOMAIN bs : bs[k].status \notin {NonTried, NonTrimmed, NonScraped}

\* current_status of what merge makes of two mapfiles: the blocks it has made
\* are not looked at, only those it was given.
MergedStatus(a, b) ==
  IF Max({TotalSize(a), TotalSize(b)}) > 0 /\ (Complete(a) \/ Complete(b))
  THEN Finished ELSE NonTried

\* validate_integrity finds no issue.
Valid(bs) ==
  \A k \in DOMAIN bs :
    /\ bs[k].size > 0
    /\ IF k = 1 THEN bs[k].pos >= 0 ELSE bs[k].pos = End(bs[k - 1])

-----------------------------------------------------------------------------
(* image_source *)

Min2(a, b) == IF a <= b THEN a ELSE b

\* Mutant: the last chunk is not cut off at the end of the medium.
FullChunk == Chunk

\* The sectors of the present chunk.
BlockLen == Min2(Chunk, Size - cur)
InChunk == cur..(cur + BlockLen - 1)

\* The output and the mapfile of an earlier call are forgotten: the image is
\* opened for writing from its start.
Begin(b) ==
  /\ pc \in {"idle", "raised"}
  /\ Len(maps) < MaxMaps
  /\ bad' = b /\ cur' = 0 /\ sec' = 0
  /\ image' = <<>> /\ blocks' = <<>>
  /\ pc' = "chunk"
  /\ maps' = maps

\* A chunk without bad sectors is copied in one piece.
CopyChunk ==
  /\ pc = "chunk" /\ cur < Size
  /\ InChunk \cap bad = {}
  /\ image' = image \o [i \in 1..BlockLen |-> "data"]
  /\ blocks' = Coalesced(blocks, Block(cur, BlockLen, Finished))
  /\ cur' = cur + BlockLen
  /\ UNCHANGED <<bad, sec, maps, pc>>

\* Any other is copied sector by sector.
EnterChunk ==
  /\ pc = "chunk" /\ cur < Size
  /\ InChunk \cap bad # {}
  /\ sec' = 0
  /\ pc' = "sector"
  /\ UNCHANGED <<bad, cur, image, blocks, maps>>

CopySector ==
  /\ pc = "sector" /\ sec < BlockLen
  /\ cur + sec \notin bad
  /\ image' = Append(image, "data")
  /\ blocks' = Coalesced(blocks, Block(cur + sec, 1, Finished))
  /\ sec' = sec + 1
  /\ UNCHANGED <<bad, cur, maps, pc>>

\* Mutant: nothing is written to the image for a bad sector.
SkipSectorWithoutZeros ==
  /\ pc = "sector" /\ sec < BlockLen
  /\ cur + sec \in bad
  /\ image' = image
  /\ IF blocks # <<>> /\ Last(blocks).status = BadSector
     THEN pc' = "raised" /\ UNCHANGED <<blocks, sec>>
     ELSE /\ blocks' = Append(blocks, Block(cur + sec, 1, BadSector))
          /\ sec' = sec + 1
          /\ pc' = pc
  /\ UNCHANGED <<bad, cur, maps>>

\* A bad sector is zeroed in the image.  To make the block of the bad sector
\* before it grow, the code takes the len of an integer, and raises.
SkipSector ==
  /\ pc = "sector" /\ sec < BlockLen
  /\ cur + sec \in bad
  /\ image' = Append(image, "zero")
  /\ IF blocks # <<>> /\ Last(blocks).status = BadSector
     THEN pc' = "raised" /\ UNCHANGED <<blocks, sec>>
     ELSE /\ blocks' = Append(blocks, Block(cur + sec, 1, BadSector))
          /\ sec' = sec + 1
          /\ pc' = pc
  /\ UNCHANGED <<bad, cur, maps>>

EndChunk ==
  /\ pc = "sector" /\ sec = BlockLen
  /\ cur' = cur + BlockLen
  /\ sec' = 0
  /\ pc' = "chunk"
  /\ UNCHANGED <<bad, image, blocks, maps>>

\* The medium is done, or cancel_check is true: the mapfile is written, and
\* its current_status is FINISHED in both cases.
Seal ==
  /\ pc = "chunk"
  /\ maps' = Append(maps, blocks)
  /\ pc' = "idle"
  /\ UNCHANGED call

\* The mapfile of another tool, or of create_initial: the first n sectors in
\* pieces, each with a status.
Piece(f, n) == [i \in 1..n |-> Block(i - 1, 1, f[i])]
Load(f, n) ==
  /\ pc \in {"idle", "raised"}
  /\ Len(maps) < MaxMaps
  /\ maps' = Append(maps, Piece(f, n))
  /\ UNCHANGED <<call, pc>>

-----------------------------------------------------------------------------

Init ==
  /\ bad = {} /\ cur = 0 /\ sec = 0
  /\ image = <<>> /\ blocks = <<>>
  /\ maps = <<>>
  /\ pc = "idle"

Next ==
  \/ \E b \in SUBSET (0..(Size - 1)) : Begin(b)
  \/ CopyChunk \/ EnterChunk \/ CopySector \/ SkipSector \/ EndChunk \/ Seal
  \/ \E n \in 0..Size : \E f \in [1..n -> External] : Load(f, n)

Spec == Init /\ [][Next]_vars
-----------------------------------------------------------------------------
(* Properties *)

\* Every variable has its type.
TypeOK ==
  /\ bad \subseteq 0..(Size - 1)
  /\ cur \in 0..Size
  /\ sec \in 0..Chunk
  /\ image \in Seq({"data", "zero"})
  /\ \A bs \in {blocks} \cup {maps[k] : k \in DOMAIN maps} :
       bs \in Seq([pos : 0..Size, size : 1..Size, status : Status])
  /\ Len(maps) <= MaxMaps
  /\ pc \in {"idle", "chunk", "sector", "raised"}

\* Whenever the imager is between two sectors, the image is as long as the
\* map says, readable sectors are in it at their own offset and recorded as
\* finished, bad ones are zeroed and recorded as bad, and the map is valid:
\* the map never claims a sector the image does not have.
MapTellsImage ==
  pc \in {"chunk", "sector"} =>
    /\ Valid(blocks)
    /\ TotalSize(blocks) = Len(image) /\ Len(image) = cur + sec
    /\ \A i \in 0..(Len(image) - 1) :
         /\ image[i + 1] = IF i \in bad THEN "zero" ELSE "data"
         /\ StatusAt(blocks, i) = IF i \in bad THEN BadSector ELSE Finished

\* merge gives every sector the better of its two statuses, wherever the
\* blocks of the two mapfiles begin and end, and one of them may be shorter.
MergePointwise ==
  \A k \in DOMAIN maps : \A j \in 1..k :
    LET m == Merge(maps[j], maps[k])
    IN \A i \in 0..Size :
         StatusAt(m, i) = Winner(StatusAt(maps[j], i), StatusAt(maps[k], i))

\* What merge returns is valid and as long as the longer one, and no two
\* adjacent blocks have one status.
MergeCanonical ==
  \A k \in DOMAIN maps : \A j \in 1..k :
    LET m == Merge(maps[j], maps[k])
    IN /\ Valid(m)
       /\ TotalSize(m) = Max({TotalSize(maps[j]), TotalSize(maps[k])})
       /\ \A i \in 1..(Len(m) - 1) : m[i].status # m[i + 1].status

\* The order in which three passes are merged makes no difference to the
\* blocks, and to the header's status the order of two makes none.  That of
\* three does: it depends on which of them merge has looked at.
BlocksOrderFree ==
  \A l \in DOMAIN maps : \A k \in 1..(l - 1) :
    /\ Merge(maps[k], maps[l]) = Merge(maps[l], maps[k])
    /\ MergedStatus(maps[k], maps[l]) = MergedStatus(maps[l], maps[k])
    /\ \A j \in 1..(k - 1) :
         Merge(Merge(maps[j], maps[k]), maps[l]) = Merge(maps[j], Merge(maps[k], maps[l]))

\* When two mapfiles of one length are merged and the header says FINISHED,
\* every sector was rescued or given up, although neither the header of a
\* pass nor the blocks of the result were looked at.  Of mapfiles of two
\* lengths this is not so: the shorter one may be complete.
HeaderTruthful ==
  \A k \in DOMAIN maps : \A j \in 1..k :
    /\ TotalSize(maps[j]) = TotalSize(maps[k])
    /\ MergedStatus(maps[j], maps[k]) = Finished
    => \A i \in 0..(TotalSize(maps[k]) - 1) :
         StatusAt(Merge(maps[j], maps[k]), i) \in {BadSector, Finished}

\* "handles bad sector skipping, retry passes, and persistent resume": no
\* pattern of bad sectors stops the imager.
NeverStopped == pc # "raised"
=============================================================================
