--------------------------- MODULE FileSanitizer ---------------------------
(***************************************************************************)
(* The wiping of a directory tree: FileSanitizer.wipe_directory_tree and   *)
(* the wipe_file it calls for every file (file_sanitizer.py).  The engine  *)
(* runs in the worker of a sanitization job and shares one thing with the  *)
(* rest of the program, the cancellation token, which an endpoint may set  *)
(* between any two of its steps.                                           *)
(*                                                                         *)
(* A file is a sequence of 64 KB chunks; a chunk is known by the number of *)
(* the pass that wrote it last, 0 for the original data and for what a     *)
(* tool that failed has left.                                              *)
(***************************************************************************)
EXTENDS Naturals, Functions

CONSTANTS
  Files,        \* the files of the tree
  NoFile,       \* no file is being wiped
  MaxChunks,    \* bound: chunks of a file
  Passes,       \* passes of the standard
  ToolPasses,   \* the passes an external tool is said to make; 0: no tool
  IOFaults      \* may files be locked, and may the system calls fail?

ASSUME FilesAssumption == NoFile \notin Files
ASSUME PassesAssumption ==
  /\ MaxChunks \in Nat
  /\ Passes \in Nat \ {0}
  /\ ToolPasses \in Nat
ASSUME FaultsAssumption == IOFaults \in BOOLEAN

VARIABLES
  unlink,   \* unlink_after, an argument of the call
  size,     \* chunks of each file
  disk,     \* the pass that wrote each chunk
  name,     \* "original", "random" or "gone": the directory entry of a file
  result,   \* the status of the FileWipeResult of a file, or "NONE"
  todo,     \* files not visited yet
  file,     \* the file being wiped
  pass,     \* the pass it is at
  left,     \* bytes_remaining of that pass
  written,  \* total_bytes_written of that file
  base,     \* cumulative_bytes of the tree
  shown,    \* the bytes last reported to progress_callback
  token,    \* cancel_token
  late,     \* history: the writes that ended since the token was set: a
            \* chunk of the engine, or the run of a tool on a file
  pc        \* where the engine is

onFile == <<file, pass, left, written>>
tree == <<unlink, size>>
vars == <<tree, disk, name, result, todo, onFile, base, shown, token, late, pc>>

Statuses == {"NONE", "SUCCESS", "PARTIAL", "FAILED", "SKIPPED_LOCKED"}

\* total_aggregate_bytes
TotalWork == FoldFunction(+, 0, size) * Passes

-----------------------------------------------------------------------------

\* An endpoint sets the token; it is never cleared.
Cancel ==
  /\ ~token
  /\ token' = TRUE
  /\ UNCHANGED <<tree, disk, name, result, todo, onFile, base, shown, late, pc>>

\* The loop over the files stops early when the token is set.
NextFile(f) ==
  /\ pc = "walk" /\ ~token
  /\ f \in todo
  /\ todo' = todo \ {f}
  /\ file' = f /\ pass' = 0 /\ left' = 0 /\ written' = 0
  /\ pc' = IF ToolPasses > 0 THEN "tool" ELSE "open"
  /\ UNCHANGED <<tree, disk, name, result, base, shown, token, late>>

EndWalk ==
  /\ pc = "walk"
  /\ token \/ todo = {}
  /\ pc' = "remove"
  /\ UNCHANGED <<tree, disk, name, result, todo, onFile, base, shown, token, late>>

\* Mutant: only what a successful wipe wrote is accumulated.
FinishCountingSuccess(status, bytes) ==
  /\ result' = [result EXCEPT ![file] = status]
  /\ base' = base + (IF status = "SUCCESS" THEN bytes ELSE 0)
  /\ file' = NoFile /\ pass' = 0 /\ left' = 0 /\ written' = 0
  /\ pc' = "walk"

\* wipe_file returns, and the tree accumulates what it wrote.
Finish(status, bytes) ==
  /\ result' = [result EXCEPT ![file] = status]
  /\ base' = base + bytes
  /\ file' = NoFile /\ pass' = 0 /\ left' = 0 /\ written' = 0
  /\ pc' = "walk"

CountLate == late' = IF token THEN late + 1 ELSE late

\* BleachBit or Eraser overwrites and deletes the file, and is believed.  It
\* is waited for, and knows nothing of the token.
ToolWipes ==
  /\ pc = "tool"
  /\ disk' = [disk EXCEPT ![file] = [i \in DOMAIN @ |-> Passes]]
  /\ name' = [name EXCEPT ![file] = "gone"]
  /\ Finish("SUCCESS", size[file] * ToolPasses)
  /\ CountLate
  /\ UNCHANGED <<tree, todo, shown, token>>

\* It exits with an error, and may have written to the file: the engine goes
\* on, unless the file is no longer there to be opened.
ToolFails ==
  /\ pc = "tool"
  /\ CountLate
  /\ \/ pc' = "open" /\ UNCHANGED <<name, result, base, onFile, shown>>
     \/ name' = [name EXCEPT ![file] = "gone"] /\ shown' = base /\ Finish("FAILED", 0)
  /\ UNCHANGED <<tree, disk, todo, token>>

\* PREPARING is reported and the file opened.
Open ==
  /\ pc = "open"
  /\ shown' = base
  /\ \/ /\ pass' = 1
        /\ left' = size[file]
        /\ pc' = "chunk"
        /\ UNCHANGED <<result, base, file, written>>
     \/ IOFaults /\ \E status \in {"SKIPPED_LOCKED", "FAILED"} : Finish(status, 0)
  /\ UNCHANGED <<tree, disk, name, todo, token, late>>

\* Mutant: the token is looked at once per pass.
CheckTokenPerPass ==
  /\ pc = "chunk" /\ left > 0
  /\ IF token /\ left = size[file]
     THEN Finish("PARTIAL", written)
     ELSE pc' = "write" /\ UNCHANGED <<result, base, onFile>>
  /\ UNCHANGED <<tree, disk, name, todo, shown, token, late>>

\* The token is looked at before every chunk.
CheckToken ==
  /\ pc = "chunk" /\ left > 0
  /\ IF token
     THEN Finish("PARTIAL", written)
     ELSE pc' = "write" /\ UNCHANGED <<result, base, onFile>>
  /\ UNCHANGED <<tree, disk, name, todo, shown, token, late>>

\* A chunk is written, and the progress reported.
WriteChunk ==
  /\ pc = "write"
  /\ disk' = [disk EXCEPT ![file][size[file] - left + 1] = pass]
  /\ left' = left - 1
  /\ written' = written + 1
  /\ shown' = base + written'
  /\ CountLate
  /\ pc' = "chunk"
  /\ UNCHANGED <<tree, name, result, todo, file, pass, base, token>>

\* A write fails, or the flush at the end of a pass or after a cancellation,
\* or the read-back.
WriteFails ==
  /\ IOFaults
  /\ pc = "write" \/ (pc = "chunk" /\ (left = 0 \/ token))
  /\ \E status \in {"SKIPPED_LOCKED", "FAILED"} : Finish(status, written)
  /\ UNCHANGED <<tree, disk, name, todo, shown, token, late>>

\* Mutant: a pass goes on where the last one stopped.
EndPassWithoutSeek ==
  /\ pc = "chunk" /\ left = 0
  /\ IF pass < Passes
     THEN pass' = pass + 1 /\ left' = 0 /\ pc' = pc
     ELSE pass' = pass /\ left' = left /\ pc' = "unlink"
  /\ UNCHANGED <<tree, disk, name, result, todo, file, written, base, shown, token, late>>

\* The next pass starts at the beginning.  After the last one a sample is
\* read back; whatever it shows, the result will be SUCCESS.
EndPass ==
  /\ pc = "chunk" /\ left = 0
  /\ IF pass < Passes
     THEN pass' = pass + 1 /\ left' = size[file] /\ pc' = pc
     ELSE pass' = pass /\ left' = left /\ pc' = "unlink"
  /\ UNCHANGED <<tree, disk, name, result, todo, file, written, base, shown, token, late>>

\* _scramble_file_metadata renames the file, if it can; wipe_file unlinks the
\* path it was given, and is content if there is no such file.
Unlink ==
  /\ pc = "unlink"
  /\ \/ ~unlink /\ name' = name /\ Finish("SUCCESS", written)
     \/ /\ unlink
        /\ name' = [name EXCEPT ![file] = "random"]
        /\ Finish("SUCCESS", written)
     \/ /\ unlink /\ IOFaults
        /\ \/ name' = [name EXCEPT ![file] = "gone"] /\ Finish("SUCCESS", written)
           \/ /\ name' = name
              /\ \E status \in {"SKIPPED_LOCKED", "FAILED"} : Finish(status, written)
  /\ UNCHANGED <<tree, disk, todo, shown, token, late>>

\* Mutant: the tree is removed after a cancellation too.
RemoveTreeAnyway ==
  /\ pc = "remove"
  /\ name' = IF unlink THEN [f \in Files |-> "gone"] ELSE name
  /\ pc' = "done"
  /\ UNCHANGED <<tree, disk, result, todo, onFile, base, shown, token, late>>

\* rmtree(ignore_errors=True): everything goes that can be deleted.
RemoveTree ==
  /\ pc = "remove"
  /\ IF unlink /\ ~token
     THEN \E kept \in SUBSET Files :
            /\ kept # {} => IOFaults
            /\ name' = [f \in Files |-> IF f \in kept THEN name[f] ELSE "gone"]
     ELSE name' = name
  /\ pc' = "done"
  /\ UNCHANGED <<tree, disk, result, todo, onFile, base, shown, token, late>>

-----------------------------------------------------------------------------

Init ==
  /\ unlink \in BOOLEAN
  /\ size \in [Files -> 0..MaxChunks]
  /\ disk = [f \in Files |-> [i \in 1..size[f] |-> 0]]
  /\ name = [f \in Files |-> "original"]
  /\ result = [f \in Files |-> "NONE"]
  /\ todo = Files
  /\ file = NoFile /\ pass = 0 /\ left = 0 /\ written = 0
  /\ base = 0
  /\ shown = 0
  /\ token = FALSE
  /\ late = 0
  /\ pc = "walk"

Next ==
  \/ Cancel
  \/ (\E f \in Files : NextFile(f)) \/ EndWalk
  \/ ToolWipes \/ ToolFails \/ Open \/ CheckToken \/ WriteChunk \/ WriteFails \/ EndPass \/ Unlink
  \/ RemoveTree

Spec == Init /\ [][Next]_vars
-----------------------------------------------------------------------------
(* Properties *)

\* Every variable has its type.
TypeOK ==
  /\ unlink \in BOOLEAN
  /\ size \in [Files -> 0..MaxChunks]
  /\ disk = [f \in Files |-> disk[f]]
  /\ \A f \in Files : disk[f] \in [1..size[f] -> 0..Passes]
  /\ name \in [Files -> {"original", "random", "gone"}]
  /\ result \in [Files -> Statuses]
  /\ todo \subseteq Files
  /\ file \in Files \cup {NoFile}
  /\ pass \in 0..Passes
  /\ left \in 0..MaxChunks
  /\ written \in Nat
  /\ base \in Nat
  /\ shown \in Nat
  /\ token \in BOOLEAN
  /\ late \in Nat
  /\ pc \in {"walk", "tool", "open", "chunk", "write", "unlink", "remove", "done"}

\* A file that is reported as wiped has been wiped: its last chunk as well as
\* its first carries the last pass, however many passes and chunks there are
\* and whenever the wipe of another file was cancelled or failed.
WipedIfReported ==
  \A f \in Files : result[f] = "SUCCESS" =>
    \A i \in 1..size[f] : disk[f][i] = Passes

\* Once the token is set at most one more write is made in all the files
\* together: the chunk that was under way, or the run of a tool on the one
\* file the walk had come to, which no token can stop.
CancelStopsWriting == late <= 1

\* A file the walk has not visited, or whose wipe was cancelled, is never
\* deleted.
CancelKeepsFiles ==
  \A f \in Files : name[f] = "gone" => result[f] \notin {"NONE", "PARTIAL"}

\* The progress of the tree never goes back, over files that fail, are locked
\* or are skipped too, and never exceeds the announced total.
ProgressMonotone == [][shown' >= shown /\ shown' <= TotalWork']_vars

\* "Scramble timestamps and rename to random characters before unlinking": a
\* file whose wipe succeeded is no longer in the directory.
UnlinkedIfReported ==
  unlink => \A f \in Files : result[f] = "SUCCESS" => name[f] = "gone"
=============================================================================
