------------------------ MODULE FileSanitizer_proofs ------------------------
(***************************************************************************)
(* What FileSanitizer guarantees for every set of files, every size, every *)
(* number of passes and every failure.                                     *)
(***************************************************************************)
EXTENDS FileSanitizer, FiniteSetTheorems, WellFoundedInduction, TLAPS

Busy == {"tool", "open", "chunk", "write", "unlink"}

\* A file that is being wiped has left the queue and has no result yet.
OnFile == pc \in Busy => file \in Files /\ file \notin todo /\ result[file] = "NONE"

\* Nothing was written to a file whose wipe has not opened it.
Untouched ==
  \A f \in Files : (f \in todo \/ (pc \in {"tool", "open"} /\ f = file)) =>
    /\ result[f] = "NONE"
    /\ \A i \in 1..size[f] : disk[f][i] = 0

\* During a pass the chunks up to the one that is next carry it, and the
\* others carry the pass before.
AtPass ==
  pc \in {"chunk", "write"} =>
    /\ pass \in 1..Passes
    /\ left \in 0..size[file]
    /\ pc = "write" => left > 0
    /\ \A i \in 1..size[file] :
         disk[file][i] = IF i <= size[file] - left THEN pass ELSE pass - 1

AfterPasses == pc = "unlink" => \A i \in 1..size[file] : disk[file][i] = Passes

\* After a write that a cancellation came too late for, the engine looks at
\* the token before it writes again, and comes to no other file.
LateInv ==
  /\ late <= 1
  /\ late > 0 => token /\ pc \notin {"tool", "write"}

WipeInv ==
  /\ TypeOK
  /\ OnFile
  /\ Untouched
  /\ AtPass
  /\ AfterPasses
  /\ WipedIfReported
  /\ LateInv

-----------------------------------------------------------------------------

LEMMA InitWipe ==
  ASSUME Init
  PROVE  WipeInv
  <1>1. TypeOK
    <2>1. disk = [f \in Files |-> disk[f]] /\ \A f \in Files : disk[f] \in [1..size[f] -> 0..Passes]
      BY PassesAssumption DEF Init
    <2>2. /\ name \in [Files -> {"original", "random", "gone"}]
          /\ result \in [Files -> Statuses]
      BY DEF Init, Statuses
    <2>3. size \in [Files -> 0..MaxChunks] /\ unlink \in BOOLEAN /\ todo \subseteq Files
      BY DEF Init
    <2>4. /\ file = NoFile /\ pass \in 0..Passes /\ left \in 0..MaxChunks
          /\ written \in Nat /\ base \in Nat /\ shown \in Nat /\ late \in Nat
          /\ token \in BOOLEAN /\ pc = "walk"
      <3>1. /\ file = NoFile /\ pass = 0 /\ left = 0 /\ written = 0 /\ base = 0
            /\ shown = 0 /\ late = 0 /\ token = FALSE /\ pc = "walk"
        BY DEF Init
      <3>2. 0 \in 0..Passes /\ 0 \in 0..MaxChunks
        BY PassesAssumption
      <3> QED BY <3>1, <3>2
    <2> QED BY <2>1, <2>2, <2>3, <2>4 DEF TypeOK
  <1>2. OnFile /\ AtPass /\ AfterPasses /\ LateInv
    BY DEF Init, OnFile, Busy, AtPass, AfterPasses, LateInv
  <1>3. Untouched
    BY DEF Init, Untouched
  <1>4. WipedIfReported
    BY DEF Init, WipedIfReported
  <1> QED BY <1>1, <1>2, <1>3, <1>4 DEF WipeInv

LEMMA CancelKeeps ==
  ASSUME WipeInv, Cancel
  PROVE  WipeInv'
  <1> USE DEF WipeInv
  <1>1. TypeOK'
    BY DEF Cancel, TypeOK, tree, onFile
  <1>2. OnFile' /\ Untouched' /\ AtPass' /\ AfterPasses' /\ WipedIfReported'
    BY DEF Cancel, tree, onFile, OnFile, Untouched, AtPass, AfterPasses, WipedIfReported
  <1>3. LateInv'
    BY DEF Cancel, LateInv
  <1> QED BY <1>1, <1>2, <1>3

LEMMA NextFileKeeps ==
  ASSUME WipeInv, NEW f \in Files, NextFile(f)
  PROVE  WipeInv'
  <1> USE DEF WipeInv
  <1>1. TypeOK'
    BY PassesAssumption DEF NextFile, TypeOK, tree
  <1>2. OnFile'
    BY DEF NextFile, OnFile, Untouched, Busy
  <1>3. Untouched'
    BY DEF NextFile, Untouched, tree
  <1>4. AtPass' /\ AfterPasses'
    BY DEF NextFile, AtPass, AfterPasses
  <1>5. WipedIfReported'
    BY DEF NextFile, WipedIfReported, tree
  <1>6. LateInv'
    BY DEF NextFile, LateInv
  <1> QED BY <1>1, <1>2, <1>3, <1>4, <1>5, <1>6

LEMMA EndWalkKeeps ==
  ASSUME WipeInv, EndWalk
  PROVE  WipeInv'
  <1> USE DEF WipeInv
  <1>1. TypeOK'
    BY DEF EndWalk, TypeOK, tree, onFile
  <1>2. OnFile' /\ Untouched' /\ AtPass' /\ AfterPasses'
    BY DEF EndWalk, tree, onFile, OnFile, Busy, Untouched, AtPass, AfterPasses
  <1>3. WipedIfReported' /\ LateInv'
    BY DEF EndWalk, tree, onFile, WipedIfReported, LateInv
  <1> QED BY <1>1, <1>2, <1>3

\* wipe_file returns without having written anything in this step: only its
\* status and, for a success, the state of the chunks have to be looked at.
LEMMA FinishKeeps ==
  ASSUME WipeInv, pc \in Busy,
         NEW status \in Statuses, NEW bytes \in Nat, Finish(status, bytes),
         disk' = disk, size' = size, unlink' = unlink, todo' = todo,
         token' = token, late' \in Nat, late' <= 1, late' > 0 => token,
         name' \in [Files -> {"original", "random", "gone"}], shown' \in Nat,
         status = "SUCCESS" => pc = "unlink"
  PROVE  WipeInv'
  <1> USE DEF WipeInv
  <1>1. file \in Files /\ file \notin todo
    BY DEF OnFile
  <1>2. TypeOK'
    <2>0. base \in Nat /\ result \in [Files -> Statuses]
      BY DEF TypeOK
    <2>1. result' \in [Files -> Statuses] /\ base' \in Nat
      <3>1. base' = base + bytes /\ result' = [result EXCEPT ![file] = status]
        BY DEF Finish
      <3> HIDE DEF WipeInv
      <3>2. base' \in Nat
        BY <2>0, <3>1
      <3>3. result' \in [Files -> Statuses]
        BY <2>0, <3>1
      <3> QED BY <3>2, <3>3
    <2>2. disk' = [f \in Files |-> disk'[f]] /\ \A f \in Files : disk'[f] \in [1..size'[f] -> 0..Passes]
      BY DEF TypeOK
    <2> QED BY <2>1, <2>2, PassesAssumption DEF Finish, TypeOK
  <1>3. OnFile' /\ AtPass' /\ AfterPasses'
    BY DEF Finish, OnFile, Busy, AtPass, AfterPasses
  <1>4. Untouched'
    BY <1>1 DEF Finish, Untouched, TypeOK
  <1>5. WipedIfReported'
    <2> SUFFICES ASSUME NEW f \in Files, result'[f] = "SUCCESS", NEW i \in 1..size[f]
                 PROVE  disk[f][i] = Passes
      BY DEF WipedIfReported
    <2>1. CASE f = file
      BY <2>1, <1>1 DEF Finish, TypeOK, AfterPasses
    <2>2. CASE f # file
      BY <2>2, <1>1 DEF Finish, TypeOK, WipedIfReported
    <2> QED BY <2>1, <2>2
  <1>6. LateInv'
    BY DEF Finish, LateInv
  <1> QED BY <1>2, <1>3, <1>4, <1>5, <1>6

\* A write is counted at most once.
LEMMA CountLateKeeps ==
  ASSUME WipeInv, pc \in {"tool", "write"}, CountLate
  PROVE  late' \in Nat /\ late' <= 1 /\ (late' > 0 => token)
  <1>1. late = 0
    BY DEF WipeInv, LateInv, TypeOK
  <1> QED BY <1>1 DEF CountLate

LEMMA ToolWipesKeeps ==
  ASSUME WipeInv, ToolWipes
  PROVE  WipeInv'
  <1> USE DEF WipeInv
  <1>1. file \in Files /\ file \notin todo
    BY DEF OnFile, ToolWipes, Busy
  <1>2. /\ disk'[file] = [i \in 1..size[file] |-> Passes]
        /\ \A f \in Files : f # file => disk'[f] = disk[f]
    <2>1. DOMAIN disk[file] = 1..size[file] /\ file \in DOMAIN disk
      BY <1>1 DEF TypeOK
    <2>2. disk' = [disk EXCEPT ![file] = [i \in DOMAIN disk[file] |-> Passes]]
      BY DEF ToolWipes
    <2>3. DOMAIN disk = Files
      BY DEF TypeOK
    <2> QED BY <2>1, <2>2, <2>3
  <1>3. size' = size /\ unlink' = unlink
    BY DEF ToolWipes, tree
  <1>4. TypeOK'
    <2>0. disk' = [f \in Files |-> disk'[f]]
      BY <1>1 DEF ToolWipes, TypeOK
    <2>1. ASSUME NEW f \in Files
          PROVE  disk'[f] \in [1..size[f] -> 0..Passes]
      <3>1. CASE f = file
        <4>1. Passes \in 0..Passes
          BY PassesAssumption
        <4> QED BY <3>1, <4>1, <1>2
      <3>2. CASE f # file
        BY <3>2, <1>2 DEF TypeOK
      <3> QED BY <3>1, <3>2
    <2>2. size[file] * ToolPasses \in Nat
      BY <1>1, PassesAssumption DEF TypeOK
    <2>3. base' \in Nat
      BY <2>2 DEF ToolWipes, Finish, TypeOK
    <2>4. result' \in [Files -> Statuses] /\ name' \in [Files -> {"original", "random", "gone"}]
      BY <1>1 DEF ToolWipes, Finish, TypeOK, Statuses
    <2>5. late' \in Nat
      BY CountLateKeeps DEF ToolWipes
    <2> QED BY <1>3, <2>0, <2>1, <2>3, <2>4, <2>5, PassesAssumption, SMTT(60) DEF ToolWipes, Finish, TypeOK
  <1>5. OnFile' /\ AtPass' /\ AfterPasses'
    BY DEF ToolWipes, Finish, OnFile, Busy, AtPass, AfterPasses
  <1>6. Untouched'
    BY <1>1, <1>2, <1>3 DEF ToolWipes, Finish, Untouched, TypeOK
  <1>7. WipedIfReported'
    BY <1>1, <1>2, <1>3 DEF ToolWipes, Finish, WipedIfReported, TypeOK
  <1>8. LateInv'
    BY CountLateKeeps DEF ToolWipes, Finish, LateInv
  <1> QED BY <1>4, <1>5, <1>6, <1>7, <1>8

\* The preconditions of FinishKeeps that the actions share.
LEMMA Unchanged ==
  ASSUME WipeInv
  PROVE  /\ name \in [Files -> {"original", "random", "gone"}]
         /\ shown \in Nat /\ base \in Nat /\ written \in Nat
         /\ 0 \in Nat
         /\ late \in Nat /\ late <= 1 /\ (late > 0 => token)
         /\ {"SUCCESS", "PARTIAL", "FAILED", "SKIPPED_LOCKED"} \subseteq Statuses
  BY DEF WipeInv, TypeOK, LateInv, Statuses

LEMMA ToolFailsKeeps ==
  ASSUME WipeInv, ToolFails
  PROVE  WipeInv'
  <1>1. /\ pc = "tool" /\ pc \in Busy
        /\ late' \in Nat /\ late' <= 1 /\ (late' > 0 => token)
        /\ UNCHANGED <<tree, disk, todo, token>>
    BY CountLateKeeps DEF ToolFails, Busy
  <1>2. CASE name' = [name EXCEPT ![file] = "gone"] /\ shown' = base /\ Finish("FAILED", 0)
    <2>1. name' \in [Files -> {"original", "random", "gone"}] /\ shown' \in Nat
      BY <1>2, Unchanged
    <2> QED BY <1>1, <1>2, <2>1, FinishKeeps, Unchanged DEF tree
  <1>3. CASE pc' = "open" /\ UNCHANGED <<name, result, base, onFile, shown>>
    <2> USE DEF WipeInv
    <2>1. TypeOK'
      BY <1>1, <1>3 DEF TypeOK, tree, onFile
    <2>2. OnFile' /\ Untouched'
      BY <1>1, <1>3 DEF tree, onFile, OnFile, Busy, Untouched
    <2>3. AtPass' /\ AfterPasses' /\ WipedIfReported' /\ LateInv'
      BY <1>1, <1>3 DEF tree, onFile, AtPass, AfterPasses, WipedIfReported, LateInv
    <2> QED BY <2>1, <2>2, <2>3
  <1> QED BY <1>2, <1>3 DEF ToolFails

LEMMA OpenKeeps ==
  ASSUME WipeInv, Open
  PROVE  WipeInv'
  <1>1. pc \in Busy
    BY DEF Open, Busy
  <1>2. CASE \E status \in {"SKIPPED_LOCKED", "FAILED"} : Finish(status, 0)
    <2>1. PICK status \in {"SKIPPED_LOCKED", "FAILED"} : Finish(status, 0)
      BY <1>2
    <2> QED BY <1>1, <2>1, FinishKeeps, Unchanged DEF Open, tree
  <1>3. CASE /\ pass' = 1
             /\ left' = size[file]
             /\ pc' = "chunk"
             /\ UNCHANGED <<result, base, file, written>>
    <2> USE DEF WipeInv
    <2>1. file \in Files /\ file \notin todo /\ result[file] = "NONE"
      BY <1>1 DEF OnFile
    <2>2. size[file] \in 0..MaxChunks /\ size[file] \in Nat
      BY <2>1, PassesAssumption DEF TypeOK
    <2>3. TypeOK'
      <3>1. pass' \in 0..Passes /\ left' \in 0..MaxChunks /\ shown' \in Nat
        BY <1>3, <2>2, PassesAssumption, Unchanged DEF Open
      <3>2. /\ disk' = disk /\ size' = size /\ unlink' = unlink /\ name' = name
            /\ result' = result /\ todo' = todo /\ file' = file /\ written' = written
            /\ base' = base /\ token' = token /\ late' = late /\ pc' = "chunk"
        BY <1>3 DEF Open, tree
      <3> QED BY <3>1, <3>2 DEF TypeOK
    <2>4. OnFile'
      BY <1>3, <2>1 DEF Open, OnFile
    <2>5. Untouched'
      BY <1>3 DEF Open, tree, Untouched
    <2>6. \A i \in 1..size[file] : disk[file][i] = 0
      BY <2>1 DEF Open, Untouched
    <2>7. AtPass'
      BY <1>3, <2>2, <2>6, PassesAssumption DEF Open, tree, AtPass
    <2>8. AfterPasses' /\ WipedIfReported' /\ LateInv'
      BY <1>3 DEF Open, tree, AfterPasses, WipedIfReported, LateInv
    <2> QED BY <2>3, <2>4, <2>5, <2>7, <2>8
  <1> QED BY <1>2, <1>3 DEF Open

LEMMA CheckTokenKeeps ==
  ASSUME WipeInv, CheckToken
  PROVE  WipeInv'
  <1>1. pc \in Busy
    BY DEF CheckToken, Busy
  <1>2. CASE token
    BY <1>1, <1>2, FinishKeeps, Unchanged DEF CheckToken, tree
  <1>3. CASE ~token
    <2> USE DEF WipeInv
    <2>1. pc = "chunk" /\ pc' = "write" /\ left > 0
          /\ UNCHANGED <<tree, disk, name, result, todo, onFile, base, shown, token, late>>
      BY <1>3 DEF CheckToken
    <2>2. TypeOK'
      BY <2>1 DEF TypeOK, tree, onFile
    <2>3. OnFile' /\ Untouched' /\ AfterPasses' /\ WipedIfReported'
      BY <2>1 DEF tree, onFile, OnFile, Busy, Untouched, AfterPasses, WipedIfReported
    <2>4. AtPass'
      BY <2>1 DEF tree, onFile, AtPass
    <2>5. LateInv'
      BY <1>3, <2>1 DEF LateInv, TypeOK
    <2> QED BY <2>2, <2>3, <2>4, <2>5
  <1> QED BY <1>2, <1>3

LEMMA WriteChunkKeeps ==
  ASSUME WipeInv, WriteChunk
  PROVE  WipeInv'
  <1> USE DEF WipeInv
  <1>1. file \in Files /\ file \notin todo /\ result[file] = "NONE"
    BY DEF OnFile, WriteChunk, Busy
  <1>2. /\ size[file] \in Nat /\ size[file] <= MaxChunks
        /\ left \in 1..size[file] /\ pass \in 1..Passes
    BY <1>1, PassesAssumption DEF TypeOK, AtPass, WriteChunk
  <1> DEFINE k == size[file] - left + 1
  <1>3. k \in 1..size[file]
    BY <1>2
  <1>4. /\ disk'[file] = [disk[file] EXCEPT ![k] = pass]
        /\ \A f \in Files : f # file => disk'[f] = disk[f]
        /\ disk' = [f \in Files |-> disk'[f]]
    <2>1. DOMAIN disk = Files
      BY DEF TypeOK
    <2>2. disk' = [disk EXCEPT ![file] = [disk[file] EXCEPT ![k] = pass]]
      BY DEF WriteChunk
    <2> HIDE DEF k
    <2> QED BY <1>1, <2>1, <2>2
  <1>5. disk[file] \in [1..size[file] -> 0..Passes]
    BY <1>1 DEF TypeOK
  <1>6. \A i \in 1..size[file] : disk'[file][i] = IF i = k THEN pass ELSE disk[file][i]
    <2> HIDE DEF k
    <2> QED BY <1>3, <1>4, <1>5
  <1>7. \A f \in Files : disk'[f] \in [1..size[f] -> 0..Passes]
    <2> HIDE DEF k
    <2>1. pass \in 0..Passes
      BY <1>2, PassesAssumption
    <2>2. disk'[file] \in [1..size[file] -> 0..Passes]
      BY <1>3, <1>4, <1>5, <2>1
    <2> QED BY <1>4, <2>2 DEF TypeOK
  <1>8. left' = left - 1 /\ left' \in 0..size[file] /\ left' \in 0..MaxChunks
    BY <1>2, PassesAssumption DEF WriteChunk
  <1>9. /\ size' = size /\ unlink' = unlink /\ name' = name /\ result' = result
        /\ todo' = todo /\ file' = file /\ pass' = pass /\ base' = base /\ token' = token
        /\ pc' = "chunk" /\ pc = "write"
    BY DEF WriteChunk, tree
  <1>10. TypeOK'
    <2>1. written' \in Nat /\ shown' \in Nat
      BY DEF WriteChunk, TypeOK
    <2>2. late' \in Nat
      BY CountLateKeeps DEF WriteChunk
    <2> HIDE DEF k
    <2> QED BY <1>4, <1>7, <1>8, <1>9, <2>1, <2>2 DEF TypeOK
  <1>11. OnFile'
    BY <1>1, <1>9 DEF OnFile
  <1>12. Untouched'
    BY <1>1, <1>4, <1>9 DEF Untouched
  <1>13. AtPass'
    <2> SUFFICES ASSUME NEW i \in 1..size[file]
                 PROVE  disk'[file][i] = IF i <= size[file] - left' THEN pass ELSE pass - 1
      BY <1>2, <1>8, <1>9 DEF AtPass
    <2>1. disk[file][i] = IF i <= size[file] - left THEN pass ELSE pass - 1
      BY <1>9 DEF AtPass
    <2>2. i <= size[file] - left' <=> (i <= size[file] - left \/ i = k)
      BY <1>2, <1>8
    <2> QED BY <1>6, <2>1, <2>2
  <1>14. AfterPasses'
    BY <1>9 DEF AfterPasses
  <1>15. WipedIfReported'
    BY <1>1, <1>4, <1>9 DEF WipedIfReported
  <1>16. LateInv'
    BY <1>9, CountLateKeeps DEF LateInv, WriteChunk
  <1> QED BY <1>10, <1>11, <1>12, <1>13, <1>14, <1>15, <1>16

LEMMA WriteFailsKeeps ==
  ASSUME WipeInv, WriteFails
  PROVE  WipeInv'
  <1>1. pc \in Busy
    BY DEF WriteFails, Busy
  <1>2. PICK status \in {"SKIPPED_LOCKED", "FAILED"} : Finish(status, written)
    BY DEF WriteFails
  <1> QED BY <1>1, <1>2, FinishKeeps, Unchanged DEF WriteFails, tree

LEMMA EndPassKeeps ==
  ASSUME WipeInv, EndPass
  PROVE  WipeInv'
  <1> USE DEF WipeInv
  <1>1. file \in Files /\ file \notin todo /\ result[file] = "NONE"
    BY DEF OnFile, EndPass, Busy
  <1>2. size[file] \in 0..MaxChunks /\ size[file] \in Nat
    BY <1>1, PassesAssumption DEF TypeOK
  <1>3. /\ pass \in 1..Passes
        /\ \A i \in 1..size[file] : disk[file][i] = pass
    BY <1>2 DEF EndPass, AtPass
  <1>4. UNCHANGED <<tree, disk, name, result, todo, file, written, base, shown, token, late>>
    BY DEF EndPass
  <1>5. CASE pass < Passes
    <2>1. pass' = pass + 1 /\ left' = size[file] /\ pc' = "chunk"
      BY <1>5 DEF EndPass
    <2>2. pass' \in 1..Passes /\ pass' \in 0..Passes /\ left' \in 0..MaxChunks
      BY <1>2, <1>3, <1>5, <2>1, PassesAssumption
    <2>3. TypeOK'
      BY <1>4, <2>1, <2>2 DEF TypeOK, tree
    <2>4. OnFile' /\ AfterPasses' /\ WipedIfReported'
      BY <1>1, <1>4, <2>1 DEF tree, OnFile, AfterPasses, WipedIfReported
    <2>5. Untouched'
      BY <1>4, <2>1 DEF tree, Untouched
    <2>6. AtPass'
      BY <1>2, <1>3, <1>4, <2>1, <2>2, PassesAssumption DEF tree, AtPass
    <2>7. LateInv'
      BY <1>4, <2>1 DEF LateInv
    <2> QED BY <2>3, <2>4, <2>5, <2>6, <2>7
  <1>6. CASE ~(pass < Passes)
    <2>1. pass' = pass /\ left' = left /\ pc' = "unlink"
      BY <1>6 DEF EndPass
    <2>2. pass = Passes
      BY <1>3, <1>6, PassesAssumption
    <2>3. TypeOK'
      BY <1>4, <2>1 DEF TypeOK, tree
    <2>4. OnFile' /\ AtPass' /\ WipedIfReported'
      BY <1>1, <1>4, <2>1 DEF tree, OnFile, AtPass, WipedIfReported
    <2>5. Untouched'
      BY <1>4, <2>1 DEF tree, Untouched
    <2>6. AfterPasses'
      BY <1>3, <1>4, <2>1, <2>2 DEF tree, AfterPasses
    <2>7. LateInv'
      BY <1>4, <2>1 DEF LateInv
    <2> QED BY <2>3, <2>4, <2>5, <2>6, <2>7
  <1> QED BY <1>5, <1>6

LEMMA UnlinkKeeps ==
  ASSUME WipeInv, Unlink
  PROVE  WipeInv'
  <1>1. pc = "unlink" /\ pc \in Busy
    BY DEF Unlink, Busy
  <1>2. name' \in [Files -> {"original", "random", "gone"}]
    <2>1. file \in Files
      BY <1>1 DEF WipeInv, OnFile
    <2> QED BY <2>1, Unchanged DEF Unlink
  <1>3. PICK status \in {"SUCCESS", "SKIPPED_LOCKED", "FAILED"} : Finish(status, written)
    BY DEF Unlink
  <1> QED BY <1>1, <1>2, <1>3, FinishKeeps, Unchanged DEF Unlink, tree

LEMMA RemoveTreeKeeps ==
  ASSUME WipeInv, RemoveTree
  PROVE  WipeInv'
  <1> USE DEF WipeInv
  <1>1. name' \in [Files -> {"original", "random", "gone"}]
    BY DEF RemoveTree, TypeOK
  <1>2. /\ pc = "remove" /\ pc' = "done"
        /\ UNCHANGED <<tree, disk, result, todo, onFile, base, shown, token, late>>
    BY DEF RemoveTree
  <1>3. TypeOK'
    BY <1>1, <1>2 DEF TypeOK, tree, onFile
  <1>4. OnFile' /\ AtPass' /\ AfterPasses' /\ WipedIfReported' /\ LateInv'
    BY <1>2 DEF tree, onFile, OnFile, Busy, AtPass, AfterPasses, WipedIfReported, LateInv
  <1>5. Untouched'
    BY <1>2 DEF tree, onFile, Untouched
  <1> QED BY <1>3, <1>4, <1>5

-----------------------------------------------------------------------------

\* The inductive invariant.
THEOREM WipeInvariant == Spec => []WipeInv
  <1>1. Init => WipeInv
    BY InitWipe
  <1>2. WipeInv /\ [Next]_vars => WipeInv'
    <2> SUFFICES ASSUME WipeInv, [Next]_vars
                 PROVE  WipeInv'
      OBVIOUS
    <2>1. CASE Cancel
      BY <2>1, CancelKeeps
    <2>2. ASSUME NEW f \in Files, NextFile(f)
          PROVE  WipeInv'
      BY <2>2, NextFileKeeps
    <2>3. CASE EndWalk
      BY <2>3, EndWalkKeeps
    <2>4. CASE ToolWipes \/ ToolFails \/ Open
      BY <2>4, ToolWipesKeeps, ToolFailsKeeps, OpenKeeps
    <2>5. CASE CheckToken \/ WriteChunk \/ WriteFails
      BY <2>5, CheckTokenKeeps, WriteChunkKeeps, WriteFailsKeeps
    <2>6. CASE EndPass \/ Unlink \/ RemoveTree
      BY <2>6, EndPassKeeps, UnlinkKeeps, RemoveTreeKeeps
    <2>7. CASE UNCHANGED vars
      <3>1. TypeOK' /\ OnFile' /\ AtPass' /\ AfterPasses'
        BY <2>7 DEF vars, tree, onFile, WipeInv, TypeOK, OnFile, AtPass, AfterPasses
      <3>2. Untouched' /\ WipedIfReported' /\ LateInv'
        BY <2>7 DEF vars, tree, onFile, WipeInv, Untouched, WipedIfReported, LateInv
      <3> QED BY <3>1, <3>2 DEF WipeInv
    <2> QED BY <2>1, <2>2, <2>3, <2>4, <2>5, <2>6, <2>7 DEF Next
  <1> QED BY <1>1, <1>2, PTL DEF Spec

\* A file that is reported as wiped carries the last pass in every chunk, for
\* any number of files, chunks and passes, and any failure or cancellation.
THEOREM WipedIfReportedHolds == Spec => []WipedIfReported
  <1>1. WipeInv => WipedIfReported
    BY DEF WipeInv
  <1> QED BY <1>1, WipeInvariant, PTL

\* After a cancellation at most one write is made in the whole tree, the chunk
\* that was under way or the run of a tool on the one file the walk had come
\* to, for any number of files, chunks and passes, with a tool or without.
THEOREM CancelStopsWritingHolds == Spec => []CancelStopsWriting
  <1>1. WipeInv => CancelStopsWriting
    BY DEF WipeInv, LateInv, CancelStopsWriting
  <1> QED BY <1>1, WipeInvariant, PTL

\* Every variable of the sanitizer has its type.
THEOREM SanitizerTypes == Spec => []TypeOK
  <1>1. WipeInv => TypeOK
    BY DEF WipeInv
  <1> QED BY <1>1, WipeInvariant, PTL

-----------------------------------------------------------------------------
(* What is not visited, or was cancelled, stays in the directory.          *)

\* Every file is in the queue, is being wiped, or has its result; only a
\* cancellation makes a result partial or ends the walk early.
KeepInv ==
  /\ pc \notin Busy => file = NoFile
  /\ \A f \in Files : result[f] = "NONE" => f \in todo \/ f = file
  /\ \A f \in Files : result[f] = "PARTIAL" => token
  /\ pc \in {"remove", "done"} => token \/ todo = {}
  /\ CancelKeepsFiles

LEMMA FinishKeepsFiles ==
  ASSUME WipeInv, KeepInv, pc \in Busy,
         NEW status \in Statuses \ {"NONE"}, NEW bytes, Finish(status, bytes),
         todo' = todo, token' = token,
         status = "PARTIAL" => token,
         \A f \in Files : name'[f] = "gone" => name[f] = "gone" \/ f = file,
         name'[file] = "gone" => name[file] = "gone" \/ status # "PARTIAL"
  PROVE  KeepInv'
  <1>1. file \in Files /\ result[file] = "NONE" /\ result \in [Files -> Statuses]
    BY DEF WipeInv, OnFile, TypeOK
  <1>2. name[file] # "gone"
    BY <1>1 DEF KeepInv, CancelKeepsFiles
  <1>3. result'[file] = status /\ \A f \in Files \ {file} : result'[f] = result[f]
    BY <1>1 DEF Finish
  <1>4. pc' = "walk" /\ file' = NoFile
    BY DEF Finish
  <1>5. \A f \in Files : result'[f] = "NONE" => f \in todo'
    BY <1>1, <1>3 DEF KeepInv
  <1>6. \A f \in Files : result'[f] = "PARTIAL" => token'
    BY <1>3 DEF KeepInv
  <1>7. CancelKeepsFiles'
    BY <1>1, <1>2, <1>3 DEF KeepInv, CancelKeepsFiles
  <1> QED BY <1>4, <1>5, <1>6, <1>7 DEF KeepInv

LEMMA StepKeepsFiles ==
  ASSUME WipeInv, KeepInv, [Next]_vars
  PROVE  KeepInv'
  <1>1. CASE Cancel
    BY <1>1 DEF Cancel, tree, onFile, KeepInv, CancelKeepsFiles
  <1>2. ASSUME NEW f \in Files, NextFile(f)
        PROVE  KeepInv'
    <2>1. file = NoFile /\ pc = "walk"
      BY <1>2 DEF NextFile, KeepInv, Busy
    <2>2. pc' \in {"tool", "open"} /\ file' = f /\ todo' = todo \ {f}
          /\ UNCHANGED <<name, result, token>>
      BY <1>2 DEF NextFile
    <2> QED BY <2>1, <2>2, FilesAssumption DEF KeepInv, CancelKeepsFiles, Busy
  <1>3. CASE EndWalk
    BY <1>3 DEF EndWalk, onFile, KeepInv, CancelKeepsFiles, Busy
  <1>4. CASE ToolWipes
    <2>1. pc \in Busy /\ todo' = todo /\ token' = token
      BY <1>4 DEF ToolWipes, Busy
    <2>2. \A f \in Files : name'[f] = "gone" => name[f] = "gone" \/ f = file
      BY <1>4 DEF ToolWipes, WipeInv, TypeOK
    <2> QED BY <1>4, <2>1, <2>2, FinishKeepsFiles DEF ToolWipes, Statuses
  <1>5. CASE Open
    <2>1. CASE \E status \in {"SKIPPED_LOCKED", "FAILED"} : Finish(status, 0)
      <3>1. PICK status \in {"SKIPPED_LOCKED", "FAILED"} : Finish(status, 0)
        BY <2>1
      <3>2. pc \in Busy /\ todo' = todo /\ token' = token /\ name' = name
        BY <1>5 DEF Open, Busy
      <3> QED BY <3>1, <3>2, FinishKeepsFiles DEF Statuses
    <2>2. CASE pc' = "chunk" /\ UNCHANGED <<result, base, file, written>>
      BY <1>5, <2>2 DEF Open, KeepInv, CancelKeepsFiles, Busy
    <2> QED BY <1>5, <2>1, <2>2 DEF Open
  <1>6. CASE CheckToken
    <2>1. CASE token /\ Finish("PARTIAL", written)
      <3>1. pc \in Busy /\ todo' = todo /\ token' = token /\ name' = name
        BY <1>6 DEF CheckToken, Busy
      <3> QED BY <2>1, <3>1, FinishKeepsFiles DEF Statuses
    <2>2. CASE pc' = "write" /\ UNCHANGED <<result, base, onFile>>
      BY <1>6, <2>2 DEF CheckToken, onFile, KeepInv, CancelKeepsFiles, Busy
    <2> QED BY <1>6, <2>1, <2>2 DEF CheckToken
  <1>7. CASE WriteChunk
    BY <1>7 DEF WriteChunk, KeepInv, CancelKeepsFiles, Busy
  <1>8. CASE WriteFails
    <2>1. PICK status \in {"SKIPPED_LOCKED", "FAILED"} : Finish(status, written)
      BY <1>8 DEF WriteFails
    <2>2. pc \in Busy /\ todo' = todo /\ token' = token /\ name' = name
      BY <1>8 DEF WriteFails, Busy
    <2> QED BY <2>1, <2>2, FinishKeepsFiles DEF Statuses
  <1>9. CASE EndPass
    BY <1>9 DEF EndPass, KeepInv, CancelKeepsFiles, Busy
  <1>10. CASE Unlink
    <2>1. pc \in Busy /\ todo' = todo /\ token' = token
      BY <1>10 DEF Unlink, Busy
    <2>2. \A f \in Files : name'[f] = "gone" => name[f] = "gone" \/ f = file
      BY <1>10 DEF Unlink, WipeInv, TypeOK
    <2>3. CASE Finish("SUCCESS", written)
      BY <2>1, <2>2, <2>3, FinishKeepsFiles DEF Statuses
    <2>4. CASE \E status \in {"SKIPPED_LOCKED", "FAILED"} : Finish(status, written)
      BY <2>1, <2>2, <2>4, FinishKeepsFiles DEF Statuses
    <2> QED BY <1>10, <2>3, <2>4 DEF Unlink
  <1>11. CASE RemoveTree
    <2>1. pc = "remove" /\ file = NoFile /\ pc' = "done"
          /\ UNCHANGED <<file, result, todo, token>>
      BY <1>11 DEF RemoveTree, onFile, KeepInv, Busy
    <2>2. CancelKeepsFiles'
      <3>1. CASE unlink /\ ~token
        <4>1. \A f \in Files : result[f] \notin {"NONE", "PARTIAL"}
          BY <2>1, <3>1, FilesAssumption DEF KeepInv
        <4> QED BY <2>1, <4>1 DEF CancelKeepsFiles
      <3>2. CASE ~(unlink /\ ~token)
        <4>1. name' = name
          BY <1>11, <3>2 DEF RemoveTree
        <4> QED BY <2>1, <4>1 DEF KeepInv, CancelKeepsFiles
      <3> QED BY <3>1, <3>2
    <2> QED BY <2>1, <2>2 DEF KeepInv, Busy
  <1>12. CASE UNCHANGED vars
    BY <1>12 DEF vars, tree, onFile, KeepInv, CancelKeepsFiles
  <1>13. CASE ToolFails
    <2>1. pc \in Busy /\ todo' = todo /\ token' = token
      BY <1>13 DEF ToolFails, Busy
    <2>2. CASE name' = [name EXCEPT ![file] = "gone"] /\ Finish("FAILED", 0)
      <3>1. \A f \in Files : name'[f] = "gone" => name[f] = "gone" \/ f = file
        BY <2>2 DEF WipeInv, TypeOK
      <3> QED BY <2>1, <2>2, <3>1, FinishKeepsFiles DEF Statuses
    <2>3. CASE pc' = "open" /\ UNCHANGED <<name, result, onFile>>
      BY <2>1, <2>3 DEF onFile, KeepInv, CancelKeepsFiles, Busy
    <2> QED BY <1>13, <2>2, <2>3 DEF ToolFails
  <1> QED BY <1>1, <1>2, <1>3, <1>4, <1>5, <1>6, <1>7, <1>8, <1>9, <1>10, <1>11, <1>12, <1>13 DEF Next

\* A file the walk has not visited, or whose wipe was cancelled, is never
\* deleted, whatever fails: rmtree runs only after a walk that visited every
\* file and was not cancelled, and wipe_file deletes nothing it did not finish.
THEOREM CancelKeepsFilesHolds == Spec => []CancelKeepsFiles
  <1>1. Init => KeepInv
    BY DEF Init, KeepInv, CancelKeepsFiles, Busy
  <1>2. KeepInv => CancelKeepsFiles
    BY DEF KeepInv
  <1> QED BY <1>1, <1>2, StepKeepsFiles, WipeInvariant, PTL DEF Spec

-----------------------------------------------------------------------------
(* Sums over the files of the tree, as FoldFunction computes them *)

LessThan == {ss \in Nat \X Nat : ss[1] < ss[2]}

LEMMA LessThanWellFounded == IsWellFoundedOn(LessThan, Nat)
  BY NatLessThanWellFounded, Zenon DEF OpToRel, LessThan

\* A set of naturals with zero and, of each member, the successor, is Nat.
LEMMA InductiveSet ==
  ASSUME NEW T, T \subseteq Nat, 0 \in T, \A n \in T : n + 1 \in T
  PROVE  \A n \in Nat : n \in T
  <1> SUFFICES ASSUME Nat \ T # {} PROVE FALSE
    OBVIOUS
  <1>1. Nat \ T \subseteq Nat
    OBVIOUS
  <1>2. PICK x \in Nat \ T : \A y \in Nat \ T : ~(<<y, x>> \in LessThan)
    BY <1>1, LessThanWellFounded, WFMin
  <1>3. x # 0 /\ x - 1 \in Nat /\ (x - 1) + 1 = x
    OBVIOUS
  <1>4. <<x - 1, x>> \in LessThan
    BY <1>3 DEF LessThan
  <1> QED BY <1>2, <1>3, <1>4

\* How FoldFunction adds the values of z up: it takes one member after the
\* other out of the set.
Chosen(s) == CHOOSE x \in s : TRUE
Added(z, f, s) == IF s = {} THEN 0 ELSE z[Chosen(s)] + f[s \ {Chosen(s)}]
Adds(z, f, D) == f = [s \in D |-> Added(z, f, s)]
Sum(z) == CHOOSE f : Adds(z, f, SUBSET Files)

LEMMA FoldIs ==
  ASSUME NEW z \in [Files -> Nat]
  PROVE  FoldFunction(+, 0, z) = Sum(z)[Files]
  <1>1. DOMAIN z = Files
    OBVIOUS
  <1>2. FoldFunction(+, 0, z) = (CHOOSE f : Adds(z, f, SUBSET DOMAIN z))[DOMAIN z]
    BY DEF FoldFunction, FoldFunctionOnSet, MapThenFoldSet, Adds, Added, Chosen
  <1> QED BY <1>1, <1>2 DEF Sum

\* A set with a member is one larger than without it.
LEMMA Removed ==
  ASSUME NEW s, IsFiniteSet(s), NEW x \in s
  PROVE  /\ IsFiniteSet(s \ {x})
         /\ Cardinality(s) \in Nat /\ Cardinality(s \ {x}) \in Nat
         /\ Cardinality(s \ {x}) + 1 = Cardinality(s)
  <1>1. IsFiniteSet(s \ {x}) /\ Cardinality(s \ {x}) = Cardinality(s) - 1
    BY FS_RemoveElement
  <1>2. Cardinality(s) \in Nat /\ Cardinality(s \ {x}) \in Nat
    BY <1>1, FS_CardinalityType
  <1> QED BY <1>1, <1>2

LEMMA ChosenFacts ==
  ASSUME NEW s, s # {}
  PROVE  Chosen(s) \in s
  BY DEF Chosen

LEMMA AddsExists ==
  ASSUME NEW z, IsFiniteSet(Files)
  PROVE  \E f : Adds(z, f, SUBSET Files)
  <1> DEFINE upTo(k) == {s \in SUBSET Files : Cardinality(s) <= k}
             T == {k \in Nat : \E f : Adds(z, f, upTo(k))}
  <1>1. \A s \in SUBSET Files : IsFiniteSet(s) /\ Cardinality(s) \in Nat
    BY FS_Subset, FS_CardinalityType
  <1>2. 0 \in T
    <2> DEFINE f == [s \in upTo(0) |-> 0]
    <2>1. \A s \in upTo(0) : s = {}
      <3> SUFFICES ASSUME NEW s \in upTo(0) PROVE s = {}
        OBVIOUS
      <3>1. Cardinality(s) = 0 /\ IsFiniteSet(s)
        BY <1>1
      <3> QED BY <3>1, FS_EmptySet
    <2>2. \A s \in upTo(0) : Added(z, f, s) = 0
      BY <2>1 DEF Added
    <2> HIDE DEF upTo
    <2>3. Adds(z, f, upTo(0))
      BY <2>2 DEF Adds
    <2> QED BY <2>3
  <1>3. ASSUME NEW k \in T
        PROVE  k + 1 \in T
    <2>1. k \in Nat
      BY <1>3
    <2>2. PICK f : Adds(z, f, upTo(k))
      BY <1>3
    <2> DEFINE g == [s \in upTo(k + 1) |-> IF s \in upTo(k) THEN f[s] ELSE Added(z, f, s)]
    <2>3. \A s \in upTo(k) : f[s] = Added(z, f, s)
      BY <2>2 DEF Adds
    <2>4. \A s \in upTo(k + 1) : g[s] = Added(z, f, s)
      BY <2>3
    <2>5. \A s \in upTo(k + 1) : s # {} => /\ s \ {Chosen(s)} \in upTo(k)
                                           /\ g[s \ {Chosen(s)}] = f[s \ {Chosen(s)}]
      <3> SUFFICES ASSUME NEW s \in upTo(k + 1), s # {}
                   PROVE  /\ s \ {Chosen(s)} \in upTo(k)
                          /\ g[s \ {Chosen(s)}] = f[s \ {Chosen(s)}]
        OBVIOUS
      <3> DEFINE r == s \ {Chosen(s)}
      <3>1. s \in SUBSET Files /\ Cardinality(s) <= k + 1 /\ Chosen(s) \in s
        BY ChosenFacts
      <3>2. r \in SUBSET Files /\ Cardinality(r) \in Nat /\ Cardinality(r) + 1 = Cardinality(s)
        BY <1>1, <3>1, Removed
      <3> HIDE DEF r
      <3>3. Cardinality(r) <= k /\ Cardinality(r) <= k + 1
        BY <2>1, <3>1, <3>2
      <3>4. r \in upTo(k) /\ r \in upTo(k + 1)
        BY <3>2, <3>3
      <3> QED BY <3>4 DEF r
    <2>6. \A s \in upTo(k + 1) : g[s] = Added(z, g, s)
      <3> SUFFICES ASSUME NEW s \in upTo(k + 1)
                   PROVE  g[s] = Added(z, g, s)
        OBVIOUS
      <3>1. g[s] = Added(z, f, s)
        BY <2>4
      <3>2. s # {} => g[s \ {Chosen(s)}] = f[s \ {Chosen(s)}]
        BY <2>5
      <3> HIDE DEF g, upTo
      <3>3. Added(z, f, s) = Added(z, g, s)
        BY <3>2 DEF Added
      <3> QED BY <3>1, <3>3
    <2>7. g = [s \in upTo(k + 1) |-> g[s]]
      OBVIOUS
    <2> HIDE DEF g, upTo
    <2>8. Adds(z, g, upTo(k + 1))
      BY <2>6, <2>7 DEF Adds
    <2> QED BY <2>1, <2>8
  <1>4. Cardinality(Files) \in T
    <2>1. Cardinality(Files) \in Nat /\ T \subseteq Nat
      BY <1>1
    <2> HIDE DEF T
    <2> QED BY <1>2, <1>3, <2>1, InductiveSet
  <1>5. upTo(Cardinality(Files)) = SUBSET Files
    <2>1. \A s \in SUBSET Files : Cardinality(s) <= Cardinality(Files)
      BY FS_Subset
    <2> QED BY <2>1
  <1> QED BY <1>4, <1>5

LEMMA SumIs ==
  ASSUME NEW z, IsFiniteSet(Files)
  PROVE  /\ Sum(z)[{}] = 0
         /\ \A s \in SUBSET Files : s # {} => Sum(z)[s] = z[Chosen(s)] + Sum(z)[s \ {Chosen(s)}]
  <1> DEFINE f == Sum(z)
  <1>1. Adds(z, f, SUBSET Files)
    BY AddsExists DEF Sum
  <1> HIDE DEF f
  <1>2. \A s \in SUBSET Files : f[s] = Added(z, f, s)
    BY <1>1 DEF Adds
  <1>3. f[{}] = 0 /\ \A s \in SUBSET Files : s # {} => f[s] = z[Chosen(s)] + f[s \ {Chosen(s)}]
    BY <1>2 DEF Added
  <1> QED BY <1>3 DEF f

\* A sum is a natural number, and any of its terms may be taken out of it.
LEMMA SumTakesOut ==
  ASSUME NEW z \in [Files -> Nat], IsFiniteSet(Files), NEW s \in SUBSET Files
  PROVE  /\ Sum(z)[s] \in Nat
         /\ \A x \in s : Sum(z)[s] = z[x] + Sum(z)[s \ {x}]
  <1> DEFINE f == Sum(z)
             Good(t) == f[t] \in Nat /\ \A x \in t : f[t] = z[x] + f[t \ {x}]
             T == {k \in Nat : \A t \in SUBSET Files : Cardinality(t) <= k => Good(t)}
  <1>1. \A t \in SUBSET Files : IsFiniteSet(t) /\ Cardinality(t) \in Nat
    BY FS_Subset, FS_CardinalityType
  <1>2. f[{}] = 0 /\ \A t \in SUBSET Files : t # {} => f[t] = z[Chosen(t)] + f[t \ {Chosen(t)}]
    BY SumIs
  <1> HIDE DEF f
  <1>3. Good({})
    BY <1>2
  <1>4. 0 \in T
    <2>1. \A t \in SUBSET Files : Cardinality(t) <= 0 => t = {}
      BY <1>1, FS_EmptySet
    <2> HIDE DEF Good
    <2> QED BY <1>3, <2>1
  <1>5. ASSUME NEW k \in T
        PROVE  k + 1 \in T
    <2>1. k \in Nat /\ \A t \in SUBSET Files : Cardinality(t) <= k => Good(t)
      BY <1>5
    <2> HIDE DEF Good
    <2> SUFFICES ASSUME NEW t \in SUBSET Files, Cardinality(t) <= k + 1, t # {}
                 PROVE  Good(t)
      BY <1>3, <2>1
    <2> USE DEF Good
    <2> DEFINE c == Chosen(t)
    <2>2. c \in t /\ c \in Files /\ z[c] \in Nat /\ f[t] = z[c] + f[t \ {c}]
      BY <1>2, ChosenFacts
    <2> HIDE DEF c
    <2>3. \A x \in t : Good(t \ {x})
      <3> SUFFICES ASSUME NEW x \in t PROVE Good(t \ {x})
        OBVIOUS
      <3>1. Cardinality(t \ {x}) \in Nat /\ Cardinality(t \ {x}) + 1 = Cardinality(t)
            /\ Cardinality(t) \in Nat
        BY <1>1, Removed
      <3>2. Cardinality(t \ {x}) <= k
        BY <2>1, <3>1
      <3> HIDE DEF Good
      <3> QED BY <2>1, <3>2
    <2>4. f[t] \in Nat
      <3>1. f[t \ {c}] \in Nat
        BY <2>2, <2>3
      <3> QED BY <2>2, <3>1
    <2>5. ASSUME NEW x \in t, x # c
          PROVE  f[t] = z[x] + f[t \ {x}]
      <3>1. f[t \ {c}] = z[x] + f[(t \ {c}) \ {x}]
        BY <2>2, <2>3, <2>5
      <3>2. f[t \ {x}] = z[c] + f[(t \ {x}) \ {c}]
        BY <2>2, <2>3, <2>5
      <3>3. (t \ {c}) \ {x} = (t \ {x}) \ {c}
        OBVIOUS
      <3>4. z[x] \in Nat /\ f[t \ {c}] \in Nat /\ f[t \ {x}] \in Nat
        BY <2>2, <2>3
      <3>5. f[(t \ {x}) \ {c}] \in Nat
        <4>1. c \in t \ {x}
          BY <2>2, <2>5
        <4>2. Good((t \ {x}) \ {c})
          <5>1. Cardinality(t \ {x}) + 1 = Cardinality(t) /\ IsFiniteSet(t \ {x})
                /\ Cardinality(t \ {x}) \in Nat
            BY <1>1, Removed
          <5>2. Cardinality((t \ {x}) \ {c}) + 1 = Cardinality(t \ {x})
                /\ Cardinality((t \ {x}) \ {c}) \in Nat
            BY <4>1, <5>1, Removed
          <5>3. Cardinality((t \ {x}) \ {c}) <= k
            BY <1>1, <2>1, <5>1, <5>2
          <5> HIDE DEF Good
          <5> QED BY <2>1, <5>3
        <4> QED BY <4>2
      <3> DEFINE u == t \ {c}
                 v == t \ {x}
                 w == v \ {c}
      <3>6. f[t] = z[c] + f[u] /\ f[u] = z[x] + f[w] /\ f[v] = z[c] + f[w]
        BY <2>2, <3>1, <3>2, <3>3
      <3>7. f[w] \in Nat /\ z[c] \in Nat /\ z[x] \in Nat
        BY <2>2, <3>4, <3>5
      <3> HIDE DEF u, v, w
      <3>8. f[t] = z[x] + f[v]
        BY <3>6, <3>7
      <3> QED BY <3>8 DEF v
    <2> QED BY <2>2, <2>4, <2>5
  <1>6. Cardinality(s) \in T
    <2>1. Cardinality(s) \in Nat /\ T \subseteq Nat
      BY <1>1
    <2> HIDE DEF T
    <2> QED BY <1>4, <1>5, <2>1, InductiveSet
  <1>7. Good(s)
    <2>1. Cardinality(s) \in Nat
      BY <1>1
    <2> HIDE DEF Good
    <2> QED BY <1>6, <2>1
  <1> QED BY <1>7 DEF f

-----------------------------------------------------------------------------
(* The progress of the tree *)

\* The bytes of n chunks, over all passes.
Work(n) == n * Passes

\* What was accumulated, what the present file may still add, and the files
\* of the queue stay within the total.
ProgressInv ==
  /\ shown <= base + written
  /\ pc \notin Busy => written = 0 /\ base + Work(Sum(size)[todo]) <= Work(Sum(size)[Files])
  /\ pc \in Busy =>
       base + (Work(size[file]) + Work(Sum(size)[todo])) <= Work(Sum(size)[Files])
  /\ pc \in {"tool", "open"} => written = 0
  /\ pc \in {"chunk", "write"} => written + left = pass * size[file]
  /\ pc = "unlink" => written = Passes * size[file]

LEMMA WorkFacts ==
  ASSUME NEW m \in Nat, NEW n \in Nat
  PROVE  Work(m) \in Nat /\ Work(m + n) = Work(m) + Work(n)
  BY PassesAssumption DEF Work

LEMMA MoreIsMore ==
  ASSUME NEW m \in Nat, NEW p \in Nat, NEW q \in Nat, p <= q
  PROVE  p * m \in Nat /\ p * m <= q * m /\ m * p = p * m
  <1>1. PICK d \in Nat : q = p + d
    <2>1. q - p \in Nat /\ q = p + (q - p)
      OBVIOUS
    <2> QED BY <2>1
  <1>2. (p + d) * m = p * m + d * m /\ p * m \in Nat /\ d * m \in Nat
    OBVIOUS
  <1>3. m * p = p * m
    OBVIOUS
  <1> QED BY <1>1, <1>2, <1>3

LEMMA OnePassMore ==
  ASSUME NEW m \in Nat, NEW p \in Nat
  PROVE  p * m + m = (p + 1) * m /\ 1 * m = m
  OBVIOUS

LEMMA ProgressTypes ==
  ASSUME WipeInv, IsFiniteSet(Files)
  PROVE  /\ size \in [Files -> Nat] /\ todo \in SUBSET Files
         /\ base \in Nat /\ written \in Nat /\ shown \in Nat
         /\ Sum(size)[todo] \in Nat /\ Sum(size)[Files] \in Nat
         /\ Work(Sum(size)[todo]) \in Nat /\ Work(Sum(size)[Files]) \in Nat
         /\ pc \in Busy => size[file] \in Nat /\ Work(size[file]) \in Nat
  <1>1. /\ size \in [Files -> Nat] /\ todo \in SUBSET Files
        /\ base \in Nat /\ written \in Nat /\ shown \in Nat
    BY PassesAssumption DEF WipeInv, TypeOK
  <1>2. Sum(size)[todo] \in Nat /\ Sum(size)[Files] \in Nat
    BY <1>1, SumTakesOut
  <1>3. pc \in Busy => size[file] \in Nat
    BY <1>1 DEF WipeInv, OnFile
  <1> QED BY <1>1, <1>2, <1>3, WorkFacts

\* No pass, and no tool, writes more of a file than was announced.
LEMMA WrittenWithin ==
  ASSUME WipeInv, ProgressInv, IsFiniteSet(Files), pc \in Busy
  PROVE  written <= Work(size[file])
  <1>1. size[file] \in Nat /\ written \in Nat /\ Work(size[file]) \in Nat
    BY ProgressTypes
  <1>2. CASE pc \in {"tool", "open"}
    BY <1>1, <1>2 DEF ProgressInv
  <1>3. CASE pc \in {"chunk", "write"}
    <2>1. /\ pass \in Nat /\ pass <= Passes /\ left \in Nat /\ Passes \in Nat
          /\ written + left = pass * size[file]
      BY <1>1, <1>3, PassesAssumption DEF WipeInv, AtPass, ProgressInv
    <2>2. pass * size[file] <= Passes * size[file] /\ size[file] * Passes = Passes * size[file]
          /\ pass * size[file] \in Nat /\ Passes * size[file] \in Nat
      BY <1>1, <2>1, MoreIsMore
    <2> DEFINE x == pass * size[file]
               y == Passes * size[file]
    <2>3. Work(size[file]) = y /\ written + left = x /\ x <= y /\ x \in Nat /\ y \in Nat
      BY <2>1, <2>2 DEF Work
    <2> HIDE DEF x, y
    <2> QED BY <1>1, <2>1, <2>3
  <1>4. CASE pc = "unlink"
    <2>1. written = Passes * size[file] /\ Passes \in Nat
      BY <1>4, PassesAssumption DEF ProgressInv
    <2>2. size[file] * Passes = Passes * size[file] /\ Passes * size[file] \in Nat
      BY <1>1, <2>1, MoreIsMore
    <2>3. written = Work(size[file])
      BY <2>1, <2>2 DEF Work
    <2> QED BY <1>1, <2>3
  <1> QED BY <1>2, <1>3, <1>4 DEF Busy

LEMMA InitProgress ==
  ASSUME Init, IsFiniteSet(Files)
  PROVE  ProgressInv
  <1>1. size \in [Files -> Nat]
    BY PassesAssumption DEF Init
  <1>2. Work(Sum(size)[Files]) \in Nat
    BY <1>1, SumTakesOut, WorkFacts
  <1>3. todo = Files /\ base = 0 /\ shown = 0 /\ written = 0 /\ pc = "walk"
    BY DEF Init
  <1> QED BY <1>2, <1>3 DEF ProgressInv, Busy

\* wipe_file returns with at most the work of its file.
LEMMA FinishProgress ==
  ASSUME WipeInv, ProgressInv, IsFiniteSet(Files), pc \in Busy,
         NEW status, NEW bytes \in Nat, Finish(status, bytes), bytes <= Work(size[file]),
         shown' <= base + bytes, size' = size, todo' = todo
  PROVE  ProgressInv'
  <1>1. base' = base + bytes /\ written' = 0 /\ pc' = "walk"
    BY DEF Finish
  <1> DEFINE f == Work(size[file])
             t == Work(Sum(size)[todo])
             all == Work(Sum(size)[Files])
  <1>2. base + (f + t) <= all
    BY DEF ProgressInv
  <1>3. base \in Nat /\ f \in Nat /\ t \in Nat /\ all \in Nat /\ bytes <= f
    BY ProgressTypes
  <1> HIDE DEF f, t, all
  <1>4. (base + bytes) + t <= all
    BY <1>2, <1>3
  <1>5. base' + Work(Sum(size')[todo']) <= Work(Sum(size')[Files])
    BY <1>1, <1>4 DEF t, all
  <1>6. shown' <= base' + written'
    BY <1>1, <1>3
  <1> QED BY <1>1, <1>5, <1>6 DEF ProgressInv, Busy

\* A step of wipe_file that leaves the sums alone.
LEMMA SameSums ==
  ASSUME ProgressInv, size' = size, todo' = todo, base' = base,
         pc \in Busy, file' = file
  PROVE  base' + (Work(size'[file']) + Work(Sum(size')[todo'])) <= Work(Sum(size')[Files])
  <1>1. base + (Work(size[file]) + Work(Sum(size)[todo])) <= Work(Sum(size)[Files])
    BY DEF ProgressInv
  <1> QED BY <1>1

LEMMA NextFileProgress ==
  ASSUME WipeInv, ProgressInv, IsFiniteSet(Files), NEW f \in Files, NextFile(f)
  PROVE  ProgressInv' /\ shown' >= shown
  <1>1. /\ pc = "walk" /\ f \in todo /\ todo' = todo \ {f} /\ file' = f /\ written' = 0
        /\ pc' \in {"tool", "open"} /\ size' = size /\ base' = base /\ shown' = shown
    BY DEF NextFile, tree
  <1>2. /\ size \in [Files -> Nat] /\ todo \in SUBSET Files /\ todo \ {f} \in SUBSET Files
        /\ base \in Nat /\ shown \in Nat /\ written = 0
    BY <1>1, ProgressTypes DEF ProgressInv, Busy
  <1> DEFINE a == Sum(size)[todo]
             r == Sum(size)[todo \ {f}]
             x == size[f]
  <1>3. a = x + r /\ r \in Nat /\ x \in Nat
    BY <1>1, <1>2, SumTakesOut
  <1>4. base + Work(a) <= Work(Sum(size)[Files])
    BY <1>1 DEF ProgressInv, Busy
  <1> HIDE DEF a, r, x
  <1>5. Work(a) = Work(x) + Work(r)
    BY <1>3, WorkFacts
  <1>6. base' + (Work(size'[file']) + Work(Sum(size')[todo'])) <= Work(Sum(size')[Files])
    BY <1>1, <1>4, <1>5 DEF x, r
  <1>7. shown' <= base' + written' /\ shown' >= shown
    BY <1>1, <1>2 DEF ProgressInv
  <1> QED BY <1>1, <1>6, <1>7 DEF ProgressInv, Busy

LEMMA ToolProgress ==
  ASSUME WipeInv, ProgressInv, IsFiniteSet(Files), ToolPasses <= Passes, ToolWipes
  PROVE  ProgressInv' /\ shown' >= shown
  <1>1. /\ pc = "tool" /\ pc \in Busy /\ Finish("SUCCESS", size[file] * ToolPasses)
        /\ size' = size /\ todo' = todo /\ shown' = shown
    BY DEF ToolWipes, tree, Busy
  <1>2. size[file] \in Nat /\ base \in Nat /\ shown \in Nat
    BY <1>1, ProgressTypes
  <1>3. ToolPasses \in Nat /\ Passes \in Nat
    BY PassesAssumption
  <1> DEFINE bytes == size[file] * ToolPasses
  <1>4. bytes \in Nat /\ bytes <= Work(size[file])
    <2>1. /\ ToolPasses * size[file] \in Nat
          /\ ToolPasses * size[file] <= Passes * size[file]
          /\ size[file] * ToolPasses = ToolPasses * size[file]
      BY <1>2, <1>3, MoreIsMore
    <2>2. size[file] * Passes = Passes * size[file]
      BY <1>2, <1>3, MoreIsMore
    <2> QED BY <2>1, <2>2 DEF Work
  <1> HIDE DEF bytes
  <1>5. shown' <= base + bytes /\ shown' >= shown
    <2>1. shown <= base + 0
      BY <1>1 DEF ProgressInv
    <2> QED BY <1>1, <1>2, <1>4, <2>1
  <1>6. Finish("SUCCESS", bytes)
    BY <1>1 DEF bytes
  <1> QED BY <1>1, <1>4, <1>5, <1>6, FinishProgress

LEMMA ToolFailsProgress ==
  ASSUME WipeInv, ProgressInv, IsFiniteSet(Files), ToolFails
  PROVE  ProgressInv' /\ shown' >= shown
  <1>1. /\ pc = "tool" /\ pc \in Busy /\ size' = size /\ todo' = todo
    BY DEF ToolFails, tree, Busy
  <1>2. /\ base \in Nat /\ shown \in Nat /\ written = 0 /\ Work(size[file]) \in Nat
        /\ shown <= base + written
    BY <1>1, ProgressTypes DEF ProgressInv
  <1>3. CASE shown' = base /\ Finish("FAILED", 0)
    <2>1. 0 \in Nat /\ 0 <= Work(size[file]) /\ shown' <= base + 0 /\ shown' >= shown
      BY <1>2, <1>3
    <2> QED BY <1>1, <1>3, <2>1, FinishProgress
  <1>4. CASE pc' = "open" /\ UNCHANGED <<base, onFile, shown>>
    <2>1. /\ pc' \in Busy /\ file' = file /\ written' = written /\ base' = base
          /\ shown' = shown
      BY <1>4 DEF onFile, Busy
    <2>2. base' + (Work(size'[file']) + Work(Sum(size')[todo'])) <= Work(Sum(size')[Files])
      BY <1>1, <2>1, SameSums
    <2> QED BY <1>2, <1>4, <2>1, <2>2 DEF ProgressInv
  <1> QED BY <1>3, <1>4 DEF ToolFails

LEMMA OpenProgress ==
  ASSUME WipeInv, ProgressInv, IsFiniteSet(Files), Open
  PROVE  ProgressInv' /\ shown' >= shown
  <1>1. /\ pc = "open" /\ pc \in Busy /\ shown' = base /\ size' = size /\ todo' = todo
    BY DEF Open, tree, Busy
  <1>2. /\ size[file] \in Nat /\ base \in Nat /\ shown \in Nat /\ written = 0
        /\ Work(size[file]) \in Nat
    BY <1>1, ProgressTypes DEF ProgressInv
  <1>3. shown' >= shown
    <2>1. shown <= base + 0
      BY <1>2 DEF ProgressInv
    <2> QED BY <1>1, <1>2, <2>1
  <1>4. CASE pass' = 1 /\ left' = size[file] /\ pc' = "chunk" /\ UNCHANGED <<result, base, file, written>>
    <2>1. written' + left' = pass' * size'[file']
      <3>1. 1 * size[file] = size[file]
        BY <1>2, OnePassMore
      <3> QED BY <1>1, <1>2, <1>4, <3>1
    <2>2. pc' \in Busy
      BY <1>4 DEF Busy
    <2>3. base' + (Work(size'[file']) + Work(Sum(size')[todo'])) <= Work(Sum(size')[Files])
      BY <1>1, <1>4, <2>2, SameSums
    <2>4. shown' <= base' + written'
      BY <1>1, <1>2, <1>4
    <2> QED BY <1>3, <1>4, <2>1, <2>2, <2>3, <2>4 DEF ProgressInv
  <1>5. CASE \E status \in {"SKIPPED_LOCKED", "FAILED"} : Finish(status, 0)
    <2>1. PICK status \in {"SKIPPED_LOCKED", "FAILED"} : Finish(status, 0)
      BY <1>5
    <2>2. 0 \in Nat /\ 0 <= Work(size[file]) /\ shown' <= base + 0
      BY <1>1, <1>2
    <2> QED BY <1>1, <1>3, <2>1, <2>2, FinishProgress
  <1> QED BY <1>4, <1>5 DEF Open

\* wipe_file returns with what it has written.
LEMMA ReturnProgress ==
  ASSUME WipeInv, ProgressInv, IsFiniteSet(Files), pc \in Busy,
         NEW status, Finish(status, written), size' = size, todo' = todo, shown' = shown
  PROVE  ProgressInv' /\ shown' >= shown
  <1>1. /\ written \in Nat /\ shown \in Nat /\ written <= Work(size[file])
        /\ shown' <= base + written
    BY ProgressTypes, WrittenWithin DEF ProgressInv
  <1> QED BY <1>1, FinishProgress

LEMMA WriteProgress ==
  ASSUME WipeInv, ProgressInv, IsFiniteSet(Files), WriteChunk
  PROVE  ProgressInv' /\ shown' >= shown
  <1>1. /\ pc = "write" /\ left' = left - 1 /\ written' = written + 1
        /\ shown' = base + written' /\ pc' = "chunk"
        /\ size' = size /\ todo' = todo /\ file' = file /\ pass' = pass /\ base' = base
    BY DEF WriteChunk, tree
  <1>2. /\ base \in Nat /\ written \in Nat /\ shown \in Nat /\ left \in Nat
        /\ shown <= base + written /\ written + left = pass * size[file]
    BY <1>1, ProgressTypes DEF ProgressInv, WipeInv, TypeOK
  <1>3. pc \in Busy /\ pc' \in Busy
    BY <1>1 DEF Busy
  <1>4. base' + (Work(size'[file']) + Work(Sum(size')[todo'])) <= Work(Sum(size')[Files])
    BY <1>1, <1>3, SameSums
  <1>5. written' + left' = pass' * size'[file']
    <2> DEFINE x == pass * size[file]
    <2>1. written + left = x /\ pass' * size'[file'] = x
      BY <1>1, <1>2
    <2> HIDE DEF x
    <2> QED BY <1>1, <1>2, <2>1
  <1>6. shown' <= base' + written' /\ shown' >= shown
    BY <1>1, <1>2
  <1> QED BY <1>1, <1>3, <1>4, <1>5, <1>6 DEF ProgressInv

LEMMA EndPassProgress ==
  ASSUME WipeInv, ProgressInv, IsFiniteSet(Files), EndPass
  PROVE  ProgressInv' /\ shown' >= shown
  <1>1. /\ pc = "chunk" /\ left = 0 /\ size' = size /\ todo' = todo /\ file' = file
        /\ written' = written /\ base' = base /\ shown' = shown
    BY DEF EndPass, tree
  <1>2. /\ base \in Nat /\ written \in Nat /\ shown \in Nat /\ shown <= base + written
        /\ size[file] \in Nat /\ pc \in Busy
    BY <1>1, ProgressTypes DEF ProgressInv, Busy
  <1>3. pass \in Nat /\ pass <= Passes /\ Passes \in Nat
    BY <1>1, PassesAssumption DEF WipeInv, AtPass
  <1>4. written = pass * size[file]
    BY <1>1, <1>2 DEF ProgressInv
  <1>5. shown' <= base' + written' /\ shown' >= shown
    BY <1>1, <1>2
  <1>6. CASE pass < Passes
    <2>1. pass' = pass + 1 /\ left' = size[file] /\ pc' = "chunk"
      BY <1>1, <1>6 DEF EndPass
    <2>2. written' + left' = pass' * size'[file']
      BY <1>1, <1>2, <1>3, <1>4, <2>1, OnePassMore
    <2>3. pc' \in Busy
      BY <2>1 DEF Busy
    <2>4. base' + (Work(size'[file']) + Work(Sum(size')[todo'])) <= Work(Sum(size')[Files])
      BY <1>1, <1>2, <2>3, SameSums
    <2> QED BY <1>5, <2>1, <2>2, <2>3, <2>4 DEF ProgressInv
  <1>7. CASE ~(pass < Passes)
    <2>1. pc' = "unlink" /\ pass = Passes
      BY <1>3, <1>7 DEF EndPass
    <2>2. written' = Passes * size'[file']
      BY <1>1, <1>4, <2>1
    <2>3. pc' \in Busy
      BY <2>1 DEF Busy
    <2>4. base' + (Work(size'[file']) + Work(Sum(size')[todo'])) <= Work(Sum(size')[Files])
      BY <1>1, <1>2, <2>3, SameSums
    <2> QED BY <1>5, <2>1, <2>2, <2>3, <2>4 DEF ProgressInv
  <1> QED BY <1>6, <1>7

LEMMA StepProgress ==
  ASSUME WipeInv, ProgressInv, IsFiniteSet(Files), ToolPasses <= Passes, [Next]_vars
  PROVE  ProgressInv' /\ shown' >= shown
  <1>1. shown \in Nat /\ shown >= shown
    BY ProgressTypes
  <1>2. CASE Cancel \/ UNCHANGED vars
    <2>1. UNCHANGED <<size, todo, file, pass, left, written, base, shown, pc>>
      BY <1>2 DEF Cancel, vars, tree, onFile
    <2> QED BY <1>1, <2>1 DEF ProgressInv
  <1>3. ASSUME NEW f \in Files, NextFile(f)
        PROVE  ProgressInv' /\ shown' >= shown
    BY <1>3, NextFileProgress
  <1>4. CASE EndWalk \/ RemoveTree
    <2>1. /\ pc \notin Busy /\ pc' \in {"remove", "done"}
          /\ UNCHANGED <<size, todo, written, base, shown>>
      BY <1>4 DEF EndWalk, RemoveTree, tree, onFile, Busy
    <2> QED BY <1>1, <2>1 DEF ProgressInv, Busy
  <1>5. CASE CheckToken
    <2>1. pc = "chunk" /\ pc \in Busy /\ size' = size /\ todo' = todo /\ shown' = shown
      BY <1>5 DEF CheckToken, tree, Busy
    <2>2. CASE Finish("PARTIAL", written)
      BY <2>1, <2>2, ReturnProgress
    <2>3. CASE pc' = "write" /\ UNCHANGED <<result, base, onFile>>
      BY <1>1, <2>1, <2>3 DEF ProgressInv, onFile, Busy
    <2> QED BY <1>5, <2>2, <2>3 DEF CheckToken
  <1>6. CASE WriteFails
    <2>1. pc \in Busy /\ size' = size /\ todo' = todo /\ shown' = shown
      BY <1>6 DEF WriteFails, tree, Busy
    <2>2. PICK status \in {"SKIPPED_LOCKED", "FAILED"} : Finish(status, written)
      BY <1>6 DEF WriteFails
    <2> QED BY <2>1, <2>2, ReturnProgress
  <1>7. CASE Unlink
    <2>1. pc \in Busy /\ size' = size /\ todo' = todo /\ shown' = shown
      BY <1>7 DEF Unlink, tree, Busy
    <2>2. PICK status \in {"SUCCESS", "SKIPPED_LOCKED", "FAILED"} : Finish(status, written)
      BY <1>7 DEF Unlink
    <2> QED BY <2>1, <2>2, ReturnProgress
  <1> QED BY <1>2, <1>3, <1>4, <1>5, <1>6, <1>7, ToolProgress, ToolFailsProgress, OpenProgress, WriteProgress,
             EndPassProgress DEF Next

Within == shown <= TotalWork

LEMMA ShownWithin ==
  ASSUME WipeInv, ProgressInv, IsFiniteSet(Files)
  PROVE  Within
  <1> DEFINE all == Work(Sum(size)[Files])
             t == Work(Sum(size)[todo])
  <1>1. /\ base \in Nat /\ written \in Nat /\ shown \in Nat /\ shown <= base + written
        /\ t \in Nat /\ all \in Nat
    BY ProgressTypes DEF ProgressInv
  <1>2. base + written <= all
    <2>1. CASE pc \in Busy
      <3> DEFINE f == Work(size[file])
      <3>1. base + (f + t) <= all /\ f \in Nat /\ written <= f
        BY <2>1, ProgressTypes, WrittenWithin DEF ProgressInv
      <3> HIDE DEF f, t, all
      <3> QED BY <1>1, <3>1
    <2>2. CASE pc \notin Busy
      <3>1. base + t <= all /\ written = 0
        BY <2>2 DEF ProgressInv
      <3> HIDE DEF t, all
      <3> QED BY <1>1, <3>1
    <2> QED BY <2>1, <2>2
  <1>3. TotalWork = all
    <2>1. FoldFunction(+, 0, size) = Sum(size)[Files]
      BY ProgressTypes, FoldIs
    <2> QED BY <2>1 DEF TotalWork, Work
  <1> HIDE DEF all, t
  <1>4. shown <= all
    BY <1>1, <1>2
  <1> QED BY <1>3, <1>4 DEF Within

\* The progress of the tree never goes back, over files that fail, are locked
\* or are skipped, and never exceeds the announced total, for any finite tree
\* (wipe_directory_tree and its file_progress_cb).  The tool must not be
\* credited with more passes than the total counts, which the code does for
\* Eraser with the three-pass standard.
THEOREM ProgressMonotoneHolds ==
  ASSUME IsFiniteSet(Files), ToolPasses <= Passes
  PROVE  Spec => ProgressMonotone
  <1>1. Init => ProgressInv
    BY InitProgress
  <1>2. WipeInv /\ ProgressInv /\ [Next]_vars => ProgressInv'
    BY StepProgress
  <1>3. WipeInv /\ ProgressInv => Within
    BY ShownWithin
  <1>4. WipeInv /\ ProgressInv /\ Within' /\ [Next]_vars => [shown' >= shown /\ shown' <= TotalWork']_vars
    BY StepProgress DEF Within
  <1> QED BY <1>1, <1>2, <1>3, <1>4, WipeInvariant, PTL DEF Spec, ProgressMonotone
=============================================================================
