-------------------------- MODULE CaseLedger_proofs --------------------------
(***************************************************************************)
(* What CaseLedger guarantees for every set of writers and operations,     *)
(* every combination of faults and every number of crashes; what the files *)
(* say together is proved for files that can be read (~ReadFaults) and, in *)
(* the last part, for operations that hold the lock (OnlyLocked).          *)
(***************************************************************************)
EXTENDS CaseLedger, SequenceTheorems, WellFoundedInduction, TLAPS

\* A writer inside an operation is at one of its appends.
AtAppend ==
  \A w \in Writers : phase[w] \in {"read", "write"} =>
    op[w] \in DOMAIN Appends /\ step[w] \in 1..Len(Appends[op[w]])

LedgerTypes == TypeOK /\ AtAppend

\* The chain on disk verifies, and so does every copy a writer has read.
LedgerInv ==
  /\ LedgerTypes
  /\ Verifies(chain)
  /\ \A w \in Writers : Verifies(events[w])

-----------------------------------------------------------------------------

\* What an operation appends: at most six entries of known types.
LEMMA AppendsType ==
  ASSUME NEW o \in DOMAIN Appends
  PROVE  /\ Appends[o] \in Seq([file : Files, type : Types])
         /\ Len(Appends[o]) \in 1..6
  <1>1. \A t \in Types : /\ Recorded(t) \in Seq([file : Files, type : Types])
                         /\ Len(Recorded(t)) = 2
    BY DEF Recorded, To, Files
  <1>2. Custody \in Seq([file : Files, type : Types]) /\ Len(Custody) = 3
    BY DEF Custody, To, Files, Types, TimelineTypes
  <1>3. CASE o = "STATUS"
    BY <1>3 DEF Appends, To, Files, Types, TimelineTypes
  <1>4. CASE o = "CUSTODY"
    BY <1>2, <1>4 DEF Appends
  <1>5. CASE o = "EVIDENCE"
    BY <1>5 DEF Appends, Custody, To, Files, Types, TimelineTypes
  <1>6. CASE o = "RECOVERY" \/ o = "SCAN"
    <2>1. "RECOVERY_COMPLETED" \in Types /\ "RECOVERY_SCAN" \in Types
      BY DEF Types, TimelineTypes
    <2>2. Appends[o] \in {Recorded("RECOVERY_COMPLETED"), Recorded("RECOVERY_SCAN")}
      BY <1>6 DEF Appends
    <2>3. Appends[o] \in Seq([file : Files, type : Types]) /\ Len(Appends[o]) = 2
      <3>1. CASE Appends[o] = Recorded("RECOVERY_COMPLETED")
        BY <1>1, <2>1, <3>1, Zenon
      <3>2. CASE Appends[o] = Recorded("RECOVERY_SCAN")
        BY <1>1, <2>1, <3>2, Zenon
      <3> QED BY <2>2, <3>1, <3>2
    <2> DEFINE n == Len(Appends[o])
    <2>4. n = 2
      BY <2>3
    <2> HIDE DEF n
    <2>5. n \in 1..6
      BY <2>4
    <2> QED BY <2>3, <2>5 DEF n
  <1>7. CASE o = "SANITIZE"
    BY <1>7 DEF Appends, To, Files, Types, TimelineTypes
  <1>8. CASE o = "BENCHMARK"
    BY <1>8 DEF Appends, To, Files, Types, TimelineTypes
  <1> QED BY <1>3, <1>4, <1>5, <1>6, <1>7, <1>8 DEF Appends

\* A chain that verifies still does after the event AuditEvent.create makes.
LEMMA AppendVerifies ==
  ASSUME NEW evts \in Seq(Event), Verifies(evts), NEW w
  PROVE  Verifies(Append(evts, NextEvent(w, evts)))
  <1> DEFINE e == NextEvent(w, evts)
             new == Append(evts, e)
  <1>1. /\ e.seq = Len(evts)
        /\ e.prev = IF evts = <<>> THEN Genesis ELSE evts[Len(evts)].entry
    BY DEF NextEvent
  <1> HIDE DEF e
  <1>2. /\ DOMAIN new = 1..(Len(evts) + 1) /\ Len(evts) \in Nat
        /\ DOMAIN evts = 1..Len(evts)
        /\ new[Len(evts) + 1] = e
        /\ \A i \in 1..Len(evts) : new[i] = evts[i]
    OBVIOUS
  <1>3. evts = <<>> <=> Len(evts) = 0
    OBVIOUS
  <1> HIDE DEF new
  <1> SUFFICES ASSUME NEW i \in 1..(Len(evts) + 1)
               PROVE  /\ new[i].seq = i - 1
                      /\ new[i].prev = IF i = 1 THEN Genesis ELSE new[i - 1].entry
    BY <1>2 DEF Verifies, new, e
  <1>4. CASE i \in 1..Len(evts)
    <2>1. i # 1 => i - 1 \in 1..Len(evts)
      BY <1>2, <1>4
    <2>2. /\ evts[i].seq = i - 1
          /\ evts[i].prev = IF i = 1 THEN Genesis ELSE evts[i - 1].entry
      BY <1>2, <1>4 DEF Verifies
    <2> QED BY <1>2, <1>4, <2>1, <2>2
  <1>5. CASE i = Len(evts) + 1
    <2>1. i # 1 => i - 1 = Len(evts) /\ i - 1 \in 1..Len(evts) /\ evts # <<>>
      BY <1>2, <1>3, <1>5
    <2>2. i = 1 => evts = <<>>
      BY <1>2, <1>3, <1>5
    <2> QED BY <1>1, <1>2, <1>5, <2>1, <2>2
  <1> QED BY <1>2, <1>4, <1>5

LEMMA EmptyVerifies == Verifies(<<>>)
  BY DEF Verifies

-----------------------------------------------------------------------------

\* Inside an operation, the append that is next is one of known file and type.
LEMMA NowType ==
  ASSUME LedgerTypes, NEW w \in Writers, phase[w] \in {"read", "write"}
  PROVE  /\ op[w] \in DOMAIN Appends
         /\ step[w] \in 1..Len(Appends[op[w]])
         /\ Len(Appends[op[w]]) \in 1..6
         /\ Now(w).file \in Files /\ Now(w).type \in Types
         /\ Entry(w, Now(w).type) \in Entries
  <1>1. op[w] \in DOMAIN Appends /\ step[w] \in 1..Len(Appends[op[w]])
    BY DEF LedgerTypes, AtAppend
  <1>2. /\ Appends[op[w]] \in Seq([file : Files, type : Types])
        /\ Len(Appends[op[w]]) \in 1..6
    BY <1>1, AppendsType
  <1>3. Appends[op[w]][step[w]] \in [file : Files, type : Types]
    <2> DEFINE s == Appends[op[w]]
               S == [file : Files, type : Types]
               i == step[w]
    <2>1. s \in Seq(S) /\ i \in 1..Len(s)
      BY <1>1, <1>2
    <2> HIDE DEF s, S, i
    <2>2. s[i] \in S
      BY <2>1
    <2> QED BY <2>2 DEF s, S, i
  <1>4. Now(w).file \in Files /\ Now(w).type \in Types
    BY <1>3 DEF Now
  <1> QED BY <1>1, <1>2, <1>4 DEF Entry, Entries

\* AuditEvent.create makes an event.
LEMMA NextEventType ==
  ASSUME LedgerTypes, NEW w \in Writers, phase[w] \in {"read", "write"},
         NEW evts \in Seq(Event)
  PROVE  NextEvent(w, evts) \in Event
  <1>1. Entry(w, Now(w).type) \in Entries
    BY NowType
  <1>2. CASE evts = <<>>
    BY <1>1, <1>2 DEF NextEvent, Event
  <1>3. CASE evts # <<>>
    <2>1. evts[Len(evts)] \in Event
      BY <1>3
    <2>2. evts[Len(evts)].entry \in Entries
      BY <2>1 DEF Event
    <2> QED BY <1>1, <1>3, <2>2 DEF NextEvent, Event
  <1> QED BY <1>2, <1>3

LEMMA InitLedger ==
  ASSUME Init
  PROVE  LedgerInv
  <1>1. TypeOK
    <2>1. Created \in Entries
      BY DEF Entries
    <2>2. [entry |-> Created, seq |-> 0, prev |-> Genesis] \in Event
      BY <2>1 DEF Event
    <2>3. chain \in Seq(Event)
      BY <2>2 DEF Init
    <2>4. file \in [Files \ {"audit"} -> Seq(Entries)]
      BY <2>1 DEF Init
    <2> QED BY <2>3, <2>4, LedgerAssumption DEF Init, TypeOK
  <1>2. AtAppend
    BY DEF Init, AtAppend
  <1>3. Verifies(chain)
    BY DEF Init, Verifies
  <1>4. \A w \in Writers : Verifies(events[w])
    BY EmptyVerifies DEF Init
  <1> QED BY <1>1, <1>2, <1>3, <1>4 DEF LedgerInv, LedgerTypes

LEMMA BeginKeeps ==
  ASSUME LedgerInv, NEW w \in Writers, NEW o \in Operations, Begin(w, o)
  PROVE  LedgerInv'
  <1> USE DEF LedgerInv, LedgerTypes
  <1>1. o \in DOMAIN Appends /\ 1 \in 1..Len(Appends[o])
    BY AppendsType, OperationsAssumption
  <1>2. TypeOK'
    BY DEF TypeOK, Begin
  <1>3. AtAppend'
    <2> SUFFICES ASSUME NEW v \in Writers, phase'[v] \in {"read", "write"}
                 PROVE  op'[v] \in DOMAIN Appends /\ step'[v] \in 1..Len(Appends[op'[v]])
      BY DEF AtAppend
    <2>1. CASE v = w
      BY <1>1, <2>1 DEF Begin, TypeOK
    <2>2. CASE v # w
      BY <2>2 DEF Begin, AtAppend, TypeOK
    <2> QED BY <2>1, <2>2
  <1>4. chain' = chain /\ events' = events
    BY DEF Begin
  <1>5. Verifies(chain)' /\ (\A v \in Writers : Verifies(events[v]))'
    BY <1>4
  <1> QED BY <1>2, <1>3, <1>5

LEMMA ReadKeeps ==
  ASSUME LedgerInv, NEW w \in Writers, Read(w)
  PROVE  LedgerInv'
  <1> USE DEF LedgerInv, LedgerTypes
  <1>1. Now(w).file \in Files
    BY NowType DEF Read
  <1>2. TypeOK'
    <2>1. phase' \in [Writers -> {"idle", "read", "write", "done", "failed", "dead"}]
      BY DEF Read, TypeOK
    <2>2. events' \in [Writers -> Seq(Event)]
      <3>1. events \in [Writers -> Seq(Event)] /\ chain \in Seq(Event)
        BY DEF TypeOK
      <3>2. events' = events \/ events' = [events EXCEPT ![w] = chain]
        BY DEF Read
      <3> HIDE DEF LedgerInv, LedgerTypes
      <3> QED BY <3>1, <3>2
    <2>3. rows' \in [Writers -> Seq(Entries)]
      <3>1. rows \in [Writers -> Seq(Entries)]
        BY DEF TypeOK
      <3>2. Now(w).file # "audit" => file[Now(w).file] \in Seq(Entries)
        BY <1>1 DEF TypeOK
      <3>3. \/ rows' = rows
            \/ Now(w).file # "audit" /\ rows' = [rows EXCEPT ![w] = file[Now(w).file]]
        BY DEF Read
      <3> HIDE DEF LedgerInv, LedgerTypes
      <3> QED BY <3>1, <3>2, <3>3
    <2> QED BY <2>1, <2>2, <2>3 DEF Read, TypeOK
  <1>3. AtAppend'
    BY DEF Read, AtAppend, TypeOK
  <1>4. Verifies(chain)'
    BY DEF Read
  <1>5. (\A v \in Writers : Verifies(events[v]))'
    <2> SUFFICES ASSUME NEW v \in Writers
                 PROVE  Verifies(events'[v])
      OBVIOUS
    <2>1. events'[v] \in {events[v], chain}
      BY DEF Read, TypeOK
    <2> QED BY <2>1
  <1> QED BY <1>2, <1>3, <1>4, <1>5

LEMMA ReadFailsKeeps ==
  ASSUME LedgerInv, NEW w \in Writers, ReadFails(w)
  PROVE  LedgerInv'
  <1> USE DEF LedgerInv, LedgerTypes
  <1>1. \/ rows' = rows /\ events' = events
        \/ rows' = [rows EXCEPT ![w] = <<>>] /\ events' = [events EXCEPT ![w] = <<>>]
    BY DEF ReadFails
  <1>2. TypeOK'
    <2>1. phase' \in [Writers -> {"idle", "read", "write", "done", "failed", "dead"}]
      BY DEF ReadFails, Leave, TypeOK
    <2>2. events' \in [Writers -> Seq(Event)] /\ rows' \in [Writers -> Seq(Entries)]
      <3>1. events \in [Writers -> Seq(Event)] /\ rows \in [Writers -> Seq(Entries)]
        BY DEF TypeOK
      <3>2. <<>> \in Seq(Event) /\ <<>> \in Seq(Entries)
        OBVIOUS
      <3> HIDE DEF LedgerInv, LedgerTypes
      <3> QED BY <1>1, <3>1, <3>2
    <2>3. lock' \in Writers \cup {NoOne}
      BY DEF ReadFails, Leave, TypeOK
    <2> QED BY <2>1, <2>2, <2>3 DEF ReadFails, TypeOK
  <1>3. AtAppend'
    BY DEF ReadFails, Leave, AtAppend, TypeOK
  <1>4. Verifies(chain)'
    BY DEF ReadFails
  <1>5. (\A v \in Writers : Verifies(events[v]))'
    <2> SUFFICES ASSUME NEW v \in Writers
                 PROVE  Verifies(events'[v])
      OBVIOUS
    <2>1. events'[v] \in {events[v], <<>>}
      BY <1>1 DEF TypeOK
    <2> QED BY <2>1, EmptyVerifies
  <1> QED BY <1>2, <1>3, <1>4, <1>5

LEMMA WriteKeeps ==
  ASSUME LedgerInv, NEW w \in Writers, Write(w)
  PROVE  LedgerInv'
  <1> USE DEF LedgerInv, LedgerTypes
  <1>1. /\ op[w] \in DOMAIN Appends
        /\ step[w] \in 1..Len(Appends[op[w]])
        /\ Len(Appends[op[w]]) \in 1..6
        /\ Now(w).file \in Files
        /\ Entry(w, Now(w).type) \in Entries
        /\ NextEvent(w, events[w]) \in Event
    BY NowType, NextEventType DEF Write, TypeOK
  <1>2. TypeOK'
    <2>1. chain' \in Seq(Event)
      <3>1. chain \in Seq(Event) /\ events[w] \in Seq(Event)
        BY DEF TypeOK
      <3>2. Append(events[w], NextEvent(w, events[w])) \in Seq(Event)
        BY <1>1, <3>1
      <3> QED BY <3>1, <3>2 DEF Write
    <2>2. file' \in [Files \ {"audit"} -> Seq(Entries)]
      <3>1. CASE Now(w).file = "audit"
        BY <3>1 DEF Write, TypeOK
      <3>2. CASE Now(w).file # "audit"
        <4>1. (IF Now(w).file = "case" THEN <<>> ELSE rows[w]) \in Seq(Entries)
          BY DEF TypeOK
        <4>2. Append(IF Now(w).file = "case" THEN <<>> ELSE rows[w],
                     Entry(w, Now(w).type)) \in Seq(Entries)
          BY <1>1, <4>1
        <4> QED BY <3>2, <4>2, <1>1 DEF Write, TypeOK
      <3> QED BY <3>1, <3>2
    <2>3. step' \in [Writers -> 1..6]
      <3>1. step \in [Writers -> 1..6]
        BY DEF TypeOK
      <3>2. CASE step' = step
        BY <3>1, <3>2
      <3>3. CASE step[w] < Len(Appends[op[w]]) /\ step' = [step EXCEPT ![w] = @ + 1]
        <4>1. step[w] + 1 \in 1..6
          <5> DEFINE n == Len(Appends[op[w]])
                     k == step[w]
          <5>1. k \in 1..6 /\ n \in 1..6 /\ k < n
            BY <1>1, <3>1, <3>3
          <5> HIDE DEF n, k
          <5>2. k + 1 \in 1..6
            BY <5>1
          <5> QED BY <5>2 DEF k
        <4> QED BY <3>1, <3>3, <4>1
      <3> QED BY <3>2, <3>3 DEF Write
    <2>4. phase' \in [Writers -> {"idle", "read", "write", "done", "failed", "dead"}]
      BY DEF Write, Leave, TypeOK
    <2>5. lock' \in Writers \cup {NoOne}
      BY DEF Write, Leave, TypeOK
    <2> QED BY <2>1, <2>2, <2>3, <2>4, <2>5 DEF Write, TypeOK
  <1>3. AtAppend'
    <2> SUFFICES ASSUME NEW v \in Writers, phase'[v] \in {"read", "write"}
                 PROVE  op'[v] \in DOMAIN Appends /\ step'[v] \in 1..Len(Appends[op'[v]])
      BY DEF AtAppend
    <2>1. CASE v = w
      BY <1>1, <2>1 DEF Write, Leave, TypeOK
    <2>2. CASE v # w
      BY <2>2 DEF Write, Leave, AtAppend, TypeOK
    <2> QED BY <2>1, <2>2
  <1>4. Verifies(chain)'
    <2>1. CASE Now(w).file = "audit"
      <3>1. events[w] \in Seq(Event) /\ Verifies(events[w])
        BY DEF TypeOK
      <3>2. Verifies(Append(events[w], NextEvent(w, events[w])))
        BY <3>1, AppendVerifies
      <3>3. chain' = Append(events[w], NextEvent(w, events[w]))
        BY <2>1 DEF Write
      <3> QED BY <3>2, <3>3
    <2>2. CASE Now(w).file # "audit"
      BY <2>2 DEF Write
    <2> QED BY <2>1, <2>2
  <1>5. (\A v \in Writers : Verifies(events[v]))'
    BY DEF Write
  <1> QED BY <1>2, <1>3, <1>4, <1>5

LEMMA WriteFailsKeeps ==
  ASSUME LedgerInv, NEW w \in Writers, WriteFails(w)
  PROVE  LedgerInv'
  <1> USE DEF LedgerInv, LedgerTypes
  <1>1. TypeOK'
    BY DEF WriteFails, Leave, TypeOK
  <1>2. AtAppend'
    BY DEF WriteFails, Leave, AtAppend, TypeOK
  <1>3. Verifies(chain)' /\ (\A v \in Writers : Verifies(events[v]))'
    BY DEF WriteFails
  <1> QED BY <1>1, <1>2, <1>3

LEMMA CrashKeeps ==
  ASSUME LedgerInv, Crash
  PROVE  LedgerInv'
  <1> USE DEF LedgerInv, LedgerTypes
  <1>1. TypeOK'
    BY LedgerAssumption DEF Crash, TypeOK
  <1>2. AtAppend'
    BY DEF Crash, AtAppend
  <1>3. Verifies(chain)' /\ (\A v \in Writers : Verifies(events[v]))'
    BY DEF Crash
  <1> QED BY <1>1, <1>2, <1>3

-----------------------------------------------------------------------------

\* The inductive invariant.
THEOREM LedgerInvariant == Spec => []LedgerInv
  <1>1. Init => LedgerInv
    BY InitLedger
  <1>2. LedgerInv /\ [Next]_vars => LedgerInv'
    <2> SUFFICES ASSUME LedgerInv, [Next]_vars
                 PROVE  LedgerInv'
      OBVIOUS
    <2>1. ASSUME NEW w \in Writers, NEW o \in Operations, Begin(w, o)
          PROVE  LedgerInv'
      BY <2>1, BeginKeeps
    <2>2. ASSUME NEW w \in Writers, Append1(w)
          PROVE  LedgerInv'
      BY <2>2, ReadKeeps, ReadFailsKeeps, WriteKeeps, WriteFailsKeeps DEF Append1
    <2>3. CASE Crash
      BY <2>3, CrashKeeps
    <2>4. CASE UNCHANGED vars
      BY <2>4 DEF vars, LedgerInv, LedgerTypes, TypeOK, AtAppend, Verifies
    <2> QED BY <2>1, <2>2, <2>3, <2>4 DEF Next
  <1> QED BY <1>1, <1>2, PTL DEF Spec

\* Every variable has its type.
THEOREM TypesHold == Spec => []TypeOK
  <1>1. LedgerInv => TypeOK
    BY DEF LedgerInv, LedgerTypes
  <1> QED BY <1>1, LedgerInvariant, PTL

\* The audit chain on disk verifies at every instant: for any number of
\* locked and unlocked writers, unreadable files, failed writes and crashes.
THEOREM ChainVerifiesHolds == Spec => []ChainVerifies
  <1>1. LedgerInv => ChainVerifies
    BY DEF LedgerInv, ChainVerifies
  <1> QED BY <1>1, LedgerInvariant, PTL

-----------------------------------------------------------------------------
(* Selecting entries by type.  OfType is a recursive function; what it     *)
(* does with one more entry is proved by induction, from the well-founded  *)
(* order of the naturals.                                                  *)

LessThan == {ss \in Nat \X Nat : ss[1] < ss[2]}

LEMMA LessThanWellFounded == IsWellFoundedOn(LessThan, Nat)
  BY NatLessThanWellFounded, Zenon DEF OpToRel, LessThan

\* A set of naturals with zero and, of each member, the successor, is Nat.
LEMMA InductiveSet ==
  ASSUME NEW T, T \subseteq Nat, 0 \in T, \A n \in T : n + 1 \in T
  PROVE  \A n \in Nat : n \in T
  <1> SUFFICES ASSUME Nat \ T # {} PROVE FALSE
    OBVIOUS
  <1>1. Nat \ T \subseteq Nat
    OBVIOUS
  <1>2. PICK x \in Nat \ T : \A y \in Nat \ T : ~(<<y, x>> \in LessThan)
    BY <1>1, LessThanWellFounded, WFMin
  <1>3. x # 0 /\ x - 1 \in Nat /\ (x - 1) + 1 = x
    OBVIOUS
  <1>4. <<x - 1, x>> \in LessThan
    BY <1>3 DEF LessThan
  <1> QED BY <1>2, <1>3, <1>4

\* What OfType computes for the first n entries, from what it has for those
\* before.
Selected(f, i, s, types) ==
  IF i = 0 THEN <<>>
  ELSE IF s[i].type \in types THEN Append(f[i - 1], s[i]) ELSE f[i - 1]
Selects(f, n, s, types) == f = [i \in 0..n |-> Selected(f, i, s, types)]

LEMMA SelectsExists ==
  ASSUME NEW s, NEW types, NEW m \in Nat
  PROVE  \E f : Selects(f, m, s, types)
  <1> DEFINE T == {n \in Nat : \E f : Selects(f, n, s, types)}
  <1>1. 0 \in T
    <2> DEFINE f == [i \in 0..0 |-> <<>>]
    <2>1. Selects(f, 0, s, types)
      BY DEF Selects, Selected
    <2> QED BY <2>1
  <1>2. ASSUME NEW n \in T
        PROVE  n + 1 \in T
    <2>1. PICK f : Selects(f, n, s, types)
      BY <1>2
    <2> DEFINE g == [i \in 0..(n + 1) |-> IF i \in 0..n THEN f[i] ELSE Selected(f, i, s, types)]
    <2>2. n \in Nat
      BY <1>2
    <2>3. \A i \in 0..n : f[i] = Selected(f, i, s, types)
      BY <2>1 DEF Selects
    <2>4. \A i \in 0..(n + 1) : g[i] = Selected(f, i, s, types)
      BY <2>3
    <2>5. \A i \in 0..(n + 1) : i # 0 => i - 1 \in 0..n /\ g[i - 1] = f[i - 1]
      BY <2>2
    <2>6. \A i \in 0..(n + 1) : g[i] = Selected(g, i, s, types)
      BY <2>4, <2>5 DEF Selected
    <2>7. Selects(g, n + 1, s, types)
      <3>1. g = [i \in 0..(n + 1) |-> g[i]]
        OBVIOUS
      <3> HIDE DEF g
      <3> QED BY <3>1, <2>6 DEF Selects
    <2> QED BY <2>2, <2>7
  <1>3. T \subseteq Nat
    OBVIOUS
  <1>4. m \in T
    <2> HIDE DEF T
    <2> QED BY <1>1, <1>2, <1>3, InductiveSet
  <1> QED BY <1>4

\* Two that agree on the entries agree on what they select.
LEMMA SelectsUnique ==
  ASSUME NEW s, NEW t, NEW types, NEW m \in Nat, NEW n \in Nat, m <= n,
         NEW f, NEW g, Selects(f, m, s, types), Selects(g, n, t, types),
         \A i \in 1..m : s[i] = t[i]
  PROVE  f[m] = g[m]
  <1> DEFINE T == {k \in Nat : k <= m => f[k] = g[k]}
  <1>1. /\ \A i \in 0..m : f[i] = Selected(f, i, s, types)
        /\ \A i \in 0..n : g[i] = Selected(g, i, t, types)
    BY DEF Selects
  <1>2. 0 \in T
    <2>1. f[0] = <<>> /\ g[0] = <<>>
      BY <1>1 DEF Selected
    <2> QED BY <2>1
  <1>3. ASSUME NEW k \in T
        PROVE  k + 1 \in T
    <2>1. k \in Nat
      BY <1>3
    <2> SUFFICES ASSUME k + 1 <= m PROVE f[k + 1] = g[k + 1]
      BY <2>1
    <2>2. /\ k + 1 \in 0..m /\ k + 1 \in 0..n /\ k + 1 \in 1..m /\ k <= m
          /\ (k + 1) - 1 = k /\ k + 1 # 0
      BY <2>1
    <2>3. f[k] = g[k] /\ s[k + 1] = t[k + 1]
      BY <1>3, <2>2
    <2> QED BY <1>1, <2>2, <2>3 DEF Selected
  <1>4. T \subseteq Nat
    OBVIOUS
  <1>5. m \in T
    <2> HIDE DEF T
    <2> QED BY <1>2, <1>3, <1>4, InductiveSet
  <1> QED BY <1>5

LEMMA OfTypeIs ==
  ASSUME NEW s, NEW types, Len(s) \in Nat
  PROVE  \E f : Selects(f, Len(s), s, types) /\ OfType(s, types) = f[Len(s)]
  <1> DEFINE F == CHOOSE f : Selects(f, Len(s), s, types)
  <1>1. Selects(F, Len(s), s, types)
    BY SelectsExists
  <1>2. OfType(s, types) = F[Len(s)]
    BY DEF OfType, Selects, Selected
  <1> HIDE DEF F
  <1> QED BY <1>1, <1>2

\* One more entry is appended to what is selected, or is not.
LEMMA OfTypeAppend ==
  ASSUME NEW S, NEW s \in Seq(S), NEW e \in S, NEW types
  PROVE  OfType(Append(s, e), types) =
           IF e.type \in types THEN Append(OfType(s, types), e) ELSE OfType(s, types)
  <1> DEFINE t == Append(s, e)
  <1>1. PICK n \in Nat : Len(s) = n
    OBVIOUS
  <1>2. t \in Seq(S) /\ Len(t) = n + 1 /\ t[n + 1] = e /\ \A i \in 1..n : s[i] = t[i]
    BY <1>1
  <1> HIDE DEF t
  <1>3. PICK f : Selects(f, n, s, types) /\ OfType(s, types) = f[n]
    BY <1>1, OfTypeIs
  <1>4. PICK g : Selects(g, n + 1, t, types) /\ OfType(t, types) = g[n + 1]
    BY <1>2, OfTypeIs
  <1>5. f[n] = g[n]
    BY <1>2, <1>3, <1>4, SelectsUnique
  <1>6. g[n + 1] = Selected(g, n + 1, t, types)
    BY <1>4 DEF Selects
  <1>7. n + 1 # 0 /\ (n + 1) - 1 = n
    OBVIOUS
  <1> QED BY <1>2, <1>3, <1>4, <1>5, <1>6, <1>7 DEF Selected, t

LEMMA AppendKeepsType ==
  ASSUME NEW S, NEW s \in Seq(S), NEW e \in S
  PROVE  Append(s, e) \in Seq(S)
  OBVIOUS

\* What is selected from a sequence is a sequence over the same set.
LEMMA OfTypeType ==
  ASSUME NEW S, NEW s \in Seq(S), NEW types
  PROVE  OfType(s, types) \in Seq(S)
  <1> DEFINE n == Len(s)
  <1>1. PICK f : Selects(f, n, s, types) /\ OfType(s, types) = f[n]
    BY OfTypeIs
  <1> DEFINE T == {k \in Nat : k <= n => f[k] \in Seq(S)}
  <1>2. n \in Nat /\ \A i \in 1..n : s[i] \in S
    OBVIOUS
  <1> HIDE DEF n
  <1>3. \A i \in 0..n : f[i] = Selected(f, i, s, types)
    BY <1>1 DEF Selects
  <1>4. 0 \in T
    <2>1. f[0] = <<>>
      BY <1>2, <1>3 DEF Selected
    <2>2. f[0] \in Seq(S)
      BY <2>1
    <2> QED BY <2>2, Zenon
  <1>5. ASSUME NEW k \in T
        PROVE  k + 1 \in T
    <2>1. k \in Nat
      BY <1>5
    <2> SUFFICES ASSUME k + 1 <= n PROVE f[k + 1] \in Seq(S)
      BY <2>1
    <2>2. k + 1 \in 0..n /\ k + 1 \in 1..n /\ k <= n /\ (k + 1) - 1 = k /\ k + 1 # 0
      BY <1>2, <2>1
    <2>3. f[k] \in Seq(S) /\ s[k + 1] \in S
      BY <1>2, <1>5, <2>2
    <2>4. f[k + 1] \in {f[k], Append(f[k], s[k + 1])}
      BY <1>3, <2>2 DEF Selected
    <2>5. Append(f[k], s[k + 1]) \in Seq(S)
      BY <2>3, AppendKeepsType, Zenon
    <2> HIDE DEF T
    <2> QED BY <2>3, <2>4, <2>5, Zenon
  <1>6. T \subseteq Nat
    OBVIOUS
  <1>7. n \in T
    <2> HIDE DEF T
    <2> QED BY <1>2, <1>4, <1>5, <1>6, InductiveSet
  <1> QED BY <1>1, <1>7, <1>2

LEMMA OfTypeEmpty == ASSUME NEW types PROVE OfType(<<>>, types) = <<>>
  <1>1. Len(<<>>) = 0
    OBVIOUS
  <1>2. PICK f : Selects(f, 0, <<>>, types) /\ OfType(<<>>, types) = f[0]
    BY <1>1, OfTypeIs
  <1> QED BY <1>2 DEF Selects, Selected

-----------------------------------------------------------------------------
(* The order of the appends of an operation *)

LEMMA Succession ==
  ASSUME NEW o \in DOMAIN Appends, NEW i \in 1..Len(Appends[o])
  PROVE  LET a == Appends[o][i]
             b == Appends[o][i + 1]
             more == i < Len(Appends[o])
         IN  /\ a.file = "evidence" => more /\ b = To("custody", "CUSTODY_CHANGE")
             /\ a.file = "custody" =>
                  a.type = "CUSTODY_CHANGE" /\ more /\ b = To("timeline", "CUSTODY_CHANGE")
             /\ a.file = "case" =>
                  a.type = "CASE_STATUS_UPDATED" /\ more /\ b = To("timeline", "CASE_STATUS_UPDATED")
             /\ a.file = "timeline" =>
                  a.type \in TimelineTypes /\ more /\ b = To("audit", a.type)
             /\ a.file = "audit" /\ more => b = To("timeline", "EVIDENCE_REGISTERED")
             /\ a.file \in {"evidence", "case", "custody"} => Locked(o)
             /\ i = 1 /\ a.type \in {"CUSTODY_CHANGE", "CASE_STATUS_UPDATED"} =>
                  a.file \in {"custody", "case"}
             /\ i = 1 /\ Locked(o) /\ a.file = "audit" => a.type \notin TimelineTypes
  <1> DEFINE n == Len(Appends[o])
  <1>1. CASE o = "STATUS"
    <2>1. n = 3 /\ i \in {1, 2, 3}
      BY <1>1 DEF Appends
    <2> QED BY <1>1, <2>1 DEF Appends, To, Locked, LockedOperations, TimelineTypes
  <1>2. CASE o = "CUSTODY"
    <2>1. n = 3 /\ i \in {1, 2, 3}
      BY <1>2 DEF Appends, Custody
    <2> QED BY <1>2, <2>1 DEF Appends, Custody, To, Locked, LockedOperations, TimelineTypes
  <1>3. CASE o = "EVIDENCE"
    <2> DEFINE q == Appends[o]
    <2>1. /\ n = 6 /\ i \in {1, 2, 3, 4, 5, 6}
          /\ q[1] = To("evidence", "EVIDENCE_REGISTERED")
          /\ q[2] = To("custody", "CUSTODY_CHANGE")
          /\ q[3] = To("timeline", "CUSTODY_CHANGE")
          /\ q[4] = To("audit", "CUSTODY_CHANGE")
          /\ q[5] = To("timeline", "EVIDENCE_REGISTERED")
          /\ q[6] = To("audit", "EVIDENCE_REGISTERED")
      BY <1>3 DEF Appends, Custody
    <2>2. Locked(o)
      BY <1>3 DEF Locked, LockedOperations
    <2> HIDE DEF q
    <2>3. CASE i = 1
      BY <2>1, <2>2, <2>3 DEF To, q, TimelineTypes
    <2>4. CASE i \in {2, 3, 4, 5}
      BY <2>1, <2>2, <2>4 DEF To, q, TimelineTypes
    <2>5. CASE i = 6
      BY <2>1, <2>2, <2>5 DEF To, q, TimelineTypes
    <2> QED BY <2>1, <2>3, <2>4, <2>5
  <1>4. CASE o = "RECOVERY"
    <2>1. Appends[o] = <<To("timeline", "RECOVERY_COMPLETED"), To("audit", "RECOVERY_COMPLETED")>>
      BY <1>4 DEF Appends, Recorded
    <2>2. n = 2 /\ i \in {1, 2}
      BY <2>1
    <2> QED BY <1>4, <2>1, <2>2 DEF To, Locked, LockedOperations, TimelineTypes
  <1>6. CASE o = "SCAN"
    <2>1. Appends[o] = <<To("timeline", "RECOVERY_SCAN"), To("audit", "RECOVERY_SCAN")>>
      BY <1>6 DEF Appends, Recorded
    <2>2. n = 2 /\ i \in {1, 2}
      BY <2>1
    <2> QED BY <1>6, <2>1, <2>2 DEF To, Locked, LockedOperations, TimelineTypes
  <1>5. CASE o = "SANITIZE"
    <2>1. n = 1 /\ i = 1
      BY <1>5 DEF Appends
    <2> QED BY <1>5, <2>1 DEF Appends, To, Locked, LockedOperations, TimelineTypes
  <1>7. CASE o = "BENCHMARK"
    <2>1. n = 1 /\ i = 1
      BY <1>7 DEF Appends
    <2> QED BY <1>7, <2>1 DEF Appends, To, Locked, LockedOperations, TimelineTypes
  <1> QED BY <1>1, <1>2, <1>3, <1>4, <1>5, <1>6, <1>7 DEF Appends

-----------------------------------------------------------------------------
(* Custody records come before custody events, whatever the workers do     *)
(* without the lock: only operations that hold it touch the records.       *)

Inside(w) == phase[w] \in {"read", "write"}

\* The lock belongs to the operation under way that needs it.
Held == \A w \in Writers : Inside(w) /\ Locked(op[w]) => lock = w

Contains(s, e) == \E k \in DOMAIN s : s[k] = e
HasRecord(e) == Contains(file["custody"], e)
Backed(evts) ==
  \A i \in DOMAIN evts : evts[i].entry.type = "CUSTODY_CHANGE" => HasRecord(evts[i].entry)

\* Nobody adds to the records between a read of them and the write.
CustodyCurrent ==
  \A w \in Writers : phase[w] = "write" /\ Now(w).file = "custody" => rows[w] = file["custody"]

\* Past its custody append, a custody operation has its record.
CustodyWritten ==
  \A w \in Writers :
    Inside(w) /\ Now(w).type = "CUSTODY_CHANGE" /\ Now(w).file # "custody" =>
      HasRecord(Entry(w, "CUSTODY_CHANGE"))

CustodyInv ==
  /\ Held /\ CustodyCurrent /\ CustodyWritten
  /\ Backed(chain) /\ \A w \in Writers : Backed(events[w])

LEMMA InitCustody == Init => CustodyInv
  <1> SUFFICES ASSUME Init PROVE CustodyInv
    OBVIOUS
  <1>1. \A w \in Writers : phase[w] = "idle" /\ events[w] = <<>>
    BY DEF Init
  <1>2. Held /\ CustodyCurrent /\ CustodyWritten
    BY <1>1 DEF Held, CustodyCurrent, CustodyWritten, Inside
  <1>3. Backed(chain)
    <2>1. \A i \in DOMAIN chain : chain[i].entry = Created
      BY DEF Init
    <2> QED BY <2>1 DEF Backed, Created
  <1>4. \A w \in Writers : Backed(events[w])
    BY <1>1 DEF Backed
  <1> QED BY <1>2, <1>3, <1>4 DEF CustodyInv

\* A writer that is not the one that moves stays at its append.
LEMMA OthersStay ==
  ASSUME LedgerInv, NEW w \in Writers,
         (\E o \in Operations : Begin(w, o)) \/ Append1(w)
  PROVE  \A v \in Writers \ {w} :
           /\ phase'[v] = phase[v] /\ Now(v)' = Now(v) /\ op'[v] = op[v]
           /\ rows'[v] = rows[v] /\ events'[v] = events[v]
  <1>1. TypeOK
    BY DEF LedgerInv, LedgerTypes
  <1>2. ASSUME NEW o \in Operations, Begin(w, o), NEW v \in Writers \ {w}
        PROVE  /\ phase'[v] = phase[v] /\ op'[v] = op[v] /\ step'[v] = step[v]
               /\ rows'[v] = rows[v] /\ events'[v] = events[v]
    BY <1>1, <1>2 DEF Begin, TypeOK
  <1>3. ASSUME Append1(w), NEW v \in Writers \ {w}
        PROVE  /\ phase'[v] = phase[v] /\ op'[v] = op[v] /\ step'[v] = step[v]
               /\ rows'[v] = rows[v] /\ events'[v] = events[v]
    <2>1. CASE Read(w)
      BY <1>1, <1>3, <2>1 DEF Read, TypeOK
    <2>2. CASE ReadFails(w)
      BY <1>1, <1>3, <2>2 DEF ReadFails, Leave, TypeOK
    <2>3. CASE Write(w)
      BY <1>1, <1>3, <2>3 DEF Write, Leave, TypeOK
    <2>4. CASE WriteFails(w)
      BY <1>1, <1>3, <2>4 DEF WriteFails, Leave, TypeOK
    <2> QED BY <1>3, <2>1, <2>2, <2>3, <2>4 DEF Append1
  <1> QED BY <1>2, <1>3 DEF Now

\* The lock is taken when it is free, and given back by its owner only.
LEMMA HeldKept ==
  ASSUME LedgerInv, Held, NEW w \in Writers,
         (\E o \in Operations : Begin(w, o)) \/ Append1(w)
  PROVE  Held'
  <1>1. TypeOK
    BY DEF LedgerInv, LedgerTypes
  <1>2. ASSUME NEW o \in Operations, Begin(w, o)
        PROVE  Held'
    <2>1. op'[w] = o
      BY <1>1, <1>2 DEF Begin, TypeOK
    <2>2. IF Locked(o) THEN lock = NoOne /\ lock' = w ELSE lock' = lock
      BY <1>2 DEF Begin
    <2>3. \A v \in Writers \ {w} : Inside(v)' /\ Locked(op'[v]) => lock = v
      BY <1>2, OthersStay DEF Held, Inside
    <2> QED BY <2>1, <2>2, <2>3, LedgerAssumption DEF Held, Locked
  <1>3. ASSUME Append1(w)
        PROVE  Held'
    <2>1. op' = op
      BY <1>3 DEF Append1, Read, ReadFails, Write, WriteFails
    <2>2. \A v \in Writers \ {w} : Inside(v)' /\ Locked(op'[v]) => lock = v
      BY <1>3, OthersStay DEF Held, Inside
    <2>3. \/ lock' = lock /\ Inside(w)
          \/ ~Inside(w)' /\ lock' = IF lock = w THEN NoOne ELSE lock
      <3>1. Inside(w)
        BY <1>3 DEF Append1, Read, ReadFails, Write, WriteFails, Inside
      <3>2. CASE Read(w)
        BY <3>1, <3>2 DEF Read
      <3>3. CASE ReadFails(w)
        BY <1>1, <3>1, <3>3 DEF ReadFails, Leave, Inside, TypeOK
      <3>4. CASE Write(w)
        BY <1>1, <3>1, <3>4 DEF Write, Leave, Inside, TypeOK
      <3>5. CASE WriteFails(w)
        BY <1>1, <3>1, <3>5 DEF WriteFails, Leave, Inside, TypeOK
      <3> QED BY <1>3, <3>2, <3>3, <3>4, <3>5 DEF Append1
    <2> QED BY <2>1, <2>2, <2>3 DEF Held, Locked
  <1> QED BY <1>2, <1>3

\* The append a writer is at, and what its operation says comes next.
LEMMA NowOrder ==
  ASSUME LedgerInv, NEW w \in Writers, Inside(w)
  PROVE  LET b == Appends[op[w]][step[w] + 1]
             more == step[w] < Len(Appends[op[w]])
         IN  /\ Now(w).file = "evidence" => more /\ b = To("custody", "CUSTODY_CHANGE")
             /\ Now(w).file = "custody" =>
                  /\ Now(w).type = "CUSTODY_CHANGE"
                  /\ more /\ b = To("timeline", "CUSTODY_CHANGE")
             /\ Now(w).file = "case" =>
                  /\ Now(w).type = "CASE_STATUS_UPDATED"
                  /\ more /\ b = To("timeline", "CASE_STATUS_UPDATED")
             /\ Now(w).file = "timeline" =>
                  /\ Now(w).type \in TimelineTypes
                  /\ more /\ b = To("audit", Now(w).type)
             /\ Now(w).file = "audit" /\ more => b = To("timeline", "EVIDENCE_REGISTERED")
             /\ Now(w).file \in {"evidence", "case", "custody"} => Locked(op[w])
  <1>1. op[w] \in DOMAIN Appends /\ step[w] \in 1..Len(Appends[op[w]])
    BY NowType DEF LedgerInv, Inside
  <1> QED BY <1>1, Succession DEF Now

\* A writer that goes on after a write is at the next append.
LEMMA WriteGoesOn ==
  ASSUME LedgerInv, NEW w \in Writers, Write(w), Inside(w)'
  PROVE  /\ step[w] < Len(Appends[op[w]])
         /\ Now(w)' = Appends[op[w]][step[w] + 1]
         /\ phase'[w] = "read"
  <1>1. TypeOK
    BY DEF LedgerInv, LedgerTypes
  <1>2. step[w] < Len(Appends[op[w]]) /\ step'[w] = step[w] + 1 /\ phase'[w] = "read"
    BY <1>1 DEF Write, Leave, Inside, TypeOK
  <1>3. op' = op
    BY DEF Write
  <1> QED BY <1>2, <1>3 DEF Now

\* The custody records change by an append of the writer that holds the lock.
LEMMA CustodyGrows ==
  ASSUME LedgerInv, CustodyInv, NEW w \in Writers, Append1(w)
  PROVE  \/ file'["custody"] = file["custody"]
         \/ /\ Write(w) /\ Now(w).file = "custody"
            /\ file'["custody"] = Append(file["custody"], Entry(w, "CUSTODY_CHANGE"))
  <1>1. TypeOK
    BY DEF LedgerInv, LedgerTypes
  <1>2. CASE Read(w) \/ ReadFails(w) \/ WriteFails(w)
    BY <1>2 DEF Read, ReadFails, WriteFails
  <1>3. CASE Write(w)
    <2>1. Inside(w) /\ phase[w] = "write"
      BY <1>3 DEF Write, Inside
    <2>2. CASE Now(w).file # "custody"
      BY <1>1, <1>3, <2>2 DEF Write, TypeOK, Files
    <2>3. CASE Now(w).file = "custody"
      <3>1. Now(w).type = "CUSTODY_CHANGE"
        BY <2>1, <2>3, NowOrder
      <3>2. rows[w] = file["custody"]
        BY <2>1, <2>3 DEF CustodyInv, CustodyCurrent
      <3>3. file' = [file EXCEPT !["custody"] = Append(rows[w], Entry(w, "CUSTODY_CHANGE"))]
        BY <1>3, <2>3, <3>1 DEF Write
      <3> QED BY <1>1, <1>3, <2>3, <3>2, <3>3 DEF TypeOK, Files
    <2> QED BY <2>2, <2>3
  <1> QED BY <1>2, <1>3 DEF Append1

\* A record that is there stays there, and an append adds its own.
LEMMA RecordsStay ==
  ASSUME LedgerInv, CustodyInv, NEW w \in Writers, Append1(w), NEW e, HasRecord(e)
  PROVE  Contains(file'["custody"], e)
  <1>1. file["custody"] \in Seq(Entries)
    BY DEF LedgerInv, LedgerTypes, TypeOK, Files
  <1>2. CASE file'["custody"] = file["custody"]
    BY <1>2 DEF HasRecord, Contains
  <1>3. CASE file'["custody"] = Append(file["custody"], Entry(w, "CUSTODY_CHANGE"))
    <2>1. PICK k \in DOMAIN file["custody"] : file["custody"][k] = e
      BY DEF HasRecord, Contains
    <2>2. k \in DOMAIN file'["custody"] /\ file'["custody"][k] = e
      BY <1>1, <1>3, <2>1
    <2> QED BY <2>2 DEF HasRecord, Contains
  <1> QED BY <1>2, <1>3, CustodyGrows

LEMMA RecordAdded ==
  ASSUME LedgerInv, CustodyInv, NEW w \in Writers, Write(w), Now(w).file = "custody"
  PROVE  Contains(file'["custody"], Entry(w, "CUSTODY_CHANGE"))
  <1> DEFINE r == file["custody"]
             e == Entry(w, "CUSTODY_CHANGE")
  <1>1. r \in Seq(Entries)
    BY DEF LedgerInv, LedgerTypes, TypeOK, Files
  <1>2. Inside(w) /\ rows[w] = r /\ Now(w).type = "CUSTODY_CHANGE"
    BY NowOrder DEF CustodyInv, CustodyCurrent, Write, Inside
  <1>3. file'["custody"] = Append(r, e)
    BY <1>2 DEF Write, LedgerInv, LedgerTypes, TypeOK, Files
  <1> HIDE DEF e
  <1>4. Len(r) + 1 \in DOMAIN Append(r, e) /\ Append(r, e)[Len(r) + 1] = e
    BY <1>1
  <1> QED BY <1>3, <1>4 DEF HasRecord, Contains, e

LEMMA BeginCustody ==
  ASSUME LedgerInv, CustodyInv, NEW w \in Writers, NEW o \in Operations, Begin(w, o)
  PROVE  CustodyInv'
  <1>1. TypeOK
    BY DEF LedgerInv, LedgerTypes
  <1>2. file' = file /\ chain' = chain /\ events' = events /\ rows' = rows
    BY DEF Begin
  <1>3. Held'
    BY HeldKept DEF CustodyInv
  <1>4. phase'[w] = "read" /\ Now(w)' = Appends[o][1]
    BY <1>1 DEF Begin, Now, TypeOK
  <1>5. CustodyCurrent'
    BY <1>2, <1>4, OthersStay DEF CustodyInv, CustodyCurrent
  <1>6. CustodyWritten'
    <2>1. Now(w)'.type = "CUSTODY_CHANGE" => Now(w)'.file = "custody"
      <3>1. o \in DOMAIN Appends
        BY OperationsAssumption
      <3>2. 1 \in 1..Len(Appends[o])
        <4> DEFINE n == Len(Appends[o])
        <4>1. n \in 1..6
          BY <3>1, AppendsType, Zenon
        <4> HIDE DEF n
        <4>2. 1 \in 1..n
          BY <4>1
        <4> QED BY <4>2 DEF n
      <3> QED BY <1>4, <3>1, <3>2, Succession
    <2>2. ASSUME NEW v \in Writers \ {w}, Inside(v)', Now(v)'.type = "CUSTODY_CHANGE",
                 Now(v)'.file # "custody"
          PROVE  HasRecord(Entry(v, "CUSTODY_CHANGE"))
      BY <2>2, OthersStay DEF CustodyInv, CustodyWritten, Inside
    <2>3. ASSUME NEW v \in Writers, Inside(v)', Now(v)'.type = "CUSTODY_CHANGE",
                 Now(v)'.file # "custody"
          PROVE  Contains(file'["custody"], Entry(v, "CUSTODY_CHANGE"))
      <3>1. HasRecord(Entry(v, "CUSTODY_CHANGE"))
        BY <2>1, <2>2, <2>3
      <3> QED BY <1>2, <3>1 DEF HasRecord, Contains, Entry
    <2> QED BY <2>3 DEF CustodyWritten, HasRecord
  <1>7. Backed(chain)' /\ (\A v \in Writers : Backed(events[v]))'
    BY <1>2 DEF CustodyInv, Backed, HasRecord, Contains
  <1> QED BY <1>3, <1>5, <1>6, <1>7 DEF CustodyInv

LEMMA BackedStays ==
  ASSUME LedgerInv, CustodyInv, NEW w \in Writers, Append1(w), NEW evts, Backed(evts)
  PROVE  \A i \in DOMAIN evts :
           evts[i].entry.type = "CUSTODY_CHANGE" => Contains(file'["custody"], evts[i].entry)
  BY RecordsStay DEF Backed

LEMMA AppendCustody ==
  ASSUME LedgerInv, CustodyInv, ~ReadFaults, NEW w \in Writers, Append1(w)
  PROVE  CustodyInv'
  <1>1. TypeOK
    BY DEF LedgerInv, LedgerTypes
  <1>2. Inside(w)
    BY DEF Append1, Read, ReadFails, Write, WriteFails, Inside
  <1>3. Held'
    BY HeldKept DEF CustodyInv
  <1>4. Read(w) \/ Write(w) \/ WriteFails(w)
    BY DEF Append1, ReadFails
  <1>5. CustodyCurrent'
    <2>1. ASSUME NEW v \in Writers \ {w}, phase'[v] = "write", Now(v)'.file = "custody"
          PROVE  rows'[v] = file'["custody"]
      <3>1. phase[v] = "write" /\ Now(v).file = "custody" /\ rows'[v] = rows[v]
        BY <2>1, OthersStay
      <3>2. rows[v] = file["custody"] /\ Inside(v)
        BY <3>1 DEF CustodyInv, CustodyCurrent, Inside
      <3>3. lock = v
        BY <3>1, <3>2, NowOrder DEF CustodyInv, Held
      <3>4. Now(w).file # "custody"
        BY <1>2, <3>3, NowOrder DEF CustodyInv, Held
      <3> QED BY <3>1, <3>2, <3>4, CustodyGrows
    <2>2. ASSUME phase'[w] = "write", Now(w)'.file = "custody"
          PROVE  rows'[w] = file'["custody"]
      <3>1. Read(w)
        BY <1>1, <1>4, <2>2 DEF Write, WriteFails, Leave, TypeOK
      <3> QED BY <1>1, <2>2, <3>1 DEF Read, Now, TypeOK
    <2> QED BY <2>1, <2>2 DEF CustodyCurrent
  <1>6. CustodyWritten'
    <2>1. ASSUME NEW v \in Writers \ {w}, Inside(v)', Now(v)'.type = "CUSTODY_CHANGE",
                 Now(v)'.file # "custody"
          PROVE  HasRecord(Entry(v, "CUSTODY_CHANGE"))
      BY <2>1, OthersStay DEF CustodyInv, CustodyWritten, Inside
    <2>2. ASSUME Inside(w)', Now(w)'.type = "CUSTODY_CHANGE", Now(w)'.file # "custody"
          PROVE  HasRecord(Entry(w, "CUSTODY_CHANGE")) \/ Contains(file'["custody"], Entry(w, "CUSTODY_CHANGE"))
      <3>1. CASE Read(w)
        BY <1>2, <2>2, <3>1 DEF Read, Now, CustodyInv, CustodyWritten
      <3>2. CASE WriteFails(w)
        BY <1>1, <2>2, <3>2 DEF WriteFails, Leave, Inside, TypeOK
      <3>3. CASE Write(w)
        <4>1. step[w] < Len(Appends[op[w]]) /\ Now(w)' = Appends[op[w]][step[w] + 1]
          BY <2>2, <3>3, WriteGoesOn
        <4>2. Now(w).file \in Files
          BY <1>2, NowType DEF LedgerInv, Inside
        <4>3. CASE Now(w).file = "custody"
          BY <3>3, <4>3, RecordAdded
        <4>4. CASE Now(w).file = "timeline"
          <5>1. Now(w)' = To("audit", Now(w).type)
            BY <1>2, <4>1, <4>4, NowOrder
          <5>2. Now(w)'.type = Now(w).type
            BY <5>1 DEF To
          <5>3. Now(w).type = "CUSTODY_CHANGE" /\ Now(w).file # "custody"
            BY <2>2, <4>4, <5>2
          <5> QED BY <1>2, <5>3 DEF CustodyInv, CustodyWritten
        <4>5. CASE Now(w).file \in {"evidence", "case", "audit"}
          <5>1. Now(w)' \in {To("custody", "CUSTODY_CHANGE"), To("timeline", "CASE_STATUS_UPDATED"),
                             To("timeline", "EVIDENCE_REGISTERED")}
            BY <1>2, <4>1, <4>5, NowOrder
          <5>2. Now(w)'.file = "custody" \/ Now(w)'.type # "CUSTODY_CHANGE"
            BY <5>1 DEF To
          <5> QED BY <2>2, <5>2
        <4> QED BY <4>2, <4>3, <4>4, <4>5 DEF Files
      <3> QED BY <1>4, <3>1, <3>2, <3>3
    <2>3. ASSUME NEW v \in Writers, Inside(v)', Now(v)'.type = "CUSTODY_CHANGE",
                 Now(v)'.file # "custody"
          PROVE  Contains(file'["custody"], Entry(v, "CUSTODY_CHANGE"))
      <3>1. HasRecord(Entry(v, "CUSTODY_CHANGE")) \/ Contains(file'["custody"], Entry(v, "CUSTODY_CHANGE"))
        BY <2>1, <2>2, <2>3
      <3>2. HasRecord(Entry(v, "CUSTODY_CHANGE")) => Contains(file'["custody"], Entry(v, "CUSTODY_CHANGE"))
        BY RecordsStay
      <3> QED BY <3>1, <3>2
    <2> QED BY <2>3 DEF CustodyWritten, HasRecord
  <1>7. Backed(chain)'
    <2>1. CASE chain' = chain
      <3>1. Backed(chain)
        BY DEF CustodyInv
      <3> QED BY <2>1, <3>1, BackedStays DEF Backed, HasRecord
    <2>2. CASE chain' # chain
      <3> DEFINE evts == events[w]
                 e == NextEvent(w, evts)
      <3>1. Write(w) /\ Now(w).file = "audit" /\ chain' = Append(evts, e)
        BY <1>4, <2>2 DEF Read, Write, WriteFails
      <3>2. evts \in Seq(Event) /\ Backed(evts)
        BY <1>1 DEF TypeOK, CustodyInv
      <3>3. e.entry = Entry(w, Now(w).type)
        BY DEF NextEvent
      <3>4. e.entry.type = "CUSTODY_CHANGE" => Contains(file'["custody"], e.entry)
        <4>1. ASSUME e.entry.type = "CUSTODY_CHANGE"
              PROVE  HasRecord(e.entry)
          BY <1>2, <3>1, <3>3, <4>1 DEF CustodyInv, CustodyWritten, Entry
        <4> QED BY <4>1, RecordsStay
      <3>5. \A i \in DOMAIN evts :
              evts[i].entry.type = "CUSTODY_CHANGE" => Contains(file'["custody"], evts[i].entry)
        BY <3>2, BackedStays
      <3> HIDE DEF evts, e
      <3>6. \A i \in DOMAIN Append(evts, e) :
              (i \in DOMAIN evts /\ Append(evts, e)[i] = evts[i]) \/ Append(evts, e)[i] = e
        BY <3>2
      <3>7. \A i \in DOMAIN chain' :
              (i \in DOMAIN evts /\ chain'[i] = evts[i]) \/ chain'[i] = e
        BY <3>1, <3>6
      <3>8. \A i \in DOMAIN chain' :
              chain'[i].entry.type = "CUSTODY_CHANGE" => Contains(file'["custody"], chain'[i].entry)
        <4> SUFFICES ASSUME NEW i \in DOMAIN chain', chain'[i].entry.type = "CUSTODY_CHANGE"
                     PROVE  Contains(file'["custody"], chain'[i].entry)
          OBVIOUS
        <4>1. CASE chain'[i] = e
          BY <3>4, <4>1 DEF HasRecord, Contains
        <4>2. CASE i \in DOMAIN evts /\ chain'[i] = evts[i]
          BY <3>5, <4>2 DEF HasRecord, Contains
        <4> QED BY <3>7, <4>1, <4>2
      <3> QED BY <3>8 DEF Backed, HasRecord
    <2> QED BY <2>1, <2>2
  <1>8. (\A v \in Writers : Backed(events[v]))'
    <2> SUFFICES ASSUME NEW v \in Writers
                 PROVE  Backed(events[v])'
      OBVIOUS
    <2>1. events'[v] \in {events[v], chain}
      BY <1>1, <1>4 DEF Read, Write, WriteFails, TypeOK
    <2>2. Backed(events[v]) /\ Backed(chain)
      BY DEF CustodyInv
    <2> QED BY <2>1, <2>2, BackedStays DEF Backed, HasRecord
  <1> QED BY <1>3, <1>5, <1>6, <1>7, <1>8 DEF CustodyInv

LEMMA CrashCustody ==
  ASSUME LedgerInv, CustodyInv, Crash
  PROVE  CustodyInv'
  <1>1. \A v \in Writers : ~Inside(v)' /\ phase'[v] # "write"
    BY DEF Crash, Inside
  <1>2. file' = file /\ chain' = chain /\ events' = events
    BY DEF Crash
  <1>3. Held' /\ CustodyCurrent' /\ CustodyWritten'
    BY <1>1 DEF Held, CustodyCurrent, CustodyWritten
  <1>4. Backed(chain)' /\ (\A v \in Writers : Backed(events[v]))'
    BY <1>2 DEF CustodyInv, Backed, HasRecord, Contains
  <1> QED BY <1>3, <1>4 DEF CustodyInv

\* What is true of the custody records while files can be read.
THEOREM CustodyInvariant ==
  ASSUME ~ReadFaults
  PROVE  Spec => []CustodyInv
  <1>1. Init => CustodyInv
    BY InitCustody
  <1>2. LedgerInv /\ CustodyInv /\ [Next]_vars => CustodyInv'
    <2> SUFFICES ASSUME LedgerInv, CustodyInv, [Next]_vars
                 PROVE  CustodyInv'
      OBVIOUS
    <2>1. ASSUME NEW w \in Writers, NEW o \in Operations, Begin(w, o)
          PROVE  CustodyInv'
      BY <2>1, BeginCustody
    <2>2. ASSUME NEW w \in Writers, Append1(w)
          PROVE  CustodyInv'
      BY <2>2, AppendCustody
    <2>3. CASE Crash
      BY <2>3, CrashCustody
    <2>4. CASE UNCHANGED vars
      BY <2>4 DEF vars, CustodyInv, Held, CustodyCurrent, CustodyWritten, Backed, HasRecord, Contains,
                  Inside, Now
    <2> QED BY <2>1, <2>2, <2>3, <2>4 DEF Next
  <1> QED BY <1>1, <1>2, LedgerInvariant, PTL DEF Spec

\* No custody event without its custody record: for any number of locked
\* and unlocked writers, failed writes and crashes, as long as the files can
\* be read (record_custody_event appends to custody.json first).
THEOREM CustodyFirstHolds ==
  ASSUME ~ReadFaults
  PROVE  Spec => []CustodyFirst
  <1>1. CustodyInv => CustodyFirst
    BY DEF CustodyInv, Backed, HasRecord, Contains, CustodyFirst
  <1> QED BY <1>1, CustodyInvariant, PTL

-----------------------------------------------------------------------------
(* The files of a case on which every writer takes the lock: its only      *)
(* operations are those of the manager.  Writers are then one at a time,   *)
(* and the files are ahead of the chain by what the one inside has         *)
(* appended so far.                                                        *)

OnlyLocked == ~ReadFaults /\ Operations \subseteq LockedOperations

\* What a writer has read is what the file still holds.
Current ==
  \A w \in Writers : phase[w] = "write" =>
    IF Now(w).file = "audit" THEN events[w] = chain ELSE rows[w] = file[Now(w).file]

\* An operation that has not begun leaves its thread idle.
IdleBefore == \A w \in Writers : op[w] = "none" => phase[w] = "idle"

Changes == {"CASE_CREATED", "CASE_STATUS_UPDATED"}
Last(s) == s[Len(s)]
LastStatus(evts) == Last(OfType(Logged(evts), Changes))
Records(evts) == OfType(Logged(evts), {"CUSTODY_CHANGE"})
Timed(evts) == OfType(Logged(evts), TimelineTypes)

\* The files tell what the chain tells.
AllAgree ==
  /\ file["timeline"] = Timed(chain)
  /\ file["custody"] = Records(chain)
  /\ file["case"] = <<LastStatus(chain)>>

\* The files tell what the chain tells, and what w has appended that the
\* chain does not hold yet.
Ahead(w, type, pending) ==
  /\ file["timeline"] = IF type \in TimelineTypes /\ pending = "audit"
                        THEN Append(Timed(chain), Entry(w, type)) ELSE Timed(chain)
  /\ file["custody"] = IF type = "CUSTODY_CHANGE" /\ pending \in {"timeline", "audit"}
                       THEN Append(Records(chain), Entry(w, type)) ELSE Records(chain)
  /\ file["case"] = IF type = "CASE_STATUS_UPDATED" /\ pending \in {"timeline", "audit"}
                    THEN <<Entry(w, type)>> ELSE <<LastStatus(chain)>>

Story ==
  Undisturbed =>
    /\ (\A w \in Writers : ~Inside(w)) => AllAgree
    /\ \A w \in Writers : Inside(w) => Ahead(w, Now(w).type, Now(w).file)

StoryInv == Current /\ IdleBefore /\ Story

LEMMA LoggedType ==
  ASSUME NEW evts \in Seq(Event)
  PROVE  Logged(evts) \in Seq(Entries) /\ Len(Logged(evts)) = Len(evts)
  <1>1. PICK n \in Nat : Len(evts) = n /\ DOMAIN evts = 1..n /\ \A i \in 1..n : evts[i] \in Event
    OBVIOUS
  <1>2. Logged(evts) = [i \in 1..n |-> evts[i].entry]
    BY <1>1 DEF Logged
  <1>3. \A i \in 1..n : evts[i].entry \in Entries
    BY <1>1 DEF Event
  <1> QED BY <1>1, <1>2, <1>3

LEMMA LoggedAppend ==
  ASSUME NEW evts \in Seq(Event), NEW e \in Event
  PROVE  Logged(Append(evts, e)) = Append(Logged(evts), e.entry)
  <1> DEFINE a == Append(evts, e)
             l == Logged(evts)
             b == Append(l, e.entry)
  <1>1. PICK n \in Nat : Len(evts) = n /\ DOMAIN evts = 1..n
    OBVIOUS
  <1>2. l \in Seq(Entries) /\ Len(l) = n /\ \A i \in 1..n : l[i] = evts[i].entry
    BY <1>1, LoggedType DEF Logged
  <1>3. DOMAIN a = 1..(n + 1) /\ a[n + 1] = e /\ \A i \in 1..n : a[i] = evts[i]
    BY <1>1
  <1> HIDE DEF l, a
  <1>4. e.entry \in Entries
    BY DEF Event
  <1>5. /\ b = [i \in 1..(n + 1) |-> b[i]]
        /\ b[n + 1] = e.entry /\ \A i \in 1..n : b[i] = l[i]
    BY <1>1, <1>2, <1>4
  <1> HIDE DEF b
  <1>6. \A i \in 1..(n + 1) : a[i].entry = b[i]
    <2> SUFFICES ASSUME NEW i \in 1..(n + 1) PROVE a[i].entry = b[i]
      OBVIOUS
    <2>1. i = n + 1 \/ i \in 1..n
      BY <1>1
    <2> QED BY <1>2, <1>3, <1>5, <2>1
  <1>7. Logged(a) = [i \in 1..(n + 1) |-> a[i].entry]
    BY <1>3 DEF Logged
  <1>8. Logged(a) = b
    BY <1>5, <1>6, <1>7
  <1> QED BY <1>8 DEF a, b, l

\* What one more event changes in what the chain tells.
LEMMA ChainTells ==
  ASSUME NEW evts \in Seq(Event), NEW e \in Event
  PROVE  LET new == Append(evts, e)
         IN  /\ Timed(new) = IF e.entry.type \in TimelineTypes
                             THEN Append(Timed(evts), e.entry) ELSE Timed(evts)
             /\ Records(new) = IF e.entry.type = "CUSTODY_CHANGE"
                               THEN Append(Records(evts), e.entry) ELSE Records(evts)
             /\ LastStatus(new) = IF e.entry.type \in Changes THEN e.entry ELSE LastStatus(evts)
  <1> DEFINE l == Logged(evts)
             new == Append(evts, e)
             x == e.entry
  <1>1. l \in Seq(Entries) /\ x \in Entries
    BY LoggedType DEF Event
  <1>2. Logged(new) = Append(l, x)
    BY LoggedAppend
  <1> HIDE DEF l, new, x
  <1>3. \A types : OfType(Logged(new), types) =
                     IF x.type \in types THEN Append(OfType(l, types), x) ELSE OfType(l, types)
    <2>1. \A types : OfType(Append(l, x), types) =
                       IF x.type \in types THEN Append(OfType(l, types), x) ELSE OfType(l, types)
      BY <1>1, OfTypeAppend, ZenonT(60)
    <2> QED BY <1>2, <2>1, Zenon
  <1>4. Records(new) = IF x.type = "CUSTODY_CHANGE" THEN Append(Records(evts), x) ELSE Records(evts)
    <2>1. x.type \in {"CUSTODY_CHANGE"} <=> x.type = "CUSTODY_CHANGE"
      OBVIOUS
    <2> QED BY <1>3, <2>1, Zenon DEF Records, l
  <1>5. LastStatus(new) = IF x.type \in Changes THEN x ELSE LastStatus(evts)
    <2> DEFINE c == OfType(l, Changes)
    <2>1. c \in Seq(Entries)
      BY <1>1, OfTypeType
    <2> HIDE DEF c
    <2>2. Last(Append(c, x)) = x
      BY <1>1, <2>1 DEF Last
    <2>3. OfType(Logged(new), Changes) = IF x.type \in Changes THEN Append(c, x) ELSE c
      BY <1>3, Zenon DEF c
    <2>4. LastStatus(evts) = Last(c)
      BY DEF LastStatus, c, l
    <2> QED BY <2>2, <2>3, <2>4, Zenon DEF LastStatus
  <1>6. Timed(new) = IF x.type \in TimelineTypes THEN Append(Timed(evts), x) ELSE Timed(evts)
    BY <1>3, Zenon DEF Timed, l
  <1> QED BY <1>4, <1>5, <1>6 DEF l, new, x

\* One writer is inside an operation at a time.
LEMMA Alone ==
  ASSUME OnlyLocked, LedgerInv, Held, NEW w \in Writers, Inside(w)
  PROVE  lock = w /\ \A v \in Writers \ {w} : ~Inside(v)
  <1>1. \A v \in Writers : Inside(v) => Locked(op[v])
    <2> SUFFICES ASSUME NEW v \in Writers, Inside(v) PROVE Locked(op[v])
      OBVIOUS
    <2>1. op[v] \in Operations \cup {"none"}
      BY DEF LedgerInv, LedgerTypes, TypeOK
    <2>2. op[v] \in DOMAIN Appends
      BY DEF LedgerInv, LedgerTypes, AtAppend, Inside
    <2> QED BY <2>1, <2>2 DEF OnlyLocked, Locked, Appends
  <1> QED BY <1>1 DEF Held

\* Nobody is inside before an operation that takes the lock, or before the
\* first append of one.
LEMMA AloneAtBegin ==
  ASSUME OnlyLocked, LedgerInv, Held, NEW w \in Writers, NEW o \in Operations, Begin(w, o)
  PROVE  \A v \in Writers : ~Inside(v)
  <1>1. Locked(o) /\ lock = NoOne
    BY DEF OnlyLocked, Locked, Begin
  <1> QED BY <1>1, Alone, LedgerAssumption

\* An operation that was cut short stays so.
LEMMA DisturbedStays ==
  ASSUME LedgerInv, IdleBefore, [Next]_vars, Undisturbed'
  PROVE  Undisturbed
  <1>1. TypeOK
    BY DEF LedgerInv, LedgerTypes
  <1>2. ASSUME Crash PROVE FALSE
    BY <1>1, <1>2 DEF Crash, Undisturbed, TypeOK
  <1>3. ASSUME NEW w \in Writers, NEW o \in Operations, Begin(w, o)
        PROVE  Undisturbed
    <2>1. phase[w] = "idle" /\ crashes' = crashes
      BY <1>3 DEF IdleBefore, Begin
    <2> QED BY <1>3, <2>1, OthersStay DEF Undisturbed
  <1>4. ASSUME NEW w \in Writers, Append1(w)
        PROVE  Undisturbed
    <2>1. Inside(w) /\ crashes' = crashes
      BY <1>4 DEF Append1, Read, ReadFails, Write, WriteFails, Inside
    <2> QED BY <1>4, <2>1, OthersStay DEF Undisturbed, Inside
  <1>5. CASE UNCHANGED vars
    BY <1>5 DEF vars, Undisturbed
  <1> QED BY <1>2, <1>3, <1>4, <1>5 DEF Next

\* An append adds one entry to its file, and leaves the other files alone.
LEMMA OneAppend ==
  ASSUME LedgerInv, Current, NEW w \in Writers, Write(w)
  PROVE  LET f == Now(w).file
             e == Entry(w, Now(w).type)
         IN  /\ f = "audit" => /\ chain' = Append(chain, NextEvent(w, chain))
                               /\ file' = file
             /\ f # "audit" =>
                  /\ chain' = chain
                  /\ file'[f] = IF f = "case" THEN <<e>> ELSE Append(file[f], e)
                  /\ \A g \in Files \ {"audit", f} : file'[g] = file[g]
  <1>1. phase[w] = "write" /\ Inside(w) /\ file \in [Files \ {"audit"} -> Seq(Entries)]
    BY DEF Write, Inside, LedgerInv, LedgerTypes, TypeOK
  <1>2. IF Now(w).file = "audit" THEN events[w] = chain ELSE rows[w] = file[Now(w).file]
    BY <1>1 DEF Current
  <1>3. CASE Now(w).file = "audit"
    BY <1>2, <1>3 DEF Write
  <1>4. CASE Now(w).file # "audit"
    <2> DEFINE f == Now(w).file
               e == Entry(w, Now(w).type)
    <2>1. f \in Files \ {"audit"}
      BY <1>1, <1>4, NowType DEF LedgerInv, Inside
    <2>2. /\ chain' = chain
          /\ file' = [file EXCEPT ![f] = Append(IF f = "case" THEN <<>> ELSE rows[w], e)]
      BY <1>4 DEF Write
    <2>3. rows[w] = file[f]
      BY <1>2, <1>4
    <2> HIDE DEF f, e
    <2>4. Append(<<>>, e) = <<e>>
      OBVIOUS
    <2>5. /\ file'[f] = IF f = "case" THEN <<e>> ELSE Append(file[f], e)
          /\ \A g \in Files \ {"audit", f} : file'[g] = file[g]
      BY <1>1, <2>1, <2>2, <2>3, <2>4, Zenon
    <2> QED BY <1>4, <2>2, <2>5 DEF f, e
  <1> QED BY <1>3, <1>4

\* What a write makes of the story: the next append is ahead by what was
\* written, or the operation is over and the files agree.
LEMMA WriteStory ==
  ASSUME OnlyLocked, LedgerInv, Held, Current, NEW w \in Writers, Write(w),
         Ahead(w, Now(w).type, Now(w).file)
  PROVE  /\ Inside(w)' => Ahead(w, Now(w).type, Now(w).file)'
         /\ ~Inside(w)' => AllAgree'
  <1> DEFINE type == Now(w).type
             f == Now(w).file
             e == Entry(w, type)
  <1>1. /\ Inside(w) /\ f \in Files /\ type \in Types /\ chain \in Seq(Event)
        /\ NextEvent(w, chain) \in Event
    BY NowType, NextEventType DEF Write, Inside, LedgerInv, LedgerTypes, TypeOK
  <1>2. Inside(w)' <=> step[w] < Len(Appends[op[w]])
    <2>1. TypeOK
      BY DEF LedgerInv, LedgerTypes
    <2>2. step[w] < Len(Appends[op[w]]) \/ step[w] = Len(Appends[op[w]])
      BY DEF Write
    <2>3. ASSUME step[w] = Len(Appends[op[w]]) PROVE ~(step[w] < Len(Appends[op[w]]))
      <3>1. step[w] \in 1..6
        BY <2>1 DEF TypeOK
      <3> QED BY <2>3, <3>1
    <2>4. step[w] < Len(Appends[op[w]]) => phase'[w] = "read"
      BY <2>1, <2>3 DEF Write, TypeOK
    <2>5. step[w] = Len(Appends[op[w]]) => phase'[w] = "done"
      BY <2>1, <2>3 DEF Write, Leave, TypeOK
    <2> QED BY <2>2, <2>3, <2>4, <2>5 DEF Inside
  <1>3. Inside(w)' => Now(w)' = Appends[op[w]][step[w] + 1]
    BY WriteGoesOn
  <1>4. CASE f # "audit"
    <2>1. /\ chain' = chain
          /\ file'[f] = IF f = "case" THEN <<e>> ELSE Append(file[f], e)
          /\ \A g \in Files \ {"audit", f} : file'[g] = file[g]
      BY <1>4, OneAppend
    <2>2. CASE f = "evidence"
      <3>1. Inside(w)' /\ Now(w)' = To("custody", "CUSTODY_CHANGE")
        BY <1>1, <1>2, <1>3, <2>2, NowOrder
      <3> QED BY <2>1, <2>2, <3>1 DEF Ahead, To, Files
    <2>3. CASE f = "custody"
      <3>1. Inside(w)' /\ Now(w)' = To("timeline", "CUSTODY_CHANGE") /\ type = "CUSTODY_CHANGE"
        BY <1>1, <1>2, <1>3, <2>3, NowOrder
      <3> QED BY <2>1, <2>3, <3>1 DEF Ahead, To, Files
    <2>4. CASE f = "case"
      <3>1. /\ Inside(w)' /\ Now(w)' = To("timeline", "CASE_STATUS_UPDATED")
            /\ type = "CASE_STATUS_UPDATED"
        BY <1>1, <1>2, <1>3, <2>4, NowOrder
      <3> QED BY <2>1, <2>4, <3>1 DEF Ahead, To, Files
    <2>5. CASE f = "timeline"
      <3>1. Inside(w)' /\ Now(w)' = To("audit", type) /\ type \in TimelineTypes
        BY <1>1, <1>2, <1>3, <2>5, NowOrder
      <3>2. /\ file["timeline"] = Timed(chain)
            /\ file["custody"] = IF type = "CUSTODY_CHANGE" THEN Append(Records(chain), e)
                                 ELSE Records(chain)
            /\ file["case"] = IF type = "CASE_STATUS_UPDATED" THEN <<e>> ELSE <<LastStatus(chain)>>
        BY <2>5 DEF Ahead
      <3>3. /\ file'["timeline"] = Append(Timed(chain), e)
            /\ file'["custody"] = file["custody"] /\ file'["case"] = file["case"]
        BY <2>1, <2>5, <3>2 DEF Files
      <3>4. Now(w)'.type = type /\ Now(w)'.file = "audit"
        BY <3>1 DEF To
      <3> HIDE DEF e, type
      <3>5. e = Entry(w, type)
        BY DEF e
      <3>6. Ahead(w, Now(w).type, Now(w).file)'
        BY <2>1, <3>1, <3>2, <3>3, <3>4, <3>5 DEF Ahead
      <3> QED BY <3>1, <3>6
    <2> QED BY <1>1, <1>4, <2>2, <2>3, <2>4, <2>5 DEF Files
  <1>5. CASE f = "audit"
    <2>1. chain' = Append(chain, NextEvent(w, chain)) /\ file' = file
      BY <1>5, OneAppend
    <2>2. NextEvent(w, chain).entry = e /\ e.type = type
      BY DEF NextEvent, Entry
    <2>3. type \in Changes <=> type = "CASE_STATUS_UPDATED"
      BY <1>1 DEF Types, TimelineTypes, Changes
    <2>4. /\ Timed(chain') = IF type \in TimelineTypes THEN Append(Timed(chain), e)
                             ELSE Timed(chain)
          /\ Records(chain') = IF type = "CUSTODY_CHANGE" THEN Append(Records(chain), e)
                               ELSE Records(chain)
          /\ LastStatus(chain') = IF type = "CASE_STATUS_UPDATED" THEN e ELSE LastStatus(chain)
      <3> DEFINE n == NextEvent(w, chain)
                 new == Append(chain, n)
      <3>1. /\ Timed(new) = IF n.entry.type \in TimelineTypes
                            THEN Append(Timed(chain), n.entry) ELSE Timed(chain)
            /\ Records(new) = IF n.entry.type = "CUSTODY_CHANGE"
                              THEN Append(Records(chain), n.entry) ELSE Records(chain)
            /\ LastStatus(new) = IF n.entry.type \in Changes THEN n.entry ELSE LastStatus(chain)
        BY <1>1, ChainTells
      <3> HIDE DEF new, e
      <3>2. chain' = new /\ n.entry = e /\ n.entry.type = type
        BY <2>1, <2>2 DEF new
      <3> HIDE DEF n
      <3> QED BY <2>3, <3>1, <3>2
    <2>5. AllAgree'
      <3>1. /\ file["timeline"] = IF type \in TimelineTypes THEN Append(Timed(chain), e)
                                  ELSE Timed(chain)
            /\ file["custody"] = IF type = "CUSTODY_CHANGE" THEN Append(Records(chain), e)
                                 ELSE Records(chain)
            /\ file["case"] = IF type = "CASE_STATUS_UPDATED" THEN <<e>> ELSE <<LastStatus(chain)>>
        BY <1>5 DEF Ahead
      <3>2. /\ file'["timeline"] = Timed(chain')
            /\ file'["custody"] = Records(chain')
            /\ file'["case"] = <<LastStatus(chain')>>
        BY <2>1, <2>4, <3>1
      <3> QED BY <3>2 DEF AllAgree
    <2>6. ASSUME Inside(w)' PROVE Ahead(w, Now(w).type, Now(w).file)'
      <3>1. Now(w)' = To("timeline", "EVIDENCE_REGISTERED")
        BY <1>1, <1>2, <1>3, <1>5, <2>6, NowOrder
      <3> QED BY <2>5, <3>1 DEF AllAgree, Ahead, To
    <2> QED BY <2>5, <2>6
  <1> QED BY <1>4, <1>5

LEMMA InitStory == Init => StoryInv
  <1> SUFFICES ASSUME Init PROVE StoryInv
    OBVIOUS
  <1>1. \A w \in Writers : phase[w] = "idle" /\ ~Inside(w)
    BY DEF Init, Inside
  <1>2. Current /\ IdleBefore
    BY <1>1 DEF Current, IdleBefore
  <1>3. AllAgree
    <2>1. Created \in Entries /\ Created.type = "CASE_CREATED"
      BY DEF Entries, Created
    <2>2. Logged(chain) = <<Created>>
      BY DEF Init, Logged
    <2>3. \A types : OfType(<<Created>>, types) = IF Created.type \in types THEN <<Created>> ELSE <<>>
      <3>1. <<>> \in Seq(Entries) /\ Append(<<>>, Created) = <<Created>>
        OBVIOUS
      <3>2. \A types : OfType(Append(<<>>, Created), types) =
              IF Created.type \in types THEN Append(OfType(<<>>, types), Created)
              ELSE OfType(<<>>, types)
        BY <2>1, <3>1, OfTypeAppend, ZenonT(60)
      <3> QED BY <3>1, <3>2, OfTypeEmpty
    <2>4. Records(chain) = <<>>
      BY <2>1, <2>2, <2>3 DEF Records
    <2>5. LastStatus(chain) = Created
      <3>1. OfType(Logged(chain), Changes) = <<Created>>
        BY <2>1, <2>2, <2>3 DEF Changes
      <3> QED BY <3>1 DEF LastStatus, Last
    <2>6. Timed(chain) = <<Created>>
      BY <2>1, <2>2, <2>3 DEF Timed, TimelineTypes
    <2> QED BY <2>4, <2>5, <2>6 DEF Init, AllAgree, Files
  <1> QED BY <1>1, <1>2, <1>3 DEF StoryInv, Story

LEMMA BeginStory ==
  ASSUME OnlyLocked, LedgerInv, Held, StoryInv, NEW w \in Writers, NEW o \in Operations,
         Begin(w, o)
  PROVE  StoryInv'
  <1>1. TypeOK
    BY DEF LedgerInv, LedgerTypes
  <1>2. file' = file /\ chain' = chain /\ events' = events /\ rows' = rows
    BY DEF Begin
  <1>3. phase'[w] = "read" /\ op'[w] = o /\ Now(w)' = Appends[o][1]
    BY <1>1 DEF Begin, Now, TypeOK
  <1>4. Current'
    BY <1>2, <1>3, OthersStay DEF StoryInv, Current
  <1>5. IdleBefore'
    <2>1. o # "none"
      BY OperationsAssumption DEF Appends
    <2> QED BY <1>3, <2>1, OthersStay DEF StoryInv, IdleBefore
  <1>6. Story'
    <2> SUFFICES ASSUME Undisturbed'
                 PROVE  /\ (\A v \in Writers : ~Inside(v))' => AllAgree'
                        /\ \A v \in Writers : Inside(v)' => Ahead(v, Now(v).type, Now(v).file)'
      BY DEF Story
    <2>1. AllAgree
      <3>1. Undisturbed
        BY DisturbedStays DEF Next, StoryInv
      <3> QED BY <3>1, AloneAtBegin DEF StoryInv, Story
    <2>2. Inside(w)' /\ \A v \in Writers \ {w} : ~Inside(v)'
      BY <1>3, AloneAtBegin, OthersStay DEF Inside
    <2>3. Ahead(w, Now(w).type, Now(w).file)'
      <3> DEFINE a == Appends[o][1]
      <3>1. /\ a.file = "audit" => a.type \notin TimelineTypes
            /\ a.type \in {"CUSTODY_CHANGE", "CASE_STATUS_UPDATED"} => a.file \in {"custody", "case"}
        <4>1. o \in DOMAIN Appends /\ Locked(o)
          BY OperationsAssumption DEF OnlyLocked, Locked
        <4>2. 1 \in 1..Len(Appends[o])
          <5> DEFINE n == Len(Appends[o])
          <5>1. n \in 1..6
            BY <4>1, AppendsType, Zenon
          <5> HIDE DEF n
          <5>2. 1 \in 1..n
            BY <5>1
          <5> QED BY <5>2 DEF n
        <4> QED BY <4>1, <4>2, Succession
      <3>2. Now(w)' = a
        BY <1>3
      <3> HIDE DEF a
      <3> QED BY <1>2, <2>1, <3>1, <3>2 DEF AllAgree, Ahead
    <2> QED BY <2>2, <2>3
  <1> QED BY <1>4, <1>5, <1>6 DEF StoryInv

LEMMA AppendStory ==
  ASSUME OnlyLocked, LedgerInv, Held, StoryInv, NEW w \in Writers, Append1(w)
  PROVE  StoryInv'
  <1>1. TypeOK
    BY DEF LedgerInv, LedgerTypes
  <1>2. Inside(w) /\ op' = op
    BY DEF Append1, Read, ReadFails, Write, WriteFails, Inside
  <1>3. \A v \in Writers \ {w} : ~Inside(v) /\ ~Inside(v)' /\ phase'[v] = phase[v]
    BY <1>2, Alone, OthersStay DEF Inside
  <1>4. Read(w) \/ Write(w) \/ WriteFails(w)
    BY DEF Append1, ReadFails, OnlyLocked
  <1>5. Current'
    <2>1. \A v \in Writers \ {w} : phase'[v] # "write"
      BY <1>3 DEF Inside
    <2>2. ASSUME phase'[w] = "write"
          PROVE  IF Now(w)'.file = "audit" THEN events'[w] = chain'
                 ELSE rows'[w] = file'[Now(w)'.file]
      <3>1. Read(w)
        BY <1>1, <1>4, <2>2 DEF Write, WriteFails, Leave, TypeOK
      <3> QED BY <1>1, <3>1 DEF Read, Now, TypeOK
    <2> QED BY <2>1, <2>2 DEF Current
  <1>6. IdleBefore'
    <2>1. op[w] # "none"
      BY <1>2 DEF StoryInv, IdleBefore, Inside
    <2> QED BY <1>2, <1>3, <2>1 DEF StoryInv, IdleBefore
  <1>7. Story'
    <2> SUFFICES ASSUME Undisturbed'
                 PROVE  /\ (\A v \in Writers : ~Inside(v))' => AllAgree'
                        /\ \A v \in Writers : Inside(v)' => Ahead(v, Now(v).type, Now(v).file)'
      BY DEF Story
    <2>1. Ahead(w, Now(w).type, Now(w).file)
      <3>1. Undisturbed
        BY DisturbedStays DEF Next, StoryInv
      <3> QED BY <1>2, <3>1 DEF StoryInv, Story
    <2>2. CASE Read(w)
      <3>1. Inside(w)' /\ Now(w)' = Now(w) /\ file' = file /\ chain' = chain
        BY <1>1, <2>2 DEF Read, Inside, Now, TypeOK
      <3> QED BY <1>3, <2>1, <3>1 DEF Ahead
    <2>3. CASE Write(w)
      <3>1. /\ Inside(w)' => Ahead(w, Now(w).type, Now(w).file)'
            /\ ~Inside(w)' => AllAgree'
        BY <2>1, <2>3, WriteStory DEF StoryInv
      <3> QED BY <1>3, <3>1
    <2>4. ~WriteFails(w)
      BY <1>1 DEF WriteFails, Leave, Undisturbed, TypeOK
    <2> QED BY <1>4, <2>2, <2>3, <2>4
  <1> QED BY <1>5, <1>6, <1>7 DEF StoryInv

LEMMA CrashStory ==
  ASSUME LedgerInv, StoryInv, Crash
  PROVE  StoryInv'
  <1>1. TypeOK
    BY DEF LedgerInv, LedgerTypes
  <1>2. Current'
    BY DEF Crash, Current
  <1>3. IdleBefore'
    BY DEF Crash, StoryInv, IdleBefore
  <1>4. ~Undisturbed'
    BY <1>1 DEF Crash, Undisturbed, TypeOK
  <1> QED BY <1>2, <1>3, <1>4 DEF StoryInv, Story

\* While only the operations that take the lock write to a case, the files
\* tell the chain's story, up to the appends of the one operation under way.
THEOREM StoryInvariant ==
  ASSUME OnlyLocked
  PROVE  Spec => []StoryInv
  <1>1. Init => StoryInv
    BY InitStory
  <1>2. LedgerInv /\ CustodyInv /\ StoryInv /\ [Next]_vars => StoryInv'
    <2> SUFFICES ASSUME LedgerInv, CustodyInv, StoryInv, [Next]_vars
                 PROVE  StoryInv'
      OBVIOUS
    <2>1. Held
      BY DEF CustodyInv
    <2>2. ASSUME NEW w \in Writers, NEW o \in Operations, Begin(w, o)
          PROVE  StoryInv'
      BY <2>1, <2>2, BeginStory
    <2>3. ASSUME NEW w \in Writers, Append1(w)
          PROVE  StoryInv'
      BY <2>1, <2>3, AppendStory
    <2>4. CASE Crash
      BY <2>4, CrashStory
    <2>5. CASE UNCHANGED vars
      BY <2>5 DEF vars, StoryInv, Current, IdleBefore, Story, Undisturbed, AllAgree, Ahead,
                  Inside, Now
    <2> QED BY <2>2, <2>3, <2>4, <2>5 DEF Next
  <1>3. ~ReadFaults
    BY DEF OnlyLocked
  <1>4. Spec => []CustodyInv
    BY <1>3, CustodyInvariant
  <1> QED BY <1>1, <1>2, <1>4, LedgerInvariant, PTL DEF Spec

LEMMA NobodyInside ==
  ASSUME Held, LedgerInv, OnlyLocked, lock = NoOne
  PROVE  \A w \in Writers : ~Inside(w)
  BY Alone, LedgerAssumption

\* When the lock is free and no operation was cut short, the custody records
\* and the custody events of the chain verify against each other
\* (verify_custody_records), for any number of writers that take the lock.
THEOREM CustodyVerifiesHolds ==
  ASSUME OnlyLocked
  PROVE  Spec => []CustodyVerifies
  <1>1. LedgerInv /\ CustodyInv /\ StoryInv => CustodyVerifies
    BY NobodyInside
       DEF CustodyInv, StoryInv, Story, AllAgree, Records, CustodyVerifies, CustodyValid
  <1>2. ~ReadFaults
    BY DEF OnlyLocked
  <1>3. Spec => []CustodyInv
    BY <1>2, CustodyInvariant
  <1>4. Spec => []StoryInv
    BY StoryInvariant
  <1> QED BY <1>1, <1>3, <1>4, LedgerInvariant, PTL

\* When the lock is free and no operation was cut short, the timeline holds
\* the entries of the chain, in their order, but for those of operations that
\* only log, such as record_performance_benchmark, and case.json holds the
\* status recorded last.
THEOREM FilesAgreeHolds ==
  ASSUME OnlyLocked
  PROVE  Spec => []FilesAgree
  <1>1. LedgerInv /\ CustodyInv /\ StoryInv => FilesAgree
    BY NobodyInside
       DEF CustodyInv, StoryInv, Story, AllAgree, Timed, LastStatus, Last, Changes, FilesAgree
  <1>2. ~ReadFaults
    BY DEF OnlyLocked
  <1>3. Spec => []CustodyInv
    BY <1>2, CustodyInvariant
  <1>4. Spec => []StoryInv
    BY StoryInvariant
  <1> QED BY <1>1, <1>3, <1>4, LedgerInvariant, PTL

\* The audit chain is append-only while every writer takes the lock: no event
\* is lost or moved, whatever crashes and failed writes do.
THEOREM AuditAppendOnlyHolds ==
  ASSUME OnlyLocked
  PROVE  Spec => AuditAppendOnly
  <1> DEFINE A == /\ Len(chain') = Len(chain) + 1
                  /\ SubSeq(chain', 1, Len(chain)) = chain
  <1>1. LedgerInv /\ StoryInv /\ [Next]_vars => [A]_chain
    <2> SUFFICES ASSUME LedgerInv, StoryInv, [Next]_vars, chain' # chain
                 PROVE  A
      OBVIOUS
    <2>1. PICK w \in Writers : Write(w)
      <3>1. \A w \in Writers, o \in Operations : ~Begin(w, o)
        BY DEF Begin
      <3>2. ~Crash /\ vars' # vars
        BY DEF Crash, vars
      <3>3. PICK w \in Writers : Append1(w)
        BY <3>1, <3>2 DEF Next
      <3> QED BY <3>3 DEF Append1, Read, ReadFails, WriteFails
    <2>2. Now(w).file = "audit" /\ events[w] = chain
      BY <2>1 DEF Write, StoryInv, Current
    <2>3. /\ chain \in Seq(Event) /\ NextEvent(w, chain) \in Event
          /\ chain' = Append(chain, NextEvent(w, chain))
      BY <2>1, <2>2, NextEventType DEF Write, LedgerInv, LedgerTypes, TypeOK
    <2> DEFINE e == NextEvent(w, chain)
    <2> HIDE DEF e
    <2>4. Len(Append(chain, e)) = Len(chain) + 1 /\ SubSeq(Append(chain, e), 1, Len(chain)) = chain
      BY <2>3 DEF e
    <2> QED BY <2>3, <2>4 DEF e
  <1>2. Spec => []StoryInv
    BY StoryInvariant
  <1> QED BY <1>1, <1>2, LedgerInvariant, PTL DEF Spec, AuditAppendOnly

=============================================================================
