------------------------- MODULE MediaImager_proofs -------------------------
(***************************************************************************)
(* What MediaImager guarantees for every size of the medium and of a       *)
(* chunk, every pattern of bad sectors and every number of mapfiles.       *)
(***************************************************************************)
EXTENDS MediaImager, SequenceTheorems, WellFoundedInduction, TLAPS

-----------------------------------------------------------------------------
(* Induction and extrema over the naturals *)

LessThan == {ss \in Nat \X Nat : ss[1] < ss[2]}

LEMMA LessThanWellFounded == IsWellFoundedOn(LessThan, Nat)
  BY NatLessThanWellFounded, Zenon DEF OpToRel, LessThan

\* A set of naturals with zero and, of each member, the successor, is Nat.
LEMMA InductiveSet ==
  ASSUME NEW T, T \subseteq Nat, 0 \in T, \A n \in T : n + 1 \in T
  PROVE  \A n \in Nat : n \in T
  <1> SUFFICES ASSUME Nat \ T # {} PROVE FALSE
    OBVIOUS
  <1>1. Nat \ T \subseteq Nat
    OBVIOUS
  <1>2. PICK x \in Nat \ T : \A y \in Nat \ T : ~(<<y, x>> \in LessThan)
    BY <1>1, LessThanWellFounded, WFMin
  <1>3. x # 0 /\ x - 1 \in Nat /\ (x - 1) + 1 = x
    OBVIOUS
  <1>4. <<x - 1, x>> \in LessThan
    BY <1>3 DEF LessThan
  <1> QED BY <1>2, <1>3, <1>4

LEMMA MaxIs ==
  ASSUME NEW S \in SUBSET Nat, NEW m \in S, \A x \in S : x <= m
  PROVE  Max(S) = m
  <1>1. \A n \in S : (\A x \in S : n >= x) => n = m
    OBVIOUS
  <1>2. \A x \in S : m >= x
    OBVIOUS
  <1> QED BY <1>1, <1>2, Zenon DEF Max

LEMMA MinIs ==
  ASSUME NEW S \in SUBSET Nat, NEW m \in S, \A x \in S : m <= x
  PROVE  Min(S) = m
  <1>1. \A n \in S : (\A x \in S : n <= x) => n = m
    OBVIOUS
  <1> QED BY <1>1, Zenon DEF Min

\* A set of naturals below a bound has a largest member.
LEMMA MaxExists ==
  ASSUME NEW S \in SUBSET Nat, S # {}, NEW n \in Nat, \A x \in S : x <= n
  PROVE  Max(S) \in S /\ \A x \in S : x <= Max(S)
  <1> DEFINE T == {k \in Nat : (\A x \in S : x <= k) => \E m \in S : \A x \in S : x <= m}
  <1>1. 0 \in T
    <2>1. PICK x \in S : TRUE
      OBVIOUS
    <2>2. (\A y \in S : y <= 0) => \A y \in S : y <= x
      OBVIOUS
    <2> QED BY <2>1, <2>2
  <1>2. ASSUME NEW k \in T
        PROVE  k + 1 \in T
    <2>1. k \in Nat
      BY <1>2
    <2> SUFFICES ASSUME \A x \in S : x <= k + 1
                 PROVE  \E m \in S : \A x \in S : x <= m
      BY <2>1
    <2>2. CASE k + 1 \in S
      BY <2>2
    <2>3. CASE k + 1 \notin S
      <3>1. \A x \in S : x <= k
        BY <2>1, <2>3
      <3> QED BY <1>2, <3>1
    <2> QED BY <2>2, <2>3
  <1>3. T \subseteq Nat
    OBVIOUS
  <1>4. n \in T
    <2> HIDE DEF T
    <2> QED BY <1>1, <1>2, <1>3, InductiveSet
  <1>5. PICK m \in S : \A x \in S : x <= m
    BY <1>4
  <1>6. Max(S) = m
    BY <1>5, MaxIs
  <1> QED BY <1>5, <1>6

-----------------------------------------------------------------------------
(* Mapfiles whose blocks follow one another from offset 0 *)

Blocks == [pos : Nat, size : Nat \ {0}, status : Status]
Holds(b, off) == b.pos <= off /\ off < End(b)

\* The blocks cover the offsets below n, each of them once.
Tiles(bs, n) ==
  /\ bs \in Seq(Blocks) /\ n \in Nat
  /\ \A k \in DOMAIN bs : bs[k].pos = IF k = 1 THEN 0 ELSE End(bs[k - 1])
  /\ \A j, k \in DOMAIN bs : j < k => End(bs[j]) <= bs[k].pos
  /\ IF bs = <<>> THEN n = 0 ELSE End(bs[Len(bs)]) = n
  /\ \A k \in DOMAIN bs : End(bs[k]) <= n
  /\ \A off \in Nat : off < n => \E k \in DOMAIN bs : Holds(bs[k], off)

\* No two adjacent blocks have one status.
NoRuns(bs) == \A k \in 1..(Len(bs) - 1) : bs[k].status # bs[k + 1].status

LEMMA BlockFacts ==
  ASSUME NEW b \in Blocks
  PROVE  /\ b.pos \in Nat /\ b.size \in Nat \ {0} /\ b.status \in Status
         /\ End(b) \in Nat /\ b.pos < End(b)
  BY DEF Blocks, End

LEMMA TilesFacts ==
  ASSUME NEW bs, NEW n, Tiles(bs, n)
  PROVE  /\ Len(bs) \in Nat /\ DOMAIN bs = 1..Len(bs)
         /\ \A k \in 1..Len(bs) : bs[k] \in Blocks
         /\ bs = <<>> <=> Len(bs) = 0
  <1>1. bs \in Seq(Blocks)
    BY DEF Tiles
  <1> QED BY <1>1

\* The block that holds an offset gives it its status.
LEMMA TilesStatus ==
  ASSUME NEW bs, NEW n, Tiles(bs, n), NEW k \in DOMAIN bs, NEW off \in Nat, Holds(bs[k], off)
  PROVE  StatusAt(bs, off) = bs[k].status
  <1> DEFINE holding == {j \in DOMAIN bs : bs[j].pos <= off /\ off < End(bs[j])}
  <1>1. DOMAIN bs \subseteq Nat
    BY TilesFacts
  <1>2. \A j \in DOMAIN bs : bs[j].pos \in Nat /\ End(bs[j]) \in Nat
    BY TilesFacts, BlockFacts
  <1>3. ASSUME NEW j \in holding
        PROVE  j = k
    <2>1. j < k => End(bs[j]) <= bs[k].pos
      BY DEF Tiles
    <2>2. k < j => End(bs[k]) <= bs[j].pos
      BY DEF Tiles
    <2> QED BY <1>1, <1>2, <2>1, <2>2 DEF Holds
  <1>4. k \in holding
    BY DEF Holds
  <1>5. holding \in SUBSET Nat /\ \A j \in holding : k <= j
    BY <1>1, <1>3
  <1> HIDE DEF holding
  <1>6. Min(holding) = k
    BY <1>4, <1>5, MinIs
  <1>7. StatusAt(bs, off) = IF holding = {} THEN NonTried ELSE bs[Min(holding)].status
    BY DEF StatusAt, holding
  <1> QED BY <1>4, <1>6, <1>7

\* Nothing is known of the offsets behind the last block.
LEMMA TilesBehind ==
  ASSUME NEW bs, NEW n, Tiles(bs, n), NEW off \in Nat, n <= off
  PROVE  StatusAt(bs, off) = NonTried
  <1> DEFINE holding == {j \in DOMAIN bs : bs[j].pos <= off /\ off < End(bs[j])}
  <1>1. holding = {}
    <2> SUFFICES ASSUME NEW j \in DOMAIN bs, off < End(bs[j]) PROVE FALSE
      OBVIOUS
    <2>1. End(bs[j]) <= n /\ n \in Nat /\ End(bs[j]) \in Nat
      BY TilesFacts, BlockFacts DEF Tiles
    <2> QED BY <2>1
  <1> HIDE DEF holding
  <1>2. StatusAt(bs, off) = IF holding = {} THEN NonTried ELSE bs[Min(holding)].status
    BY DEF StatusAt, holding
  <1> QED BY <1>1, <1>2

LEMMA TilesTotal ==
  ASSUME NEW bs, NEW n, Tiles(bs, n)
  PROVE  TotalSize(bs) = n
  <1>1. CASE bs = <<>>
    BY <1>1 DEF Tiles, TotalSize
  <1>2. CASE bs # <<>>
    <2> DEFINE S == {End(bs[k]) : k \in DOMAIN bs}
    <2>1. S \in SUBSET Nat
      BY TilesFacts, BlockFacts
    <2>2. Len(bs) \in DOMAIN bs
      BY <1>2, TilesFacts
    <2>3. n \in S /\ \A x \in S : x <= n
      BY <1>2, <2>2 DEF Tiles
    <2> HIDE DEF S
    <2>4. Max(S) = n
      BY <2>1, <2>3, MaxIs
    <2> QED BY <1>2, <2>4 DEF TotalSize, S
  <1> QED BY <1>1, <1>2

LEMMA TilesValid ==
  ASSUME NEW bs, NEW n, Tiles(bs, n)
  PROVE  Valid(bs)
  <1> SUFFICES ASSUME NEW k \in DOMAIN bs
               PROVE  /\ bs[k].size > 0
                      /\ IF k = 1 THEN bs[k].pos >= 0 ELSE bs[k].pos = End(bs[k - 1])
    BY DEF Valid
  <1>1. bs[k] \in Blocks
    BY TilesFacts
  <1> QED BY <1>1, BlockFacts DEF Tiles

LEMMA TilesEmpty == Tiles(<<>>, 0) /\ NoRuns(<<>>)
  BY DEF Tiles, NoRuns

\* What a mapfile knows after n sectors, when the next k have status st.
Extends(new, old, n, k, st) ==
  \A off \in Nat : StatusAt(new, off) = IF off < n THEN StatusAt(old, off)
                                        ELSE IF off < n + k THEN st ELSE NonTried

\* A sequence of blocks in which the old ones keep their places, the last one
\* possibly growing, and which goes on to n + k.
LEMMA TilesExtend ==
  ASSUME NEW bs, NEW n, Tiles(bs, n), NEW k \in Nat \ {0}, NEW st,
         NEW c, Tiles(c, n + k),
         \A i \in DOMAIN bs : i \in DOMAIN c /\ c[i].status = bs[i].status
                              /\ \A off \in Nat : Holds(bs[i], off) => Holds(c[i], off),
         \A off \in Nat : n <= off /\ off < n + k =>
           \E i \in DOMAIN c : Holds(c[i], off) /\ c[i].status = st
  PROVE  Extends(c, bs, n, k, st)
  <1> SUFFICES ASSUME NEW off \in Nat
               PROVE  StatusAt(c, off) = IF off < n THEN StatusAt(bs, off)
                                         ELSE IF off < n + k THEN st ELSE NonTried
    BY DEF Extends
  <1>1. n \in Nat /\ n + k \in Nat
    BY DEF Tiles
  <1>2. CASE off < n
    <2>1. PICK i \in DOMAIN bs : Holds(bs[i], off)
      BY <1>2 DEF Tiles
    <2>2. StatusAt(bs, off) = bs[i].status
      BY <2>1, TilesStatus
    <2>3. StatusAt(c, off) = c[i].status
      BY <2>1, TilesStatus
    <2> QED BY <1>2, <2>2, <2>3
  <1>3. CASE n <= off /\ off < n + k
    <2>1. PICK i \in DOMAIN c : Holds(c[i], off) /\ c[i].status = st
      BY <1>3
    <2>2. StatusAt(c, off) = st
      BY <2>1, TilesStatus
    <2> QED BY <1>1, <1>3, <2>2
  <1>4. CASE n + k <= off
    <2>1. StatusAt(c, off) = NonTried
      BY <1>1, <1>4, TilesBehind
    <2> QED BY <1>1, <1>4, <2>1
  <1> QED BY <1>1, <1>2, <1>3, <1>4

\* A block is added behind the last one.
LEMMA TilesAppend ==
  ASSUME NEW bs, NEW n, Tiles(bs, n), NEW k \in Nat \ {0}, NEW st \in Status
  PROVE  LET c == Append(bs, Block(n, k, st))
         IN  Tiles(c, n + k) /\ Extends(c, bs, n, k, st)
  <1> DEFINE b == Block(n, k, st)
             c == Append(bs, b)
  <1>1. PICK m \in Nat : Len(bs) = m /\ DOMAIN bs = 1..m
    BY TilesFacts
  <1>2. n \in Nat /\ bs \in Seq(Blocks) /\ \A i \in 1..m : bs[i] \in Blocks
    BY <1>1, TilesFacts DEF Tiles
  <1>3. b \in Blocks /\ b.pos = n /\ End(b) = n + k /\ b.status = st
    BY <1>2 DEF Block, Blocks, End
  <1> HIDE DEF b
  <1>4. c \in Seq(Blocks) /\ Len(c) = m + 1 /\ DOMAIN c = 1..(m + 1) /\ c[m + 1] = b
        /\ (\A i \in 1..m : c[i] = bs[i]) /\ c # <<>>
    BY <1>1, <1>2, <1>3
  <1> HIDE DEF c
  <1>5. \A i \in 1..(m + 1) : i = m + 1 \/ i \in 1..m
    BY <1>1
  <1>6. \A i \in 1..m : End(bs[i]) <= n /\ End(bs[i]) \in Nat
    BY <1>1, <1>2, BlockFacts DEF Tiles
  <1>7. Tiles(c, n + k)
    <2>1. \A i \in 1..(m + 1) : c[i].pos = IF i = 1 THEN 0 ELSE End(c[i - 1])
      <3> SUFFICES ASSUME NEW i \in 1..(m + 1)
                   PROVE  c[i].pos = IF i = 1 THEN 0 ELSE End(c[i - 1])
        OBVIOUS
      <3>1. CASE i \in 1..m
        <4>1. bs[i].pos = IF i = 1 THEN 0 ELSE End(bs[i - 1])
          BY <1>1, <3>1 DEF Tiles
        <4>2. i # 1 => i - 1 \in 1..m
          BY <3>1
        <4> QED BY <1>4, <3>1, <4>1, <4>2
      <3>2. CASE i = m + 1
        <4>1. m = 0 => n = 0
          BY <1>1, TilesFacts DEF Tiles
        <4>2. m # 0 => End(bs[m]) = n /\ m \in 1..m
          BY <1>1, TilesFacts DEF Tiles
        <4>3. i # 1 => m # 0 /\ i - 1 = m
          BY <3>2
        <4>4. i = 1 => m = 0
          BY <3>2
        <4> QED BY <1>3, <1>4, <3>2, <4>1, <4>2, <4>3, <4>4
      <3> QED BY <1>5, <3>1, <3>2
    <2>2. \A i, j \in 1..(m + 1) : i < j => End(c[i]) <= c[j].pos
      <3> SUFFICES ASSUME NEW i \in 1..(m + 1), NEW j \in 1..(m + 1), i < j
                   PROVE  End(c[i]) <= c[j].pos
        OBVIOUS
      <3>1. i \in 1..m
        OBVIOUS
      <3>2. CASE j \in 1..m
        BY <1>1, <1>4, <3>1, <3>2 DEF Tiles
      <3>3. CASE j = m + 1
        BY <1>3, <1>4, <1>6, <3>1, <3>3
      <3> QED BY <1>5, <3>2, <3>3
    <2>3. End(c[m + 1]) = n + k /\ n + k \in Nat
      BY <1>2, <1>3, <1>4
    <2>4. \A i \in 1..(m + 1) : End(c[i]) <= n + k
      <3>1. \A i \in 1..m : End(c[i]) <= n + k
        BY <1>2, <1>4, <1>6
      <3> QED BY <1>5, <2>3, <3>1
    <2>5. \A off \in Nat : off < n + k => \E i \in 1..(m + 1) : Holds(c[i], off)
      <3> SUFFICES ASSUME NEW off \in Nat, off < n + k
                   PROVE  \E i \in 1..(m + 1) : Holds(c[i], off)
        OBVIOUS
      <3>1. CASE off < n
        <4>1. PICK i \in 1..m : Holds(bs[i], off)
          BY <1>1, <3>1 DEF Tiles
        <4>2. i \in 1..(m + 1) /\ c[i] = bs[i]
          BY <1>4
        <4> QED BY <4>1, <4>2
      <3>2. CASE n <= off
        <4>1. Holds(c[m + 1], off) /\ m + 1 \in 1..(m + 1)
          BY <1>3, <1>4, <3>2 DEF Holds
        <4> QED BY <4>1
      <3> QED BY <1>2, <3>1, <3>2
    <2> QED BY <1>4, <2>1, <2>2, <2>3, <2>4, <2>5 DEF Tiles
  <1>8. \A i \in DOMAIN bs : i \in DOMAIN c /\ c[i].status = bs[i].status
                             /\ \A off \in Nat : Holds(bs[i], off) => Holds(c[i], off)
    BY <1>1, <1>4
  <1>9. \A off \in Nat : n <= off /\ off < n + k =>
          \E i \in DOMAIN c : Holds(c[i], off) /\ c[i].status = st
    <2> SUFFICES ASSUME NEW off \in Nat, n <= off, off < n + k
                 PROVE  \E i \in DOMAIN c : Holds(c[i], off) /\ c[i].status = st
      OBVIOUS
    <2>1. m + 1 \in DOMAIN c /\ Holds(c[m + 1], off) /\ c[m + 1].status = st
      BY <1>3, <1>4 DEF Holds
    <2> QED BY <2>1
  <1>10. Extends(c, bs, n, k, st)
    BY <1>7, <1>8, <1>9, TilesExtend
  <1> QED BY <1>7, <1>10 DEF c, b

\* The last block grows.
LEMMA TilesGrow ==
  ASSUME NEW bs, NEW n, Tiles(bs, n), bs # <<>>, NEW k \in Nat \ {0}
  PROVE  LET c == [bs EXCEPT ![Len(bs)].size = @ + k]
         IN  /\ Tiles(c, n + k) /\ Extends(c, bs, n, k, Last(bs).status)
             /\ Len(c) = Len(bs) /\ \A i \in DOMAIN bs : c[i].status = bs[i].status
  <1> DEFINE c == [bs EXCEPT ![Len(bs)].size = @ + k]
             b == [bs[Len(bs)] EXCEPT !.size = @ + k]
  <1>1. PICK m \in Nat : Len(bs) = m /\ DOMAIN bs = 1..m
    BY TilesFacts
  <1>2. n \in Nat /\ m \in 1..m /\ bs \in Seq(Blocks) /\ \A i \in 1..m : bs[i] \in Blocks
    BY <1>1, TilesFacts DEF Tiles
  <1>3. End(bs[m]) = n
    BY <1>1 DEF Tiles
  <1>4. b \in Blocks /\ b.pos = bs[m].pos /\ End(b) = n + k /\ b.status = bs[m].status
    <2>1. bs[m] \in Blocks
      BY <1>2
    <2>2. /\ b.pos = bs[m].pos /\ b.size = bs[m].size + k /\ b.status = bs[m].status
          /\ b = [pos |-> bs[m].pos, size |-> bs[m].size + k, status |-> bs[m].status]
      BY <1>1, <2>1 DEF Blocks
    <2>3. bs[m].size + k \in Nat \ {0}
      BY <2>1 DEF Blocks
    <2>4. bs[m].pos \in Nat /\ bs[m].size \in Nat /\ bs[m].status \in Status
      BY <2>1 DEF Blocks
    <2> HIDE DEF b
    <2>5. End(b) = n + k
      BY <1>3, <2>2, <2>4 DEF End
    <2>6. b \in Blocks
      BY <2>2, <2>3, <2>4 DEF Blocks
    <2> QED BY <2>2, <2>5, <2>6
  <1>5. c = [bs EXCEPT ![m] = b]
    BY <1>1
  <1> HIDE DEF b, c
  <1>6. /\ c \in Seq(Blocks) /\ Len(c) = m /\ DOMAIN c = 1..m /\ c[m] = b /\ c # <<>>
        /\ \A i \in 1..m : i # m => c[i] = bs[i]
    BY <1>1, <1>2, <1>4, <1>5
  <1>7. \A i \in 1..m : End(bs[i]) <= n /\ End(bs[i]) \in Nat /\ bs[i].pos \in Nat
    BY <1>1, <1>2, BlockFacts DEF Tiles
  <1>8. \A i \in 1..m : c[i].pos = bs[i].pos /\ c[i].status = bs[i].status
                        /\ End(c[i]) = IF i = m THEN n + k ELSE End(bs[i])
    BY <1>4, <1>6
  <1>9. Tiles(c, n + k)
    <2>1. \A i \in 1..m : c[i].pos = IF i = 1 THEN 0 ELSE End(c[i - 1])
      <3> SUFFICES ASSUME NEW i \in 1..m
                   PROVE  c[i].pos = IF i = 1 THEN 0 ELSE End(c[i - 1])
        OBVIOUS
      <3>1. bs[i].pos = IF i = 1 THEN 0 ELSE End(bs[i - 1])
        BY <1>1 DEF Tiles
      <3>2. i # 1 => i - 1 \in 1..m /\ i - 1 # m
        OBVIOUS
      <3> QED BY <1>8, <3>1, <3>2
    <2>2. \A i, j \in 1..m : i < j => End(c[i]) <= c[j].pos
      <3> SUFFICES ASSUME NEW i \in 1..m, NEW j \in 1..m, i < j
                   PROVE  End(c[i]) <= c[j].pos
        OBVIOUS
      <3>1. End(bs[i]) <= bs[j].pos /\ i # m
        BY <1>1 DEF Tiles
      <3> QED BY <1>8, <3>1
    <2>3. End(c[m]) = n + k /\ n + k \in Nat
      BY <1>2, <1>8
    <2>4. \A i \in 1..m : End(c[i]) <= n + k
      BY <1>2, <1>7, <1>8, SMTT(60)
    <2>5. \A off \in Nat : off < n + k => \E i \in 1..m : Holds(c[i], off)
      <3> SUFFICES ASSUME NEW off \in Nat, off < n + k
                   PROVE  \E i \in 1..m : Holds(c[i], off)
        OBVIOUS
      <3>1. CASE off < n
        <4>1. PICK i \in 1..m : Holds(bs[i], off)
          BY <1>1, <3>1 DEF Tiles
        <4>2. Holds(c[i], off)
          BY <1>2, <1>7, <1>8, <4>1 DEF Holds
        <4> QED BY <4>2
      <3>2. CASE n <= off
        <4>1. bs[m].pos <= n
          BY <1>2, <1>3, BlockFacts
        <4>2. Holds(c[m], off)
          BY <1>2, <1>7, <1>8, <3>2, <4>1 DEF Holds
        <4> QED BY <1>2, <4>2
      <3> QED BY <1>2, <3>1, <3>2
    <2> QED BY <1>6, <2>1, <2>2, <2>3, <2>4, <2>5 DEF Tiles
  <1>10. \A i \in DOMAIN bs : i \in DOMAIN c /\ c[i].status = bs[i].status
                              /\ \A off \in Nat : Holds(bs[i], off) => Holds(c[i], off)
    BY <1>1, <1>2, <1>3, <1>6, <1>7, <1>8 DEF Holds
  <1>11. Last(bs).status = bs[m].status
    BY <1>1 DEF Last
  <1>12. \A off \in Nat : n <= off /\ off < n + k =>
           \E i \in DOMAIN c : Holds(c[i], off) /\ c[i].status = Last(bs).status
    <2> SUFFICES ASSUME NEW off \in Nat, n <= off, off < n + k
                 PROVE  \E i \in DOMAIN c : Holds(c[i], off) /\ c[i].status = Last(bs).status
      OBVIOUS
    <2>1. bs[m].pos <= n
      BY <1>2, <1>3, BlockFacts
    <2>2. m \in DOMAIN c /\ Holds(c[m], off) /\ c[m].status = Last(bs).status
      BY <1>2, <1>6, <1>7, <1>8, <1>11, <2>1 DEF Holds
    <2> QED BY <2>2
  <1>13. Extends(c, bs, n, k, Last(bs).status)
    BY <1>9, <1>10, <1>12, TilesExtend
  <1> QED BY <1>1, <1>6, <1>8, <1>9, <1>13 DEF c

\* A block that follows a tiling is added to it, and makes no run.
LEMMA CoalescedTiles ==
  ASSUME NEW bs, NEW n, Tiles(bs, n), NEW k \in Nat \ {0}, NEW st \in Status
  PROVE  LET c == Coalesced(bs, Block(n, k, st))
         IN  /\ Tiles(c, n + k) /\ Extends(c, bs, n, k, st)
             /\ NoRuns(bs) => NoRuns(c)
  <1> DEFINE b == Block(n, k, st)
  <1>1. b.pos = n /\ b.size = k /\ b.status = st
    BY DEF Block
  <1>2. PICK m \in Nat : Len(bs) = m /\ DOMAIN bs = 1..m /\ (bs = <<>> <=> m = 0)
    BY TilesFacts
  <1>3. bs # <<>> => End(Last(bs)) = n /\ Last(bs) = bs[m]
    BY <1>2 DEF Tiles, Last
  <1>4. CASE bs # <<>> /\ Last(bs).status = st
    <2> DEFINE c == [bs EXCEPT ![Len(bs)].size = @ + k]
    <2>1. Coalesced(bs, b) = c
      <3> HIDE DEF b
      <3> QED BY <1>1, <1>3, <1>4 DEF Coalesced
    <2>2. /\ Tiles(c, n + k) /\ Extends(c, bs, n, k, st)
          /\ Len(c) = Len(bs) /\ \A i \in DOMAIN bs : c[i].status = bs[i].status
      BY <1>4, TilesGrow
    <2> HIDE DEF c, b
    <2>3. Len(c) = m /\ \A i \in 1..m : c[i].status = bs[i].status
      BY <1>2, <2>2
    <2>4. NoRuns(bs) => NoRuns(c)
      <3> SUFFICES ASSUME NoRuns(bs), NEW i \in 1..(m - 1)
                   PROVE  c[i].status # c[i + 1].status
        BY <2>3 DEF NoRuns
      <3>1. i \in 1..m /\ i + 1 \in 1..m
        BY <1>2
      <3>2. bs[i].status # bs[i + 1].status
        BY <1>2 DEF NoRuns
      <3> QED BY <2>3, <3>1, <3>2, Zenon
    <2> QED BY <2>1, <2>2, <2>4 DEF b
  <1>5. CASE ~(bs # <<>> /\ Last(bs).status = st)
    <2> DEFINE c == Append(bs, b)
    <2>1. Coalesced(bs, b) = c
      <3> HIDE DEF b
      <3> QED BY <1>1, <1>5 DEF Coalesced
    <2>2. Tiles(c, n + k) /\ Extends(c, bs, n, k, st)
      BY TilesAppend
    <2>3. bs \in Seq(Blocks)
      BY DEF Tiles
    <2> HIDE DEF b
    <2>4. Len(c) = m + 1 /\ c[m + 1] = b /\ \A i \in 1..m : c[i] = bs[i]
      BY <1>2, <2>3
    <2> HIDE DEF c
    <2>5. NoRuns(bs) => NoRuns(c)
      <3> SUFFICES ASSUME NoRuns(bs), NEW i \in 1..m
                   PROVE  c[i].status # c[i + 1].status
        BY <1>2, <2>4 DEF NoRuns
      <3>1. CASE i = m
        BY <1>1, <1>2, <1>3, <1>5, <2>4, <3>1
      <3>2. CASE i # m
        <4>1. i \in 1..(m - 1) /\ i + 1 \in 1..m
          BY <3>2
        <4> QED BY <1>2, <2>4, <4>1 DEF NoRuns
      <3> QED BY <3>1, <3>2
    <2> QED BY <2>1, <2>2, <2>5 DEF b
  <1> QED BY <1>4, <1>5

\* Where a block ends before the total, another one begins.
LEMMA TilesNext ==
  ASSUME NEW bs, NEW n, Tiles(bs, n), NEW k \in Nat, k <= Len(bs),
         IF k = 0 THEN 0 < n ELSE End(bs[k]) < n
  PROVE  k + 1 \in DOMAIN bs /\ bs[k + 1].pos = IF k = 0 THEN 0 ELSE End(bs[k])
  <1>1. PICK m \in Nat : Len(bs) = m /\ DOMAIN bs = 1..m /\ (bs = <<>> <=> m = 0)
    BY TilesFacts
  <1>2. n \in Nat /\ (m = 0 => n = 0) /\ (m # 0 => End(bs[m]) = n)
    BY <1>1 DEF Tiles
  <1>3. k # m
    BY <1>2
  <1>4. k + 1 \in 1..m
    BY <1>1, <1>3
  <1>5. bs[k + 1].pos = IF k + 1 = 1 THEN 0 ELSE End(bs[(k + 1) - 1])
    BY <1>1, <1>4 DEF Tiles
  <1> QED BY <1>1, <1>4, <1>5

\* Of two tilings without runs that know the same, the first k + 1 blocks are
\* the same if the first k are.
LEMMA SameNext ==
  ASSUME NEW x, NEW y, NEW n, Tiles(x, n), Tiles(y, n), NoRuns(x), NoRuns(y),
         \A off \in Nat : StatusAt(x, off) = StatusAt(y, off),
         NEW k \in Nat, k + 1 \in DOMAIN x,
         IF k = 0 THEN TRUE ELSE k \in DOMAIN y /\ End(x[k]) = End(y[k])
  PROVE  k + 1 \in DOMAIN y /\ x[k + 1] = y[k + 1]
  <1> DEFINE p == IF k = 0 THEN 0 ELSE End(x[k])
             i == k + 1
  <1>1. i \in Nat /\ i # 1 => i - 1 = k
    OBVIOUS
  <1>2. /\ \A j \in DOMAIN x : x[j] \in Blocks
        /\ \A j \in DOMAIN y : y[j] \in Blocks
        /\ DOMAIN x = 1..Len(x) /\ DOMAIN y = 1..Len(y) /\ Len(x) \in Nat /\ Len(y) \in Nat
    BY TilesFacts
  <1>3. x[i].pos = p /\ End(x[i]) <= n /\ p < End(x[i]) /\ p \in Nat /\ n \in Nat
    <2>1. x[i].pos = IF i = 1 THEN 0 ELSE End(x[i - 1])
      BY DEF Tiles
    <2>2. i = 1 <=> k = 0
      OBVIOUS
    <2>3. i - 1 = k
      OBVIOUS
    <2>4. x[i].pos = p
      BY <2>1, <2>2, <2>3
    <2>5. End(x[i]) <= n /\ n \in Nat
      BY DEF Tiles
    <2> QED BY <1>2, <2>4, <2>5, BlockFacts
  <1>4. i \in DOMAIN y /\ y[i].pos = p
    <2>1. k <= Len(y)
      BY <1>2
    <2>2. p < n
      <3>1. End(x[i]) \in Nat
        BY <1>2, BlockFacts
      <3> HIDE DEF p, i
      <3> QED BY <1>3, <3>1
    <2>3. IF k = 0 THEN 0 < n ELSE End(y[k]) < n
      BY <2>2
    <2>4. i \in DOMAIN y /\ y[i].pos = IF k = 0 THEN 0 ELSE End(y[k])
      BY <2>1, <2>3, TilesNext
    <2> QED BY <2>4
  <1>5. End(y[i]) <= n /\ p < End(y[i]) /\ End(y[i]) \in Nat /\ End(x[i]) \in Nat
    <2>1. End(y[i]) <= n
      BY <1>4 DEF Tiles
    <2> QED BY <1>2, <1>4, <2>1, BlockFacts
  <1>6. x[i].status = y[i].status
    <2>1. Holds(x[i], p) /\ Holds(y[i], p)
      BY <1>3, <1>4, <1>5 DEF Holds
    <2>2. StatusAt(x, p) = x[i].status /\ StatusAt(y, p) = y[i].status
      BY <1>3, <1>4, <2>1, TilesStatus
    <2> QED BY <1>3, <2>2
  <1>7. ASSUME NEW a, NEW b, Tiles(a, n), Tiles(b, n), NoRuns(a),
               \A off \in Nat : StatusAt(a, off) = StatusAt(b, off),
               i \in DOMAIN a, i \in DOMAIN b, a[i].status = b[i].status,
               a[i].pos = p, b[i].pos = p, End(a[i]) < End(b[i])
        PROVE  FALSE
    <2> DEFINE e == End(a[i])
    <2>1. /\ a[i] \in Blocks /\ b[i] \in Blocks /\ i \in 1..Len(a) /\ Len(a) \in Nat
          /\ DOMAIN a = 1..Len(a)
      BY <1>7, TilesFacts
    <2>2. e \in Nat /\ p < e /\ End(b[i]) <= n /\ End(b[i]) \in Nat
      <3>1. e \in Nat /\ p < e
        BY <1>7, <2>1, BlockFacts
      <3>2. End(b[i]) \in Nat
        BY <2>1, BlockFacts
      <3>3. End(b[i]) <= n
        BY <1>7, Zenon DEF Tiles
      <3> QED BY <3>1, <3>2, <3>3
    <2>3. e < n /\ Holds(b[i], e)
      BY <1>3, <1>7, <2>2 DEF Holds
    <2>4. i + 1 \in DOMAIN a /\ a[i + 1].pos = e
      <3>1. i \in Nat /\ i # 0 /\ i <= Len(a)
        BY <2>1
      <3> HIDE DEF i
      <3> QED BY <1>7, <2>3, <3>1, TilesNext
    <2>5. Holds(a[i + 1], e)
      BY <1>7, <2>2, <2>4, TilesFacts, BlockFacts DEF Holds
    <2>6. StatusAt(a, e) = a[i + 1].status /\ StatusAt(b, e) = b[i].status
      BY <1>7, <2>2, <2>3, <2>4, <2>5, TilesStatus
    <2>7. a[i].status # a[i + 1].status
      <3>1. i \in 1..(Len(a) - 1)
        BY <2>1, <2>4
      <3> QED BY <1>7, <3>1 DEF NoRuns
    <2> QED BY <1>7, <2>2, <2>6, <2>7
  <1>8. End(x[i]) = End(y[i])
    <2>1. ~(End(x[i]) < End(y[i]))
      BY <1>3, <1>4, <1>6, <1>7
    <2>2. ~(End(y[i]) < End(x[i]))
      BY <1>3, <1>4, <1>6, <1>7
    <2> QED BY <1>5, <2>1, <2>2
  <1>9. x[i] = y[i]
    <2>1. x[i] \in Blocks /\ y[i] \in Blocks
      BY <1>2, <1>4
    <2>2. x[i].size = y[i].size
      BY <1>3, <1>4, <1>8, <2>1 DEF Blocks, End
    <2> QED BY <1>3, <1>4, <1>6, <2>1, <2>2 DEF Blocks
  <1> QED BY <1>4, <1>9

\* A tiling without runs is determined by what it knows.
LEMMA TilesUnique ==
  ASSUME NEW x, NEW y, NEW n, Tiles(x, n), Tiles(y, n), NoRuns(x), NoRuns(y),
         \A off \in Nat : StatusAt(x, off) = StatusAt(y, off)
  PROVE  x = y
  <1> DEFINE T == {k \in Nat : k <= Len(x) => k <= Len(y) /\ \A i \in 1..k : x[i] = y[i]}
  <1>1. /\ Len(x) \in Nat /\ DOMAIN x = 1..Len(x) /\ (x = <<>> <=> Len(x) = 0)
        /\ Len(y) \in Nat /\ DOMAIN y = 1..Len(y) /\ (y = <<>> <=> Len(y) = 0)
        /\ x \in Seq(Blocks) /\ y \in Seq(Blocks)
    BY TilesFacts DEF Tiles
  <1>2. 0 \in T
    BY <1>1
  <1>3. ASSUME NEW k \in T
        PROVE  k + 1 \in T
    <2>1. k \in Nat
      BY <1>3
    <2> SUFFICES ASSUME k + 1 <= Len(x)
                 PROVE  k + 1 <= Len(y) /\ \A i \in 1..(k + 1) : x[i] = y[i]
      BY <2>1
    <2>2. k <= Len(x) /\ k + 1 \in DOMAIN x
      BY <1>1, <2>1
    <2>3. k <= Len(y) /\ \A i \in 1..k : x[i] = y[i]
      BY <1>3, <2>2
    <2>4. IF k = 0 THEN TRUE ELSE k \in DOMAIN y /\ End(x[k]) = End(y[k])
      BY <1>1, <2>1, <2>3
    <2>5. k + 1 \in DOMAIN y /\ x[k + 1] = y[k + 1]
      BY <2>1, <2>2, <2>4, SameNext
    <2>6. \A i \in 1..(k + 1) : i \in 1..k \/ i = k + 1
      BY <2>1
    <2> QED BY <1>1, <2>3, <2>5, <2>6
  <1>4. T \subseteq Nat
    OBVIOUS
  <1>5. Len(x) \in T
    <2> HIDE DEF T
    <2> QED BY <1>1, <1>2, <1>3, <1>4, InductiveSet
  <1>6. Len(x) <= Len(y) /\ \A i \in 1..Len(x) : x[i] = y[i]
    BY <1>1, <1>5
  <1>7. ASSUME Len(x) < Len(y)
        PROVE  FALSE
    <2> DEFINE m == Len(x)
    <2>1. m + 1 \in DOMAIN y /\ y[m + 1] \in Blocks
      BY <1>1, <1>7, TilesFacts
    <2>2. y[m + 1].pos = n
      <3>1. y[m + 1].pos = IF m + 1 = 1 THEN 0 ELSE End(y[(m + 1) - 1])
        BY <2>1 DEF Tiles
      <3>2. m # 0 => m \in 1..m /\ End(x[m]) = n
        BY <1>1 DEF Tiles
      <3>3. m = 0 => n = 0
        BY <1>1 DEF Tiles
      <3>4. (m + 1 = 1 <=> m = 0) /\ (m + 1) - 1 = m
        BY <1>1
      <3> QED BY <1>6, <3>1, <3>2, <3>3, <3>4
    <2>3. End(y[m + 1]) <= n /\ n \in Nat
      BY <2>1 DEF Tiles
    <2> QED BY <2>1, <2>2, <2>3, BlockFacts
  <1>8. Len(x) = Len(y)
    <2> DEFINE m == Len(x)
               l == Len(y)
    <2>1. m \in Nat /\ l \in Nat /\ m <= l /\ ~(m < l)
      BY <1>1, <1>6, <1>7
    <2> HIDE DEF m, l
    <2>2. m = l
      BY <2>1
    <2> QED BY <2>2 DEF m, l
  <1> QED BY <1>1, <1>6, <1>8

-----------------------------------------------------------------------------
(* merge *)

LEMMA PriorityOrder ==
  /\ \A st \in Status : Priority(st) \in 1..5
  /\ \A st, tt \in Status : Priority(st) = Priority(tt) => st = tt
  <1>1. /\ Priority(NonTried) = 1 /\ Priority(NonTrimmed) = 2 /\ Priority(NonScraped) = 3
        /\ Priority(BadSector) = 4 /\ Priority(Finished) = 5
    BY DEF Priority, NonTried, NonTrimmed, NonScraped, BadSector, Finished
  <1> QED BY <1>1 DEF Status

\* The better of two statuses, of whatever two.
LEMMA WinnerAlgebra ==
  ASSUME NEW r \in Status, NEW s \in Status, NEW t \in Status
  PROVE  /\ Winner(r, s) \in Status
         /\ Winner(r, s) = Winner(s, r)
         /\ Winner(Winner(r, s), t) = Winner(r, Winner(s, t))
         /\ Winner(r, r) = r
  <1>1. /\ Priority(r) \in 1..5 /\ Priority(s) \in 1..5 /\ Priority(t) \in 1..5
        /\ Priority(r) = Priority(s) => r = s
    BY PriorityOrder
  <1> QED BY <1>1 DEF Winner

LEMMA StatusAtType ==
  ASSUME NEW bs, NEW n, Tiles(bs, n), NEW off \in Nat
  PROVE  StatusAt(bs, off) \in Status
  <1>1. n \in Nat
    BY DEF Tiles
  <1>2. CASE off < n
    <2>1. PICK k \in DOMAIN bs : Holds(bs[k], off)
      BY <1>2 DEF Tiles
    <2> QED BY <2>1, TilesStatus, TilesFacts, BlockFacts
  <1>3. CASE n <= off
    BY <1>3, TilesBehind DEF Status
  <1> QED BY <1>1, <1>2, <1>3

\* The longer of two mapfiles.
Longer(n, l) == IF n >= l THEN n ELSE l

LEMMA PointsFacts ==
  ASSUME NEW a, NEW n, Tiles(a, n), NEW b, NEW l, Tiles(b, l)
  PROVE  LET ps == Points(a, b)
         IN  /\ ps \in SUBSET Nat /\ 0 \in ps /\ Longer(n, l) \in ps
             /\ \A q \in ps : q <= Longer(n, l)
             /\ Max(ps) = Longer(n, l)
             /\ Boundaries(a) \cup Boundaries(b) \subseteq ps
  <1> DEFINE ps == Points(a, b)
             m == Longer(n, l)
  <1>1. n \in Nat /\ l \in Nat /\ m \in Nat /\ n <= m /\ l <= m /\ m \in {n, l}
    BY DEF Tiles, Longer
  <1>2. \A bs, k : Tiles(bs, k) => \A x \in Boundaries(bs) : x \in Nat /\ x <= k
    <2> SUFFICES ASSUME NEW bs, NEW k, Tiles(bs, k), NEW i \in DOMAIN bs
                 PROVE  /\ bs[i].pos \in Nat /\ bs[i].pos <= k
                        /\ End(bs[i]) \in Nat /\ End(bs[i]) <= k
      BY DEF Boundaries
    <2>1. k \in Nat /\ End(bs[i]) <= k
      BY DEF Tiles
    <2>2. bs[i].pos \in Nat /\ End(bs[i]) \in Nat /\ bs[i].pos < End(bs[i])
      BY TilesFacts, BlockFacts
    <2> QED BY <2>1, <2>2
  <1>3. \A x \in Boundaries(a) \cup Boundaries(b) : x \in Nat /\ x <= m
    <2>1. \A x \in Boundaries(a) : x \in Nat /\ x <= n
      BY <1>2
    <2>2. \A x \in Boundaries(b) : x \in Nat /\ x <= l
      BY <1>2
    <2> HIDE DEF m
    <2> QED BY <1>1, <2>1, <2>2
  <1>4. Max({TotalSize(a), TotalSize(b)}) = m
    <2>1. TotalSize(a) = n /\ TotalSize(b) = l
      BY TilesTotal
    <2>2. Max({n, l}) = m
      <3> DEFINE S == {n, l}
      <3>1. S \in SUBSET Nat /\ m \in S /\ \A x \in S : x <= m
        BY <1>1
      <3> HIDE DEF S, m
      <3>2. Max(S) = m
        BY <3>1, MaxIs
      <3> QED BY <3>2 DEF S
    <2> QED BY <2>1, <2>2
  <1>5. ps = {0, m} \cup Boundaries(a) \cup Boundaries(b)
    BY <1>4 DEF Points
  <1> HIDE DEF ps, m
  <1>6. ps \in SUBSET Nat /\ m \in ps /\ \A q \in ps : q <= m
    BY <1>1, <1>3, <1>5
  <1>7. Max(ps) = m
    BY <1>6, MaxIs
  <1> QED BY <1>5, <1>6, <1>7 DEF ps, m

LEMMA BeforeFacts ==
  ASSUME NEW ps \in SUBSET Nat, 0 \in ps, NEW q \in ps, q # 0
  PROVE  /\ Before(ps, q) \in ps /\ Before(ps, q) < q
         /\ \A x \in ps : x < q => x <= Before(ps, q)
  <1> DEFINE S == {p \in ps : p < q}
  <1>0. q \in Nat /\ \A x \in S : x \in Nat /\ x < q
    OBVIOUS
  <1>1. S \in SUBSET Nat /\ q \in Nat /\ \A x \in S : x <= q
    <2> HIDE DEF S
    <2>1. S \subseteq Nat
      BY <1>0
    <2>2. \A x \in S : x <= q
      BY <1>0
    <2> QED BY <1>0, <2>1, <2>2, Zenon
  <1>2. S # {}
    <2>1. 0 < q
      BY <1>1
    <2> QED BY <2>1
  <1> HIDE DEF S
  <1>3. Max(S) \in S /\ \A x \in S : x <= Max(S)
    BY <1>1, <1>2, MaxExists
  <1> QED BY <1>3 DEF Before, S

\* A mapfile knows one thing of a span that no boundary of it splits.
LEMMA SpanKnown ==
  ASSUME NEW bs, NEW n, Tiles(bs, n), NEW p \in Nat, NEW q \in Nat,
         \A x \in Boundaries(bs) : x < q => x <= p,
         NEW off \in Nat, p <= off, off < q
  PROVE  StatusAt(bs, off) = StatusAt(bs, p)
  <1>1. \A k \in DOMAIN bs : /\ bs[k].pos \in Boundaries(bs) /\ End(bs[k]) \in Boundaries(bs)
                             /\ bs[k].pos \in Nat /\ End(bs[k]) \in Nat
    BY TilesFacts, BlockFacts DEF Boundaries
  <1>2. \A k \in DOMAIN bs : Holds(bs[k], off) <=> Holds(bs[k], p)
    <2> SUFFICES ASSUME NEW k \in DOMAIN bs
                 PROVE  Holds(bs[k], off) <=> Holds(bs[k], p)
      OBVIOUS
    <2>1. /\ bs[k].pos < q => bs[k].pos <= p
          /\ End(bs[k]) < q => End(bs[k]) <= p
          /\ bs[k].pos \in Nat /\ End(bs[k]) \in Nat
      BY <1>1
    <2> QED BY <2>1 DEF Holds
  <1>3. {k \in DOMAIN bs : bs[k].pos <= off /\ off < End(bs[k])}
        = {k \in DOMAIN bs : bs[k].pos <= p /\ p < End(bs[k])}
    BY <1>2 DEF Holds
  <1> QED BY <1>3 DEF StatusAt

\* What merge has at a split point, from what it has at those before.
Closed(f, q, a, b) ==
  LET p == Before(Points(a, b), q)
  IN IF q = 0 THEN <<>>
     ELSE Coalesced(f[p], Block(p, q - p, Winner(StatusAt(a, p), StatusAt(b, p))))
Closes(f, ps, a, b) == f = [q \in ps |-> Closed(f, q, a, b)]

LEMMA ClosesExists ==
  ASSUME NEW a, NEW n, Tiles(a, n), NEW b, NEW l, Tiles(b, l)
  PROVE  \E f : Closes(f, Points(a, b), a, b)
  <1> DEFINE ps == Points(a, b)
             upTo(k) == {q \in ps : q <= k}
             T == {k \in Nat : \E f : Closes(f, upTo(k), a, b)}
  <1>1. ps \in SUBSET Nat /\ 0 \in ps /\ Longer(n, l) \in Nat /\ \A q \in ps : q <= Longer(n, l)
    BY PointsFacts
  <1>2. \A q \in ps : q # 0 => Before(ps, q) \in ps /\ Before(ps, q) < q
    BY <1>1, BeforeFacts
  <1> HIDE DEF ps
  <1>3. 0 \in T
    <2> DEFINE f == [q \in upTo(0) |-> <<>>]
    <2>1. \A q \in upTo(0) : q = 0
      BY <1>1
    <2>2. \A q \in upTo(0) : Closed(f, q, a, b) = <<>>
      BY <2>1 DEF Closed
    <2>3. Closes(f, upTo(0), a, b)
      BY <2>2 DEF Closes
    <2> QED BY <2>3
  <1>4. ASSUME NEW k \in T
        PROVE  k + 1 \in T
    <2>1. k \in Nat
      BY <1>4
    <2>2. PICK f : Closes(f, upTo(k), a, b)
      BY <1>4
    <2> DEFINE g == [q \in upTo(k + 1) |-> IF q \in upTo(k) THEN f[q] ELSE Closed(f, q, a, b)]
    <2>3. \A q \in upTo(k) : f[q] = Closed(f, q, a, b)
      BY <2>2 DEF Closes
    <2>4. \A q \in upTo(k + 1) : g[q] = Closed(f, q, a, b)
      BY <2>3
    <2>5. \A q \in upTo(k + 1) : q # 0 => /\ Before(ps, q) \in upTo(k)
                                          /\ g[Before(ps, q)] = f[Before(ps, q)]
      <3> SUFFICES ASSUME NEW q \in upTo(k + 1), q # 0
                   PROVE  /\ Before(ps, q) \in upTo(k)
                          /\ g[Before(ps, q)] = f[Before(ps, q)]
        OBVIOUS
      <3> DEFINE p == Before(ps, q)
      <3>1. p \in ps /\ p < q /\ q \in ps /\ q <= k + 1
        BY <1>2
      <3> HIDE DEF p
      <3>2. p \in Nat /\ q \in Nat
        BY <1>1, <3>1
      <3>3. p <= k /\ p <= k + 1
        BY <2>1, <3>1, <3>2
      <3>4. p \in upTo(k) /\ p \in upTo(k + 1)
        BY <3>1, <3>3
      <3> QED BY <3>4 DEF p
    <2>6. \A q \in upTo(k + 1) : g[q] = Closed(g, q, a, b)
      BY <2>4, <2>5 DEF Closed, ps
    <2>7. g = [q \in upTo(k + 1) |-> g[q]]
      OBVIOUS
    <2> HIDE DEF g, upTo
    <2>8. Closes(g, upTo(k + 1), a, b)
      BY <2>6, <2>7 DEF Closes
    <2> QED BY <2>1, <2>8
  <1>5. T \subseteq Nat
    OBVIOUS
  <1>6. Longer(n, l) \in T
    <2> HIDE DEF T
    <2> QED BY <1>1, <1>3, <1>4, <1>5, InductiveSet
  <1>7. upTo(Longer(n, l)) = ps
    BY <1>1
  <1> QED BY <1>6, <1>7 DEF ps

LEMMA MergeIs ==
  ASSUME NEW a, NEW n, Tiles(a, n), NEW b, NEW l, Tiles(b, l)
  PROVE  \E f : Closes(f, Points(a, b), a, b) /\ Merge(a, b) = f[Longer(n, l)]
  <1> DEFINE F == CHOOSE f : Closes(f, Points(a, b), a, b)
  <1>1. Closes(F, Points(a, b), a, b)
    BY ClosesExists
  <1>2. Merge(a, b) = F[Max(Points(a, b))]
    BY DEF Merge, Closes, Closed
  <1>3. Max(Points(a, b)) = Longer(n, l)
    BY PointsFacts
  <1> HIDE DEF F
  <1> QED BY <1>1, <1>2, <1>3

\* What merge returns tiles the longer of the two, has no runs, and knows the
\* better of what the two know, of every offset.
LEMMA MergeCorrect ==
  ASSUME NEW a, NEW n, Tiles(a, n), NEW b, NEW l, Tiles(b, l)
  PROVE  LET m == Merge(a, b)
         IN  /\ Tiles(m, Longer(n, l)) /\ NoRuns(m)
             /\ \A off \in Nat : StatusAt(m, off) = Winner(StatusAt(a, off), StatusAt(b, off))
  <1> DEFINE ps == Points(a, b)
             N == Longer(n, l)
             Better(off) == Winner(StatusAt(a, off), StatusAt(b, off))
             Good(bs, q) == /\ Tiles(bs, q) /\ NoRuns(bs)
                            /\ \A off \in Nat : off < q => StatusAt(bs, off) = Better(off)
  <1>1. /\ ps \in SUBSET Nat /\ 0 \in ps /\ N \in ps /\ N \in Nat
        /\ Boundaries(a) \subseteq ps /\ Boundaries(b) \subseteq ps
    BY PointsFacts
  <1>2. PICK f : Closes(f, ps, a, b) /\ Merge(a, b) = f[N]
    BY MergeIs
  <1>3. \A q \in ps : f[q] = Closed(f, q, a, b)
    BY <1>2 DEF Closes
  <1>4. \A off \in Nat : Better(off) \in Status
    BY StatusAtType, WinnerAlgebra
  <1>5. ASSUME NEW q \in ps, q # 0, Good(f[Before(ps, q)], Before(ps, q))
        PROVE  Good(f[q], q)
    <2> DEFINE p == Before(ps, q)
               st == Better(p)
               old == f[p]
               c == Coalesced(old, Block(p, q - p, st))
    <2>1. p \in ps /\ p < q /\ \A x \in ps : x < q => x <= p
      BY <1>1, <1>5, BeforeFacts
    <2>2. f[q] = c
      BY <1>3, <1>5 DEF Closed
    <2>3. p \in Nat /\ q \in Nat
      BY <1>1, <2>1
    <2>4. Tiles(old, p) /\ NoRuns(old) /\ \A off \in Nat : off < p => StatusAt(old, off) = Better(off)
      BY <1>5
    <2>5. \A off \in Nat : p <= off /\ off < q => Better(off) = st
      <3> SUFFICES ASSUME NEW off \in Nat, p <= off, off < q
                   PROVE  Better(off) = st
        OBVIOUS
      <3>1. /\ \A x \in Boundaries(a) : x < q => x <= p
            /\ \A x \in Boundaries(b) : x < q => x <= p
        BY <1>1, <2>1
      <3> HIDE DEF p
      <3>2. StatusAt(a, off) = StatusAt(a, p)
        BY <2>3, <3>1, SpanKnown
      <3>3. StatusAt(b, off) = StatusAt(b, p)
        BY <2>3, <3>1, SpanKnown
      <3> QED BY <3>2, <3>3
    <2>6. st \in Status
      BY <1>4, <2>3
    <2> HIDE DEF p, st, old, Better
    <2> DEFINE k == q - p
    <2>7. k \in Nat \ {0} /\ p + k = q
      BY <2>1, <2>3
    <2> HIDE DEF k
    <2>8. Tiles(c, p + k) /\ Extends(c, old, p, k, st) /\ (NoRuns(old) => NoRuns(c))
      <3>1. LET d == Coalesced(old, Block(p, k, st))
            IN  Tiles(d, p + k) /\ Extends(d, old, p, k, st) /\ (NoRuns(old) => NoRuns(d))
        BY <2>4, <2>6, <2>7, CoalescedTiles
      <3> QED BY <3>1 DEF k
    <2> HIDE DEF c
    <2>9. \A off \in Nat : off < q => StatusAt(c, off) = Better(off)
      <3> SUFFICES ASSUME NEW off \in Nat, off < q
                   PROVE  StatusAt(c, off) = Better(off)
        OBVIOUS
      <3>1. StatusAt(c, off) = IF off < p THEN StatusAt(old, off) ELSE st
        BY <2>7, <2>8 DEF Extends
      <3> QED BY <2>3, <2>4, <2>5, <3>1
    <2>10. Tiles(c, q) /\ NoRuns(c)
      BY <2>4, <2>7, <2>8
    <2> QED BY <2>2, <2>9, <2>10
  <1>6. Good(f[0], 0)
    <2>1. f[0] = <<>>
      BY <1>1, <1>3 DEF Closed
    <2>2. \A off \in Nat : ~(off < 0)
      OBVIOUS
    <2> QED BY <2>1, <2>2, TilesEmpty
  <1>7. Good(f[N], N)
    <2> DEFINE T == {k \in Nat : \A q \in ps : q <= k => Good(f[q], q)}
    <2>1. 0 \in T
      <3>1. \A q \in ps : q <= 0 => q = 0
        BY <1>1
      <3> HIDE DEF Good
      <3> QED BY <1>6, <3>1
    <2>2. ASSUME NEW k \in T
          PROVE  k + 1 \in T
      <3>1. k \in Nat
        BY <2>2
      <3> SUFFICES ASSUME NEW q \in ps, q <= k + 1
                   PROVE  Good(f[q], q)
        BY <3>1
      <3>2. CASE q = 0
        BY <1>6, <3>2
      <3>3. CASE q # 0
        <4> DEFINE p == Before(ps, q)
        <4>1. p \in ps /\ p < q
          BY <1>1, <3>3, BeforeFacts
        <4> HIDE DEF p
        <4>2. p \in Nat /\ q \in Nat
          BY <1>1, <4>1
        <4>3. p <= k
          BY <3>1, <4>1, <4>2
        <4> HIDE DEF Good
        <4>4. Good(f[p], p)
          BY <2>2, <4>1, <4>3
        <4> QED BY <1>5, <3>3, <4>4 DEF p
      <3> QED BY <3>2, <3>3
    <2>3. T \subseteq Nat
      OBVIOUS
    <2>4. N \in T
      <3> HIDE DEF T, N
      <3> QED BY <1>1, <2>1, <2>2, <2>3, InductiveSet
    <2> HIDE DEF Good
    <2>5. N <= N
      BY <1>1
    <2> QED BY <1>1, <2>4, <2>5
  <1>8. \A off \in Nat : StatusAt(f[N], off) = Better(off)
    <2> SUFFICES ASSUME NEW off \in Nat
                 PROVE  StatusAt(f[N], off) = Better(off)
      OBVIOUS
    <2>1. CASE off < N
      BY <1>7, <2>1
    <2>2. CASE N <= off
      <3>1. n \in Nat /\ l \in Nat /\ n <= off /\ l <= off
        BY <2>2 DEF Longer, Tiles
      <3>2. StatusAt(a, off) = NonTried /\ StatusAt(b, off) = NonTried
        BY <3>1, TilesBehind
      <3>3. StatusAt(f[N], off) = NonTried
        BY <1>7, <2>2, TilesBehind
      <3>4. Winner(NonTried, NonTried) = NonTried
        BY DEF Winner
      <3> QED BY <3>2, <3>3, <3>4
    <2> QED BY <1>1, <2>1, <2>2
  <1> QED BY <1>2, <1>7, <1>8

\* merge is commutative.
LEMMA MergeCommutes ==
  ASSUME NEW a, NEW n, Tiles(a, n), NEW b, NEW l, Tiles(b, l)
  PROVE  Merge(a, b) = Merge(b, a)
  <1> DEFINE x == Merge(a, b)
             y == Merge(b, a)
             N == Longer(n, l)
  <1>1. /\ Tiles(x, N) /\ NoRuns(x)
        /\ \A off \in Nat : StatusAt(x, off) = Winner(StatusAt(a, off), StatusAt(b, off))
    BY MergeCorrect
  <1>2. Longer(l, n) = N
    BY DEF Longer, Tiles
  <1>3. /\ Tiles(y, Longer(l, n)) /\ NoRuns(y)
        /\ \A off \in Nat : StatusAt(y, off) = Winner(StatusAt(b, off), StatusAt(a, off))
    BY MergeCorrect
  <1>4. \A off \in Nat : StatusAt(x, off) = StatusAt(y, off)
    BY <1>1, <1>3, StatusAtType, WinnerAlgebra
  <1> HIDE DEF x, y, N
  <1>5. x = y
    BY <1>1, <1>2, <1>3, <1>4, TilesUnique
  <1> QED BY <1>5 DEF x, y

\* merge is associative.
LEMMA MergeAssociates ==
  ASSUME NEW a, NEW n, Tiles(a, n), NEW b, NEW l, Tiles(b, l), NEW c, NEW o, Tiles(c, o)
  PROVE  Merge(Merge(a, b), c) = Merge(a, Merge(b, c))
  <1> DEFINE ab == Merge(a, b)
             bc == Merge(b, c)
             x == Merge(ab, c)
             y == Merge(a, bc)
  <1>1. /\ Tiles(ab, Longer(n, l))
        /\ \A off \in Nat : StatusAt(ab, off) = Winner(StatusAt(a, off), StatusAt(b, off))
    BY MergeCorrect
  <1>2. /\ Tiles(bc, Longer(l, o))
        /\ \A off \in Nat : StatusAt(bc, off) = Winner(StatusAt(b, off), StatusAt(c, off))
    BY MergeCorrect
  <1> HIDE DEF ab, bc
  <1>3. /\ Tiles(x, Longer(Longer(n, l), o)) /\ NoRuns(x)
        /\ \A off \in Nat : StatusAt(x, off) = Winner(StatusAt(ab, off), StatusAt(c, off))
    BY <1>1, MergeCorrect
  <1>4. /\ Tiles(y, Longer(n, Longer(l, o))) /\ NoRuns(y)
        /\ \A off \in Nat : StatusAt(y, off) = Winner(StatusAt(a, off), StatusAt(bc, off))
    BY <1>2, MergeCorrect
  <1> HIDE DEF x, y
  <1>5. Longer(Longer(n, l), o) = Longer(n, Longer(l, o))
    BY DEF Longer, Tiles
  <1>6. \A off \in Nat : StatusAt(x, off) = StatusAt(y, off)
    <2> SUFFICES ASSUME NEW off \in Nat
                 PROVE  StatusAt(x, off) = StatusAt(y, off)
      OBVIOUS
    <2>1. StatusAt(a, off) \in Status /\ StatusAt(b, off) \in Status /\ StatusAt(c, off) \in Status
      BY StatusAtType
    <2> QED BY <1>1, <1>2, <1>3, <1>4, <2>1, WinnerAlgebra
  <1>7. x = y
    BY <1>3, <1>4, <1>5, <1>6, TilesUnique
  <1> QED BY <1>7 DEF x, y, ab, bc

-----------------------------------------------------------------------------
(* image_source *)

Cells == {"data", "zero"}

\* The first n sectors of the image, and what the map says of them.
Told(b, im, bs, n) ==
  /\ Tiles(bs, n)
  /\ Len(im) = n
  /\ \A i \in Nat : i < n =>
       /\ im[i + 1] = IF i \in b THEN "zero" ELSE "data"
       /\ StatusAt(bs, i) = IF i \in b THEN BadSector ELSE Finished

\* The imager is at sector cur + sec of the medium.
Placed ==
  /\ cur \in Nat /\ sec \in Nat /\ cur + sec <= Size
  /\ Told(bad, image, blocks, cur + sec)
  /\ pc = "chunk" => sec = 0
  /\ pc = "sector" => cur < Size /\ sec <= BlockLen

Tiled(bs) == \E n \in 0..Size : Tiles(bs, n)

ImagerInv ==
  /\ bad \subseteq 0..(Size - 1)
  /\ cur \in 0..Size
  /\ sec \in 0..Chunk
  /\ image \in Seq(Cells)
  /\ Tiled(blocks)
  /\ maps \in Seq(Seq(Blocks)) /\ Len(maps) <= MaxMaps
  /\ \A k \in DOMAIN maps : Tiled(maps[k])
  /\ pc \in {"idle", "chunk", "sector", "raised"}
  /\ pc \in {"chunk", "sector"} => Placed

LEMMA BlockLenFacts ==
  ASSUME cur \in Nat, cur <= Size
  PROVE  /\ BlockLen \in Nat /\ BlockLen <= Chunk /\ cur + BlockLen <= Size
         /\ cur < Size => BlockLen \in Nat \ {0}
  BY SizeAssumption DEF BlockLen, Min2

LEMMA BlockLenNat ==
  ASSUME NEW c \in 0..Size
  PROVE  Min2(Chunk, Size - c) \in Nat /\ Min2(Chunk, Size - c) <= Chunk
  BY SizeAssumption DEF Min2

LEMMA UpToChunk ==
  ASSUME NEW s \in Nat, NEW l \in Nat, l <= Chunk, s = 0 \/ s <= l
  PROVE  s \in 0..Chunk
  BY SizeAssumption

LEMMA Within ==
  ASSUME NEW c \in Nat, NEW s \in Nat, NEW z \in Nat, c + s <= z
  PROVE  c \in 0..z /\ c + s \in 0..z
  OBVIOUS

LEMMA SeqOfMembers ==
  ASSUME NEW S, NEW T, NEW s \in Seq(S), \A i \in 1..Len(s) : s[i] \in T
  PROVE  s \in Seq(T)
  OBVIOUS

LEMMA TiledType ==
  ASSUME NEW bs, Tiled(bs)
  PROVE  bs \in Seq([pos : 0..Size, size : 1..Size, status : Status])
  <1>1. PICK n \in 0..Size : Tiles(bs, n)
    BY DEF Tiled
  <1>2. \A k \in 1..Len(bs) : bs[k] \in [pos : 0..Size, size : 1..Size, status : Status]
    <2> SUFFICES ASSUME NEW k \in 1..Len(bs)
                 PROVE  bs[k] \in [pos : 0..Size, size : 1..Size, status : Status]
      OBVIOUS
    <2>1. bs[k] \in Blocks /\ End(bs[k]) <= n
      BY <1>1, TilesFacts DEF Tiles
    <2>2. bs[k].pos + bs[k].size <= Size /\ bs[k].pos \in Nat /\ bs[k].size \in Nat \ {0}
      BY <2>1, SizeAssumption DEF End, Blocks
    <2>3. bs[k].pos \in 0..Size /\ bs[k].size \in 1..Size
      BY <2>2, SizeAssumption
    <2> QED BY <2>1, <2>3 DEF Blocks
  <1>3. bs \in Seq(Blocks)
    BY <1>1 DEF Tiles
  <1> QED BY <1>2, <1>3, SeqOfMembers, Zenon

\* The next k sectors of the image, and of the map, are of one kind.
LEMMA ToldMore ==
  ASSUME NEW b, NEW im, NEW bs, NEW n, Told(b, im, bs, n),
         NEW k \in Nat \ {0}, NEW isBad \in BOOLEAN, NEW jm, NEW c,
         \A i \in Nat : n <= i /\ i < n + k => (i \in b <=> isBad),
         Tiles(c, n + k), Extends(c, bs, n, k, IF isBad THEN BadSector ELSE Finished),
         Len(jm) = n + k,
         \A i \in Nat : i < n => jm[i + 1] = im[i + 1],
         \A i \in Nat : n <= i /\ i < n + k => jm[i + 1] = IF isBad THEN "zero" ELSE "data"
  PROVE  Told(b, jm, c, n + k)
  <1> SUFFICES ASSUME NEW i \in Nat, i < n + k
               PROVE  /\ jm[i + 1] = IF i \in b THEN "zero" ELSE "data"
                      /\ StatusAt(c, i) = IF i \in b THEN BadSector ELSE Finished
    BY DEF Told
  <1>1. n \in Nat
    BY DEF Told, Tiles
  <1>2. CASE i < n
    BY <1>2 DEF Told, Extends
  <1>3. CASE n <= i
    <2>1. i \in b <=> isBad
      BY <1>3
    <2>2. StatusAt(c, i) = IF isBad THEN BadSector ELSE Finished
      BY <1>1, <1>3 DEF Extends
    <2>3. jm[i + 1] = IF isBad THEN "zero" ELSE "data"
      BY <1>3
    <2> QED BY <2>1, <2>2, <2>3
  <1> QED BY <1>1, <1>2, <1>3

LEMMA InitImager == Init => ImagerInv
  <1> SUFFICES ASSUME Init PROVE ImagerInv
    OBVIOUS
  <1>1. Tiled(blocks)
    BY TilesEmpty, SizeAssumption DEF Init, Tiled
  <1>2. maps \in Seq(Seq(Blocks)) /\ Len(maps) <= MaxMaps /\ DOMAIN maps = {}
    BY SizeAssumption DEF Init
  <1>3. image \in Seq(Cells)
    BY DEF Init
  <1>4. cur \in 0..Size /\ sec \in 0..Chunk /\ bad \subseteq 0..(Size - 1) /\ pc = "idle"
    BY SizeAssumption DEF Init
  <1> QED BY <1>1, <1>2, <1>3, <1>4 DEF ImagerInv

LEMMA BeginKeeps ==
  ASSUME ImagerInv, NEW b \in SUBSET (0..(Size - 1)), Begin(b)
  PROVE  ImagerInv'
  <1>1. /\ bad' = b /\ cur' = 0 /\ sec' = 0 /\ image' = <<>> /\ blocks' = <<>> /\ pc' = "chunk"
        /\ maps' = maps
    BY DEF Begin
  <1>2. Told(bad, image, blocks, cur + sec)'
    <2>1. Told(b, <<>>, <<>>, 0)
      BY TilesEmpty DEF Told
    <2>2. cur' + sec' = 0
      BY <1>1
    <2> QED BY <1>1, <2>1, <2>2
  <1>3. Tiled(blocks)'
    BY <1>1, TilesEmpty, SizeAssumption DEF Tiled
  <1>4. Placed'
    BY <1>1, <1>2, SizeAssumption DEF Placed
  <1>5. cur' \in 0..Size /\ sec' \in 0..Chunk /\ image' \in Seq(Cells)
    BY <1>1, SizeAssumption
  <1>6. maps' \in Seq(Seq(Blocks)) /\ Len(maps') <= MaxMaps /\ \A k \in DOMAIN maps' : Tiled(maps'[k])
    BY <1>1 DEF ImagerInv, Tiled
  <1> QED BY <1>1, <1>3, <1>4, <1>5, <1>6 DEF ImagerInv, Tiled

\* What a step that only goes on with the image leaves to be shown.
LEMMA GoesOn ==
  ASSUME ImagerInv, bad' = bad, maps' = maps, Placed',
         pc' \in {"chunk", "sector"}, image' \in Seq(Cells)
  PROVE  ImagerInv'
  <1>1. cur' \in 0..Size /\ sec' \in 0..Chunk
    <2>1. cur' \in Nat /\ sec' \in Nat /\ cur' + sec' <= Size
      BY DEF Placed
    <2>2. cur' \in 0..Size
      BY <2>1, SizeAssumption, Within, Zenon
    <2>3. pc' = "chunk" => sec' = 0
      BY DEF Placed
    <2>4. pc' = "sector" => sec' <= BlockLen'
      BY DEF Placed
    <2>5. BlockLen' \in Nat /\ BlockLen' <= Chunk
      BY <2>2, BlockLenNat, Zenon DEF BlockLen
    <2>6. sec' = 0 \/ sec' <= BlockLen'
      BY <2>3, <2>4
    <2> QED BY <2>1, <2>2, <2>5, <2>6, UpToChunk, Zenon
  <1>2. Tiled(blocks)'
    <2>1. cur' \in Nat /\ sec' \in Nat /\ cur' + sec' <= Size
      BY DEF Placed
    <2>2. cur' + sec' \in 0..Size
      BY <2>1, SizeAssumption, Within, Zenon
    <2>3. Tiles(blocks', cur' + sec')
      BY DEF Placed, Told
    <2> QED BY <2>2, <2>3 DEF Tiled
  <1>3. maps' \in Seq(Seq(Blocks)) /\ Len(maps') <= MaxMaps /\ \A k \in DOMAIN maps' : Tiled(maps'[k])
    BY DEF ImagerInv
  <1> QED BY <1>1, <1>2, <1>3 DEF ImagerInv, Tiled

LEMMA CopyChunkKeeps ==
  ASSUME ImagerInv, CopyChunk
  PROVE  ImagerInv'
  <1> DEFINE k == BlockLen
             n == cur + sec
             c == Coalesced(blocks, Block(cur, k, Finished))
             jm == image \o [i \in 1..k |-> "data"]
  <1>1. /\ pc = "chunk" /\ cur < Size /\ InChunk \cap bad = {}
        /\ image' = jm /\ blocks' = c /\ cur' = cur + k
        /\ bad' = bad /\ sec' = sec /\ maps' = maps /\ pc' = pc
    BY DEF CopyChunk
  <1>2. Placed /\ sec = 0 /\ cur \in Nat /\ image \in Seq(Cells)
    BY <1>1 DEF ImagerInv, Placed
  <1>3. k \in Nat \ {0} /\ cur + k <= Size
    <2> HIDE DEF jm, c
    <2>1. cur \in Nat /\ cur < Size /\ cur <= Size
      BY <1>1, <1>2, SizeAssumption
    <2> QED BY <2>1, BlockLenFacts, Zenon
  <1>4. n = cur /\ Told(bad, image, blocks, n)
    BY <1>2 DEF Placed
  <1>5. Tiles(c, n + k) /\ Extends(c, blocks, n, k, Finished)
    <2> HIDE DEF k, n
    <2>1. Finished \in Status /\ Tiles(blocks, n)
      BY <1>4 DEF Told, Status
    <2> QED BY <1>3, <1>4, <2>1, CoalescedTiles
  <1>6. \A i \in Nat : n <= i /\ i < n + k => i \notin bad
    <2> HIDE DEF jm, c
    <2>1. InChunk = cur..(cur + k - 1)
      BY DEF InChunk
    <2> HIDE DEF k, n
    <2>2. \A i \in Nat : n <= i /\ i < n + k => i \in InChunk
      BY <1>2, <1>3, <1>4, <2>1
    <2> QED BY <1>1, <2>2
  <1>7. /\ jm \in Seq(Cells) /\ Len(jm) = n + k
        /\ \A i \in Nat : i < n => jm[i + 1] = image[i + 1]
        /\ \A i \in Nat : n <= i /\ i < n + k => jm[i + 1] = "data"
    <2>1. Len(image) = n /\ n \in Nat
      BY <1>2, <1>4 DEF Told
    <2> HIDE DEF k, n
    <2>2. [i \in 1..k |-> "data"] \in Seq(Cells) /\ Len([i \in 1..k |-> "data"]) = k
      BY <1>3 DEF Cells
    <2> DEFINE d == [i \in 1..k |-> "data"]
    <2>3. \A i \in 1..k : d[i] = "data"
      OBVIOUS
    <2> HIDE DEF d
    <2>4. d \in Seq(Cells) /\ Len(d) = k
      BY <2>2 DEF d
    <2>5. /\ image \o d \in Seq(Cells) /\ Len(image \o d) = n + k
          /\ \A i \in 1..(n + k) : (image \o d)[i] = IF i <= n THEN image[i] ELSE d[i - n]
      BY <1>2, <1>3, <2>1, <2>4
    <2>6. \A i \in Nat : i < n => (image \o d)[i + 1] = image[i + 1]
      BY <1>3, <2>1, <2>5
    <2>7. \A i \in Nat : n <= i /\ i < n + k => (image \o d)[i + 1] = "data"
      <3> SUFFICES ASSUME NEW i \in Nat, n <= i, i < n + k
                   PROVE  (image \o d)[i + 1] = "data"
        OBVIOUS
      <3>1. i + 1 \in 1..(n + k) /\ ~(i + 1 <= n) /\ (i + 1) - n \in 1..k
        BY <1>3, <2>1
      <3> QED BY <2>3, <2>5, <3>1
    <2> QED BY <2>5, <2>6, <2>7 DEF d
  <1> HIDE DEF jm, c, k, n
  <1>8. Told(bad, jm, c, n + k)
    BY <1>3, <1>4, <1>5, <1>6, <1>7, ToldMore
  <1>9. cur' + sec' = n + k
    BY <1>1, <1>2, <1>3, <1>4
  <1>10. Placed'
    <2>1. cur' \in Nat /\ sec' = 0 /\ cur' + sec' <= Size /\ pc' = "chunk"
      BY <1>1, <1>2, <1>3
    <2>2. Told(bad, image, blocks, cur + sec)'
      BY <1>1, <1>8, <1>9
    <2> QED BY <2>1, <2>2 DEF Placed
  <1> QED BY <1>1, <1>7, <1>10, GoesOn

LEMMA EnterChunkKeeps ==
  ASSUME ImagerInv, EnterChunk
  PROVE  ImagerInv'
  <1>1. /\ pc = "chunk" /\ cur < Size /\ sec' = 0 /\ pc' = "sector"
        /\ UNCHANGED <<bad, cur, image, blocks, maps>>
    BY DEF EnterChunk
  <1>2. Placed /\ sec = 0 /\ cur \in Nat /\ image \in Seq(Cells)
    BY <1>1 DEF ImagerInv, Placed
  <1>3. BlockLen' \in Nat
    <2>1. BlockLen' = BlockLen
      BY <1>1 DEF BlockLen
    <2>2. cur <= Size
      BY <1>1, <1>2, SizeAssumption
    <2> QED BY <1>2, <2>1, <2>2, BlockLenFacts
  <1>4. Placed'
    <2>1. Told(bad, image, blocks, cur + sec)'
      BY <1>1, <1>2 DEF Placed
    <2>2. cur' \in Nat /\ sec' \in Nat /\ cur' + sec' <= Size
      BY <1>1, <1>2 DEF Placed
    <2>3. sec' <= BlockLen'
      BY <1>1, <1>3
    <2> QED BY <1>1, <2>1, <2>2, <2>3 DEF Placed
  <1> QED BY <1>1, <1>2, <1>4, GoesOn

\* One sector more, in the fallback.
LEMMA OneSector ==
  ASSUME ImagerInv, pc = "sector", sec < BlockLen, NEW isBad \in BOOLEAN,
         cur + sec \in bad <=> isBad,
         image' = Append(image, IF isBad THEN "zero" ELSE "data"),
         Tiles(blocks', (cur + sec) + 1),
         Extends(blocks', blocks, cur + sec, 1, IF isBad THEN BadSector ELSE Finished),
         sec' = sec + 1, cur' = cur, bad' = bad, maps' = maps, pc' = pc
  PROVE  ImagerInv'
  <1> DEFINE n == cur + sec
             x == IF isBad THEN "zero" ELSE "data"
  <1>1. /\ Placed /\ cur \in Nat /\ sec \in Nat /\ image \in Seq(Cells) /\ cur < Size
        /\ Told(bad, image, blocks, n)
    BY DEF ImagerInv, Placed
  <1>2. n \in Nat /\ Len(image) = n
    BY <1>1 DEF Told
  <1>3. BlockLen \in Nat /\ cur + BlockLen <= Size /\ BlockLen' = BlockLen
    <2>1. cur <= Size
      BY <1>1, SizeAssumption
    <2>2. BlockLen' = BlockLen
      BY DEF BlockLen
    <2> QED BY <1>1, <2>1, <2>2, BlockLenFacts, Zenon
  <1> HIDE DEF n
  <1>4. /\ image' \in Seq(Cells) /\ Len(image') = n + 1
        /\ \A i \in Nat : i < n => image'[i + 1] = image[i + 1]
        /\ \A i \in Nat : n <= i /\ i < n + 1 => image'[i + 1] = x
    <2>1. x \in Cells
      BY DEF Cells
    <2> HIDE DEF x
    <2>2. image' = Append(image, x)
      BY DEF x
    <2>3. /\ Append(image, x) \in Seq(Cells) /\ Len(Append(image, x)) = n + 1
          /\ Append(image, x)[n + 1] = x
          /\ \A i \in 1..n : Append(image, x)[i] = image[i]
      BY <1>1, <1>2, <2>1
    <2>4. \A i \in Nat : n <= i /\ i < n + 1 => i = n
      BY <1>2
    <2> QED BY <1>2, <2>2, <2>3, <2>4
  <1>5. \A i \in Nat : n <= i /\ i < n + 1 => (i \in bad <=> isBad)
    <2>1. \A i \in Nat : n <= i /\ i < n + 1 => i = n
      BY <1>2
    <2>2. n \in bad <=> isBad
      BY DEF n
    <2> QED BY <2>1, <2>2
  <1>6. Told(bad, image', blocks', n + 1)
    <2>1. 1 \in Nat \ {0} /\ Tiles(blocks', n + 1)
      BY DEF n
    <2>2. Extends(blocks', blocks, n, 1, IF isBad THEN BadSector ELSE Finished)
      BY DEF n
    <2>3. Told(bad, image, blocks, n)
      BY <1>1
    <2> HIDE DEF x
    <2>4. \A i \in Nat : n <= i /\ i < n + 1 => image'[i + 1] = IF isBad THEN "zero" ELSE "data"
      BY <1>4 DEF x
    <2> QED BY <1>4, <1>5, <2>1, <2>2, <2>3, <2>4, ToldMore
  <1>7. Placed'
    <2>1. cur' + sec' = n + 1 /\ sec' \in Nat
      BY <1>1 DEF n
    <2>2. sec' <= BlockLen'
      BY <1>1, <1>3
    <2>3. cur' + sec' <= Size
      BY <1>1, <1>3, <2>2, SizeAssumption
    <2> QED BY <1>1, <1>6, <2>1, <2>2, <2>3 DEF Placed
  <1> QED BY <1>4, <1>7, GoesOn

LEMMA CopySectorKeeps ==
  ASSUME ImagerInv, CopySector
  PROVE  ImagerInv'
  <1>1. /\ pc = "sector" /\ sec < BlockLen /\ cur + sec \notin bad
        /\ image' = Append(image, "data")
        /\ blocks' = Coalesced(blocks, Block(cur + sec, 1, Finished))
        /\ sec' = sec + 1 /\ cur' = cur /\ bad' = bad /\ maps' = maps /\ pc' = pc
    BY DEF CopySector
  <1>2. Tiles(blocks, cur + sec)
    BY <1>1 DEF ImagerInv, Placed, Told
  <1> DEFINE n == cur + sec
  <1> HIDE DEF n
  <1>3. Tiles(blocks', n + 1) /\ Extends(blocks', blocks, n, 1, Finished)
    <2>1. Finished \in Status /\ 1 \in Nat \ {0} /\ Tiles(blocks, n)
      BY <1>2 DEF Status, n
    <2>2. blocks' = Coalesced(blocks, Block(n, 1, Finished))
      BY <1>1 DEF n
    <2> QED BY <2>1, <2>2, CoalescedTiles
  <1> DEFINE isBad == FALSE
  <1>4. /\ isBad \in BOOLEAN /\ (cur + sec \in bad <=> isBad)
        /\ image' = Append(image, IF isBad THEN "zero" ELSE "data")
        /\ Extends(blocks', blocks, cur + sec, 1, IF isBad THEN BadSector ELSE Finished)
        /\ Tiles(blocks', (cur + sec) + 1)
    BY <1>1, <1>3 DEF n
  <1> HIDE DEF isBad
  <1> QED BY <1>1, <1>4, OneSector, Zenon

LEMMA SkipSectorKeeps ==
  ASSUME ImagerInv, SkipSector
  PROVE  ImagerInv'
  <1>1. /\ pc = "sector" /\ sec < BlockLen /\ cur + sec \in bad
        /\ image' = Append(image, "zero")
        /\ cur' = cur /\ bad' = bad /\ maps' = maps
    BY DEF SkipSector
  <1>2. Tiles(blocks, cur + sec) /\ image \in Seq(Cells)
    BY <1>1 DEF ImagerInv, Placed, Told
  <1>3. CASE blocks # <<>> /\ Last(blocks).status = BadSector
    <2>1. pc' = "raised" /\ blocks' = blocks /\ sec' = sec
      BY <1>3 DEF SkipSector
    <2>2. image' \in Seq(Cells)
      BY <1>1, <1>2 DEF Cells
    <2>3. Tiled(blocks)' /\ \A k \in DOMAIN maps' : Tiled(maps'[k])
      BY <1>1, <2>1 DEF ImagerInv, Tiled
    <2>4. maps' \in Seq(Seq(Blocks)) /\ Len(maps') <= MaxMaps
      BY <1>1 DEF ImagerInv
    <2>5. bad' \subseteq 0..(Size - 1) /\ cur' \in 0..Size /\ sec' \in 0..Chunk
      BY <1>1, <2>1 DEF ImagerInv
    <2> QED BY <2>1, <2>2, <2>3, <2>4, <2>5 DEF ImagerInv, Tiled
  <1>4. CASE ~(blocks # <<>> /\ Last(blocks).status = BadSector)
    <2>1. blocks' = Append(blocks, Block(cur + sec, 1, BadSector)) /\ sec' = sec + 1 /\ pc' = pc
      BY <1>4 DEF SkipSector
    <2> DEFINE n == cur + sec
    <2> HIDE DEF n
    <2>2. Tiles(blocks', n + 1) /\ Extends(blocks', blocks, n, 1, BadSector)
      <3>1. BadSector \in Status /\ 1 \in Nat \ {0} /\ Tiles(blocks, n)
        BY <1>2 DEF Status, n
      <3>2. blocks' = Append(blocks, Block(n, 1, BadSector))
        BY <2>1 DEF n
      <3> QED BY <3>1, <3>2, TilesAppend
    <2> DEFINE isBad == TRUE
    <2>3. /\ isBad \in BOOLEAN /\ (cur + sec \in bad <=> isBad)
          /\ image' = Append(image, IF isBad THEN "zero" ELSE "data")
          /\ Extends(blocks', blocks, cur + sec, 1, IF isBad THEN BadSector ELSE Finished)
          /\ Tiles(blocks', (cur + sec) + 1)
      BY <1>1, <2>2 DEF n
    <2> HIDE DEF isBad
    <2> QED BY <1>1, <2>1, <2>3, OneSector, Zenon
  <1> QED BY <1>3, <1>4

LEMMA EndChunkKeeps ==
  ASSUME ImagerInv, EndChunk
  PROVE  ImagerInv'
  <1>1. /\ pc = "sector" /\ sec = BlockLen /\ cur' = cur + BlockLen /\ sec' = 0 /\ pc' = "chunk"
        /\ UNCHANGED <<bad, image, blocks, maps>>
    BY DEF EndChunk
  <1>2. /\ cur \in Nat /\ sec \in Nat /\ cur + sec <= Size /\ image \in Seq(Cells)
        /\ Told(bad, image, blocks, cur + sec)
    BY <1>1 DEF ImagerInv, Placed
  <1>3. cur' + sec' = cur + sec /\ cur' \in Nat /\ sec' \in Nat
    BY <1>1, <1>2
  <1>4. Told(bad, image, blocks, cur + sec)'
    BY <1>1, <1>2, <1>3
  <1>5. Placed'
    BY <1>1, <1>2, <1>3, <1>4 DEF Placed
  <1> QED BY <1>1, <1>2, <1>5, GoesOn

\* One mapfile more.
LEMMA OneMapMore ==
  ASSUME ImagerInv, NEW bs, Tiled(bs), Len(maps) < MaxMaps, maps' = Append(maps, bs)
  PROVE  /\ maps' \in Seq(Seq(Blocks)) /\ Len(maps') <= MaxMaps
         /\ \A k \in DOMAIN maps' : Tiled(maps'[k])
  <1>1. bs \in Seq(Blocks)
    BY DEF Tiled, Tiles
  <1>2. PICK m \in Nat : Len(maps) = m /\ DOMAIN maps = 1..m
    BY DEF ImagerInv
  <1>3. maps \in Seq(Seq(Blocks)) /\ \A k \in 1..m : Tiled(maps[k])
    BY <1>2 DEF ImagerInv
  <1> DEFINE S == Seq(Blocks)
             new == Append(maps, bs)
  <1>4. bs \in S /\ maps \in Seq(S)
    BY <1>1, <1>3
  <1> HIDE DEF S
  <1>5. new \in Seq(S) /\ Len(new) = m + 1 /\ DOMAIN new = 1..(m + 1) /\ new[m + 1] = bs
        /\ \A k \in 1..m : new[k] = maps[k]
    BY <1>2, <1>4
  <1> HIDE DEF new
  <1>6. \A k \in 1..(m + 1) : k \in 1..m \/ k = m + 1
    BY <1>2
  <1>7. \A k \in DOMAIN new : Tiled(new[k])
    BY <1>3, <1>5, <1>6
  <1>8. Len(new) <= MaxMaps
    BY <1>2, <1>5, SizeAssumption
  <1>9. maps' = new
    BY DEF new
  <1> QED BY <1>5, <1>7, <1>8, <1>9 DEF S, Tiled

\* While it images, there is room for the mapfile the imager will write.
Room == pc \in {"chunk", "sector"} => Len(maps) < MaxMaps

LEMMA SealKeeps ==
  ASSUME ImagerInv, Room, Seal
  PROVE  ImagerInv'
  <1>1. pc = "chunk" /\ maps' = Append(maps, blocks) /\ pc' = "idle" /\ UNCHANGED call
    BY DEF Seal
  <1>2. UNCHANGED <<bad, cur, sec, image, blocks>>
    BY <1>1 DEF call
  <1>3. Tiled(blocks) /\ Len(maps) < MaxMaps
    BY <1>1 DEF ImagerInv, Room
  <1>4. /\ maps' \in Seq(Seq(Blocks)) /\ Len(maps') <= MaxMaps
        /\ \A k \in DOMAIN maps' : Tiled(maps'[k])
    BY <1>1, <1>3, OneMapMore
  <1> QED BY <1>1, <1>2, <1>4 DEF ImagerInv, Tiled

\* The pieces of a loaded mapfile follow one another.
LEMMA PieceTiles ==
  ASSUME NEW n \in 0..Size, NEW f \in [1..n -> External]
  PROVE  Tiled(Piece(f, n))
  <1> DEFINE bs == Piece(f, n)
  <1>1. n \in Nat
    BY SizeAssumption
  <1>2. \A k \in 1..n : /\ bs[k] \in Blocks
                        /\ bs[k].pos = k - 1 /\ End(bs[k]) = k
    <2> SUFFICES ASSUME NEW k \in 1..n
                 PROVE  bs[k] \in Blocks /\ bs[k].pos = k - 1 /\ End(bs[k]) = k
      OBVIOUS
    <2>1. bs[k] = Block(k - 1, 1, f[k])
      BY DEF Piece
    <2>2. f[k] \in Status /\ k - 1 \in Nat /\ 1 \in Nat \ {0} /\ (k - 1) + 1 = k
      BY <1>1, ExternalAssumption
    <2> HIDE DEF bs
    <2> QED BY <2>1, <2>2 DEF Block, Blocks, End
  <1>3. bs \in Seq(Blocks) /\ Len(bs) = n /\ DOMAIN bs = 1..n /\ (bs = <<>> <=> n = 0)
    BY <1>1, <1>2 DEF Piece
  <1> HIDE DEF bs
  <1>4. \A off \in Nat : off < n => \E k \in 1..n : Holds(bs[k], off)
    <2> SUFFICES ASSUME NEW off \in Nat, off < n
                 PROVE  \E k \in 1..n : Holds(bs[k], off)
      OBVIOUS
    <2>1. off + 1 \in 1..n
      BY <1>1
    <2>2. Holds(bs[off + 1], off)
      BY <1>2, <2>1 DEF Holds
    <2> QED BY <2>1, <2>2
  <1>5. \A k \in 1..n : bs[k].pos = IF k = 1 THEN 0 ELSE End(bs[k - 1])
    <2> SUFFICES ASSUME NEW k \in 1..n
                 PROVE  bs[k].pos = IF k = 1 THEN 0 ELSE End(bs[k - 1])
      OBVIOUS
    <2>1. bs[k].pos = k - 1
      BY <1>2
    <2>2. k # 1 => k - 1 \in 1..n
      BY <1>1
    <2>3. k # 1 => End(bs[k - 1]) = k - 1
      BY <1>2, <2>2
    <2> QED BY <1>1, <2>1, <2>3
  <1>6. \A j, k \in 1..n : j < k => End(bs[j]) <= bs[k].pos
    <2> SUFFICES ASSUME NEW j \in 1..n, NEW k \in 1..n, j < k
                 PROVE  End(bs[j]) <= bs[k].pos
      OBVIOUS
    <2>1. End(bs[j]) = j /\ bs[k].pos = k - 1
      BY <1>2
    <2> QED BY <1>1, <2>1
  <1>7. \A k \in 1..n : End(bs[k]) <= n
    BY <1>1, <1>2
  <1>8. IF bs = <<>> THEN n = 0 ELSE End(bs[Len(bs)]) = n
    <2>1. n # 0 => n \in 1..n
      BY <1>1
    <2>2. n # 0 => End(bs[n]) = n
      BY <1>2, <2>1
    <2> QED BY <1>3, <2>2
  <1>9. Tiles(bs, n)
    BY <1>1, <1>3, <1>4, <1>5, <1>6, <1>7, <1>8, Zenon DEF Tiles
  <1> QED BY <1>9 DEF Tiled, bs

LEMMA LoadKeeps ==
  ASSUME ImagerInv, NEW n \in 0..Size, NEW f \in [1..n -> External], Load(f, n)
  PROVE  ImagerInv'
  <1>1. /\ pc \in {"idle", "raised"} /\ Len(maps) < MaxMaps /\ maps' = Append(maps, Piece(f, n))
        /\ pc' = pc /\ UNCHANGED <<bad, cur, sec, image, blocks>>
    BY DEF Load, call
  <1>2. /\ maps' \in Seq(Seq(Blocks)) /\ Len(maps') <= MaxMaps
        /\ \A k \in DOMAIN maps' : Tiled(maps'[k])
    BY <1>1, PieceTiles, OneMapMore
  <1> QED BY <1>1, <1>2 DEF ImagerInv, Tiled

ImagerWithRoom == ImagerInv /\ Room

LEMMA InitWithRoom == Init => ImagerWithRoom
  <1>1. Init => Room
    BY DEF Init, Room
  <1> QED BY <1>1, InitImager DEF ImagerWithRoom

LEMMA NextKeeps ==
  ASSUME ImagerWithRoom, [Next]_vars
  PROVE  ImagerWithRoom'
  <1>1. ImagerInv /\ Room
    BY DEF ImagerWithRoom
  <1>2. ASSUME NEW b \in SUBSET (0..(Size - 1)), Begin(b)
        PROVE  ImagerWithRoom'
    <2>1. Room'
      BY <1>2 DEF Begin, Room
    <2> QED BY <1>1, <1>2, <2>1, BeginKeeps DEF ImagerWithRoom
  <1>3. CASE CopyChunk
    <2>1. Room'
      BY <1>1, <1>3 DEF CopyChunk, Room
    <2> QED BY <1>1, <1>3, <2>1, CopyChunkKeeps DEF ImagerWithRoom
  <1>4. CASE EnterChunk
    <2>1. Room'
      BY <1>1, <1>4 DEF EnterChunk, Room
    <2> QED BY <1>1, <1>4, <2>1, EnterChunkKeeps DEF ImagerWithRoom
  <1>5. CASE CopySector
    <2>1. Room'
      BY <1>1, <1>5 DEF CopySector, Room
    <2> QED BY <1>1, <1>5, <2>1, CopySectorKeeps DEF ImagerWithRoom
  <1>6. CASE SkipSector
    <2>1. Room'
      BY <1>1, <1>6 DEF SkipSector, Room
    <2> QED BY <1>1, <1>6, <2>1, SkipSectorKeeps DEF ImagerWithRoom
  <1>7. CASE EndChunk
    <2>1. Room'
      BY <1>1, <1>7 DEF EndChunk, Room
    <2> QED BY <1>1, <1>7, <2>1, EndChunkKeeps DEF ImagerWithRoom
  <1>8. CASE Seal
    <2>1. Room'
      BY <1>8 DEF Seal, Room
    <2> QED BY <1>1, <1>8, <2>1, SealKeeps DEF ImagerWithRoom
  <1>9. ASSUME NEW n \in 0..Size, NEW f \in [1..n -> External], Load(f, n)
        PROVE  ImagerWithRoom'
    <2>1. Room'
      BY <1>9 DEF Load, Room
    <2> QED BY <1>1, <1>9, <2>1, LoadKeeps DEF ImagerWithRoom
  <1>10. CASE UNCHANGED vars
    <2>1. UNCHANGED <<bad, cur, sec, image, blocks, maps, pc>>
      BY <1>10 DEF vars, call
    <2>2. Placed => Placed'
      BY <2>1 DEF Placed, Told, BlockLen
    <2>3. ImagerInv'
      BY <1>1, <2>1, <2>2 DEF ImagerInv, Tiled
    <2>4. Room'
      BY <1>1, <2>1 DEF Room
    <2> QED BY <2>3, <2>4 DEF ImagerWithRoom
  <1> QED BY <1>2, <1>3, <1>4, <1>5, <1>6, <1>7, <1>8, <1>9, <1>10 DEF Next

\* In every state of the imager the blocks of its map follow one another from
\* the start of the medium, and so do those of every mapfile that was written
\* or parsed; between two sectors the image is as long as the map, and says of
\* every sector what the map says (image_source, DdrescueMapfile.add_block).
THEOREM ImagerInvariant == Spec => []ImagerWithRoom
  <1>1. Init => ImagerWithRoom
    BY InitWithRoom
  <1>2. ImagerWithRoom /\ [Next]_vars => ImagerWithRoom'
    BY NextKeeps
  <1> QED BY <1>1, <1>2, PTL DEF Spec

LEMMA InvImpliesType == ImagerWithRoom => TypeOK
  <1> SUFFICES ASSUME ImagerInv PROVE TypeOK
    BY DEF ImagerWithRoom
  <1>1. \A bs \in {blocks} \cup {maps[k] : k \in DOMAIN maps} :
          bs \in Seq([pos : 0..Size, size : 1..Size, status : Status])
    <2>1. \A bs \in {blocks} \cup {maps[k] : k \in DOMAIN maps} : Tiled(bs)
      BY DEF ImagerInv
    <2> QED BY <2>1, TiledType, Zenon
  <1>2. image \in Seq({"data", "zero"})
    BY DEF ImagerInv, Cells
  <1>3. /\ bad \subseteq 0..(Size - 1) /\ cur \in 0..Size /\ sec \in 0..Chunk
        /\ Len(maps) <= MaxMaps /\ pc \in {"idle", "chunk", "sector", "raised"}
    BY DEF ImagerInv
  <1> QED BY <1>1, <1>2, <1>3 DEF TypeOK

LEMMA InvImpliesTold == ImagerWithRoom => MapTellsImage
  <1> SUFFICES ASSUME ImagerInv, pc \in {"chunk", "sector"}
               PROVE  /\ Valid(blocks)
                      /\ TotalSize(blocks) = Len(image) /\ Len(image) = cur + sec
                      /\ \A i \in 0..(Len(image) - 1) :
                           /\ image[i + 1] = IF i \in bad THEN "zero" ELSE "data"
                           /\ StatusAt(blocks, i) = IF i \in bad THEN BadSector ELSE Finished
    BY DEF ImagerWithRoom, MapTellsImage
  <1> DEFINE n == cur + sec
  <1>1. Told(bad, image, blocks, n) /\ n \in Nat
    BY DEF ImagerInv, Placed
  <1> HIDE DEF n
  <1>2. Valid(blocks) /\ TotalSize(blocks) = n /\ Len(image) = n
    BY <1>1, TilesValid, TilesTotal DEF Told
  <1>3. \A i \in 0..(n - 1) : i \in Nat /\ i < n
    BY <1>1
  <1>4. \A i \in 0..(Len(image) - 1) :
          /\ image[i + 1] = IF i \in bad THEN "zero" ELSE "data"
          /\ StatusAt(blocks, i) = IF i \in bad THEN BadSector ELSE Finished
    BY <1>1, <1>2, <1>3 DEF Told
  <1> QED BY <1>2, <1>4 DEF n

\* The mapfiles that merge is given.
LEMMA MapsTiled ==
  ASSUME ImagerWithRoom, NEW k \in DOMAIN maps, NEW j \in 1..k
  PROVE  j \in DOMAIN maps /\ (\E n \in Nat : Tiles(maps[j], n)) /\ \E n \in Nat : Tiles(maps[k], n)
  <1>1. PICK m \in Nat : DOMAIN maps = 1..m
    BY DEF ImagerWithRoom, ImagerInv
  <1>2. j \in DOMAIN maps
    BY <1>1
  <1>3. Tiled(maps[j]) /\ Tiled(maps[k])
    BY <1>2 DEF ImagerWithRoom, ImagerInv
  <1>4. \A bs : Tiled(bs) => \E n \in Nat : Tiles(bs, n)
    BY DEF Tiled, Tiles
  <1> QED BY <1>2, <1>3, <1>4

LEMMA InvImpliesPointwise == ImagerWithRoom => MergePointwise
  <1> SUFFICES ASSUME ImagerWithRoom, NEW k \in DOMAIN maps, NEW j \in 1..k, NEW i \in 0..Size
               PROVE  StatusAt(Merge(maps[j], maps[k]), i)
                        = Winner(StatusAt(maps[j], i), StatusAt(maps[k], i))
    BY DEF MergePointwise
  <1>1. PICK n \in Nat : Tiles(maps[j], n)
    BY MapsTiled
  <1>2. PICK l \in Nat : Tiles(maps[k], l)
    BY MapsTiled
  <1>3. i \in Nat
    BY SizeAssumption
  <1> QED BY <1>1, <1>2, <1>3, MergeCorrect, ZenonT(60)

LEMMA InvImpliesCanonical == ImagerWithRoom => MergeCanonical
  <1> SUFFICES ASSUME ImagerWithRoom, NEW k \in DOMAIN maps, NEW j \in 1..k
               PROVE  LET m == Merge(maps[j], maps[k])
                      IN /\ Valid(m)
                         /\ TotalSize(m) = Max({TotalSize(maps[j]), TotalSize(maps[k])})
                         /\ \A i \in 1..(Len(m) - 1) : m[i].status # m[i + 1].status
    BY DEF MergeCanonical
  <1>1. PICK n \in Nat : Tiles(maps[j], n)
    BY MapsTiled
  <1>2. PICK l \in Nat : Tiles(maps[k], l)
    BY MapsTiled
  <1> DEFINE m == Merge(maps[j], maps[k])
  <1>3. Tiles(m, Longer(n, l)) /\ NoRuns(m)
    BY <1>1, <1>2, MergeCorrect
  <1> HIDE DEF m
  <1>4. Valid(m) /\ TotalSize(m) = Longer(n, l)
    BY <1>3, TilesValid, TilesTotal
  <1>5. TotalSize(maps[j]) = n /\ TotalSize(maps[k]) = l
    BY <1>1, <1>2, TilesTotal
  <1>6. Max({n, l}) = Longer(n, l)
    <2>1. {n, l} \in SUBSET Nat /\ Longer(n, l) \in {n, l} /\ \A x \in {n, l} : x <= Longer(n, l)
      BY DEF Longer
    <2> QED BY <2>1, MaxIs
  <1> QED BY <1>3, <1>4, <1>5, <1>6 DEF NoRuns, m

LEMMA InvImpliesOrderFree == ImagerWithRoom => BlocksOrderFree
  <1> SUFFICES ASSUME ImagerWithRoom, NEW l \in DOMAIN maps, NEW k \in 1..(l - 1)
               PROVE  /\ Merge(maps[k], maps[l]) = Merge(maps[l], maps[k])
                      /\ MergedStatus(maps[k], maps[l]) = MergedStatus(maps[l], maps[k])
                      /\ \A j \in 1..(k - 1) :
                           Merge(Merge(maps[j], maps[k]), maps[l])
                             = Merge(maps[j], Merge(maps[k], maps[l]))
    BY DEF BlocksOrderFree
  <1>1. l \in Nat
    BY DEF ImagerWithRoom, ImagerInv
  <1>2. k \in 1..l /\ \A j \in 1..(k - 1) : j \in 1..l
    BY <1>1
  <1>3. PICK n \in Nat : Tiles(maps[k], n)
    BY <1>2, MapsTiled
  <1>4. PICK o \in Nat : Tiles(maps[l], o)
    BY <1>2, MapsTiled
  <1>5. Merge(maps[k], maps[l]) = Merge(maps[l], maps[k])
    BY <1>3, <1>4, MergeCommutes
  <1>6. ASSUME NEW j \in 1..(k - 1)
        PROVE  Merge(Merge(maps[j], maps[k]), maps[l]) = Merge(maps[j], Merge(maps[k], maps[l]))
    <2>1. PICK p \in Nat : Tiles(maps[j], p)
      BY <1>2, MapsTiled
    <2> QED BY <1>3, <1>4, <2>1, MergeAssociates
  <1>7. MergedStatus(maps[k], maps[l]) = MergedStatus(maps[l], maps[k])
    <2>1. {TotalSize(maps[k]), TotalSize(maps[l])} = {TotalSize(maps[l]), TotalSize(maps[k])}
      OBVIOUS
    <2> QED BY <2>1, Zenon DEF MergedStatus
  <1> QED BY <1>5, <1>6, <1>7

\* In a complete mapfile no sector is left to be tried, trimmed or scraped.
LEMMA CompleteSectors ==
  ASSUME NEW bs, NEW n, Tiles(bs, n), Complete(bs), NEW i \in Nat, i < n
  PROVE  StatusAt(bs, i) \in {BadSector, Finished}
  <1>1. PICK k \in DOMAIN bs : Holds(bs[k], i)
    BY DEF Tiles
  <1>2. StatusAt(bs, i) = bs[k].status
    BY <1>1, TilesStatus
  <1>3. bs[k].status \in Status \ {NonTried, NonTrimmed, NonScraped}
    BY TilesFacts, BlockFacts DEF Complete
  <1> QED BY <1>2, <1>3 DEF Status

LEMMA InvImpliesTruthful == ImagerWithRoom => HeaderTruthful
  <1> SUFFICES ASSUME ImagerWithRoom, NEW k \in DOMAIN maps, NEW j \in 1..k,
                      TotalSize(maps[j]) = TotalSize(maps[k]),
                      MergedStatus(maps[j], maps[k]) = Finished,
                      NEW i \in 0..(TotalSize(maps[k]) - 1)
               PROVE  StatusAt(Merge(maps[j], maps[k]), i) \in {BadSector, Finished}
    BY DEF HeaderTruthful
  <1> DEFINE a == maps[j]
             b == maps[k]
  <1>1. PICK n \in Nat : Tiles(a, n)
    BY MapsTiled
  <1>2. PICK l \in Nat : Tiles(b, l)
    BY MapsTiled
  <1> HIDE DEF a, b
  <1>3. n = l /\ i \in Nat /\ i < n
    <2>1. TotalSize(a) = n /\ TotalSize(b) = l /\ n \in Nat
      BY <1>1, <1>2, TilesTotal
    <2>2. TotalSize(a) = TotalSize(b) /\ i \in 0..(TotalSize(b) - 1)
      BY DEF a, b
    <2>3. n = l /\ i \in 0..(n - 1)
      BY <2>1, <2>2
    <2> QED BY <2>1, <2>3
  <1>4. Complete(a) \/ Complete(b)
    BY DEF MergedStatus, Finished, NonTried, a, b
  <1>5. StatusAt(Merge(a, b), i) = Winner(StatusAt(a, i), StatusAt(b, i))
    BY <1>1, <1>2, <1>3, MergeCorrect, ZenonT(60)
  <1>6. StatusAt(a, i) \in Status /\ StatusAt(b, i) \in Status
    BY <1>1, <1>2, <1>3, StatusAtType
  <1>7. StatusAt(a, i) \in {BadSector, Finished} \/ StatusAt(b, i) \in {BadSector, Finished}
    BY <1>1, <1>2, <1>3, <1>4, CompleteSectors
  <1>8. \A x, y \in Status :
          x \in {BadSector, Finished} \/ y \in {BadSector, Finished}
            => Winner(x, y) \in {BadSector, Finished}
    BY DEF Winner, Priority, Status, NonTried, NonTrimmed, NonScraped, BadSector, Finished
  <1> QED BY <1>5, <1>6, <1>7, <1>8 DEF a, b

\* The offsets, sizes and statuses of every block, of the map that is being
\* made and of every mapfile, lie within the medium (image_source, which cuts
\* the last chunk off at the end).
THEOREM TypeCorrect == Spec => []TypeOK
  BY ImagerInvariant, InvImpliesType, PTL

\* Whatever sectors are bad, the map says between two sectors exactly what is
\* in the image: readable sectors at their own offset and finished, bad ones
\* zeroed and recorded as bad (image_source).
THEOREM MapTellsImageHolds == Spec => []MapTellsImage
  BY ImagerInvariant, InvImpliesTold, PTL

\* DdrescueMapfile.merge gives every sector the better of its two statuses,
\* wherever the blocks of the two mapfiles begin and end.
THEOREM MergePointwiseHolds == Spec => []MergePointwise
  BY ImagerInvariant, InvImpliesPointwise, PTL

\* What DdrescueMapfile.merge returns has no gap and no overlap, is as long as
\* the longer of the two mapfiles, and has no two adjacent blocks of one status.
THEOREM MergeCanonicalHolds == Spec => []MergeCanonical
  BY ImagerInvariant, InvImpliesCanonical, PTL

\* On the blocks DdrescueMapfile.merge is commutative and associative: the
\* order in which the passes over a medium are put together makes no
\* difference to them.  The status in the header of the result does not
\* depend on the order of two passes either, but may on that of three.
THEOREM BlocksOrderFreeHolds == Spec => []BlocksOrderFree
  BY ImagerInvariant, InvImpliesOrderFree, PTL

\* When two mapfiles of one length are merged and the header of the result
\* says FINISHED, no sector of it is left to be tried, trimmed or scraped
\* (damaged_media.py, the last lines of merge).
THEOREM HeaderTruthfulHolds == Spec => []HeaderTruthful
  BY ImagerInvariant, InvImpliesTruthful, PTL
=============================================================================
