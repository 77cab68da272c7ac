------------------------ MODULE SectorImager_proofs ------------------------
(***************************************************************************)
(* What the imaging tool leaves behind for every medium, block size and    *)
(* number of retries, wherever it is cancelled or crashes.                 *)
(***************************************************************************)
EXTENDS SectorImager, TLAPS

\* The pending ranges of read_write follow one another without a gap and end
\* where the current block ends.
Stop(r) == r[1] + r[2]
Meet(w, end) ==
  /\ \A i, j \in 1..Len(w) : j = i + 1 => Stop(w[i]) = w[j][1]
  /\ \A i \in 1..Len(w) : i = Len(w) => Stop(w[i]) = end
RangesMeet == Meet(work, pos)

WorkWhileReading ==
  /\ work # <<>> => pc \in {"read", "retry", "crashed"}
  /\ pc = "retry" => work # <<>> /\ work[1][2] = 1 /\ ~MustRead({work[1][1]})

\* Everything before the first pending range is decided, nothing after it.
FrontOf(w, end) == IF w = <<>> THEN end ELSE w[1][1]
Front == FrontOf(work, pos)
Decided ==
  \A s \in Sectors :
    /\ sectors[s] = "Unknown" <=> s >= Front
    /\ s < Front /\ MustRead({s}) => sectors[s] = "Good"

\* The sectors marked good are the ones the stream was given.
GoodWritten ==
  ~full => \A s \in Sectors : sectors[s] = "Good" <=> s \in image \cup buffer

\* Between writing the temporary file and renaming it, it is the map; unless
\* a rename has failed, a map that was in place is still whole, there or under
\* the other name; what it calls good stays good; and the image() that returns
\* leaves the map it returns in place if its last save succeeded.
TmpIsMap == ~full /\ pc \in {"remove", "rename"} => tmpFile = Whole(sectors)
MapKept ==
  ~full /\ saved /\ ~stranded =>
    (mapFile.is = "whole" \/ (pc \in {"rename", "crashed"} /\ tmpFile.is = "whole"))
MapBehind ==
  ~full /\ mapFile.is = "whole" =>
    \A s \in Sectors : mapFile.map[s] = "Good" => sectors[s] = "Good"
ReturnedWithMap ==
  ~full /\ pc \in {"return", "done"} /\ status # "destination_error" =>
    (saveOk => mapFile = Whole(sectors)) /\ (pc = "done" => buffer = {})

ImagerInv ==
  /\ TypeOK /\ RangesMeet /\ WorkWhileReading /\ Decided /\ GoodWritten
  /\ TmpIsMap /\ MapKept /\ MapBehind /\ ReturnedWithMap

-----------------------------------------------------------------------------
(* The ranges read_write still has to read *)

Ranges == Sectors \X (1..SectorCount)

LEMMA EmptyIff ==
  ASSUME NEW S, NEW w \in Seq(S)
  PROVE  Len(w) \in Nat /\ (w = <<>> <=> Len(w) = 0)
  OBVIOUS

LEMMA TailFacts ==
  ASSUME NEW S, NEW w \in Seq(S), w # <<>>
  PROVE  \E n \in Nat :
           /\ Len(w) = n + 1 /\ Tail(w) \in Seq(S) /\ Len(Tail(w)) = n
           /\ Head(w) = w[1]
           /\ \A i \in 1..n : Tail(w)[i] = w[i + 1]
  <1>1. PICK n \in Nat : Len(w) = n + 1
    <2>1. Len(w) \in Nat /\ Len(w) # 0
      OBVIOUS
    <2>2. Len(w) - 1 \in Nat /\ Len(w) = (Len(w) - 1) + 1
      BY <2>1
    <2> QED BY <2>2
  <1>2. Tail(w) \in Seq(S) /\ Len(Tail(w)) = n
    BY <1>1
  <1>3. \A i \in 1..n : Tail(w)[i] = w[i + 1]
    BY <1>1
  <1> QED BY <1>1, <1>2, <1>3

LEMMA PairFacts ==
  ASSUME NEW S, NEW a \in S, NEW b \in S, NEW t \in Seq(S), NEW n \in Nat, Len(t) = n
  PROVE  LET w == <<a, b>> \o t
         IN  /\ w \in Seq(S) /\ Len(w) = n + 2
             /\ w[1] = a /\ w[2] = b
             /\ \A i \in 1..n : w[i + 2] = t[i]
  <1>1. <<a, b>> \in Seq(S) /\ Len(<<a, b>>) = 2
    OBVIOUS
  <1>2. (<<a, b>> \o t) \in Seq(S)
    BY <1>1
  <1>3. Len(<<a, b>> \o t) = n + 2
    BY <1>1
  <1>4. (<<a, b>> \o t)[1] = a /\ (<<a, b>> \o t)[2] = b
    BY <1>1
  <1>5. \A i \in 1..n : (<<a, b>> \o t)[i + 2] = t[i]
    BY <1>1
  <1> QED BY <1>2, <1>3, <1>4, <1>5

\* A range lies on the medium from a sector to its stop.
LEMMA RangeType ==
  ASSUME NEW r \in Ranges
  PROVE  /\ r[1] \in Nat /\ r[1] <= SectorCount - 1 /\ r[2] \in Nat \ {0}
         /\ Stop(r) \in Nat /\ r[1] < Stop(r)
  BY ImagerAssumption DEF Ranges, Sectors, Stop

\* The first pending range stops where the rest of them begins.
LEMMA HeadTail ==
  ASSUME NEW w \in Seq(Ranges), w # <<>>, NEW end \in 0..SectorCount, Meet(w, end)
  PROVE  /\ w[1] \in Ranges /\ Head(w) = w[1]
         /\ Tail(w) \in Seq(Ranges) /\ Meet(Tail(w), end)
         /\ FrontOf(Tail(w), end) = Stop(w[1]) /\ Stop(w[1]) <= SectorCount
  <1>1. PICK n \in Nat :
           /\ Len(w) = n + 1 /\ Tail(w) \in Seq(Ranges) /\ Len(Tail(w)) = n
           /\ Head(w) = w[1]
           /\ \A i \in 1..n : Tail(w)[i] = w[i + 1]
    BY TailFacts
  <1>2. \A i \in 1..n + 1 : w[i] \in Ranges
    BY <1>1
  <1>3. Meet(Tail(w), end)
    <2>1. ASSUME NEW i \in 1..n, NEW j \in 1..n, j = i + 1
          PROVE  Stop(Tail(w)[i]) = Tail(w)[j][1]
      <3>1. i + 1 \in 1..n + 1 /\ j + 1 \in 1..n + 1 /\ j + 1 = (i + 1) + 1
        BY <2>1
      <3> QED BY <1>1, <3>1 DEF Meet
    <2>2. ASSUME NEW i \in 1..n, i = n
          PROVE  Stop(Tail(w)[i]) = end
      <3>1. i + 1 \in 1..n + 1 /\ i + 1 = n + 1
        BY <2>2
      <3> QED BY <1>1, <3>1 DEF Meet
    <2> QED BY <1>1, <2>1, <2>2 DEF Meet
  <1>4. (Tail(w) = <<>> <=> n = 0) /\ 1 \in 1..n + 1
    BY <1>1, EmptyIff
  <1>5. FrontOf(Tail(w), end) = Stop(w[1]) /\ Stop(w[1]) <= SectorCount
    <2>1. CASE n = 0
      <3>1. 1 \in 1..n + 1 /\ 1 = n + 1
        BY <2>1
      <3>2. Stop(w[1]) = end
        BY <1>1, <3>1 DEF Meet
      <3> QED BY <1>4, <2>1, <3>2, ImagerAssumption DEF FrontOf
    <2>2. CASE n # 0
      <3>1. 1 \in 1..n /\ 1 \in 1..n + 1 /\ 2 \in 1..n + 1 /\ 1 + 1 = 2
        BY <2>2
      <3>2. Tail(w)[1] = w[2]
        BY <1>1, <3>1
      <3>3. Stop(w[1]) = w[2][1]
        BY <1>1, <3>1 DEF Meet
      <3>4. w[2][1] <= SectorCount - 1 /\ w[2][1] \in Nat
        BY <1>2, <3>1, RangeType
      <3> QED BY <1>4, <2>2, <3>2, <3>3, <3>4, ImagerAssumption DEF FrontOf
    <2> QED BY <2>1, <2>2
  <1> QED BY <1>1, <1>2, <1>3, <1>4, <1>5

\* The two halves of a range meet, and start and stop where it does.
LEMMA HalvesMeet ==
  ASSUME NEW r \in Ranges, r[2] > 1, Stop(r) <= SectorCount
  PROVE  \E x \in Ranges, y \in Ranges :
           /\ Halves(r) = <<x, y>>
           /\ x[1] = r[1] /\ Stop(x) = y[1] /\ Stop(y) = Stop(r)
  <1> DEFINE a == r[2] \div 2
  <1>1. r[1] \in Nat /\ r[2] \in Nat
    BY RangeType
  <1>2. a \in Nat /\ 1 <= a /\ a < r[2]
    BY <1>1
  <1>3. Halves(r) = << <<r[1], a>>, <<r[1] + a, r[2] - a>> >>
    BY DEF Halves
  <1> HIDE DEF a
  <1>4. <<r[1], a>> \in Ranges /\ <<r[1] + a, r[2] - a>> \in Ranges
    BY <1>1, <1>2, ImagerAssumption DEF Ranges, Sectors, Stop
  <1>5. /\ Stop(<<r[1], a>>) = r[1] + a
        /\ Stop(<<r[1] + a, r[2] - a>>) = Stop(r)
    BY <1>1, <1>2 DEF Stop
  <1> QED BY <1>3, <1>4, <1>5

\* Putting two ranges that meet before ranges that follow them.
LEMMA PairMeets ==
  ASSUME NEW x \in Ranges, NEW y \in Ranges, Stop(x) = y[1],
         NEW t \in Seq(Ranges), NEW end, Meet(t, end), FrontOf(t, end) = Stop(y)
  PROVE  LET v == <<x, y>> \o t
         IN  v \in Seq(Ranges) /\ Meet(v, end) /\ v # <<>> /\ FrontOf(v, end) = x[1]
  <1> DEFINE v == <<x, y>> \o t
  <1>1. PICK n \in Nat : Len(t) = n /\ (t = <<>> <=> n = 0)
    BY EmptyIff
  <1>2. /\ v \in Seq(Ranges) /\ Len(v) = n + 2 /\ v[1] = x /\ v[2] = y
        /\ \A i \in 1..n : v[i + 2] = t[i]
    BY <1>1, PairFacts
  <1> HIDE DEF v
  <1>3. \A k \in 3..n + 2 : \E m \in 1..n : k = m + 2 /\ v[k] = t[m]
    <2>1. \A k \in 3..n + 2 : k - 2 \in 1..n /\ k = (k - 2) + 2
      OBVIOUS
    <2> QED BY <1>2, <2>1
  <1>4. ASSUME NEW i \in 1..n + 2, NEW j \in 1..n + 2, j = i + 1
        PROVE  Stop(v[i]) = v[j][1]
    <2>1. CASE i = 1
      BY <1>2, <1>4, <2>1
    <2>2. CASE i = 2
      <3>1. j = 1 + 2 /\ 1 \in 1..n
        BY <1>4, <2>2
      <3>2. v[j] = t[1] /\ t # <<>>
        BY <1>1, <1>2, <3>1
      <3>3. Stop(y) = t[1][1]
        BY <3>2 DEF FrontOf
      <3> QED BY <1>2, <2>2, <3>2, <3>3
    <2>3. CASE i > 2
      <3>1. i \in 3..n + 2 /\ j \in 3..n + 2
        BY <1>4, <2>3
      <3>2. PICK p \in 1..n : i = p + 2 /\ v[i] = t[p]
        BY <1>3, <3>1
      <3>3. PICK q \in 1..n : j = q + 2 /\ v[j] = t[q]
        BY <1>3, <3>1
      <3>4. q = p + 1
        BY <1>4, <3>2, <3>3
      <3> QED BY <1>1, <3>2, <3>3, <3>4 DEF Meet
    <2>4. i = 1 \/ i = 2 \/ i > 2
      OBVIOUS
    <2> QED BY <2>1, <2>2, <2>3, <2>4
  <1>5. ASSUME NEW i \in 1..n + 2, i = n + 2
        PROVE  Stop(v[i]) = end
    <2>1. CASE n = 0
      BY <1>1, <1>2, <1>5, <2>1 DEF FrontOf
    <2>2. CASE n # 0
      <3>1. n \in 1..n
        BY <2>2
      <3> QED BY <1>1, <1>2, <1>5, <3>1 DEF Meet
    <2> QED BY <2>1, <2>2
  <1>6. v # <<>> /\ FrontOf(v, end) = x[1]
    <2>1. v # <<>>
      BY <1>2, EmptyIff
    <2> QED BY <1>2, <2>1 DEF FrontOf
  <1>7. Meet(v, end)
    BY <1>2, <1>4, <1>5 DEF Meet
  <1> QED BY <1>2, <1>6, <1>7 DEF v

\* Halving the first range leaves the front where it is.
LEMMA SplitHead ==
  ASSUME NEW w \in Seq(Ranges), w # <<>>, NEW end \in 0..SectorCount, Meet(w, end),
         w[1][2] > 1
  PROVE  LET v == Halves(Head(w)) \o Tail(w)
         IN  /\ v \in Seq(Ranges) /\ Meet(v, end) /\ v # <<>>
             /\ FrontOf(v, end) = FrontOf(w, end)
  <1>1. /\ w[1] \in Ranges /\ Head(w) = w[1]
        /\ Tail(w) \in Seq(Ranges) /\ Meet(Tail(w), end)
        /\ FrontOf(Tail(w), end) = Stop(w[1]) /\ Stop(w[1]) <= SectorCount
    BY HeadTail
  <1>2. PICK x \in Ranges, y \in Ranges :
           /\ Halves(w[1]) = <<x, y>>
           /\ x[1] = w[1][1] /\ Stop(x) = y[1] /\ Stop(y) = Stop(w[1])
    BY <1>1, HalvesMeet
  <1>3. Stop(x) = y[1] /\ FrontOf(Tail(w), end) = Stop(y)
    BY <1>1, <1>2
  <1>5. /\ (<<x, y>> \o Tail(w)) \in Seq(Ranges) /\ Meet(<<x, y>> \o Tail(w), end)
        /\ (<<x, y>> \o Tail(w)) # <<>> /\ FrontOf(<<x, y>> \o Tail(w), end) = x[1]
    <2>1. Tail(w) \in Seq(Ranges) /\ Meet(Tail(w), end)
      BY <1>1
    <2> QED BY <1>3, <2>1, PairMeets, Zenon
  <1>4. FrontOf(w, end) = w[1][1]
    BY DEF FrontOf
  <1> QED BY <1>1, <1>2, <1>3, <1>4, <1>5

\* The first pending range begins at the front.
LEMMA HeadExtent ==
  ASSUME NEW w \in Seq(Ranges), w # <<>>, NEW end \in 0..SectorCount, Meet(w, end)
  PROVE  /\ FrontOf(w, end) \in Nat /\ Stop(w[1]) \in Nat
         /\ FrontOf(w, end) < Stop(w[1])
         /\ Extent(Head(w)) = {s \in Sectors : FrontOf(w, end) <= s /\ s < Stop(w[1])}
  <1>1. w[1] \in Ranges /\ Head(w) = w[1] /\ Stop(w[1]) <= SectorCount
    BY HeadTail
  <1>2. FrontOf(w, end) = w[1][1]
    BY DEF FrontOf
  <1> QED BY <1>1, <1>2, RangeType, ImagerAssumption, SMTT(60) DEF Extent, Sectors, Stop

-----------------------------------------------------------------------------
(* The steps *)

States == {"Unknown", "Good", "Failed"}
Maps == [is : {"none", "truncated", "whole"}, map : [Sectors -> States]]

MapInv == TmpIsMap /\ MapKept /\ MapBehind /\ ReturnedWithMap

LEMMA InitImager == Init => ImagerInv
  <1> SUFFICES ASSUME Init PROVE ImagerInv
    OBVIOUS
  <1>1. Blank \in [Sectors -> States] /\ NoFile \in Maps /\ NoFile.is # "whole"
    BY DEF Blank, States, NoFile, Maps
  <1>2. 0 \in 0..SectorCount /\ 0 \in 0..Retries /\ <<>> \in Seq(Sectors \X (1..SectorCount))
    BY ImagerAssumption
  <1>3. TypeOK
    BY <1>1, <1>2 DEF Init, TypeOK, States, Maps
  <1>4. Front = 0 /\ RangesMeet
    BY DEF Init, Front, FrontOf, RangesMeet, Meet
  <1>5. Decided /\ GoodWritten
    BY <1>4, ImagerAssumption DEF Init, Decided, GoodWritten, Blank, Sectors
  <1>6. WorkWhileReading /\ TmpIsMap /\ MapKept /\ MapBehind /\ ReturnedWithMap
    BY <1>1 DEF Init, WorkWhileReading, TmpIsMap, MapKept, MapBehind, ReturnedWithMap
  <1> QED BY <1>3, <1>4, <1>5, <1>6 DEF ImagerInv

\* While the imager reads, the files of the map do not change and what they
\* call good stays good.
LEMMA ReadingKeepsMaps ==
  ASSUME ImagerInv, UNCHANGED <<mapVars, full>>,
         \A s \in Sectors : sectors[s] = "Good" => sectors'[s] = "Good",
         pc \notin {"rename", "crashed"}, pc' \notin {"remove", "rename", "return", "done"}
  PROVE  MapInv'
  BY DEF ImagerInv, MapInv, mapVars, TmpIsMap, MapKept, MapBehind, ReturnedWithMap

\* A range that is done with: its sectors are decided, and the next is in front.
LEMMA FinishRange ==
  ASSUME ImagerInv, work # <<>>, NEW state \in {"Good", "Failed"},
         Mark(Extent(Head(work)), state), work' = Tail(work),
         UNCHANGED <<medium, shortTail, pos>>,
         state = "Failed" => work[1][2] = 1 /\ ~MustRead({work[1][1]})
  PROVE  /\ sectors' \in [Sectors -> States] /\ work' \in Seq(Ranges)
         /\ RangesMeet' /\ Decided'
         /\ \A s \in Sectors : sectors'[s] = "Good" <=>
              (sectors[s] = "Good" \/ (state = "Good" /\ s \in Extent(Head(work))))
         /\ Extent(Head(work)) \subseteq Sectors
  <1>1. work \in Seq(Ranges) /\ pos \in 0..SectorCount /\ Meet(work, pos)
        /\ sectors \in [Sectors -> States]
    BY DEF ImagerInv, TypeOK, Ranges, States, RangesMeet
  <1>2. /\ work[1] \in Ranges /\ Tail(work) \in Seq(Ranges) /\ Meet(Tail(work), pos)
        /\ FrontOf(Tail(work), pos) = Stop(work[1])
    BY <1>1, HeadTail
  <1>3. /\ Front \in Nat /\ Stop(work[1]) \in Nat /\ Front < Stop(work[1])
        /\ Extent(Head(work)) = {s \in Sectors : Front <= s /\ s < Stop(work[1])}
    BY <1>1, HeadExtent DEF Front
  <1>4. Front' = Stop(work[1]) /\ RangesMeet' /\ work' \in Seq(Ranges)
    BY <1>2 DEF Front, RangesMeet
  <1>5. \A s \in Sectors : sectors'[s] = IF Front <= s /\ s < Stop(work[1]) THEN state
                                        ELSE sectors[s]
    BY <1>3 DEF Mark
  <1>6. sectors' \in [Sectors -> States]
    BY <1>1 DEF Mark, States
  <1>7. \A s \in Sectors : s \in Nat
    BY DEF Sectors
  <1>8. \A s \in Sectors : s >= Front <=> sectors[s] = "Unknown"
    BY DEF ImagerInv, Decided
  <1>9. \A s \in Sectors : MustRead({s})' <=> MustRead({s})
    BY DEF MustRead, Refused
  <1>10. state = "Failed" => \A s \in Sectors : Front <= s /\ s < Stop(work[1]) => s = work[1][1]
    <2>1. Front = work[1][1]
      BY DEF Front, FrontOf
    <2> QED BY <1>2, <1>7, <2>1, RangeType DEF Stop
  <1>11. Decided'
    <2> SUFFICES ASSUME NEW s \in Sectors
                 PROVE  /\ sectors'[s] = "Unknown" <=> s >= Front'
                        /\ s < Front' /\ MustRead({s})' => sectors'[s] = "Good"
      BY DEF Decided
    <2>1. CASE s < Front
      BY <1>3, <1>4, <1>5, <1>7, <1>8, <1>9, <2>1, SMTT(60) DEF ImagerInv, Decided
    <2>2. CASE Front <= s /\ s < Stop(work[1])
      <3>1. sectors'[s] = state /\ ~(s >= Front')
        BY <1>3, <1>4, <1>5, <1>7, <2>2
      <3>2. state = "Failed" => ~MustRead({s})
        BY <1>10, <2>2
      <3> QED BY <1>9, <3>1, <3>2
    <2>3. CASE Stop(work[1]) <= s
      BY <1>3, <1>4, <1>5, <1>7, <1>8, <2>3
    <2> QED BY <1>3, <1>7, <2>1, <2>2, <2>3
  <1>12. \A s \in Sectors : sectors'[s] = "Good" <=>
              (sectors[s] = "Good" \/ (state = "Good" /\ s \in Extent(Head(work))))
    BY <1>3, <1>5, <1>8, <1>7
  <1> QED BY <1>3, <1>4, <1>6, <1>11, <1>12

\* A range that was read: its data are in the stream or in the image.
LEMMA ReadKeeps ==
  ASSUME ImagerInv, work # <<>>, pc \in {"read", "retry"}, pc' = "read",
         Mark(Extent(Head(work)), "Good"), WriteData(Extent(Head(work))),
         work' = Tail(work), UNCHANGED <<inputVars, pos, tries, mapVars, status>>
  PROVE  ImagerInv'
  <1>1. /\ sectors' \in [Sectors -> States] /\ work' \in Seq(Ranges)
        /\ RangesMeet' /\ Decided' /\ Extent(Head(work)) \subseteq Sectors
        /\ \A s \in Sectors : sectors'[s] = "Good" <=>
              (sectors[s] = "Good" \/ s \in Extent(Head(work)))
    BY FinishRange DEF inputVars
  <1>2. image' \subseteq Sectors /\ buffer' \subseteq Sectors
        /\ (~full => image' \cup buffer' = image \cup buffer \cup Extent(Head(work)))
    BY <1>1 DEF WriteData, ImagerInv, TypeOK
  <1>3. TypeOK'
    BY <1>1, <1>2 DEF ImagerInv, TypeOK, inputVars, mapVars, States, Ranges
  <1>4. GoodWritten'
    BY <1>1, <1>2 DEF ImagerInv, GoodWritten, inputVars
  <1>5. MapInv'
    BY <1>1, ReadingKeepsMaps DEF inputVars
  <1>6. WorkWhileReading'
    BY DEF WorkWhileReading
  <1> QED BY <1>1, <1>3, <1>4, <1>5, <1>6 DEF ImagerInv, MapInv

\* A sector that was given up gets the fill and no data.
LEMMA GiveUpKeeps ==
  ASSUME ImagerInv, GiveUp
  PROVE  ImagerInv'
  <1>1. /\ pc = "retry" /\ pc' = "read" /\ Mark(Extent(Head(work)), "Failed")
        /\ WriteFill /\ work' = Tail(work)
        /\ UNCHANGED <<inputVars, pos, tries, mapVars, status>>
    BY DEF GiveUp, Go
  <1>2. work # <<>> /\ work[1][2] = 1 /\ ~MustRead({work[1][1]})
    BY <1>1 DEF ImagerInv, WorkWhileReading
  <1>3. /\ sectors' \in [Sectors -> States] /\ work' \in Seq(Ranges)
        /\ RangesMeet' /\ Decided'
        /\ \A s \in Sectors : sectors'[s] = "Good" <=> sectors[s] = "Good"
    BY <1>1, <1>2, FinishRange DEF inputVars
  <1>4. image' \subseteq Sectors /\ buffer' \subseteq Sectors
        /\ image' \cup buffer' = image \cup buffer
    BY <1>1 DEF WriteFill, ImagerInv, TypeOK
  <1>5. TypeOK'
    BY <1>1, <1>3, <1>4 DEF ImagerInv, TypeOK, inputVars, mapVars, States, Ranges
  <1>6. GoodWritten'
    BY <1>1, <1>3, <1>4 DEF ImagerInv, GoodWritten, inputVars
  <1>7. MapInv'
    BY <1>1, <1>3, ReadingKeepsMaps DEF inputVars
  <1>8. WorkWhileReading'
    BY <1>1 DEF WorkWhileReading
  <1> QED BY <1>3, <1>5, <1>6, <1>7, <1>8 DEF ImagerInv, MapInv

\* A block is taken up where the last one ended.
LEMMA NextBlockKeeps ==
  ASSUME ImagerInv, NextBlock
  PROVE  ImagerInv'
  <1>1. /\ pc = "loop" /\ pc' = "read" /\ pos < SectorCount
        /\ UNCHANGED <<inputVars, imageVars, tries, mapVars, status>>
    BY DEF NextBlock, Go
  <1>2. PICK n \in Nat \ {0} :
          pos + n <= SectorCount /\ work' = << <<pos, n>> >> /\ pos' = pos + n
    <2> DEFINE m == IF BlockSectors < SectorCount - pos THEN BlockSectors ELSE SectorCount - pos
    <2>1. m \in Nat \ {0} /\ pos + m <= SectorCount
      BY <1>1, ImagerAssumption DEF ImagerInv, TypeOK
    <2>2. work' = << <<pos, m>> >> /\ pos' = pos + m
      BY DEF NextBlock
    <2> HIDE DEF m
    <2> QED BY <2>1, <2>2
  <1>3. work = <<>> /\ Front = pos /\ pos \in Nat
    BY <1>1, ImagerAssumption DEF ImagerInv, WorkWhileReading, Front, FrontOf, TypeOK
  <1>4. <<pos, n>> \in Ranges /\ Stop(<<pos, n>>) = pos + n /\ pos + n \in 0..SectorCount
    BY <1>1, <1>2, <1>3, ImagerAssumption DEF Ranges, Sectors, Stop
  <1>5. work' \in Seq(Ranges) /\ Len(work') = 1 /\ work' # <<>> /\ work'[1] = <<pos, n>>
    BY <1>2, <1>4
  <1>6. RangesMeet' /\ Front' = pos
    BY <1>2, <1>4, <1>5 DEF RangesMeet, Meet, Front, FrontOf
  <1>7. TypeOK'
    BY <1>1, <1>2, <1>4, <1>5 DEF ImagerInv, TypeOK, inputVars, imageVars, mapVars, Ranges
  <1>8. Decided' /\ GoodWritten'
    BY <1>1, <1>3, <1>6 DEF ImagerInv, Decided, GoodWritten, MustRead, Refused,
       inputVars, imageVars
  <1>9. MapInv'
    BY <1>1, ReadingKeepsMaps DEF inputVars, imageVars
  <1>10. WorkWhileReading'
    BY <1>1 DEF WorkWhileReading
  <1> QED BY <1>6, <1>7, <1>8, <1>9, <1>10 DEF ImagerInv, MapInv

LEMMA SplitKeeps ==
  ASSUME ImagerInv, SplitRange
  PROVE  ImagerInv'
  <1>1. /\ pc = "read" /\ work # <<>> /\ Head(work)[2] > 1
        /\ UNCHANGED <<inputVars, imageVars, pos, tries, mapVars, status, pc>>
    BY DEF SplitRange, Reading
  <1>2. work \in Seq(Ranges) /\ pos \in 0..SectorCount /\ Meet(work, pos)
    BY DEF ImagerInv, TypeOK, Ranges, RangesMeet
  <1>3. Head(work) = work[1]
    BY <1>1, <1>2, HeadTail
  <1>4. /\ work' \in Seq(Ranges) /\ Meet(work', pos) /\ work' # <<>>
        /\ FrontOf(work', pos) = FrontOf(work, pos)
    BY <1>1, <1>2, <1>3, SplitHead DEF SplitRange
  <1>5. RangesMeet' /\ Front' = Front
    BY <1>1, <1>4 DEF RangesMeet, Front
  <1>6. TypeOK'
    BY <1>1, <1>4 DEF ImagerInv, TypeOK, inputVars, imageVars, mapVars, Ranges
  <1>7. Decided' /\ GoodWritten'
    BY <1>1, <1>5 DEF ImagerInv, Decided, GoodWritten, MustRead, Refused, inputVars, imageVars
  <1>8. MapInv'
    BY <1>1, ReadingKeepsMaps DEF inputVars, imageVars
  <1>9. WorkWhileReading'
    BY <1>1 DEF WorkWhileReading
  <1> QED BY <1>5, <1>6, <1>7, <1>8, <1>9 DEF ImagerInv, MapInv

\* The steps that leave image, ranges and input alone keep what is said of
\* them; left are the types, and the files of the map.
LEMMA OthersKeep ==
  ASSUME ImagerInv, UNCHANGED <<medium, shortTail, full, sectors, pos, work>>,
         image' \cup buffer' = image \cup buffer,
         pc = "retry" \/ pc' # "retry",
         work # <<>> => pc' \in {"read", "retry", "crashed"}
  PROVE  RangesMeet' /\ WorkWhileReading' /\ Decided' /\ GoodWritten'
  <1>1. Front' = Front /\ \A S : MustRead(S)' <=> MustRead(S)
    BY DEF Front, MustRead, Refused
  <1> QED BY <1>1 DEF ImagerInv, RangesMeet, WorkWhileReading, Decided, GoodWritten

\* A sector that could not be read is tried again.
LEMMA RetryKeeps ==
  ASSUME ImagerInv, ReadFails \/ RetryFails
  PROVE  ImagerInv'
  <1>1. /\ pc \in {"read", "retry"} /\ pc' = "retry" /\ work # <<>>
        /\ UNCHANGED <<inputVars, imageVars, pos, work, mapVars, status>>
    BY DEF ReadFails, RetryFails, Reading, ImagerInv, WorkWhileReading
  <1>2. work \in Seq(Ranges) /\ pos \in 0..SectorCount /\ Meet(work, pos)
    BY DEF ImagerInv, TypeOK, Ranges, RangesMeet
  <1>3. work[1] \in Ranges /\ Head(work) = work[1]
    BY <1>1, <1>2, HeadTail
  <1>4. work[1][2] = 1 /\ ~MustRead({work[1][1]})
    <2>1. CASE pc = "retry"
      BY <2>1 DEF ImagerInv, WorkWhileReading
    <2>2. CASE ReadFails
      <3>1. Extent(work[1]) = {work[1][1]}
        BY <1>3, <2>2, RangeType DEF ReadFails, Extent
      <3> QED BY <1>3, <2>2, <3>1 DEF ReadFails
    <2> QED BY <2>1, <2>2 DEF RetryFails
  <1>5. tries' \in 0..Retries
    BY ImagerAssumption DEF ReadFails, RetryFails, ImagerInv, TypeOK
  <1>6. TypeOK'
    BY <1>1, <1>5 DEF ImagerInv, TypeOK, inputVars, imageVars, mapVars
  <1>7. Front' = Front /\ \A S : MustRead(S)' <=> MustRead(S)
    BY <1>1 DEF Front, MustRead, Refused, inputVars
  <1>8. RangesMeet' /\ Decided' /\ GoodWritten'
    BY <1>1, <1>7 DEF ImagerInv, RangesMeet, Decided, GoodWritten, inputVars, imageVars
  <1>9. WorkWhileReading'
    BY <1>1, <1>4, <1>7 DEF WorkWhileReading
  <1>10. MapInv'
    BY <1>1, ReadingKeepsMaps DEF inputVars, imageVars
  <1> QED BY <1>6, <1>8, <1>9, <1>10 DEF ImagerInv, MapInv

LEMMA LoopKeeps ==
  ASSUME ImagerInv, Open \/ LoopEnds \/ BlockEnds
  PROVE  ImagerInv'
  <1>1. /\ UNCHANGED <<inputVars, imageVars, pos, work, tries, mapVars>>
        /\ pc \in {"open", "loop", "read"} /\ pc' \in {"loop", "tmp", "done"}
        /\ pc' = "done" => status' = "destination_error"
        /\ status' \in {status, "destination_error", "cancelled", "complete"}
        /\ work = <<>>
    BY DEF Open, LoopEnds, BlockEnds, Go, ImagerInv, WorkWhileReading
  <1>2. TypeOK'
    BY <1>1 DEF ImagerInv, TypeOK, inputVars, imageVars, mapVars
  <1>3. MapInv'
    BY <1>1 DEF ImagerInv, MapInv, TmpIsMap, MapKept, MapBehind, ReturnedWithMap,
       inputVars, imageVars, mapVars
  <1>4. RangesMeet' /\ WorkWhileReading' /\ Decided' /\ GoodWritten'
    BY <1>1, OthersKeep DEF inputVars, imageVars
  <1> QED BY <1>2, <1>3, <1>4 DEF ImagerInv, MapInv

\* save_map, one system call at a time.
LEMMA SaveKeeps ==
  ASSUME ImagerInv, WriteTmp \/ WriteTmpFails \/ RemoveMap \/ RenameTmp
  PROVE  ImagerInv'
  <1>1. /\ UNCHANGED <<inputVars, imageVars, pos, work, tries, status>>
        /\ pc \in {"tmp", "remove", "rename"} /\ work = <<>>
        /\ pc' \in {"remove", "rename", "loop", "return"}
    BY DEF WriteTmp, WriteTmpFails, RemoveMap, RenameTmp, Go, ImagerInv, WorkWhileReading,
       AfterSave
  <1>2. RangesMeet' /\ WorkWhileReading' /\ Decided' /\ GoodWritten'
    BY <1>1, OthersKeep DEF inputVars, imageVars
  <1>3. /\ Whole(sectors) \in Maps /\ Whole(sectors).is = "whole" /\ Whole(sectors).map = sectors
        /\ NoFile \in Maps /\ NoFile.is # "whole"
        /\ Truncated \in Maps
    BY DEF Whole, NoFile, Truncated, Blank, Maps, States, ImagerInv, TypeOK
  <1>4. mapFile \in Maps /\ tmpFile \in Maps
    BY DEF ImagerInv, TypeOK, Maps, States
  <1>5. /\ mapFile' \in Maps /\ tmpFile' \in Maps
        /\ saved' \in BOOLEAN /\ stranded' \in BOOLEAN /\ saveOk' \in BOOLEAN
    BY <1>3, <1>4 DEF WriteTmp, WriteTmpFails, RemoveMap, RenameTmp, ImagerInv, TypeOK
  <1>6. TypeOK'
    <2>1. {mapFile', tmpFile'} \subseteq Maps
      BY <1>5
    <2> QED BY <1>1, <1>5, <2>1 DEF ImagerInv, TypeOK, inputVars, imageVars, Maps, States
  <1>7. CASE WriteTmp
    <2>1. /\ pc = "tmp" /\ pc' = "remove" /\ tmpFile' = IF full THEN Truncated ELSE Whole(sectors)
          /\ UNCHANGED <<mapFile, saved, stranded, saveOk, full, sectors>>
      BY <1>7 DEF WriteTmp, Go, inputVars, imageVars
    <2>2. MapInv'
      BY <2>1 DEF ImagerInv, MapInv, TmpIsMap, MapKept, MapBehind, ReturnedWithMap
    <2> QED BY <1>2, <1>6, <2>2 DEF ImagerInv, MapInv
  <1>8. CASE WriteTmpFails
    <2>1. /\ pc = "tmp" /\ pc' \in {"loop", "return"} /\ saveOk' = FALSE
          /\ UNCHANGED <<mapFile, saved, stranded, full, sectors>>
      BY <1>8 DEF WriteTmpFails, Go, AfterSave, inputVars, imageVars
    <2>2. MapInv'
      BY <2>1 DEF ImagerInv, MapInv, TmpIsMap, MapKept, MapBehind, ReturnedWithMap
    <2> QED BY <1>2, <1>6, <2>2 DEF ImagerInv, MapInv
  <1>9. CASE RemoveMap
    <2>1. /\ pc = "remove" /\ pc' = "rename" /\ mapFile' \in {mapFile, NoFile}
          /\ UNCHANGED <<tmpFile, saved, stranded, saveOk, full, sectors>>
      BY <1>9 DEF RemoveMap, Go, inputVars, imageVars
    <2>2. ~full => tmpFile' = Whole(sectors)
      BY <2>1 DEF ImagerInv, TmpIsMap
    <2>3. MapInv'
      BY <1>3, <2>1, <2>2 DEF ImagerInv, MapInv, TmpIsMap, MapKept, MapBehind, ReturnedWithMap
    <2> QED BY <1>2, <1>6, <2>3 DEF ImagerInv, MapInv
  <1>10. CASE RenameTmp
    <2>1. pc = "rename" /\ pc' \in {"loop", "return"} /\ UNCHANGED <<full, sectors>>
      BY <1>1, <1>10 DEF RenameTmp, Go, AfterSave, inputVars, imageVars
    <2>2. CASE mapFile' = tmpFile
      <3>1. ~full => mapFile' = Whole(sectors)
        BY <2>1, <2>2 DEF ImagerInv, TmpIsMap
      <3>2. MapInv'
        BY <1>3, <2>1, <3>1 DEF MapInv, TmpIsMap, MapKept, MapBehind, ReturnedWithMap
      <3> QED BY <1>2, <1>6, <3>2 DEF ImagerInv, MapInv
    <2>3. CASE mapFile' = mapFile /\ stranded' = (mapFile.is # "whole") /\ saveOk' = FALSE
      <3>1. MapInv'
        BY <2>1, <2>3 DEF ImagerInv, MapInv, TmpIsMap, MapKept, MapBehind, ReturnedWithMap
      <3> QED BY <1>2, <1>6, <3>1 DEF ImagerInv, MapInv
    <2> QED BY <1>10, <2>2, <2>3 DEF RenameTmp
  <1> QED BY <1>7, <1>8, <1>9, <1>10

LEMMA ReturnKeeps ==
  ASSUME ImagerInv, Return
  PROVE  ImagerInv'
  <1>1. /\ pc = "return" /\ pc' = "done" /\ WriteFill
        /\ UNCHANGED <<inputVars, sectors, pos, work, tries, mapVars, status>>
    BY DEF Return, Go
  <1>2. /\ image' \subseteq Sectors /\ buffer' \subseteq Sectors
        /\ image' \cup buffer' = image \cup buffer /\ (~full => buffer' = {})
    BY <1>1 DEF WriteFill, ImagerInv, TypeOK
  <1>3. work = <<>>
    BY <1>1 DEF ImagerInv, WorkWhileReading
  <1>4. TypeOK'
    BY <1>1, <1>2 DEF ImagerInv, TypeOK, inputVars, mapVars
  <1>5. RangesMeet' /\ WorkWhileReading' /\ Decided' /\ GoodWritten'
    BY <1>1, <1>2, <1>3, OthersKeep DEF inputVars
  <1>6. MapInv'
    BY <1>1, <1>2 DEF ImagerInv, MapInv, TmpIsMap, MapKept, MapBehind, ReturnedWithMap,
       inputVars, mapVars
  <1> QED BY <1>4, <1>5, <1>6 DEF ImagerInv, MapInv

LEMMA EnvironmentKeeps ==
  ASSUME ImagerInv, Cancel \/ DiskFills \/ Crash \/ UNCHANGED vars
  PROVE  ImagerInv'
  <1>1. UNCHANGED <<medium, shortTail, imageVars, pos, work, tries, mapFile, saved, stranded,
                    saveOk, status>>
    BY DEF Cancel, DiskFills, Crash, vars, inputVars, mapVars
  <1>2. Truncated \in Maps
    BY DEF Truncated, Blank, Maps, States
  <1>3. /\ cancelled' \in BOOLEAN /\ full' \in BOOLEAN /\ tmpFile' \in {tmpFile, Truncated}
        /\ (pc' = pc \/ pc' = "crashed")
    BY DEF Cancel, DiskFills, Crash, vars, inputVars, mapVars, ImagerInv, TypeOK
  <1>4. TypeOK'
    BY <1>1, <1>2, <1>3 DEF ImagerInv, TypeOK, imageVars, Maps, States
  <1>5. Front' = Front /\ \A S : MustRead(S)' <=> MustRead(S)
    BY <1>1 DEF Front, MustRead, Refused
  <1>6. full => full'
    BY DEF Cancel, DiskFills, Crash, vars, inputVars
  <1>7. RangesMeet' /\ WorkWhileReading' /\ Decided' /\ GoodWritten'
    BY <1>1, <1>3, <1>5, <1>6 DEF ImagerInv, RangesMeet, WorkWhileReading, Decided,
       GoodWritten, imageVars
  <1>8. MapInv'
    <2>1. CASE pc' = pc /\ tmpFile' = tmpFile
      BY <1>1, <1>6, <2>1 DEF ImagerInv, MapInv, TmpIsMap, MapKept, MapBehind,
         ReturnedWithMap, imageVars
    <2>2. CASE Crash
      <3>1. pc' = "crashed" /\ (pc # "tmp" => tmpFile' = tmpFile)
        BY <2>2 DEF Crash
      <3>2. ~full /\ saved /\ ~stranded => mapFile.is = "whole" \/ (pc \in {"rename", "crashed"} /\ tmpFile.is = "whole")
        BY DEF ImagerInv, MapKept
      <3> QED BY <1>1, <1>6, <3>1, <3>2 DEF ImagerInv, MapInv, TmpIsMap, MapKept, MapBehind,
         ReturnedWithMap, imageVars
    <2> QED BY <2>1, <2>2 DEF Cancel, DiskFills, vars, mapVars
  <1> QED BY <1>4, <1>7, <1>8 DEF ImagerInv, MapInv

LEMMA StepImager == ImagerInv /\ [Next]_vars => ImagerInv'
  <1> SUFFICES ASSUME ImagerInv, [Next]_vars PROVE ImagerInv'
    OBVIOUS
  <1>1. CASE ReadRange
    BY <1>1, ReadKeeps DEF ReadRange, Reading
  <1>2. CASE RetryReads
    <2>1. work # <<>>
      BY <1>2 DEF RetryReads, Go, ImagerInv, WorkWhileReading
    <2> QED BY <1>2, <2>1, ReadKeeps DEF RetryReads, Go
  <1> QED BY <1>1, <1>2, GiveUpKeeps, NextBlockKeeps, SplitKeeps, RetryKeeps, LoopKeeps,
             SaveKeeps, ReturnKeeps, EnvironmentKeeps DEF Next

-----------------------------------------------------------------------------
(* The theorems *)

\* The inductive invariant: pending ranges, sector states, image and map agree
\* after every step.
THEOREM ImagerInvariant == Spec => []ImagerInv
  BY InitImager, StepImager, PTL DEF Spec

\* Every variable has its type: no range ever leaves the medium.
THEOREM TypeCorrect == Spec => []TypeOK
  <1>1. ImagerInv => TypeOK
    BY DEF ImagerInv
  <1> QED BY <1>1, ImagerInvariant, PTL

\* Once a map has been in place a crash at any instant leaves a whole one, in
\* its place or as the temporary file, unless the destination has refused data
\* or the last rename failed and left no map in place.
THEOREM KnownGoodMapHolds == Spec => []KnownGoodMap
  <1>1. ImagerInv => KnownGoodMap
    BY DEF ImagerInv, MapKept, KnownGoodMap
  <1> QED BY <1>1, ImagerInvariant, PTL

\* The map on disk never calls a sector good whose data were not given to the
\* stream: what the image lacks is at most the write the stream still holds.
THEOREM MapLeadsByOneWriteHolds == Spec => []MapLeadsByOneWrite
  <1>1. ImagerInv => MapLeadsByOneWrite
    BY DEF ImagerInv, MapBehind, GoodWritten, MapLeadsByOneWrite
  <1> QED BY <1>1, ImagerInvariant, PTL

\* What image() has returned with is true, whatever the medium did: every
\* sector up to where it came is decided, the map it returns calls good exactly
\* the sectors in the image, and no readable sector is missing.  The map on
\* disk is that map if the last save succeeded, and otherwise calls good no
\* sector that is not in the image.
THEOREM ReturnedMapIsTrueHolds == Spec => []ReturnedMapIsTrue
  <1>1. ImagerInv => ReturnedMapIsTrue
    <2> SUFFICES ASSUME ImagerInv, pc = "done", status # "destination_error", ~full
                 PROVE  ReturnedMapIsTrue
      BY DEF ReturnedMapIsTrue
    <2>1. Front = pos /\ buffer = {} /\ (saveOk => mapFile = Whole(sectors))
      BY DEF ImagerInv, ReturnedWithMap, WorkWhileReading, Front, FrontOf
    <2>2. \A s \in Sectors : sectors[s] = "Good" <=> s \in image
      BY <2>1 DEF ImagerInv, GoodWritten
    <2>3. mapFile.is = "whole" => \A s \in Sectors : mapFile.map[s] = "Good" => s \in image
      BY <2>2 DEF ImagerInv, MapBehind
    <2> QED BY <2>1, <2>2, <2>3 DEF ImagerInv, Decided, ReturnedMapIsTrue
  <1> QED BY <1>1, ImagerInvariant, PTL
=============================================================================
