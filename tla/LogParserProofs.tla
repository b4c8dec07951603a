--------------------------- MODULE LogParserProofs ---------------------------
(***************************************************************************)
(* The server log parser, for any number of files and lines, any size of a *)
(* chunk and any bound on the offsets it keeps.                            *)
(***************************************************************************)
EXTENDS LogParser, FiniteSetTheorems, SequenceTheorems, TLAPS

-----------------------------------------------------------------------------
(* Sums over sets of lines.                                                *)

Pick(s) == CHOOSE x \in s : TRUE

\* g sums f over every set of lines in S, the way MapThenSumSet does.
Plus(f, g, s) == f[Pick(s)] + g[s \ {Pick(s)}]
IsSum(g, f, S) == g = [s \in SUBSET S |-> IF s = {} THEN 0 ELSE Plus(f, g, s)]

\* A nonempty set of sets of lines has one that contains no other of them.
LEMMA LeastSet ==
  ASSUME NEW B \in SUBSET (SUBSET Line), B # {}
  PROVE  \E s \in B : \A t \in SUBSET s : t \in B => t = s
<1>1. IsFiniteSet(Line)  BY FS_Interval, LogParserAssumption DEF Line
<1>2. B \subseteq FiniteSubsetsOf(Line)  BY <1>1, FS_FiniteSubsetsOfFinite
<1>3. PICK s \in B : \A t \in B : <<t, s>> \notin StrictSubsetOrdering(Line)
  BY <1>2, WFMin, FS_StrictSubsetOrderingWellFounded, Zenon
<1>4. ASSUME NEW t \in SUBSET s, t \in B, t # s PROVE FALSE
  <2>1. <<t, s>> \in (SUBSET Line) \X (SUBSET Line)  OBVIOUS
  <2>2. <<t, s>>[1] \subseteq <<t, s>>[2] /\ <<t, s>>[1] # <<t, s>>[2]  BY <1>4
  <2> QED  BY <1>3, <1>4, <2>1, <2>2 DEF StrictSubsetOrdering
<1> QED  BY <1>4

LEMMA PickIs ==
  ASSUME NEW S, NEW s \in SUBSET S, s # {}
  PROVE  Pick(s) \in s /\ Pick(s) \in S /\ s \ {Pick(s)} \in SUBSET S /\ s \ {Pick(s)} # s
BY DEF Pick

\* What a sum is for the empty set and for others.
LEMMA SumOfNone ==
  ASSUME NEW S, NEW f, NEW g, IsSum(g, f, S)
  PROVE  DOMAIN g = SUBSET S /\ g[{}] = 0
<1> DEFINE G == [s \in SUBSET S |-> IF s = {} THEN 0 ELSE Plus(f, g, s)]
<1>1. g = G  BY DEF IsSum
<1>2. DOMAIN G = SUBSET S /\ G[{}] = 0  OBVIOUS
<1> QED  BY <1>1, <1>2, Zenon

LEMMA SumOfSome ==
  ASSUME NEW S, NEW f, NEW g, IsSum(g, f, S)
  PROVE  \A s \in SUBSET S : s # {} => g[s] = Plus(f, g, s)
<1> DEFINE G == [s \in SUBSET S |-> IF s = {} THEN 0 ELSE Plus(f, g, s)]
<1>1. g = G  BY DEF IsSum
<1>2. \A s \in SUBSET S : s # {} => G[s] = Plus(f, g, s)  OBVIOUS
<1> QED  BY <1>1, <1>2, Zenon

\* Two sums agree where both are defined.
LEMMA SumUnique ==
  ASSUME NEW f, NEW S \in SUBSET Line, NEW T \in SUBSET S,
         NEW g, IsSum(g, f, S), NEW h, IsSum(h, f, T)
  PROVE  \A s \in SUBSET T : g[s] = h[s]
<1> DEFINE B == {s \in SUBSET T : g[s] # h[s]}
<1> SUFFICES ASSUME B # {} PROVE FALSE  OBVIOUS
<1>1. B \in SUBSET (SUBSET Line)  OBVIOUS
<1>2. PICK s \in B : \A t \in SUBSET s : t \in B => t = s
  <2> HIDE DEF B
  <2> QED  BY <1>1, LeastSet
<1>3. s # {}  BY SumOfNone
<1>4. Pick(s) \in s /\ s \ {Pick(s)} \in SUBSET T /\ s \ {Pick(s)} # s  BY <1>3, PickIs
<1>5. g[s \ {Pick(s)}] = h[s \ {Pick(s)}]  BY <1>2, <1>4
<1>6. s \in SUBSET S /\ s \in SUBSET T  OBVIOUS
<1>7. \A t \in SUBSET S : t # {} => g[t] = Plus(f, g, t)  BY SumOfSome
<1>8. \A t \in SUBSET T : t # {} => h[t] = Plus(f, h, t)  BY SumOfSome
<1>9. Plus(f, g, s) = Plus(f, h, s)  BY <1>5 DEF Plus
<1> QED  BY <1>3, <1>6, <1>7, <1>8, <1>9

\* There is a sum.
LEMMA SumExists ==
  ASSUME NEW f, NEW S \in SUBSET Line
  PROVE  \E g : IsSum(g, f, S)
<1> DEFINE B == {s \in SUBSET Line : ~ \E g : IsSum(g, f, s)}
           W(s) == CHOOSE g : IsSum(g, f, s)
<1> SUFFICES ASSUME B # {} PROVE FALSE  OBVIOUS
<1>1. B \in SUBSET (SUBSET Line)  OBVIOUS
<1>2. PICK s \in B : \A t \in SUBSET s : t \in B => t = s
  <2> HIDE DEF B
  <2> QED  BY <1>1, LeastSet
<1>3. \A t \in SUBSET s : t # s => IsSum(W(t), f, t)
  BY <1>2
<1> DEFINE R(t) == t \ {Pick(t)}
           g == [t \in SUBSET s |-> IF t = {} THEN 0 ELSE f[Pick(t)] + W(R(t))[R(t)]]
<1>4. ASSUME NEW t \in SUBSET s, t # s PROVE g[t] = W(t)[t]
  <2>1. IsSum(W(t), f, t)  BY <1>3, <1>4
  <2>2. CASE t = {}
    <3>1. W(t)[{}] = 0  BY <2>1, SumOfNone
    <3> QED  BY <3>1, <2>2
  <2>3. CASE t # {}
    <3>1. R(t) \in SUBSET t /\ R(t) \in SUBSET s /\ R(t) # s /\ R(t) # t  BY <2>3, PickIs
    <3>2. IsSum(W(R(t)), f, R(t))  BY <3>1, <1>3
    <3> HIDE DEF W, g
    <3>3. W(t)[t] = f[Pick(t)] + W(t)[R(t)]
      <4>1. \A u \in SUBSET t : u # {} => W(t)[u] = Plus(f, W(t), u)
        BY <2>1, SumOfSome
      <4> QED  BY <2>3, <4>1 DEF Plus
    <3> HIDE DEF R
    <3>4. W(t)[R(t)] = W(R(t))[R(t)]  BY <2>1, <3>1, <3>2, SumUnique
    <3>5. g[t] = f[Pick(t)] + W(R(t))[R(t)]  BY <2>3 DEF g
    <3> QED  BY <3>3, <3>4, <3>5
  <2> QED  BY <2>2, <2>3
<1>5. ASSUME NEW t \in SUBSET s, t # {} PROVE g[t] = f[Pick(t)] + g[R(t)]
  <2>1. R(t) \in SUBSET s /\ R(t) # s  BY <1>5, PickIs
  <2>2. g[R(t)] = W(R(t))[R(t)]  BY <1>4, <2>1
  <2> QED  BY <1>5, <2>2
<1>6. g = [t \in SUBSET s |-> IF t = {} THEN 0 ELSE f[Pick(t)] + g[R(t)]]
  <2>1. \A t \in SUBSET s : g[t] = IF t = {} THEN 0 ELSE f[Pick(t)] + g[R(t)]
    <3>1. g[{}] = 0  OBVIOUS
    <3> HIDE DEF g, R
    <3> QED  BY <1>5, <3>1
  <2>2. DOMAIN g = SUBSET s /\ g = [t \in DOMAIN g |-> g[t]]  OBVIOUS
  <2> HIDE DEF g, R
  <2> QED  BY <2>1, <2>2
<1>7. IsSum(g, f, s)  BY <1>6 DEF IsSum, Plus
<1> QED  BY <1>2, <1>7

\* k more of line l.
More(f, l, k) == [f EXCEPT ![l] = f[l] + k]

\* One more of a line is one more in the sums it is in.
LEMMA SumAdds ==
  ASSUME NEW f \in [Line -> Nat], NEW l \in Line, NEW k \in Nat, NEW S \in SUBSET Line,
         NEW g, IsSum(g, f, S), NEW h, IsSum(h, More(f, l, k), S)
  PROVE  \A s \in SUBSET S : g[s] \in Nat /\ h[s] = IF l \in s THEN g[s] + k ELSE g[s]
<1> DEFINE e == More(f, l, k)
           Good(s) == g[s] \in Nat /\ h[s] = IF l \in s THEN g[s] + k ELSE g[s]
           B == {s \in SUBSET S : ~Good(s)}
<1> SUFFICES ASSUME B # {} PROVE FALSE  OBVIOUS
<1>1. B \in SUBSET (SUBSET Line)  OBVIOUS
<1>2. PICK s \in B : \A t \in SUBSET s : t \in B => t = s
  <2> HIDE DEF B
  <2> QED  BY <1>1, LeastSet
<1>3. g[{}] = 0 /\ h[{}] = 0  BY SumOfNone
<1>4. s # {}
  <2>1. Good({})  BY <1>3
  <2> QED  BY <2>1
<1> DEFINE x == Pick(s)
           r == s \ {x}
<1>5. x \in s /\ x \in Line /\ r \in SUBSET S /\ r # s /\ r \in SUBSET s  BY <1>4, PickIs
<1>6. Good(r)  BY <1>2, <1>5
<1>7. \A t \in SUBSET S : t # {} => g[t] = Plus(f, g, t)  BY SumOfSome
<1>8. \A t \in SUBSET S : t # {} => h[t] = Plus(e, h, t)  BY SumOfSome
<1>9. g[s] = f[x] + g[r]  BY <1>4, <1>7 DEF Plus
<1>10. h[s] = e[x] + h[r]  BY <1>4, <1>8 DEF Plus
<1>11. e[x] = IF x = l THEN f[x] + k ELSE f[x]  BY <1>5 DEF More
<1>12. l \in r <=> l \in s /\ l # x  OBVIOUS
<1>13. f[x] \in Nat  BY <1>5
<1>14. Good(s)
  <2> HIDE DEF e, x, r
  <2>1. g[s] \in Nat  BY <1>6, <1>9, <1>13
  <2>2. CASE x = l  BY <2>2, <1>5, <1>6, <1>9, <1>10, <1>11, <1>12, <1>13
  <2>3. CASE x # l  BY <2>3, <1>5, <1>6, <1>9, <1>10, <1>11, <1>12, <1>13
  <2> QED  BY <2>1, <2>2, <2>3
<1> QED  BY <1>2, <1>14

\* The sums of CountsConserved.
Total(f, S) == MapThenSumSet(LAMBDA l : f[l], S)

LEMMA TotalIsSum ==
  ASSUME NEW f, NEW S \in SUBSET Line
  PROVE  \E g : IsSum(g, f, S) /\ Total(f, S) = g[S]
<1> DEFINE Rec(g) == g = [s \in SUBSET S |->
                  IF s = {} THEN 0 ELSE f[CHOOSE x \in s : TRUE] + g[s \ {CHOOSE x \in s : TRUE}]]
           h == CHOOSE g : Rec(g)
<1>1. Total(f, S) = h[S]  BY DEF Total, MapThenSumSet, MapThenFoldSet
<1>2. ASSUME NEW g PROVE Rec(g) <=> IsSum(g, f, S)  BY DEF IsSum, Plus, Pick
<1>3. \E g : IsSum(g, f, S)  BY SumExists
<1>4. IsSum(h, f, S)
  <2> HIDE DEF Rec
  <2> QED  BY <1>2, <1>3
<1> QED  BY <1>1, <1>4

LEMMA TotalOfZeros ==
  ASSUME NEW f \in [Line -> Nat], \A l \in Line : f[l] = 0, NEW S \in SUBSET Line
  PROVE  Total(f, S) = 0
<1>1. PICK g : IsSum(g, f, S) /\ Total(f, S) = g[S]  BY TotalIsSum
<1> DEFINE B == {s \in SUBSET S : g[s] # 0}
<1> SUFFICES ASSUME B # {} PROVE FALSE
  <2>1. S \in SUBSET S  OBVIOUS
  <2> QED  BY <1>1, <2>1
<1>2. B \in SUBSET (SUBSET Line)  OBVIOUS
<1>3. PICK s \in B : \A t \in SUBSET s : t \in B => t = s
  <2> HIDE DEF B
  <2> QED  BY <1>2, LeastSet
<1>4. g[{}] = 0  BY <1>1, SumOfNone
<1>5. s # {}  BY <1>4
<1> DEFINE x == Pick(s)
           r == s \ {x}
<1>6. x \in s /\ x \in Line /\ r \in SUBSET S /\ r # s /\ r \in SUBSET s  BY <1>5, PickIs
<1>7. g[r] = 0  BY <1>3, <1>6
<1>8. \A t \in SUBSET S : t # {} => g[t] = Plus(f, g, t)  BY <1>1, SumOfSome
<1>9. g[s] = f[x] + g[r]  BY <1>5, <1>8 DEF Plus
<1>10. f[x] = 0  BY <1>6
<1> HIDE DEF x, r
<1>11. g[s] = 0  BY <1>7, <1>9, <1>10
<1> QED  BY <1>11

\* A line more adds one to the sums it is in.
LEMMA TotalAdds ==
  ASSUME NEW f \in [Line -> Nat], NEW l \in Line, NEW d, d = More(f, l, 1), NEW S \in SUBSET Line
  PROVE  Total(f, S) \in Nat /\ Total(d, S) = IF l \in S THEN Total(f, S) + 1 ELSE Total(f, S)
<1>1. PICK g : IsSum(g, f, S) /\ Total(f, S) = g[S]  BY TotalIsSum
<1>2. PICK h : IsSum(h, d, S) /\ Total(d, S) = h[S]  BY TotalIsSum
<1>3. S \in SUBSET S  OBVIOUS
<1>4. \A s \in SUBSET S : g[s] \in Nat /\ h[s] = IF l \in s THEN g[s] + 1 ELSE g[s]
  BY <1>1, <1>2, SumAdds
<1> QED  BY <1>1, <1>2, <1>3, <1>4

-----------------------------------------------------------------------------
(* The inductive invariant.                                                *)

\* Reading of a file has begun.
Begun(f) == origin[f] # None

\* The server writes every line once, and to the file it modified last.
ServerWrites ==
  /\ \A f \in Exists : \A i \in DOMAIN content[f] : content[f][i] <= lines
  /\ \A f, g \in Exists : \A i \in DOMAIN content[f], j \in DOMAIN content[g] :
       content[f][i] = content[g][j] => f = g /\ i = j
  /\ modified[active] = now
  /\ \A f \in File : modified[f] <= now

\* The parser knows of files and lines that are there.
ParserKnows ==
  /\ \A f \in File : Begun(f) => f \in Exists
  /\ \A f \in File : fileOffsets[f] # None => Begun(f)
  /\ \A l \in Line : l > lines => counted[l] = 0
  /\ \A j \in DOMAIN chunk : chunk[j][1] <= lines

\* Where the two loops are.
Control ==
  /\ pc # "start" => latest \in Exists
  /\ pc \in {"open", "read", "wait"} => local
  /\ pc \in {"fetch", "lines", "next"} => ~local
  /\ pc = "start" => firstRun
  /\ firstRun => linesRead = 0 /\ \A f \in File : ~Begun(f)
  /\ pc \notin {"start", "open"} => ~firstRun /\ Begun(latest)
  /\ local => chunk = <<>> /\ cut = {}
  /\ chunk # <<>> => pc = "lines"

\* Up to line q a file was read from where its reading began: once, but for
\* lines that a chunk ended in, and the next line is one if it was counted.
Read(f, q) ==
  /\ q \in Nat /\ origin[f] <= q /\ q <= Len(content[f])
  /\ \A i \in DOMAIN content[f] :
       LET l == content[f][i]
       IN /\ i <= origin[f] => counted[l] = 0
          /\ origin[f] < i /\ i <= q => counted[l] > 0 /\ (counted[l] = 1 \/ l \in cut)
          /\ i > q => counted[l] = 0 \/ (i = q + 1 /\ l \in cut)

\* The files of which EachLineOnce speaks.
Claimed(f) == Begun(f) /\ (reused /\ local => origin[f] = 0)

\* A file that was left will be read on from where reading stopped.
CanResume(f) ==
  \E q \in Nat : /\ Read(f, q)
                 /\ ~truncate /\ local /\ origin[f] = 0 => fileOffsets[f] = q
                 /\ ~truncate /\ ~local => fileOffsets[f] = LineSize * q

\* Nothing was counted of a file that was not opened.
Untouched(f) == \A i \in DOMAIN content[f] : counted[content[f][i]] = 0

\* What the remote loop asks for: a file written after the time it knows of the
\* open one was not begun, and not written before the open one.
LooksForward ==
  /\ \A f \in File \ {latest} : Begun(f) => modified[f] <= modification
  /\ \A f \in File \ {latest} : modified[f] > modification => modified[f] >= modified[latest]
  /\ active = latest => \A f \in File \ {latest} : modified[f] <= modification

\* The parser goes forward in time unless the server goes back to a file.
GoesForward ==
  /\ \A f \in File \ {latest} : Begun(f) => modified[f] <= modified[latest]
  /\ Begun(active) => active = latest
  /\ pc = "open" => ~Begun(latest)
  /\ pc = "next" => LooksForward

\* The open file, read line by line.
LocalPlace ==
  pc \in {"read", "wait"} /\ Claimed(latest) =>
    Read(latest, position) /\ (origin[latest] = 0 => linesRead = position)

\* The chunk holds the lines behind the last one parsed, and ends at the offset
\* or with the line that begins there.
ChunkFrom(q, p) ==
  /\ \A j \in DOMAIN chunk :
       /\ q + j <= Len(content[latest]) /\ chunk[j][1] = content[latest][q + j]
       /\ ~chunk[j][2] => chunk[j][1] \in cut /\ q + j = p + 1 /\ j = Len(chunk)
  /\ q + Len(chunk) = p \/ (chunk # <<>> /\ q + Len(chunk) = p + 1 /\ ~chunk[Len(chunk)][2])

\* The remote file, read chunk by chunk.
RemotePlace ==
  pc \in {"fetch", "lines", "next"} =>
    /\ \E p, s, q \in Nat :
         /\ offset = LineSize * p /\ size = LineSize * s /\ p <= s /\ s <= Len(content[latest])
         /\ Read(latest, q) /\ ChunkFrom(q, p)
    /\ pc = "next" => offset = size

\* As long as no read fails, the offsets of all files are kept, and what is
\* truncated is not used again.
Undisturbed == faults = 0 /\ Cardinality(Exists) <= maxTrackedFiles /\ ~(reused /\ truncate)

InOrder  == pc # "start" /\ ~reused => GoesForward
Unopened == \A f \in Exists : ~Begun(f) => Untouched(f)
Left     == \A f \in File : Claimed(f) /\ (f # latest \/ pc = "open") => CanResume(f)

Progress ==
  /\ InOrder /\ Unopened /\ Left /\ LocalPlace /\ RemotePlace
  /\ pc = "open" => linesRead = 0

IInv == TypeOK /\ ServerWrites /\ ParserKnows /\ Control /\ (Undisturbed => Progress)

-----------------------------------------------------------------------------
(* The operators of the model.                                             *)

\* A set of naturals has a least member: of the intervals up to each of them,
\* one contains no other.
LEMMA LeastNat ==
  ASSUME NEW S \in SUBSET Nat, S # {}
  PROVE  \E i \in S : \A j \in S : i <= j
<1> DEFINE T == {0..i : i \in S}
<1>1. T \subseteq FiniteSubsetsOf(Nat) /\ T # {}
  <2>1. \A i \in S : IsFiniteSet(0..i) /\ 0..i \in SUBSET Nat  BY FS_Interval
  <2> QED  BY <2>1 DEF FiniteSubsetsOf
<1>2. \E t \in T : \A u \in T : <<u, t>> \notin StrictSubsetOrdering(Nat)
  <2> HIDE DEF T
  <2> QED  BY <1>1, WFMin, FS_StrictSubsetOrderingWellFounded, Zenon
<1>3. PICK i \in S : \A j \in S : <<0..j, 0..i>> \notin StrictSubsetOrdering(Nat)  BY <1>2
<1>4. ASSUME NEW j \in S, j < i PROVE FALSE
  <2>1. 0..j \subseteq 0..i /\ i \in 0..i /\ i \notin 0..j  BY <1>4
  <2>2. 0..j # 0..i  BY <2>1, Zenon
  <2>3. <<0..j, 0..i>> \in (SUBSET Nat) \X (SUBSET Nat)  OBVIOUS
  <2> QED  BY <2>1, <2>2, <2>3, <1>3 DEF StrictSubsetOrdering
<1> QED  BY <1>4

\* A set of indices without gaps is an interval, and Min is its first.
LEMMA IntervalIs ==
  ASSUME NEW n \in Nat, NEW S \in SUBSET (1..n), S # {},
         \A i, k \in S : \A m \in Nat : i <= m /\ m <= k => m \in S
  PROVE  /\ Min(S) \in S /\ Cardinality(S) \in Nat
         /\ S = Min(S)..(Min(S) + Cardinality(S) - 1)
<1>1. PICK a \in S : \A j \in S : a <= j  BY LeastNat
<1>2. Min(S) \in S /\ \A j \in S : Min(S) <= j  BY <1>1 DEF Min
<1>0. \A j \in S : j \in Nat /\ j <= n  OBVIOUS
<1>3. Min(S) = a /\ a \in Nat
  <2>1. a <= Min(S) /\ Min(S) <= a  BY <1>1, <1>2
  <2>2. Min(S) \in Nat /\ a \in Nat  BY <1>0, <1>2
  <2> QED  BY <2>1, <2>2
<1> DEFINE T == {n - i : i \in S}
<1>4. T \in SUBSET Nat /\ T # {}  OBVIOUS
<1>5. PICK t \in T : \A u \in T : t <= u
  <2> HIDE DEF T
  <2> QED  BY <1>4, LeastNat
<1>6. PICK b \in S : t = n - b  OBVIOUS
<1>7. \A j \in S : n - b <= n - j  BY <1>5, <1>6
<1>8. \A j \in S : j \in Nat /\ j <= b  BY <1>0, <1>7
<1>9. S = a..b
  <2>1. ASSUME NEW m \in a..b PROVE m \in S  BY <1>3, <1>0
  <2>2. ASSUME NEW m \in S PROVE m \in a..b  BY <1>1, <1>3, <1>8
  <2> QED  BY <2>1, <2>2
<1>10. Cardinality(S) = b - a + 1 /\ b \in Nat /\ a <= b  BY <1>1, <1>3, <1>8, <1>9, FS_Interval
<1> QED  BY <1>2, <1>3, <1>9, <1>10

LEMMA MinMax ==
  ASSUME NEW a \in Nat, NEW b \in Nat
  PROVE  Min({a, b}) = (IF a <= b THEN a ELSE b) /\ Max({a, b}) = (IF a <= b THEN b ELSE a)
BY DEF Min, Max

LEMMA TimesMonotone ==
  ASSUME NEW a \in Nat, NEW b \in Nat, a <= b
  PROVE  LineSize * a <= LineSize * b /\ LineSize * a \in Nat /\ LineSize * b \in Nat
<1>1. PICK d \in Nat : b = a + d
  <2>1. b - a \in Nat /\ b = a + (b - a)  OBVIOUS
  <2> QED  BY <2>1
<1>2. LineSize \in Nat  BY LogParserAssumption
<1>3. LineSize * d \in Nat /\ LineSize * a \in Nat  BY <1>2
<1>4. LineSize * b = LineSize * a + LineSize * d  BY <1>1, <1>2
<1> QED  BY <1>3, <1>4

LEMMA DivIs == ASSUME NEW a \in Nat PROVE a \div LineSize \in Nat
BY LogParserAssumption

\* A file that is there has lines.
LEMMA ContentIs ==
  ASSUME TypeOK, NEW f \in Exists
  PROVE  /\ f \in File /\ content[f] \in Seq(Line) /\ Len(content[f]) \in Nat
         /\ DOMAIN content[f] = 1..Len(content[f])
         /\ \A i \in 1..Len(content[f]) : content[f][i] \in Line
         /\ Bytes(f) \in Nat /\ Bytes(f) = LineSize * Len(content[f])
<1>1. f \in File /\ content[f] \in Seq(Line)  BY DEF TypeOK, Exists
<1>2. /\ Len(content[f]) \in Nat /\ DOMAIN content[f] = 1..Len(content[f])
      /\ \A i \in 1..Len(content[f]) : content[f][i] \in Line
  BY <1>1
<1>3. LineSize * Len(content[f]) \in Nat  BY <1>2, TimesMonotone
<1> QED  BY <1>1, <1>2, <1>3 DEF Bytes

\* The latest files, and the next ones, are there.
LEMMA LatestIs ==
  ASSUME NEW file \in LatestFiles
  PROVE  file \in Exists /\ file \in File /\ \A g \in Exists : modified[g] <= modified[file]
BY DEF LatestFiles, Exists

LEMMA NextIs ==
  ASSUME NEW time, NEW file \in NextFiles(time)
  PROVE  /\ file \in Exists /\ file \in File /\ modified[file] > time
         /\ \A g \in Exists : modified[g] > time => modified[file] <= modified[g]
BY DEF NextFiles, NewerThan, Exists

-----------------------------------------------------------------------------
(* Chunks.                                                                 *)

\* What FetchChunk names: where the chunk ends, the lines that begin in it, and
\* what it has of the last one.
ChunkEnd == Min({offset + SizeToRead, Max({offset, Bytes(latest)})})
Starts(o, e) == {i \in 1..Len(content[latest]) : LineSize * (i - 1) >= o /\ LineSize * (i - 1) < e}
Rest(o, e) == e - Max({o, LineSize * (e \div LineSize)})

\* The lines that begin in a chunk follow each other.
LEMMA StartsAre ==
  ASSUME TypeOK, latest \in Exists, NEW o \in Nat, NEW e \in Nat, Starts(o, e) # {}
  PROVE  LET S == Starts(o, e)
         IN /\ Min(S) \in S /\ Cardinality(S) \in Nat
            /\ S = Min(S)..(Min(S) + Cardinality(S) - 1)
<1> DEFINE S == Starts(o, e)
           n == Len(content[latest])
<1>1. n \in Nat  BY ContentIs
<1>2. S \in SUBSET (1..n)  BY DEF Starts
<1>3. ASSUME NEW i \in S, NEW k \in S, NEW m \in Nat, i <= m, m <= k
      PROVE  m \in S
  <2>1. i \in 1..n /\ k \in 1..n /\ LineSize * (i - 1) >= o /\ LineSize * (k - 1) < e  BY DEF Starts
  <2> HIDE DEF S
  <2>2. m \in 1..n /\ i - 1 \in Nat /\ k - 1 \in Nat /\ m - 1 \in Nat  BY <1>1, <1>3, <2>1
  <2>3. i - 1 <= m - 1 /\ m - 1 <= k - 1  BY <1>3, <2>2, <2>1
  <2>4. LineSize * (i - 1) <= LineSize * (m - 1) /\ LineSize * (m - 1) <= LineSize * (k - 1)
    BY <2>2, <2>3, TimesMonotone
  <2>5. LineSize * (i - 1) \in Nat /\ LineSize * (m - 1) \in Nat /\ LineSize * (k - 1) \in Nat
    BY <2>2, <2>3, TimesMonotone
  <2> DEFINE x == LineSize * (i - 1)
             y == LineSize * (m - 1)
             z == LineSize * (k - 1)
  <2>6. y >= o /\ y < e
    <3>1. x \in Nat /\ y \in Nat /\ z \in Nat /\ x <= y /\ y <= z /\ x >= o /\ z < e  BY <2>1, <2>4, <2>5
    <3> HIDE DEF x, y, z
    <3> QED  BY <3>1
  <2> QED  BY <2>2, <2>6 DEF S, Starts
<1> HIDE DEF n, S
<1>4. S # {}  BY DEF S
<1> QED  BY <1>1, <1>2, <1>3, <1>4, IntervalIs DEF S

\* The numbers of FetchChunk, whatever is in the file.
LEMMA ChunkNumbers ==
  ASSUME TypeOK, latest \in Exists
  PROVE  /\ SizeToRead \in Nat /\ SizeToRead <= maxChunkSize /\ ChunkEnd \in Nat
         /\ offset <= ChunkEnd /\ ChunkEnd <= offset + SizeToRead
         /\ Rest(offset, ChunkEnd) \in Nat /\ Rest(offset, ChunkEnd) <= SizeToRead
<1>1. offset \in Nat /\ size \in Nat /\ maxChunkSize \in Nat /\ LineSize \in Nat \ {0}
  BY LogParserAssumption DEF TypeOK
<1>2. SizeToRead \in Nat /\ SizeToRead <= maxChunkSize
  <2>1. CASE size >= offset
    <3>1. size - offset \in Nat  BY <1>1, <2>1
    <3>2. SizeToRead = IF maxChunkSize <= size - offset THEN maxChunkSize ELSE size - offset
      BY <1>1, <2>1, <3>1, MinMax DEF SizeToRead
    <3> QED  BY <1>1, <3>1, <3>2
  <2>2. CASE ~(size >= offset)  BY <1>1, <2>2 DEF SizeToRead
  <2> QED  BY <2>1, <2>2
<1>3. Bytes(latest) \in Nat  BY ContentIs
<1> DEFINE m == Max({offset, Bytes(latest)})
<1>4. m \in Nat /\ m >= offset
  <2>1. m = IF offset <= Bytes(latest) THEN Bytes(latest) ELSE offset  BY <1>1, <1>3, MinMax
  <2> QED  BY <1>1, <1>3, <2>1
<1>5. offset + SizeToRead \in Nat  BY <1>1, <1>2
<1>6. ChunkEnd = IF offset + SizeToRead <= m THEN offset + SizeToRead ELSE m
  <2> HIDE DEF m
  <2>1. ChunkEnd = Min({offset + SizeToRead, m})  BY DEF ChunkEnd, m
  <2> QED  BY <1>4, <1>5, <2>1, MinMax
<1> HIDE DEF m
<1>7. ChunkEnd \in Nat /\ offset <= ChunkEnd /\ ChunkEnd <= offset + SizeToRead
  BY <1>1, <1>2, <1>4, <1>5, <1>6
<1>8. ChunkEnd \div LineSize \in Nat /\ LineSize * (ChunkEnd \div LineSize) \in Nat
      /\ LineSize * (ChunkEnd \div LineSize) <= ChunkEnd
  BY <1>1, <1>7
<1> DEFINE e == ChunkEnd
           w == LineSize * (ChunkEnd \div LineSize)
<1>9. Rest(offset, e) = e - (IF offset <= w THEN w ELSE offset)
  <2>1. w \in Nat  BY <1>8
  <2>2. Rest(offset, e) = e - Max({offset, w})  BY DEF Rest
  <2> HIDE DEF w, e
  <2> QED  BY <1>1, <2>1, <2>2, MinMax
<1>10. w \in Nat /\ w <= e /\ e \in Nat /\ offset <= e /\ e <= offset + SizeToRead  BY <1>7, <1>8
<1>11. Rest(offset, e) \in Nat /\ Rest(offset, e) <= SizeToRead
  <2> HIDE DEF w, e
  <2> QED  BY <1>1, <1>2, <1>9, <1>10
<1> QED  BY <1>2, <1>7, <1>11

\* FetchChunk in these names.
LEMMA FetchIs ==
  ASSUME FetchChunk
  PROVE  LET S == Starts(offset, ChunkEnd)
         IN /\ pc = "fetch" /\ pc' = "lines" /\ chunk = <<>> /\ size # offset
            /\ chunk' = [j \in 1..Cardinality(S) |->
                           <<content[latest][Min(S) + j - 1], LineSize * (Min(S) + j - 1) <= ChunkEnd>>]
            /\ cut' = cut \cup {chunk'[j][1] : j \in {j \in DOMAIN chunk' : ~chunk'[j][2]}}
            /\ offset' = IF SizeToRead = maxChunkSize
                         THEN offset + SizeToRead - Rest(offset, ChunkEnd) ELSE offset + SizeToRead
            /\ UNCHANGED <<serverVars, countVars, size, modification, localVars, local, latest, firstRun,
                           fileOffsets, faults, origin>>
BY DEF FetchChunk, Starts, ChunkEnd, Rest, OffsetAfter

\* The lines of a chunk are of the file.
LEMMA ChunkIs ==
  ASSUME TypeOK, latest \in Exists, FetchChunk
  PROVE  /\ chunk' \in Seq(Line \X BOOLEAN) /\ offset' \in Nat /\ cut' \in SUBSET Line
         /\ \A j \in DOMAIN chunk' : \E i \in DOMAIN content[latest] : chunk'[j][1] = content[latest][i]
<1> DEFINE S == Starts(offset, ChunkEnd)
           c == Cardinality(S)
           a == Min(S)
<1>1. offset \in Nat /\ ChunkEnd \in Nat  BY ChunkNumbers DEF TypeOK
<1>2. chunk' = [j \in 1..c |-> <<content[latest][a + j - 1], LineSize * (a + j - 1) <= ChunkEnd>>]
  BY FetchIs
<1>3. S \subseteq 1..Len(content[latest])  BY DEF Starts
<1>4. c \in Nat /\ \A j \in 1..c : a + j - 1 \in 1..Len(content[latest])
  <2>1. CASE S = {}  BY <2>1, FS_EmptySet
  <2>2. CASE S # {}
    <3>1. a \in S /\ c \in Nat /\ S = a..(a + c - 1)  BY <1>1, <2>2, StartsAre
    <3>2. a \in Nat  BY <1>3, <3>1
    <3> HIDE DEF S, a, c
    <3>3. \A j \in 1..c : a + j - 1 \in a..(a + c - 1)  BY <3>1, <3>2
    <3> QED  BY <1>3, <3>1, <3>3
  <2> QED  BY <2>1, <2>2
<1>5. /\ \A i \in 1..Len(content[latest]) : content[latest][i] \in Line
      /\ DOMAIN content[latest] = 1..Len(content[latest])
  BY ContentIs
<1> HIDE DEF S, c, a
<1>6. \A j \in 1..c : /\ chunk'[j] \in Line \X BOOLEAN
                      /\ \E i \in DOMAIN content[latest] : chunk'[j][1] = content[latest][i]
  <2> SUFFICES ASSUME NEW j \in 1..c
               PROVE  /\ chunk'[j] \in Line \X BOOLEAN
                      /\ \E i \in DOMAIN content[latest] : chunk'[j][1] = content[latest][i]
    OBVIOUS
  <2> DEFINE i == a + j - 1
             b == LineSize * i <= ChunkEnd
  <2>1. chunk'[j] = <<content[latest][i], b>>  BY <1>2
  <2>2. b \in BOOLEAN  OBVIOUS
  <2>3. i \in DOMAIN content[latest] /\ content[latest][i] \in Line  BY <1>4, <1>5
  <2> HIDE DEF i, b
  <2> QED  BY <2>1, <2>2, <2>3
<1>7. DOMAIN chunk' = 1..c /\ chunk' \in Seq(Line \X BOOLEAN)
  <2>1. chunk' \in [1..c -> Line \X BOOLEAN]  BY <1>2, <1>6
  <2> QED  BY <1>4, <2>1, SeqDef
<1>8. offset' \in Nat
  <2>1. offset' = IF SizeToRead = maxChunkSize
                  THEN offset + SizeToRead - Rest(offset, ChunkEnd) ELSE offset + SizeToRead
    BY FetchIs
  <2> QED  BY <1>1, <2>1, ChunkNumbers
<1>9. cut' \in SUBSET Line
  <2>1. cut' = cut \cup {chunk'[j][1] : j \in {j \in DOMAIN chunk' : ~chunk'[j][2]}}  BY FetchIs
  <2>2. \A j \in DOMAIN chunk' : chunk'[j][1] \in Line  BY <1>6, <1>7
  <2> QED  BY <2>1, <2>2 DEF TypeOK
<1> QED  BY <1>6, <1>7, <1>8, <1>9

-----------------------------------------------------------------------------
(* What holds in any case.                                                 *)

Base == TypeOK /\ ServerWrites /\ ParserKnows /\ Control

\* The types of the counts.
CountsTyped ==
  /\ eventCounts \in [Severity -> Nat] /\ eventCountsTotal \in [Severity -> Nat]
  /\ stored \in [pgSeverities -> Nat] \X [pgSeverities -> Nat]

LEMMA InitBase == Init => Base
<1> SUFFICES ASSUME Init PROVE Base  OBVIOUS
<1> USE LogParserAssumption DEF Init
<1>1. PICK f \in File : /\ active = f /\ now = 1 /\ content = [g \in File |-> IF g = f THEN <<1>> ELSE None]
                        /\ modified = [g \in File |-> IF g = f THEN 1 ELSE 0]
  OBVIOUS
<1>2. <<1>> \in Seq(Line) /\ <<1>> \in Seq(Nat) /\ Len(<<1>>) = 1 /\ DOMAIN <<1>> = {1} /\ <<1>>[1] = 1
  BY DEF Line
<1>3. <<1>> # None  BY <1>2
<1>4. Exists = {f}  BY <1>1, <1>3 DEF Exists
<1>5. TypeOK
  <2>1. content \in [File -> Seq(Line) \cup {None}]  BY <1>1, <1>2
  <2>2. modified \in [File -> Nat]  BY <1>1
  <2>3. Cardinality({g \in File : fileOffsets[g] # None}) <= maxTrackedFiles
    <3>1. {g \in File : fileOffsets[g] # None} = {}  OBVIOUS
    <3>2. Cardinality({g \in File : fileOffsets[g] # None}) = 0
      BY ONLY <3>1, FS_EmptySet, Zenon
    <3> QED  BY <3>2
  <2>4. chunk \in Seq(Line \X BOOLEAN) /\ CountsTyped  BY DEF CountsTyped
  <2>5. /\ truncate \in BOOLEAN /\ local \in BOOLEAN /\ reused \in BOOLEAN /\ tied \in BOOLEAN
        /\ firstRun \in BOOLEAN
    BY Zenon
  <2>6. lines \in 0..MaxLines /\ rotations \in 0..MaxRotations  OBVIOUS
  <2>7. counted \in [Line -> Nat]  OBVIOUS
  <2> QED  BY <1>1, <1>4, <2>1, <2>2, <2>3, <2>4, <2>5, <2>6, <2>7 DEF TypeOK, CountsTyped
<1>6. ServerWrites
  <2>1. content[f] = <<1>>  BY <1>1
  <2>2. \A i \in DOMAIN content[f] : i = 1 /\ content[f][i] = 1  BY <1>2, <2>1
  <2> QED  BY <1>1, <1>4, <2>2 DEF ServerWrites
<1>7. ParserKnows
  <2>1. DOMAIN chunk = {}  OBVIOUS
  <2>2. \A l \in Line : counted[l] = 0  OBVIOUS
  <2>3. \A i \in DOMAIN content[f] : content[f][i] \in Line  BY <1>1, <1>2
  <2> QED  BY <1>4, <2>1, <2>2, <2>3 DEF ParserKnows, Begun
<1>8. Control  BY DEF Control, Begun
<1> QED  BY <1>5, <1>6, <1>7, <1>8 DEF Base

LEMMA RememberIs ==
  ASSUME TypeOK, latest \in File, NEW v \in Nat, Remember(v)
  PROVE  /\ fileOffsets' \in [File -> Nat \cup {None}]
         /\ Cardinality({f \in File : fileOffsets'[f] # None}) <= maxTrackedFiles
         /\ \A f \in File \ {latest} : fileOffsets'[f] \in {fileOffsets[f], None}
<1> USE DEF TypeOK
<1> DEFINE kept == [fileOffsets EXCEPT ![latest] = v]
<1>1. CASE truncate  BY <1>1 DEF Remember
<1>2. CASE ~truncate /\ Cardinality({f \in File : kept[f] # None}) > maxTrackedFiles
  <2>1. fileOffsets' = [f \in File |-> None]  BY <1>2 DEF Remember
  <2>2. {f \in File : fileOffsets'[f] # None} = {}  BY <2>1
  <2>3. Cardinality({f \in File : fileOffsets'[f] # None}) = 0  BY ONLY <2>2, FS_EmptySet, Zenon
  <2> QED  BY <2>1, <2>3, LogParserAssumption
<1>3. CASE ~truncate /\ ~(Cardinality({f \in File : kept[f] # None}) > maxTrackedFiles)
  <2>1. fileOffsets' = kept  BY <1>3 DEF Remember
  <2>2. Cardinality({f \in File : kept[f] # None}) \in Nat
    <3> HIDE DEF kept
    <3>1. IsFiniteSet({f \in File : kept[f] # None})  BY LogParserAssumption, FS_Subset
    <3> QED  BY <3>1, FS_CardinalityType
  <2>3. Cardinality({f \in File : kept[f] # None}) <= maxTrackedFiles
    <3> HIDE DEF kept
    <3> QED  BY <1>3, <2>2, LogParserAssumption
  <2>4. kept \in [File -> Nat \cup {None}] /\ \A f \in File \ {latest} : kept[f] = fileOffsets[f]  OBVIOUS
  <2> HIDE DEF kept
  <2> QED  BY <2>1, <2>3, <2>4
<1> QED  BY <1>1, <1>2, <1>3

\* Whether or not the counts are sent, they stay accounted for.
LEMMA SendIs ==
  ASSUME TypeOK, NEW own \in [Severity -> Nat], NEW all \in [Severity -> Nat], SendIfNeeded(own, all)
  PROVE  /\ CountsTyped'
         /\ \A s \in Severity :
              /\ Accounted(stored'[1], eventCounts', s) = Accounted(stored[1], own, s)
              /\ Accounted(stored'[2], eventCountsTotal', s) = Accounted(stored[2], all, s)
<1> USE LogParserAssumption
<1>1. stored[1] \in [pgSeverities -> Nat] /\ stored[2] \in [pgSeverities -> Nat]  BY DEF TypeOK
<1>2. CASE eventCounts' = own /\ eventCountsTotal' = all /\ stored' = stored
  BY <1>2 DEF TypeOK, CountsTyped
<1>3. CASE /\ stored' = <<Sent(stored[1], own), Sent(stored[2], all)>>
           /\ eventCounts' = zeroEventCounts(own) /\ eventCountsTotal' = zeroEventCounts(all)
  <2>1. ASSUME NEW c \in [Severity -> Nat], NEW t \in [pgSeverities -> Nat]
        PROVE  /\ Sent(t, c) \in [pgSeverities -> Nat] /\ zeroEventCounts(c) \in [Severity -> Nat]
               /\ \A s \in Severity : Accounted(Sent(t, c), zeroEventCounts(c), s) = Accounted(t, c, s)
    <3>1. Sent(t, c) \in [pgSeverities -> Nat] /\ zeroEventCounts(c) \in [Severity -> Nat]
      BY DEF Sent, zeroEventCounts
    <3>2. \A s \in pgSeverities : Sent(t, c)[s] = t[s] + c[s] /\ zeroEventCounts(c)[s] = 0 /\ t[s] + c[s] \in Nat
      BY DEF Sent, zeroEventCounts
    <3>3. \A s \in Severity \ pgSeverities : zeroEventCounts(c)[s] = c[s]  BY DEF zeroEventCounts
    <3> QED  BY <3>1, <3>2, <3>3 DEF Accounted
  <2>2. stored'[1] = Sent(stored[1], own) /\ stored'[2] = Sent(stored[2], all)  BY <1>3
  <2>3. stored' \in [pgSeverities -> Nat] \X [pgSeverities -> Nat]  BY <1>1, <1>3, <2>1
  <2> QED  BY <1>1, <1>3, <2>1, <2>2, <2>3 DEF CountsTyped
<1> QED  BY <1>2, <1>3 DEF SendIfNeeded

\* What Count makes of the counts before it sends them.
Plus1(c, s) == [c EXCEPT ![s] = c[s] + 1]
OwnPlus1(l) == IF Own(l) THEN Plus1(eventCounts, SeverityOf[l]) ELSE eventCounts
AllPlus1(l) == Plus1(eventCountsTotal, SeverityOf[l])

LEMMA CountAdds ==
  ASSUME TypeOK, NEW l \in Line, Count(l)
  PROVE  /\ OwnPlus1(l) \in [Severity -> Nat] /\ AllPlus1(l) \in [Severity -> Nat]
         /\ SendIfNeeded(OwnPlus1(l), AllPlus1(l))
<1>1. SeverityOf[l] \in Severity  BY LogParserAssumption
<1>2. \A c \in [Severity -> Nat] : Plus1(c, SeverityOf[l]) \in [Severity -> Nat]  BY <1>1 DEF Plus1
<1> QED  BY <1>2 DEF TypeOK, Count, OwnPlus1, AllPlus1, Plus1

LEMMA CountIs ==
  ASSUME TypeOK, NEW l \in Line, Count(l)
  PROVE  /\ CountsTyped' /\ counted' \in [Line -> Nat]
         /\ \A k \in Line : counted'[k] = IF k = l THEN counted[l] + 1 ELSE counted[k]
<1>1. CountsTyped'  BY CountAdds, SendIs
<1>2. counted \in [Line -> Nat] /\ counted' = [counted EXCEPT ![l] = counted[l] + 1]  BY DEF TypeOK, Count
<1> QED  BY <1>1, <1>2

LEMMA CountNothingIs ==
  ASSUME TypeOK, CountNothing
  PROVE  CountsTyped' /\ counted' = counted
BY SendIs DEF CountNothing, TypeOK

\* Time goes on, or stands still.
LEMMA ModifyIs ==
  ASSUME TypeOK, NEW f \in File, Modify(f)
  PROVE  /\ now' \in Nat /\ now <= now' /\ modified' \in [File -> Nat]
         /\ \A g \in File : modified'[g] = IF g = f THEN now' ELSE modified[g]
         /\ tied' \in BOOLEAN /\ (~tied' => ~tied /\ \A g \in Exists \ {f} : modified[g] # now')
<1>1. now \in Nat /\ modified \in [File -> Nat] /\ tied \in BOOLEAN  BY DEF TypeOK
<1>2. now' \in Nat /\ now <= now'  BY <1>1 DEF Modify
<1>3. modified' = [modified EXCEPT ![f] = now']  BY DEF Modify
<1>4. tied' = (tied \/ \E g \in Exists \ {f} : modified[g] = now')  BY DEF Modify
<1>5. tied' \in BOOLEAN /\ (~tied' => ~tied /\ \A g \in Exists \ {f} : modified[g] # now')  BY <1>4, Zenon
<1> QED  BY <1>1, <1>2, <1>3, <1>5

\* A line more.
LEMMA WriteIs ==
  ASSUME TypeOK, WriteLine
  PROVE  /\ Exists' = Exists /\ content' \in [File -> Seq(Line) \cup {None}]
         /\ \A f \in Exists \ {active} : content'[f] = content[f]
         /\ lines + 1 \in Line /\ Len(content'[active]) = Len(content[active]) + 1
         /\ \A i \in 1..Len(content[active]) : content'[active][i] = content[active][i]
         /\ content'[active][Len(content[active]) + 1] = lines + 1
<1> DEFINE c == content[active]
           d == Append(c, lines + 1)
<1>1. active \in File /\ c \in Seq(Line) /\ Len(c) \in Nat  BY ContentIs DEF TypeOK
<1>2. lines + 1 \in Line  BY LogParserAssumption DEF TypeOK, WriteLine, Line
<1>3. content' = [content EXCEPT ![active] = d]  BY DEF WriteLine
<1>4. d \in Seq(Line) /\ Len(d) = Len(c) + 1 /\ d[Len(c) + 1] = lines + 1
      /\ \A i \in 1..Len(c) : d[i] = c[i]
  <2> HIDE DEF c
  <2> QED  BY <1>1, <1>2
<1>5. d # None
  <2> HIDE DEF d
  <2>1. d \in Seq(Nat)  BY <1>4, LogParserAssumption DEF Line
  <2> QED  BY <2>1, LogParserAssumption
<1> HIDE DEF d
<1>6. content \in [File -> Seq(Line) \cup {None}]  BY DEF TypeOK
<1>7. content'[active] = d /\ \A f \in File \ {active} : content'[f] = content[f]  BY <1>1, <1>3, <1>6
<1>8. active \in Exists  BY DEF TypeOK
<1>9. Exists' = Exists  BY <1>5, <1>7, <1>8 DEF Exists
<1>10. content' \in [File -> Seq(Line) \cup {None}]  BY <1>3, <1>4, <1>6
<1>11. Exists \subseteq File  BY DEF Exists
<1> QED  BY <1>2, <1>4, <1>7, <1>9, <1>10, <1>11

\* Another file.
LEMMA RotateIs ==
  ASSUME TypeOK, NEW f \in File, RotateTo(f)
  PROVE  /\ Exists' = Exists \cup {f} /\ content' \in [File -> Seq(Line) \cup {None}]
         /\ \A g \in Exists \ {f} : content'[g] = content[g]
         /\ IF f \notin Exists \/ truncate THEN content'[f] = <<>> ELSE content'[f] = content[f]
<1> DEFINE d == IF content[f] = None \/ truncate THEN <<>> ELSE content[f]
<1>1. content' = [content EXCEPT ![f] = d]  BY DEF RotateTo
<1>2. content \in [File -> Seq(Line) \cup {None}]  BY DEF TypeOK
<1>3. <<>> \in Seq(Line) /\ <<>> # None
  <2>1. <<>> \in Seq(Line) /\ <<>> \in Seq(Nat)  OBVIOUS
  <2> QED  BY <2>1, LogParserAssumption, Zenon
<1>4. d \in Seq(Line) /\ d # None  BY <1>2, <1>3
<1>5. content'[f] = d /\ \A g \in File \ {f} : content'[g] = content[g]  BY <1>1, <1>2
<1>6. IF f \notin Exists \/ truncate THEN d = <<>> ELSE d = content[f]  BY DEF Exists
<1> HIDE DEF d
<1>7. Exists' = Exists \cup {f}  BY <1>4, <1>5 DEF Exists
<1>8. content' \in [File -> Seq(Line) \cup {None}]  BY <1>1, <1>2, <1>4
<1>9. Exists \subseteq File  BY DEF Exists
<1> QED  BY <1>5, <1>6, <1>7, <1>8, <1>9

LEMMA WriteBase == Base /\ WriteLine => Base'
<1> SUFFICES ASSUME Base, WriteLine PROVE Base'  OBVIOUS
<1> USE DEF Base
<1> DEFINE n == Len(content[active])
<1>1. /\ Exists' = Exists /\ content' \in [File -> Seq(Line) \cup {None}]
      /\ \A f \in Exists \ {active} : content'[f] = content[f]
      /\ lines + 1 \in Line /\ Len(content'[active]) = n + 1
      /\ \A i \in 1..n : content'[active][i] = content[active][i]
      /\ content'[active][n + 1] = lines + 1
  BY WriteIs
<1>2. active \in Exists /\ Exists \subseteq File /\ n \in Nat  BY ContentIs DEF TypeOK, Exists
<1>3. \A f \in Exists : /\ DOMAIN content[f] = 1..Len(content[f]) /\ Len(content[f]) \in Nat
                        /\ \A i \in 1..Len(content[f]) : content[f][i] \in Line
  BY ContentIs
<1>4. lines \in Nat /\ lines' = lines + 1 /\ rotations' = rotations
  BY LogParserAssumption DEF TypeOK, WriteLine
<1>8. /\ active' = active /\ now' \in Nat /\ now <= now' /\ modified' \in [File -> Nat] /\ tied' \in BOOLEAN
      /\ \A g \in File : modified'[g] = IF g = active THEN now' ELSE modified[g]
  <2>1. active \in File /\ Modify(active)  BY <1>2 DEF WriteLine
  <2>2. active' = active  BY DEF WriteLine
  <2> QED  BY <2>1, <2>2, ModifyIs
<1>5. TypeOK'
  <2>1. lines' \in 0..MaxLines  BY LogParserAssumption DEF TypeOK, WriteLine
  <2>2. active' \in Exists'  BY <1>1, <1>2 DEF WriteLine
  <2> QED  BY <1>1, <1>8, <2>1, <2>2 DEF TypeOK, WriteLine, countVars, remoteVars, localVars
<1>6. DOMAIN content'[active] = 1..(n + 1)
  <2>1. content'[active] \in Seq(Line)
    <3>1. content'[active] # None  BY <1>1, <1>2 DEF Exists
    <3> QED  BY <3>1, <1>1, <1>2
  <2> QED  BY <1>1, <2>1
<1> HIDE DEF n
<1>7. \A i \in DOMAIN content'[active] : \/ i \in 1..n /\ content'[active][i] = content[active][i]
                                         \/ i = n + 1 /\ content'[active][i] = lines + 1
  <2>1. \A i \in 1..(n + 1) : i \in 1..n \/ i = n + 1  BY <1>2
  <2>2. content'[active][n + 1] = lines + 1 /\ \A i \in 1..n : content'[active][i] = content[active][i]
    BY <1>1
  <2>3. ASSUME NEW i \in DOMAIN content'[active]
        PROVE  \/ i \in 1..n /\ content'[active][i] = content[active][i]
               \/ i = n + 1 /\ content'[active][i] = lines + 1
    <3>1. i \in 1..(n + 1)  BY <1>6, Zenon
    <3>2. i \in 1..n \/ i = n + 1  BY <2>1, <3>1
    <3> QED  BY <2>2, <3>2, Zenon
  <2> QED  BY <2>3
<1>9. ServerWrites'
  <2>1. ASSUME NEW f \in Exists, NEW i \in DOMAIN content'[f]
        PROVE  \/ i \in DOMAIN content[f] /\ content'[f][i] = content[f][i] /\ content[f][i] <= lines
               \/ f = active /\ i = n + 1 /\ content'[f][i] = lines + 1
    <3>1. CASE f = active
      <4>1. \A k \in 1..n : k \in DOMAIN content[active]  BY <1>2, <1>3 DEF n
      <4> QED  BY <3>1, <4>1, <1>7, <1>2 DEF ServerWrites
    <3>2. CASE f # active  BY <3>2, <1>1 DEF ServerWrites
    <3> QED  BY <3>1, <3>2
  <2>2. \A f \in Exists : \A i \in DOMAIN content'[f] : content'[f][i] <= lines + 1
    <3> SUFFICES ASSUME NEW f \in Exists, NEW i \in DOMAIN content'[f] PROVE content'[f][i] <= lines + 1
      OBVIOUS
    <3>1. i \in DOMAIN content[f] => content[f][i] \in Nat  BY <1>3 DEF Line
    <3> QED  BY <2>1, <3>1, <1>4
  <2>3. ASSUME NEW f \in Exists, NEW g \in Exists, NEW i \in DOMAIN content'[f], NEW j \in DOMAIN content'[g],
               content'[f][i] = content'[g][j]
        PROVE  f = g /\ i = j
    <3>1. ~(lines + 1 <= lines)  BY <1>4
    <3> QED  BY <2>1, <2>3, <3>1 DEF ServerWrites
  <2>4. modified'[active'] = now' /\ \A f \in File : modified'[f] <= now'
    <3>1. modified \in [File -> Nat] /\ now \in Nat  BY DEF TypeOK
    <3> QED  BY <1>2, <1>8, <3>1 DEF ServerWrites
  <2> QED  BY <1>1, <1>4, <2>2, <2>3, <2>4 DEF ServerWrites
<1>10. ParserKnows'
  <2>1. UNCHANGED <<origin, fileOffsets, counted, chunk>>  BY DEF WriteLine, countVars, remoteVars
  <2>2. \A l \in Line : l > lines' => counted'[l] = 0
    BY <1>4, <2>1 DEF ParserKnows, Line
  <2>3. \A j \in DOMAIN chunk' : chunk'[j][1] <= lines'
    <3>1. \A j \in DOMAIN chunk : chunk[j][1] \in Nat  BY DEF TypeOK, Line
    <3> QED  BY <1>4, <2>1, <3>1 DEF ParserKnows
  <2> QED  BY <1>1, <2>1, <2>2, <2>3 DEF ParserKnows, Begun
<1>11. Control'
  BY <1>1 DEF Control, Begun, WriteLine, remoteVars, localVars
<1> QED  BY <1>5, <1>9, <1>10, <1>11

LEMMA RotateBase == ASSUME NEW f \in File PROVE Base /\ RotateTo(f) => Base'
<1> SUFFICES ASSUME Base, RotateTo(f) PROVE Base'  OBVIOUS
<1> USE DEF Base
<1>1. /\ Exists' = Exists \cup {f} /\ content' \in [File -> Seq(Line) \cup {None}]
      /\ \A g \in Exists \ {f} : content'[g] = content[g]
      /\ IF f \notin Exists \/ truncate THEN content'[f] = <<>> ELSE content'[f] = content[f]
  BY RotateIs
<1>2. Exists \subseteq File  BY DEF Exists
<1>3. /\ active' = f /\ f # active /\ lines' = lines
      /\ now' \in Nat /\ now <= now' /\ modified' \in [File -> Nat] /\ tied' \in BOOLEAN
      /\ \A g \in File : modified'[g] = IF g = f THEN now' ELSE modified[g]
  <2>1. Modify(f) /\ active' = f /\ f # active /\ lines' = lines  BY DEF RotateTo
  <2> QED  BY <2>1, ModifyIs
<1>4. TypeOK'
  <2>1. rotations' \in 0..MaxRotations  BY LogParserAssumption DEF TypeOK, RotateTo
  <2>2. reused' \in BOOLEAN  BY DEF RotateTo
  <2>3. active' \in Exists'  BY <1>1 DEF RotateTo
  <2> QED  BY <1>1, <1>3, <2>1, <2>2, <2>3 DEF TypeOK, RotateTo, countVars, remoteVars, localVars
<1>5. \A g \in Exists' : \A i \in DOMAIN content'[g] :
        g \in Exists /\ i \in DOMAIN content[g] /\ content'[g][i] = content[g][i]
  <2> SUFFICES ASSUME NEW g \in Exists', NEW i \in DOMAIN content'[g]
               PROVE  g \in Exists /\ i \in DOMAIN content[g] /\ content'[g][i] = content[g][i]
    OBVIOUS
  <2>1. DOMAIN <<>> = {}  OBVIOUS
  <2>2. content'[g] # <<>>  BY <2>1
  <2>3. CASE g = f  BY <1>1, <2>2, <2>3
  <2>4. CASE g # f  BY <1>1, <2>4
  <2> QED  BY <2>3, <2>4
<1>6. ServerWrites'
  <2>1. modified'[active'] = now' /\ \A g \in File : modified'[g] <= now'
    <3>1. modified \in [File -> Nat] /\ now \in Nat  BY DEF TypeOK
    <3> QED  BY <1>3, <3>1 DEF ServerWrites
  <2> QED  BY <1>3, <1>5, <2>1 DEF ServerWrites
<1>7. ParserKnows'
  <2>1. UNCHANGED <<origin, fileOffsets, counted, chunk>>  BY DEF RotateTo, countVars, remoteVars
  <2> QED  BY <1>1, <1>3, <1>5, <2>1 DEF ParserKnows, Begun
<1>8. Control'
  BY <1>1 DEF Control, Begun, RotateTo, remoteVars, localVars
<1> QED  BY <1>4, <1>6, <1>7, <1>8

\* A step of the parser leaves the server alone.
LEMMA ServerKept ==
  ASSUME UNCHANGED serverVars
  PROVE  Exists' = Exists /\ now' = now /\ tied' = tied /\ (ServerWrites => ServerWrites')
<1>1. Exists' = Exists /\ now' = now /\ tied' = tied  BY DEF serverVars, Exists
<1>2. content' = content /\ modified' = modified /\ active' = active /\ lines' = lines  BY DEF serverVars
<1> QED  BY <1>1, <1>2 DEF ServerWrites

LEMMA OpenedIs ==
  ASSUME TypeOK, NEW f \in File, NEW line \in Nat, Opened(f, line)
  PROVE  /\ origin' \in [File -> Nat \cup {None}]
         /\ \A g \in File : origin'[g] = IF g = f /\ origin[f] = None THEN line ELSE origin[g]
         /\ \A g \in File : origin'[g] # None <=> origin[g] # None \/ g = f
<1>1. origin \in [File -> Nat \cup {None}] /\ line # None  BY LogParserAssumption DEF TypeOK
<1>2. origin' = [origin EXCEPT ![f] = IF origin[f] = None THEN line ELSE origin[f]]  BY DEF Opened
<1> QED  BY <1>1, <1>2

LEMMA FindLatestBase == Base /\ FindLatest => Base'
<1> SUFFICES ASSUME Base, FindLatest PROVE Base'  OBVIOUS
<1> USE DEF Base
<1>1. latest' \in Exists /\ latest' \in File  BY LatestIs DEF FindLatest
<1>2. UNCHANGED serverVars  BY DEF FindLatest
<1>3. Exists' = Exists /\ ServerWrites'  BY <1>2, ServerKept
<1>4. TypeOK'  BY <1>1, <1>2, <1>3 DEF TypeOK, FindLatest, serverVars, countVars, remoteVars, localVars
<1>5. ParserKnows'  BY <1>2, <1>3 DEF ParserKnows, Begun, FindLatest, serverVars, countVars, remoteVars
<1>6. Control'  BY <1>1, <1>3 DEF Control, Begun, FindLatest, remoteVars, localVars
<1> QED  BY <1>3, <1>4, <1>5, <1>6

\* A step that changes nothing but where the parser is.
LEMMA MoveBase ==
  ASSUME Base, UNCHANGED <<serverVars, countVars, remoteVars, localVars, local, latest, firstRun, fileOffsets, origin>>,
         faults' \in 0..MaxFaults,
         pc' \in {"start", "open", "read", "wait", "fetch", "lines", "next"}, Control'
  PROVE  Base'
<1> USE DEF Base
<1>1. Exists' = Exists /\ ServerWrites'  BY ServerKept
<1>2. TypeOK'  BY <1>1 DEF TypeOK, serverVars, countVars, remoteVars, localVars
<1>3. ParserKnows'  BY <1>1 DEF ParserKnows, Begun, serverVars, countVars, remoteVars
<1> QED  BY <1>1, <1>2, <1>3

LEMMA MovesBase == Base /\ (OpenFails \/ ReadFails \/ ReachEnd \/ NothingToFetch) => Base'
<1> USE DEF Base
<1>1. ASSUME Base, OpenFails PROVE Base'
  <2>1. faults' \in 0..MaxFaults  BY <1>1, LogParserAssumption DEF OpenFails, Fault, TypeOK
  <2>2. Exists' = Exists  BY <1>1, ServerKept DEF OpenFails
  <2>3. Control'  BY <1>1, <2>2 DEF OpenFails, Control, Begun, remoteVars, localVars
  <2> QED  BY <1>1, <2>1, <2>3, MoveBase DEF OpenFails
<1>2. ASSUME Base, ReadFails PROVE Base'
  <2>1. faults' \in 0..MaxFaults  BY <1>2, LogParserAssumption DEF ReadFails, Fault, TypeOK
  <2>2. Exists' = Exists  BY <1>2, ServerKept DEF ReadFails
  <2>3. Control'  BY <1>2, <2>2 DEF ReadFails, Control, Begun, remoteVars, localVars
  <2> QED  BY <1>2, <2>1, <2>3, MoveBase DEF ReadFails
<1>3. ASSUME Base, ReachEnd PROVE Base'
  <2>1. faults' \in 0..MaxFaults  BY <1>3 DEF ReachEnd, TypeOK
  <2>2. Exists' = Exists  BY <1>3, ServerKept DEF ReachEnd
  <2>3. Control'  BY <1>3, <2>2 DEF ReachEnd, Control, Begun, remoteVars, localVars
  <2> QED  BY <1>3, <2>1, <2>3, MoveBase DEF ReachEnd
<1>4. ASSUME Base, NothingToFetch PROVE Base'
  <2>1. faults' \in 0..MaxFaults  BY <1>4 DEF NothingToFetch, TypeOK
  <2>2. Exists' = Exists  BY <1>4, ServerKept DEF NothingToFetch
  <2>3. Control'  BY <1>4, <2>2 DEF NothingToFetch, Control, Begun, remoteVars, localVars
  <2> QED  BY <1>4, <2>1, <2>3, MoveBase DEF NothingToFetch
<1> QED  BY <1>1, <1>2, <1>3, <1>4

LEMMA OpenBase == Base /\ OpenFile => Base'
<1> SUFFICES ASSUME Base, OpenFile PROVE Base'  OBVIOUS
<1> USE DEF Base
<1>1. pc = "open" /\ pc' = "read" /\ latest \in Exists /\ latest \in File /\ local
  BY DEF OpenFile, Control, Exists
<1>2. Len(content[latest]) \in Nat  BY <1>1, ContentIs
<1>3. UNCHANGED <<serverVars, countVars, remoteVars, local, latest, fileOffsets, faults>>  BY DEF OpenFile
<1>4. Exists' = Exists /\ ServerWrites'  BY <1>3, ServerKept
<1>5. fileOffsets[latest] # None => fileOffsets[latest] \in Nat /\ ~firstRun
  BY <1>1 DEF TypeOK, ParserKnows, Control
<1>6. position' \in Nat /\ linesRead' \in Nat /\ firstRun' = FALSE
  <2>1. linesRead \in Nat /\ firstRun \in BOOLEAN  BY DEF TypeOK
  <2>2. CASE fileOffsets[latest] # None /\ fileOffsets[latest] > 0
    <3>1. /\ position' = Min({fileOffsets[latest], Len(content[latest])})
          /\ linesRead' = IF Len(content[latest]) + 1 < fileOffsets[latest] THEN 0 ELSE fileOffsets[latest]
          /\ firstRun' = firstRun
      BY <2>2 DEF OpenFile
    <3>2. position' \in Nat  BY <1>2, <1>5, <2>2, <3>1, MinMax
    <3> QED  BY <1>5, <2>1, <2>2, <3>1, <3>2
  <2>3. CASE ~(fileOffsets[latest] # None /\ fileOffsets[latest] > 0)
    <3>1. /\ position' = IF firstRun THEN Len(content[latest]) ELSE 0
          /\ linesRead' = IF fileOffsets[latest] # None THEN 0 ELSE linesRead
          /\ firstRun' = FALSE
      BY <2>3 DEF OpenFile
    <3> QED  BY <1>2, <2>1, <3>1
  <2> QED  BY <2>2, <2>3
<1>7. Opened(latest, position')  BY DEF OpenFile
<1>8. origin' \in [File -> Nat \cup {None}] /\ \A g \in File : origin'[g] # None <=> origin[g] # None \/ g = latest
  BY <1>1, <1>6, <1>7, OpenedIs
<1>9. TypeOK'  BY <1>1, <1>3, <1>4, <1>6, <1>8 DEF TypeOK, serverVars, countVars, remoteVars
<1>10. ParserKnows'  BY <1>1, <1>3, <1>4, <1>8 DEF ParserKnows, Begun, serverVars, countVars, remoteVars
<1>11. Control'  BY <1>1, <1>3, <1>4, <1>6, <1>8 DEF Control, Begun, remoteVars
<1> QED  BY <1>4, <1>9, <1>10, <1>11

\* The next line of the open file.
LEMMA NextLineIs ==
  ASSUME Base, ReadLine
  PROVE  /\ latest \in Exists /\ latest \in File /\ local /\ Begun(latest)
         /\ position + 1 \in DOMAIN content[latest]
         /\ content[latest][position + 1] \in Line /\ content[latest][position + 1] <= lines
<1> USE DEF Base
<1>1. latest \in Exists /\ latest \in File /\ local /\ Begun(latest)  BY DEF ReadLine, Control, Exists
<1>2. position + 1 \in 1..Len(content[latest])
  <2>1. position \in Nat /\ Len(content[latest]) \in Nat /\ position < Len(content[latest])
    BY <1>1, ContentIs DEF ReadLine, TypeOK
  <2> QED  BY <2>1
<1>3. DOMAIN content[latest] = 1..Len(content[latest])
      /\ \A i \in 1..Len(content[latest]) : content[latest][i] \in Line
  BY <1>1, ContentIs
<1> QED  BY <1>1, <1>2, <1>3 DEF ServerWrites

\* Counting a line that was written.
LEMMA CountKnown ==
  ASSUME Base, NEW l \in Line, l <= lines, Count(l)
  PROVE  \A k \in Line : k > lines => counted'[k] = 0
<1>1. \A k \in Line : counted'[k] = IF k = l THEN counted[l] + 1 ELSE counted[k]  BY CountIs DEF Base
<1>2. lines \in Nat /\ l \in Nat  BY DEF Base, TypeOK, Line
<1>3. \A k \in Line : k > lines => k # l  BY <1>2 DEF Line
<1> QED  BY <1>1, <1>3 DEF Base, ParserKnows

LEMMA ReadBase == Base /\ ReadLine => Base'
<1> SUFFICES ASSUME Base, ReadLine PROVE Base'  OBVIOUS
<1> USE DEF Base
<1> DEFINE l == content[latest][position + 1]
<1>1. l \in Line /\ l <= lines /\ latest \in File /\ local  BY NextLineIs
<1>2. Count(l)  BY DEF ReadLine
<1>3. UNCHANGED <<serverVars, remoteVars, local, pc, latest, firstRun, fileOffsets, faults, origin>>
  BY DEF ReadLine
<1>4. Exists' = Exists /\ ServerWrites'  BY <1>3, ServerKept
<1> HIDE DEF l
<1>5. /\ CountsTyped'
      /\ counted' \in [Line -> Nat]
  BY <1>1, <1>2, CountIs
<1>6. \A k \in Line : k > lines => counted'[k] = 0  BY <1>1, <1>2, CountKnown
<1>7. TypeOK'
  <2>1. position' \in Nat /\ linesRead' \in Nat  BY DEF ReadLine, TypeOK
  <2> QED  BY <1>3, <1>4, <1>5, <2>1 DEF TypeOK, CountsTyped, serverVars, remoteVars
<1>8. ParserKnows'  BY <1>3, <1>4, <1>6 DEF ParserKnows, Begun, serverVars, remoteVars
<1>9. Control'  BY <1>3, <1>4 DEF Control, Begun, remoteVars, ReadLine
<1> QED  BY <1>4, <1>7, <1>8, <1>9

LEMMA LookBase == Base /\ LookForNewFile => Base'
<1> SUFFICES ASSUME Base, LookForNewFile PROVE Base'  OBVIOUS
<1> USE DEF Base
<1>1. pc = "wait" /\ latest \in Exists /\ latest \in File /\ local /\ Begun(latest) /\ ~firstRun
  BY DEF LookForNewFile, Control, Exists
<1>2. modified[latest] \in Nat /\ linesRead \in Nat  BY <1>1 DEF TypeOK
<1>3. UNCHANGED <<serverVars, remoteVars, local, position, firstRun, faults, origin>>  BY DEF LookForNewFile
<1>4. Exists' = Exists /\ ServerWrites'  BY <1>3, ServerKept
<1>5. ASSUME NEW file \in NextFiles(modified[latest]), Remember(linesRead), latest' = file, linesRead' = 0,
             pc' = "open", UNCHANGED countVars
      PROVE  Base'
  <2>1. Remember(linesRead) /\ latest' = file /\ linesRead' = 0 /\ pc' = "open" /\ UNCHANGED countVars
    BY <1>5
  <2>2. file \in Exists  BY NextIs
  <2>3. file \in File  BY NextIs
  <2>4. /\ fileOffsets' \in [File -> Nat \cup {None}]
        /\ Cardinality({f \in File : fileOffsets'[f] # None}) <= maxTrackedFiles
        /\ \A f \in File \ {latest} : fileOffsets'[f] \in {fileOffsets[f], None}
    BY <1>1, <1>2, <2>1, RememberIs
  <2>5. TypeOK'  BY <1>3, <1>4, <2>1, <2>3, <2>4 DEF TypeOK, serverVars, remoteVars, countVars
  <2>6. ParserKnows'
    BY <1>1, <1>3, <1>4, <2>1, <2>4 DEF ParserKnows, Begun, serverVars, remoteVars, countVars
  <2>7. Control'  BY <1>1, <1>3, <1>4, <2>1, <2>2 DEF Control, Begun, remoteVars
  <2> QED  BY <1>4, <2>5, <2>6, <2>7
<1>6. ASSUME pc' = "read", CountNothing, UNCHANGED <<fileOffsets, latest, linesRead>>
      PROVE  Base'
  <2>1. pc' = "read" /\ CountNothing /\ UNCHANGED <<fileOffsets, latest, linesRead>>  BY <1>6
  <2>2. /\ CountsTyped'
        /\ counted' = counted
    BY <2>1, CountNothingIs
  <2>3. TypeOK'  BY <1>3, <1>4, <2>1, <2>2 DEF TypeOK, CountsTyped, serverVars, remoteVars
  <2>4. ParserKnows'  BY <1>3, <1>4, <2>1, <2>2 DEF ParserKnows, Begun, serverVars, remoteVars
  <2>5. Control'  BY <1>1, <1>3, <1>4, <2>1 DEF Control, Begun, remoteVars
  <2> QED  BY <1>4, <2>3, <2>4, <2>5
<1> QED  BY <1>5, <1>6 DEF LookForNewFile

LEMMA FindLatestRemoteBase == Base /\ FindLatestRemote => Base'
<1> SUFFICES ASSUME Base, FindLatestRemote PROVE Base'  OBVIOUS
<1> USE DEF Base
<1>1. PICK file \in LatestFiles : latest' = file  BY DEF FindLatestRemote
<1>2. UNCHANGED <<serverVars, countVars, chunk, cut, localVars, local, fileOffsets, faults>>
  BY DEF FindLatestRemote
<1>0. file \in Exists /\ file \in File  BY LatestIs
<1>3. Exists' = Exists /\ ServerWrites'  BY <1>2, ServerKept
<1>4. Bytes(file) \in Nat /\ Len(content[file]) \in Nat  BY <1>0, ContentIs
<1>5. size' = Bytes(file) /\ offset' = Bytes(file) /\ modification' = modified[file]
      /\ Opened(file, Len(content[file]))
  BY <1>1 DEF FindLatestRemote
<1>6. origin' \in [File -> Nat \cup {None}] /\ \A g \in File : origin'[g] # None <=> origin[g] # None \/ g = file
  BY <1>0, <1>4, <1>5, OpenedIs
<1>7. pc = "start" /\ ~local /\ firstRun' = FALSE /\ pc' = "fetch"  BY DEF FindLatestRemote
<1>8. TypeOK'
  <2>1. modification' \in Nat /\ size' \in Nat /\ offset' \in Nat  BY <1>0, <1>4, <1>5 DEF TypeOK
  <2> QED  BY <1>0, <1>1, <1>2, <1>3, <1>6, <1>7, <2>1 DEF TypeOK, serverVars, countVars, localVars
<1>9. ParserKnows'  BY <1>0, <1>1, <1>2, <1>3, <1>6 DEF ParserKnows, Begun, serverVars, countVars
<1>10. Control'  BY <1>0, <1>1, <1>2, <1>3, <1>6, <1>7 DEF Control, Begun, localVars
<1> QED  BY <1>3, <1>8, <1>9, <1>10

LEMMA FetchBase == Base /\ FetchChunk => Base'
<1> SUFFICES ASSUME Base, FetchChunk PROVE Base'  OBVIOUS
<1> USE DEF Base
<1>1. pc = "fetch" /\ pc' = "lines" /\ latest \in Exists /\ ~local /\ Begun(latest) /\ ~firstRun
  BY DEF FetchChunk, Control
<1>2. UNCHANGED <<serverVars, countVars, size, modification, localVars, local, latest, firstRun,
                  fileOffsets, faults, origin>>
  BY DEF FetchChunk
<1>3. Exists' = Exists /\ ServerWrites'  BY <1>2, ServerKept
<1>4. /\ chunk' \in Seq(Line \X BOOLEAN) /\ offset' \in Nat /\ cut' \in SUBSET Line
      /\ \A j \in DOMAIN chunk' : \E i \in DOMAIN content[latest] : chunk'[j][1] = content[latest][i]
  BY <1>1, ChunkIs
<1>5. TypeOK'  BY <1>1, <1>2, <1>3, <1>4 DEF TypeOK, serverVars, countVars, localVars
<1>6. ParserKnows'
  <2>1. \A j \in DOMAIN chunk' : chunk'[j][1] <= lines  BY <1>1, <1>4 DEF ServerWrites
  <2> QED  BY <1>2, <1>3, <2>1 DEF ParserKnows, Begun, serverVars, countVars
<1>7. Control'  BY <1>1, <1>2, <1>3 DEF Control, Begun, localVars
<1> QED  BY <1>3, <1>5, <1>6, <1>7

LEMMA FetchFailsBase == Base /\ FetchFails => Base'
<1> SUFFICES ASSUME Base, FetchFails PROVE Base'  OBVIOUS
<1> USE DEF Base
<1>1. pc = "fetch" /\ latest \in Exists  BY DEF FetchFails, Control
<1>2. UNCHANGED <<serverVars, countVars, size, modification, chunk, cut, localVars, local, pc, latest,
                  firstRun, fileOffsets, origin>>
  BY DEF FetchFails
<1>3. Exists' = Exists /\ ServerWrites'  BY <1>2, ServerKept
<1>4. offset' \in Nat
  <2>1. SizeToRead \in Nat  BY <1>1, ChunkNumbers
  <2> QED  BY <2>1 DEF FetchFails, TypeOK
<1>5. faults' \in 0..MaxFaults  BY LogParserAssumption DEF FetchFails, Fault, TypeOK
<1>6. TypeOK'  BY <1>2, <1>3, <1>4, <1>5 DEF TypeOK, serverVars, countVars, localVars
<1>7. ParserKnows'  BY <1>2, <1>3 DEF ParserKnows, Begun, serverVars, countVars
<1>8. Control'  BY <1>2, <1>3 DEF Control, Begun, localVars
<1> QED  BY <1>3, <1>6, <1>7, <1>8

\* The first line of the chunk, and what is left of it.
LEMMA HeadIs ==
  ASSUME Base, ParseLine
  PROVE  /\ chunk # <<>> /\ Len(chunk) \in Nat /\ Len(chunk) > 0 /\ DOMAIN chunk = 1..Len(chunk)
         /\ Head(chunk) = chunk[1] /\ chunk[1][1] \in Line /\ chunk[1][1] <= lines
         /\ chunk' \in Seq(Line \X BOOLEAN) /\ Len(chunk') = Len(chunk) - 1
         /\ DOMAIN chunk' = 1..(Len(chunk) - 1)
         /\ \A j \in 1..(Len(chunk) - 1) : chunk'[j] = chunk[j + 1]
<1>1. chunk \in Seq(Line \X BOOLEAN) /\ chunk # <<>> /\ chunk' = Tail(chunk)
  BY DEF Base, TypeOK, ParseLine
<1>2. Len(chunk) \in Nat /\ Len(chunk) > 0 /\ DOMAIN chunk = 1..Len(chunk) /\ Head(chunk) = chunk[1]
  BY <1>1
<1>3. chunk[1] \in Line \X BOOLEAN /\ 1 \in DOMAIN chunk  BY <1>1, <1>2
<1>4. chunk[1][1] \in Line /\ chunk[1][1] <= lines  BY <1>3 DEF Base, ParserKnows
<1>5. Tail(chunk) \in Seq(Line \X BOOLEAN) /\ Len(Tail(chunk)) = Len(chunk) - 1  BY <1>1
<1>6. \A j \in 1..(Len(chunk) - 1) : Tail(chunk)[j] = chunk[j + 1]  BY <1>1
<1>7. DOMAIN Tail(chunk) = 1..(Len(chunk) - 1)  BY <1>5
<1> QED  BY <1>1, <1>2, <1>4, <1>5, <1>6, <1>7

LEMMA ParseBase == Base /\ ParseLine => Base'
<1> SUFFICES ASSUME Base, ParseLine PROVE Base'  OBVIOUS
<1> USE DEF Base
<1>1. /\ chunk # <<>> /\ Len(chunk) \in Nat /\ DOMAIN chunk = 1..Len(chunk)
      /\ Head(chunk) = chunk[1] /\ chunk[1][1] \in Line /\ chunk[1][1] <= lines
      /\ chunk' \in Seq(Line \X BOOLEAN) /\ DOMAIN chunk' = 1..(Len(chunk) - 1)
      /\ \A j \in 1..(Len(chunk) - 1) : chunk'[j] = chunk[j + 1]
  BY HeadIs
<1>2. UNCHANGED <<serverVars, offset, size, modification, cut, localVars, local, pc, latest, firstRun,
                  fileOffsets, faults, origin>>
  BY DEF ParseLine
<1>3. Exists' = Exists /\ ServerWrites'  BY <1>2, ServerKept
<1>4. /\ CountsTyped'
      /\ counted' \in [Line -> Nat] /\ \A k \in Line : k > lines => counted'[k] = 0
  <2>1. Count(chunk[1][1]) \/ CountNothing  BY <1>1 DEF ParseLine
  <2>2. CASE Count(chunk[1][1])  BY <1>1, <2>2, CountIs, CountKnown
  <2>3. CASE CountNothing  BY <2>3, CountNothingIs DEF TypeOK, ParserKnows
  <2> QED  BY <2>1, <2>2, <2>3
<1>5. TypeOK'  BY <1>1, <1>2, <1>3, <1>4 DEF TypeOK, CountsTyped, serverVars, localVars
<1>6. ParserKnows'
  <2>1. \A j \in DOMAIN chunk' : chunk'[j][1] <= lines
    <3>1. \A j \in 1..(Len(chunk) - 1) : j + 1 \in DOMAIN chunk  BY <1>1
    <3> QED  BY <1>1, <3>1 DEF ParserKnows
  <2> QED  BY <1>2, <1>3, <1>4, <2>1 DEF ParserKnows, Begun, serverVars
<1>7. Control'  BY <1>1, <1>2, <1>3 DEF Control, Begun, localVars, ParseLine
<1> QED  BY <1>3, <1>5, <1>6, <1>7

LEMMA StatBase == Base /\ StatFile => Base'
<1> SUFFICES ASSUME Base, StatFile PROVE Base'  OBVIOUS
<1> USE DEF Base
<1>1. pc = "lines" /\ chunk = <<>> /\ latest \in Exists /\ latest \in File /\ ~local
  BY DEF StatFile, Control, Exists
<1>2. UNCHANGED <<serverVars, countVars, offset, chunk, cut, localVars, local, latest, firstRun,
                  fileOffsets, origin>>
  BY DEF StatFile
<1>3. Exists' = Exists /\ ServerWrites'  BY <1>2, ServerKept
<1>4. Bytes(latest) \in Nat /\ modified[latest] \in Nat  BY <1>1, ContentIs DEF TypeOK
<1>5. /\ size' \in Nat /\ modification' \in Nat /\ faults' \in 0..MaxFaults /\ pc' \in {"fetch", "next"}
  BY <1>4, LogParserAssumption DEF StatFile, Fault, TypeOK
<1>6. TypeOK'  BY <1>2, <1>3, <1>5 DEF TypeOK, serverVars, countVars, localVars
<1>7. ParserKnows'  BY <1>2, <1>3 DEF ParserKnows, Begun, serverVars, countVars
<1>8. Control'  BY <1>1, <1>2, <1>3, <1>5 DEF Control, Begun, localVars
<1> QED  BY <1>3, <1>6, <1>7, <1>8

\* The next file of the remote parser, or the same one again.
LEMMA NextRemoteBase == Base /\ NextRemoteFile => Base'
<1> SUFFICES ASSUME Base, NextRemoteFile PROVE Base'  OBVIOUS
<1> USE DEF Base
<1>1. pc = "next" /\ latest \in Exists /\ latest \in File /\ ~local /\ Begun(latest) /\ ~firstRun /\ chunk = <<>>
  BY DEF NextRemoteFile, Control, Exists
<1>2. modification \in Nat /\ size \in Nat  BY DEF TypeOK
<1>3. UNCHANGED <<serverVars, modification, chunk, cut, localVars, local, firstRun>>  BY DEF NextRemoteFile
<1>4. Exists' = Exists /\ ServerWrites'  BY <1>3, ServerKept
<1>5. ASSUME NEW file \in NextFiles(modification) \ {latest},
             Remember(size), latest' = file, size' = Bytes(file),
             offset' = IF ~truncate /\ fileOffsets'[file] # None THEN fileOffsets'[file] ELSE 0,
             pc' = "fetch", Opened(file, offset' \div LineSize), UNCHANGED <<faults, countVars>>
      PROVE  Base'
  <2>1. file \in Exists  BY NextIs
  <2>2. file \in File /\ Bytes(file) \in Nat  BY <2>1, ContentIs
  <2>3. /\ fileOffsets' \in [File -> Nat \cup {None}]
        /\ Cardinality({f \in File : fileOffsets'[f] # None}) <= maxTrackedFiles
        /\ \A f \in File \ {latest} : fileOffsets'[f] \in {fileOffsets[f], None}
    BY <1>1, <1>2, <1>5, RememberIs
  <2>4. offset' \in Nat  BY <1>5, <2>2, <2>3
  <2>5. offset' \div LineSize \in Nat  BY <2>4, DivIs
  <2>6. /\ origin' \in [File -> Nat \cup {None}]
        /\ \A g \in File : origin'[g] # None <=> origin[g] # None \/ g = file
    BY <1>5, <2>2, <2>5, OpenedIs
  <2>7. TypeOK'
    BY <1>3, <1>4, <1>5, <2>2, <2>3, <2>4, <2>6 DEF TypeOK, serverVars, localVars, countVars
  <2>8. ParserKnows'
    BY <1>1, <1>3, <1>4, <1>5, <2>1, <2>3, <2>6 DEF ParserKnows, Begun, serverVars, countVars
  <2>9. Control'  BY <1>1, <1>3, <1>4, <1>5, <2>1, <2>2, <2>6 DEF Control, Begun, localVars
  <2> QED  BY <1>4, <2>7, <2>8, <2>9
<1>6. ASSUME UNCHANGED faults \/ Fault,
             pc' = "lines", CountNothing, UNCHANGED <<fileOffsets, latest, size, offset, origin>>
      PROVE  Base'
  <2>1. /\ CountsTyped'
        /\ counted' = counted
    BY <1>6, CountNothingIs
  <2>2. faults' \in 0..MaxFaults  BY <1>6, LogParserAssumption DEF Fault, TypeOK
  <2>3. TypeOK'  BY <1>3, <1>4, <1>6, <2>1, <2>2 DEF TypeOK, CountsTyped, serverVars, localVars
  <2>4. ParserKnows'  BY <1>3, <1>4, <1>6, <2>1 DEF ParserKnows, Begun, serverVars
  <2>5. Control'  BY <1>1, <1>3, <1>4, <1>6 DEF Control, Begun, localVars
  <2> QED  BY <1>4, <2>3, <2>4, <2>5
<1> QED  BY <1>5, <1>6 DEF NextRemoteFile

LEMMA StutterBase == Base /\ UNCHANGED vars => Base'
<1> SUFFICES ASSUME Base, UNCHANGED vars PROVE Base'  OBVIOUS
<1> USE DEF Base
<1>0. UNCHANGED serverVars  BY DEF vars
<1>1. Exists' = Exists /\ ServerWrites'  BY <1>0, ServerKept
<1> QED
  BY <1>1 DEF TypeOK, ParserKnows, Control, Begun, vars, serverVars, countVars, remoteVars, localVars

LEMMA StepBase == Base /\ [Next]_vars => Base'
BY WriteBase, RotateBase, FindLatestBase, MovesBase, OpenBase, ReadBase, LookBase, FindLatestRemoteBase,
   FetchBase, FetchFailsBase, ParseBase, StatBase, NextRemoteBase, StutterBase
   DEF Next, Parse

\* The types, for every number of files and lines: the parser keeps the offsets
\* of at most maxTrackedFiles files, chunks and offsets stay in range although
\* files are truncated and reads fail, and the file it reads exists.
THEOREM TypeCorrect == Spec => []TypeOK
<1>1. Spec => []Base  BY InitBase, StepBase, PTL DEF Spec
<1> QED  BY <1>1, PTL DEF Base

-----------------------------------------------------------------------------
(* Nothing counted is lost.                                                *)

Of(s) == {l \in Line : SeverityOf[l] = s}
OwnOf(s) == {l \in Of(s) : Own(l)}

\* The counts of the database and those of all, of one severity.
Conserved(s) ==
  /\ Accounted(stored[1], eventCounts, s) = Total(counted, OwnOf(s))
  /\ Accounted(stored[2], eventCountsTotal, s) = Total(counted, Of(s))

AllConserved == \A s \in Severity : Conserved(s)

LEMMA CountsConservedIs == AllConserved => CountsConserved
BY DEF AllConserved, CountsConserved, Conserved, Of, OwnOf, Total, MapThenSumSet, MapThenFoldSet

LEMMA InitCounts == Init => AllConserved
<1> SUFFICES ASSUME Init, NEW s \in Severity PROVE Conserved(s)  BY DEF AllConserved
<1>1. counted \in [Line -> Nat] /\ \A l \in Line : counted[l] = 0  BY DEF Init
<1>2. OwnOf(s) \in SUBSET Line /\ Of(s) \in SUBSET Line  BY DEF OwnOf, Of
<1>3. Total(counted, OwnOf(s)) = 0 /\ Total(counted, Of(s)) = 0  BY <1>1, <1>2, TotalOfZeros
<1>4. Accounted(stored[1], eventCounts, s) = 0 /\ Accounted(stored[2], eventCountsTotal, s) = 0
  BY DEF Init, Accounted
<1> QED  BY <1>3, <1>4 DEF Conserved

\* A step counts one line, or none.
LEMMA StepCounts == Base /\ AllConserved /\ [Next]_vars => AllConserved'
<1> SUFFICES ASSUME Base, AllConserved, [Next]_vars PROVE AllConserved'  OBVIOUS
<1> USE DEF Base
<1>0. \A s \in Severity : Conserved(s)  BY DEF AllConserved
<1>1. CASE UNCHANGED countVars
  <2>1. UNCHANGED <<stored, counted, eventCounts, eventCountsTotal>>  BY <1>1 DEF countVars
  <2>2. \A s \in Severity : Conserved(s)'  BY <1>0, <2>1 DEF Conserved
  <2> QED  BY <2>2 DEF AllConserved
<1>2. CASE CountNothing
  <2>1. eventCounts \in [Severity -> Nat] /\ eventCountsTotal \in [Severity -> Nat]  BY DEF TypeOK
  <2>2. /\ counted' = counted
        /\ \A s \in Severity :
             /\ Accounted(stored'[1], eventCounts', s) = Accounted(stored[1], eventCounts, s)
             /\ Accounted(stored'[2], eventCountsTotal', s) = Accounted(stored[2], eventCountsTotal, s)
    BY <1>2, <2>1, SendIs DEF CountNothing
  <2>3. \A s \in Severity : Conserved(s)'  BY <1>0, <2>2 DEF Conserved
  <2> QED  BY <2>3 DEF AllConserved
<1>3. ASSUME NEW l \in Line, Count(l) PROVE AllConserved'
  <2> SUFFICES ASSUME NEW s \in Severity PROVE Conserved(s)'  BY DEF AllConserved
  <2>1. /\ eventCounts \in [Severity -> Nat] /\ eventCountsTotal \in [Severity -> Nat]
        /\ stored[1] \in [pgSeverities -> Nat] /\ stored[2] \in [pgSeverities -> Nat]
        /\ counted \in [Line -> Nat] /\ SeverityOf[l] \in Severity
    BY LogParserAssumption DEF TypeOK
  <2>2. counted' = More(counted, l, 1)  BY <1>3 DEF Count, More
  <2>3. /\ Accounted(stored'[1], eventCounts', s) = Accounted(stored[1], OwnPlus1(l), s)
        /\ Accounted(stored'[2], eventCountsTotal', s) = Accounted(stored[2], AllPlus1(l), s)
    BY <1>3, CountAdds, SendIs
  <2>4. OwnOf(s) \in SUBSET Line /\ Of(s) \in SUBSET Line  BY DEF OwnOf, Of
  <2>5. /\ Total(counted', OwnOf(s)) = IF l \in OwnOf(s) THEN Total(counted, OwnOf(s)) + 1 ELSE Total(counted, OwnOf(s))
        /\ Total(counted', Of(s)) = IF l \in Of(s) THEN Total(counted, Of(s)) + 1 ELSE Total(counted, Of(s))
    BY <2>1, <2>2, <2>4, TotalAdds
  <2>6. ASSUME NEW c \in [Severity -> Nat], NEW t \in [pgSeverities -> Nat]
        PROVE  Accounted(t, Plus1(c, SeverityOf[l]), s) =
                 IF s = SeverityOf[l] THEN Accounted(t, c, s) + 1 ELSE Accounted(t, c, s)
    BY <2>1 DEF Accounted, Plus1
  <2>7. Accounted(stored[2], AllPlus1(l), s) =
          IF s = SeverityOf[l] THEN Accounted(stored[2], eventCountsTotal, s) + 1
          ELSE Accounted(stored[2], eventCountsTotal, s)
    BY <2>1, <2>6 DEF AllPlus1
  <2>8. Accounted(stored[1], OwnPlus1(l), s) =
          IF s = SeverityOf[l] /\ Own(l) THEN Accounted(stored[1], eventCounts, s) + 1
          ELSE Accounted(stored[1], eventCounts, s)
    BY <2>1, <2>6 DEF OwnPlus1
  <2>9. (l \in Of(s) <=> s = SeverityOf[l]) /\ (l \in OwnOf(s) <=> s = SeverityOf[l] /\ Own(l))
    BY DEF Of, OwnOf
  <2>10. Conserved(s)  BY <1>0
  <2> QED  BY <2>3, <2>5, <2>7, <2>8, <2>9, <2>10 DEF Conserved
<1>4. CASE ReadLine
  <2>1. Count(content[latest][position + 1]) /\ content[latest][position + 1] \in Line
    BY <1>4, NextLineIs DEF ReadLine
  <2> QED  BY <1>3, <2>1
<1>5. CASE ParseLine
  <2>1. chunk[1][1] \in Line /\ (Count(chunk[1][1]) \/ CountNothing)
    BY <1>5, HeadIs DEF ParseLine
  <2> QED  BY <1>2, <1>3, <2>1
<1>6. CASE LookForNewFile  BY <1>1, <1>2, <1>6 DEF LookForNewFile
<1>7. CASE NextRemoteFile  BY <1>1, <1>2, <1>7 DEF NextRemoteFile
<1>8. CASE WriteLine \/ \E f \in File : RotateTo(f)  BY <1>1, <1>8 DEF WriteLine, RotateTo
<1>9. CASE FindLatest \/ OpenFile \/ ReachEnd \/ OpenFails \/ ReadFails
  BY <1>1, <1>9 DEF FindLatest, OpenFile, ReachEnd, OpenFails, ReadFails
<1>10. CASE FindLatestRemote \/ FetchChunk \/ NothingToFetch \/ StatFile \/ FetchFails
  BY <1>1, <1>10 DEF FindLatestRemote, FetchChunk, NothingToFetch, StatFile, FetchFails
<1>11. CASE UNCHANGED vars  BY <1>1, <1>11 DEF vars
<1> QED  BY <1>4, <1>5, <1>6, <1>7, <1>8, <1>9, <1>10, <1>11 DEF Next, Parse

\* What is counted is sent once: whenever the intervals elapse, wherever lines
\* are cut and whichever reads fail, what was sent of a severity and what is at
\* hand of it is what was parsed of it; of a word that is none of pgSeverities,
\* all of it is at hand.
THEOREM NothingCountedIsLost == Spec => []CountsConserved
<1>1. Init => Base /\ AllConserved  BY InitBase, InitCounts
<1>2. Base /\ AllConserved /\ [Next]_vars => Base' /\ AllConserved'  BY StepBase, StepCounts
<1>3. AllConserved => CountsConserved  BY CountsConservedIs
<1> QED  BY <1>1, <1>2, <1>3, PTL DEF Spec

-----------------------------------------------------------------------------
(* What changes of the server and of other files leave as it is.           *)

\* Reading is not affected by more lines, by counts of other lines and by cuts.
LEMMA ReadKept ==
  ASSUME Base, Base', NEW f \in Exists, NEW q, Read(f, q), Begun(f), f \in Exists',
         origin'[f] = origin[f], cut \subseteq cut', Len(content[f]) <= Len(content'[f]),
         \A i \in DOMAIN content'[f] :
           \/ /\ i \in DOMAIN content[f] /\ content'[f][i] = content[f][i]
              /\ counted'[content[f][i]] = counted[content[f][i]]
           \/ i > Len(content[f]) /\ counted'[content'[f][i]] = 0
  PROVE  Read(f, q)'
<1>1. f \in File /\ Len(content[f]) \in Nat /\ DOMAIN content[f] = 1..Len(content[f])  BY ContentIs DEF Base
<1>2. Len(content'[f]) \in Nat /\ DOMAIN content'[f] = 1..Len(content'[f])
  <2>1. content'[f] \in Seq(Line)  BY <1>1 DEF Base, TypeOK, Exists
  <2> QED  BY <2>1
<1>3. origin[f] \in Nat  BY <1>1 DEF Base, TypeOK, Begun
<1>4. q \in Nat /\ origin[f] <= q /\ q <= Len(content[f])  BY DEF Read
<1>5. q <= Len(content'[f])  BY <1>1, <1>2, <1>4
<1>6. ASSUME NEW i \in DOMAIN content'[f], i \in DOMAIN content[f], content'[f][i] = content[f][i],
             counted'[content[f][i]] = counted[content[f][i]]
      PROVE  LET l == content'[f][i]
             IN /\ i <= origin[f] => counted'[l] = 0
                /\ origin[f] < i /\ i <= q => counted'[l] > 0 /\ (counted'[l] = 1 \/ l \in cut')
                /\ i > q => counted'[l] = 0 \/ (i = q + 1 /\ l \in cut')
  BY <1>6 DEF Read
<1>7. ASSUME NEW i \in DOMAIN content'[f], i > Len(content[f]), counted'[content'[f][i]] = 0
      PROVE  LET l == content'[f][i]
             IN /\ i <= origin[f] => counted'[l] = 0
                /\ origin[f] < i /\ i <= q => counted'[l] > 0 /\ (counted'[l] = 1 \/ l \in cut')
                /\ i > q => counted'[l] = 0 \/ (i = q + 1 /\ l \in cut')
  <2>1. i \in Nat /\ ~(i <= q)  BY <1>1, <1>2, <1>4, <1>7
  <2> QED  BY <1>7, <2>1
<1>8. \A i \in DOMAIN content'[f] :
        LET l == content'[f][i]
        IN /\ i <= origin[f] => counted'[l] = 0
           /\ origin[f] < i /\ i <= q => counted'[l] > 0 /\ (counted'[l] = 1 \/ l \in cut')
           /\ i > q => counted'[l] = 0 \/ (i = q + 1 /\ l \in cut')
  BY <1>6, <1>7
<1> QED  BY <1>4, <1>5, <1>8 DEF Read

\* The files that are there keep their lines and get new ones.
Grown ==
  /\ \A f \in Exists :
       /\ f \in Exists' /\ Len(content[f]) <= Len(content'[f])
       /\ \A i \in DOMAIN content[f] : i \in DOMAIN content'[f] /\ content'[f][i] = content[f][i]
       /\ \A i \in DOMAIN content'[f] : \/ i \in DOMAIN content[f] /\ content'[f][i] = content[f][i]
                                        \/ i > Len(content[f]) /\ counted[content'[f][i]] = 0
  /\ \A f \in Exists' \ Exists : content'[f] = <<>>

LEMMA WriteGrows == ASSUME Base, WriteLine PROVE Grown
<1> DEFINE n == Len(content[active])
<1>1. /\ Exists' = Exists /\ content' \in [File -> Seq(Line) \cup {None}]
      /\ \A f \in Exists \ {active} : content'[f] = content[f]
      /\ lines + 1 \in Line /\ Len(content'[active]) = n + 1
      /\ \A i \in 1..n : content'[active][i] = content[active][i]
      /\ content'[active][n + 1] = lines + 1
  BY WriteIs DEF Base
<1>2. active \in Exists /\ active \in File /\ n \in Nat /\ DOMAIN content[active] = 1..n
  BY ContentIs DEF Base, TypeOK
<1>3. DOMAIN content'[active] = 1..(n + 1)
  <2>1. content'[active] \in Seq(Line)  BY <1>1, <1>2 DEF Exists
  <2> QED  BY <1>1, <2>1
<1>4. counted[lines + 1] = 0
  <2>1. lines \in Nat  BY DEF Base, TypeOK
  <2> QED  BY <1>1, <2>1 DEF Base, ParserKnows
<1>5. ASSUME NEW f \in Exists, f # active
      PROVE  Len(content[f]) \in Nat /\ content'[f] = content[f]
  BY <1>1, <1>5, ContentIs DEF Base
<1> HIDE DEF n
<1>6. ASSUME NEW i \in DOMAIN content'[active]
      PROVE  \/ i \in 1..n /\ content'[active][i] = content[active][i]
             \/ i > n /\ counted[content'[active][i]] = 0
  <2>1. i \in 1..n \/ i = n + 1  BY <1>2, <1>3
  <2>2. CASE i \in 1..n  BY <1>1, <2>2
  <2>3. CASE i = n + 1  BY <1>1, <1>2, <1>4, <2>3
  <2> QED  BY <2>1, <2>2, <2>3
<1>7. ASSUME NEW i \in 1..n PROVE i \in DOMAIN content'[active] /\ content'[active][i] = content[active][i]
  BY <1>1, <1>2, <1>3
<1>8. n <= Len(content'[active])  BY <1>1, <1>2
<1>9. ASSUME NEW f \in Exists
      PROVE  /\ f \in Exists' /\ Len(content[f]) <= Len(content'[f])
             /\ \A i \in DOMAIN content[f] : i \in DOMAIN content'[f] /\ content'[f][i] = content[f][i]
             /\ \A i \in DOMAIN content'[f] : \/ i \in DOMAIN content[f] /\ content'[f][i] = content[f][i]
                                              \/ i > Len(content[f]) /\ counted[content'[f][i]] = 0
  <2>1. CASE f = active  BY <1>1, <1>2, <1>6, <1>7, <1>8, <2>1 DEF n
  <2>2. CASE f # active  BY <1>1, <1>5, <2>2
  <2> QED  BY <2>1, <2>2
<1> QED  BY <1>1, <1>9 DEF Grown

LEMMA RotateGrows ==
  ASSUME Base, NEW f \in File, RotateTo(f), Undisturbed'
  PROVE  Grown
<1>1. /\ Exists' = Exists \cup {f}
      /\ \A g \in Exists \ {f} : content'[g] = content[g]
      /\ IF f \notin Exists \/ truncate THEN content'[f] = <<>> ELSE content'[f] = content[f]
  BY RotateIs DEF Base
<1>2. f \in Exists => ~truncate  BY DEF RotateTo, Undisturbed
<1>3. \A g \in Exists : content'[g] = content[g] /\ Len(content[g]) \in Nat  BY <1>1, <1>2, ContentIs DEF Base
<1>4. \A g \in Exists' \ Exists : content'[g] = <<>>  BY <1>1
<1> QED  BY <1>1, <1>3, <1>4 DEF Grown

-----------------------------------------------------------------------------
(* What disturbs the parser stays.                                         *)

LEMMA ExistsGrows == ASSUME Base, [Next]_vars PROVE Exists \subseteq Exists'
<1>1. CASE WriteLine  BY <1>1, WriteIs DEF Base
<1>2. CASE \E f \in File : RotateTo(f)  BY <1>2, RotateIs DEF Base
<1>3. CASE UNCHANGED serverVars  BY <1>3, ServerKept
<1>4. CASE UNCHANGED vars  BY <1>3, <1>4 DEF vars
<1>5. Parse => UNCHANGED serverVars
  BY DEF Parse, FindLatest, OpenFile, ReadLine, ReachEnd, LookForNewFile, FindLatestRemote, FetchChunk,
         NothingToFetch, ParseLine, StatFile, NextRemoteFile
<1>6. OpenFails \/ ReadFails \/ FetchFails => UNCHANGED serverVars  BY DEF OpenFails, ReadFails, FetchFails
<1> QED  BY <1>1, <1>2, <1>3, <1>4, <1>5, <1>6 DEF Next

\* No step takes back a fault.
LEMMA FaultsRemain == ASSUME Base, [Next]_vars, faults' = 0 PROVE faults = 0 /\ ~Fault
<1>1. faults \in Nat  BY DEF Base, TypeOK
<1>2. ~Fault  BY <1>1 DEF Fault
<1>3. CASE WriteLine \/ \E f \in File : RotateTo(f)  BY <1>2, <1>3 DEF WriteLine, RotateTo
<1>4. CASE FindLatest \/ OpenFile \/ ReadLine \/ ReachEnd \/ LookForNewFile
  BY <1>2, <1>4 DEF FindLatest, OpenFile, ReadLine, ReachEnd, LookForNewFile
<1>5. CASE FindLatestRemote \/ FetchChunk \/ NothingToFetch \/ ParseLine
  BY <1>2, <1>5 DEF FindLatestRemote, FetchChunk, NothingToFetch, ParseLine
<1>6. CASE StatFile \/ NextRemoteFile  BY <1>2, <1>6 DEF StatFile, NextRemoteFile
<1>7. CASE OpenFails \/ ReadFails \/ FetchFails  BY <1>2, <1>7 DEF OpenFails, ReadFails, FetchFails
<1>8. CASE UNCHANGED vars  BY <1>2, <1>8 DEF vars
<1> QED  BY <1>3, <1>4, <1>5, <1>6, <1>7, <1>8 DEF Next, Parse

LEMMA ReuseRemains ==
  ASSUME Base, [Next]_vars
  PROVE  truncate' = truncate /\ (reused => reused')
<1>1. CASE WriteLine \/ \E f \in File : RotateTo(f)
  <2>1. CASE WriteLine  BY <2>1 DEF WriteLine
  <2>2. ASSUME NEW f \in File, RotateTo(f) PROVE truncate' = truncate /\ (reused => reused')
    <3>1. truncate' = truncate  BY <2>2 DEF RotateTo
    <3>2. reused' = (reused \/ f \in Exists)  BY <2>2 DEF RotateTo
    <3> QED  BY <3>1, <3>2, Zenon
  <2> QED  BY <1>1, <2>1, <2>2
<1>2. CASE UNCHANGED serverVars  BY <1>2 DEF serverVars
<1>3. CASE UNCHANGED vars  BY <1>2, <1>3 DEF vars
<1>4. Parse => UNCHANGED serverVars
  BY DEF Parse, FindLatest, OpenFile, ReadLine, ReachEnd, LookForNewFile, FindLatestRemote, FetchChunk,
         NothingToFetch, ParseLine, StatFile, NextRemoteFile
<1>5. OpenFails \/ ReadFails \/ FetchFails => UNCHANGED serverVars  BY DEF OpenFails, ReadFails, FetchFails
<1> QED  BY <1>1, <1>2, <1>3, <1>4, <1>5 DEF Next

LEMMA StaysUndisturbed ==
  ASSUME Base, Base', [Next]_vars, Undisturbed'
  PROVE  Undisturbed /\ ~Fault
<1>1. faults = 0 /\ ~Fault  BY FaultsRemain DEF Undisturbed
<1>2. ~(reused /\ truncate)  BY ReuseRemains DEF Undisturbed
<1>3. Cardinality(Exists) <= maxTrackedFiles
  <2>1. Exists \subseteq Exists' /\ Exists' \subseteq File  BY ExistsGrows DEF Exists
  <2>2. IsFiniteSet(Exists')  BY <2>1, LogParserAssumption, FS_Subset
  <2>3. IsFiniteSet(Exists) /\ Cardinality(Exists) <= Cardinality(Exists')  BY <2>1, <2>2, FS_Subset
  <2>4. Cardinality(Exists) \in Nat /\ Cardinality(Exists') \in Nat  BY <2>2, <2>3, FS_CardinalityType
  <2>5. Cardinality(Exists') <= maxTrackedFiles  BY DEF Undisturbed
  <2>6. maxTrackedFiles \in Nat  BY LogParserAssumption
  <2> QED  BY <2>3, <2>4, <2>5, <2>6
<1> QED  BY <1>1, <1>2, <1>3 DEF Undisturbed

-----------------------------------------------------------------------------
(* The steps of the parser on the same host.                               *)

\* A step that does not count lines of a file leaves its reading as it is.
LEMMA ReadRemains ==
  ASSUME Base, Base', UNCHANGED serverVars, NEW f \in File, NEW q, Begun(f), Read(f, q),
         origin'[f] = origin[f], cut \subseteq cut',
         \A i \in DOMAIN content[f] : counted'[content[f][i]] = counted[content[f][i]]
  PROVE  Read(f, q)'
<1>1. f \in Exists /\ Exists' = Exists  BY ServerKept DEF Base, ParserKnows
<1>2. content' = content /\ Len(content[f]) \in Nat  BY <1>1, ContentIs DEF Base, serverVars
<1>3. Len(content[f]) <= Len(content'[f])  BY <1>2
<1> QED  BY <1>1, <1>2, <1>3, ReadKept

\* A file that is only just opened is read up to its origin.
LEMMA ReadFromOrigin ==
  ASSUME Base, UNCHANGED <<serverVars, counted>>, Unopened, NEW f \in Exists, ~Begun(f),
         NEW q \in 0..Len(content[f]), origin'[f] = q
  PROVE  Read(f, q)'
<1>1. \A i \in DOMAIN content[f] : counted[content[f][i]] = 0  BY DEF Unopened, Untouched
<1>2. Len(content[f]) \in Nat /\ DOMAIN content[f] = 1..Len(content[f])  BY ContentIs DEF Base
<1>3. content' = content /\ counted' = counted  BY DEF serverVars
<1>4. q \in Nat /\ q <= q /\ q <= Len(content[f])  BY <1>2
<1>5. \A i \in DOMAIN content[f] : ~(q < i /\ i <= q)  BY <1>2, <1>4
<1> QED  BY <1>1, <1>3, <1>4, <1>5 DEF Read

\* Files that are not open are read on from where they were, if their offsets
\* are kept.
LEMMA ResumeRemains ==
  ASSUME Base, Base', UNCHANGED <<serverVars, local>>, NEW f \in File, Begun(f), CanResume(f),
         origin'[f] = origin[f], cut \subseteq cut', ~truncate => fileOffsets'[f] = fileOffsets[f],
         \A i \in DOMAIN content[f] : counted'[content[f][i]] = counted[content[f][i]]
  PROVE  CanResume(f)'
<1>1. PICK q \in Nat : /\ Read(f, q)
                       /\ ~truncate /\ local /\ origin[f] = 0 => fileOffsets[f] = q
                       /\ ~truncate /\ ~local => fileOffsets[f] = LineSize * q
  BY DEF CanResume
<1>2. Read(f, q)'  BY <1>1, ReadRemains
<1>3. truncate' = truncate /\ local' = local  BY DEF serverVars
<1> QED  BY <1>1, <1>2, <1>3 DEF CanResume

\* The origins of the other files stay, and the files that were not opened
\* remain unread, in a step that counts nothing.
LEMMA UnopenedRemains ==
  ASSUME UNCHANGED <<serverVars, counted>>, Unopened, \A f \in File : Begun(f) => Begun(f)'
  PROVE  Unopened'
<1>1. Exists' = Exists /\ content' = content /\ counted' = counted  BY ServerKept DEF serverVars
<1>2. Exists \subseteq File  BY DEF Exists
<1> QED  BY <1>1, <1>2 DEF Unopened, Untouched

LEMMA FindLatestProgress ==
  ASSUME Base, Base', Undisturbed, Progress, FindLatest
  PROVE  Progress'
<1>1. pc = "start" /\ pc' = "open" /\ firstRun /\ linesRead = 0 /\ \A f \in File : ~Begun(f)
  BY DEF Base, Control, FindLatest
<1>2. UNCHANGED <<serverVars, counted, origin, linesRead>>  BY DEF FindLatest, countVars, localVars
<1>3. \A f \in File : ~Begun(f)'  BY <1>1, <1>2 DEF Begun
<1>4. latest' \in File /\ active' \in File  BY LatestIs DEF FindLatest, Base, TypeOK, Exists
<1>5. InOrder'  BY <1>1, <1>3, <1>4 DEF InOrder, GoesForward
<1>6. Unopened'  BY <1>1, <1>2, UnopenedRemains DEF Progress
<1>7. Left'  BY <1>3 DEF Left, Claimed
<1>8. LocalPlace' /\ RemotePlace'  BY <1>1 DEF LocalPlace, RemotePlace
<1> QED  BY <1>1, <1>2, <1>5, <1>6, <1>7, <1>8 DEF Progress

LEMMA OpenProgress ==
  ASSUME Base, Base', Undisturbed, Progress, OpenFile
  PROVE  Progress'
<1>1. pc = "open" /\ pc' = "read" /\ latest \in Exists /\ latest \in File /\ local
  BY DEF OpenFile, Base, Control, Exists
<1>2. UNCHANGED <<serverVars, counted, cut, local, latest, fileOffsets>>
  BY DEF OpenFile, countVars, remoteVars
<1>3. position' \in Nat /\ Opened(latest, position')  BY DEF OpenFile, Base, TypeOK
<1>4. \A g \in File : /\ origin'[g] = IF g = latest /\ origin[latest] = None THEN position' ELSE origin[g]
                      /\ Begun(g)' <=> Begun(g) \/ g = latest
  BY <1>1, <1>3, OpenedIs DEF Base, Begun
<1>5. Exists' = Exists /\ content' = content /\ modified' = modified /\ active' = active /\ reused' = reused /\ truncate' = truncate
  BY <1>2, ServerKept DEF serverVars
<1>6. InOrder'
  <2>1. active \in File /\ active' = active  BY <1>2 DEF Base, TypeOK, Exists, serverVars
  <2> QED  BY <1>1, <1>2, <1>4, <1>5, <2>1 DEF Progress, InOrder, GoesForward
<1>7. Unopened'  BY <1>2, <1>4, UnopenedRemains DEF Progress
<1>8. ASSUME NEW f \in File, Claimed(f)', f # latest' \/ pc' = "open" PROVE CanResume(f)'
  <2>1. f # latest /\ Begun(f) /\ origin'[f] = origin[f]  BY <1>1, <1>2, <1>4, <1>8 DEF Claimed
  <2>2. CanResume(f)  BY <1>2, <1>5, <1>8, <2>1 DEF Claimed, Progress, Left
  <2> QED  BY <1>2, <2>1, <2>2, ResumeRemains
<1>9. ASSUME Claimed(latest)'
      PROVE  Read(latest, position)' /\ (origin'[latest] = 0 => linesRead' = position')
  <2>1. Len(content[latest]) \in Nat  BY <1>1, ContentIs DEF Base
  <2>2. CASE ~Begun(latest)
    <3>1. fileOffsets[latest] = None  BY <1>1, <2>2 DEF Base, ParserKnows
    <3>2. position' = (IF firstRun THEN Len(content[latest]) ELSE 0) /\ linesRead' = linesRead
      BY <3>1 DEF OpenFile
    <3>3. linesRead = 0  BY <1>1 DEF Progress
    <3>4. origin'[latest] = position'  BY <1>1, <1>4, <2>2 DEF Begun
    <3>5. position' \in 0..Len(content[latest])  BY <2>1, <3>2
    <3>6. \A q \in 0..Len(content[latest]) : origin'[latest] = q => Read(latest, q)'
      BY <1>1, <1>2, <2>2, ReadFromOrigin DEF Progress
    <3>7. Read(latest, position)'  BY <1>2, <3>4, <3>5, <3>6
    <3> QED  BY <3>2, <3>3, <3>4, <3>7
  <2>3. CASE Begun(latest)
    <3>1. reused  BY <1>1, <2>3 DEF Progress, InOrder, GoesForward
    <3>2. ~truncate  BY <3>1 DEF Undisturbed
    <3>3. origin'[latest] = origin[latest] /\ ~firstRun  BY <1>1, <1>4, <2>3 DEF Begun, Base, Control
    <3>4. Claimed(latest) /\ origin[latest] = 0
      BY <1>1, <1>2, <1>5, <1>9, <2>3, <3>1, <3>3 DEF Claimed
    <3>5. PICK q \in Nat : Read(latest, q) /\ fileOffsets[latest] = q
      BY <1>1, <3>2, <3>4 DEF Progress, Left, CanResume
    <3>6. q <= Len(content[latest]) /\ q # None  BY <3>5, LogParserAssumption DEF Read
    <3>7. position' = q /\ linesRead' = q
      <4>1. CASE q > 0
        <5>1. /\ position' = Min({q, Len(content[latest])})
              /\ linesRead' = IF Len(content[latest]) + 1 < q THEN 0 ELSE q
          BY <3>5, <3>6, <4>1 DEF OpenFile
        <5>2. Min({q, Len(content[latest])}) = q  BY <2>1, <3>5, <3>6, MinMax
        <5>3. ~(Len(content[latest]) + 1 < q)  BY <2>1, <3>5, <3>6
        <5> QED  BY <5>1, <5>2, <5>3
      <4>2. CASE ~(q > 0)
        <5>1. q = 0  BY <3>5, <4>2
        <5> QED  BY <3>3, <3>5, <3>6, <4>2, <5>1 DEF OpenFile
      <4> QED  BY <4>1, <4>2
    <3>8. Read(latest, q)'  BY <1>1, <1>2, <2>3, <3>3, <3>5, ReadRemains
    <3>9. Read(latest, position)'  BY <1>2, <3>7, <3>8 DEF Read
    <3> QED  BY <3>7, <3>9
  <2> QED  BY <2>2, <2>3
<1>10. Left'  BY <1>8 DEF Left
<1>11. LocalPlace' /\ RemotePlace'  BY <1>1, <1>2, <1>9 DEF LocalPlace, RemotePlace
<1> QED  BY <1>1, <1>6, <1>7, <1>10, <1>11 DEF Progress

\* A line of the open file that is counted is a line of no other file.
LEMMA OthersRemain ==
  ASSUME Base, Base', UNCHANGED <<serverVars, local, latest, fileOffsets, origin, cut>>, Progress,
         pc # "open", pc' # "open", latest \in Exists, Begun(latest), NEW k \in DOMAIN content[latest],
         \A l \in Line : l # content[latest][k] => counted'[l] = counted[l]
  PROVE  Unopened' /\ Left'
<1>1. Exists' = Exists /\ content' = content /\ reused' = reused /\ Exists \subseteq File
  BY ServerKept DEF serverVars, Exists
<1>2. ASSUME NEW f \in Exists, f # latest, NEW i \in DOMAIN content[f]
      PROVE  counted'[content[f][i]] = counted[content[f][i]]
  <2>1. content[f][i] \in Line  BY ContentIs DEF Base
  <2>2. content[f][i] # content[latest][k]  BY <1>2 DEF Base, ServerWrites
  <2> QED  BY <2>1, <2>2
<1>3. Unopened'
  <2> SUFFICES ASSUME NEW f \in Exists, ~Begun(f) PROVE Untouched(f)'  BY <1>1 DEF Unopened, Begun
  <2>1. f # latest /\ Untouched(f)  BY DEF Progress, Unopened
  <2> QED  BY <1>1, <1>2, <2>1 DEF Untouched
<1>4. Left'
  <2> SUFFICES ASSUME NEW f \in File, Claimed(f)', f # latest PROVE CanResume(f)'  BY DEF Left
  <2>1. Claimed(f) /\ Begun(f)  BY <1>1 DEF Claimed, Begun
  <2>2. CanResume(f) /\ f \in Exists  BY <2>1 DEF Progress, Left, Base, ParserKnows
  <2> QED  BY <1>2, <2>1, <2>2, ResumeRemains
<1> QED  BY <1>3, <1>4

\* A counted line follows the lines that were read.
LEMMA ReadOn ==
  ASSUME Base, Base', UNCHANGED <<serverVars, cut>>, NEW f \in Exists, Begun(f), origin'[f] = origin[f],
         NEW q \in Nat, Read(f, q), q + 1 \in DOMAIN content[f], NEW r \in {q, q + 1},
         \/ r = q + 1 /\ counted[content[f][q + 1]] = 0
         \/ content[f][q + 1] \in cut,
         \A l \in Line :
           counted'[l] = IF l = content[f][q + 1] THEN counted[l] + 1 ELSE counted[l]
  PROVE  Read(f, r)'
<1>1. content' = content /\ cut' = cut /\ Exists' = Exists  BY ServerKept DEF serverVars
<1>2. Len(content[f]) \in Nat /\ DOMAIN content[f] = 1..Len(content[f]) /\ f \in File  BY ContentIs DEF Base
<1>3. origin[f] \in Nat /\ origin[f] <= q /\ q <= Len(content[f])  BY <1>2 DEF Base, TypeOK, Begun, Read
<1>4. q + 1 <= Len(content[f]) /\ r \in Nat /\ origin[f] <= r /\ r <= Len(content[f])  BY <1>2, <1>3
<1>5. ASSUME NEW i \in DOMAIN content[f]
      PROVE  LET l == content[f][i]
             IN /\ i <= origin[f] => counted'[l] = 0
                /\ origin[f] < i /\ i <= r => counted'[l] > 0 /\ (counted'[l] = 1 \/ l \in cut)
                /\ i > r => counted'[l] = 0 \/ (i = r + 1 /\ l \in cut)
  <2> DEFINE l == content[f][i]
  <2>1. l \in Line /\ counted[l] \in Nat /\ i \in Nat
    <3>1. l \in Line /\ i \in Nat  BY <1>2, ContentIs DEF Base
    <3> QED  BY <3>1 DEF Base, TypeOK
  <2>2. /\ i <= origin[f] => counted[l] = 0
        /\ origin[f] < i /\ i <= q => counted[l] > 0 /\ (counted[l] = 1 \/ l \in cut)
        /\ i > q => counted[l] = 0 \/ (i = q + 1 /\ l \in cut)
    BY DEF Read
  <2>3. CASE i = q + 1
    <3>1. counted'[l] = counted[l] + 1  BY <2>1, <2>3
    <3>2. ~(i <= origin[f])  BY <1>3, <2>3
    <3>3. counted[l] + 1 > 0  BY <2>1
    <3>4. CASE r = q + 1 /\ counted[l] = 0
      <4>1. counted'[l] = 1 /\ ~(i > r)  BY <2>1, <2>3, <3>1, <3>4
      <4> QED  BY <3>2, <4>1
    <3>5. CASE l \in cut
      <4>1. counted'[l] > 0  BY <3>1, <3>3
      <4>2. i > r => i = r + 1  BY <2>3, <1>4
      <4> QED  BY <3>2, <3>5, <4>1, <4>2
    <3> QED  BY <2>3, <3>4, <3>5
  <2>4. CASE i # q + 1
    <3>1. l # content[f][q + 1]  BY <2>4 DEF Base, ServerWrites
    <3>2. counted'[l] = counted[l]  BY <2>1, <3>1
    <3>3. (i <= r => i <= q) /\ (i > r => i > q)  BY <1>4, <2>1, <2>4
    <3> QED  BY <2>2, <2>4, <3>2, <3>3
  <2> QED  BY <2>3, <2>4
<1> QED  BY <1>1, <1>4, <1>5 DEF Read

LEMMA ReadProgress ==
  ASSUME Base, Base', Undisturbed, Progress, ReadLine
  PROVE  Progress'
<1> DEFINE k == position + 1
           l == content[latest][k]
<1>1. /\ latest \in Exists /\ latest \in File /\ local /\ Begun(latest)
      /\ k \in DOMAIN content[latest] /\ l \in Line
  BY NextLineIs
<1>2. /\ pc = "read" /\ pc' = "read" /\ position' = k /\ linesRead' = linesRead + 1 /\ Count(l)
      /\ UNCHANGED <<serverVars, local, latest, fileOffsets, origin, cut>>
  BY DEF ReadLine, remoteVars
<1>3. Exists' = Exists /\ content' = content /\ modified' = modified /\ active' = active /\ reused' = reused
  BY <1>2, ServerKept DEF serverVars
<1>4. \A m \in Line : counted'[m] = IF m = l THEN counted[m] + 1 ELSE counted[m]
  <2> HIDE DEF l
  <2> QED  BY <1>1, <1>2, CountIs DEF Base
<1>5. Unopened' /\ Left'
  <2>1. \A m \in Line : m # content[latest][k] => counted'[m] = counted[m]  BY <1>4
  <2> HIDE DEF k, l
  <2> QED  BY <1>1, <1>2, <2>1, OthersRemain
<1>6. InOrder'  BY <1>2, <1>3 DEF Progress, InOrder, GoesForward, LooksForward, Begun
<1>7. ASSUME Claimed(latest)'
      PROVE  Read(latest, position)' /\ (origin'[latest] = 0 => linesRead' = position')
  <2>1. Claimed(latest)  BY <1>2, <1>3, <1>7 DEF Claimed, Begun
  <2>2. Read(latest, position) /\ (origin[latest] = 0 => linesRead = position)
    BY <1>2, <2>1 DEF Progress, LocalPlace
  <2>3. position \in Nat /\ linesRead \in Nat  BY DEF Base, TypeOK
  <2>4. counted[l] = 0
    <3>1. cut = {}  BY <1>1 DEF Base, Control
    <3>2. k > position  BY <2>3
    <3> QED  BY <1>1, <2>2, <3>1, <3>2 DEF Read
  <2>5. position + 1 \in {position, position + 1}  OBVIOUS
  <2>6. \A r \in {position, position + 1} : r = position + 1 => Read(latest, r)'
    BY <1>1, <1>2, <1>4, <2>2, <2>3, <2>4, ReadOn
  <2>7. position' \in {position, position + 1}  BY <1>2
  <2>8. Read(latest, position)'  BY <1>2, <2>6, <2>7
  <2> QED  BY <1>2, <2>2, <2>3, <2>8
<1>8. LocalPlace' /\ RemotePlace'  BY <1>1, <1>2, <1>7 DEF LocalPlace, RemotePlace
<1> QED  BY <1>2, <1>5, <1>6, <1>8 DEF Progress

\* Steps that count nothing and leave the files as they are.
LEMMA QuietRemains ==
  ASSUME Base, Base', UNCHANGED <<serverVars, counted, cut, local, latest, fileOffsets, origin>>, Progress,
         pc # "open", pc' # "open"
  PROVE  Unopened' /\ Left' /\ \A q \in Nat : Read(latest, q) /\ Begun(latest) /\ latest \in File => Read(latest, q)'
<1>1. Exists' = Exists /\ content' = content /\ reused' = reused /\ counted' = counted
  BY ServerKept DEF serverVars
<1>2. Unopened'  BY UnopenedRemains DEF Progress, Begun
<1>3. Left'
  <2> SUFFICES ASSUME NEW f \in File, Claimed(f)', f # latest PROVE CanResume(f)'  BY DEF Left
  <2>1. Claimed(f) /\ Begun(f)  BY <1>1 DEF Claimed, Begun
  <2>2. CanResume(f)  BY <2>1 DEF Progress, Left
  <2> QED  BY <1>1, <2>1, <2>2, ResumeRemains
<1>4. ASSUME NEW q \in Nat, Read(latest, q), Begun(latest), latest \in File PROVE Read(latest, q)'
  BY <1>1, <1>4, ReadRemains
<1> QED  BY <1>2, <1>3, <1>4

LEMMA ReachEndProgress ==
  ASSUME Base, Base', Undisturbed, Progress, ReachEnd
  PROVE  Progress'
<1>1. /\ pc = "read" /\ pc' = "wait" /\ UNCHANGED <<position, linesRead>>
      /\ UNCHANGED <<serverVars, counted, cut, local, latest, fileOffsets, origin>>
  BY DEF ReachEnd, countVars, remoteVars, localVars
<1>2. latest \in File /\ Begun(latest) /\ local  BY <1>1 DEF Base, Control, Exists
<1>3. modified' = modified /\ active' = active /\ reused' = reused /\ Exists' = Exists  BY <1>1, ServerKept DEF serverVars
<1>4. InOrder'  BY <1>1, <1>3 DEF Progress, InOrder, GoesForward, LooksForward, Begun
<1>5. LocalPlace'
  <2> SUFFICES ASSUME Claimed(latest)' PROVE Read(latest, position)' /\ (origin'[latest] = 0 => linesRead' = position')
    BY <1>1 DEF LocalPlace
  <2>1. Claimed(latest)  BY <1>1, <1>3 DEF Claimed, Begun
  <2>2. Read(latest, position) /\ (origin[latest] = 0 => linesRead = position) /\ position \in Nat
    BY <1>1, <2>1 DEF Progress, LocalPlace, Read
  <2>3. \A q \in Nat : Read(latest, q) => Read(latest, q)'  BY <1>1, <1>2, QuietRemains
  <2> QED  BY <1>1, <2>2, <2>3
<1>6. RemotePlace'  BY <1>1 DEF RemotePlace
<1> QED  BY <1>1, <1>4, <1>5, <1>6, QuietRemains DEF Progress

\* There is room for the offsets of all files that are there.
LEMMA RememberKeeps ==
  ASSUME Base, Undisturbed, latest \in File, Begun(latest), NEW v \in Nat, Remember(v), ~truncate
  PROVE  fileOffsets'[latest] = v /\ \A f \in File \ {latest} : fileOffsets'[f] = fileOffsets[f]
<1> DEFINE kept == [fileOffsets EXCEPT ![latest] = v]
           K == {f \in File : kept[f] # None}
<1>1. fileOffsets \in [File -> Nat \cup {None}]  BY DEF Base, TypeOK
<1>2. \A f \in File : kept[f] # None => f \in Exists  BY <1>1 DEF Base, ParserKnows
<1>3. K \subseteq Exists /\ Exists \subseteq File  BY <1>2 DEF Exists
<1>4. fileOffsets' = IF Cardinality(K) > maxTrackedFiles THEN [f \in File |-> None] ELSE kept
  BY DEF Remember
<1>5. kept[latest] = v /\ \A f \in File \ {latest} : kept[f] = fileOffsets[f]  BY <1>1
<1>6. ~(Cardinality(K) > maxTrackedFiles)
  <2> HIDE DEF K
  <2>1. IsFiniteSet(Exists)  BY <1>3, LogParserAssumption, FS_Subset
  <2>2. IsFiniteSet(K) /\ Cardinality(K) <= Cardinality(Exists)  BY <1>3, <2>1, FS_Subset
  <2>3. Cardinality(K) \in Nat /\ Cardinality(Exists) \in Nat  BY <2>1, <2>2, FS_CardinalityType
  <2>4. Cardinality(Exists) <= maxTrackedFiles /\ maxTrackedFiles \in Nat  BY LogParserAssumption DEF Undisturbed
  <2> QED  BY <2>2, <2>3, <2>4
<1>7. fileOffsets' = kept
  <2> HIDE DEF K, kept
  <2> QED  BY <1>4, <1>6
<1> QED  BY <1>5, <1>7

\* The open file is left for one that was modified later: none begun was, unless
\* the server went back.
LEMMA MovesForward ==
  ASSUME Base, ~reused, GoesForward, latest \in File, NEW f \in File, modified[f] > modified[latest]
  PROVE  f # latest /\ ~Begun(f) /\ ~Begun(active) /\ \A g \in File : Begun(g) => modified[g] <= modified[f]
<1>1. (\A g \in File : modified[g] \in Nat) /\ now \in Nat  BY DEF Base, TypeOK
<1>2. f # latest  BY <1>1
<1>3. ~Begun(f)  BY <1>1, <1>2 DEF GoesForward
<1>4. ASSUME NEW g \in File, Begun(g) PROVE modified[g] <= modified[f]
  <2>1. g = latest \/ modified[g] <= modified[latest]  BY <1>4 DEF GoesForward
  <2> QED  BY <1>1, <2>1
<1>5. active # latest
  <2>1. modified[active] = now /\ modified[f] <= now  BY DEF Base, ServerWrites
  <2> QED  BY <1>1, <2>1
<1> QED  BY <1>2, <1>3, <1>4, <1>5 DEF GoesForward

\* The same of the remote loop, which may know an older time of the open file.
LEMMA MovesForwardFrom ==
  ASSUME Base, ~reused, GoesForward, pc = "next", latest \in File, NEW f \in File, f # latest,
         modified[f] > modification
  PROVE  ~Begun(f) /\ ~Begun(active) /\ \A g \in File : Begun(g) => modified[g] <= modified[f]
<1>1. (\A g \in File : modified[g] \in Nat) /\ modification \in Nat  BY DEF Base, TypeOK
<1>2. LooksForward  BY DEF GoesForward
<1>3. ~Begun(f)  BY <1>1, <1>2 DEF LooksForward
<1>4. ASSUME NEW g \in File, Begun(g) PROVE modified[g] <= modified[f]
  <2>1. CASE g = latest  BY <1>1, <1>2, <2>1 DEF LooksForward
  <2>2. CASE g # latest
    <3>1. modified[g] <= modification  BY <1>2, <1>4, <2>2 DEF LooksForward
    <3> QED  BY <1>1, <3>1
  <2> QED  BY <2>1, <2>2
<1>5. active # latest  BY <1>1, <1>2 DEF LooksForward
<1> QED  BY <1>3, <1>4, <1>5 DEF GoesForward

\* The file that is left can be read on.
LEMMA LeaveFile ==
  ASSUME Base, Base', Undisturbed, Progress, UNCHANGED <<serverVars, counted, cut, local>>,
         latest \in File, Begun(latest), pc # "open", NEW v \in Nat, Remember(v),
         Claimed(latest) => \E q \in Nat : /\ Read(latest, q)
                                           /\ local /\ origin[latest] = 0 => v = q
                                           /\ ~local => v = LineSize * q,
         NEW f \in File, Claimed(f), origin'[f] = origin[f]
  PROVE  CanResume(f)'
<1>0. truncate' = truncate /\ content' = content /\ counted' = counted  BY DEF serverVars
<1>1. CASE f = latest
  <2>1. PICK q \in Nat : /\ Read(f, q)
                         /\ local /\ origin[f] = 0 => v = q
                         /\ ~local => v = LineSize * q
    BY <1>1
  <2>2. Read(f, q)'  BY <1>0, <2>1, ReadRemains DEF Claimed
  <2>3. ~truncate => fileOffsets'[f] = v  BY <1>1, RememberKeeps
  <2> QED  BY <1>0, <2>1, <2>2, <2>3 DEF CanResume
<1>2. CASE f # latest
  <2>1. CanResume(f) /\ Begun(f)  BY <1>2 DEF Progress, Left, Claimed
  <2>2. ~truncate => fileOffsets'[f] = fileOffsets[f]  BY <1>2, RememberKeeps
  <2> QED  BY <1>0, <2>1, <2>2, ResumeRemains
<1> QED  BY <1>1, <1>2

LEMMA LookProgress ==
  ASSUME Base, Base', Undisturbed, Progress, LookForNewFile
  PROVE  Progress'
<1>1. /\ pc = "wait" /\ position' = position
      /\ UNCHANGED <<serverVars, cut, local, origin>>
  BY DEF LookForNewFile, remoteVars
<1>2. latest \in File /\ Begun(latest) /\ local  BY <1>1 DEF Base, Control, Exists
<1>3. modified' = modified /\ active' = active /\ reused' = reused /\ Exists' = Exists  BY <1>1, ServerKept DEF serverVars
<1>4. Claimed(latest) => Read(latest, position) /\ (origin[latest] = 0 => linesRead = position)
  BY <1>1 DEF Progress, LocalPlace
<1>5. ASSUME NEW file \in NextFiles(modified[latest]), Remember(linesRead), latest' = file, linesRead' = 0,
             pc' = "open", UNCHANGED countVars
      PROVE  Progress'
  <2>1. counted' = counted  BY <1>5 DEF countVars
  <2>2. modified[latest] \in Nat /\ linesRead \in Nat  BY <1>2 DEF Base, TypeOK
  <2>3. file \in File /\ modified[file] > modified[latest]  BY NextIs
  <2>4. InOrder'
    <3> SUFFICES ASSUME ~reused PROVE GoesForward'  BY <1>3 DEF InOrder
    <3>1. GoesForward  BY <1>1 DEF Progress, InOrder
    <3>2. ~Begun(file) /\ ~Begun(active) /\ \A g \in File : Begun(g) => modified[g] <= modified[file]
      BY <1>2, <2>3, <3>1, MovesForward
    <3> QED  BY <1>1, <1>3, <1>5, <3>2 DEF GoesForward, Begun
  <2>5. Unopened'  BY <1>1, <2>1, UnopenedRemains DEF Progress, Begun
  <2>6. Left'
    <3> SUFFICES ASSUME NEW f \in File, Claimed(f)' PROVE CanResume(f)'  BY DEF Left
    <3>1. Claimed(f) /\ origin'[f] = origin[f]  BY <1>1, <1>3 DEF Claimed, Begun
    <3>2. Claimed(latest) => \E q \in Nat : /\ Read(latest, q)
                                            /\ local /\ origin[latest] = 0 => linesRead = q
                                            /\ ~local => linesRead = LineSize * q
      BY <1>2, <1>4 DEF Read
    <3> QED  BY <1>1, <1>2, <1>5, <2>1, <2>2, <3>1, <3>2, LeaveFile
  <2>7. LocalPlace' /\ RemotePlace'  BY <1>5 DEF LocalPlace, RemotePlace
  <2> QED  BY <1>5, <2>4, <2>5, <2>6, <2>7 DEF Progress
<1>6. ASSUME pc' = "read", CountNothing, UNCHANGED <<fileOffsets, latest, linesRead>>
      PROVE  Progress'
  <2>1. pc' = "read" /\ counted' = counted /\ UNCHANGED <<fileOffsets, latest, linesRead>>
    BY <1>6 DEF CountNothing
  <2>2. InOrder'  BY <1>1, <1>3, <2>1 DEF Progress, InOrder, GoesForward, LooksForward, Begun
  <2>3. LocalPlace'
    <3> SUFFICES ASSUME Claimed(latest)'
                 PROVE  Read(latest, position)' /\ (origin'[latest] = 0 => linesRead' = position')
      BY <1>1, <2>1 DEF LocalPlace
    <3>1. Claimed(latest)  BY <1>1, <1>3, <2>1 DEF Claimed, Begun
    <3>2. position \in Nat  BY DEF Base, TypeOK
    <3>3. \A q \in Nat : Read(latest, q) => Read(latest, q)'  BY <1>1, <1>2, <2>1, QuietRemains
    <3> QED  BY <1>1, <1>4, <2>1, <3>1, <3>2, <3>3
  <2>4. RemotePlace'  BY <2>1 DEF RemotePlace
  <2> QED  BY <1>1, <2>1, <2>2, <2>3, <2>4, QuietRemains DEF Progress
<1> QED  BY <1>5, <1>6 DEF LookForNewFile

-----------------------------------------------------------------------------
(* The steps of the parser elsewhere.                                      *)

\* Between chunks the offset is behind the last line that was parsed.
Between(p, s) ==
  /\ p \in Nat /\ s \in Nat /\ p <= s /\ s <= Len(content[latest])
  /\ offset = LineSize * p /\ size = LineSize * s /\ Read(latest, p)

LEMMA BetweenIs ==
  ASSUME Base, Progress, pc \in {"fetch", "lines", "next"}, chunk = <<>>
  PROVE  \E p, s \in Nat : Between(p, s)
<1>1. PICK p \in Nat, s \in Nat, q \in Nat :
        /\ offset = LineSize * p /\ size = LineSize * s /\ p <= s /\ s <= Len(content[latest])
        /\ Read(latest, q) /\ ChunkFrom(q, p)
  BY DEF Progress, RemotePlace
<1>2. q + Len(chunk) = p  BY <1>1 DEF ChunkFrom
<1>3. Len(chunk) = 0  OBVIOUS
<1>4. q = p  BY <1>1, <1>2, <1>3
<1> QED  BY <1>1, <1>4 DEF Between

LEMMA BetweenPlace ==
  ASSUME chunk' = <<>>, NEW p \in Nat, NEW s \in Nat, Between(p, s)'
  PROVE  \E n, t, q \in Nat :
           /\ offset' = LineSize * n /\ size' = LineSize * t /\ n <= t /\ t <= Len(content'[latest'])
           /\ Read(latest, q)' /\ ChunkFrom(q, n)'
<1>1. Len(chunk') = 0 /\ DOMAIN chunk' = {}  OBVIOUS
<1>2. p + Len(chunk') = p  BY <1>1
<1>3. ChunkFrom(p, p)'  BY <1>1, <1>2 DEF ChunkFrom
<1> QED  BY <1>3 DEF Between

LEMMA FindLatestRemoteProgress ==
  ASSUME Base, Base', Undisturbed, Progress, FindLatestRemote
  PROVE  Progress'
<1>0. PICK file \in LatestFiles : latest' = file  BY DEF FindLatestRemote
<1>1. /\ pc = "start" /\ pc' = "fetch" /\ ~local /\ UNCHANGED <<serverVars, counted, chunk, cut, local>>
      /\ latest' = file /\ file \in Exists /\ size' = Bytes(latest') /\ offset' = size'
      /\ Opened(file, Len(content[file]))
  <2>1. Opened(latest', Len(content[latest']))  BY DEF FindLatestRemote
  <2>2. Opened(file, Len(content[file]))  BY <1>0, <2>1
  <2> QED  BY <1>0, <2>2, LatestIs DEF FindLatestRemote, countVars
<1>2. file \in File /\ Len(content[file]) \in Nat /\ \A f \in File : ~Begun(f)
  BY <1>1, ContentIs DEF Base, Control
<1>3. \A g \in File : /\ origin'[g] = IF g = file /\ origin[file] = None THEN Len(content[file]) ELSE origin[g]
                      /\ Begun(g)' <=> Begun(g) \/ g = file
  BY <1>1, <1>2, OpenedIs DEF Base, Begun
<1>4. content' = content /\ chunk' = <<>> /\ active' = active  BY <1>1 DEF serverVars, Base, Control
<1>5. InOrder'
  <2>1. active' \in File  BY DEF Base, TypeOK, Exists
  <2> QED  BY <1>1, <1>2, <1>3, <2>1 DEF InOrder, GoesForward
<1>6. Unopened'  BY <1>1, <1>3, UnopenedRemains DEF Progress
<1>7. Left'  BY <1>1, <1>2, <1>3 DEF Left, Claimed
<1>8. LocalPlace'  BY <1>1 DEF LocalPlace
<1>9. RemotePlace'
  <2> DEFINE n == Len(content[file])
  <2>1. origin'[file] = n /\ n \in 0..n  BY <1>2, <1>3 DEF Begun
  <2>2. \A q \in 0..n : origin'[file] = q => Read(file, q)'
    <3>1. ~Begun(file) /\ Unopened  BY <1>2 DEF Progress
    <3> HIDE DEF n
    <3>2. UNCHANGED <<serverVars, counted>>  BY <1>1
    <3> QED  BY <1>1, <1>4, <3>1, <3>2, ReadFromOrigin DEF n
  <2>3. offset' = LineSize * n /\ size' = LineSize * n  BY <1>1, <1>4 DEF Bytes
  <2>4. n <= n /\ n \in Nat  BY <1>2
  <2>5. \A q \in 0..n : q = n => Between(q, q)'
    BY <1>1, <1>4, <2>1, <2>2, <2>3, <2>4 DEF Between
  <2>6. \E q \in Nat : Between(q, q)'
    <3> HIDE DEF n
    <3> QED  BY <2>1, <2>4, <2>5
  <2>7. \E a, t, q \in Nat :
          /\ offset' = LineSize * a /\ size' = LineSize * t /\ a <= t /\ t <= Len(content'[latest'])
          /\ Read(latest, q)' /\ ChunkFrom(q, a)'
    BY <1>4, <2>6, BetweenPlace
  <2> QED  BY <1>1, <2>7 DEF RemotePlace
<1> QED  BY <1>1, <1>5, <1>6, <1>7, <1>8, <1>9 DEF Progress

LEMMA NothingToFetchProgress ==
  ASSUME Base, Base', Undisturbed, Progress, NothingToFetch
  PROVE  Progress'
<1>1. /\ pc = "fetch" /\ pc' = "lines" /\ UNCHANGED <<offset, size, chunk>>
      /\ UNCHANGED <<serverVars, counted, cut, local, latest, fileOffsets, origin>>
  BY DEF NothingToFetch, countVars, remoteVars
<1>2. latest \in File /\ Begun(latest)  BY <1>1 DEF Base, Control, Exists
<1>3. content' = content /\ modified' = modified /\ active' = active /\ reused' = reused  BY <1>1 DEF serverVars
<1>4. InOrder'  BY <1>1, <1>3 DEF Progress, InOrder, GoesForward, LooksForward, Begun
<1>5. Unopened' /\ Left' /\ \A q \in Nat : Read(latest, q) => Read(latest, q)'
  BY <1>1, <1>2, QuietRemains
<1>6. RemotePlace'
  <2>1. PICK p \in Nat, s \in Nat, q \in Nat :
          /\ offset = LineSize * p /\ size = LineSize * s /\ p <= s /\ s <= Len(content[latest])
          /\ Read(latest, q) /\ ChunkFrom(q, p)
    BY <1>1 DEF Progress, RemotePlace
  <2>2. Read(latest, q)' /\ ChunkFrom(q, p)'  BY <1>1, <1>3, <1>5, <2>1 DEF ChunkFrom
  <2> QED  BY <1>1, <1>3, <2>1, <2>2 DEF RemotePlace
<1>7. LocalPlace'  BY <1>1 DEF LocalPlace
<1> QED  BY <1>1, <1>4, <1>5, <1>6, <1>7 DEF Progress

LEMMA StatProgress ==
  ASSUME Base, Base', Undisturbed, Progress, StatFile, ~Fault
  PROVE  Progress'
<1>1. /\ pc = "lines" /\ chunk = <<>> /\ UNCHANGED <<offset, chunk>>
      /\ UNCHANGED <<serverVars, counted, cut, local, latest, fileOffsets, origin>>
      /\ modification' = modified[latest]
      /\ IF size = Bytes(latest) /\ offset = size
         THEN pc' = "next" /\ UNCHANGED size
         ELSE pc' = "fetch" /\ size' = Bytes(latest)
  BY DEF StatFile, countVars
<1>2. latest \in File /\ Begun(latest) /\ latest \in Exists  BY <1>1 DEF Base, Control, Exists
<1>3. content' = content /\ modified' = modified /\ active' = active /\ reused' = reused /\ Exists' = Exists
  BY <1>1, ServerKept DEF serverVars
<1>4. pc' \in {"next", "fetch"}  BY <1>1
<1>5. InOrder'
  <2> SUFFICES ASSUME ~reused PROVE GoesForward'  BY <1>3 DEF InOrder
  <2>1. GoesForward  BY <1>1 DEF Progress, InOrder
  <2>2. (\A f \in File : modified[f] \in Nat) /\ active \in File  BY DEF Base, TypeOK, Exists
  <2>3. modified[active] = now /\ \A f \in File : modified[f] <= now  BY DEF Base, ServerWrites
  <2>4. LooksForward'
    <3>1. modification' = modified[latest] /\ latest' = latest /\ origin' = origin  BY <1>1
    <3>2. \A f \in File \ {latest} : Begun(f)' => modified[f] <= modified[latest]
      BY <2>1, <3>1 DEF GoesForward, Begun
    <3>3. \A f \in File \ {latest} : modified[f] > modified[latest] => modified[f] >= modified[latest]
      BY <1>2, <2>2
    <3>4. active = latest => \A f \in File \ {latest} : modified[f] <= modified[latest]  BY <2>3
    <3> QED  BY <1>3, <3>1, <3>2, <3>3, <3>4 DEF LooksForward
  <2> QED  BY <1>1, <1>3, <1>4, <2>1, <2>4 DEF GoesForward, Begun
<1>6. Unopened' /\ Left' /\ \A q \in Nat : Read(latest, q) => Read(latest, q)'
  BY <1>1, <1>2, <1>4, QuietRemains
<1>7. RemotePlace'
  <2>1. PICK p \in Nat, s \in Nat : Between(p, s)  BY <1>1, BetweenIs
  <2>2. Len(content[latest]) \in Nat /\ Bytes(latest) = LineSize * Len(content[latest])
    BY <1>2, ContentIs DEF Base
  <2>3. Read(latest, p)' /\ p <= s /\ s <= Len(content[latest])  BY <1>6, <2>1 DEF Between
  <2>4. \E t \in Nat : Between(p, t)'
    <3>1. CASE size' = size  BY <1>1, <1>3, <2>1, <2>3, <3>1 DEF Between
    <3>2. CASE size' = Bytes(latest)
      <4>1. p <= Len(content[latest])  BY <2>1, <2>2, <2>3
      <4>2. Len(content[latest]) <= Len(content[latest])  BY <2>2
      <4> DEFINE n == Len(content[latest])
      <4>3. Between(p, n)'
        <5>1. size' = LineSize * n /\ n = Len(content'[latest'])  BY <1>1, <1>3, <2>2, <3>2
        <5>2. Len(content'[latest']) \in Nat /\ p <= Len(content'[latest'])
              /\ Len(content'[latest']) <= Len(content'[latest'])
          BY <2>2, <4>1, <4>2, <5>1
        <5> QED  BY <1>1, <2>1, <2>3, <5>1, <5>2 DEF Between
      <4> QED  BY <1>1, <1>3, <2>2, <4>3
    <3> QED  BY <1>1, <3>1, <3>2
  <2>5. \E a, t, q \in Nat :
          /\ offset' = LineSize * a /\ size' = LineSize * t /\ a <= t /\ t <= Len(content'[latest'])
          /\ Read(latest, q)' /\ ChunkFrom(q, a)'
    BY <1>1, <2>1, <2>4, BetweenPlace
  <2>6. pc' = "next" => offset' = size'  BY <1>1
  <2> QED  BY <2>5, <2>6 DEF RemotePlace
<1>8. LocalPlace'  BY <1>4 DEF LocalPlace
<1> QED  BY <1>4, <1>5, <1>6, <1>7, <1>8 DEF Progress

\* A line that is whole is parsed and done with, and one that is cut is read again.
LEMMA ParseProgress ==
  ASSUME Base, Base', Undisturbed, Progress, ParseLine
  PROVE  Progress'
<1>1. /\ chunk # <<>> /\ Len(chunk) \in Nat /\ Len(chunk) > 0 /\ DOMAIN chunk = 1..Len(chunk)
      /\ Head(chunk) = chunk[1] /\ chunk[1][1] \in Line
      /\ Len(chunk') = Len(chunk) - 1 /\ DOMAIN chunk' = 1..(Len(chunk) - 1)
      /\ \A j \in 1..(Len(chunk) - 1) : chunk'[j] = chunk[j + 1]
  BY HeadIs
<1>2. /\ pc = "lines" /\ pc' = "lines" /\ UNCHANGED <<offset, size>>
      /\ UNCHANGED <<serverVars, local, latest, fileOffsets, origin, cut>>
  BY DEF ParseLine
<1>3. latest \in Exists /\ latest \in File /\ Begun(latest)  BY <1>2 DEF Base, Control, Exists
<1>4. content' = content /\ modified' = modified /\ active' = active /\ reused' = reused  BY <1>2 DEF serverVars
<1>5. Len(content[latest]) \in Nat /\ DOMAIN content[latest] = 1..Len(content[latest])
  BY <1>3, ContentIs DEF Base
<1>6. PICK p \in Nat, s \in Nat, q \in Nat :
        /\ offset = LineSize * p /\ size = LineSize * s /\ p <= s /\ s <= Len(content[latest])
        /\ Read(latest, q) /\ ChunkFrom(q, p)
  BY <1>2 DEF Progress, RemotePlace
<1>7. /\ \A j \in 1..Len(chunk) :
           /\ q + j <= Len(content[latest]) /\ chunk[j][1] = content[latest][q + j]
           /\ ~chunk[j][2] => chunk[j][1] \in cut /\ q + j = p + 1 /\ j = Len(chunk)
      /\ q + Len(chunk) = p \/ (q + Len(chunk) = p + 1 /\ ~chunk[Len(chunk)][2])
  BY <1>1, <1>6 DEF ChunkFrom
<1> DEFINE l == content[latest][q + 1]
<1>8. 1 \in 1..Len(chunk) /\ q + 1 <= Len(content[latest]) /\ chunk[1][1] = l  BY <1>1, <1>7
<1>9. q + 1 \in DOMAIN content[latest]  BY <1>5, <1>8
<1>10. \/ \A m \in Line : counted'[m] = IF m = l THEN counted[m] + 1 ELSE counted[m]
       \/ ~chunk[1][2] /\ counted' = counted
  <2>1. Count(l) \/ (~chunk[1][2] /\ CountNothing)  BY <1>1, <1>8 DEF ParseLine
  <2>2. l \in Line  BY <1>1, <1>8
  <2> HIDE DEF l
  <2> QED  BY <2>1, <2>2, CountIs, CountNothingIs DEF Base
<1>11. Unopened' /\ Left'
  <2>1. \A m \in Line : m # content[latest][q + 1] => counted'[m] = counted[m]  BY <1>10
  <2> HIDE DEF l
  <2> QED  BY <1>2, <1>3, <1>9, <2>1, OthersRemain
<1>12. InOrder'  BY <1>2, <1>4 DEF Progress, InOrder, GoesForward, LooksForward, Begun
<1>13. RemotePlace'
  <2>1. CASE chunk[1][2]
    <3>1. counted[l] = 0 \/ l \in cut
      <4>1. q + 1 > q  BY <1>6
      <4> QED  BY <1>6, <1>9, <4>1 DEF Read
    <3>2. \A r \in {q, q + 1} : r = q + 1 => Read(latest, r)'
      BY <1>2, <1>3, <1>6, <1>9, <1>10, <2>1, <3>1, ReadOn
    <3>3. q + 1 \in {q, q + 1} /\ q + 1 \in Nat  BY <1>6
    <3>4. Read(latest, q + 1)'  BY <3>2, <3>3
    <3>5. \A j \in 1..(Len(chunk) - 1) :
            j + 1 \in 1..Len(chunk) /\ (q + 1) + j = q + (j + 1) /\ (j + 1 = Len(chunk) => j = Len(chunk'))
      <4>1. Len(chunk) \in Nat /\ Len(chunk') = Len(chunk) - 1 /\ q \in Nat  BY <1>1, <1>6
      <4> QED  BY <4>1
    <3>6. (q + 1) + Len(chunk') = q + Len(chunk)  BY <1>1, <1>6
    <3>7. ~chunk[Len(chunk)][2] => Len(chunk') \in 1..(Len(chunk) - 1) /\ chunk'[Len(chunk')] = chunk[Len(chunk)]
      <4> SUFFICES ASSUME ~chunk[Len(chunk)][2]
                   PROVE  Len(chunk') \in 1..(Len(chunk) - 1) /\ chunk'[Len(chunk')] = chunk[Len(chunk)]
        OBVIOUS
      <4>1. Len(chunk) # 1  BY <2>1
      <4>2. Len(chunk') \in 1..(Len(chunk) - 1) /\ Len(chunk') + 1 = Len(chunk)  BY <1>1, <4>1
      <4>3. chunk'[Len(chunk')] = chunk[Len(chunk') + 1]  BY <1>1, <4>2
      <4> QED  BY <4>2, <4>3
    <3>8. \A j \in DOMAIN chunk' :
            /\ (q + 1) + j <= Len(content[latest]) /\ chunk'[j][1] = content[latest][(q + 1) + j]
            /\ ~chunk'[j][2] => chunk'[j][1] \in cut /\ (q + 1) + j = p + 1 /\ j = Len(chunk')
      <4> SUFFICES ASSUME NEW j \in 1..(Len(chunk) - 1)
                   PROVE  /\ (q + 1) + j <= Len(content[latest]) /\ chunk'[j][1] = content[latest][(q + 1) + j]
                          /\ ~chunk'[j][2] => chunk'[j][1] \in cut /\ (q + 1) + j = p + 1 /\ j = Len(chunk')
        BY <1>1
      <4>1. j + 1 \in 1..Len(chunk) /\ (q + 1) + j = q + (j + 1) /\ (j + 1 = Len(chunk) => j = Len(chunk'))  BY <3>5
      <4>2. chunk'[j] = chunk[j + 1]  BY <1>1
      <4> QED  BY <1>7, <4>1, <4>2
    <3>9. \/ (q + 1) + Len(chunk') = p
          \/ chunk' # <<>> /\ (q + 1) + Len(chunk') = p + 1 /\ ~chunk'[Len(chunk')][2]
      <4>1. CASE q + Len(chunk) = p  BY <3>6, <4>1
      <4>2. CASE q + Len(chunk) = p + 1 /\ ~chunk[Len(chunk)][2]
        <5>1. chunk' # <<>>
          <6>1. Len(chunk') # 0  BY <1>1, <3>7, <4>2
          <6> QED  BY <6>1
        <5> QED  BY <3>6, <3>7, <4>2, <5>1
      <4> QED  BY <1>7, <4>1, <4>2
    <3>10. ChunkFrom(q + 1, p)'  BY <1>2, <1>4, <3>8, <3>9 DEF ChunkFrom
    <3> QED  BY <1>2, <1>4, <1>6, <3>3, <3>4, <3>10 DEF RemotePlace
  <2>2. CASE ~chunk[1][2]
    <3>1. l \in cut /\ q + 1 = p + 1 /\ 1 = Len(chunk)  BY <1>7, <1>8, <2>2
    <3>2. q = p /\ Len(chunk') = 0
      <4>1. q \in Nat /\ p \in Nat /\ Len(chunk') = Len(chunk) - 1  BY <1>1, <1>6
      <4> QED  BY <3>1, <4>1
    <3>3. Read(latest, q)'
      <4>1. CASE counted' = counted
        BY <1>2, <1>3, <1>6, <4>1, ReadRemains
      <4>2. CASE \A m \in Line : counted'[m] = IF m = l THEN counted[m] + 1 ELSE counted[m]
        <5>1. \A r \in {q, q + 1} : Read(latest, r)'
          BY <1>2, <1>3, <1>6, <1>9, <3>1, <4>2, ReadOn
        <5> QED  BY <5>1
      <4> QED  BY <1>10, <4>1, <4>2
    <3>4. chunk' = <<>>
      <4>1. chunk' \in Seq(Line \X BOOLEAN)  BY DEF Base, TypeOK
      <4> QED  BY <3>2, <4>1
    <3>5. Between(p, s)'  BY <1>2, <1>4, <1>6, <3>2, <3>3 DEF Between
    <3>6. \E a, t, r \in Nat :
            /\ offset' = LineSize * a /\ size' = LineSize * t /\ a <= t /\ t <= Len(content'[latest'])
            /\ Read(latest, r)' /\ ChunkFrom(r, a)'
      BY <1>6, <3>4, <3>5, BetweenPlace
    <3> QED  BY <1>2, <3>6 DEF RemotePlace
  <2> QED  BY <2>1, <2>2
<1>14. LocalPlace'  BY <1>2 DEF LocalPlace
<1> QED  BY <1>2, <1>11, <1>12, <1>13, <1>14 DEF Progress

LEMMA NextRemoteProgress ==
  ASSUME Base, Base', Undisturbed, Progress, NextRemoteFile, ~Fault
  PROVE  Progress'
<1>1. pc = "next" /\ latest \in Exists /\ latest \in File /\ ~local /\ Begun(latest) /\ chunk = <<>>
  BY DEF NextRemoteFile, Base, Control, Exists
<1>2. modification \in Nat /\ size \in Nat  BY DEF Base, TypeOK
<1>3. UNCHANGED <<serverVars, chunk, cut, local>>  BY DEF NextRemoteFile
<1>4. Exists' = Exists /\ content' = content /\ modified' = modified /\ active' = active /\ reused' = reused /\ truncate' = truncate
  BY <1>3, ServerKept DEF serverVars
<1>5. PICK p \in Nat, s \in Nat : Between(p, s)  BY <1>1, BetweenIs
<1>6. offset = size  BY <1>1 DEF Progress, RemotePlace
<1>7. ASSUME NEW file \in NextFiles(modification) \ {latest},
             Remember(size), latest' = file, size' = Bytes(file),
             offset' = IF ~truncate /\ fileOffsets'[file] # None THEN fileOffsets'[file] ELSE 0,
             pc' = "fetch", Opened(file, offset' \div LineSize), UNCHANGED <<faults, countVars>>
      PROVE  Progress'
  <2>1. file \in Exists /\ modified[file] > modification /\ file # latest  BY NextIs
  <2>2. file \in File /\ Bytes(file) = LineSize * Len(content[file]) /\ Len(content[file]) \in Nat
    BY <2>1, ContentIs DEF Base
  <2>3. offset' \in Nat /\ offset' \div LineSize \in Nat /\ counted' = counted
    BY <1>7, DivIs DEF Base, TypeOK, countVars
  <2>4. \A g \in File : /\ origin'[g] = IF g = file /\ origin[file] = None THEN offset' \div LineSize ELSE origin[g]
                        /\ Begun(g)' <=> Begun(g) \/ g = file
    BY <1>7, <2>2, <2>3, OpenedIs DEF Base, Begun
  <2>5. ASSUME ~reused
        PROVE  ~Begun(file) /\ ~Begun(active) /\ \A g \in File : Begun(g) => modified[g] <= modified[file]
    <3>1. GoesForward  BY <1>1, <2>5 DEF Progress, InOrder
    <3> QED  BY <1>1, <2>1, <2>2, <2>5, <3>1, MovesForwardFrom
  <2>6. InOrder'
    <3>1. active \in File  BY DEF Base, TypeOK, Exists
    <3> QED  BY <1>4, <1>7, <2>4, <2>5, <3>1 DEF InOrder, GoesForward
  <2>7. Unopened'  BY <1>3, <2>3, <2>4, UnopenedRemains DEF Progress
  <2>8. Left'
    <3> SUFFICES ASSUME NEW f \in File, Claimed(f)', f # file PROVE CanResume(f)'  BY <1>7 DEF Left
    <3>1. Claimed(f) /\ origin'[f] = origin[f]  BY <1>1, <2>4 DEF Claimed
    <3>2. \E q \in Nat : /\ Read(latest, q)
                         /\ local /\ origin[latest] = 0 => size = q
                         /\ ~local => size = LineSize * q
      BY <1>1, <1>5, <1>6 DEF Between
    <3> QED  BY <1>1, <1>2, <1>3, <1>7, <2>3, <3>1, <3>2, LeaveFile
  <2>9. \E q \in Nat : offset' = LineSize * q /\ Read(latest, q)'
    <3>1. PICK f \in File : f = file  BY <2>2
    <3>2. f \in Exists /\ latest' = f  BY <1>7, <2>1, <3>1
    <3>3. CASE ~Begun(f)
      <4>1. fileOffsets[f] = None  BY <3>3 DEF Base, ParserKnows
      <4>2. fileOffsets'[f] = None  BY <1>1, <1>2, <1>7, <3>1, <4>1, RememberIs DEF Base
      <4>3. offset' = 0  BY <1>7, <3>1, <4>2
      <4>4. 0 \div LineSize = 0 /\ LineSize * 0 = 0  BY LogParserAssumption
      <4>5. origin'[f] = 0  BY <2>4, <3>1, <3>3, <4>3, <4>4 DEF Begun
      <4>6. 0 \in 0..Len(content[f])  BY <2>2, <3>1
      <4>7. Read(f, 0)'  BY <1>3, <2>3, <3>2, <3>3, <4>5, <4>6, ReadFromOrigin DEF Progress
      <4> QED  BY <3>2, <4>3, <4>4, <4>7
    <3>4. CASE Begun(f)
      <4>1. reused /\ ~truncate  BY <2>5, <3>1, <3>4 DEF Undisturbed
      <4>2. Claimed(f) /\ f # latest  BY <1>1, <1>7, <3>1, <3>4 DEF Claimed
      <4>3. PICK q \in Nat : Read(f, q) /\ fileOffsets[f] = LineSize * q
        BY <1>1, <4>1, <4>2 DEF Progress, Left, CanResume
      <4>4. fileOffsets'[f] = LineSize * q  BY <1>1, <1>2, <1>7, <4>1, <4>2, <4>3, RememberKeeps
      <4>5. LineSize * q # None  BY LogParserAssumption, TimesMonotone
      <4>6. offset' = LineSize * q  BY <1>7, <3>1, <4>1, <4>4, <4>5
      <4>7. origin'[f] = origin[f]  BY <2>4, <3>1, <3>4 DEF Begun
      <4>8. Read(f, q)'  BY <1>3, <2>3, <3>4, <4>3, <4>7, ReadRemains
      <4> QED  BY <3>2, <4>6, <4>8
    <3> QED  BY <3>3, <3>4
  <2>10. RemotePlace'
    <3>1. PICK q \in Nat : offset' = LineSize * q /\ Read(latest, q)'  BY <2>9
    <3>2. q <= Len(content[file])  BY <1>4, <1>7, <3>1 DEF Read
    <3>3. Len(content[file]) <= Len(content[file])  BY <2>2
    <3>4. Between(q, Len(content[latest]))'
      BY <1>4, <1>7, <2>2, <3>1, <3>2, <3>3 DEF Between
    <3>5. \E a, t, r \in Nat :
            /\ offset' = LineSize * a /\ size' = LineSize * t /\ a <= t /\ t <= Len(content'[latest'])
            /\ Read(latest, r)' /\ ChunkFrom(r, a)'
      BY <1>1, <1>3, <1>4, <1>7, <2>2, <3>1, <3>4, BetweenPlace
    <3> QED  BY <1>7, <3>5 DEF RemotePlace
  <2>11. LocalPlace'  BY <1>7 DEF LocalPlace
  <2> QED  BY <1>7, <2>6, <2>7, <2>8, <2>10, <2>11 DEF Progress
<1>8. ASSUME pc' = "lines", CountNothing, UNCHANGED <<fileOffsets, latest, size, offset, origin>>
      PROVE  Progress'
  <2>1. counted' = counted  BY <1>8 DEF CountNothing
  <2>2. InOrder'  BY <1>1, <1>4, <1>8 DEF Progress, InOrder, GoesForward, LooksForward, Begun
  <2>3. Unopened' /\ Left' /\ Read(latest, p)'  BY <1>1, <1>3, <1>5, <1>8, <2>1, QuietRemains DEF Between
  <2>4. RemotePlace'
    <3>1. Between(p, s)'  BY <1>4, <1>5, <1>8, <2>3 DEF Between
    <3>2. \E a, t, r \in Nat :
            /\ offset' = LineSize * a /\ size' = LineSize * t /\ a <= t /\ t <= Len(content'[latest'])
            /\ Read(latest, r)' /\ ChunkFrom(r, a)'
      BY <1>1, <1>3, <3>1, BetweenPlace
    <3> QED  BY <1>8, <3>2 DEF RemotePlace
  <2>5. LocalPlace'  BY <1>8 DEF LocalPlace
  <2> QED  BY <1>8, <2>2, <2>3, <2>4, <2>5 DEF Progress
<1> QED  BY <1>7, <1>8 DEF NextRemoteFile

LEMMA TimesStrict ==
  ASSUME NEW a \in Nat, NEW b \in Nat
  PROVE  /\ a < b => LineSize * a + LineSize <= LineSize * b /\ LineSize * a < LineSize * b
         /\ LineSize * a < LineSize * b => a < b
         /\ LineSize * a <= LineSize * b => a <= b
         /\ LineSize * (a + 1) = LineSize * a + LineSize
<1>1. LineSize \in Nat \ {0}  BY LogParserAssumption
<1>2. LineSize * (a + 1) = LineSize * a + LineSize /\ LineSize * a \in Nat /\ LineSize * b \in Nat  BY <1>1
<1>3. a < b => LineSize * (a + 1) <= LineSize * b
  <2> SUFFICES ASSUME a < b PROVE LineSize * (a + 1) <= LineSize * b  OBVIOUS
  <2>1. a + 1 \in Nat /\ a + 1 <= b  OBVIOUS
  <2> QED  BY <2>1, TimesMonotone
<1>4. b <= a => LineSize * b <= LineSize * a  BY TimesMonotone
<1>5. b < a => LineSize * b < LineSize * a
  <2> SUFFICES ASSUME b < a PROVE LineSize * b < LineSize * a  OBVIOUS
  <2>1. b + 1 \in Nat /\ b + 1 <= a  OBVIOUS
  <2>2. LineSize * (b + 1) <= LineSize * a  BY <2>1, TimesMonotone
  <2>3. LineSize * (b + 1) = LineSize * b + LineSize  BY <1>1
  <2> DEFINE x == LineSize * a
             y == LineSize * b
  <2>4. x \in Nat /\ y \in Nat /\ y + LineSize <= x  BY <1>2, <2>2, <2>3
  <2> HIDE DEF x, y
  <2>5. y < x  BY <1>1, <2>4
  <2> QED  BY <2>5 DEF x, y
<1> DEFINE x == LineSize * a
           y == LineSize * b
<1>6. /\ x \in Nat /\ y \in Nat /\ (a < b => x + LineSize <= y) /\ (b <= a => y <= x) /\ (b < a => y < x)
  BY <1>2, <1>3, <1>4, <1>5
<1> HIDE DEF x, y
<1>7. (a < b => x + LineSize <= y /\ x < y) /\ (x < y => a < b) /\ (x <= y => a <= b)  BY <1>1, <1>6
<1> QED  BY <1>2, <1>7 DEF x, y

LEMMA QuotientIs ==
  ASSUME NEW x \in Nat
  PROVE  /\ x \div LineSize \in Nat
         /\ LineSize * (x \div LineSize) <= x /\ x < LineSize * (x \div LineSize) + LineSize
BY LogParserAssumption

\* A chunk begins and, but for a line that is cut, ends with a line.
LEMMA FetchNumbers ==
  ASSUME Base, Progress, FetchChunk
  PROVE  \E p, s, e \in Nat :
           /\ Between(p, s) /\ p < e /\ e <= s /\ offset' = LineSize * e
           /\ LineSize * e <= ChunkEnd /\ ChunkEnd < LineSize * e + LineSize /\ ChunkEnd <= LineSize * s
<1>1. pc = "fetch" /\ chunk = <<>> /\ size # offset  BY FetchIs
<1>2. latest \in Exists  BY <1>1 DEF Base, Control
<1>3. PICK p \in Nat, s \in Nat : Between(p, s)  BY <1>1, BetweenIs
<1>4. p <= s /\ s <= Len(content[latest]) /\ offset = LineSize * p /\ size = LineSize * s  BY <1>3 DEF Between
<1>5. Len(content[latest]) \in Nat /\ Bytes(latest) = LineSize * Len(content[latest])  BY <1>2, ContentIs DEF Base
<1>6. p < s  BY <1>1, <1>3, <1>4
<1>7. offset \in Nat /\ size \in Nat /\ Bytes(latest) \in Nat /\ offset + LineSize <= size /\ size <= Bytes(latest)
  <2>1. offset + LineSize <= size  BY <1>3, <1>4, <1>6, TimesStrict
  <2>2. size <= Bytes(latest)  BY <1>3, <1>4, <1>5, TimesMonotone
  <2>3. Bytes(latest) \in Nat  BY <1>2, ContentIs DEF Base
  <2> QED  BY <2>1, <2>2, <2>3 DEF Base, TypeOK
<1>8. LineSize \in Nat \ {0} /\ maxChunkSize \in Nat /\ LineSize <= maxChunkSize  BY LogParserAssumption
<1>9. /\ SizeToRead = IF maxChunkSize <= size - offset THEN maxChunkSize ELSE size - offset
      /\ SizeToRead \in Nat /\ LineSize <= SizeToRead /\ offset + SizeToRead <= size
  <2>1. size >= offset /\ size - offset \in Nat /\ LineSize <= size - offset  BY <1>7, <1>8
  <2>2. SizeToRead = Min({maxChunkSize, size - offset})  BY <2>1 DEF SizeToRead
  <2>3. SizeToRead = IF maxChunkSize <= size - offset THEN maxChunkSize ELSE size - offset
    BY <1>8, <2>1, <2>2, MinMax
  <2> QED  BY <1>7, <1>8, <2>1, <2>3
<1>10. ChunkEnd = offset + SizeToRead
  <2>1. Max({offset, Bytes(latest)}) = Bytes(latest)
    <3>1. offset <= Bytes(latest)  BY <1>7, <1>8
    <3> QED  BY <1>7, <3>1, MinMax
  <2>2. ChunkEnd = Min({offset + SizeToRead, Bytes(latest)})  BY <2>1 DEF ChunkEnd
  <2>3. offset + SizeToRead \in Nat /\ offset + SizeToRead <= Bytes(latest)  BY <1>7, <1>9
  <2> QED  BY <1>7, <2>2, <2>3, MinMax
<1>11. ChunkEnd \in Nat /\ offset + LineSize <= ChunkEnd /\ ChunkEnd <= size  BY <1>7, <1>8, <1>9, <1>10
<1> DEFINE e == ChunkEnd \div LineSize
           w == LineSize * e
<1>12. e \in Nat /\ w \in Nat /\ w <= ChunkEnd /\ ChunkEnd < w + LineSize
  <2>1. e \in Nat /\ w <= ChunkEnd /\ ChunkEnd < w + LineSize  BY <1>11, QuotientIs
  <2> HIDE DEF e
  <2> QED  BY <2>1, TimesMonotone
<1>13. p < e
  <2> HIDE DEF w
  <2>1. offset < w  BY <1>7, <1>8, <1>11, <1>12
  <2> HIDE DEF e
  <2> QED  BY <1>3, <1>4, <1>12, <2>1, TimesStrict DEF w
<1>14. e <= s
  <2> HIDE DEF w
  <2>1. w <= size  BY <1>7, <1>11, <1>12
  <2> HIDE DEF e
  <2> QED  BY <1>3, <1>4, <1>12, <2>1, TimesStrict DEF w
<1>15. Rest(offset, ChunkEnd) = ChunkEnd - w
  <2>1. Rest(offset, ChunkEnd) = ChunkEnd - Max({offset, w})  BY DEF Rest
  <2> HIDE DEF w
  <2>2. offset <= w  BY <1>7, <1>8, <1>11, <1>12
  <2> QED  BY <1>7, <1>12, <2>1, <2>2, MinMax
<1>16. offset' = w
  <2>1. offset' = IF SizeToRead = maxChunkSize
                  THEN offset + SizeToRead - Rest(offset, ChunkEnd) ELSE offset + SizeToRead
    BY FetchIs
  <2>2. CASE SizeToRead = maxChunkSize
    <3> HIDE DEF w
    <3> QED  BY <1>7, <1>9, <1>10, <1>12, <1>15, <2>1, <2>2
  <2>3. CASE SizeToRead # maxChunkSize
    <3>1. offset' = size /\ ChunkEnd = size  BY <1>7, <1>9, <1>10, <2>1, <2>3
    <3>2. s <= e
      <4>1. LineSize * (e + 1) = w + LineSize
        <5> HIDE DEF e
        <5> QED  BY <1>12, <1>3, TimesStrict DEF w
      <4>2. e + 1 \in Nat /\ LineSize * s < LineSize * (e + 1)  BY <1>4, <1>12, <3>1, <4>1
      <4> HIDE DEF e, w
      <4>3. s < e + 1  BY <1>3, <4>2, TimesStrict
      <4> QED  BY <1>3, <1>12, <4>3
    <3>3. s = e
      <4> HIDE DEF e, w
      <4> QED  BY <1>3, <1>12, <1>14, <3>2
    <3> QED  BY <1>4, <3>1, <3>3
  <2> QED  BY <2>2, <2>3
<1> HIDE DEF e
<1> QED  BY <1>3, <1>4, <1>11, <1>12, <1>13, <1>14, <1>16

\* The lines that begin in a chunk: the whole ones, and one more if it is cut.
LEMMA StartsFrom ==
  ASSUME Base, latest \in Exists, NEW p \in Nat, NEW s \in Nat, NEW e \in Nat, NEW end \in Nat,
         p < e, e <= s, s <= Len(content[latest]),
         LineSize * e <= end, end < LineSize * e + LineSize, end <= LineSize * s
  PROVE  LET k == IF LineSize * e < end THEN e + 1 ELSE e
             S == Starts(LineSize * p, end)
         IN /\ k \in Nat /\ p < k /\ k <= Len(content[latest])
            /\ Min(S) = p + 1 /\ Cardinality(S) = k - p
<1> DEFINE k == IF LineSize * e < end THEN e + 1 ELSE e
           S == Starts(LineSize * p, end)
           n == Len(content[latest])
<1>1. n \in Nat  BY ContentIs DEF Base
<1>2. k \in Nat /\ p < k /\ k <= n
  <2>1. LineSize * e < end => e < s
    <3> SUFFICES ASSUME LineSize * e < end PROVE e < s  OBVIOUS
    <3>1. LineSize * e \in Nat /\ LineSize * s \in Nat  BY TimesMonotone, LogParserAssumption
    <3>2. LineSize * e < LineSize * s  BY <3>1
    <3> QED  BY <3>2, TimesStrict
  <2> QED  BY <1>1, <2>1
<1>3. ASSUME NEW i \in 1..n
      PROVE  (LineSize * (i - 1) >= LineSize * p /\ LineSize * (i - 1) < end) <=> i \in (p + 1)..k
  <2> DEFINE a == i - 1
  <2>0. a \in Nat /\ i = a + 1  OBVIOUS
  <2> HIDE DEF a
  <2> DEFINE x == LineSize * a
             y == LineSize * p
             z == LineSize * e
  <2>1. x \in Nat /\ y \in Nat /\ z \in Nat /\ LineSize \in Nat \ {0}  BY <2>0, TimesMonotone, LogParserAssumption
  <2>2. (a < p => x < y) /\ (p <= a => y <= x)  BY <2>0, TimesStrict, TimesMonotone
  <2>3. (a < e => x + LineSize <= z) /\ (a = e => x = z)  BY <2>0, TimesStrict
  <2>4. e < a => z + LineSize <= x  BY <2>0, TimesStrict
  <2>5. z <= end /\ end < z + LineSize /\ k = IF z < end THEN e + 1 ELSE e  OBVIOUS
  <2> HIDE DEF x, y, z, k
  <2>6. (x >= y) <=> p <= a  BY <2>0, <2>1, <2>2
  <2>7. x < end <=> a < k
    <3>1. CASE a < e
      <4>1. x < end  BY <2>1, <2>3, <2>5, <3>1
      <4>2. a < k  BY <2>0, <2>5, <3>1
      <4> QED  BY <4>1, <4>2
    <3>2. CASE a = e  BY <2>0, <2>1, <2>3, <2>5, <3>2
    <3>3. CASE e < a
      <4>1. ~(x < end)  BY <2>1, <2>4, <2>5, <3>3
      <4>2. ~(a < k)  BY <2>0, <2>5, <3>3
      <4> QED  BY <4>1, <4>2
    <3> QED  BY <2>0, <3>1, <3>2, <3>3
  <2>8. (x >= y /\ x < end) <=> i \in (p + 1)..k  BY <1>2, <2>0, <2>6, <2>7
  <2> QED  BY <2>8 DEF x, y, a
<1>4. S = (p + 1)..k
  <2>1. S = {i \in 1..n : LineSize * (i - 1) >= LineSize * p /\ LineSize * (i - 1) < end}  BY DEF Starts
  <2> HIDE DEF S, k, n
  <2>2. \A i \in (p + 1)..k : i \in 1..n  BY <1>1, <1>2
  <2>3. \A i \in S : i \in (p + 1)..k  BY <1>3, <2>1
  <2>4. \A i \in (p + 1)..k : i \in S  BY <1>3, <2>1, <2>2
  <2> QED  BY <2>3, <2>4
<1> HIDE DEF S, k, n
<1>5. Cardinality(S) = k - p  BY <1>2, <1>4, FS_Interval
<1>6. Min(S) = p + 1
  <2>1. p + 1 \in S /\ \A j \in S : p + 1 <= j  BY <1>2, <1>4
  <2>2. Min(S) \in S /\ \A j \in S : Min(S) <= j  BY <2>1 DEF Min
  <2>3. Min(S) \in Nat /\ Min(S) <= p + 1 /\ p + 1 <= Min(S)  BY <1>2, <1>4, <2>1, <2>2
  <2> QED  BY <2>3
<1> QED  BY <1>2, <1>5, <1>6 DEF S, k, n

LEMMA FetchProgress ==
  ASSUME Base, Base', Undisturbed, Progress, FetchChunk
  PROVE  Progress'
<1>1. /\ pc = "fetch" /\ pc' = "lines" /\ chunk = <<>> /\ size' = size
      /\ UNCHANGED <<serverVars, counted, local, latest, fileOffsets, origin>>
      /\ cut' = cut \cup {chunk'[j][1] : j \in {j \in DOMAIN chunk' : ~chunk'[j][2]}}
  BY FetchIs DEF countVars
<1>2. latest \in File /\ Begun(latest) /\ latest \in Exists  BY <1>1 DEF Base, Control, Exists
<1>3. content' = content /\ modified' = modified /\ active' = active /\ reused' = reused /\ Exists' = Exists
  BY <1>1, ServerKept DEF serverVars
<1>4. cut \subseteq cut' /\ \A j \in DOMAIN chunk' : ~chunk'[j][2] => chunk'[j][1] \in cut'  BY <1>1
<1>5. InOrder'  BY <1>1, <1>3 DEF Progress, InOrder, GoesForward, LooksForward, Begun
<1>6. Unopened'  BY <1>1, UnopenedRemains DEF Progress, Begun
<1>7. Left'
  <2> SUFFICES ASSUME NEW f \in File, Claimed(f)', f # latest PROVE CanResume(f)'  BY <1>1 DEF Left
  <2>1. Claimed(f) /\ Begun(f)  BY <1>1, <1>3 DEF Claimed, Begun
  <2>2. CanResume(f)  BY <2>1 DEF Progress, Left
  <2> QED  BY <1>1, <1>4, <2>1, <2>2, ResumeRemains
<1>8. RemotePlace'
  <2>1. PICK p \in Nat, s \in Nat, e \in Nat :
          /\ Between(p, s) /\ p < e /\ e <= s /\ offset' = LineSize * e
          /\ LineSize * e <= ChunkEnd /\ ChunkEnd < LineSize * e + LineSize /\ ChunkEnd <= LineSize * s
    BY FetchNumbers
  <2>2. s <= Len(content[latest]) /\ offset = LineSize * p /\ size = LineSize * s /\ Read(latest, p)
    BY <2>1 DEF Between
  <2>3. PICK end \in Nat : end = ChunkEnd  BY <1>2, ChunkNumbers DEF Base
  <2> DEFINE k == IF LineSize * e < end THEN e + 1 ELSE e
             S == Starts(LineSize * p, end)
  <2>4. k \in Nat /\ p < k /\ k <= Len(content[latest]) /\ Min(S) = p + 1 /\ Cardinality(S) = k - p
    BY <1>2, <2>1, <2>2, <2>3, StartsFrom
  <2>5. chunk' = [j \in 1..Cardinality(S) |->
                    <<content[latest][Min(S) + j - 1], LineSize * (Min(S) + j - 1) <= end>>]
    BY <2>2, <2>3, FetchIs
  <2>6. k = e \/ (k = e + 1 /\ LineSize * e < end)  OBVIOUS
  <2> HIDE DEF k, S
  <2>7. k - p \in Nat /\ \A j \in 1..(k - p) : Min(S) + j - 1 = p + j /\ p + j \in Nat /\ p + j <= k
    BY <2>1, <2>4
  <2>8. /\ DOMAIN chunk' = 1..(k - p) /\ Len(chunk') = k - p
        /\ \A j \in 1..(k - p) : chunk'[j][1] = content[latest][p + j] /\ chunk'[j][2] = (LineSize * (p + j) <= end)
    <3>1. DOMAIN chunk' = 1..(k - p)  BY <2>4, <2>5
    <3>2. Len(chunk') = k - p
      <4>1. chunk' \in Seq(Line \X BOOLEAN)  BY DEF Base, TypeOK
      <4>2. Len(chunk') \in Nat /\ DOMAIN chunk' = 1..Len(chunk')  BY <4>1
      <4> QED  BY <2>7, <3>1, <4>2
    <3>3. ASSUME NEW j \in 1..(k - p)
          PROVE  chunk'[j][1] = content[latest][p + j] /\ chunk'[j][2] = (LineSize * (p + j) <= end)
      <4>1. Min(S) + j - 1 = p + j /\ j \in 1..Cardinality(S)  BY <2>4, <2>7
      <4>2. chunk'[j] = <<content[latest][Min(S) + j - 1], LineSize * (Min(S) + j - 1) <= end>>
        BY <2>5, <4>1
      <4> DEFINE b == LineSize * (p + j) <= end
      <4>3. chunk'[j] = <<content[latest][p + j], b>>  BY <4>1, <4>2
      <4> HIDE DEF b
      <4>4. chunk'[j][1] = content[latest][p + j] /\ chunk'[j][2] = b  BY <4>3
      <4> QED  BY <4>4 DEF b
    <3> QED  BY <3>1, <3>2, <3>3
  <2>9. \A a \in Nat : LineSize * a <= end <=> a <= e
    <3> SUFFICES ASSUME NEW a \in Nat PROVE LineSize * a <= end <=> a <= e  OBVIOUS
    <3>1. LineSize * a \in Nat /\ LineSize * e \in Nat /\ LineSize \in Nat \ {0}
      BY TimesMonotone, LogParserAssumption
    <3>2. CASE a <= e
      <4>1. LineSize * a <= LineSize * e  BY <3>2, TimesMonotone
      <4> QED  BY <2>1, <2>3, <3>1, <3>2, <4>1
    <3>3. CASE ~(a <= e)
      <4>1. LineSize * e + LineSize <= LineSize * a  BY <3>3, TimesStrict
      <4> QED  BY <2>1, <2>3, <3>1, <3>3, <4>1
    <3> QED  BY <3>2, <3>3
  <2>10. ChunkFrom(p, e)'
    <3>1. ASSUME NEW j \in DOMAIN chunk'
          PROVE  /\ p + j <= Len(content[latest]) /\ chunk'[j][1] = content[latest][p + j]
                 /\ ~chunk'[j][2] => chunk'[j][1] \in cut' /\ p + j = e + 1 /\ j = Len(chunk')
      <4>1. j \in 1..(k - p) /\ p + j \in Nat /\ p + j <= k  BY <2>7, <2>8
      <4>2. chunk'[j][1] = content[latest][p + j] /\ chunk'[j][2] = (LineSize * (p + j) <= end)
        BY <2>8, <4>1
      <4>3. p + j <= Len(content[latest])
        <5>1. Len(content[latest]) \in Nat  BY <1>2, ContentIs DEF Base
        <5> QED  BY <2>4, <4>1, <5>1
      <4>4. ~chunk'[j][2] => p + j = e + 1 /\ j = Len(chunk')
        <5> SUFFICES ASSUME ~chunk'[j][2] PROVE p + j = e + 1 /\ j = Len(chunk')  OBVIOUS
        <5>1. ~(p + j <= e)  BY <2>9, <4>1, <4>2
        <5>2. p + j = e + 1 /\ k = e + 1  BY <2>1, <2>6, <4>1, <5>1
        <5>3. j = k - p  BY <2>1, <2>4, <4>1, <5>2
        <5> QED  BY <2>8, <5>2, <5>3
      <4> QED  BY <1>4, <4>2, <4>3, <4>4
    <3>2. p + Len(chunk') = e \/ (chunk' # <<>> /\ p + Len(chunk') = e + 1 /\ ~chunk'[Len(chunk')][2])
      <4>1. CASE k = e  BY <2>1, <2>8, <4>1
      <4>2. CASE k = e + 1
        <5>1. Len(chunk') \in 1..(k - p) /\ p + Len(chunk') = e + 1 /\ Len(chunk') # 0
          BY <2>1, <2>4, <2>7, <2>8, <4>2
        <5>2. chunk'[Len(chunk')][2] = (LineSize * (e + 1) <= end)  BY <2>8, <5>1
        <5>3. e + 1 \in Nat /\ ~(e + 1 <= e)  BY <2>1
        <5>4. ~(LineSize * (e + 1) <= end)  BY <2>9, <5>3
        <5>5. chunk' # <<>>  BY <5>1
        <5> QED  BY <5>1, <5>2, <5>4, <5>5
      <4> QED  BY <2>6, <4>1, <4>2
    <3> QED  BY <1>1, <1>3, <3>1, <3>2 DEF ChunkFrom
  <2>11. Read(latest, p)'  BY <1>1, <1>2, <1>4, <2>2, ReadRemains
  <2> QED  BY <1>1, <1>3, <2>1, <2>2, <2>10, <2>11 DEF RemotePlace
<1>9. LocalPlace'  BY <1>1 DEF LocalPlace
<1> QED  BY <1>1, <1>5, <1>6, <1>7, <1>8, <1>9 DEF Progress

-----------------------------------------------------------------------------
(* The server's steps.                                                     *)

\* What the parser has read stays read while the server writes.
LEMMA ServerProgress ==
  ASSUME Base, Base', Progress, Grown, InOrder', truncate' = truncate, reused => reused',
         UNCHANGED <<counted, cut, chunk, offset, size, linesRead, position, local, pc, latest, fileOffsets, origin>>
  PROVE  Progress'
<1>1. \A f \in Exists :
        /\ f \in Exists' /\ Len(content[f]) <= Len(content'[f])
        /\ \A i \in DOMAIN content[f] : i \in DOMAIN content'[f] /\ content'[f][i] = content[f][i]
        /\ \A i \in DOMAIN content'[f] : \/ i \in DOMAIN content[f] /\ content'[f][i] = content[f][i]
                                         \/ i > Len(content[f]) /\ counted[content'[f][i]] = 0
  BY DEF Grown
<1>2. ASSUME NEW f \in File, Begun(f), NEW q, Read(f, q) PROVE Read(f, q)'
  <2>1. f \in Exists  BY <1>2 DEF Base, ParserKnows
  <2> QED  BY <1>1, <1>2, <2>1, ReadKept
<1>3. \A f \in File : (Begun(f)' <=> Begun(f)) /\ (Claimed(f)' => Claimed(f))  BY DEF Claimed, Begun
<1>4. Unopened'
  <2> SUFFICES ASSUME NEW f \in Exists', ~Begun(f), NEW i \in DOMAIN content'[f]
               PROVE  counted[content'[f][i]] = 0
    BY DEF Unopened, Untouched, Begun
  <2>1. CASE f \in Exists
    <3>1. \A k \in DOMAIN content[f] : counted[content[f][k]] = 0  BY <2>1 DEF Progress, Unopened, Untouched
    <3> QED  BY <1>1, <2>1, <3>1
  <2>2. CASE f \notin Exists
    <3>1. content'[f] = <<>>  BY <2>2 DEF Grown
    <3> QED  BY <3>1
  <2> QED  BY <2>1, <2>2
<1>5. Left'
  <2> SUFFICES ASSUME NEW f \in File, Claimed(f)', f # latest \/ pc = "open" PROVE CanResume(f)'  BY DEF Left
  <2>1. Claimed(f) /\ Begun(f)  BY <1>3 DEF Claimed
  <2>2. PICK q \in Nat : /\ Read(f, q)
                         /\ ~truncate /\ local /\ origin[f] = 0 => fileOffsets[f] = q
                         /\ ~truncate /\ ~local => fileOffsets[f] = LineSize * q
    BY <2>1 DEF Progress, Left, CanResume
  <2>3. Read(f, q)'  BY <1>2, <2>1, <2>2
  <2> QED  BY <2>2, <2>3 DEF CanResume
<1>6. LocalPlace'
  <2> SUFFICES ASSUME pc \in {"read", "wait"}, Claimed(latest)'
               PROVE  Read(latest, position)' /\ (origin'[latest] = 0 => linesRead' = position')
    BY DEF LocalPlace
  <2>1. latest \in File /\ Begun(latest)  BY DEF Base, Control, Exists
  <2>2. Claimed(latest)  BY <1>3, <2>1 DEF Claimed, Begun
  <2>3. Read(latest, position) /\ (origin[latest] = 0 => linesRead = position)  BY <2>2 DEF Progress, LocalPlace
  <2> QED  BY <1>2, <2>1, <2>3
<1>7. RemotePlace'
  <2> SUFFICES ASSUME pc \in {"fetch", "lines", "next"}
               PROVE  /\ \E p, s, q \in Nat :
                           /\ offset = LineSize * p /\ size = LineSize * s /\ p <= s /\ s <= Len(content'[latest])
                           /\ Read(latest, q)' /\ ChunkFrom(q, p)'
                      /\ pc = "next" => offset = size
    BY DEF RemotePlace
  <2>1. latest \in File /\ latest \in Exists /\ Begun(latest)  BY DEF Base, Control, Exists
  <2>2. PICK p \in Nat, s \in Nat, q \in Nat :
          /\ offset = LineSize * p /\ size = LineSize * s /\ p <= s /\ s <= Len(content[latest])
          /\ Read(latest, q) /\ ChunkFrom(q, p)
    BY DEF Progress, RemotePlace
  <2>3. Read(latest, q)'  BY <1>2, <2>1, <2>2
  <2>4. /\ Len(content[latest]) \in Nat /\ DOMAIN content[latest] = 1..Len(content[latest])
        /\ Len(content'[latest]) \in Nat /\ Len(content[latest]) <= Len(content'[latest])
    <3>0. content' \in [File -> Seq(Line) \cup {None}] /\ latest \in Exists'  BY <1>1, <2>1 DEF Base, TypeOK
    <3>1. content'[latest] \in Seq(Line)  BY <2>1, <3>0 DEF Exists
    <3> QED  BY <1>1, <2>1, <3>1, ContentIs DEF Base
  <2>5. s <= Len(content'[latest])  BY <2>2, <2>4
  <2>6. ASSUME NEW j \in DOMAIN chunk
        PROVE  /\ q + j <= Len(content'[latest]) /\ chunk[j][1] = content'[latest][q + j]
               /\ ~chunk[j][2] => chunk[j][1] \in cut /\ q + j = p + 1 /\ j = Len(chunk)
    <3>1. /\ q + j <= Len(content[latest]) /\ chunk[j][1] = content[latest][q + j]
          /\ ~chunk[j][2] => chunk[j][1] \in cut /\ q + j = p + 1 /\ j = Len(chunk)
      BY <2>2 DEF ChunkFrom
    <3>2. j \in Nat \ {0}
      <4>1. chunk \in Seq(Line \X BOOLEAN)  BY DEF Base, TypeOK
      <4> QED  BY <4>1
    <3>3. q + j \in DOMAIN content[latest] /\ q + j <= Len(content'[latest])  BY <2>2, <2>4, <3>1, <3>2
    <3>4. content'[latest][q + j] = content[latest][q + j]  BY <1>1, <2>1, <3>3
    <3> QED  BY <3>1, <3>3, <3>4
  <2>7. ChunkFrom(q, p)'  BY <2>2, <2>6 DEF ChunkFrom
  <2>8. pc = "next" => offset = size  BY DEF Progress, RemotePlace
  <2> QED  BY <2>2, <2>3, <2>5, <2>7, <2>8
<1> QED  BY <1>4, <1>5, <1>6, <1>7 DEF Progress

LEMMA WriteProgress ==
  ASSUME Base, Base', Undisturbed', Progress, WriteLine
  PROVE  Progress'
<1>1. Grown  BY WriteGrows
<1>2. UNCHANGED <<counted, cut, chunk, offset, size, modification, linesRead, position, local, pc, latest,
                  fileOffsets, origin, truncate, reused>>
  BY DEF WriteLine, countVars, remoteVars, localVars
<1>3. InOrder'
  <2> SUFFICES ASSUME pc # "start", ~reused PROVE GoesForward'  BY <1>2 DEF InOrder
  <2>1. GoesForward  BY DEF Progress, InOrder
  <2>2. /\ \A f \in File : modified[f] \in Nat
        /\ now \in Nat /\ modification \in Nat /\ active \in File /\ latest \in File
    <3>1. latest \in File  BY DEF Base, Control, Exists
    <3> QED  BY <3>1 DEF Base, TypeOK, Exists
  <2>3. active' = active /\ Modify(active)  BY DEF WriteLine
  <2>4. modified[active] = now /\ \A f \in File : modified[f] <= now  BY DEF Base, ServerWrites
  <2>5. /\ now' \in Nat /\ now <= now'
        /\ \A f \in File : modified'[f] = IF f = active THEN now' ELSE modified[f]
    BY <2>2, <2>3, ModifyIs DEF Base
  <2>6. ASSUME NEW f \in File, f # latest, Begun(f) PROVE modified'[f] <= modified'[latest]
    <3>1. modified[f] <= modified[latest] /\ f # active  BY <2>1, <2>6 DEF GoesForward
    <3> QED  BY <2>2, <2>4, <2>5, <3>1
  <2>7. ASSUME pc = "next" PROVE LooksForward'
    <3>1. LooksForward  BY <2>1, <2>7 DEF GoesForward
    <3>2. ASSUME NEW f \in File, f # latest, Begun(f) PROVE modified'[f] <= modification
      <4>1. modified[f] <= modification /\ f # active  BY <2>1, <3>1, <3>2 DEF GoesForward, LooksForward
      <4> QED  BY <2>5, <4>1
    <3>3. ASSUME active = latest, NEW f \in File, f # latest PROVE modified'[f] <= modification
      BY <2>5, <3>1, <3>3 DEF LooksForward
    <3>4. ASSUME NEW f \in File, f # latest, modified'[f] > modification PROVE modified'[f] >= modified'[latest]
      <4>1. latest # active
        <5>1. modified'[f] \in Nat  BY <2>2, <2>5
        <5> QED  BY <2>2, <3>3, <3>4, <5>1
      <4>2. modified'[latest] = modified[latest]  BY <2>2, <2>5, <4>1
      <4>3. CASE f = active  BY <2>2, <2>4, <2>5, <4>2, <4>3
      <4>4. CASE f # active  BY <2>5, <3>1, <3>4, <4>2, <4>4 DEF LooksForward
      <4> QED  BY <4>3, <4>4
    <3> QED  BY <1>2, <2>3, <3>2, <3>3, <3>4 DEF LooksForward, Begun
  <2> QED  BY <1>2, <2>1, <2>3, <2>6, <2>7 DEF GoesForward, Begun
<1> QED  BY <1>1, <1>2, <1>3, ServerProgress

LEMMA RotateProgress ==
  ASSUME Base, Base', Undisturbed', Progress, NEW g \in File, RotateTo(g)
  PROVE  Progress'
<1>1. Grown  BY RotateGrows
<1>2. UNCHANGED <<counted, cut, chunk, offset, size, modification, linesRead, position, local, pc, latest,
                  fileOffsets, origin, truncate>>
  BY DEF RotateTo, countVars, remoteVars, localVars
<1>3. reused' = (reused \/ g \in Exists)  BY DEF RotateTo
<1>4. InOrder'
  <2> SUFFICES ASSUME pc # "start", ~reused' PROVE GoesForward'  BY <1>2 DEF InOrder
  <2>1. ~reused /\ g \notin Exists  BY <1>3, Zenon
  <2>2. GoesForward  BY <2>1 DEF Progress, InOrder
  <2>3. /\ \A f \in File : modified[f] \in Nat
        /\ now \in Nat /\ modification \in Nat /\ latest \in Exists /\ latest \in File
    <3>1. latest \in Exists /\ latest \in File  BY DEF Base, Control, Exists
    <3> QED  BY <3>1 DEF Base, TypeOK
  <2>4. active' = g /\ Modify(g)  BY DEF RotateTo
  <2>5. \A f \in File : modified[f] <= now  BY DEF Base, ServerWrites
  <2>6. /\ now' \in Nat /\ now <= now'
        /\ \A f \in File : modified'[f] = IF f = g THEN now' ELSE modified[f]
    BY <2>4, ModifyIs DEF Base
  <2>7. g # latest /\ ~Begun(g)  BY <2>1, <2>3 DEF Base, ParserKnows
  <2>8. modified'[latest] = modified[latest]  BY <2>3, <2>6, <2>7
  <2>9. ASSUME NEW f \in File, f # latest, Begun(f) PROVE modified'[f] <= modified'[latest]
    BY <2>2, <2>6, <2>7, <2>8, <2>9 DEF GoesForward
  <2>10. ASSUME pc = "next" PROVE LooksForward'
    <3>1. LooksForward  BY <2>2, <2>10 DEF GoesForward
    <3>2. ASSUME NEW f \in File, f # latest, Begun(f) PROVE modified'[f] <= modification
      BY <2>6, <2>7, <3>1, <3>2 DEF LooksForward
    <3>3. ASSUME NEW f \in File, f # latest, modified'[f] > modification PROVE modified'[f] >= modified'[latest]
      <4>1. CASE f = g  BY <2>3, <2>5, <2>6, <2>8, <4>1
      <4>2. CASE f # g  BY <2>6, <2>8, <3>1, <3>3, <4>2 DEF LooksForward
      <4> QED  BY <4>1, <4>2
    <3> QED  BY <1>2, <2>4, <2>7, <3>2, <3>3 DEF LooksForward, Begun
  <2>11. pc = "open" => ~Begun(latest)  BY <2>2 DEF GoesForward
  <2> QED  BY <1>2, <2>4, <2>7, <2>9, <2>10, <2>11 DEF GoesForward, Begun
<1>5. reused => reused'  BY <1>3, Zenon
<1> QED  BY <1>1, <1>2, <1>4, <1>5, ServerProgress

-----------------------------------------------------------------------------
(* The invariant.                                                          *)

LEMMA InitIInv == Init => IInv
<1> SUFFICES ASSUME Init PROVE IInv  OBVIOUS
<1>1. Base  BY InitBase
<1>2. pc = "start" /\ counted = [l \in Line |-> 0] /\ \A f \in File : ~Begun(f)  BY DEF Init, Begun
<1>3. Unopened
  <2> SUFFICES ASSUME NEW f \in Exists, NEW i \in DOMAIN content[f] PROVE counted[content[f][i]] = 0
    BY DEF Unopened, Untouched
  <2>1. content[f][i] \in Line  BY <1>1, ContentIs DEF Base
  <2> QED  BY <1>2, <2>1
<1>4. InOrder /\ Left /\ LocalPlace /\ RemotePlace  BY <1>2 DEF InOrder, Left, Claimed, LocalPlace, RemotePlace
<1> QED  BY <1>1, <1>2, <1>3, <1>4 DEF IInv, Base, Progress

LEMMA StutterProgress == ASSUME Progress, UNCHANGED vars PROVE Progress'
<1>1. /\ content' = content /\ modified' = modified /\ active' = active /\ truncate' = truncate
      /\ local' = local /\ pc' = pc /\ latest' = latest /\ fileOffsets' = fileOffsets
      /\ linesRead' = linesRead /\ position' = position /\ chunk' = chunk /\ cut' = cut
      /\ offset' = offset /\ size' = size /\ modification' = modification
      /\ counted' = counted /\ origin' = origin /\ reused' = reused
  BY DEF vars, serverVars, countVars, remoteVars, localVars
<1>2. /\ \A f, q : Read(f, q)' <=> Read(f, q)
      /\ \A q, p : ChunkFrom(q, p)' <=> ChunkFrom(q, p)
  BY <1>1 DEF Read, ChunkFrom
<1>3. InOrder'  BY <1>1 DEF Progress, InOrder, GoesForward, LooksForward, Begun
<1>4. Unopened'  BY <1>1 DEF Progress, Unopened, Untouched, Begun, Exists
<1>5. Left'  BY <1>1, <1>2 DEF Progress, Left, Claimed, CanResume, Begun
<1>6. LocalPlace'  BY <1>1, <1>2 DEF Progress, LocalPlace, Claimed, Begun
<1>7. RemotePlace'  BY <1>1, <1>2 DEF Progress, RemotePlace
<1> QED  BY <1>1, <1>3, <1>4, <1>5, <1>6, <1>7 DEF Progress

LEMMA StepIInv == IInv /\ [Next]_vars => IInv'
<1> SUFFICES ASSUME IInv, [Next]_vars PROVE IInv'  OBVIOUS
<1>1. Base  BY DEF IInv, Base
<1>2. Base'  BY <1>1, StepBase
<1>3. ASSUME Undisturbed' PROVE Progress'
  <2>1. Undisturbed /\ ~Fault /\ Progress  BY <1>1, <1>2, <1>3, StaysUndisturbed DEF IInv
  <2> USE <1>1, <1>2, <1>3, <2>1
  <2>2. CASE WriteLine  BY <2>2, WriteProgress
  <2>3. CASE \E f \in File : RotateTo(f)  BY <2>3, RotateProgress
  <2>4. CASE FindLatest  BY <2>4, FindLatestProgress
  <2>5. CASE OpenFile  BY <2>5, OpenProgress
  <2>6. CASE ReadLine  BY <2>6, ReadProgress
  <2>7. CASE ReachEnd  BY <2>7, ReachEndProgress
  <2>8. CASE LookForNewFile  BY <2>8, LookProgress
  <2>9. CASE FindLatestRemote  BY <2>9, FindLatestRemoteProgress
  <2>10. CASE FetchChunk  BY <2>10, FetchProgress
  <2>11. CASE NothingToFetch  BY <2>11, NothingToFetchProgress
  <2>12. CASE ParseLine  BY <2>12, ParseProgress
  <2>13. CASE StatFile  BY <2>13, StatProgress
  <2>14. CASE NextRemoteFile  BY <2>14, NextRemoteProgress
  <2>15. CASE OpenFails \/ ReadFails \/ FetchFails  BY <2>15 DEF OpenFails, ReadFails, FetchFails
  <2>16. CASE UNCHANGED vars  BY <2>16, StutterProgress
  <2> QED  BY <2>2, <2>3, <2>4, <2>5, <2>6, <2>7, <2>8, <2>9, <2>10, <2>11, <2>12, <2>13, <2>14, <2>15, <2>16
           DEF Next, Parse
<1> QED  BY <1>2, <1>3 DEF IInv, Base

LEMMA IInvShows == IInv => EachLineOnce
<1> SUFFICES ASSUME IInv, Undisturbed, NEW f \in Exists, Claimed(f)
             PROVE  LET parsed == {i \in DOMAIN content[f] : counted[content[f][i]] > 0}
                    IN /\ \A i \in parsed : (origin[f] + 1)..i \subseteq parsed /\ i > origin[f]
                       /\ \A i \in parsed : counted[content[f][i]] = 1 \/ content[f][i] \in cut
  BY DEF EachLineOnce, Undisturbed, Claimed, Begun
<1>1. Base /\ Progress  BY DEF IInv, Base
<1>2. f \in File /\ Len(content[f]) \in Nat /\ DOMAIN content[f] = 1..Len(content[f])  BY <1>1, ContentIs DEF Base
<1>3. PICK q \in Nat : Read(f, q)
  <2>1. CASE f # latest \/ pc = "open"  BY <1>1, <1>2, <2>1 DEF Progress, Left, CanResume
  <2>2. CASE f = latest /\ pc \in {"read", "wait"}  BY <1>1, <2>2 DEF Progress, LocalPlace, Read
  <2>3. CASE f = latest /\ pc \in {"fetch", "lines", "next"}  BY <1>1, <2>3 DEF Progress, RemotePlace
  <2>4. CASE pc = "start"  BY <1>1, <1>2, <2>4 DEF Base, Control, Claimed
  <2> QED  BY <1>1, <2>1, <2>2, <2>3, <2>4 DEF Base, TypeOK
<1>4. origin[f] \in Nat  BY <1>1, <1>2 DEF Base, TypeOK, Claimed, Begun
<1> DEFINE parsed == {i \in DOMAIN content[f] : counted[content[f][i]] > 0}
<1>5. \A i \in DOMAIN content[f] : counted[content[f][i]] \in Nat
  BY <1>1, <1>2, ContentIs DEF Base, TypeOK
<1>6. ASSUME NEW i \in parsed
      PROVE  (origin[f] + 1)..i \subseteq parsed /\ i > origin[f]
             /\ (counted[content[f][i]] = 1 \/ content[f][i] \in cut)
  <2>1. i \in DOMAIN content[f] /\ i \in Nat /\ counted[content[f][i]] # 0  BY <1>2, <1>5
  <2>2. ~(i <= origin[f]) /\ (i <= q \/ (i = q + 1 /\ content[f][i] \in cut))  BY <1>3, <2>1 DEF Read
  <2>3. i > origin[f]  BY <1>4, <2>1, <2>2
  <2>4. counted[content[f][i]] = 1 \/ content[f][i] \in cut  BY <1>3, <1>4, <2>1, <2>2, <2>3 DEF Read
  <2>5. ASSUME NEW k \in (origin[f] + 1)..i PROVE k \in parsed
    <3>1. k \in DOMAIN content[f] /\ k \in Nat /\ origin[f] < k /\ (k = i \/ k <= q)
      BY <1>2, <1>3, <1>4, <2>1, <2>2
    <3> QED  BY <1>3, <3>1 DEF Read
  <2> QED  BY <2>3, <2>4, <2>5
<1> QED  BY <1>6

\* As long as nothing fails that the parser does not make up for, the lines of a
\* file are counted one after the other and once: for files, chunks and lines of
\* any number and size, on the same host and elsewhere.
THEOREM LinesCountedOnce == Spec => []EachLineOnce
<1>1. Init => IInv  BY InitIInv
<1>2. IInv /\ [Next]_vars => IInv'  BY StepIInv
<1>3. IInv => EachLineOnce  BY IInvShows
<1> QED  BY <1>1, <1>2, <1>3, PTL DEF Spec

-----------------------------------------------------------------------------
(* The files follow each other, whatever fails.                            *)

\* No two files have the same time, unless two once had.
Distinct == ~tied => \A f, g \in Exists : modified[f] = modified[g] => f = g

\* The open file is the last one begun, and none before it was left out.
BegunBefore == \A f \in File \ {latest} : Begun(f) => modified[f] < modified[latest]
NoneBetween ==
  \A f, g \in Exists :
    Begun(f) /\ modified[f] < modified[g] /\ modified[g] < modified[latest] => Begun(g)

\* The time from which the remote loop looks for the next file may be out of
\* date, but nothing else was written between it and the open file's last line.
LooksFrom ==
  pc \in {"fetch", "lines", "next"} =>
    /\ modification <= modified[latest]
    /\ \A f \in Exists \ {latest} : modified[f] > modification => modified[f] > modified[latest]

Follows == pc # "start" /\ ~reused /\ ~tied => BegunBefore /\ NoneBetween /\ LooksFrom

FInv == Base /\ Distinct /\ Follows

\* A step that opens no file and does not look at the server.
LEMMA FollowsKept ==
  ASSUME Distinct, Follows, UNCHANGED <<serverVars, modification, latest, origin>>,
         pc' = "start" \/ pc # "start",
         pc' \in {"fetch", "lines", "next"} => pc \in {"fetch", "lines", "next"}
  PROVE  Distinct' /\ Follows'
<1>1. UNCHANGED <<content, modified, reused, tied>> /\ Exists' = Exists  BY ServerKept DEF serverVars
<1>2. Distinct'  BY <1>1 DEF Distinct
<1>3. Follows'
  <2> SUFFICES ASSUME pc' # "start", ~reused, ~tied PROVE BegunBefore' /\ NoneBetween' /\ LooksFrom'
    BY <1>1 DEF Follows
  <2>1. BegunBefore /\ NoneBetween /\ LooksFrom  BY DEF Follows
  <2>2. BegunBefore' /\ NoneBetween'  BY <1>1, <2>1 DEF BegunBefore, NoneBetween, Begun
  <2>3. LooksFrom'  BY <1>1, <2>1 DEF LooksFrom
  <2> QED  BY <2>2, <2>3
<1> QED  BY <1>2, <1>3

\* The first file: none is begun.
LEMMA FirstFollows ==
  ASSUME Base, Distinct, UNCHANGED serverVars, pc = "start", latest' \in Exists,
         \A f \in File : Begun(f)' => f = latest',
         pc' \in {"fetch", "lines", "next"} => modification' = modified[latest']
  PROVE  Distinct' /\ Follows'
<1>1. UNCHANGED <<content, modified, reused, tied>> /\ Exists' = Exists  BY ServerKept DEF serverVars
<1>2. Distinct'  BY <1>1 DEF Distinct
<1>3. Exists \subseteq File /\ \A f \in File : modified[f] \in Nat  BY DEF Base, TypeOK, Exists
<1>4. BegunBefore'  BY DEF BegunBefore
<1>5. NoneBetween'
  <2> SUFFICES ASSUME NEW f \in Exists, NEW g \in Exists, Begun(f)', modified[f] < modified[g],
                      modified[g] < modified[latest']
               PROVE  FALSE
    BY <1>1 DEF NoneBetween
  <2>1. f = latest'  BY <1>3
  <2> QED  BY <1>3, <2>1
<1>6. LooksFrom'  BY <1>1, <1>3 DEF LooksFrom
<1> QED  BY <1>2, <1>4, <1>5, <1>6 DEF Follows

\* The next file: the first of those written after the open one.
LEMMA NextFollows ==
  ASSUME Base, Distinct, ~tied, BegunBefore, NoneBetween, UNCHANGED serverVars, latest \in Exists, Begun(latest),
         NEW file \in Exists, latest' = file, modified[file] > modified[latest],
         \A g \in Exists : modified[g] > modified[latest] => modified[file] <= modified[g],
         \A f \in File : (Begun(f) => Begun(f)') /\ (Begun(f)' => Begun(f) \/ f = file)
  PROVE  BegunBefore' /\ NoneBetween'
<1>1. UNCHANGED <<content, modified, reused, tied>> /\ Exists' = Exists  BY ServerKept DEF serverVars
<1>2. Exists \subseteq File /\ \A f \in File : modified[f] \in Nat  BY DEF Base, TypeOK, Exists
<1>3. BegunBefore'
  <2> SUFFICES ASSUME NEW f \in File, f # file, Begun(f)' PROVE modified[f] < modified[file]
    BY <1>1 DEF BegunBefore
  <2>1. f = latest \/ modified[f] < modified[latest]  BY DEF BegunBefore
  <2> QED  BY <1>2, <2>1
<1>4. NoneBetween'
  <2> SUFFICES ASSUME NEW f \in Exists, NEW g \in Exists, Begun(f)', modified[f] < modified[g],
                      modified[g] < modified[file]
               PROVE  Begun(g)
    BY <1>1, <1>2 DEF NoneBetween
  <2>0. modified[f] \in Nat /\ modified[g] \in Nat /\ modified[file] \in Nat /\ modified[latest] \in Nat
    BY <1>2
  <2>1. f # file  BY <2>0
  <2>2. Begun(f)  BY <1>2, <2>1
  <2>3. modified[g] <= modified[latest]  BY <2>0
  <2>4. g = latest \/ modified[g] < modified[latest]  BY <2>0, <2>3 DEF Distinct
  <2> QED  BY <2>2, <2>4 DEF NoneBetween
<1> QED  BY <1>3, <1>4

LEMMA LookFollows == FInv /\ LookForNewFile => Distinct' /\ Follows'
<1> SUFFICES ASSUME FInv, LookForNewFile PROVE Distinct' /\ Follows'  OBVIOUS
<1>1. Base /\ TypeOK /\ Distinct /\ Follows  BY DEF FInv, Base
<1>2. pc = "wait" /\ latest \in Exists /\ Begun(latest) /\ UNCHANGED <<serverVars, modification, origin>>
  BY <1>1 DEF LookForNewFile, Base, Control, remoteVars
<1>3. ASSUME NEW file \in NextFiles(modified[latest]), latest' = file, pc' = "open"
      PROVE  Distinct' /\ Follows'
  <2>1. latest' = file /\ pc' = "open"  BY <1>3
  <2>3. /\ file \in Exists /\ modified[file] > modified[latest]
        /\ \A g \in Exists : modified[g] > modified[latest] => modified[file] <= modified[g]
    BY NextIs
  <2>4. \A f \in File : Begun(f)' <=> Begun(f)  BY <1>2 DEF Begun
  <2>5. ASSUME ~reused, ~tied PROVE BegunBefore' /\ NoneBetween'
    <3>1. BegunBefore /\ NoneBetween  BY <1>1, <1>2, <2>5 DEF Follows
    <3> QED  BY <1>1, <1>2, <2>1, <2>3, <2>4, <2>5, <3>1, NextFollows
  <2>6. LooksFrom'  BY <2>1 DEF LooksFrom
  <2>7. UNCHANGED <<content, modified, reused, tied>> /\ Exists' = Exists  BY <1>2, ServerKept DEF serverVars
  <2>8. Distinct'  BY <1>1, <2>7 DEF Distinct
  <2> QED  BY <2>5, <2>6, <2>7, <2>8 DEF Follows
<1>4. CASE pc' = "read" /\ latest' = latest  BY <1>1, <1>2, <1>4, FollowsKept
<1> QED  BY <1>3, <1>4 DEF LookForNewFile

LEMMA NextRemoteFollows == FInv /\ NextRemoteFile => Distinct' /\ Follows'
<1> SUFFICES ASSUME FInv, NextRemoteFile PROVE Distinct' /\ Follows'  OBVIOUS
<1>1. Base /\ TypeOK /\ Distinct /\ Follows  BY DEF FInv, Base
<1>2. pc = "next" /\ latest \in Exists /\ Begun(latest) /\ UNCHANGED <<serverVars, modification>>
  BY <1>1 DEF NextRemoteFile, Base, Control
<1>4. ASSUME NEW file \in NextFiles(modification) \ {latest}, latest' = file, pc' = "fetch",
             Opened(file, offset' \div LineSize)
      PROVE  Distinct' /\ Follows'
  <2>1. modification \in Nat /\ \A f \in File : modified[f] \in Nat  BY <1>1 DEF TypeOK
  <2>2. /\ file \in Exists /\ file \in File /\ modified[file] > modification
        /\ \A g \in Exists : modified[g] > modification => modified[file] <= modified[g]
    BY NextIs
  <2>3. UNCHANGED <<content, modified, reused, tied>> /\ Exists' = Exists  BY <1>2, ServerKept DEF serverVars
  <2>4. Distinct'  BY <1>1, <2>3 DEF Distinct
  <2>5. offset' \in Nat
    <3>1. Base'  BY <1>1, NextRemoteBase
    <3> QED  BY <3>1 DEF Base, TypeOK
  <2>6. \A f \in File : Begun(f)' <=> Begun(f) \/ f = file
    <3>1. offset' \div LineSize \in Nat  BY <2>5, DivIs
    <3> QED  BY <1>1, <1>4, <2>2, <3>1, OpenedIs DEF Begun
  <2>7. ASSUME ~reused, ~tied PROVE BegunBefore' /\ NoneBetween' /\ LooksFrom'
    <3>1. BegunBefore /\ NoneBetween /\ LooksFrom  BY <1>1, <1>2, <2>7 DEF Follows
    <3>2. modified[file] > modified[latest] /\ modification <= modified[latest]
      BY <1>2, <1>4, <2>2, <3>1 DEF LooksFrom
    <3>3. latest \in File /\ Exists \subseteq File  BY <1>2 DEF Exists
    <3>4. \A g \in Exists : modified[g] > modified[latest] => modified[file] <= modified[g]
      BY <2>1, <2>2, <3>2, <3>3
    <3>5. BegunBefore' /\ NoneBetween'  BY <1>1, <1>2, <1>4, <2>2, <2>6, <2>7, <3>1, <3>2, <3>4, NextFollows
    <3>6. ASSUME NEW f \in Exists, f # file, modified[f] > modification PROVE modified[f] > modified[file]
      <4>1. modified[file] <= modified[f] /\ modified[file] # modified[f]  BY <1>1, <2>2, <2>7, <3>6 DEF Distinct
      <4> QED  BY <2>1, <2>2, <3>3, <4>1
    <3>7. LooksFrom'
      <4>1. modification <= modified[file]  BY <2>1, <2>2
      <4> QED  BY <1>2, <1>4, <2>3, <3>6, <4>1 DEF LooksFrom
    <3> QED  BY <3>5, <3>7
  <2> QED  BY <2>3, <2>4, <2>7 DEF Follows
<1>5. CASE pc' = "lines" /\ UNCHANGED <<latest, origin>>  BY <1>1, <1>2, <1>5, FollowsKept
<1> QED  BY <1>4, <1>5 DEF NextRemoteFile

LEMMA StatFollows == FInv /\ StatFile => Distinct' /\ Follows'
<1> SUFFICES ASSUME FInv, StatFile PROVE Distinct' /\ Follows'  OBVIOUS
<1>1. Base /\ TypeOK /\ Distinct /\ Follows  BY DEF FInv, Base
<1>2. /\ pc = "lines" /\ pc' \in {"fetch", "next"} /\ UNCHANGED <<serverVars, latest, origin>>
      /\ latest \in File
  BY <1>1 DEF StatFile, Base, Control, Exists
<1>3. CASE modification' = modified[latest]
  <2>1. UNCHANGED <<content, modified, reused, tied>> /\ Exists' = Exists  BY <1>2, ServerKept DEF serverVars
  <2>2. Distinct'  BY <1>1, <2>1 DEF Distinct
  <2>3. modified[latest] \in Nat  BY <1>1, <1>2 DEF TypeOK
  <2>4. LooksFrom'  BY <1>2, <1>3, <2>1, <2>3 DEF LooksFrom
  <2>5. ~reused /\ ~tied => BegunBefore' /\ NoneBetween'  BY <1>1, <1>2, <2>1 DEF Follows, BegunBefore, NoneBetween, Begun
  <2> QED  BY <2>1, <2>2, <2>4, <2>5 DEF Follows
<1>4. CASE modification' = modification  BY <1>1, <1>2, <1>4, FollowsKept
<1> QED  BY <1>3, <1>4 DEF StatFile

LEMMA OpenFollows == FInv /\ OpenFile => Distinct' /\ Follows'
<1> SUFFICES ASSUME FInv, OpenFile PROVE Distinct' /\ Follows'  OBVIOUS
<1>1. Base /\ TypeOK /\ Distinct /\ Follows  BY DEF FInv, Base
<1>2. /\ pc = "open" /\ pc' = "read" /\ UNCHANGED <<serverVars, latest>> /\ Opened(latest, position')
      /\ latest \in File
  BY <1>1 DEF OpenFile, Base, Control, Exists
<1>3. position' \in Nat
  <2>1. Base'  BY <1>1, OpenBase
  <2> QED  BY <2>1 DEF Base, TypeOK
<1>4. \A f \in File : Begun(f)' <=> Begun(f) \/ f = latest  BY <1>1, <1>2, <1>3, OpenedIs DEF Begun
<1>5. UNCHANGED <<content, modified, reused, tied>> /\ Exists' = Exists  BY <1>2, ServerKept DEF serverVars
<1>6. Distinct' /\ LooksFrom'  BY <1>1, <1>2, <1>5 DEF Distinct, LooksFrom
<1>7. ASSUME ~reused, ~tied PROVE BegunBefore' /\ NoneBetween'
  <2>1. BegunBefore /\ NoneBetween  BY <1>1, <1>2, <1>7 DEF Follows
  <2>2. BegunBefore'  BY <1>2, <1>4, <1>5, <2>1 DEF BegunBefore
  <2>3. \A f \in File : modified[f] \in Nat  BY <1>1 DEF TypeOK
  <2>4. NoneBetween'
    <3> SUFFICES ASSUME NEW f \in Exists, NEW g \in Exists, Begun(f)', modified[f] < modified[g],
                        modified[g] < modified[latest]
                 PROVE  Begun(g)
      BY <1>2, <1>4, <1>5 DEF NoneBetween, Exists
    <3>1. f \in File /\ g \in File  BY DEF Exists
    <3>2. f # latest  BY <1>2, <2>3, <3>1
    <3> QED  BY <1>4, <2>1, <3>1, <3>2 DEF NoneBetween
  <2> QED  BY <2>2, <2>4
<1> QED  BY <1>5, <1>6, <1>7 DEF Follows

LEMMA FindLatestFollows == FInv /\ FindLatest => Distinct' /\ Follows'
<1> SUFFICES ASSUME FInv, FindLatest PROVE Distinct' /\ Follows'  OBVIOUS
<1>1. Base /\ Distinct  BY DEF FInv
<1>2. latest' \in Exists  BY LatestIs DEF FindLatest
<1>3. \A f \in File : ~Begun(f)'  BY <1>1 DEF FindLatest, Base, Control, Begun
<1>4. pc = "start" /\ pc' = "open" /\ UNCHANGED serverVars  BY DEF FindLatest
<1> QED  BY <1>1, <1>2, <1>3, <1>4, FirstFollows

LEMMA FindLatestRemoteFollows == FInv /\ FindLatestRemote => Distinct' /\ Follows'
<1> SUFFICES ASSUME FInv, FindLatestRemote PROVE Distinct' /\ Follows'  OBVIOUS
<1>1. Base /\ TypeOK /\ Distinct  BY DEF FInv, Base
<1>2. PICK file \in LatestFiles : latest' = file  BY DEF FindLatestRemote
<1>3. latest' = file /\ file \in Exists /\ file \in File  BY <1>2, LatestIs
<1>4. \A f \in File : Begun(f)' => f = file
  <2>1. Len(content[file]) \in Nat  BY <1>1, <1>3, ContentIs
  <2>2. UNCHANGED serverVars /\ content' = content  BY DEF FindLatestRemote, serverVars
  <2>3. Opened(file, Len(content[file]))  BY <1>3 DEF FindLatestRemote
  <2>4. \A f \in File : ~Begun(f)  BY <1>1 DEF FindLatestRemote, Base, Control
  <2> QED  BY <1>1, <1>3, <2>1, <2>3, <2>4, OpenedIs DEF Begun
<1>5. pc = "start" /\ UNCHANGED serverVars /\ modification' = modified[latest']  BY DEF FindLatestRemote
<1> QED  BY <1>1, <1>3, <1>4, <1>5, FirstFollows

\* A file is written, and is then the last one modified; if it is not the open
\* one, it is not begun.
LEMMA ModifiedFollows ==
  ASSUME FInv, NEW g \in File, Modify(g), Exists' = Exists \cup {g},
         UNCHANGED <<pc, latest, origin, modification>>, ~reused' => ~reused /\ (g = active \/ g \notin Exists)
  PROVE  Distinct' /\ Follows'
<1>1. Base /\ TypeOK /\ Distinct /\ Follows  BY DEF FInv, Base
<1>2. /\ now \in Nat /\ modified \in [File -> Nat] /\ modification \in Nat /\ active \in File
      /\ Exists \subseteq File /\ active \in Exists
  BY <1>1 DEF TypeOK, Exists
<1>3. modified[active] = now /\ \A f \in File : modified[f] <= now  BY <1>1 DEF Base, ServerWrites
<1>4. \A f \in File : modified[f] \in Nat /\ modified[f] <= now  BY <1>2, <1>3
<1>5. /\ now' \in Nat /\ now <= now' /\ (~tied' => ~tied /\ \A f \in Exists \ {g} : modified[f] # now')
      /\ modified'[g] = now' /\ \A f \in File \ {g} : modified'[f] = modified[f]
  BY <1>1, ModifyIs
<1>6. Distinct'
  <2> SUFFICES ASSUME ~tied', NEW f \in Exists', NEW h \in Exists', modified'[f] = modified'[h], f # h PROVE FALSE
    BY DEF Distinct
  <2>1. f \in File /\ h \in File  BY <1>2
  <2>2. f # g /\ h # g  BY <1>5, <2>1
  <2>3. f \in Exists /\ h \in Exists /\ modified[f] = modified[h]  BY <1>5, <2>1, <2>2
  <2> QED  BY <1>1, <1>5, <2>3 DEF Distinct
<1>7. ASSUME pc # "start", ~reused', ~tied' PROVE BegunBefore' /\ NoneBetween' /\ LooksFrom'
  <2>0. ~tied /\ (\A f \in Exists \ {active} : modified[f] < now) /\ \A f \in Exists \ {g} : modified[f] < now'
    <3>1. ~tied /\ \A f \in Exists \ {g} : modified[f] # now'  BY <1>5, <1>7
    <3>2. \A f \in Exists \ {active} : modified[f] # modified[active]  BY <1>1, <1>2, <3>1 DEF Distinct
    <3>3. \A f \in Exists \ {active} : modified[f] < now  BY <1>2, <1>3, <1>4, <3>2
    <3>4. \A f \in Exists \ {g} : modified[f] < now'  BY <1>2, <1>4, <1>5, <3>1
    <3> QED  BY <3>1, <3>3, <3>4
  <2>1. /\ latest \in Exists /\ latest \in File /\ BegunBefore /\ NoneBetween /\ LooksFrom
        /\ g = active \/ g \notin Exists
    BY <1>1, <1>2, <1>7, <2>0 DEF Base, Control, Follows
  <2>2. g = latest \/ ~Begun(g)
    <3>1. CASE g \notin Exists  BY <1>1, <3>1 DEF Base, ParserKnows
    <3>2. CASE g = active
      <4>1. ~(modified[active] < modified[latest])  BY <1>2, <1>3, <1>4, <2>1
      <4> QED  BY <2>1, <3>2, <4>1 DEF BegunBefore
    <3> QED  BY <2>1, <3>1, <3>2
  <2>3. \A f \in File : Begun(f)' <=> Begun(f)  BY DEF Begun
  <2>4. modified'[latest] \in Nat /\ modified[latest] <= modified'[latest]  BY <1>2, <1>4, <1>5, <2>1
  <2>5. BegunBefore'
    <3> SUFFICES ASSUME NEW f \in File, f # latest, Begun(f) PROVE modified'[f] < modified'[latest]
      BY <2>3 DEF BegunBefore
    <3>1. f # g /\ modified[f] < modified[latest]  BY <2>1, <2>2 DEF BegunBefore
    <3> QED  BY <1>4, <1>5, <2>1, <2>4, <3>1
  <2>6. NoneBetween'
    <3> SUFFICES ASSUME NEW f \in Exists', NEW h \in Exists', Begun(f), modified'[f] < modified'[h],
                        modified'[h] < modified'[latest]
                 PROVE  Begun(h)
      BY <1>2, <2>3 DEF NoneBetween
    <3>0. f \in File /\ h \in File  BY <1>2
    <3>1. h # g /\ f # g
      <4>1. \A k \in File : modified'[k] \in Nat /\ modified'[k] <= now'  BY <1>2, <1>4, <1>5
      <4> QED  BY <1>2, <1>5, <2>1, <3>0, <4>1
    <3>2. f \in Exists /\ h \in Exists /\ modified[f] < modified[h] /\ modified[h] < modified'[latest]
      BY <1>5, <3>0, <3>1
    <3>3. h # latest  BY <1>4, <1>5, <2>1, <3>1, <3>2
    <3>4. modified[h] < modified[latest]
      <4>1. CASE g = latest
        <5>1. latest = active  BY <2>1, <4>1
        <5> QED  BY <1>3, <2>0, <3>2, <3>3, <5>1
      <4>2. CASE g # latest  BY <1>5, <2>1, <3>2, <4>2
      <4> QED  BY <4>1, <4>2
    <3> QED  BY <2>1, <3>2, <3>4 DEF NoneBetween
  <2>7. LooksFrom'
    <3> SUFFICES ASSUME pc \in {"fetch", "lines", "next"}
                 PROVE  /\ modification <= modified'[latest]
                        /\ \A f \in Exists' \ {latest} : modified'[f] > modification => modified'[f] > modified'[latest]
      BY DEF LooksFrom
    <3>1. /\ modification <= modified[latest]
          /\ \A f \in Exists \ {latest} : modified[f] > modification => modified[f] > modified[latest]
      BY <2>1 DEF LooksFrom
    <3>2. modification <= modified'[latest]  BY <1>2, <1>4, <2>1, <2>4, <3>1
    <3>3. ASSUME NEW f \in Exists', f # latest, modified'[f] > modification PROVE modified'[f] > modified'[latest]
      <4>1. CASE f = g
        <5>1. modified'[latest] = modified[latest]  BY <1>5, <2>1, <3>3, <4>1
        <5> QED  BY <1>5, <2>0, <2>1, <3>3, <4>1, <5>1
      <4>2. CASE f # g
        <5>1. f \in Exists /\ f \in File /\ modified'[f] = modified[f]  BY <1>2, <1>5, <4>2
        <5>2. modified[f] > modified[latest]  BY <3>1, <3>3, <5>1
        <5>3. g # latest
          <6>1. latest # active  BY <1>3, <1>4, <2>1, <3>3, <5>1, <5>2
          <6> QED  BY <2>1, <6>1
        <5> QED  BY <1>5, <2>1, <5>1, <5>2, <5>3
      <4> QED  BY <4>1, <4>2
    <3> QED  BY <3>2, <3>3
  <2> QED  BY <2>5, <2>6, <2>7
<1> QED  BY <1>6, <1>7 DEF Follows

LEMMA WriteFollows == FInv /\ WriteLine => Distinct' /\ Follows'
<1> SUFFICES ASSUME FInv, WriteLine PROVE Distinct' /\ Follows'  OBVIOUS
<1>1. TypeOK /\ active \in Exists /\ active \in File  BY DEF FInv, Base, TypeOK, Exists
<1>2. Exists' = Exists  BY <1>1, WriteIs
<1>3. Exists' = Exists \cup {active}  BY <1>1, <1>2
<1> QED  BY <1>1, <1>3, ModifiedFollows DEF WriteLine, remoteVars

LEMMA RotateFollows == ASSUME NEW g \in File PROVE FInv /\ RotateTo(g) => Distinct' /\ Follows'
<1> SUFFICES ASSUME FInv, RotateTo(g) PROVE Distinct' /\ Follows'  OBVIOUS
<1>1. Exists' = Exists \cup {g}  BY RotateIs DEF FInv, Base
<1>2. reused' = (reused \/ g \in Exists)  BY DEF RotateTo
<1>3. ~reused' => ~reused /\ g \notin Exists  BY <1>2, Zenon
<1> QED  BY <1>1, <1>3, ModifiedFollows DEF RotateTo, remoteVars

LEMMA OthersFollow ==
  FInv /\ (OpenFails \/ ReadLine \/ ReadFails \/ ReachEnd \/ FetchChunk \/ FetchFails \/ NothingToFetch
           \/ ParseLine \/ UNCHANGED vars) => Distinct' /\ Follows'
<1> SUFFICES ASSUME FInv,
                    OpenFails \/ ReadLine \/ ReadFails \/ ReachEnd \/ FetchChunk \/ FetchFails
                      \/ NothingToFetch \/ ParseLine \/ UNCHANGED vars
             PROVE  Distinct' /\ Follows'
  OBVIOUS
<1>1. UNCHANGED <<serverVars, modification, latest, origin>>
  BY DEF OpenFails, ReadLine, ReadFails, ReachEnd, FetchChunk, FetchFails, NothingToFetch, ParseLine, remoteVars, vars
<1>2. /\ pc' = "start" \/ pc # "start"
      /\ pc' \in {"fetch", "lines", "next"} => pc \in {"fetch", "lines", "next"}
  BY DEF OpenFails, ReadLine, ReadFails, ReachEnd, FetchChunk, FetchFails, NothingToFetch, ParseLine, vars
<1> QED  BY <1>1, <1>2, FollowsKept DEF FInv

LEMMA InitFInv == Init => FInv
<1> SUFFICES ASSUME Init PROVE FInv  OBVIOUS
<1>1. Base /\ Follows  BY InitBase DEF Init, Follows
<1>2. PICK f \in File : content = [g \in File |-> IF g = f THEN <<1>> ELSE None]  BY DEF Init
<1>3. Distinct  BY <1>2 DEF Distinct, Exists
<1> QED  BY <1>1, <1>3 DEF FInv

LEMMA StepFInv == FInv /\ [Next]_vars => FInv'
<1> SUFFICES ASSUME FInv, [Next]_vars PROVE FInv'  OBVIOUS
<1>1. Base'  BY StepBase DEF FInv
<1>2. Distinct' /\ Follows'
  BY WriteFollows, RotateFollows, FindLatestFollows, OpenFollows, LookFollows, FindLatestRemoteFollows, StatFollows,
     NextRemoteFollows, OthersFollow
     DEF Next, Parse
<1> QED  BY <1>1, <1>2 DEF FInv

\* Before the first file is found none is begun; after that no begun file is
\* newer than the open one.
LEMMA FInvShows == FInv => NoFilePassedOver
<1> SUFFICES ASSUME FInv, ~reused, ~tied, NEW f \in Exists, NEW g \in Exists, NEW h \in Exists,
                    Begun(f), modified[f] < modified[g], modified[g] < modified[h], Begun(h)
             PROVE  Begun(g)
  BY DEF NoFilePassedOver, Begun
<1>1. f \in File /\ g \in File /\ h \in File /\ \A k \in File : modified[k] \in Nat
  BY DEF FInv, Base, TypeOK, Exists
<1>2. pc # "start" /\ latest \in File  BY <1>1 DEF FInv, Base, Control, Exists
<1>3. BegunBefore /\ NoneBetween  BY <1>2 DEF FInv, Follows
<1>4. h = latest \/ modified[h] < modified[latest]  BY <1>1, <1>3 DEF BegunBefore
<1>5. modified[g] < modified[latest]  BY <1>1, <1>2, <1>4
<1> QED  BY <1>3, <1>5 DEF NoneBetween

\* The files that are opened follow one another in the order of their last
\* writes, for any number of files, rotations and failing reads and queries,
\* unless the server uses a file again or two files had the same time.
THEOREM FilesFollowOneAnother == Spec => []NoFilePassedOver
<1>1. Init => FInv  BY InitFInv
<1>2. FInv /\ [Next]_vars => FInv'  BY StepFInv
<1>3. FInv => NoFilePassedOver  BY FInvShows
<1> QED  BY <1>1, <1>2, <1>3, PTL DEF Spec
=============================================================================
