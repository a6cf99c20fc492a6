------------------------ MODULE AudioTimeline_proofs ------------------------
(***************************************************************************)
(* Every chunk of a participant's audio is heard at its time, for any      *)
(* number of segments and of losses, any suspension, any wrong timestamp   *)
(* and any bounds, as long as the baseline looks at three offsets or more. *)
(***************************************************************************)
EXTENDS AudioTimeline, FiniteSetTheorems, SequenceTheorems, TLAPS

----------------------------------------------------------------------------
(* The median.  That there is a value at each place of the sorted sequence  *)
(* is shown by taking least elements of sets of numbers.                   *)

Below == {ss \in Nat \X Nat : ss[1] < ss[2]}

LEMMA Least ==
  ASSUME NEW T, T \subseteq Nat, T # {}
  PROVE  \E x \in T : \A y \in T : x <= y
<1>1. IsWellFoundedOn(Below, Nat) BY NatLessThanWellFounded DEF OpToRel, Below
<1>2. PICK x \in T : \A y \in T : ~(<<y, x>> \in Below) BY <1>1, WFMin, Zenon
<1>3. ASSUME NEW y \in T PROVE x <= y
  <2>1. x \in Nat /\ y \in Nat OBVIOUS
  <2>2. ~(y < x) BY <1>2, <1>3, <2>1 DEF Below
  <2> QED BY <2>1, <2>2
<1> QED BY <1>3

\* The places at which a sequence has less than a value, or no more.
LT(s, x) == {i \in DOMAIN s : s[i] < x}
LE(s, x) == {i \in DOMAIN s : s[i] <= x}

LEMMA Places ==
  ASSUME NEW s \in Seq(Int), NEW x \in Int
  PROVE  /\ IsFiniteSet(DOMAIN s) /\ Cardinality(DOMAIN s) = Len(s)
         /\ IsFiniteSet(LE(s, x)) /\ Cardinality(LE(s, x)) \in 0..Len(s)
         /\ IsFiniteSet(LT(s, x)) /\ Cardinality(LT(s, x)) \in 0..Len(s)
<1>1. DOMAIN s = 1..Len(s) /\ Len(s) \in Nat OBVIOUS
<1>2. IsFiniteSet(DOMAIN s) /\ Cardinality(DOMAIN s) = Len(s)
  BY <1>1, FS_Interval
<1>3. LE(s, x) \subseteq DOMAIN s /\ LT(s, x) \subseteq DOMAIN s BY DEF LE, LT
<1>4. /\ IsFiniteSet(LE(s, x)) /\ Cardinality(LE(s, x)) <= Len(s)
      /\ IsFiniteSet(LT(s, x)) /\ Cardinality(LT(s, x)) <= Len(s)
  BY <1>2, <1>3, FS_Subset
<1>5. Cardinality(LE(s, x)) \in Nat /\ Cardinality(LT(s, x)) \in Nat
  BY <1>4, FS_CardinalityType
<1> QED BY <1>1, <1>2, <1>4, <1>5

LEMMA MoreBelow ==
  ASSUME NEW s \in Seq(Int), NEW x \in Int, NEW j \in DOMAIN s, x < s[j]
  PROVE  Cardinality(LE(s, x)) < Cardinality(LE(s, s[j]))
<1>0. s[j] \in Int OBVIOUS
<1>1. LE(s, x) \subseteq LE(s, s[j]) /\ j \in LE(s, s[j]) /\ j \notin LE(s, x)
  BY <1>0 DEF LE
<1>2. /\ Cardinality(LE(s, x)) <= Cardinality(LE(s, s[j]))
      /\ Cardinality(LE(s, x)) # Cardinality(LE(s, s[j]))
  BY <1>0, <1>1, Places, FS_Subset
<1>3. Cardinality(LE(s, x)) \in Nat /\ Cardinality(LE(s, s[j])) \in Nat BY <1>0, Places
<1> QED BY <1>2, <1>3

\* A set of values of a sequence has a smallest and a greatest one.
LEMMA Smallest ==
  ASSUME NEW s \in Seq(Int), NEW R \in SUBSET Range(s), R # {}
  PROVE  \E x \in R : \A y \in R : x <= y
<1> DEFINE T == {Cardinality(LE(s, x)) : x \in R}
<1>0. \A x \in R : \E j \in DOMAIN s : x = s[j] BY DEF Range
<1>1. R \subseteq Int BY <1>0
<1>2. T \subseteq Nat BY <1>1, Places
<1>9. T # {} OBVIOUS
<1>3. PICK c \in T : \A d \in T : c <= d BY <1>2, <1>9, Least
<1>4. PICK x \in R : c = Cardinality(LE(s, x)) OBVIOUS
<1>5. ASSUME NEW y \in R, ~(x <= y) PROVE FALSE
  <2>1. x \in Int /\ y \in Int BY <1>1
  <2>2. Cardinality(LE(s, y)) < Cardinality(LE(s, x)) BY <1>0, <1>5, <2>1, MoreBelow
  <2>3. c <= Cardinality(LE(s, y)) BY <1>3
  <2>4. Cardinality(LE(s, y)) \in Nat /\ Cardinality(LE(s, x)) \in Nat BY <2>1, Places
  <2> QED BY <1>4, <2>2, <2>3, <2>4
<1> QED BY <1>5

LEMMA Greatest ==
  ASSUME NEW s \in Seq(Int), NEW R \in SUBSET Range(s), R # {}
  PROVE  \E x \in R : \A y \in R : y <= x
<1> DEFINE C(x) == Len(s) - Cardinality(LE(s, x))
           T == {C(x) : x \in R}
<1>0. \A x \in R : \E j \in DOMAIN s : x = s[j] BY DEF Range
<1>1. R \subseteq Int BY <1>0
<1>2. T \subseteq Nat
  <2> SUFFICES ASSUME NEW x \in R PROVE C(x) \in Nat OBVIOUS
  <2>1. Cardinality(LE(s, x)) \in 0..Len(s) BY <1>1, Places
  <2> QED BY <2>1
<1>9. T # {} OBVIOUS
<1>3. PICK c \in T : \A d \in T : c <= d BY <1>2, <1>9, Least
<1>4. PICK x \in R : c = C(x) OBVIOUS
<1>5. ASSUME NEW y \in R, ~(y <= x) PROVE FALSE
  <2>1. x \in Int /\ y \in Int BY <1>1
  <2>2. Cardinality(LE(s, x)) < Cardinality(LE(s, y)) BY <1>0, <1>5, <2>1, MoreBelow
  <2>3. c <= C(y) BY <1>3
  <2>4. Cardinality(LE(s, y)) \in Nat /\ Cardinality(LE(s, x)) \in Nat BY <2>1, Places
  <2> QED BY <1>4, <2>2, <2>3, <2>4
<1> QED BY <1>5

\* Nth is what it says.
LEMMA NthIs ==
  ASSUME NEW s \in Seq(Int), NEW k \in 1..Len(s)
  PROVE  /\ Nth(s, k) \in Range(s)
         /\ Cardinality(LT(s, Nth(s, k))) < k
         /\ k <= Cardinality(LE(s, Nth(s, k)))
<1> DEFINE R == {x \in Range(s) : k <= Cardinality(LE(s, x))}
<1>0. \A x \in Range(s) : x \in Int /\ \E j \in DOMAIN s : x = s[j] BY DEF Range
<1>1. R # {}
  <2>1. 1 \in DOMAIN s OBVIOUS
  <2>5. Range(s) # {} BY <2>1 DEF Range
  <2>2. PICK x \in Range(s) : \A y \in Range(s) : y <= x BY <2>5, Greatest
  <2>3. LE(s, x) = DOMAIN s BY <2>2 DEF LE, Range
  <2>4. Cardinality(LE(s, x)) = Len(s) BY <1>0, <2>3, Places
  <2> QED BY <2>4
<1>2. PICK x \in R : \A y \in R : x <= y BY <1>1, Smallest
<1>3. Cardinality(LT(s, x)) < k
  <2> DEFINE L == {y \in Range(s) : y < x}
  <2>1. CASE L = {}
    <3>1. LT(s, x) = {} BY <2>1 DEF LT, Range
    <3> QED BY <3>1, FS_EmptySet
  <2>2. CASE L # {}
    <3>1. PICK y \in L : \A z \in L : z <= y BY <2>2, Greatest
    <3>2. LT(s, x) = LE(s, y) BY <1>0, <3>1 DEF LT, LE, Range
    <3>3. y \notin R BY <1>0, <1>2, <3>1
    <3>4. Cardinality(LE(s, y)) \in Nat BY <1>0, Places
    <3> QED BY <3>2, <3>3, <3>4
  <2> QED BY <2>1, <2>2
<1>4. \E z \in Range(s) : Cardinality(LT(s, z)) < k /\ k <= Cardinality(LE(s, z))
  BY <1>2, <1>3
<1> QED BY <1>4 DEF Nth, LT, LE

\* One value that is out of place does not matter, unless it is asked for.
LEMMA NthWithin ==
  ASSUME NEW s \in Seq(Int), NEW k \in 1..Len(s), NEW lo \in Int, NEW hi \in Int,
         \A i \in DOMAIN s : lo <= s[i] /\ s[i] <= hi
  PROVE  Nth(s, k) \in Int /\ lo <= Nth(s, k) /\ Nth(s, k) <= hi
<1>1. Nth(s, k) \in Range(s) BY NthIs
<1>2. \E j \in DOMAIN s : Nth(s, k) = s[j] BY <1>1 DEF Range
<1> QED BY <1>2

LEMMA NthInside ==
  ASSUME NEW s \in Seq(Int), NEW k \in 2..(Len(s) - 1), NEW b \in DOMAIN s,
         NEW lo \in Int, NEW hi \in Int,
         \A i \in DOMAIN s \ {b} : lo <= s[i] /\ s[i] <= hi
  PROVE  Nth(s, k) \in Int /\ lo <= Nth(s, k) /\ Nth(s, k) <= hi
<1> DEFINE x == Nth(s, k)
<1>0. k \in 1..Len(s) /\ Len(s) \in Nat OBVIOUS
<1>1. /\ x \in Range(s)
      /\ Cardinality(LT(s, x)) < k
      /\ k <= Cardinality(LE(s, x)) BY <1>0, NthIs
<1>2. \E j \in DOMAIN s : x = s[j] BY <1>1 DEF Range
<1>3. x \in Int BY <1>2
<1>4. /\ IsFiniteSet(DOMAIN s) /\ Cardinality(DOMAIN s) = Len(s)
      /\ IsFiniteSet(LE(s, x)) /\ Cardinality(LE(s, x)) \in Nat
      /\ IsFiniteSet(LT(s, x)) /\ Cardinality(LT(s, x)) \in Nat
  BY <1>3, Places
<1>5. ASSUME x < lo PROVE FALSE
  <2>1. LE(s, x) \subseteq {b} BY <1>3, <1>5 DEF LE
  <2>2. IsFiniteSet({b}) /\ Cardinality({b}) = 1 BY FS_Singleton
  <2>3. Cardinality(LE(s, x)) <= 1 BY <2>1, <2>2, FS_Subset
  <2> HIDE DEF x
  <2> QED BY <1>1, <1>4, <2>3
<1>6. ASSUME x > hi PROVE FALSE
  <2>1. DOMAIN s \ {b} \subseteq LT(s, x) BY <1>3, <1>6 DEF LT
  <2>2. IsFiniteSet(DOMAIN s \ {b}) /\ Cardinality(DOMAIN s \ {b}) = Len(s) - 1
    BY <1>4, FS_RemoveElement
  <2>3. Len(s) - 1 <= Cardinality(LT(s, x)) BY <1>4, <2>1, <2>2, FS_Subset
  <2> HIDE DEF x
  <2> QED BY <1>0, <1>1, <1>4, <2>3
<1> HIDE DEF x
<1>7. x \in Int /\ lo <= x /\ x <= hi BY <1>3, <1>5, <1>6
<1> QED BY <1>7 DEF x

LEMMA MedianWithin ==
  ASSUME NEW s \in Seq(Int), s # <<>>, NEW lo \in Int, NEW hi \in Int,
         \A i \in DOMAIN s : lo <= s[i] /\ s[i] <= hi
  PROVE  Median(s) \in Int /\ lo <= Median(s) /\ Median(s) <= hi
<1> DEFINE mid == Len(s) \div 2
<1>0. Len(s) \in Nat \ {0} OBVIOUS
<1>1. CASE Len(s) % 2 = 1
  <2>1. mid + 1 \in 1..Len(s) BY <1>0, <1>1
  <2> QED BY <1>1, <2>1, NthWithin DEF Median
<1>2. CASE Len(s) % 2 # 1
  <2>1. mid \in 1..Len(s) /\ mid + 1 \in 1..Len(s) BY <1>0, <1>2
  <2> DEFINE x == Nth(s, mid)
             y == Nth(s, mid + 1)
  <2>2. x \in Int /\ lo <= x /\ x <= hi /\ y \in Int /\ lo <= y /\ y <= hi
    BY <2>1, NthWithin
  <2>3. Median(s) = (x + y) \div 2 BY <1>2 DEF Median
  <2> HIDE DEF x, y
  <2> QED BY <2>2, <2>3
<1> QED BY <1>1, <1>2

LEMMA MedianInside ==
  ASSUME NEW s \in Seq(Int), Len(s) >= 3, NEW b \in DOMAIN s, NEW lo \in Int, NEW hi \in Int,
         \A i \in DOMAIN s \ {b} : lo <= s[i] /\ s[i] <= hi
  PROVE  Median(s) \in Int /\ lo <= Median(s) /\ Median(s) <= hi
<1> DEFINE mid == Len(s) \div 2
<1>0. Len(s) \in Nat OBVIOUS
<1>1. CASE Len(s) % 2 = 1
  <2>1. mid + 1 \in 2..(Len(s) - 1) BY <1>0, <1>1
  <2> QED BY <1>1, <2>1, NthInside DEF Median
<1>2. CASE Len(s) % 2 # 1
  <2>1. mid \in 2..(Len(s) - 1) /\ mid + 1 \in 2..(Len(s) - 1) BY <1>0, <1>2
  <2> DEFINE x == Nth(s, mid)
             y == Nth(s, mid + 1)
  <2>2. x \in Int /\ lo <= x /\ x <= hi /\ y \in Int /\ lo <= y /\ y <= hi
    BY <2>1, NthInside
  <2>3. Median(s) = (x + y) \div 2 BY <1>2 DEF Median
  <2> HIDE DEF x, y
  <2> QED BY <2>2, <2>3
<1> QED BY <1>1, <1>2

----------------------------------------------------------------------------
(* Reading. *)

Sizes ==
  /\ MaxSegments \in Nat /\ Length \in Nat /\ Jump \in Nat /\ Tolerance \in Nat
  /\ MaxLead \in Nat /\ Window \in Nat /\ Window >= 3
  /\ Silences \subseteq Nat /\ Strays \subseteq Int /\ Origins \subseteq Int \cup {NoOrigin}

Row   == [seq : Nat, kind : {"ok", "unreadable"}, from : Int, stamp : Int]
Chunk == [from : Int, startMs : Int, breakBefore : BOOLEAN]

\* When segment n began, if the capture was suspended before segment at.
Began(n, at, silence) == n * Length + (IF at \in 1..n THEN silence ELSE 0)
Stamped(n, from, at, by) == from + IF n = at THEN by ELSE 0

\* The chunks are segments of one capture, in order, and without a break next to
\* each other.
RowsOK(suspendedAt, silence, strayAt, by, q) ==
  /\ \A k \in DOMAIN segments :
       /\ segments[k].from = Began(segments[k].seq, suspendedAt, silence)
       /\ segments[k].stamp = Stamped(segments[k].seq, segments[k].from, strayAt, by)
       /\ previous < segments[k].seq
  /\ \A k, l \in DOMAIN segments : k < l => segments[k].seq < segments[l].seq
  /\ \A i \in DOMAIN chunks :
       /\ q[i] \in 1..previous
       /\ chunks[i].from = Began(q[i], suspendedAt, silence)
       /\ chunks[i].startMs = Stamped(q[i], chunks[i].from, strayAt, by)
       /\ i > 1 /\ ~chunks[i].breakBefore => q[i] = q[i - 1] + 1
  /\ \A i, j \in DOMAIN chunks : i < j => q[i] < q[j]
  /\ chunks # <<>> /\ ~broken => q[Len(chunks)] = previous

RowsInv ==
  /\ segments \in Seq(Row) /\ chunks \in Seq(Chunk)
  /\ previous \in Nat /\ broken \in BOOLEAN
  /\ \E suspendedAt, silence, strayAt \in Nat, by \in Int, q \in [DOMAIN chunks -> Nat] :
       RowsOK(suspendedAt, silence, strayAt, by, q)

LEMMA RowsInvInit == Sizes /\ Init => RowsInv
<1> SUFFICES ASSUME Sizes, Init PROVE RowsInv OBVIOUS
<1>1. PICK q \in Kept : \E unreadable \in Unreadable(q),
           suspendedAt, strayAt \in 0..MaxSegments,
           silence \in Silences, by \in Strays \cup {-x : x \in Strays} :
        LET all == Captured(unreadable, suspendedAt, silence, strayAt, by)
        IN  segments = [k \in DOMAIN q |-> all[q[k]]]
  BY DEF Init
<1>7. PICK unreadable \in Unreadable(q), suspendedAt, strayAt \in 0..MaxSegments,
           silence \in Silences, by \in Strays \cup {-x : x \in Strays} :
        LET all == Captured(unreadable, suspendedAt, silence, strayAt, by)
        IN  segments = [k \in DOMAIN q |-> all[q[k]]]
  BY <1>1
<1> DEFINE all == Captured(unreadable, suspendedAt, silence, strayAt, by)
<1>2. /\ suspendedAt \in Nat /\ strayAt \in Nat /\ silence \in Nat
      /\ by \in Int /\ MaxSegments \in Nat /\ Length \in Nat
  BY DEF Sizes
<1>3. \A n \in 1..MaxSegments : n * Length \in Int BY <1>2
<1>4. \A n \in 1..MaxSegments :
        /\ all[n] \in Row /\ all[n].seq = n /\ all[n].from = Began(n, suspendedAt, silence)
        /\ all[n].stamp = Stamped(n, all[n].from, strayAt, by)
  <2>1. all = [n \in 1..MaxSegments |->
                [seq |-> n, kind |-> IF n \in unreadable THEN "unreadable" ELSE "ok",
                 from |-> Began(n, suspendedAt, silence),
                 stamp |-> Stamped(n, Began(n, suspendedAt, silence), strayAt, by)]]
    BY DEF Captured, Began, Stamped
  <2>2. \A n \in 1..MaxSegments :
           /\ Began(n, suspendedAt, silence) \in Int
           /\ Stamped(n, Began(n, suspendedAt, silence), strayAt, by) \in Int
    BY <1>2, <1>3 DEF Began, Stamped
  <2> HIDE DEF all
  <2> QED BY <1>2, <2>1, <2>2 DEF Row
<1> HIDE DEF all
<1>5. /\ segments \in Seq(Row)
      /\ \A k \in DOMAIN segments :
           /\ segments[k].seq > 0
           /\ segments[k].from = Began(segments[k].seq, suspendedAt, silence)
           /\ segments[k].stamp = Stamped(segments[k].seq, segments[k].from, strayAt, by)
      /\ \A k, l \in DOMAIN segments : k < l => segments[k].seq < segments[l].seq
  <2>1. PICK m \in 0..MaxSegments : q \in [1..m -> 1..MaxSegments] BY DEF Kept
  <2>2. \A k, l \in DOMAIN q : k < l => q[k] < q[l] BY DEF Kept
  <2>3. segments = [k \in 1..m |-> all[q[k]]] BY <1>7, <2>1 DEF all
  <2>4. \A k \in 1..m : q[k] \in 1..MaxSegments BY <2>1
  <2>5. m \in Nat BY <1>2, <2>1
  <2>6. segments \in Seq(Row) /\ DOMAIN segments = 1..m BY <1>4, <2>3, <2>4, <2>5
  <2>7. \A k \in 1..m : segments[k] = all[q[k]] /\ segments[k].seq = q[k]
    BY <1>4, <2>3, <2>4
  <2>8. \A k \in 1..m : segments[k].seq > 0 BY <1>2, <2>4, <2>7
  <2> QED BY <1>4, <2>1, <2>2, <2>4, <2>6, <2>7, <2>8
<1>6. previous = 0 /\ broken = FALSE /\ chunks = <<>> BY DEF Init
<1>10. RowsOK(suspendedAt, silence, strayAt, by, <<>>)
  BY <1>5, <1>6 DEF RowsOK
<1>8. <<>> \in [DOMAIN chunks -> Nat] BY <1>6
<1>9. segments \in Seq(Row) /\ chunks \in Seq(Chunk) /\ previous \in Nat /\ broken \in BOOLEAN
  <2>1. <<>> \in Seq(Chunk) BY EmptySeq
  <2> QED BY <1>5, <1>6, <2>1
<1> QED BY <1>2, <1>8, <1>9, <1>10, Zenon DEF RowsInv

LEMMA ReadKeepsRows ==
  ASSUME RowsInv, ReadSegment
  PROVE  RowsInv'
<1> DEFINE s == Head(segments)
<1>1. /\ segments # <<>> /\ segments' = Tail(segments) /\ previous' = s.seq
      /\ \/ s.kind = "unreadable" /\ broken' = TRUE /\ UNCHANGED chunks
         \/ /\ broken' = FALSE
            /\ chunks' = Append(chunks, [from |-> s.from, startMs |-> s.stamp,
                 breakBefore |-> broken \/ (previous # 0 /\ s.seq # previous + 1)])
  BY DEF ReadSegment
<1>2. PICK suspendedAt \in Nat, silence \in Nat, strayAt \in Nat, by \in Int,
           q \in [DOMAIN chunks -> Nat] : RowsOK(suspendedAt, silence, strayAt, by, q)
  BY DEF RowsInv
<1>3. /\ segments \in Seq(Row) /\ chunks \in Seq(Chunk) /\ previous \in Nat
      /\ broken \in BOOLEAN BY DEF RowsInv
<1>4. s = segments[1] /\ 1 \in DOMAIN segments /\ s \in Row BY <1>1, <1>3
<1>5. /\ segments' \in Seq(Row) /\ previous' \in Nat
      /\ \A k \in DOMAIN segments' : k + 1 \in DOMAIN segments /\ segments'[k] = segments[k + 1]
  BY <1>1, <1>3, <1>4 DEF Row
<1>6. previous < s.seq BY <1>2, <1>4 DEF RowsOK
<1>7. /\ s.from = Began(s.seq, suspendedAt, silence)
      /\ s.stamp = Stamped(s.seq, s.from, strayAt, by)
  BY <1>2, <1>4 DEF RowsOK
<1>8. /\ \A k \in DOMAIN segments' :
            /\ segments'[k].from = Began(segments'[k].seq, suspendedAt, silence)
            /\ segments'[k].stamp = Stamped(segments'[k].seq, segments'[k].from, strayAt, by)
            /\ previous' < segments'[k].seq
      /\ \A k, l \in DOMAIN segments' : k < l => segments'[k].seq < segments'[l].seq
  <2>1. DOMAIN segments' \subseteq Nat \ {0} BY <1>5
  <2>2. \A k \in DOMAIN segments' : 1 < k + 1 BY <2>1
  <2>3. \A k \in DOMAIN segments :
          /\ segments[k].from = Began(segments[k].seq, suspendedAt, silence)
          /\ segments[k].stamp = Stamped(segments[k].seq, segments[k].from, strayAt, by)
          /\ 1 < k => segments[1].seq < segments[k].seq
    BY <1>2, <1>4 DEF RowsOK
  <2>4. \A k, l \in DOMAIN segments : k < l => segments[k].seq < segments[l].seq
    BY <1>2 DEF RowsOK
  <2>5. \A k, l \in DOMAIN segments' : k < l => k + 1 < l + 1 BY <2>1
  <2>6. ASSUME NEW k \in DOMAIN segments'
        PROVE  /\ segments'[k].from = Began(segments'[k].seq, suspendedAt, silence)
               /\ segments'[k].stamp = Stamped(segments'[k].seq, segments'[k].from, strayAt, by)
               /\ previous' < segments'[k].seq
    <3>1. k + 1 \in DOMAIN segments /\ segments'[k] = segments[k + 1] /\ 1 < k + 1
      BY <1>5, <2>2
    <3>2. previous' = segments[1].seq BY <1>1, <1>4
    <3> QED BY <2>3, <3>1, <3>2
  <2>7. ASSUME NEW k \in DOMAIN segments', NEW l \in DOMAIN segments', k < l
        PROVE  segments'[k].seq < segments'[l].seq
    <3>1. /\ k + 1 \in DOMAIN segments /\ segments'[k] = segments[k + 1]
          /\ l + 1 \in DOMAIN segments /\ segments'[l] = segments[l + 1]
      BY <1>5
    <3> QED BY <2>4, <2>5, <2>7, <3>1
  <2> QED BY <2>6, <2>7
<1>9. CASE s.kind = "unreadable" /\ broken' = TRUE /\ UNCHANGED chunks
  <2>1. \A i \in DOMAIN chunks : q[i] \in 1..previous BY <1>2 DEF RowsOK
  <2>2. s.seq \in Nat BY <1>4 DEF Row
  <2>3. \A i \in DOMAIN chunks : q[i] \in 1..s.seq BY <1>3, <1>6, <2>1, <2>2
  <2>4. RowsOK(suspendedAt, silence, strayAt, by, q)'
    BY <1>1, <1>2, <1>8, <1>9, <2>3 DEF RowsOK, Began, Stamped
  <2> QED BY <1>3, <1>5, <1>9, <2>4 DEF RowsInv
<1>10. CASE /\ broken' = FALSE
            /\ chunks' = Append(chunks, [from |-> s.from, startMs |-> s.stamp,
                 breakBefore |-> broken \/ (previous # 0 /\ s.seq # previous + 1)])
  <2> DEFINE n == Len(chunks)
  <2> PICK p : p = [i \in 1..(n + 1) |-> IF i = n + 1 THEN s.seq ELSE q[i]] OBVIOUS
  <2>1. n \in Nat /\ DOMAIN chunks = 1..n BY <1>3
  <2>2. /\ chunks' \in Seq(Chunk) /\ Len(chunks') = n + 1 /\ DOMAIN chunks' = 1..(n + 1)
        /\ chunks'[n + 1] = [from |-> s.from, startMs |-> s.stamp,
                 breakBefore |-> broken \/ (previous # 0 /\ s.seq # previous + 1)]
        /\ \A i \in 1..n : chunks'[i] = chunks[i]
    BY <1>3, <1>4, <1>10 DEF Row, Chunk
  <2>3. s.seq \in Nat BY <1>4 DEF Row
  <2>4. p \in [DOMAIN chunks' -> Nat] BY <2>1, <2>2, <2>3
  <2>5. p[n + 1] = s.seq /\ \A i \in 1..n : p[i] = q[i] /\ q[i] \in Nat BY <2>1
  <2> HIDE DEF n
  <2>6. \A i \in 1..n : q[i] \in 1..previous BY <1>2, <2>1 DEF RowsOK
  <2>7. ASSUME n + 1 > 1, ~chunks'[n + 1].breakBefore PROVE p[n + 1] = p[n] + 1
    <3>1. ~broken /\ ~(previous # 0 /\ s.seq # previous + 1) 
      <4>1. chunks'[n + 1].breakBefore = (broken \/ (previous # 0 /\ s.seq # previous + 1))
        BY <2>2
      <4> QED BY <2>7, <4>1, Zenon
    <3>2. n \in 1..n /\ chunks # <<>> BY <1>3, <2>1, <2>7 DEF n
    <3>3. q[n] = previous BY <1>2, <3>1, <3>2 DEF RowsOK, n
    <3>4. previous # 0 BY <1>3, <2>6, <3>2
    <3> QED BY <3>1, <3>2, <3>3, <3>4, <2>5
  <2>8. ASSUME NEW i \in DOMAIN chunks'
        PROVE  /\ p[i] \in 1..previous'
               /\ chunks'[i].from = Began(p[i], suspendedAt, silence)
               /\ chunks'[i].startMs = Stamped(p[i], chunks'[i].from, strayAt, by)
               /\ i > 1 /\ ~chunks'[i].breakBefore => p[i] = p[i - 1] + 1
    <3>1. CASE i = n + 1
      <4>1. p[i] = s.seq /\ p[i] \in 1..previous' BY <1>1, <1>3, <1>6, <2>3, <2>5, <3>1
      <4>2. chunks'[i].from = s.from /\ chunks'[i].startMs = s.stamp BY <2>2, <3>1
      <4>3. i > 1 /\ ~chunks'[i].breakBefore => p[i] = p[i - 1] + 1
        <5>1. i - 1 = n BY <2>1, <3>1
        <5> QED BY <2>7, <3>1, <5>1
      <4> QED BY <1>7, <4>1, <4>2, <4>3
    <3>2. CASE i \in 1..n
      <4>1. i > 1 => i - 1 \in 1..n BY <2>1, <3>2
      <4>2. /\ q[i] \in 1..previous
            /\ chunks[i].from = Began(q[i], suspendedAt, silence)
            /\ chunks[i].startMs = Stamped(q[i], chunks[i].from, strayAt, by)
            /\ i > 1 /\ ~chunks[i].breakBefore => q[i] = q[i - 1] + 1
        BY <1>2, <2>1, <3>2 DEF RowsOK
      <4>3. p[i] = q[i] /\ chunks'[i] = chunks[i] BY <2>2, <2>5, <3>2
      <4>4. q[i] \in 1..previous' BY <1>1, <1>3, <1>6, <2>3, <4>2
      <4> QED BY <2>5, <4>1, <4>2, <4>3, <4>4
    <3> QED BY <2>1, <2>2, <3>1, <3>2
  <2>9. \A i, j \in DOMAIN chunks' : i < j => p[i] < p[j]
    <3>1. \A i, j \in 1..n : i < j => q[i] < q[j] BY <1>2, <2>1 DEF RowsOK
    <3>2. \A i \in 1..n : q[i] < s.seq BY <1>3, <1>6, <2>3, <2>6
    <3> QED BY <2>1, <2>2, <2>5, <3>1, <3>2
  <2>10. p[Len(chunks')] = previous' BY <1>1, <2>2, <2>5
  <2>11. RowsOK(suspendedAt, silence, strayAt, by, p)'
    BY <1>8, <2>8, <2>9, <2>10 DEF RowsOK
  <2>12. segments' \in Seq(Row) /\ chunks' \in Seq(Chunk) /\ previous' \in Nat
         /\ broken' \in BOOLEAN
    BY <1>5, <1>10, <2>2
  <2> QED BY <2>4, <2>11, <2>12, Zenon DEF RowsInv
<1> QED BY <1>1, <1>9, <1>10

\* What planning needs of the chunks: they do not overlap, the capture was suspended
\* at most once, and at most one timestamp is wrong.
Gap(i)   == ~chunks[i].breakBefore /\ chunks[i].from # chunks[i - 1].from + Length
Stray(i) == chunks[i].startMs # chunks[i].from

Good ==
  /\ chunks \in Seq(Chunk)
  /\ \A i \in 2..Len(chunks) : chunks[i - 1].from + Length <= chunks[i].from
  /\ \A i, j \in 2..Len(chunks) : Gap(i) /\ Gap(j) => i = j
  /\ \A i, j \in DOMAIN chunks : Stray(i) /\ Stray(j) => i = j

LEMMA Longer ==
  ASSUME Length \in Nat, NEW m \in Nat, NEW n \in Nat, m < n
  PROVE  m * Length + Length <= n * Length
<1>1. PICK d \in Nat : n = m + 1 + d
  <2>1. n - m - 1 \in Nat /\ n = m + 1 + (n - m - 1) OBVIOUS
  <2> QED BY <2>1
<1>2. n * Length = m * Length + Length + d * Length BY <1>1
<1>3. d * Length \in Nat /\ m * Length \in Nat OBVIOUS
<1> QED BY <1>2, <1>3

LEMMA RowsAreGood == Sizes /\ RowsInv => Good
<1> SUFFICES ASSUME Sizes, RowsInv PROVE Good OBVIOUS
<1>1. PICK suspendedAt \in Nat, silence \in Nat, strayAt \in Nat, by \in Int,
           q \in [DOMAIN chunks -> Nat] : RowsOK(suspendedAt, silence, strayAt, by, q)
  BY DEF RowsInv
<1>2. chunks \in Seq(Chunk) /\ Length \in Nat BY DEF RowsInv, Sizes
<1>3. \A i \in DOMAIN chunks :
        /\ q[i] \in Nat \ {0}
        /\ chunks[i].from = Began(q[i], suspendedAt, silence)
        /\ chunks[i].startMs = Stamped(q[i], chunks[i].from, strayAt, by)
        /\ i > 1 /\ ~chunks[i].breakBefore => q[i] = q[i - 1] + 1
  BY <1>1 DEF RowsOK, RowsInv
<1>4. \A i, j \in DOMAIN chunks : i < j => q[i] < q[j] BY <1>1 DEF RowsOK
<1>5. \A i, j \in DOMAIN chunks : q[i] = q[j] => i = j BY <1>2, <1>3, <1>4
<1>6. DOMAIN chunks = 1..Len(chunks) /\ Len(chunks) \in Nat BY <1>2
<1>7. \A n \in Nat : n * Length \in Int BY <1>2
<1>8. ASSUME NEW i \in 2..Len(chunks)
      PROVE  /\ chunks[i - 1].from + Length <= chunks[i].from
             /\ Gap(i) => suspendedAt = q[i]
  <2>1. i \in DOMAIN chunks /\ i - 1 \in DOMAIN chunks /\ i - 1 < i /\ i > 1 BY <1>6
  <2>2. q[i - 1] < q[i] /\ q[i - 1] \in Nat \ {0} /\ q[i] \in Nat \ {0} BY <1>3, <1>4, <2>1
  <2>3. q[i - 1] * Length + Length <= q[i] * Length BY <1>2, <2>2, Longer
  <2>4. q[i - 1] * Length \in Int /\ q[i] * Length \in Int BY <1>7, <2>2
  <2>5. /\ chunks[i].from = q[i] * Length + IF suspendedAt \in 1..q[i] THEN silence ELSE 0
        /\ chunks[i - 1].from = q[i - 1] * Length
             + IF suspendedAt \in 1..q[i - 1] THEN silence ELSE 0
    BY <1>3, <2>1 DEF Began
  <2>6. chunks[i - 1].from + Length <= chunks[i].from
    <3> DEFINE x == q[i - 1] * Length
               y == q[i] * Length
    <3>1. suspendedAt \in 1..q[i - 1] => suspendedAt \in 1..q[i] BY <2>2
    <3>2. x \in Int /\ y \in Int /\ x + Length <= y BY <2>3, <2>4
    <3>3. /\ chunks[i].from = y + IF suspendedAt \in 1..q[i] THEN silence ELSE 0
          /\ chunks[i - 1].from = x + IF suspendedAt \in 1..q[i - 1] THEN silence ELSE 0
      BY <2>5
    <3> HIDE DEF x, y
    <3> QED BY <1>2, <3>1, <3>2, <3>3
  <2>7. ASSUME Gap(i) PROVE suspendedAt = q[i]
    <3>1. q[i] = q[i - 1] + 1 BY <1>3, <2>1, <2>7 DEF Gap
    <3>2. q[i] * Length = q[i - 1] * Length + Length BY <1>2, <2>2, <3>1
    <3>3. chunks[i].from # chunks[i - 1].from + Length BY <2>7 DEF Gap
    <3>4. ~(suspendedAt \in 1..q[i] <=> suspendedAt \in 1..q[i - 1])
      BY <1>2, <2>4, <2>5, <3>2, <3>3
    <3> QED BY <2>2, <3>1, <3>4
  <2> QED BY <2>6, <2>7
<1>9. \A i \in DOMAIN chunks : Stray(i) => q[i] = strayAt
  <2>2. \A i \in DOMAIN chunks : chunks[i] \in Chunk BY <1>2
  <2>1. \A i \in DOMAIN chunks : chunks[i].from \in Int BY <2>2 DEF Chunk
  <2> QED BY <1>3, <2>1 DEF Stray, Stamped
<1>10. \A i, j \in 2..Len(chunks) : Gap(i) /\ Gap(j) => i = j
  BY <1>5, <1>6, <1>8
<1>11. \A i, j \in DOMAIN chunks : Stray(i) /\ Stray(j) => i = j BY <1>5, <1>9
<1> QED BY <1>2, <1>8, <1>10, <1>11 DEF Good

----------------------------------------------------------------------------
(* Planning. *)

AllTellable == \A i \in DOMAIN chunks : Stray(i) => Tellable(i)

\* Where a run that has chunk i at its time and all before without a gap would have
\* begun, if chunk f is its first.
Lag(i, f) == chunks[i].from - (i - f) * Length

\* What was captured from f to l makes one run: the suspensions in it are short.
Spread(f, l) ==
  /\ \A i \in f..l : chunks[f].from <= Lag(i, f) /\ Lag(i, f) <= Lag(l, f)
  /\ Lag(l, f) <= chunks[f].from + Jump

InRange(x, f, l) == chunks[f].from <= x /\ x <= Lag(l, f)

\* Where the run that is being built begins.  At most one of its offsets is from a
\* wrong timestamp; it is the last one, or there are three.
OffsetsOK(o, f, l) ==
  /\ o \in Seq(Int) /\ o # <<>> /\ o[1] = chunks[f].from
  /\ Len(o) = 1 => l = f \/ \E i \in 1..l : Stray(i)
  /\ \/ \A k \in DOMAIN o : InRange(o[k], f, l)
     \/ /\ Stray(l) /\ Len(o) >= 2
        /\ \A k \in 1..(Len(o) - 1) : InRange(o[k], f, l)
        /\ Len(o) = 2 => o[1] = Lag(l, f) /\ o[2] - o[1] <= Jump /\ o[1] - o[2] <= Jump
     \/ /\ Len(o) >= 3 /\ \E i \in 1..l : Stray(i)
        /\ \E b \in DOMAIN o : \A k \in DOMAIN o \ {b} : InRange(o[k], f, l)

BuildOK(f, l, o) ==
  /\ f \in 1..l /\ l \in DOMAIN chunks
  /\ Spread(f, l) /\ OffsetsOK(o, f, l)
  /\ Lag(l, f) # chunks[f].from => \E i \in (f + 1)..l : Gap(i)

RunSet == [first : Nat, last : Nat, startMs : Int]
RunOK(r) ==
  /\ r.first \in 1..r.last /\ r.last \in DOMAIN chunks
  /\ Spread(r.first, r.last) /\ InRange(r.startMs, r.first, r.last)

\* The runs are chunks 1 to m, one run after the other.
RunsOK(m) ==
  /\ runs \in Seq(RunSet)
  /\ \A k \in DOMAIN runs : RunOK(runs[k])
  /\ \A k \in DOMAIN runs : k > 1 => runs[k].first = runs[k - 1].last + 1
  /\ IF runs = <<>> THEN m = 0 ELSE runs[1].first = 1 /\ runs[Len(runs)].last = m
  /\ \A i \in 1..m : \E k \in DOMAIN runs : i \in runs[k].first..runs[k].last

PlanInv ==
  /\ index \in 1..(Len(chunks) + 1)
  /\ IF index = 1 THEN run = NoRun /\ RunsOK(0)
     ELSE \E f, l \in Nat, o \in Seq(Int) :
            /\ run = [first |-> f, offsets |-> o] /\ index = l + 1
            /\ BuildOK(f, l, o) /\ RunsOK(f - 1)

\* The offsets the baseline is the median of.
Recent(o) == SubSeq(o, IF Len(o) > Window THEN Len(o) - Window + 1 ELSE 1, Len(o))

LEMMA RecentIs ==
  ASSUME Sizes, NEW o \in Seq(Int), o # <<>>
  PROVE  /\ Recent(o) \in Seq(Int) /\ Recent(o) # <<>>
         /\ Len(o) <= 3 => Recent(o) = o
         /\ Len(o) >= 3 => Len(Recent(o)) >= 3
         /\ \E d \in Nat : /\ \A k \in DOMAIN Recent(o) : /\ k + d \in DOMAIN o
                                                          /\ Recent(o)[k] = o[k + d]
                           /\ Len(Recent(o)) + d = Len(o)
<1> DEFINE n == Len(o)
           m == IF n > Window THEN n - Window + 1 ELSE 1
<1>1. n \in Nat \ {0} /\ Window \in Nat /\ Window >= 3 /\ DOMAIN o = 1..n BY DEF Sizes
<1>2. m \in 1..n BY <1>1
<1>3. \A i \in m..n : o[i] \in Int BY <1>1, <1>2
<1>4. Recent(o) = SubSeq(o, m, n) BY DEF Recent
<1> HIDE DEF m, n
<1>5. /\ SubSeq(o, m, n) \in Seq(Int)
      /\ Len(SubSeq(o, m, n)) = n - m + 1
      /\ \A i \in 1..(n - m + 1) : SubSeq(o, m, n)[i] = o[m + i - 1]
  BY <1>1, <1>2, <1>3, SubSeqProperties
<1>6. DOMAIN Recent(o) = 1..(n - m + 1) BY <1>4, <1>5
<1>7. \A k \in DOMAIN Recent(o) : k + (m - 1) \in DOMAIN o /\ Recent(o)[k] = o[k + (m - 1)]
  BY <1>1, <1>2, <1>4, <1>5, <1>6
<1>8. m - 1 \in Nat BY <1>2
<1>9. n <= 3 => m = 1 BY <1>1 DEF m
<1>10. n >= 3 => n - m + 1 >= 3 BY <1>1 DEF m
<1>11. n <= 3 => Recent(o) = o
  <2> SUFFICES ASSUME n <= 3 PROVE Recent(o) = o OBVIOUS
  <2>1. m = 1 BY <1>9
  <2>2. Len(Recent(o)) = Len(o) BY <1>1, <1>4, <1>5, <2>1 DEF n
  <2>3. \A k \in 1..Len(o) : Recent(o)[k] = o[k] BY <1>1, <1>6, <1>7, <2>1 DEF n
  <2> QED BY <1>4, <1>5, <2>2, <2>3, SeqEqual
<1>12. Len(Recent(o)) = n - m + 1 /\ Recent(o) \in Seq(Int) BY <1>4, <1>5
<1>13. Recent(o) # <<>> BY <1>2, <1>1, <1>12
<1>14. Len(Recent(o)) + (m - 1) = Len(o) BY <1>1, <1>2, <1>12 DEF n
<1>15. \E d \in Nat : /\ \A k \in DOMAIN Recent(o) : /\ k + d \in DOMAIN o
                                                     /\ Recent(o)[k] = o[k + d]
                     /\ Len(Recent(o)) + d = Len(o)
  BY <1>7, <1>8, <1>14
<1>16. Len(o) >= 3 => Len(Recent(o)) >= 3 BY <1>10, <1>12 DEF n
<1> QED BY <1>11, <1>12, <1>13, <1>15, <1>16 DEF n

\* A median is in the range of what it is taken of, but for one value.
Tame(o, lo, hi) ==
  \/ \A k \in DOMAIN o : lo <= o[k] /\ o[k] <= hi
  \/ /\ Len(o) >= 3
     /\ \E b \in DOMAIN o : \A k \in DOMAIN o \ {b} : lo <= o[k] /\ o[k] <= hi

LEMMA TameMedian ==
  ASSUME NEW o \in Seq(Int), o # <<>>, NEW lo \in Int, NEW hi \in Int, Tame(o, lo, hi)
  PROVE  Median(o) \in Int /\ lo <= Median(o) /\ Median(o) <= hi
<1>1. CASE \A k \in DOMAIN o : lo <= o[k] /\ o[k] <= hi BY <1>1, MedianWithin
<1>2. CASE /\ Len(o) >= 3
           /\ \E b \in DOMAIN o : \A k \in DOMAIN o \ {b} : lo <= o[k] /\ o[k] <= hi
  <2>1. PICK b \in DOMAIN o : \A k \in DOMAIN o \ {b} : lo <= o[k] /\ o[k] <= hi BY <1>2
  <2> QED BY <1>2, <2>1, MedianInside
<1> QED BY <1>1, <1>2 DEF Tame

LEMMA TameRecent ==
  ASSUME Sizes, NEW o \in Seq(Int), o # <<>>, NEW lo \in Int, NEW hi \in Int, Tame(o, lo, hi)
  PROVE  /\ Median(Recent(o)) \in Int
         /\ lo <= Median(Recent(o)) /\ Median(Recent(o)) <= hi
<1> DEFINE w == Recent(o)
<1>1. w \in Seq(Int) /\ w # <<>> /\ (Len(o) >= 3 => Len(w) >= 3) BY RecentIs
<1>2. PICK d \in Nat : \A k \in DOMAIN w : k + d \in DOMAIN o /\ w[k] = o[k + d]
  BY RecentIs
<1>3. Tame(w, lo, hi)
  <2>1. CASE \A k \in DOMAIN o : lo <= o[k] /\ o[k] <= hi BY <1>2, <2>1 DEF Tame
  <2>2. CASE /\ Len(o) >= 3
             /\ \E b \in DOMAIN o : \A k \in DOMAIN o \ {b} : lo <= o[k] /\ o[k] <= hi
    <3>1. PICK b \in DOMAIN o : \A k \in DOMAIN o \ {b} : lo <= o[k] /\ o[k] <= hi BY <2>2
    <3>2. \A k \in DOMAIN w : k # b - d => lo <= w[k] /\ w[k] <= hi BY <1>1, <1>2, <3>1
    <3>3. CASE b - d \in DOMAIN w BY <1>1, <2>2, <3>2, <3>3 DEF Tame
    <3>4. CASE b - d \notin DOMAIN w BY <3>2, <3>4 DEF Tame
    <3> QED BY <3>3, <3>4
  <2> QED BY <2>1, <2>2 DEF Tame
<1> HIDE DEF w
<1>4. Median(w) \in Int /\ lo <= Median(w) /\ Median(w) <= hi BY <1>1, <1>3, TameMedian
<1> QED BY <1>4 DEF w

LEMMA ChunkType ==
  ASSUME Good
  PROVE  /\ \A i \in DOMAIN chunks : /\ chunks[i].from \in Int /\ chunks[i].startMs \in Int
                                     /\ chunks[i].breakBefore \in BOOLEAN
         /\ DOMAIN chunks = 1..Len(chunks) /\ Len(chunks) \in Nat
<1>1. \A i \in DOMAIN chunks : chunks[i] \in Chunk BY DEF Good
<1>2. DOMAIN chunks = 1..Len(chunks) /\ Len(chunks) \in Nat BY DEF Good
<1> QED BY <1>1, <1>2 DEF Chunk

\* The lag of a chunk is that of the one before and the suspension between them.
LEMMA LagStep ==
  ASSUME Sizes, Good, NEW i \in 2..Len(chunks), NEW f \in 1..(i - 1)
  PROVE  /\ Lag(f, f) = chunks[f].from
         /\ Lag(i - 1, f) \in Int /\ Lag(i, f) \in Int /\ Lag(i - 1, f) <= Lag(i, f)
         /\ ~Gap(i) /\ ~chunks[i].breakBefore => Lag(i, f) = Lag(i - 1, f)
<1>1. /\ chunks[i].from \in Int /\ chunks[i - 1].from \in Int /\ chunks[f].from \in Int
      /\ Length \in Nat /\ i \in Nat /\ f \in Nat /\ i - 1 \in DOMAIN chunks
  BY ChunkType DEF Sizes
<1>2. chunks[i - 1].from + Length <= chunks[i].from BY DEF Good
<1>3. /\ (i - f) * Length = ((i - 1) - f) * Length + Length
      /\ ((i - 1) - f) * Length \in Int /\ (i - f) * Length \in Int /\ (f - f) * Length = 0
  BY <1>1
<1> DEFINE a == ((i - 1) - f) * Length
           b == (i - f) * Length
           z == (f - f) * Length
           x == chunks[i].from
           y == chunks[i - 1].from
<1>4. a \in Int /\ b = a + Length /\ z = 0 BY <1>3
<1>5. x \in Int /\ y \in Int /\ y + Length <= x BY <1>1, <1>2
<1>6. /\ Lag(f, f) = chunks[f].from - z /\ Lag(i - 1, f) = y - a /\ Lag(i, f) = x - b
      /\ ~Gap(i) /\ ~chunks[i].breakBefore => x = y + Length
  BY Zenon DEF Lag, Gap
<1> HIDE DEF a, b, z, x, y
<1>7. Lag(f, f) = chunks[f].from BY <1>1, <1>4, <1>6
<1>8. Lag(i - 1, f) \in Int /\ Lag(i, f) \in Int /\ Lag(i - 1, f) <= Lag(i, f)
  BY <1>1, <1>4, <1>5, <1>6
<1>9. x = y + Length => Lag(i, f) = Lag(i - 1, f) BY <1>1, <1>4, <1>5, <1>6
<1> QED BY <1>6, <1>7, <1>8, <1>9

LEMMA BuildType ==
  ASSUME Sizes, Good, NEW f, NEW l, NEW o, BuildOK(f, l, o)
  PROVE  /\ f \in DOMAIN chunks /\ l \in DOMAIN chunks /\ f <= l
         /\ chunks[f].from \in Int /\ Lag(l, f) \in Int /\ Lag(f, f) = chunks[f].from
         /\ chunks[f].from <= Lag(l, f) /\ Lag(l, f) <= chunks[f].from + Jump
<1>1. f \in DOMAIN chunks /\ l \in DOMAIN chunks /\ f <= l /\ l \in f..l
  BY ChunkType DEF BuildOK
<1>2. /\ chunks[f].from \in Int /\ chunks[l].from \in Int /\ Length \in Nat
  BY <1>1, ChunkType DEF Sizes
<1>3. f \in Int /\ l \in Int BY <1>1, ChunkType
<1>4. (l - f) * Length \in Int /\ (f - f) * Length = 0 BY <1>2, <1>3
<1> QED BY <1>1, <1>2, <1>4 DEF BuildOK, Spread, Lag

\* A run begins with a chunk whose timestamp is right.
LEMMA RunBegins ==
  ASSUME Sizes, Good, NEW i \in DOMAIN chunks, ~Stray(i)
  PROVE  BuildOK(i, i, <<chunks[i].startMs>>)
<1> DEFINE o == <<chunks[i].startMs>>
<1>1. chunks[i].from \in Int /\ chunks[i].startMs = chunks[i].from /\ i \in Nat \ {0}
  BY ChunkType DEF Stray
<1>2. Lag(i, i) = chunks[i].from BY <1>1 DEF Lag, Sizes
<1>3. o \in Seq(Int) /\ o # <<>> /\ Len(o) = 1 /\ o[1] = chunks[i].from /\ DOMAIN o = {1}
  BY <1>1
<1>4. OffsetsOK(o, i, i) BY <1>1, <1>2, <1>3 DEF OffsetsOK, InRange
<1>5. Spread(i, i) BY <1>1, <1>2 DEF Spread, Sizes
<1> QED BY <1>1, <1>2, <1>4, <1>5 DEF BuildOK

\* A run that ends with a right timestamp is at its place.
LEMMA RunFits ==
  ASSUME Sizes, Good, NEW f, NEW l, NEW o, BuildOK(f, l, o), ~Stray(l)
  PROVE  /\ RunOK([first |-> f, last |-> l, startMs |-> Median(o)])
         /\ [first |-> f, last |-> l, startMs |-> Median(o)] \in RunSet
<1>1. o \in Seq(Int) /\ o # <<>> /\ f \in 1..l /\ l \in DOMAIN chunks /\ Spread(f, l)
  BY DEF BuildOK, OffsetsOK
<1>2. Tame(o, chunks[f].from, Lag(l, f)) BY DEF BuildOK, OffsetsOK, Tame, InRange
<1>3. chunks[f].from \in Int /\ Lag(l, f) \in Int BY BuildType
<1>4. /\ Median(o) \in Int /\ chunks[f].from <= Median(o) /\ Median(o) <= Lag(l, f)
  BY <1>1, <1>2, <1>3, TameMedian
<1>5. f \in Nat /\ l \in Nat BY <1>1, ChunkType
<1> QED BY <1>1, <1>4, <1>5 DEF RunOK, RunSet, InRange

LEMMA RunAdded ==
  ASSUME Good, NEW r \in RunSet, RunOK(r), RunsOK(r.first - 1),
         runs' = Append(runs, r), chunks' = chunks
  PROVE  RunsOK(r.last)'
<1> DEFINE n == Len(runs)
<1>1. /\ runs \in Seq(RunSet) /\ n \in Nat /\ DOMAIN runs = 1..n
      /\ runs' \in Seq(RunSet) /\ Len(runs') = n + 1 /\ DOMAIN runs' = 1..(n + 1)
      /\ runs'[n + 1] = r /\ \A k \in 1..n : runs'[k] = runs[k]
  BY DEF RunsOK
<1>2. runs = <<>> <=> n = 0 BY <1>1
<1>3. r.first \in Nat /\ r.last \in Nat /\ r.first >= 1 /\ r.first <= r.last
  BY DEF RunSet, RunOK
<1>4. \A k \in 1..n : runs[k].first \in Nat /\ runs[k].last \in Nat
  <2>1. \A k \in 1..n : runs[k] \in RunSet BY <1>1
  <2> QED BY <2>1 DEF RunSet
<1> HIDE DEF n
<1>5. (\A k \in DOMAIN runs : RunOK(runs[k]))'
  <2>1. \A k \in DOMAIN runs' : RunOK(runs'[k])
    BY <1>1 DEF RunsOK
  <2> QED BY <2>1 DEF RunOK, Spread, InRange, Lag
<1>6. ASSUME NEW k \in DOMAIN runs', k > 1 PROVE runs'[k].first = runs'[k - 1].last + 1
  <2>1. CASE k \in 1..n
    <3>1. k - 1 \in 1..n BY <1>1, <1>6, <2>1
    <3> QED BY <1>1, <1>6, <2>1, <3>1 DEF RunsOK
  <2>2. CASE k = n + 1
    <3>1. n \in 1..n /\ k - 1 = n /\ runs # <<>> BY <1>1, <1>2, <1>6, <2>2
    <3>2. runs[n].last = r.first - 1 BY <3>1 DEF RunsOK, n
    <3>3. runs'[k] = r BY <1>1, <2>2
    <3>4. runs'[n] = runs[n] BY <1>1, <3>1
    <3>5. runs'[k - 1] = runs'[n] BY <3>1
    <3>6. runs[n].last \in Nat BY <1>4, <3>1
    <3> QED BY <1>3, <3>2, <3>3, <3>4, <3>5, <3>6
  <2>3. n \in Nat /\ k \in 1..(n + 1) BY <1>1
  <2>4. k \in 1..n \/ k = n + 1 BY <2>3
  <2> QED BY <2>1, <2>2, <2>4
<1>7. runs'[1].first = 1
  <2>1. CASE n = 0
    <3>1. r.first - 1 = 0 BY <1>2, <2>1 DEF RunsOK
    <3> QED BY <1>1, <1>3, <2>1, <3>1
  <2>2. CASE n # 0 BY <1>1, <1>2, <2>2 DEF RunsOK
  <2> QED BY <2>1, <2>2
<1>8. ASSUME NEW i \in 1..r.last
      PROVE  \E k \in DOMAIN runs' : i \in runs'[k].first..runs'[k].last
  <2>1. CASE i \in 1..(r.first - 1)
    <3>1. PICK k \in DOMAIN runs : i \in runs[k].first..runs[k].last BY <2>1 DEF RunsOK
    <3> QED BY <1>1, <3>1
  <2>2. CASE i \in r.first..r.last BY <1>1, <2>2
  <2> QED BY <1>3, <2>1, <2>2
<1>9. runs' # <<>> /\ runs'[Len(runs')].last = r.last BY <1>1
<1> QED BY <1>1, <1>5, <1>6, <1>7, <1>8, <1>9 DEF RunsOK

\* Around a wrong timestamp the capture goes on.
LEMMA AroundStray ==
  ASSUME Good, AllTellable, NEW i \in DOMAIN chunks, Stray(i)
  PROVE  /\ i > 1 /\ i + 1 \in DOMAIN chunks
         /\ ~chunks[i].breakBefore /\ ~Gap(i) /\ ~chunks[i + 1].breakBefore /\ ~Gap(i + 1)
         /\ i > 2 => ~Gap(i - 1)
         /\ \A j \in DOMAIN chunks : Stray(j) => j = i
<1>1. Tellable(i) BY DEF AllTellable
<1>2. i \in Nat /\ i > 1 /\ i < Len(chunks) /\ Len(chunks) \in Nat
  BY <1>1, ChunkType DEF Tellable
<1>3. Continuous(i - 1) /\ Continuous(i) /\ Continuous(i + 1) BY <1>1 DEF Tellable
<1>4. ~(i > Len(chunks)) /\ ~(i < 2) /\ ~(i + 1 > Len(chunks)) /\ ~(i + 1 < 2)
  BY <1>2
<1>5. i + 1 \in DOMAIN chunks BY <1>2, ChunkType
<1>6. /\ ~chunks[i].breakBefore /\ chunks[i].from = chunks[i - 1].from + Length
      /\ ~chunks[i + 1].breakBefore /\ chunks[i + 1].from = chunks[(i + 1) - 1].from + Length
  BY <1>3, <1>4 DEF Continuous
<1>7. i > 2 => chunks[i - 1].from = chunks[(i - 1) - 1].from + Length
  BY <1>2, <1>3 DEF Continuous
<1> QED BY <1>2, <1>5, <1>6, <1>7 DEF Gap, Good

\* The baseline is near the last chunk's lag, and in the run's range but for a
\* wrong timestamp that was just taken in.
LEMMA BaselineNear ==
  ASSUME Sizes, Good, NEW f, NEW l, NEW o, BuildOK(f, l, o)
  PROVE  LET m == Median(Recent(o))
         IN  /\ m \in Int /\ Lag(l, f) - m <= Jump /\ m - Lag(l, f) <= Jump
             /\ ~Stray(l) => InRange(m, f, l)
<1> DEFINE m  == Median(Recent(o))
           lo == chunks[f].from
           hi == Lag(l, f)
<1>1. /\ lo \in Int /\ hi \in Int /\ lo <= hi /\ hi <= lo + Jump /\ Jump \in Nat
  BY BuildType DEF Sizes
<1>2. o \in Seq(Int) /\ o # <<>> BY DEF BuildOK, OffsetsOK
<1>3. CASE Tame(o, lo, hi)
  <2>1. m \in Int /\ lo <= m /\ m <= hi BY <1>1, <1>2, <1>3, TameRecent
  <2> HIDE DEF m, lo, hi
  <2>2. m \in Int /\ hi - m <= Jump /\ m - hi <= Jump BY <1>1, <2>1
  <2> QED BY <2>1, <2>2 DEF InRange, lo, hi, m
<1>4. CASE ~Tame(o, lo, hi)
  <2>1. /\ Stray(l) /\ Len(o) >= 2
        /\ \A k \in 1..(Len(o) - 1) : InRange(o[k], f, l)
        /\ Len(o) = 2 => o[1] = Lag(l, f) /\ o[2] - o[1] <= Jump /\ o[1] - o[2] <= Jump
    BY <1>4 DEF BuildOK, OffsetsOK, Tame, InRange
  <2>2. CASE Len(o) >= 3
    <3>1. Len(o) \in DOMAIN o /\ DOMAIN o = 1..Len(o) /\ Len(o) \in Nat BY <1>2, <2>2
    <3>2. \A k \in DOMAIN o \ {Len(o)} : lo <= o[k] /\ o[k] <= hi
      BY <2>1, <3>1 DEF InRange
    <3> QED BY <1>4, <2>2, <3>1, <3>2 DEF Tame
  <2>3. CASE ~(Len(o) >= 3)
    <3>7. Len(o) \in Nat /\ DOMAIN o = 1..Len(o) BY <1>2
    <3>8. Len(o) = 2 BY <2>1, <2>3, <3>7
    <3>9. DOMAIN o = {1, 2} BY <3>7, <3>8
    <3>1. o[1] \in Int /\ o[2] \in Int BY <1>2, <3>9
    <3>2. Recent(o) = o
      <4>1. Len(o) <= 3 => Recent(o) = o BY <1>2, RecentIs
      <4> QED BY <3>8, <4>1
    <3>3. \A k \in DOMAIN o : hi - Jump <= o[k] /\ o[k] <= hi + Jump
      BY <1>1, <2>1, <3>1, <3>8, <3>9
    <3>4. hi - Jump \in Int /\ hi + Jump \in Int BY <1>1
    <3> HIDE DEF lo, hi
    <3>5. Median(o) \in Int /\ hi - Jump <= Median(o) /\ Median(o) <= hi + Jump
      BY <1>2, <3>3, <3>4, MedianWithin
    <3>6. hi - Median(o) <= Jump /\ Median(o) - hi <= Jump BY <1>1, <3>5
    <3> QED BY <2>1, <3>2, <3>5, <3>6 DEF hi
  <2> QED BY <2>2, <2>3
<1> QED BY <1>3, <1>4

\* The chunk after the run's last one, l: where it would have begun the run, and how
\* far that is from the baseline.
After(l, f) == chunks[l].startMs - (l - f) * Length
Near(x, m)  == x - m <= Jump /\ m - x <= Jump

LEMMA NextLag ==
  ASSUME Sizes, Good, NEW f, NEW l, NEW o, BuildOK(f, l, o), l + 1 \in DOMAIN chunks
  PROVE  /\ Lag(l + 1, f) \in Int /\ Lag(l, f) <= Lag(l + 1, f)
         /\ ~Gap(l + 1) /\ ~chunks[l + 1].breakBefore => Lag(l + 1, f) = Lag(l, f)
         /\ After(l + 1, f) \in Int
         /\ ~Stray(l + 1) => After(l + 1, f) = Lag(l + 1, f)
<1>1. /\ f \in 1..l /\ l \in DOMAIN chunks BY DEF BuildOK
<1>2. l + 1 \in 2..Len(chunks) /\ f \in 1..((l + 1) - 1) /\ (l + 1) - 1 = l /\ l \in Nat
  BY <1>1, ChunkType
<1>3. /\ Lag(l + 1, f) \in Int /\ Lag(l, f) <= Lag(l + 1, f)
      /\ ~Gap(l + 1) /\ ~chunks[l + 1].breakBefore => Lag(l + 1, f) = Lag(l, f)
  BY <1>2, LagStep
<1>4. chunks[l + 1].startMs \in Int /\ ((l + 1) - f) * Length \in Int
  BY <1>1, <1>2, ChunkType DEF Sizes
<1>5. After(l + 1, f) \in Int BY <1>4 DEF After
<1>6. ~Stray(l + 1) => After(l + 1, f) = Lag(l + 1, f) BY DEF Stray, After, Lag
<1> QED BY <1>3, <1>5, <1>6

\* What the run covers grows.
LEMMA SpreadGrows ==
  ASSUME Sizes, Good, NEW f, NEW l, NEW o, BuildOK(f, l, o), l + 1 \in DOMAIN chunks,
         Lag(l + 1, f) <= chunks[f].from + Jump, ~chunks[l + 1].breakBefore
  PROVE  /\ f \in 1..(l + 1) /\ Spread(f, l + 1)
         /\ Lag(l + 1, f) # chunks[f].from => \E i \in (f + 1)..(l + 1) : Gap(i)
         /\ \A x \in Int : InRange(x, f, l) => InRange(x, f, l + 1)
<1>1. /\ f \in Nat \ {0} /\ l \in Nat /\ f <= l /\ Spread(f, l)
      /\ Lag(l, f) # chunks[f].from => \E i \in (f + 1)..l : Gap(i)
  BY ChunkType DEF BuildOK
<1>2. /\ Lag(l + 1, f) \in Int /\ Lag(l, f) <= Lag(l + 1, f) /\ Lag(l, f) \in Int
      /\ chunks[f].from \in Int /\ chunks[f].from <= Lag(l, f)
      /\ ~Gap(l + 1) => Lag(l + 1, f) = Lag(l, f)
  BY BuildType, NextLag
<1>3. ASSUME NEW i \in f..(l + 1)
      PROVE  chunks[f].from <= Lag(i, f) /\ Lag(i, f) <= Lag(l + 1, f)
  <2>1. CASE i = l + 1 BY <1>2, <2>1
  <2>2. CASE i \in f..l
    <3>1. chunks[f].from <= Lag(i, f) /\ Lag(i, f) <= Lag(l, f) BY <1>1, <2>2 DEF Spread
    <3>2. Lag(i, f) \in Int
      <4>1. i \in DOMAIN chunks /\ i \in Int /\ f \in Int /\ Length \in Int
        BY <1>1, <2>2, ChunkType DEF BuildOK, Sizes
      <4>2. chunks[i].from \in Int BY <4>1, ChunkType
      <4> QED BY <4>1, <4>2 DEF Lag
    <3> QED BY <1>2, <3>1, <3>2
  <2> QED BY <1>1, <2>1, <2>2
<1>4. Lag(l + 1, f) # chunks[f].from => \E i \in (f + 1)..(l + 1) : Gap(i)
  <2>1. CASE Gap(l + 1) BY <1>1, <2>1
  <2>2. CASE ~Gap(l + 1) BY <1>1, <1>2, <2>2
  <2> QED BY <2>1, <2>2
<1>5. \A x \in Int : InRange(x, f, l) => InRange(x, f, l + 1) BY <1>2 DEF InRange
<1> QED BY <1>1, <1>3, <1>4, <1>5 DEF Spread

\* A chunk near the baseline belongs to the run, whether its timestamp is right or not.
LEMMA RunGoesOn ==
  ASSUME Sizes, Good, AllTellable, NEW f, NEW l, NEW o, BuildOK(f, l, o),
         l + 1 \in DOMAIN chunks, ~chunks[l + 1].breakBefore,
         Near(After(l + 1, f), Median(Recent(o)))
  PROVE  BuildOK(f, l + 1, Append(o, After(l + 1, f)))
<1> DEFINE i == l + 1
           x == After(i, f)
           m == Median(Recent(o))
           u == Append(o, x)
           n == Len(o)
<1>1. /\ f \in DOMAIN chunks /\ l \in DOMAIN chunks /\ f <= l /\ f \in Nat /\ l \in Nat
      /\ chunks[f].from \in Int /\ Lag(l, f) \in Int /\ Lag(f, f) = chunks[f].from
      /\ chunks[f].from <= Lag(l, f) /\ Lag(l, f) <= chunks[f].from + Jump
      /\ Jump \in Nat
  BY BuildType, ChunkType DEF Sizes
<1>2. /\ Lag(i, f) \in Int /\ Lag(l, f) <= Lag(i, f) /\ x \in Int
      /\ ~Gap(i) => Lag(i, f) = Lag(l, f)
      /\ ~Stray(i) => x = Lag(i, f)
  BY NextLag
<1>3. /\ m \in Int /\ Lag(l, f) - m <= Jump /\ m - Lag(l, f) <= Jump
      /\ ~Stray(l) => chunks[f].from <= m /\ m <= Lag(l, f)
  BY BaselineNear DEF InRange
<1>4. x - m <= Jump /\ m - x <= Jump BY DEF Near
<1>5. Stray(i) => ~Gap(i) BY AroundStray
<1>6. Gap(i) => ~Stray(l) BY <1>1, AroundStray
<1>7. Gap(i) => Lag(l, f) = chunks[f].from
  <2> SUFFICES ASSUME Gap(i), Lag(l, f) # chunks[f].from PROVE FALSE OBVIOUS
  <2>1. PICK j \in (f + 1)..l : Gap(j) BY DEF BuildOK
  <2>2. j \in 2..Len(chunks) /\ i \in 2..Len(chunks) /\ j # i BY <1>1, ChunkType
  <2> QED BY <2>1, <2>2 DEF Good
<1>8. Lag(i, f) <= chunks[f].from + Jump
  <2>1. CASE Gap(i)
    <3>1. m = chunks[f].from BY <1>1, <1>3, <1>6, <1>7, <2>1
    <3>2. x = Lag(i, f) BY <1>2, <1>5, <2>1
    <3> HIDE DEF m, x, i
    <3> QED BY <1>1, <1>2, <1>4, <3>1, <3>2
  <2>2. CASE ~Gap(i) BY <1>1, <1>2, <2>2
  <2> QED BY <2>1, <2>2
<1>9. /\ f \in 1..i /\ Spread(f, i)
      /\ Lag(i, f) # chunks[f].from => \E j \in (f + 1)..i : Gap(j)
      /\ \A y \in Int : InRange(y, f, l) => InRange(y, f, i)
  BY <1>8, SpreadGrows
<1>10. /\ o \in Seq(Int) /\ n \in Nat \ {0} /\ o[1] = chunks[f].from /\ DOMAIN o = 1..n
       /\ n = 1 => l = f \/ \E j \in 1..l : Stray(j)
       /\ \A k \in 1..n : o[k] \in Int
  BY DEF BuildOK, OffsetsOK
<1>11. /\ u \in Seq(Int) /\ u # <<>> /\ Len(u) = n + 1 /\ DOMAIN u = 1..(n + 1)
       /\ u[1] = chunks[f].from /\ u[n + 1] = x /\ \A k \in 1..n : u[k] = o[k]
  <2> HIDE DEF x, i
  <2> QED BY <1>2, <1>10
<1>12. \A k \in 1..n : InRange(o[k], f, l) => InRange(u[k], f, i) BY <1>9, <1>10, <1>11
<1>13. CASE ~Stray(i)
  <2>1. InRange(u[n + 1], f, i) BY <1>1, <1>2, <1>11, <1>13 DEF InRange
  <2>2. CASE \A k \in DOMAIN o : InRange(o[k], f, l)
    <3>1. \A k \in DOMAIN u : InRange(u[k], f, i) BY <1>10, <1>11, <1>12, <2>1, <2>2
    <3>2. OffsetsOK(u, f, i) BY <1>10, <1>11, <3>1 DEF OffsetsOK
    <3> QED BY <1>9, <3>2 DEF BuildOK
  <2>3. CASE /\ Stray(l) /\ n >= 2 /\ \A k \in 1..(n - 1) : InRange(o[k], f, l)
    <3>1. \A k \in DOMAIN u \ {n} : InRange(u[k], f, i)
      <4>0. n \in Nat \ {0} BY <1>10
      <4> HIDE DEF u, n, x, m, i
      <4>1. \A k \in 1..(n + 1) : k # n => k \in 1..(n - 1) \/ k = n + 1 BY <4>0
      <4>2. \A k \in 1..(n - 1) : k \in 1..n BY <4>0
      <4>3. \A k \in 1..(n - 1) : k \in 1..n /\ InRange(o[k], f, l) BY <2>3, <4>2
      <4> QED BY <1>11, <1>12, <2>1, <4>1, <4>3
    <3>2. n \in DOMAIN u /\ l \in 1..i /\ Len(u) >= 3
      <4>1. l \in 1..i BY <1>1, ChunkType
      <4> HIDE DEF u, n
      <4> QED BY <1>10, <1>11, <2>3, <4>1
    <3>3. OffsetsOK(u, f, i) BY <1>10, <1>11, <2>3, <3>1, <3>2 DEF OffsetsOK
    <3> QED BY <1>9, <3>3 DEF BuildOK
  <2>4. CASE /\ n >= 3 /\ \E j \in 1..l : Stray(j)
             /\ \E b \in DOMAIN o : \A k \in DOMAIN o \ {b} : InRange(o[k], f, l)
    <3>1. PICK b \in DOMAIN o : \A k \in DOMAIN o \ {b} : InRange(o[k], f, l) BY <2>4
    <3>2. \A k \in DOMAIN u \ {b} : InRange(u[k], f, i) BY <1>10, <1>11, <1>12, <2>1, <3>1
    <3>3. b \in DOMAIN u /\ Len(u) >= 3 BY <1>10, <1>11, <2>4
    <3>4. \E j \in 1..i : Stray(j) BY <1>1, <2>4
    <3>5. OffsetsOK(u, f, i) BY <1>10, <1>11, <3>2, <3>3, <3>4 DEF OffsetsOK
    <3> QED BY <1>9, <3>5 DEF BuildOK
  <2> QED BY <2>2, <2>3, <2>4 DEF BuildOK, OffsetsOK
<1>14. CASE Stray(i)
  <2>1. \A j \in 1..l : ~Stray(j)
    <3>1. \A j \in 1..l : j \in DOMAIN chunks /\ j # i BY <1>1, ChunkType
    <3> QED BY <1>14, <3>1 DEF Good
  <2>2. l \in 1..l BY <1>1, ChunkType
  <2>3. \A k \in DOMAIN o : InRange(o[k], f, l) BY <2>1, <2>2 DEF BuildOK, OffsetsOK
  <2>4. Lag(i, f) = Lag(l, f) BY <1>2, <1>5, <1>14
  <2>5. \A k \in 1..n : InRange(u[k], f, i) BY <1>10, <1>12, <2>3
  <2>6. ASSUME n = 1 PROVE u[1] = Lag(i, f) /\ u[2] - u[1] <= Jump /\ u[1] - u[2] <= Jump
    <3>1. l = f BY <1>10, <2>1, <2>6
    <3>2. Lag(i, f) = chunks[f].from BY <1>1, <2>4, <3>1
    <3>3. m = chunks[f].from BY <1>1, <1>3, <2>1, <2>2, <2>4, <3>2
    <3>4. u[1] = chunks[f].from /\ u[2] = x BY <1>11, <2>6
    <3> HIDE DEF m, u, x
    <3> QED BY <1>4, <3>2, <3>3, <3>4
  <2>7. Len(u) >= 2 /\ Len(u) - 1 = n /\ (Len(u) = 2 => n = 1) /\ Len(u) # 1
    BY <1>10, <1>11
  <2>8. OffsetsOK(u, f, i) BY <1>11, <1>14, <2>5, <2>6, <2>7 DEF OffsetsOK
  <2> QED BY <1>9, <2>8 DEF BuildOK
<1> QED BY <1>13, <1>14

\* A wrong timestamp far from the baseline is not taken in, and the run goes on.
LEMMA StrayIsSkipped ==
  ASSUME Sizes, Good, AllTellable, NEW f, NEW l, NEW o, BuildOK(f, l, o),
         l + 1 \in DOMAIN chunks, Stray(l + 1)
  PROVE  /\ BuildOK(f, l + 1, o)
         /\ l + 1 < Len(chunks) /\ ~chunks[l + 2].breakBefore
         /\ Near(After(l + 2, f), Median(Recent(o)))
<1> DEFINE i == l + 1
<1>1. /\ f \in DOMAIN chunks /\ l \in DOMAIN chunks /\ f <= l /\ f \in Nat /\ l \in Nat
      /\ chunks[f].from \in Int /\ Lag(l, f) \in Int
      /\ chunks[f].from <= Lag(l, f) /\ Lag(l, f) <= chunks[f].from + Jump
      /\ Jump \in Nat
  BY BuildType, ChunkType DEF Sizes
<1>2. /\ i + 1 \in DOMAIN chunks /\ i + 1 = l + 2 /\ i < Len(chunks)
      /\ ~chunks[i].breakBefore /\ ~Gap(i) /\ ~chunks[i + 1].breakBefore /\ ~Gap(i + 1)
      /\ \A j \in DOMAIN chunks : Stray(j) => j = i
  BY <1>1, AroundStray, ChunkType
<1>3. Lag(i, f) = Lag(l, f) BY <1>2, NextLag
<1>4. /\ f \in 1..i /\ Spread(f, i)
      /\ Lag(i, f) # chunks[f].from => \E j \in (f + 1)..i : Gap(j)
      /\ \A y \in Int : InRange(y, f, l) => InRange(y, f, i)
  BY <1>1, <1>2, <1>3, SpreadGrows
<1>5. \A j \in 1..l : ~Stray(j)
  <2>1. \A j \in 1..l : j \in DOMAIN chunks /\ j # i BY <1>1, ChunkType
  <2> QED BY <1>2, <2>1
<1>6. l \in 1..l /\ i \in 1..i BY <1>1, ChunkType
<1>7. /\ o \in Seq(Int) /\ o # <<>> /\ o[1] = chunks[f].from
      /\ \A k \in DOMAIN o : InRange(o[k], f, l)
  BY <1>5, <1>6 DEF BuildOK, OffsetsOK
<1>8. \A k \in DOMAIN o : InRange(o[k], f, i) BY <1>4, <1>7
<1>9. OffsetsOK(o, f, i) BY <1>6, <1>7, <1>8 DEF OffsetsOK
<1>10. BuildOK(f, i, o) BY <1>4, <1>9 DEF BuildOK
<1>11. /\ Lag(i + 1, f) = Lag(i, f) /\ After(i + 1, f) = Lag(i + 1, f)
  <2>1. i + 1 # i BY <1>1
  <2>2. ~Stray(i + 1) BY <1>2, <2>1
  <2> QED BY <1>2, <1>10, <2>2, NextLag
<1>12. LET m == Median(Recent(o))
       IN  m \in Int /\ Lag(l, f) - m <= Jump /\ m - Lag(l, f) <= Jump
  BY BaselineNear
<1> QED BY <1>2, <1>3, <1>10, <1>11, <1>12 DEF Near

\* A right timestamp far from the baseline begins a run: the next is as far.
LEMMA RunBreaks ==
  ASSUME Sizes, Good, AllTellable, NEW f, NEW l, NEW o, BuildOK(f, l, o),
         l + 1 \in DOMAIN chunks, ~chunks[l + 1].breakBefore, ~Stray(l + 1),
         ~Near(After(l + 1, f), Median(Recent(o)))
  PROVE  /\ ~Stray(l)
         /\ ~(/\ l + 1 < Len(chunks) /\ ~chunks[l + 2].breakBefore
              /\ Near(After(l + 2, f), Median(Recent(o))))
<1> DEFINE i == l + 1
           m == Median(Recent(o))
<1>1. /\ f \in DOMAIN chunks /\ l \in DOMAIN chunks /\ f <= l /\ f \in Nat /\ l \in Nat
      /\ chunks[f].from \in Int /\ Lag(l, f) \in Int
      /\ chunks[f].from <= Lag(l, f) /\ Lag(l, f) <= chunks[f].from + Jump
      /\ Jump \in Nat
  BY BuildType, ChunkType DEF Sizes
<1>2. /\ Lag(i, f) \in Int /\ Lag(l, f) <= Lag(i, f)
      /\ ~Gap(i) => Lag(i, f) = Lag(l, f)
      /\ After(i, f) = Lag(i, f)
  BY NextLag
<1>3. /\ m \in Int /\ Lag(l, f) - m <= Jump /\ m - Lag(l, f) <= Jump
      /\ ~Stray(l) => chunks[f].from <= m /\ m <= Lag(l, f)
  BY BaselineNear DEF InRange
<1>4. ~(Lag(i, f) - m <= Jump /\ m - Lag(i, f) <= Jump) BY <1>2 DEF Near
<1>5. Gap(i) BY <1>2, <1>3, <1>4
<1>6. ~Stray(l) BY <1>1, <1>5, AroundStray
<1>7. Lag(i, f) - m > Jump
  <2> HIDE DEF m, i
  <2> QED BY <1>1, <1>2, <1>3, <1>4, <1>6
<1>8. ASSUME i < Len(chunks), Near(After(i + 1, f), m) PROVE FALSE
  <2>1. i + 1 \in 2..Len(chunks) /\ f \in 1..((i + 1) - 1) /\ (i + 1) - 1 = i
        /\ i + 1 \in DOMAIN chunks
    BY <1>1, <1>8, ChunkType
  <2>2. Lag(i + 1, f) \in Int /\ Lag(i, f) <= Lag(i + 1, f) BY <2>1, LagStep
  <2>3. ~Stray(i + 1)
    <3> SUFFICES ASSUME Stray(i + 1) PROVE FALSE OBVIOUS
    <3>1. i + 1 > 2 BY <1>1, ChunkType
    <3> QED BY <2>1, <1>5, <3>1, AroundStray
  <2>4. After(i + 1, f) = Lag(i + 1, f) BY <2>3 DEF Stray, After, Lag
  <2>5. Lag(i + 1, f) - m <= Jump BY <1>8, <2>4 DEF Near
  <2> HIDE DEF m, i
  <2> QED BY <1>2, <1>3, <1>7, <2>2, <2>5, <1>1
<1>9. l + 2 = i + 1 BY <1>1
<1> QED BY <1>6, <1>8, <1>9

\* The chunks do not change any more.
LEMMA SameChunks ==
  ASSUME chunks' = chunks
  PROVE  /\ Good' <=> Good
         /\ AllTellable' <=> AllTellable
<1>1. Good' <=> Good BY DEF Good, Gap, Stray
<1>2. AllTellable' <=> AllTellable BY DEF AllTellable, Stray, Tellable, Continuous
<1> QED BY <1>1, <1>2

LEMMA SameBuild ==
  ASSUME chunks' = chunks, NEW f, NEW l, NEW o, BuildOK(f, l, o)
  PROVE  BuildOK(f, l, o)'
BY DEF BuildOK, Spread, OffsetsOK, InRange, Lag, Gap, Stray

LEMMA SameRuns ==
  ASSUME chunks' = chunks, runs' = runs, NEW m, RunsOK(m)
  PROVE  RunsOK(m)'
BY DEF RunsOK, RunOK, Spread, InRange, Lag

LEMMA SamePlan ==
  ASSUME UNCHANGED <<chunks, index, run, runs>>, PlanInv
  PROVE  PlanInv'
<1>1. CASE index = 1 BY <1>1 DEF PlanInv, RunsOK, RunOK, Spread, InRange, Lag
<1>2. CASE index # 1
  <2>1. PICK f \in Nat, l \in Nat, o \in Seq(Int) :
          /\ run = [first |-> f, offsets |-> o] /\ index = l + 1
          /\ BuildOK(f, l, o) /\ RunsOK(f - 1)
    BY <1>2 DEF PlanInv
  <2>2. BuildOK(f, l, o)' BY <2>1, SameBuild
  <2>3. RunsOK(f - 1)' BY <2>1, SameRuns
  <2> QED BY <1>2, <2>1, <2>2, <2>3 DEF PlanInv
<1> QED BY <1>1, <1>2

LEMMA FarIs ==
  ASSUME Sizes, NEW f, NEW o, NEW i, run = [first |-> f, offsets |-> o],
         After(i, f) \in Int, Median(Recent(o)) \in Int
  PROVE  IsFar(i) <=> ~Near(After(i, f), Median(Recent(o)))
<1>1. Offset(i) = After(i, f) BY DEF Offset, After
<1>2. Baseline = Median(Recent(o)) BY DEF Baseline, Recent
<1> DEFINE x == After(i, f)
           m == Median(Recent(o))
<1>3. x \in Int /\ m \in Int /\ Jump \in Nat BY DEF Sizes
<1> HIDE DEF x, m
<1>4. Abs(x - m) > Jump <=> ~(x - m <= Jump /\ m - x <= Jump) BY <1>3 DEF Abs
<1> QED BY <1>1, <1>2, <1>4 DEF IsFar, Near, x, m

LEMMA PlanInvStep ==
  ASSUME Sizes, Good, AllTellable, PlanInv, PlanChunk
  PROVE  PlanInv'
<1>1. /\ index \in 1..(Len(chunks) + 1) /\ index <= Len(chunks) /\ index' = index + 1
      /\ chunks' = chunks /\ Len(chunks) \in Nat
  BY ChunkType DEF PlanInv, PlanChunk
<1>2. index \in DOMAIN chunks /\ index' \in 1..(Len(chunks') + 1) /\ index' # 1
  BY <1>1, ChunkType
<1>3. CASE index = 1
  <2> PICK o : o = <<chunks[1].startMs>> OBVIOUS
  <2>1. run = NoRun /\ RunsOK(0) BY <1>3 DEF PlanInv
  <2>2. run' = [first |-> 1, offsets |-> o] /\ runs' = runs BY <1>3, <2>1 DEF PlanChunk
  <2>3. ~Stray(1) BY <1>2, <1>3, AroundStray
  <2>4. BuildOK(1, 1, o) BY <1>2, <1>3, <2>3, RunBegins
  <2>5. o \in Seq(Int) BY <2>4 DEF BuildOK, OffsetsOK
  <2>6. BuildOK(1, 1, o)' BY <1>1, <2>4, SameBuild
  <2>7. RunsOK(0)' BY <1>1, <2>1, <2>2, SameRuns
  <2>8. RunsOK(1 - 1)' BY <2>7
  <2>9. index' = 1 + 1 BY <1>1, <1>3
  <2> QED BY <1>2, <2>2, <2>5, <2>6, <2>8, <2>9 DEF PlanInv
<1>4. CASE index # 1
  <2>1. PICK f \in Nat, l \in Nat, o \in Seq(Int) :
          /\ run = [first |-> f, offsets |-> o] /\ index = l + 1
          /\ BuildOK(f, l, o) /\ RunsOK(f - 1)
    BY <1>4 DEF PlanInv
  <2> DEFINE i == l + 1
             m == Median(Recent(o))
             starts == chunks[i].breakBefore \/ (IsFar(i) /\ ~StrayStamp(i))
  <2>2. /\ i \in DOMAIN chunks /\ f \in 1..l /\ l \in DOMAIN chunks /\ l >= 1
    BY <1>2, <2>1, ChunkType DEF BuildOK
  <2>3. run # NoRun BY <2>1, <2>2 DEF NoRun
  <2>4. m \in Int /\ After(i, f) \in Int BY <2>1, <2>2, BaselineNear, NextLag
  <2>5. IsFar(i) <=> ~Near(After(i, f), m) BY <2>1, <2>4, FarIs
  <2>6. StrayStamp(i) <=> (/\ i < Len(chunks) /\ ~chunks[l + 2].breakBefore
                          /\ Near(After(l + 2, f), m))
    <3>0. i + 1 = l + 2 BY <2>1
    <3>1. ASSUME i < Len(chunks) PROVE After(l + 2, f) \in Int
      <4>1. l + 2 \in DOMAIN chunks BY <1>1, <2>1, <3>1, ChunkType
      <4>2. chunks[l + 2].startMs \in Int BY <4>1, ChunkType
      <4> QED BY <2>1, <4>2 DEF After, Sizes
    <3>2. ASSUME i < Len(chunks) PROVE IsFar(l + 2) <=> ~Near(After(l + 2, f), m)
      BY <2>1, <2>4, <3>1, <3>2, FarIs
    <3> QED BY <3>0, <3>2 DEF StrayStamp
  <2>7. /\ runs' = IF starts THEN Append(runs, FitRun(index - 1)) ELSE runs
        /\ run' = IF starts THEN [first |-> index, offsets |-> <<chunks[index].startMs>>]
                  ELSE IF IsFar(index) THEN run
                  ELSE [run EXCEPT !.offsets = Append(@, Offset(index))]
    BY <2>1, <2>3 DEF PlanChunk
  <2>8. CASE starts
    <3>1. ~Stray(i)
      <4> SUFFICES ASSUME Stray(i) PROVE FALSE OBVIOUS
      <4>1. ~chunks[i].breakBefore BY <2>2, AroundStray
      <4>2. StrayStamp(i) BY <2>1, <2>2, <2>6, StrayIsSkipped
      <4> QED BY <2>8, <4>1, <4>2
    <3>2. ~Stray(l)
      <4>1. CASE chunks[i].breakBefore BY <2>2, <4>1, AroundStray
      <4>2. CASE ~chunks[i].breakBefore BY <2>1, <2>2, <2>5, <2>8, <3>1, <4>2, RunBreaks
      <4> QED BY <4>1, <4>2
    <3> PICK r : r = [first |-> f, last |-> l, startMs |-> Median(o)] OBVIOUS
    <3>3. RunOK(r) /\ r \in RunSet BY <2>1, <3>2, RunFits
    <3>4. r.first = f /\ r.last = l OBVIOUS
    <3>5. FitRun(index - 1) = r BY <2>1 DEF FitRun
    <3>6. runs' = Append(runs, r) BY <2>7, <2>8, <3>5
    <3>7. RunsOK(r.first - 1) BY <2>1, <3>4
    <3>8. RunsOK(r.last)' BY <1>1, <3>3, <3>6, <3>7, RunAdded
    <3>9. i - 1 = r.last BY <2>1, <3>4
    <3>10. RunsOK(i - 1)' BY <3>8, <3>9
    <3> PICK p : p = <<chunks[i].startMs>> OBVIOUS
    <3>11. BuildOK(i, i, p) BY <2>2, <3>1, RunBegins
    <3>12. p \in Seq(Int) BY <3>11 DEF BuildOK, OffsetsOK
    <3>13. BuildOK(i, i, p)' BY <1>1, <3>11, SameBuild
    <3>14. run' = [first |-> i, offsets |-> p] BY <2>1, <2>7, <2>8
    <3>15. i \in Nat /\ index' = i + 1 BY <1>1, <2>1
    <3> HIDE DEF i
    <3> QED BY <1>2, <3>10, <3>12, <3>13, <3>14, <3>15 DEF PlanInv
  <2>9. CASE ~starts /\ IsFar(i)
    <3>1. Stray(i) BY <2>1, <2>2, <2>5, <2>6, <2>9, RunBreaks
    <3>2. BuildOK(f, i, o) BY <2>1, <2>2, <3>1, StrayIsSkipped
    <3>3. BuildOK(f, i, o)' BY <1>1, <3>2, SameBuild
    <3>4. run' = [first |-> f, offsets |-> o] /\ runs' = runs BY <2>1, <2>7, <2>9
    <3>5. RunsOK(f - 1)' BY <1>1, <2>1, <3>4, SameRuns
    <3>6. i \in Nat /\ index' = i + 1 BY <1>1, <2>1
    <3> HIDE DEF i
    <3> QED BY <1>2, <2>1, <3>3, <3>4, <3>5, <3>6 DEF PlanInv
  <2>10. CASE ~starts /\ ~IsFar(i)
    <3> PICK p : p = Append(o, After(i, f)) OBVIOUS
    <3>1. BuildOK(f, i, p) BY <2>1, <2>2, <2>5, <2>10, RunGoesOn
    <3>2. BuildOK(f, i, p)' BY <1>1, <3>1, SameBuild
    <3>3. p \in Seq(Int) BY <3>1 DEF BuildOK, OffsetsOK
    <3>4. Offset(i) = After(i, f) BY <2>1 DEF Offset, After
    <3>5. run' = [first |-> f, offsets |-> p] /\ runs' = runs BY <2>1, <2>7, <2>10, <3>4
    <3>6. RunsOK(f - 1)' BY <1>1, <2>1, <3>5, SameRuns
    <3>7. i \in Nat /\ index' = i + 1 BY <1>1, <2>1
    <3> HIDE DEF i
    <3> QED BY <1>2, <2>1, <3>2, <3>3, <3>5, <3>6, <3>7 DEF PlanInv
  <2> QED BY <2>8, <2>9, <2>10
<1> QED BY <1>3, <1>4

----------------------------------------------------------------------------
(* Placing. *)

\* Where the runs are due, from the start of the output.
Due(k) == LeadPad + runs[k].startMs - runs[1].startMs

PlaceInv ==
  /\ RunsOK(Len(chunks)) /\ runs # <<>>
  /\ index \in 1..(Len(runs) + 1) /\ cursor \in Nat
  /\ placed \in Seq([at : Int, cut : Int]) /\ Len(placed) = index - 1
  /\ index <= Len(runs) => cursor <= Due(index)
  /\ \A k \in DOMAIN placed : /\ placed[k].cut = 0
                             /\ placed[k].at - Due(k) <= Tolerance
                             /\ Due(k) - placed[k].at <= Tolerance

OriginOK == origin \in Int \cup {NoOrigin}

LEMMA LeadType ==
  ASSUME Sizes, OriginOK, runs # <<>>, NEW m, RunsOK(m)
  PROVE  /\ LeadPad \in Nat
         /\ \A k \in DOMAIN runs : runs[k].startMs \in Int /\ Due(k) \in Int
         /\ 1 \in DOMAIN runs /\ Due(1) = LeadPad
<1>1. runs \in Seq(RunSet) /\ 1 \in DOMAIN runs BY DEF RunsOK
<1>2. \A k \in DOMAIN runs : runs[k] \in RunSet BY <1>1
<1>3. \A k \in DOMAIN runs : runs[k].startMs \in Int BY <1>2 DEF RunSet
<1>4. LeadPad \in Nat BY <1>1, <1>3 DEF LeadPad, AtLeast0, OriginOK, Sizes
<1> QED BY <1>1, <1>3, <1>4 DEF Due

LEMMA EndPlanningPlaces ==
  ASSUME Sizes, Good, AllTellable, PlanInv, OriginOK, chunks # <<>>, cursor = 0,
         placed = <<>>, EndPlanning
  PROVE  PlaceInv'
<1>1. /\ index \in 1..(Len(chunks) + 1) /\ index > Len(chunks) /\ index' = 1
      /\ chunks' = chunks /\ cursor' = 0 /\ placed' = <<>> /\ origin' = origin
      /\ Len(chunks) \in Nat \ {0} /\ DOMAIN chunks = 1..Len(chunks)
  BY ChunkType DEF PlanInv, EndPlanning, Good
<1>2. index # 1 BY <1>1
<1>3. PICK f \in Nat, l \in Nat, o \in Seq(Int) :
        /\ run = [first |-> f, offsets |-> o] /\ index = l + 1
        /\ BuildOK(f, l, o) /\ RunsOK(f - 1)
  BY <1>2 DEF PlanInv
<1>4. l = Len(chunks) /\ l \in DOMAIN chunks
  <2> DEFINE n == Len(chunks)
  <2>1. n \in Nat \ {0} /\ DOMAIN chunks = 1..n BY <1>1
  <2>2. l \in Nat /\ l + 1 \in 1..(n + 1) /\ l + 1 > n BY <1>1, <1>3
  <2> HIDE DEF n
  <2>3. l = n BY <2>1, <2>2
  <2>4. l \in 1..n BY <2>1, <2>3
  <2> QED BY <2>1, <2>3, <2>4 DEF n
<1>5. ~Stray(l) BY <1>1, <1>4, AroundStray
<1> PICK r : r = [first |-> f, last |-> l, startMs |-> Median(o)] OBVIOUS
<1>6. RunOK(r) /\ r \in RunSet BY <1>3, <1>5, RunFits
<1>7. r.first = f /\ r.last = l OBVIOUS
<1>8. runs' = Append(runs, r) BY <1>3, <1>4 DEF FitRun, EndPlanning
<1>9. RunsOK(r.last)' BY <1>1, <1>3, <1>6, <1>7, <1>8, RunAdded
<1>10. RunsOK(Len(chunks))' BY <1>1, <1>4, <1>7, <1>9 DEF RunsOK
<1>11. runs' # <<>> /\ Len(runs') \in Nat
  <2>1. runs \in Seq(RunSet) BY <1>3 DEF RunsOK
  <2> QED BY <1>6, <1>8, <2>1
<1>12. (cursor <= Due(index))'
  <2>1. runs' \in Seq(RunSet) BY <1>10 DEF RunsOK
  <2>2. runs'[1] \in RunSet BY <1>11, <2>1
  <2>3. runs'[1].startMs \in Int BY <2>2 DEF RunSet
  <2>4. origin' \in Int \cup {NoOrigin} BY <1>1 DEF OriginOK
  <2>5. LeadPad' \in Nat BY <2>3, <2>4 DEF LeadPad, AtLeast0, Sizes
  <2>6. Due(index)' = LeadPad' + runs'[1].startMs - runs'[1].startMs BY <1>1 DEF Due
  <2> QED BY <1>1, <2>3, <2>5, <2>6
<1> QED BY <1>1, <1>10, <1>11, <1>12 DEF PlaceInv

\* After a run comes the next one, and no earlier.
LEMMA NextDue ==
  ASSUME Sizes, Good, OriginOK, NEW m, RunsOK(m), NEW k \in DOMAIN runs, k + 1 \in DOMAIN runs
  PROVE  Due(k) + (runs[k].last - runs[k].first + 1) * Length <= Due(k + 1)
<1> DEFINE r == runs[k]
           s == runs[k + 1]
<1>1. /\ runs \in Seq(RunSet) /\ k \in Nat \ {0} /\ RunOK(r) /\ RunOK(s)
      /\ s.first = r.last + 1
  BY DEF RunsOK
<1>2. r \in RunSet /\ s \in RunSet BY <1>1
<1>3. /\ r.first \in Nat /\ r.last \in Nat /\ r.startMs \in Int
      /\ s.first \in Nat /\ s.last \in Nat /\ s.startMs \in Int
  BY <1>2 DEF RunSet
<1>4. /\ r.first \in 1..r.last /\ r.last \in DOMAIN chunks
      /\ s.first \in 1..s.last /\ s.last \in DOMAIN chunks
      /\ r.startMs <= Lag(r.last, r.first) /\ chunks[s.first].from <= s.startMs
  BY <1>1 DEF RunOK, InRange
<1>5. r.last + 1 \in 2..Len(chunks) /\ r.last = (r.last + 1) - 1
  BY <1>1, <1>3, <1>4, ChunkType
<1>6. chunks[r.last].from + Length <= chunks[r.last + 1].from BY <1>5 DEF Good
<1>7. chunks[r.last].from \in Int /\ chunks[r.last + 1].from \in Int
  BY <1>4, <1>5, ChunkType
<1>8. /\ (r.last - r.first + 1) * Length = (r.last - r.first) * Length + Length
      /\ (r.last - r.first) * Length \in Int /\ Length \in Nat
  BY <1>3 DEF Sizes
<1>9. r.startMs + (r.last - r.first + 1) * Length <= s.startMs
  <2> DEFINE d == (r.last - r.first) * Length
  <2>1. Lag(r.last, r.first) = chunks[r.last].from - d BY DEF Lag
  <2>2. (r.last - r.first + 1) * Length = d + Length /\ d \in Int BY <1>8
  <2>3. chunks[r.last + 1].from <= s.startMs BY <1>1, <1>4
  <2>4. r.startMs <= chunks[r.last].from - d BY <1>4, <2>1
  <2> HIDE DEF r, s, d
  <2> QED BY <1>3, <1>6, <1>7, <1>8, <2>2, <2>3, <2>4
<1>10. LeadPad \in Int /\ runs[1].startMs \in Int BY LeadType, <1>1
<1>11. (r.last - r.first + 1) * Length \in Int BY <1>8
<1> QED BY <1>3, <1>9, <1>10, <1>11 DEF Due

LEMMA PlaceInvStep ==
  ASSUME Sizes, Good, OriginOK, PlaceInv, PlaceRun
  PROVE  PlaceInv'
<1> DEFINE r     == runs[index]
           at    == AtLeast0(Due(index))
           skip  == IF at < cursor - Tolerance THEN cursor - at ELSE 0
           start == IF at > cursor + Tolerance THEN at ELSE cursor
           len   == (r.last - r.first + 1) * Length
<1>1. /\ index <= Len(runs) /\ index' = index + 1
      /\ cursor' = start + AtLeast0(len - skip)
      /\ placed' = Append(placed, [at |-> start - skip, cut |-> skip])
      /\ chunks' = chunks /\ runs' = runs /\ origin' = origin
  BY DEF PlaceRun, Due
<1>2. /\ RunsOK(Len(chunks)) /\ runs # <<>> /\ index \in 1..(Len(runs) + 1)
      /\ cursor \in Nat /\ cursor <= Due(index) /\ Tolerance \in Nat /\ Length \in Nat
      /\ placed \in Seq([at : Int, cut : Int]) /\ Len(placed) = index - 1
      /\ \A k \in DOMAIN placed : /\ placed[k].cut = 0
                                 /\ placed[k].at - Due(k) <= Tolerance
                                 /\ Due(k) - placed[k].at <= Tolerance
  BY <1>1 DEF PlaceInv, Sizes
<1>3. /\ runs \in Seq(RunSet) /\ Len(runs) \in Nat /\ DOMAIN runs = 1..Len(runs)
  BY <1>2 DEF RunsOK
<1>4. index \in DOMAIN runs /\ index \in Nat BY <1>1, <1>2, <1>3
<1>5. Due(index) \in Int BY <1>2, <1>4, LeadType
<1>6. len \in Nat
  <2>1. r \in RunSet /\ RunOK(r) BY <1>2, <1>3, <1>4 DEF RunsOK
  <2>2. r.last - r.first + 1 \in Nat BY <2>1 DEF RunOK, RunSet
  <2> HIDE DEF r
  <2> QED BY <1>2, <2>2
<1> HIDE DEF len, r
<1>7. at = Due(index) /\ skip = 0 BY <1>2, <1>5 DEF AtLeast0
<1>8. /\ start \in Nat /\ start <= Due(index)
      /\ start - Due(index) <= Tolerance /\ Due(index) - start <= Tolerance
  BY <1>2, <1>5, <1>7
<1>9. cursor' = start + len
  <2>1. len - skip = len BY <1>6, <1>7
  <2>2. AtLeast0(len) = len BY <1>6 DEF AtLeast0
  <2> QED BY <1>1, <2>1, <2>2
<1>10. start - skip = start BY <1>7, <1>8
<1> HIDE DEF at, skip, start
<1> DEFINE p == [at |-> start, cut |-> 0]
<1>11. placed' = Append(placed, p) BY <1>1, <1>7, <1>10
<1>12. p \in [at : Int, cut : Int] /\ p.at = start /\ p.cut = 0 BY <1>8
<1> HIDE DEF p
<1>13. /\ placed' \in Seq([at : Int, cut : Int]) /\ Len(placed') = index
       /\ DOMAIN placed' = 1..index /\ placed'[index] = p
       /\ \A k \in 1..(index - 1) : placed'[k] = placed[k] /\ k \in DOMAIN placed
  BY <1>2, <1>4, <1>11, <1>12
<1>14. LeadPad' = LeadPad BY <1>1 DEF LeadPad
<1>15. \A k \in DOMAIN placed' :
         /\ placed'[k].cut = 0
         /\ placed'[k].at - Due(k) <= Tolerance /\ Due(k) - placed'[k].at <= Tolerance
  <2> SUFFICES ASSUME NEW k \in DOMAIN placed'
               PROVE  /\ placed'[k].cut = 0
                      /\ placed'[k].at - Due(k) <= Tolerance
                      /\ Due(k) - placed'[k].at <= Tolerance
    OBVIOUS
  <2>1. CASE k = index BY <1>8, <1>12, <1>13, <2>1
  <2>2. CASE k # index
    <3>1. k \in 1..(index - 1) BY <1>4, <1>13, <2>2
    <3> QED BY <1>2, <1>13, <3>1
  <2> QED BY <2>1, <2>2
<1>16. (\A k \in DOMAIN placed : /\ placed[k].cut = 0
                               /\ placed[k].at - Due(k) <= Tolerance
                               /\ Due(k) - placed[k].at <= Tolerance)'
  BY <1>1, <1>14, <1>15 DEF Due
<1>17. index + 1 <= Len(runs) => start + len <= Due(index + 1)
  <2> SUFFICES ASSUME index + 1 <= Len(runs) PROVE start + len <= Due(index + 1) OBVIOUS
  <2>1. index + 1 \in DOMAIN runs BY <1>3, <1>4
  <2>2. Due(index) + len <= Due(index + 1) BY <1>2, <1>4, <2>1, NextDue DEF len, r
  <2>3. Due(index + 1) \in Int BY <1>2, <2>1, LeadType
  <2> QED BY <1>5, <1>6, <1>8, <2>2, <2>3
<1>18. (index <= Len(runs) => cursor <= Due(index))'
  BY <1>1, <1>9, <1>14, <1>17 DEF Due
<1>19. RunsOK(Len(chunks))'
  <2>1. RunsOK(Len(chunks)) BY <1>2
  <2> QED BY <1>1, <2>1 DEF RunsOK, RunOK, Spread, InRange, Lag
<1>20. index' \in 1..(Len(runs') + 1) /\ cursor' \in Nat /\ Len(placed') = index' - 1
  BY <1>1, <1>3, <1>4, <1>6, <1>8, <1>9, <1>13
<1> QED BY <1>1, <1>2, <1>13, <1>16, <1>18, <1>19, <1>20 DEF PlaceInv

----------------------------------------------------------------------------
(* The invariant, and what it says at the end. *)

StageInv ==
  /\ stage \in {"read", "plan", "place", "done", "failed"}
  /\ stage = "read" => index = 1 /\ run = NoRun /\ runs = <<>>
  /\ stage \in {"read", "plan"} => cursor = 0 /\ placed = <<>>
  /\ stage = "plan" => chunks # <<>> /\ (AllTellable => PlanInv)
  /\ stage \in {"place", "done"} => (AllTellable => PlaceInv)
  /\ stage = "done" => index > Len(runs)

AudioInv == RowsInv /\ OriginOK /\ StageInv

LEMMA AudioInvInit == Sizes /\ Init => AudioInv
<1> SUFFICES ASSUME Sizes, Init PROVE AudioInv OBVIOUS
<1>1. RowsInv BY RowsInvInit
<1>2. OriginOK BY DEF Init, Sizes, OriginOK
<1>3. StageInv BY DEF Init, StageInv
<1> QED BY <1>1, <1>2, <1>3 DEF AudioInv

LEMMA AudioInvStep == Sizes /\ AudioInv /\ [Next]_vars => AudioInv'
<1> SUFFICES ASSUME Sizes, AudioInv, [Next]_vars PROVE AudioInv' OBVIOUS
<1>1. RowsInv /\ OriginOK /\ StageInv /\ Good BY RowsAreGood DEF AudioInv
<1>2. CASE ReadSegment
  <2>1. RowsInv' BY <1>1, <1>2, ReadKeepsRows
  <2>2. OriginOK' /\ StageInv' BY <1>1, <1>2 DEF ReadSegment, OriginOK, StageInv
  <2> QED BY <2>1, <2>2 DEF AudioInv
<1>3. ASSUME UNCHANGED <<segments, previous, broken, chunks, origin>>
      PROVE  RowsInv' /\ OriginOK' /\ (AllTellable' <=> AllTellable)
  <2>1. RowsInv'
    <3>1. PICK suspendedAt \in Nat, silence \in Nat, strayAt \in Nat, by \in Int,
               q \in [DOMAIN chunks -> Nat] : RowsOK(suspendedAt, silence, strayAt, by, q)
      BY <1>1 DEF RowsInv
    <3>2. RowsOK(suspendedAt, silence, strayAt, by, q)'
      BY <1>3, <3>1 DEF RowsOK, Began, Stamped
    <3>3. /\ segments' \in Seq(Row) /\ chunks' \in Seq(Chunk)
          /\ previous' \in Nat /\ broken' \in BOOLEAN /\ DOMAIN chunks' = DOMAIN chunks
      BY <1>1, <1>3 DEF RowsInv
    <3> QED BY <3>2, <3>3, Zenon DEF RowsInv
  <2> QED BY <1>1, <1>3, <2>1, SameChunks DEF OriginOK
<1>4. CASE EndReading
  <2>1. RowsInv' /\ OriginOK' BY <1>3, <1>4 DEF EndReading
  <2>2. /\ stage = "read" /\ index' = index /\ run' = run /\ runs' = runs
        /\ cursor' = cursor /\ placed' = placed /\ chunks' = chunks
        /\ stage' = IF chunks = <<>> THEN "failed" ELSE "plan"
    BY <1>4 DEF EndReading
  <2>3. index = 1 /\ run = NoRun /\ runs = <<>> /\ cursor = 0 /\ placed = <<>>
    BY <1>1, <2>2 DEF StageInv
  <2>4. Len(chunks) \in Nat BY <1>1, ChunkType
  <2>5. PlanInv' BY <2>2, <2>3, <2>4 DEF PlanInv, RunsOK
  <2>6. StageInv' BY <2>2, <2>3, <2>5 DEF StageInv
  <2> QED BY <2>1, <2>6 DEF AudioInv
<1>5. CASE PlanChunk
  <2>1. RowsInv' /\ OriginOK' /\ (AllTellable' <=> AllTellable) BY <1>3, <1>5 DEF PlanChunk
  <2>2. /\ stage = "plan" /\ stage' = "plan" /\ cursor' = cursor /\ placed' = placed
        /\ chunks' = chunks
    BY <1>5 DEF PlanChunk
  <2>3. AllTellable => PlanInv' BY <1>1, <1>5, <2>2, PlanInvStep DEF StageInv
  <2>4. StageInv' BY <1>1, <2>1, <2>2, <2>3 DEF StageInv
  <2> QED BY <2>1, <2>4 DEF AudioInv
<1>6. CASE EndPlanning
  <2>1. RowsInv' /\ OriginOK' /\ (AllTellable' <=> AllTellable) BY <1>3, <1>6 DEF EndPlanning
  <2>2. stage = "plan" /\ stage' = "place" BY <1>6 DEF EndPlanning
  <2>3. AllTellable => PlaceInv' BY <1>1, <1>6, <2>2, EndPlanningPlaces DEF StageInv
  <2>4. StageInv' BY <2>1, <2>2, <2>3 DEF StageInv
  <2> QED BY <2>1, <2>4 DEF AudioInv
<1>7. CASE PlaceRun
  <2>1. RowsInv' /\ OriginOK' /\ (AllTellable' <=> AllTellable) BY <1>3, <1>7 DEF PlaceRun
  <2>2. stage = "place" /\ stage' = "place" BY <1>7 DEF PlaceRun
  <2>3. AllTellable => PlaceInv' BY <1>1, <1>7, <2>2, PlaceInvStep DEF StageInv
  <2>4. StageInv' BY <2>1, <2>2, <2>3 DEF StageInv
  <2> QED BY <2>1, <2>4 DEF AudioInv
<1>8. CASE EndPlacing
  <2>1. RowsInv' /\ OriginOK' /\ (AllTellable' <=> AllTellable) BY <1>3, <1>8 DEF EndPlacing
  <2>2. /\ stage = "place" /\ stage' = "done" /\ index > Len(runs)
        /\ UNCHANGED <<origin, chunks, index, runs, cursor, placed>>
    BY <1>8 DEF EndPlacing
  <2>3. AllTellable => PlaceInv' 
    <3>1. AllTellable => PlaceInv BY <1>1, <2>2 DEF StageInv
    <3> QED BY <2>2, <3>1 DEF PlaceInv, RunsOK, RunOK, Spread, InRange, Lag, Due, LeadPad
  <2>4. StageInv' BY <2>1, <2>2, <2>3 DEF StageInv
  <2> QED BY <2>1, <2>4 DEF AudioInv
<1>9. CASE UNCHANGED vars
  <2>1. RowsInv' /\ OriginOK' /\ (AllTellable' <=> AllTellable) BY <1>3, <1>9 DEF vars
  <2>2. /\ stage' = stage
        /\ UNCHANGED <<origin, chunks, index, run, runs, cursor, placed>>
    BY <1>9 DEF vars
  <2>3. ASSUME PlaceInv PROVE PlaceInv'
    BY <2>2, <2>3 DEF PlaceInv, RunsOK, RunOK, Spread, InRange, Lag, Due, LeadPad
  <2>4. ASSUME PlanInv PROVE PlanInv'
    BY <2>2, <2>4, SamePlan
  <2>5. StageInv' BY <1>1, <2>1, <2>2, <2>3, <2>4 DEF StageInv
  <2> QED BY <2>1, <2>5 DEF AudioInv
<1> QED BY <1>2, <1>4, <1>5, <1>6, <1>7, <1>8, <1>9 DEF Next

LEMMA InPlace == Sizes /\ AudioInv => AudioInPlace
<1> SUFFICES ASSUME Sizes, AudioInv, stage = "done", AllTellable
             PROVE  /\ (/\ origin # NoOrigin /\ origin <= chunks[1].from
                        /\ runs[1].startMs - origin <= MaxLead) => OutputStart = origin
                    /\ \A i \in DOMAIN chunks :
                         IsWhole(i) /\ Abs(Heard(i) - (chunks[i].from - OutputStart))
                                         <= Jump + Tolerance
  BY DEF AudioInPlace, AllTellable, Stray
<1>1. /\ Good /\ OriginOK /\ PlaceInv /\ index > Len(runs)
  BY RowsAreGood DEF AudioInv, StageInv
<1>2. /\ RunsOK(Len(chunks)) /\ runs # <<>> /\ index \in 1..(Len(runs) + 1)
      /\ placed \in Seq([at : Int, cut : Int]) /\ Len(placed) = index - 1
      /\ \A k \in DOMAIN placed : /\ placed[k].cut = 0
                                 /\ placed[k].at - Due(k) <= Tolerance
                                 /\ Due(k) - placed[k].at <= Tolerance
  BY <1>1 DEF PlaceInv
<1>3. /\ LeadPad \in Nat /\ 1 \in DOMAIN runs
      /\ \A k \in DOMAIN runs : runs[k].startMs \in Int /\ Due(k) \in Int
  BY <1>1, <1>2, LeadType
<1>4. /\ runs \in Seq(RunSet) /\ DOMAIN runs = 1..Len(runs) /\ Len(runs) \in Nat
      /\ DOMAIN chunks = 1..Len(chunks) /\ Len(chunks) \in Nat
      /\ Tolerance \in Nat /\ Jump \in Nat /\ Length \in Nat /\ MaxLead \in Nat
  BY <1>1, <1>2, ChunkType DEF RunsOK, Sizes
<1>5. DOMAIN placed = DOMAIN runs BY <1>1, <1>2, <1>4
<1>6. ASSUME origin # NoOrigin, origin <= chunks[1].from, runs[1].startMs - origin <= MaxLead
      PROVE  OutputStart = origin
  <2>1. origin \in Int BY <1>1, <1>6 DEF OriginOK
  <2>2. runs[1].first = 1 /\ RunOK(runs[1]) BY <1>2, <1>3 DEF RunsOK
  <2>3. 1 \in DOMAIN chunks BY <1>4, <2>2 DEF RunOK
  <2>4. chunks[1].from \in Int BY <1>1, <2>3, ChunkType
  <2>5. chunks[1].from <= runs[1].startMs BY <2>2 DEF RunOK, InRange
  <2>6. runs[1].startMs \in Int BY <1>3
  <2>7. LeadPad = runs[1].startMs - origin
    BY <1>4, <1>6, <2>1, <2>4, <2>5, <2>6 DEF LeadPad, AtLeast0
  <2> QED BY <2>1, <2>6, <2>7 DEF OutputStart
<1>7. ASSUME NEW i \in DOMAIN chunks
      PROVE  IsWhole(i) /\ Abs(Heard(i) - (chunks[i].from - OutputStart)) <= Jump + Tolerance
  <2>1. \E k \in DOMAIN runs : i \in runs[k].first..runs[k].last BY <1>2, <1>4 DEF RunsOK
  <2> PICK k : k = RunOf(i) OBVIOUS
  <2>2. k \in DOMAIN runs /\ i \in runs[k].first..runs[k].last BY <2>1 DEF RunOf
  <2>3. runs[k] \in RunSet /\ RunOK(runs[k]) BY <1>2, <1>4, <2>2 DEF RunsOK
  <2>4. runs[k].first \in Nat /\ runs[k].last \in Nat BY <2>3 DEF RunSet
  <2> DEFINE f == runs[k].first
             d == (i - f) * Length
             from == chunks[i].from
             at == placed[k].at
             x == runs[k].startMs
             y == runs[1].startMs
  <2>5. i - f \in Nat /\ i \in DOMAIN chunks BY <1>4, <2>2, <2>4
  <2>6. d \in Nat BY <1>4, <2>5
  <2>7. from \in Int BY <1>1, <2>5, ChunkType
  <2>8. x \in Int /\ y \in Int /\ LeadPad \in Nat BY <1>3, <2>2
  <2>9. placed[k] \in [at : Int, cut : Int]
    <3>1. placed \in Seq([at : Int, cut : Int]) BY <1>2
    <3>2. k \in 1..Len(placed) BY <1>5, <2>2, <3>1
    <3> QED BY <3>1, <3>2, ElementOfSeq
  <2>10. at \in Int /\ placed[k].cut = 0 /\ at - Due(k) <= Tolerance /\ Due(k) - at <= Tolerance
    BY <1>2, <1>5, <2>2, <2>9
  <2>11. IsWhole(i) BY <2>6, <2>10 DEF IsWhole
  <2>12. /\ chunks[f].from <= from - d /\ from - d <= Lag(runs[k].last, f)
         /\ Lag(runs[k].last, f) <= chunks[f].from + Jump
         /\ chunks[f].from <= x /\ x <= Lag(runs[k].last, f)
    BY <2>2, <2>3 DEF RunOK, Spread, InRange, Lag
  <2>13. f \in DOMAIN chunks /\ runs[k].last \in DOMAIN chunks BY <1>4, <2>3, <2>4 DEF RunOK
  <2>14. chunks[f].from \in Int /\ Lag(runs[k].last, f) \in Int
    <3>1. chunks[f].from \in Int /\ chunks[runs[k].last].from \in Int
      BY <1>1, <2>13, ChunkType
    <3>2. (runs[k].last - f) * Length \in Int BY <1>4, <2>4
    <3> QED BY <3>1, <3>2 DEF Lag
  <2>15. x - (from - d) <= Jump /\ (from - d) - x <= Jump
    <3> HIDE DEF f, d, from, x
    <3> QED BY <1>4, <2>6, <2>7, <2>8, <2>12, <2>14
  <2>16. Due(k) = LeadPad + x - y BY DEF Due
  <2>17. Heard(i) = at + d /\ OutputStart = y - LeadPad BY DEF Heard, OutputStart
  <2> HIDE DEF f, d, from, at, x, y
  <2>18. Abs((at + d) - (from - (y - LeadPad))) <= Jump + Tolerance
    BY <1>4, <2>6, <2>7, <2>8, <2>10, <2>15, <2>16 DEF Abs
  <2> QED BY <2>11, <2>17, <2>18 DEF from
<1> QED BY <1>6, <1>7

\* Whatever is lost of a participant's audio, however long the capture was suspended,
\* and although a timestamp is wrong, every chunk is heard whole, at its time
\* (AudioInPlace); so it is for any number of segments.
THEOREM AudioIsInPlace ==
  ASSUME Sizes
  PROVE  Spec => []AudioInPlace
<1>1. Init => AudioInv BY AudioInvInit
<1>2. AudioInv /\ [Next]_vars => AudioInv' BY AudioInvStep
<1>3. AudioInv => AudioInPlace BY InPlace
<1> QED BY <1>1, <1>2, <1>3, PTL DEF Spec
====
