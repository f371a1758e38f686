------------------------- MODULE CompactWireProofs -------------------------
(***************************************************************************)
(* Proofs about CompactWire, for any number of fields, names and positions *)
(* and any measurements.                                                   *)
(***************************************************************************)
EXTENDS CompactWire, FiniteSetTheorems, FunctionTheorems, WellFoundedInduction, TLAPS

-----------------------------------------------------------------------------
(* Finite sets of numbers.                                                 *)

LEMMA Smallest ==
  ASSUME NEW S \in SUBSET Nat, S # {}
  PROVE  \E n \in S : \A k \in S : n <= k
<1>1. PICK n \in S : \A k \in S : ~(<<k, n>> \in OpToRel(<, Nat))
  BY NatLessThanWellFounded, WFMin
<1>2. \A k \in S : ~(k < n)
  BY <1>1 DEF OpToRel
<1>3. QED
  BY <1>2

LEMMA UpTo ==
  ASSUME NEW n \in Nat, NEW i \in 1 .. n
  PROVE  Cardinality({j \in 1 .. n : j <= i}) = i
<1>1. {j \in 1 .. n : j <= i} = 1 .. i
  OBVIOUS
<1>2. i \in Int /\ 1 <= i
  OBVIOUS
<1>3. Cardinality(1 .. i) = IF 1 > i THEN 0 ELSE i - 1 + 1
  BY <1>2, FS_Interval
<1>4. Cardinality({j \in 1 .. n : j <= i}) = Cardinality(1 .. i)
  BY <1>1
<1>5. QED
  BY <1>2, <1>3, <1>4

\* The rank of the members of a finite set of numbers.
Rank(S, s) == Cardinality({r \in S : r <= s})

LEMMA Ranks ==
  ASSUME NEW S \in SUBSET Nat, IsFiniteSet(S)
  PROVE  /\ \A s \in S : Rank(S, s) \in 1 .. Cardinality(S)
         /\ \A s, t \in S : Rank(S, s) = Rank(S, t) => s = t
         /\ \A i \in 1 .. Cardinality(S) : \E s \in S : Rank(S, s) = i
<1> DEFINE upTo(s) == {r \in S : r <= s}
<1>1. \A s : /\ IsFiniteSet(upTo(s)) /\ Cardinality(upTo(s)) \in Nat
             /\ Cardinality(upTo(s)) <= Cardinality(S)
  BY FS_Subset, FS_CardinalityType
<1>2. Cardinality(S) \in Nat
  BY FS_CardinalityType
<1>3. \A s \in S : Rank(S, s) \in 1 .. Cardinality(S)
  <2> SUFFICES ASSUME NEW s \in S PROVE Rank(S, s) \in 1 .. Cardinality(S)
    OBVIOUS
  <2>1. upTo(s) # {}
    OBVIOUS
  <2>2. Cardinality(upTo(s)) # 0
    BY <1>1, <2>1, FS_EmptySet
  <2>3. QED
    BY <1>1, <1>2, <2>2 DEF Rank
<1>4. ASSUME NEW s \in S, NEW t \in S, s < t PROVE Rank(S, s) < Rank(S, t)
  <2>1. upTo(s) \in SUBSET upTo(t) /\ upTo(s) # upTo(t)
    <3>1. t \in upTo(t) /\ t \notin upTo(s)
      BY <1>4
    <3>2. \A r \in S : r <= s => r <= t
      BY <1>4
    <3>3. QED
      BY <3>1, <3>2
  <2>2. Cardinality(upTo(s)) <= Cardinality(upTo(t))
        /\ (Cardinality(upTo(t)) = Cardinality(upTo(s)) => upTo(t) = upTo(s))
    BY <1>1, <2>1, FS_Subset
  <2>3. QED
    BY <1>1, <2>1, <2>2 DEF Rank
<1>5. \A s, t \in S : Rank(S, s) = Rank(S, t) => s = t
  <2> SUFFICES ASSUME NEW s \in S, NEW t \in S, Rank(S, s) = Rank(S, t), s # t PROVE FALSE
    OBVIOUS
  <2>1. s < t \/ t < s
    OBVIOUS
  <2>2. QED
    BY <1>3, <1>4, <2>1
<1>6. \A i \in 1 .. Cardinality(S) : \E s \in S : Rank(S, s) = i
  <2> DEFINE f == [s \in S |-> Rank(S, s)]
  <2>1. f \in [S -> 1 .. Cardinality(S)]
    BY <1>3
  <2>2. f \in Injection(S, 1 .. Cardinality(S))
    <3>1. \A a, b \in S : f[a] = f[b] => a = b
      BY <1>5
    <3> HIDE DEF f
    <3>2. QED
      BY <2>1, <3>1, Fun_IsInj
  <2>3. IsFiniteSet(1 .. Cardinality(S)) /\ Cardinality(1 .. Cardinality(S)) = Cardinality(S)
    BY <1>2, FS_Interval
  <2>4. f \in Surjection(S, 1 .. Cardinality(S))
    <3> HIDE DEF f
    <3>1. QED
      BY <2>2, <2>3, FS_Injection
  <2>5. \A i \in 1 .. Cardinality(S) : \E s \in S : f[s] = i
    <3> HIDE DEF f
    <3>1. QED
      BY <2>4, Fun_SurjectionProperties
  <2>6. QED
    BY <2>5
<1>7. QED
  BY <1>3, <1>5, <1>6
-----------------------------------------------------------------------------
(* A table of fields, which has one entry for a position and for a field.  *)

LEMMA EntryFound ==
  ASSUME NEW table \in SUBSET Entry, IsTable(table), NEW e \in table
  PROVE  EntryAt(table, e.index) = e /\ EntryOf(table, e.field) = e
<1>1. \A d \in table : (d.index = e.index \/ d.field = e.field) => d = e
  BY DEF IsTable
<1>2. EntryAt(table, e.index) \in table /\ EntryAt(table, e.index).index = e.index
  BY DEF EntryAt
<1>3. EntryOf(table, e.field) \in table /\ EntryOf(table, e.field).field = e.field
  BY DEF EntryOf
<1>4. QED
  BY <1>1, <1>2, <1>3

\* The device knows the fields it measures.
Covers(table, m) == \A f \in DOMAIN m : \E e \in table : e.field = f

LEMMA IndexesCover ==
  ASSUME NEW table \in SUBSET Entry, IsTable(table), NEW m \in Measured, Covers(table, m)
  PROVE  /\ IndexesOf(table, m) \subseteq Positions
         /\ \A i \in IndexesOf(table, m) :
              /\ EntryAt(table, i) \in table /\ EntryAt(table, i).index = i
              /\ EntryAt(table, i).field \in DOMAIN m
         /\ \A f \in DOMAIN m : \E i \in IndexesOf(table, m) : EntryAt(table, i).field = f
         /\ \A i, j \in IndexesOf(table, m) :
              EntryAt(table, i).field = EntryAt(table, j).field => i = j
<1>1. \A e \in table : e.index \in Positions
  BY DEF Entry
<1>2. IndexesOf(table, m) \subseteq Positions
  BY <1>1 DEF IndexesOf
<1>3. \A i \in IndexesOf(table, m) : \E e \in table : e.index = i /\ e.field \in DOMAIN m
  BY DEF IndexesOf
<1>4. \A i \in IndexesOf(table, m) :
        /\ EntryAt(table, i) \in table /\ EntryAt(table, i).index = i
        /\ EntryAt(table, i).field \in DOMAIN m
  BY <1>3, EntryFound
<1>5. \A f \in DOMAIN m : \E i \in IndexesOf(table, m) : EntryAt(table, i).field = f
  <2> SUFFICES ASSUME NEW f \in DOMAIN m
               PROVE  \E i \in IndexesOf(table, m) : EntryAt(table, i).field = f
    OBVIOUS
  <2>1. PICK e \in table : e.field = f
    BY DEF Covers
  <2>2. e.index \in IndexesOf(table, m) /\ EntryAt(table, e.index) = e
    BY <2>1, EntryFound DEF IndexesOf
  <2>3. QED
    BY <2>1, <2>2
<1>6. \A i, j \in IndexesOf(table, m) : EntryAt(table, i).field = EntryAt(table, j).field => i = j
  BY <1>4 DEF IsTable
<1>7. QED
  BY <1>2, <1>4, <1>5, <1>6

LEMMA MeasuredTyped ==
  ASSUME NEW m \in Measured
  PROVE  DOMAIN m \subseteq Fields /\ DOMAIN m # {} /\ \A f \in DOMAIN m : m[f] \in Times
<1>1. PICK S \in (SUBSET Fields) \ {{}} : m \in [S -> Times]
  BY DEF Measured
<1>2. QED
  BY <1>1

\* Positions are few, so a device measures finitely many fields at once.
LEMMA MeasuredFinite ==
  ASSUME NEW table \in SUBSET Entry, IsTable(table), NEW m \in Measured, Covers(table, m)
  PROVE  /\ IsFiniteSet(DOMAIN m) /\ IsFiniteSet(IndexesOf(table, m))
         /\ Cardinality(DOMAIN m) \in Nat
         /\ Cardinality(IndexesOf(table, m)) = Cardinality(DOMAIN m)
<1> DEFINE S == IndexesOf(table, m)
           g == [i \in S |-> EntryAt(table, i).field]
<1>1. IsFiniteSet(Positions) /\ S \subseteq Positions
  BY IndexesCover, FS_Interval, BoundsAssumption DEF Positions, BoundsAssumption
<1>2. IsFiniteSet(S)
  BY <1>1, FS_Subset
<1>3. /\ g \in [S -> DOMAIN m] /\ \A i, j \in S : g[i] = g[j] => i = j
      /\ \A f \in DOMAIN m : \E i \in S : g[i] = f
  BY IndexesCover
<1> HIDE DEF S, g
<1>4. g \in Injection(S, DOMAIN m) /\ g \in Surjection(S, DOMAIN m)
  BY <1>3, Fun_IsInj, Fun_IsSurj
<1>5. /\ IsFiniteSet(DOMAIN m)
      /\ Cardinality(DOMAIN m) = Cardinality(S)
  BY <1>2, <1>4, FS_Surjection
<1>6. QED
  BY <1>2, <1>5, FS_CardinalityType DEF S

LEMMA MinTimeIs ==
  ASSUME NEW m \in Measured
  PROVE  MinTime(m) \in Times /\ \A f \in DOMAIN m : MinTime(m) <= m[f]
<1> DEFINE S == {m[f] : f \in DOMAIN m}
<1>1. S \in SUBSET Times /\ S # {} /\ Times \subseteq Nat
  BY MeasuredTyped, BoundsAssumption DEF BoundsAssumption, Times
<1>2. \E t \in S : \A k \in S : t <= k
  BY <1>1, Smallest
<1>3. \E t \in S : \A f \in DOMAIN m : t <= m[f]
  BY <1>2
<1>4. MinTime(m) \in S /\ \A f \in DOMAIN m : MinTime(m) <= m[f]
  BY <1>3 DEF MinTime
<1>5. QED
  BY <1>1, <1>4

-----------------------------------------------------------------------------
(* Frames.  A frame is whole when each measured field has one place in it. *)

\* The offset of index i, as deserializeCompact counts td.
Offset(frame, i) ==
  IF frame.td = <<>> THEN 0 ELSE frame.td[Cardinality({j \in DOMAIN frame.values : j <= i})]

At(frame, i) == [frame.base EXCEPT !.ms = @ + Offset(frame, i)]

Whole(frame, m) ==
  /\ \A i \in DOMAIN frame.values : frame.values[i] \in DOMAIN m
  /\ \A f \in DOMAIN m : \E i \in DOMAIN frame.values : frame.values[i] = f
  /\ \A i, j \in DOMAIN frame.values : frame.values[i] = frame.values[j] => i = j
  /\ \A i \in DOMAIN frame.values : At(frame, i) \in Stamp

\* Each index is that of its field in the table.
Placed(frame, table) ==
  \A i \in DOMAIN frame.values : \E e \in table : e.index = i /\ e.field = frame.values[i]

\* At each index the time the format carries.
Timed(frame, u) ==
  \A i \in DOMAIN frame.values : At(frame, i) = TimeSent(u, frame.values[i])

LEMMA MaskFrameIsWhole ==
  ASSUME NEW table \in SUBSET Entry, IsTable(table), NEW m \in Measured,
         CanEncode("binary", table, m), NEW u, u.format = "binary", u.measured = m
  PROVE  /\ Whole(MaskFrame(table, m), m) /\ Placed(MaskFrame(table, m), table)
         /\ Timed(MaskFrame(table, m), u)
<1> DEFINE frame == MaskFrame(table, m)
           S == IndexesOf(table, m)
           ms == (MinTime(m) \div Second) * Second
<1>1. Covers(table, m) /\ \A f, g \in DOMAIN m : m[f] = m[g]
  BY DEF CanEncode, Covers
<1>2. /\ frame.base = [clock |-> "device", ms |-> ms] /\ frame.td = <<>>
      /\ frame.values = [i \in S |-> EntryAt(table, i).field]
  BY DEF MaskFrame, Frame
<1>3. ms \in Times
  <2>1. MinTime(m) \in 0 .. MaxTime /\ Second \in Nat \ {0} /\ MaxTime \in Nat
    BY MinTimeIs, BoundsAssumption DEF Times, BoundsAssumption
  <2>2. PICK t \in 0 .. MaxTime : t = MinTime(m)
    BY <2>1
  <2>3. (t \div Second) * Second \in 0 .. t
    <3>1. t \in Nat /\ t = Second * (t \div Second) + (t % Second)
      BY <2>1
    <3>2. t \div Second \in Nat /\ t % Second \in Nat
      BY <2>1, <3>1
    <3>3. (t \div Second) * Second \in Nat /\ (t \div Second) * Second = Second * (t \div Second)
      BY <2>1, <3>2
    <3>4. QED
      BY <3>1, <3>2, <3>3
  <2>4. QED
    BY <2>1, <2>2, <2>3 DEF Times
<1>4. \A i : At(frame, i) = [clock |-> "device", ms |-> ms]
  <2> HIDE DEF ms
  <2>1. ms + 0 = ms
    BY <1>3 DEF Times
  <2>2. QED
    BY <1>2, <2>1 DEF At, Offset
<1>5. \A f \in DOMAIN m : TimeSent(u, f) = [clock |-> "device", ms |-> ms]
  <2>1. \A f \in DOMAIN m : m[f] = MinTime(m)
    <3>1. \E f \in DOMAIN m : m[f] = MinTime(m)
      <4>1. PICK f \in DOMAIN m :
              m[f] \in {m[g] : g \in DOMAIN m} /\ \A g \in DOMAIN m : m[f] <= m[g]
        BY <1>1, MeasuredTyped, BoundsAssumption DEF Times, BoundsAssumption
      <4>2. MinTime(m) \in {m[g] : g \in DOMAIN m}
        BY <4>1 DEF MinTime
      <4>3. QED
        BY <4>2
    <3>2. QED
      BY <1>1, <3>1
  <2>2. QED
    BY <2>1 DEF TimeSent
<1>6. DOMAIN frame.values = S /\ \A i \in S : frame.values[i] = EntryAt(table, i).field
  BY <1>2
<1> HIDE DEF frame, S, ms
<1>7. /\ \A i \in S : EntryAt(table, i) \in table /\ EntryAt(table, i).index = i
                      /\ EntryAt(table, i).field \in DOMAIN m
      /\ \A f \in DOMAIN m : \E i \in S : EntryAt(table, i).field = f
      /\ \A i, j \in S : EntryAt(table, i).field = EntryAt(table, j).field => i = j
  BY <1>1, IndexesCover DEF S
<1>8. Whole(frame, m)
  BY <1>3, <1>4, <1>6, <1>7 DEF Whole, Stamp
<1>9. Placed(frame, table) /\ Timed(frame, u)
  BY <1>4, <1>5, <1>6, <1>7 DEF Placed, Timed
<1>10. QED
  BY <1>8, <1>9 DEF frame

\* The frame of ThingSpeak, which is also that of the compact form without t and td.
PlainFrame(table, m) ==
  Frame([clock |-> "server", ms |-> 0],
        [i \in IndexesOf(table, m) |-> EntryAt(table, i).field], <<>>)

LEMMA PlainFrameIsWhole ==
  ASSUME NEW table \in SUBSET Entry, IsTable(table), NEW m \in Measured,
         Covers(table, m), NEW u, u.format \in {"bare", "thingspeak"}, u.measured = m
  PROVE  /\ Whole(PlainFrame(table, m), m) /\ Placed(PlainFrame(table, m), table)
         /\ Timed(PlainFrame(table, m), u)
<1> DEFINE frame == PlainFrame(table, m)
           S == IndexesOf(table, m)
<1>1. /\ frame.base = [clock |-> "server", ms |-> 0] /\ frame.td = <<>>
      /\ DOMAIN frame.values = S /\ \A i \in S : frame.values[i] = EntryAt(table, i).field
  BY DEF PlainFrame, Frame
<1>2. \A i : At(frame, i) = [clock |-> "server", ms |-> 0]
  BY <1>1 DEF At, Offset
<1>3. [clock |-> "server", ms |-> 0] \in Stamp
  BY BoundsAssumption DEF Stamp, Times, BoundsAssumption
<1>4. \A f : TimeSent(u, f) = [clock |-> "server", ms |-> 0]
  BY DEF TimeSent
<1> HIDE DEF frame, S
<1>5. /\ \A i \in S : EntryAt(table, i) \in table /\ EntryAt(table, i).index = i
                      /\ EntryAt(table, i).field \in DOMAIN m
      /\ \A f \in DOMAIN m : \E i \in S : EntryAt(table, i).field = f
      /\ \A i, j \in S : EntryAt(table, i).field = EntryAt(table, j).field => i = j
  BY IndexesCover DEF S
<1>6. Whole(frame, m) /\ Placed(frame, table) /\ Timed(frame, u)
  BY <1>1, <1>2, <1>3, <1>4, <1>5 DEF Whole, Placed, Timed
<1>7. QED
  BY <1>6 DEF frame

LEMMA BareFrameIsPlain ==
  ASSUME NEW table, NEW m, CanEncode("bare", table, m)
  PROVE  BareFrame(table, m) = PlainFrame(table, m)
BY DEF CanEncode, BareFrame, PlainFrame

LEMMA DenseFrameIsWhole ==
  ASSUME NEW table \in SUBSET Entry, IsTable(table), NEW m \in Measured,
         CanEncode("compact", table, m), NEW u, u.format = "compact", u.measured = m
  PROVE  /\ Whole(DenseFrame(table, m), m) /\ Placed(DenseFrame(table, m), table)
         /\ Timed(DenseFrame(table, m), u)
<1> DEFINE frame == DenseFrame(table, m)
           n == Cardinality(DOMAIN m)
           S == IndexesOf(table, m)
<1>1. Covers(table, m) /\ S = 1 .. n
  BY DEF CanEncode, Covers
<1>2. n \in Nat
  BY <1>1, MeasuredFinite
<1>3. /\ frame.base = [clock |-> "device", ms |-> MinTime(m)]
      /\ frame.values = [i \in 1 .. n |-> EntryAt(table, i).field]
      /\ frame.td = [i \in DOMAIN frame.values |-> m[frame.values[i]] - MinTime(m)]
  BY DEF DenseFrame, Frame
<1>4. DOMAIN frame.values = S /\ \A i \in S : frame.values[i] = EntryAt(table, i).field
  BY <1>1, <1>3
<1>5. /\ \A i \in S : EntryAt(table, i) \in table /\ EntryAt(table, i).index = i
                      /\ EntryAt(table, i).field \in DOMAIN m
      /\ \A f \in DOMAIN m : \E i \in S : EntryAt(table, i).field = f
      /\ \A i, j \in S : EntryAt(table, i).field = EntryAt(table, j).field => i = j
  BY <1>1, IndexesCover DEF S
<1>6. ASSUME NEW i \in S
      PROVE  At(frame, i) = [clock |-> "device", ms |-> m[frame.values[i]]]
  <2>1. Cardinality({j \in DOMAIN frame.values : j <= i}) = i
    BY <1>1, <1>2, <1>4, <1>6, UpTo
  <2>2. i \in DOMAIN frame.td /\ frame.td[i] = m[frame.values[i]] - MinTime(m)
    BY <1>3, <1>4, <1>6
  <2>3. frame.td # <<>>
    BY <2>2
  <2>4. Offset(frame, i) = m[frame.values[i]] - MinTime(m)
    BY <2>1, <2>2, <2>3 DEF Offset
  <2>5. MinTime(m) \in Int /\ m[frame.values[i]] \in Int
    BY <1>4, <1>5, MinTimeIs, MeasuredTyped, BoundsAssumption DEF Times, BoundsAssumption
  <2>6. MinTime(m) + (m[frame.values[i]] - MinTime(m)) = m[frame.values[i]]
    BY <2>5
  <2>7. QED
    BY <1>3, <2>4, <2>6 DEF At
<1>7. \A i \in S : m[frame.values[i]] \in Times
  BY <1>4, <1>5, MeasuredTyped
<1> HIDE DEF frame, S
<1>8. Whole(frame, m)
  BY <1>4, <1>5, <1>6, <1>7 DEF Whole, Stamp
<1>9. Placed(frame, table)
  BY <1>4, <1>5 DEF Placed
<1>10. Timed(frame, u)
  BY <1>4, <1>5, <1>6 DEF Timed, TimeSent
<1>11. QED
  BY <1>8, <1>9, <1>10 DEF frame

\* The Go SDK leaves no field out, though it may put one in the place of another.
LEMMA SdkFrameIsWhole ==
  ASSUME NEW table \in SUBSET Entry, IsTable(table), NEW m \in Measured,
         CanEncode("sdk", table, m), NEW first \in Times
  PROVE  Whole(SdkFrame(table, m, first), m)
<1> DEFINE frame == SdkFrame(table, m, first)
           S == IndexesOf(table, m)
           n == Cardinality(S)
           slot(i) == CHOOSE s \in S : Rank(S, s) = i
<1>1. Covers(table, m) /\ S \in SUBSET Nat /\ IsFiniteSet(S)
  BY MeasuredFinite, IndexesCover DEF CanEncode, Covers, Positions
<1>2. n \in Nat
  BY <1>1, FS_CardinalityType
<1>3. /\ \A i \in 1 .. n : slot(i) \in S /\ Rank(S, slot(i)) = i
      /\ \A s \in S : Rank(S, s) \in 1 .. n /\ slot(Rank(S, s)) = s
  BY <1>1, Ranks
<1>4. /\ frame.base = [clock |-> "server", ms |-> 0]
      /\ frame.values = [i \in 1 .. n |-> EntryAt(table, slot(i)).field]
      /\ frame.td = [i \in DOMAIN frame.values |->
                       IF m[frame.values[i]] < first THEN 0 ELSE m[frame.values[i]] - first]
  BY DEF SdkFrame, Frame, Rank
<1> HIDE DEF frame, S, slot
<1>5. /\ DOMAIN frame.values = 1 .. n
      /\ \A i \in 1 .. n : frame.values[i] = EntryAt(table, slot(i)).field
  BY <1>4
<1>6. /\ \A s \in S : EntryAt(table, s) \in table /\ EntryAt(table, s).index = s
                      /\ EntryAt(table, s).field \in DOMAIN m
      /\ \A f \in DOMAIN m : \E s \in S : EntryAt(table, s).field = f
      /\ \A s, t \in S : EntryAt(table, s).field = EntryAt(table, t).field => s = t
  BY <1>1, IndexesCover DEF S
<1>7. ASSUME NEW i \in 1 .. n PROVE At(frame, i) \in Stamp
  <2>1. Cardinality({j \in DOMAIN frame.values : j <= i}) = i
    BY <1>2, <1>5, <1>7, UpTo
  <2>2. i \in DOMAIN frame.td
        /\ frame.td[i] = IF m[frame.values[i]] < first THEN 0 ELSE m[frame.values[i]] - first
    BY <1>4, <1>5, <1>7
  <2>3. frame.td # <<>>
    BY <2>2
  <2>4. Offset(frame, i) = frame.td[i]
    BY <2>1, <2>3 DEF Offset
  <2>5. m[frame.values[i]] \in Times
    BY <1>3, <1>5, <1>6, MeasuredTyped
  <2>6. frame.td[i] \in Times /\ 0 + frame.td[i] \in Times
    BY <2>2, <2>5, BoundsAssumption DEF Times, BoundsAssumption
  <2>7. At(frame, i) = [clock |-> "server", ms |-> 0 + frame.td[i]]
    BY <1>4, <2>4 DEF At
  <2>8. QED
    BY <2>6, <2>7 DEF Stamp
<1>8. /\ \A i \in 1 .. n : EntryAt(table, slot(i)).field \in DOMAIN m
      /\ \A f \in DOMAIN m : \E i \in 1 .. n : EntryAt(table, slot(i)).field = f
      /\ \A i, j \in 1 .. n : EntryAt(table, slot(i)).field = EntryAt(table, slot(j)).field => i = j
  <2>1. \A f \in DOMAIN m : \E i \in 1 .. n : EntryAt(table, slot(i)).field = f
    <3> SUFFICES ASSUME NEW f \in DOMAIN m
                 PROVE  \E i \in 1 .. n : EntryAt(table, slot(i)).field = f
      OBVIOUS
    <3>1. PICK s \in S : EntryAt(table, s).field = f
      BY <1>6
    <3>2. QED
      BY <1>3, <3>1
  <2>2. \A i, j \in 1 .. n : EntryAt(table, slot(i)).field = EntryAt(table, slot(j)).field => i = j
    <3> SUFFICES ASSUME NEW i \in 1 .. n, NEW j \in 1 .. n,
                        EntryAt(table, slot(i)).field = EntryAt(table, slot(j)).field
                 PROVE  i = j
      OBVIOUS
    <3>1. slot(i) = slot(j)
      BY <1>3, <1>6
    <3>2. QED
      BY <1>3, <3>1
  <2>3. QED
    BY <1>3, <1>6, <2>1, <2>2
<1>9. Whole(frame, m)
  BY <1>5, <1>7, <1>8 DEF Whole
<1>10. QED
  BY <1>9 DEF frame

-----------------------------------------------------------------------------
(* What ingestion makes of a frame.                                        *)

\* The point of each index, before of two with one name the later is kept.
PointAt(frame, table, i) ==
  [name |-> EntryAt(table, i).name, of |-> frame.values[i], at |-> At(frame, i)]

PointsAt(frame, table, S) == {PointAt(frame, table, i) : i \in S}

DistinctNames(table) == \A d, e \in table : d.name = e.name => d = e

LEMMA ResolveGives ==
  ASSUME NEW frame, NEW table \in SUBSET Entry, IsTable(table),
         \A i \in DOMAIN frame.values : \E e \in table : e.index = i,
         DOMAIN frame.values \subseteq Nat
  PROVE  /\ Resolve(frame, table) \subseteq PointsAt(frame, table, DOMAIN frame.values)
         /\ DistinctNames(table) =>
              Resolve(frame, table) = PointsAt(frame, table, DOMAIN frame.values)
<1> DEFINE S == DOMAIN frame.values
           last == {j \in S :
                      \A k \in S : EntryAt(table, k).name = EntryAt(table, j).name => k <= j}
<1>1. Resolve(frame, table) = PointsAt(frame, table, last)
  BY DEF Resolve, PointsAt, PointAt, At, Offset
<1>2. \A i \in S : EntryAt(table, i) \in table /\ EntryAt(table, i).index = i
  BY EntryFound
<1>3. DistinctNames(table) => last = S
  BY <1>2 DEF DistinctNames
<1>4. last \subseteq S
  OBVIOUS
<1> HIDE DEF S, last
<1>5. PointsAt(frame, table, last) \subseteq PointsAt(frame, table, S)
  BY <1>4 DEF PointsAt
<1>6. QED
  BY <1>1, <1>3, <1>5 DEF S

\* What the properties say of one call of a device, and that its points are
\* traced: a value goes to the name that its index has for ingestion.
Traced(u) ==
  u.format \notin {"json", "sdk"} =>
    \A pt \in u.points : \E d \in u.layout, e \in u.schema :
      d.index = e.index /\ pt.of = d.field /\ pt.name = e.name

Meaning(u) ==
  u.format # "sdk" /\ Agrees(u) /\ Distinct(u) =>
    \/ u.status = "bad_timestamp"
    \/ u.status = "created" /\ u.points = Meant(u)

All(u) ==
  u.format # "thingspeak" /\ u.status = "created" /\ Distinct(u) =>
    Cardinality(u.points) = Cardinality(DOMAIN u.measured)

Outcome(u) == u \in Uplink /\ Traced(u) /\ Meaning(u) /\ All(u)

Recorded(format, m, layout_, schema, result) ==
  [format |-> format, measured |-> m, layout |-> layout_, schema |-> schema,
   status |-> result.status, points |-> result.points]

LEMMA RecordedTyped ==
  ASSUME NEW format \in Formats, NEW m \in Measured,
         NEW lay \in SUBSET Entry, NEW sch \in SUBSET Entry,
         NEW status \in {"created", "unknown_field_index", "bad_timestamp", "empty_fields"},
         NEW points \in SUBSET Point
  PROVE  Recorded(format, m, lay, sch, [status |-> status, points |-> points]) \in Uplink
BY DEF Recorded, Uplink

\* A call that is refused for its times publishes nothing.
LEMMA RefusedOutcome ==
  ASSUME NEW format \in Formats, NEW m \in Measured,
         NEW lay \in SUBSET Entry, NEW sch \in SUBSET Entry
  PROVE  Outcome(Recorded(format, m, lay, sch, BadTimestamp))
<1> DEFINE u == Recorded(format, m, lay, sch, BadTimestamp)
<1>1. u \in Uplink
  BY RecordedTyped DEF BadTimestamp
<1>2. u.status = "bad_timestamp" /\ u.points = {}
  BY DEF Recorded, BadTimestamp
<1> HIDE DEF u
<1>3. Outcome(u)
  BY <1>1, <1>2 DEF Outcome, Traced, Meaning, All
<1>4. QED
  BY <1>3 DEF u

\* Points that name the measured fields one by one are as many as these.
LEMMA AsManyPoints ==
  ASSUME NEW m, IsFiniteSet(DOMAIN m), NEW points,
         \A pt \in points : pt.of \in DOMAIN m,
         \A f \in DOMAIN m : \E pt \in points : pt.of = f,
         \A pt, qt \in points : pt.of = qt.of => pt = qt
  PROVE  Cardinality(points) = Cardinality(DOMAIN m)
<1> DEFINE g == [pt \in points |-> pt.of]
<1>1. /\ g \in [points -> DOMAIN m] /\ \A a, b \in points : g[a] = g[b] => a = b
      /\ \A f \in DOMAIN m : \E a \in points : g[a] = f
  OBVIOUS
<1> HIDE DEF g
<1>2. g \in Injection(points, DOMAIN m) /\ g \in Surjection(points, DOMAIN m)
  BY <1>1, Fun_IsInj, Fun_IsSurj
<1>3. QED
  BY <1>2, FS_Injection

LEMMA JSONOutcome ==
  ASSUME NEW m \in Measured, NEW lay \in SUBSET Entry, IsTable(lay),
         NEW sch \in SUBSET Entry, CanEncode("json", lay, m)
  PROVE  Outcome(Recorded("json", m, lay, sch, DecodeJSON(lay, m)))
<1> DEFINE u == Recorded("json", m, lay, sch, DecodeJSON(lay, m))
           point(f) == [name |-> EntryOf(lay, f).name, of |-> f,
                        at |-> [clock |-> "device", ms |-> m[f]]]
           points == {point(f) : f \in DOMAIN m}
<1>1. Covers(lay, m)
  BY DEF CanEncode, Covers
<1>2. /\ u.format = "json" /\ u.measured = m /\ u.layout = lay
      /\ u.status = "created" /\ u.points = points
  BY DEF Recorded, DecodeJSON
<1>3. points \in SUBSET Point
  <2> SUFFICES ASSUME NEW f \in DOMAIN m PROVE point(f) \in Point
    OBVIOUS
  <2>1. EntryOf(lay, f) \in lay
    BY <1>1, EntryFound DEF Covers
  <2>2. EntryOf(lay, f).name \in Names
    BY <2>1 DEF Entry
  <2>3. QED
    BY <2>2, MeasuredTyped DEF Point, Stamp
<1>4. u \in Uplink
  <2>1. DecodeJSON(lay, m) = [status |-> "created", points |-> points]
    BY DEF DecodeJSON
  <2>2. "json" \in Formats
    BY DEF Formats
  <2> HIDE DEF points
  <2>3. QED
    BY <1>3, <2>1, <2>2, RecordedTyped
<1>5. IsFiniteSet(DOMAIN m)
  BY <1>1, MeasuredFinite
<1>6. Cardinality(points) = Cardinality(DOMAIN m)
  <2>1. /\ \A pt \in points : pt.of \in DOMAIN m
        /\ \A f \in DOMAIN m : \E pt \in points : pt.of = f
        /\ \A pt, qt \in points : pt.of = qt.of => pt = qt
    <3>1. \A f \in DOMAIN m : point(f).of = f
      OBVIOUS
    <3> HIDE DEF point
    <3>2. QED
      BY <3>1
  <2> HIDE DEF points
  <2>2. QED
    BY <1>5, <2>1, AsManyPoints
<1>7. points = Meant(u)
  BY <1>2 DEF Meant, NameSent, TimeSent
<1> HIDE DEF u, points
<1>8. Outcome(u)
  BY <1>2, <1>4, <1>6, <1>7 DEF Outcome, Traced, Meaning, All
<1>9. QED
  BY <1>8 DEF u

\* With a table that agrees with the device's, every index of a frame is known,
\* and the points of its indexes are what the device means.
LEMMA AgreedFrame ==
  ASSUME NEW m \in Measured, NEW u, u.measured = m, u.format # "json",
         u.layout \in SUBSET Entry, IsTable(u.layout), u.schema \in SUBSET Entry, IsTable(u.schema),
         NEW frame, Whole(frame, m), Placed(frame, u.layout), Timed(frame, u), Agrees(u)
  PROVE  /\ Known(frame, u.schema) = DOMAIN frame.values
         /\ PointsAt(frame, u.schema, DOMAIN frame.values) = Meant(u)
<1> DEFINE S == DOMAIN frame.values
<1>1. ASSUME NEW i \in S
      PROVE  \E e \in u.schema : e.index = i /\ e.field = frame.values[i]
  <2>1. frame.values[i] \in DOMAIN m
    BY DEF Whole
  <2>2. PICK d \in u.layout, e \in u.schema :
          d.field = frame.values[i] /\ e.field = frame.values[i] /\ d.index = e.index
    BY <2>1 DEF Agrees
  <2>3. PICK c \in u.layout : c.index = i /\ c.field = frame.values[i]
    BY DEF Placed
  <2>4. c = d
    BY <2>2, <2>3 DEF IsTable
  <2>5. QED
    BY <2>2, <2>3, <2>4
<1>2. Known(frame, u.schema) = S
  BY <1>1 DEF Known
<1>3. \A i \in S : /\ EntryAt(u.schema, i) = EntryOf(u.schema, frame.values[i])
                   /\ At(frame, i) = TimeSent(u, frame.values[i])
  BY <1>1, EntryFound DEF Timed
<1>4. \A i \in S : PointAt(frame, u.schema, i) =
                    [name |-> NameSent(u, frame.values[i]), of |-> frame.values[i],
                     at |-> TimeSent(u, frame.values[i])]
  BY <1>3 DEF PointAt, NameSent
<1>5. {frame.values[i] : i \in S} = DOMAIN m
  BY DEF Whole
<1> HIDE DEF S
<1>6. PointsAt(frame, u.schema, S) =
        {[name |-> NameSent(u, f), of |-> f, at |-> TimeSent(u, f)] :
           f \in {frame.values[i] : i \in S}}
  BY <1>4 DEF PointsAt
<1>7. PointsAt(frame, u.schema, S) = Meant(u)
  BY <1>5, <1>6 DEF Meant
<1>8. QED
  BY <1>2, <1>7 DEF S

\* A frame that is whole, decoded with a table that need not be the device's.
LEMMA FrameOutcome ==
  ASSUME NEW format \in Formats \ {"json", "thingspeak"}, NEW m \in Measured,
         IsFiniteSet(DOMAIN m),
         NEW lay \in SUBSET Entry, IsTable(lay), NEW sch \in SUBSET Entry, IsTable(sch),
         NEW frame, DOMAIN frame.values \subseteq Nat, Whole(frame, m),
         format # "sdk" =>
           Placed(frame, lay) /\ Timed(frame, Recorded(format, m, lay, sch, Decode(frame, sch)))
  PROVE  Outcome(Recorded(format, m, lay, sch, Decode(frame, sch)))
<1> DEFINE u == Recorded(format, m, lay, sch, Decode(frame, sch))
           S == DOMAIN frame.values
           points == PointsAt(frame, sch, S)
<1>1. /\ u.format = format /\ u.measured = m /\ u.layout = lay /\ u.schema = sch
      /\ u.status = Decode(frame, sch).status /\ u.points = Decode(frame, sch).points
  BY DEF Recorded
<1>2. CASE Known(frame, sch) # S
  <2>1. Decode(frame, sch) = [status |-> "unknown_field_index", points |-> {}]
    BY <1>2 DEF Decode
  <2>2. u \in Uplink /\ u.status = "unknown_field_index" /\ u.points = {}
    BY <1>1, <2>1, RecordedTyped
  <2>3. ~(u.format # "sdk" /\ Agrees(u))
    BY <1>1, <1>2, AgreedFrame
  <2>4. Outcome(u)
    BY <2>2, <2>3 DEF Outcome, Traced, Meaning, All
  <2>5. QED
    BY <2>4 DEF u
<1>3. CASE Known(frame, sch) = S
  <2>1. \A i \in S : \E e \in sch : e.index = i
    BY <1>3 DEF Known
  <2>2. /\ u.status = "created" /\ u.points = Resolve(frame, sch)
        /\ u.points \subseteq points
        /\ DistinctNames(sch) => u.points = points
    <3>1. Decode(frame, sch) = [status |-> "created", points |-> Resolve(frame, sch)]
      BY <1>3 DEF Decode
    <3>2. QED
      BY <1>1, <2>1, <3>1, ResolveGives
  <2>3. \A i \in S : EntryAt(sch, i) \in sch /\ EntryAt(sch, i).index = i
    BY <2>1, EntryFound
  <2>4. /\ \A i \in S : PointAt(frame, sch, i).of = frame.values[i]
        /\ \A i \in S : PointAt(frame, sch, i).name = EntryAt(sch, i).name
        /\ \A i \in S : PointAt(frame, sch, i) \in Point
    <3>1. ASSUME NEW i \in S PROVE PointAt(frame, sch, i) \in Point
      <4>1. EntryAt(sch, i).name \in Names
        BY <2>3 DEF Entry
      <4>2. frame.values[i] \in Fields /\ At(frame, i) \in Stamp
        BY MeasuredTyped DEF Whole
      <4>3. QED
        BY <4>1, <4>2 DEF PointAt, Point
    <3>2. QED
      BY <3>1 DEF PointAt
  <2>5. u \in Uplink
    <3>1. u.points \in SUBSET Point
      BY <2>2, <2>4 DEF PointsAt
    <3>2. Resolve(frame, sch) \in SUBSET Point
          /\ Decode(frame, sch) = [status |-> "created", points |-> Resolve(frame, sch)]
      BY <1>3, <2>2, <3>1 DEF Decode
    <3>3. QED
      BY <3>2, RecordedTyped
  <2>6. Traced(u)
    <3> SUFFICES ASSUME format # "sdk", NEW i \in S
                 PROVE  \E d \in lay, e \in sch :
                          /\ d.index = e.index
                          /\ PointAt(frame, sch, i).of = d.field
                          /\ PointAt(frame, sch, i).name = e.name
      BY <1>1, <2>2 DEF Traced, PointsAt
    <3>1. PICK d \in lay : d.index = i /\ d.field = frame.values[i]
      BY DEF Placed
    <3>2. QED
      BY <2>3, <2>4, <3>1
  <2>7. DistinctNames(sch) => Cardinality(points) = Cardinality(DOMAIN m)
    <3>1. /\ \A pt \in points : pt.of \in DOMAIN m
          /\ \A f \in DOMAIN m : \E pt \in points : pt.of = f
          /\ \A pt, qt \in points : pt.of = qt.of => pt = qt
      BY <2>4 DEF PointsAt, Whole
    <3> HIDE DEF points
    <3>2. QED
      BY <3>1, AsManyPoints
  <2>8. format # "sdk" /\ Agrees(u) => points = Meant(u)
    BY <1>1, AgreedFrame
  <2> HIDE DEF u, points
  <2>9. Outcome(u)
    BY <1>1, <2>2, <2>5, <2>6, <2>7, <2>8
       DEF Outcome, Meaning, All, Distinct, DistinctNames
  <2>10. QED
    BY <2>9 DEF u
<1>4. QED
  BY <1>2, <1>3

LEMMA ThingSpeakOutcome ==
  ASSUME NEW m \in Measured,
         NEW lay \in SUBSET Entry, IsTable(lay), NEW sch \in SUBSET Entry, IsTable(sch),
         CanEncode("thingspeak", lay, m)
  PROVE  Outcome(Recorded("thingspeak", m, lay, sch, DecodeThingSpeak(PlainFrame(lay, m), sch)))
<1> DEFINE frame == PlainFrame(lay, m)
           u == Recorded("thingspeak", m, lay, sch, DecodeThingSpeak(frame, sch))
           K == Known(frame, sch)
           known == [frame EXCEPT !.values = [i \in K |-> frame.values[i]]]
<1>1. /\ u.format = "thingspeak" /\ u.measured = m /\ u.layout = lay /\ u.schema = sch
      /\ u.status = DecodeThingSpeak(frame, sch).status
      /\ u.points = DecodeThingSpeak(frame, sch).points
  BY DEF Recorded
<1>2. Whole(frame, m) /\ Placed(frame, lay) /\ Timed(frame, u)
  BY <1>1, PlainFrameIsWhole DEF CanEncode, Covers
<1>3. Agrees(u) => K = DOMAIN frame.values /\ PointsAt(frame, sch, DOMAIN frame.values) = Meant(u)
  BY <1>1, <1>2, AgreedFrame
<1>4. "thingspeak" \in Formats
  BY DEF Formats
<1>5. CASE K = {}
  <2>1. DecodeThingSpeak(frame, sch) = [status |-> "empty_fields", points |-> {}]
    BY <1>5 DEF DecodeThingSpeak
  <2>2. u \in Uplink /\ u.points = {}
    BY <1>1, <1>4, <2>1, RecordedTyped
  <2>3. ~Agrees(u)
    BY <1>2, <1>3, <1>5, MeasuredTyped DEF Whole
  <2> HIDE DEF u
  <2>4. Outcome(u)
    BY <1>1, <2>2, <2>3 DEF Outcome, Traced, Meaning, All
  <2>5. QED
    BY <2>4 DEF u
<1>6. CASE K # {}
  <2>1. DecodeThingSpeak(frame, sch) = [status |-> "created", points |-> Resolve(known, sch)]
    BY <1>6 DEF DecodeThingSpeak
  <2>2. /\ known.base = frame.base /\ known.td = <<>> /\ frame.td = <<>>
        /\ DOMAIN known.values = K /\ \A i \in K : known.values[i] = frame.values[i]
    BY DEF PlainFrame, Frame
  <2>3. \A i \in K : i \in DOMAIN frame.values /\ \E e \in sch : e.index = i
    BY DEF Known
  <2>4. K \subseteq Nat
    BY <2>3 DEF Entry, Positions
  <2> HIDE DEF frame, K, known
  <2>5. \A i \in K : At(known, i) = At(frame, i) /\ PointAt(known, sch, i) = PointAt(frame, sch, i)
    BY <2>2 DEF PointAt, At, Offset
  <2>6. PointsAt(known, sch, K) = PointsAt(frame, sch, K)
    BY <2>5 DEF PointsAt
  <2>7. /\ Resolve(known, sch) \subseteq PointsAt(frame, sch, K)
        /\ DistinctNames(sch) => Resolve(known, sch) = PointsAt(frame, sch, K)
    BY <2>2, <2>3, <2>4, <2>6, ResolveGives
  <2>8. \A i \in K : EntryAt(sch, i) \in sch /\ EntryAt(sch, i).index = i
    BY <2>3, EntryFound
  <2>9. ASSUME NEW i \in K
        PROVE  /\ PointAt(frame, sch, i) \in Point
               /\ PointAt(frame, sch, i).of = frame.values[i]
               /\ PointAt(frame, sch, i).name = EntryAt(sch, i).name
    <3>1. EntryAt(sch, i).name \in Names
      BY <2>8 DEF Entry
    <3>2. frame.values[i] \in Fields /\ At(frame, i) \in Stamp
      BY <1>2, <2>3, MeasuredTyped DEF Whole
    <3>3. QED
      BY <3>1, <3>2 DEF PointAt, Point
  <2>10. Resolve(known, sch) \in SUBSET Point
    BY <2>7, <2>9 DEF PointsAt
  <2>11. u \in Uplink /\ u.status = "created" /\ u.points = Resolve(known, sch)
    BY <1>1, <1>4, <2>1, <2>10, RecordedTyped
  <2>12. Traced(u)
    <3> SUFFICES ASSUME NEW i \in K
                 PROVE  \E d \in lay, e \in sch :
                          /\ d.index = e.index
                          /\ PointAt(frame, sch, i).of = d.field
                          /\ PointAt(frame, sch, i).name = e.name
      BY <1>1, <2>7, <2>11 DEF Traced, PointsAt
    <3>1. PICK d \in lay : d.index = i /\ d.field = frame.values[i]
      BY <1>2, <2>3 DEF Placed
    <3>2. QED
      BY <2>8, <2>9, <3>1
  <2>13. Agrees(u) /\ DistinctNames(sch) => u.points = Meant(u)
    BY <1>3, <2>7, <2>11
  <2> HIDE DEF u
  <2>14. Outcome(u)
    BY <1>1, <2>11, <2>12, <2>13 DEF Outcome, Meaning, All, Distinct, DistinctNames
  <2>15. QED
    BY <2>14 DEF u, frame
<1>7. QED
  BY <1>5, <1>6

-----------------------------------------------------------------------------
(* The invariant.  Rows keep their field's position, also when deleted, so *)
(* that every table of fields ever taken is still told by the rows.        *)

Held(table) == \A e \in table : row[e.field] # None /\ row[e.field].position = e.index

WireInv ==
  /\ TypeOK
  /\ Held(layout) /\ (cached # None => Held(cached))
  /\ uplink # None => Outcome(uplink) /\ Held(uplink.layout) /\ Held(uplink.schema)

LEMMA RegisteredTyped ==
  ASSUME TypeOK
  PROVE  Registered \in SUBSET Entry /\ Held(Registered)
<1>1. \A f \in Fields : Live(f) => row[f] \in Row /\ row[f].name \in Names
  BY DEF TypeOK, Live, Row
<1>2. QED
  BY <1>1 DEF Registered, Entry, Held, Live, Row

LEMMA WireInit == Init => WireInv
<1> SUFFICES ASSUME Init PROVE WireInv
  OBVIOUS
<1>1. Registered = {}
  BY DEF Init, Registered, Live
<1>2. QED
  BY <1>1 DEF Init, WireInv, TypeOK, IsTable, Held

\* The steps of the registry, which leave the tables of device and cache alone.
LEMMA RegistryStep ==
  ASSUME WireInv, row' \in [Fields -> Row \cup {None}], IsTable(Registered'),
         \A f \in Fields : row[f] # None => row'[f] # None /\ row'[f].position = row[f].position,
         uplink' = None, UNCHANGED <<cached, layout>>
  PROVE  WireInv'
<1>1. \A table \in SUBSET Entry : Held(table) => Held(table)'
  BY DEF Held, Entry
<1>2. TypeOK'
  BY DEF WireInv, TypeOK
<1>3. Held(layout)' /\ (cached # None => Held(cached))'
  BY <1>1 DEF WireInv, TypeOK
<1>4. QED
  BY <1>2, <1>3 DEF WireInv

\* One row is written: that of f, at a position that no other live field has.
LEMMA RowWritten ==
  ASSUME WireInv, NEW f \in Fields, NEW r \in Row, r # None,
         r.name # None => \A g \in Fields \ {f} : Live(g) => row[g].position # r.position,
         row[f] # None => r.position = row[f].position,
         row' = [row EXCEPT ![f] = r], uplink' = None, UNCHANGED <<cached, layout>>
  PROVE  WireInv'
<1>1. row \in [Fields -> Row \cup {None}] /\ IsTable(Registered)
  BY DEF WireInv, TypeOK
<1>2. /\ row' \in [Fields -> Row \cup {None}] /\ row'[f] = r
      /\ \A g \in Fields \ {f} : row'[g] = row[g]
  BY <1>1
<1>3. \A g \in Fields : row[g] # None => row'[g] # None /\ row'[g].position = row[g].position
  BY <1>2
<1>4. \A g, h \in Fields : Live(g)' /\ Live(h)' /\ row'[g].position = row'[h].position => g = h
  <2>1. \A g, h \in Fields : Live(g) /\ Live(h) /\ row[g].position = row[h].position => g = h
    <3>1. \A g \in Fields : Live(g) =>
            [index |-> row[g].position, field |-> g, name |-> row[g].name] \in Registered
      BY DEF Registered
    <3>2. QED
      BY <1>1, <3>1 DEF IsTable
  <2>2. \A g \in Fields \ {f} : Live(g)' => Live(g)
    BY <1>2 DEF Live
  <2>3. Live(f)' => r.name # None
    BY <1>2 DEF Live
  <2>4. QED
    BY <1>2, <2>1, <2>2, <2>3
<1>5. \A e \in Registered' : e.field \in Fields /\ Live(e.field)'
        /\ e = [index |-> row'[e.field].position, field |-> e.field, name |-> row'[e.field].name]
  BY DEF Registered
<1>6. IsTable(Registered')
  BY <1>4, <1>5 DEF IsTable
<1>7. QED
  BY <1>2, <1>3, <1>6, RegistryStep

\* A step that keeps the rows and forgets the call: the tables are as they were,
\* or the registry's.
LEMMA TablesStep ==
  ASSUME WireInv, row' = row, uplink' = None,
         layout' \in {layout, Registered}, cached' \in {cached, Registered, None}
  PROVE  WireInv'
<1>1. Registered' = Registered /\ \A table : Held(table)' <=> Held(table)
  BY DEF Registered, Live, Held
<1>2. Registered \in SUBSET Entry /\ Held(Registered) /\ IsTable(Registered)
  BY RegisteredTyped DEF WireInv, TypeOK
<1>3. TypeOK'
  BY <1>1, <1>2 DEF WireInv, TypeOK
<1>4. Held(layout)' /\ (cached # None => Held(cached))'
  BY <1>1, <1>2 DEF WireInv
<1>5. QED
  BY <1>3, <1>4 DEF WireInv

\* A call of the device is recorded with what became of it.
LEMMA CallStep ==
  ASSUME WireInv, NEW table, Lookup(table), NEW format \in Formats,
         NEW m \in Measured, NEW result, UNCHANGED <<row, layout>>,
         Record(format, m, table, result),
         Outcome(Recorded(format, m, layout, table, result))
  PROVE  WireInv'
<1>1. Registered' = Registered /\ \A t : Held(t)' <=> Held(t)
  BY DEF Registered, Live, Held
<1>2. Registered \in SUBSET Entry /\ Held(Registered) /\ IsTable(Registered)
  BY RegisteredTyped DEF WireInv, TypeOK
<1>3. Held(table) /\ cached' \in {cached, Registered}
  BY <1>2 DEF Lookup, WireInv
<1>4. uplink' = Recorded(format, m, layout, table, result)
  BY DEF Record, Recorded
<1>5. uplink' \in Uplink /\ Outcome(uplink')
  BY <1>4 DEF Outcome
<1>6. TypeOK'
  BY <1>1, <1>2, <1>3, <1>5 DEF WireInv, TypeOK
<1>7. Held(layout)' /\ (cached # None => Held(cached))'
  BY <1>1, <1>2, <1>3 DEF WireInv
<1>8. uplink'.layout = layout /\ uplink'.schema = table
  BY <1>4 DEF Recorded
<1>9. Outcome(uplink)' /\ Held(uplink.layout)' /\ Held(uplink.schema)'
  <2>1. Held(uplink'.layout) /\ Held(uplink'.schema)
    BY <1>3, <1>8 DEF WireInv
  <2>2. Held(uplink.layout)' /\ Held(uplink.schema)'
    BY <2>1 DEF Held
  <2>3. Outcome(uplink)'
    BY <1>5 DEF Outcome, Traced, Meaning, All, Agrees, Distinct, Meant, NameSent, TimeSent
  <2>4. QED
    BY <2>2, <2>3
<1>10. QED
  BY <1>6, <1>7, <1>9 DEF WireInv

LEMMA LookupTyped ==
  ASSUME WireInv, NEW table, Lookup(table)
  PROVE  table \in SUBSET Entry /\ IsTable(table)
BY RegisteredTyped DEF WireInv, TypeOK, Lookup

LEMMA FrameStep ==
  ASSUME WireInv, NEW m \in Measured,
         NEW format \in Formats \ {"json", "thingspeak"},
         NEW frame, SendFrame(format, m, frame),
         DOMAIN frame.values \subseteq Nat, Whole(frame, m),
         \A u : format # "sdk" /\ u.format = format /\ u.measured = m =>
           Placed(frame, layout) /\ Timed(frame, u)
  PROVE  WireInv'
<1>1. layout \in SUBSET Entry /\ IsTable(layout)
  BY DEF WireInv, TypeOK
<1>2. IsFiniteSet(DOMAIN m)
  BY <1>1, MeasuredFinite DEF SendFrame, CanEncode, Covers
<1>3. PICK table \in {cached, Registered} :
        /\ Lookup(table)
        /\ \E result \in {Decode(frame, table), BadTimestamp} : Record(format, m, table, result)
  BY DEF SendFrame
<1>4. PICK result \in {Decode(frame, table), BadTimestamp} : Record(format, m, table, result)
  BY <1>3
<1>5. table \in SUBSET Entry /\ IsTable(table)
  BY <1>3, LookupTyped
<1>6. Outcome(Recorded(format, m, layout, table, Decode(frame, table)))
  <2> DEFINE u == Recorded(format, m, layout, table, Decode(frame, table))
  <2>1. u.format = format /\ u.measured = m
    BY DEF Recorded
  <2>2. format # "sdk" => Placed(frame, layout) /\ Timed(frame, u)
    BY <2>1
  <2>3. QED
    BY <1>1, <1>2, <1>5, <2>2, FrameOutcome
<1>7. Outcome(Recorded(format, m, layout, table, BadTimestamp))
  BY <1>1, <1>5, RefusedOutcome
<1>8. UNCHANGED <<row, layout>>
  BY DEF SendFrame
<1>9. QED
  BY <1>3, <1>4, <1>6, <1>7, <1>8, CallStep

LEMMA SendStep ==
  ASSUME WireInv, NEW m \in Measured, Send(m)
  PROVE  WireInv'
<1>0. \A format : \E u : u.format = format /\ u.measured = m
  <2> SUFFICES ASSUME NEW format PROVE \E u : u.format = format /\ u.measured = m
    OBVIOUS
  <2>1. /\ [format |-> format, measured |-> m].format = format
        /\ [format |-> format, measured |-> m].measured = m
    OBVIOUS
  <2>2. QED
    BY <2>1
<1>1. layout \in SUBSET Entry /\ IsTable(layout)
  BY DEF WireInv, TypeOK
<1>2. CASE SendJSON(m)
  <2>1. PICK table \in {cached, Registered}, result \in {DecodeJSON(layout, m), BadTimestamp} :
          Lookup(table) /\ Record("json", m, table, result)
    BY <1>2 DEF SendJSON
  <2>2. table \in SUBSET Entry /\ IsTable(table) /\ "json" \in Formats
    BY <2>1, LookupTyped DEF Formats
  <2>3. CanEncode("json", layout, m) /\ UNCHANGED <<row, layout>>
    BY <1>2 DEF SendJSON
  <2>4. Outcome(Recorded("json", m, layout, table, DecodeJSON(layout, m)))
    BY <1>1, <2>2, <2>3, JSONOutcome
  <2>5. Outcome(Recorded("json", m, layout, table, BadTimestamp))
    BY <1>1, <2>2, RefusedOutcome
  <2>6. QED
    BY <2>1, <2>2, <2>3, <2>4, <2>5, CallStep
<1>3. CASE SendFrame("compact", m, DenseFrame(layout, m))
  <2>1. CanEncode("compact", layout, m) /\ "compact" \in Formats \ {"json", "thingspeak"}
    BY <1>3 DEF SendFrame, Formats
  <2>2. DOMAIN DenseFrame(layout, m).values \subseteq Nat
    BY DEF DenseFrame, Frame
  <2>3. \A u : u.format = "compact" /\ u.measured = m =>
          /\ Whole(DenseFrame(layout, m), m) /\ Placed(DenseFrame(layout, m), layout)
          /\ Timed(DenseFrame(layout, m), u)
    BY <1>1, <2>1, DenseFrameIsWhole
  <2>4. Whole(DenseFrame(layout, m), m)
    BY <1>0, <2>3
  <2>5. QED
    BY <1>3, <2>1, <2>2, <2>3, <2>4, FrameStep
<1>4. CASE SendFrame("bare", m, BareFrame(layout, m))
  <2>1. CanEncode("bare", layout, m) /\ "bare" \in Formats \ {"json", "thingspeak"}
    BY <1>4 DEF SendFrame, Formats
  <2>2. DOMAIN BareFrame(layout, m).values \subseteq Nat
    BY DEF BareFrame, Frame
  <2>3. \A u : u.format = "bare" /\ u.measured = m =>
          /\ Whole(BareFrame(layout, m), m) /\ Placed(BareFrame(layout, m), layout)
          /\ Timed(BareFrame(layout, m), u)
    <3>1. BareFrame(layout, m) = PlainFrame(layout, m) /\ Covers(layout, m)
      BY <2>1, BareFrameIsPlain DEF CanEncode, Covers
    <3>2. QED
      BY <1>1, <3>1, PlainFrameIsWhole
  <2>4. Whole(BareFrame(layout, m), m)
    BY <1>0, <2>3
  <2>5. QED
    BY <1>4, <2>1, <2>2, <2>3, <2>4, FrameStep
<1>5. CASE SendFrame("binary", m, MaskFrame(layout, m))
  <2>1. CanEncode("binary", layout, m) /\ "binary" \in Formats \ {"json", "thingspeak"}
    BY <1>5 DEF SendFrame, Formats
  <2>2. DOMAIN MaskFrame(layout, m).values \subseteq Nat
    <3>1. DOMAIN MaskFrame(layout, m).values = IndexesOf(layout, m)
      BY DEF MaskFrame, Frame
    <3>2. IndexesOf(layout, m) \subseteq Positions
      BY <1>1, <2>1, IndexesCover DEF CanEncode, Covers
    <3>3. QED
      BY <3>1, <3>2 DEF Positions
  <2>3. \A u : u.format = "binary" /\ u.measured = m =>
          /\ Whole(MaskFrame(layout, m), m) /\ Placed(MaskFrame(layout, m), layout)
          /\ Timed(MaskFrame(layout, m), u)
    BY <1>1, <2>1, MaskFrameIsWhole
  <2>4. Whole(MaskFrame(layout, m), m)
    BY <1>0, <2>3
  <2>5. QED
    BY <1>5, <2>1, <2>2, <2>3, <2>4, FrameStep
<1>6. CASE SendThingSpeak(m)
  <2>1. CanEncode("thingspeak", layout, m) /\ UNCHANGED <<row, cached, layout>>
    BY <1>6 DEF SendThingSpeak
  <2>2. Record("thingspeak", m, Registered, DecodeThingSpeak(PlainFrame(layout, m), Registered))
    BY <1>6 DEF SendThingSpeak, PlainFrame
  <2>3. Registered \in SUBSET Entry /\ IsTable(Registered) /\ "thingspeak" \in Formats
    BY RegisteredTyped DEF WireInv, TypeOK, Formats
  <2>4. Outcome(Recorded("thingspeak", m, layout, Registered,
                     DecodeThingSpeak(PlainFrame(layout, m), Registered)))
    BY <1>1, <2>1, <2>3, ThingSpeakOutcome
  <2>5. Lookup(Registered)
    BY <2>1 DEF Lookup
  <2>6. QED
    BY <2>1, <2>2, <2>3, <2>4, <2>5, CallStep
<1>7. ASSUME NEW f \in DOMAIN m, SendFrame("sdk", m, SdkFrame(layout, m, m[f])) PROVE WireInv'
  <2>1. CanEncode("sdk", layout, m) /\ "sdk" \in Formats \ {"json", "thingspeak"}
    BY <1>7 DEF SendFrame, Formats
  <2>2. DOMAIN SdkFrame(layout, m, m[f]).values \subseteq Nat
    BY DEF SdkFrame, Frame
  <2>3. Whole(SdkFrame(layout, m, m[f]), m)
    BY <1>1, <2>1, MeasuredTyped, SdkFrameIsWhole
  <2>4. QED
    BY <1>7, <2>1, <2>2, <2>3, FrameStep
<1>8. QED
  BY <1>2, <1>3, <1>4, <1>5, <1>6, <1>7 DEF Send

LEMMA WireStep == WireInv /\ [Next]_vars => WireInv'
<1> SUFFICES ASSUME WireInv, [Next]_vars PROVE WireInv'
  OBVIOUS
<1>0. row \in [Fields -> Row \cup {None}] /\ None \notin Row /\ None \notin Names
  BY NoneAssumption DEF WireInv, TypeOK, NoneAssumption
<1>1. ASSUME NEW f \in Fields, NEW p \in Positions, NEW n \in Names, CreateField(f, p, n)
      PROVE  WireInv'
  <2> DEFINE r == [position |-> p, name |-> n]
  <2>1. r \in Row /\ r # None /\ r.position = p
    BY <1>0 DEF Row
  <2> HIDE DEF r
  <2>2. row[f] = None /\ (\A g \in Fields : Live(g) => row[g].position # p) /\ uplink' = None
        /\ UNCHANGED <<cached, layout>>
    BY <1>1 DEF CreateField
  <2>3. row' = [row EXCEPT ![f] = r]
    BY <1>1 DEF CreateField, r
  <2>4. QED
    BY <2>1, <2>2, <2>3, RowWritten
<1>2. ASSUME NEW f \in Fields, NEW n \in Names \cup {None}, Live(f),
             row' = [row EXCEPT ![f].name = n], uplink' = None, UNCHANGED <<cached, layout>>
      PROVE  WireInv'
  <2> DEFINE r == [row[f] EXCEPT !.name = n]
  <2>1. row[f] \in Row
    BY <1>0, <1>2 DEF Live
  <2>2. r \in Row /\ r # None /\ r.position = row[f].position /\ row[f] # None
    BY <1>0, <2>1 DEF Row
  <2>3. row' = [row EXCEPT ![f] = r]
    BY <1>2
  <2>4. \A g \in Fields \ {f} : Live(g) => row[g].position # row[f].position
    <3>1. \A g \in Fields : Live(g) =>
            [index |-> row[g].position, field |-> g, name |-> row[g].name] \in Registered
      BY DEF Registered
    <3>2. QED
      BY <1>2, <3>1 DEF WireInv, TypeOK, IsTable
  <2> HIDE DEF r
  <2>5. \A g \in Fields \ {f} : Live(g) => row[g].position # r.position
    BY <2>2, <2>4
  <2>6. uplink' = None /\ UNCHANGED <<cached, layout>>
    BY <1>2
  <2>7. QED
    BY <2>2, <2>3, <2>5, <2>6, RowWritten
<1>3. ASSUME NEW f \in Fields, NEW n \in Names, UpdateField(f, n) PROVE WireInv'
  BY <1>2, <1>3 DEF UpdateField
<1>4. ASSUME NEW f \in Fields, DeleteField(f) PROVE WireInv'
  BY <1>2, <1>4 DEF DeleteField
<1>5. ASSUME Expire \/ Flash PROVE WireInv'
  BY <1>5, TablesStep DEF Expire, Flash
<1>6. ASSUME NEW m \in Measured, Send(m) PROVE WireInv'
  BY <1>6, SendStep
<1>7. CASE UNCHANGED vars
  <2>1. /\ Registered' = Registered /\ (\A t : Held(t)' <=> Held(t))
        /\ uplink' = uplink /\ UNCHANGED <<cached, layout, row>>
    BY <1>7 DEF Registered, Live, Held, vars
  <2>2. TypeOK'
    BY <2>1 DEF WireInv, TypeOK
  <2>3. Held(layout)' /\ (cached # None => Held(cached))'
    BY <2>1 DEF WireInv
  <2>4. (uplink # None => Outcome(uplink) /\ Held(uplink.layout) /\ Held(uplink.schema))'
    BY <2>1 DEF WireInv, Held, Outcome, Traced, Meaning, All, Agrees, Distinct, Meant,
                NameSent, TimeSent
  <2>5. QED
    BY <2>2, <2>3, <2>4 DEF WireInv
<1>8. QED
  BY <1>1, <1>3, <1>4, <1>5, <1>6, <1>7 DEF Next

LEMMA WireHolds == Spec => []WireInv
<1>1. Init => WireInv
  BY WireInit
<1>2. WireInv /\ [Next]_vars => WireInv'
  BY WireStep
<1>3. QED
  BY <1>1, <1>2, PTL DEF Spec

\* Every variable keeps its shape, and no table of fields, the registry's, the
\* cached one or the device's, ever has two entries for a position or a field.
THEOREM TypeCorrect == Spec => []TypeOK
<1>1. WireInv => TypeOK
  BY DEF WireInv
<1>2. QED
  BY <1>1, WireHolds, PTL

\* A device that agrees with the table ingestion used is never told that a field
\* is unknown, and in every format of docs/api.md what is published is what it
\* measured, under the right names and at the times the format carries, for any
\* number of fields and positions and any measurements, as long as no two fields of
\* that table have one name.
THEOREM DevicesAreUnderstood == Spec => []DecodedAsMeant
<1>1. WireInv => DecodedAsMeant
  BY DEF WireInv, Outcome, Meaning, DecodedAsMeant, Answered
<1>2. QED
  BY <1>1, WireHolds, PTL

\* However old the tables of the device and of the cache are, a value is only
\* published under the name of another field when a position it was sent for has
\* been given to a second field.
THEOREM MisfilingNeedsReuse == Spec => []MisfiledOnlyIfReused
<1>1. WireInv => MisfiledOnlyIfReused
  <2> SUFFICES ASSUME WireInv, Answered, uplink.format \notin {"json", "sdk"}, Distinct(uplink),
                      NEW pt \in uplink.points, NEW e \in uplink.schema, e.name = pt.name
               PROVE  \E p \in Positions : {e.field, pt.of} \subseteq Holders(p)
    BY DEF MisfiledOnlyIfReused
  <2>1. /\ Traced(uplink) /\ Held(uplink.layout) /\ Held(uplink.schema)
        /\ uplink.layout \subseteq Entry /\ uplink.schema \subseteq Entry
    BY DEF WireInv, Answered, Outcome, Uplink
  <2>2. PICK d \in uplink.layout, c \in uplink.schema :
          d.index = c.index /\ pt.of = d.field /\ pt.name = c.name
    BY <2>1 DEF Traced
  <2>3. c = e
    BY <2>2 DEF Distinct
  <2>4. {e.field, pt.of} \subseteq Holders(e.index) /\ e.index \in Positions
    BY <2>1, <2>2, <2>3 DEF Held, Holders, Entry
  <2>5. QED
    BY <2>4
<1>2. QED
  BY <1>1, WireHolds, PTL

\* A call is published whole or not at all, ThingSpeak's excepted, whichever
\* tables the device and ingestion have, as long as no two fields of ingestion's have
\* one name.
THEOREM CallsArePublishedWhole == Spec => []PublishedWhole
<1>1. WireInv => PublishedWhole
  BY DEF WireInv, Outcome, All, PublishedWhole, Answered
<1>2. QED
  BY <1>1, WireHolds, PTL
=============================================================================
