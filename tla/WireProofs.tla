----------------------------- MODULE WireProofs -----------------------------
(***************************************************************************)
(* Facts about streams of any length: the two recursive functions of        *)
(* WireBytes meet their own equations, and what is whole in a stream stays  *)
(* so in every longer one.                                                  *)
(***************************************************************************)
EXTENDS WireBytes, TLAPS, WellFoundedInduction

-----------------------------------------------------------------------------
(* Induction over positions, as the choice of a least one. *)

Below == {p \in Nat \X Nat : p[1] < p[2]}

LEMMA BelowWellFounded == IsWellFoundedOn(Below, Nat)
<1>1. Below = OpToRel(<, Nat)
    BY DEF Below, OpToRel
<1>2. QED
    BY <1>1, NatLessThanWellFounded, Zenon

LEMMA Least ==
    ASSUME NEW T, T \subseteq Nat, T # {}
    PROVE  \E x \in T : \A y \in T : x <= y
<1>1. PICK x \in T : \A y \in T : ~(<<y, x>> \in Below)
    BY BelowWellFounded, WFMin, Zenon
<1>2. \A y \in T : ~(y < x)
    BY <1>1 DEF Below
<1>3. QED
    BY <1>2

\* What holds at a position when it holds after it holds at all of them.
LEMMA Descend ==
    ASSUME NEW n \in Nat, NEW T,
           \A k \in 1..(n + 1) : (\A i \in (k + 1)..(n + 1) : i \in T) => k \in T
    PROVE  \A i \in 1..(n + 1) : i \in T
<1> DEFINE From == {k \in Nat : k \in 1..(n + 1) /\ \A i \in k..(n + 1) : i \in T}
<1>1. From \subseteq Nat /\ n + 1 \in From
    <2>1. n + 1 \in 1..(n + 1) /\ (n + 1 + 1)..(n + 1) = {}
        OBVIOUS
    <2>2. n + 1 \in T
        BY <2>1
    <2>3. QED
        BY <2>1, <2>2
<1>2. PICK k \in From : \A y \in From : k <= y
    <2> HIDE DEF From
    <2>1. QED
        BY <1>1, Least
<1>3. k \in 1..(n + 1) /\ \A i \in k..(n + 1) : i \in T
    OBVIOUS
<1>4. k = 1
    <2>1. SUFFICES ASSUME k # 1 PROVE FALSE
        OBVIOUS
    <2>2. k - 1 \in 1..(n + 1) /\ \A i \in (k - 1 + 1)..(n + 1) : i \in T
        BY <1>3, <2>1
    <2>3. k - 1 \in T
        BY <2>2
    <2>4. \A i \in (k - 1)..(n + 1) : i \in T
        BY <1>3, <2>3
    <2>5. k - 1 \in From
        BY <2>2, <2>4
    <2>6. k <= k - 1
        <3> HIDE DEF From
        <3>1. QED
            BY <1>2, <2>5
    <2>7. QED
        BY <2>6, <1>3
<1>5. QED
    BY <1>3, <1>4

\* The same the other way round.
LEMMA Ascend ==
    ASSUME NEW n \in Nat, NEW T, 0 \in T, \A k \in 0..(n - 1) : k \in T => k + 1 \in T
    PROVE  \A k \in 0..n : k \in T
<1> DEFINE Not == {k \in Nat : k \in 0..n /\ k \notin T}
<1>1. SUFFICES ASSUME Not # {} PROVE FALSE
    OBVIOUS
<1>2. Not \subseteq Nat
    OBVIOUS
<1>3. PICK k \in Not : \A y \in Not : k <= y
    <2> HIDE DEF Not
    <2>1. QED
        BY <1>1, <1>2, Least
<1>4. k \in 0..n /\ k \notin T
    OBVIOUS
<1>5. k # 0
    BY <1>4
<1>6. k - 1 \in 0..(n - 1) /\ k - 1 \in Nat /\ k - 1 + 1 = k /\ k - 1 \in 0..n
    BY <1>4, <1>5
<1>7. k - 1 \notin T
    BY <1>4, <1>6
<1>8. k - 1 \in Not
    BY <1>6, <1>7
<1>9. k <= k - 1
    <2> HIDE DEF Not
    <2>1. QED
        BY <1>3, <1>8
<1>10. QED
    BY <1>4, <1>9

-----------------------------------------------------------------------------
(* Frames in a stream *)

\* The streams that begin with u.
Longer(u) == {s \in Seq(Nat) : Len(u) <= Len(s) /\ \A i \in 1..Len(u) : s[i] = u[i]}

\* Where a whole frame lies, and that there is something after it to go on from.
LEMMA FrameLies ==
    ASSUME NEW s \in Seq(Nat), NEW i \in 1..(Len(s) + 1), At(s, i) = "frame"
    PROVE  /\ i + 3 <= Len(s) /\ s[i] \in 0..MaxPayload
           /\ FrameEnd(s, i) = i + 3 + s[i]
           /\ FrameEnd(s, i) \in (i + 3)..Len(s)
           /\ FrameEnd(s, i) + 1 \in (i + 4)..(Len(s) + 1)
<1>1. i \in 1..Len(s) /\ i + 3 <= Len(s)
    BY DEF At, HeaderSize
<1>2. s[i] \in Nat
    BY <1>1
<1>3. s[i] <= MaxPayload /\ FrameEnd(s, i) <= Len(s)
    BY <1>1, <1>2, WireAssumption DEF At, HeaderSize, FrameEnd
<1>4. FrameEnd(s, i) = i + 3 + s[i]
    BY <1>1, <1>2, SMTT(60) DEF FrameEnd, HeaderSize
<1>5. QED
    BY <1>1, <1>2, <1>3, <1>4, WireAssumption, SMTT(60)

LEMMA EofAtEnd ==
    ASSUME NEW s \in Seq(Nat)
    PROVE  At(s, Len(s) + 1) = "eof"
BY DEF At

-----------------------------------------------------------------------------
(* The recursive functions meet their equations. *)

FramingsBody(s, f, i) ==
    IF At(s, i) # "frame" THEN [frames |-> <<>>, ending |-> At(s, i)]
    ELSE [frames |-> <<FrameAt(s, i)>> \o f[FrameEnd(s, i) + 1].frames,
          ending |-> f[FrameEnd(s, i) + 1].ending]

ReadingsBody(s, f, i) ==
    IF At(s, i) # "frame" THEN [frames |-> <<>>, ending |-> At(s, i)]
    ELSE IF ZeroAt(s, i) THEN [frames |-> <<>>, ending |-> "streamzero"]
    ELSE IF ~Known(s[i + 1]) THEN f[FrameEnd(s, i) + 1]
    ELSE [frames |-> <<DecodedAt(s, i)>> \o f[FrameEnd(s, i) + 1].frames,
          ending |-> f[FrameEnd(s, i) + 1].ending]

Body(which, s, f, i) == IF which = "frames" THEN FramingsBody(s, f, i) ELSE ReadingsBody(s, f, i)

\* Both look at later positions only.
LEMMA LooksAhead ==
    ASSUME NEW s \in Seq(Nat), NEW i \in 1..(Len(s) + 1), NEW f, NEW g, NEW which,
           \A j \in (i + 1)..(Len(s) + 1) : f[j] = g[j]
    PROVE  Body(which, s, f, i) = Body(which, s, g, i)
<1>1. CASE At(s, i) # "frame"
    BY <1>1 DEF Body, FramingsBody, ReadingsBody
<1>2. CASE At(s, i) = "frame"
    <2>1. FrameEnd(s, i) + 1 \in (i + 1)..(Len(s) + 1)
        BY <1>2, FrameLies
    <2>2. f[FrameEnd(s, i) + 1] = g[FrameEnd(s, i) + 1]
        BY <2>1
    <2>3. QED
        BY <2>2, Zenon DEF Body, FramingsBody, ReadingsBody
<1>3. QED
    BY <1>1, <1>2

LEMMA Solved ==
    ASSUME NEW s \in Seq(Nat), NEW which
    PROVE  \E f : f = [i \in 1..(Len(s) + 1) |-> Body(which, s, f, i)]
<1> DEFINE n == Len(s)
           Good(f, k) == /\ f = [i \in 1..(n + 1) |-> f[i]]
                         /\ \A i \in k..(n + 1) : f[i] = Body(which, s, f, i)
           T == {k \in 1..(n + 1) : \E f : Good(f, k)}
<1>0. n \in Nat
    OBVIOUS
<1>1. n + 1 \in T
    <2> DEFINE f == [i \in 1..(n + 1) |-> Body(which, s, <<>>, i)]
    <2>1. Body(which, s, <<>>, n + 1) = Body(which, s, f, n + 1)
        BY EofAtEnd DEF Body, FramingsBody, ReadingsBody
    <2>2. Good(f, n + 1)
        BY <2>1, <1>0
    <2>3. QED
        <3> HIDE DEF Good, f
        <3>1. QED
            BY <2>2, <1>0
<1>2. ASSUME NEW k \in 1..n, \A i \in (k + 1)..(n + 1) : i \in T
      PROVE  k \in T
    <2>1. k + 1 \in T
        BY <1>0, <1>2, SMTT(60)
    <2>2. PICK f : Good(f, k + 1)
        BY <2>1
    <2> DEFINE g == [i \in 1..(n + 1) |-> IF i = k THEN Body(which, s, f, k) ELSE f[i]]
    <2>3. \A j \in 1..(n + 1) : j # k => g[j] = f[j]
        OBVIOUS
    <2>4. g[k] = Body(which, s, f, k)
        BY <1>0
    <2>5. g = [i \in 1..(n + 1) |-> g[i]]
        OBVIOUS
    <2> HIDE DEF g
    <2>6. \A i \in k..(n + 1) : g[i] = Body(which, s, g, i)
        <3>1. TAKE i \in k..(n + 1)
        <3>2. i \in 1..(n + 1) /\ \A j \in (i + 1)..(n + 1) : f[j] = g[j]
            BY <2>3, <1>0
        <3>3. Body(which, s, f, i) = Body(which, s, g, i)
            BY <3>2, LooksAhead
        <3>4. CASE i = k
            BY <3>4, <3>3, <2>4
        <3>5. CASE i # k
            BY <3>5, <3>3, <2>2, <2>3, <1>0, <3>2
        <3>6. QED
            BY <3>4, <3>5
    <2>7. Good(g, k)
        BY <2>5, <2>6
    <2>8. QED
        <3> HIDE DEF Good
        <3>1. QED
            BY <2>7, <1>0
<1>3. 1 \in T
    <2> HIDE DEF T
    <2>1. \A k \in 1..(n + 1) : (\A i \in (k + 1)..(n + 1) : i \in T) => k \in T
        <3>1. \A k \in 1..(n + 1) : k = n + 1 \/ k \in 1..n
            BY <1>0
        <3>2. QED
            BY <1>1, <1>2, <3>1
    <2>2. \A i \in 1..(n + 1) : i \in T
        BY <1>0, <2>1, Descend
    <2>3. QED
        BY <2>2, <1>0
<1>4. PICK f : Good(f, 1)
    BY <1>3
<1>5. f = [i \in 1..(n + 1) |-> Body(which, s, f, i)]
    BY <1>4
<1>6. QED
    BY <1>5

LEMMA FramingsEquation ==
    ASSUME NEW s \in Seq(Nat), NEW i \in 1..(Len(s) + 1)
    PROVE  Framings(s)[i] = FramingsBody(s, Framings(s), i)
<1> DEFINE P(f) == f = [k \in 1..(Len(s) + 1) |-> FramingsBody(s, f, k)]
<1>1. \E f : P(f)
    <2>1. \E f : f = [k \in 1..(Len(s) + 1) |-> Body("frames", s, f, k)]
        BY Solved
    <2>2. QED
        BY <2>1 DEF Body
<1>2. P(CHOOSE f : P(f))
    <2> HIDE DEF P
    <2>1. QED
        BY <1>1, Zenon
<1>3. Framings(s) = CHOOSE f : P(f)
    BY Zenon DEF Framings, FramingsBody
<1>4. P(Framings(s))
    BY <1>2, <1>3, Zenon
<1>5. QED
    <2> DEFINE F == Framings(s)
    <2>1. F = [k \in 1..(Len(s) + 1) |-> FramingsBody(s, F, k)]
        BY <1>4
    <2> HIDE DEF F
    <2>2. F[i] = FramingsBody(s, F, i)
        BY <2>1
    <2>3. QED
        BY <2>2 DEF F

LEMMA ReadingsEquation ==
    ASSUME NEW s \in Seq(Nat), NEW i \in 1..(Len(s) + 1)
    PROVE  Readings(s)[i] = ReadingsBody(s, Readings(s), i)
<1> DEFINE P(f) == f = [k \in 1..(Len(s) + 1) |-> ReadingsBody(s, f, k)]
<1>1. \E f : P(f)
    <2>1. \E f : f = [k \in 1..(Len(s) + 1) |-> Body("readings", s, f, k)]
        BY Solved
    <2>2. QED
        BY <2>1 DEF Body
<1>2. P(CHOOSE f : P(f))
    <2> HIDE DEF P
    <2>1. QED
        BY <1>1, Zenon
<1>3. Readings(s) = CHOOSE f : P(f)
    BY Zenon DEF Readings, ReadingsBody
<1>4. P(Readings(s))
    BY <1>2, <1>3, Zenon
<1>5. QED
    <2> DEFINE F == Readings(s)
    <2>1. F = [k \in 1..(Len(s) + 1) |-> ReadingsBody(s, F, k)]
        BY <1>4
    <2> HIDE DEF F
    <2>2. F[i] = ReadingsBody(s, F, i)
        BY <2>1
    <2>3. QED
        BY <2>2 DEF F

-----------------------------------------------------------------------------
(* The same, case by case. *)

DecodedFrame == [type : Nat, flags : Nat, stream : Nat, payload : Seq(Nat)]
Endings == {"eof", "truncated", "oversize", "streamzero"}
FramingResult == [frames : Seq(Seq(Nat)), ending : Endings]
ReadingResult == [frames : Seq(DecodedFrame), ending : Endings]

\* What is read after g has been: all of g, then x.
Then(g, x) == [frames |-> g \o x.frames, ending |-> x.ending]

LEMMA DecodedType ==
    ASSUME NEW s \in Seq(Nat), NEW i \in 1..(Len(s) + 1), At(s, i) = "frame"
    PROVE  DecodedAt(s, i) \in DecodedFrame /\ FrameAt(s, i) \in Seq(Nat)
<1>1. /\ i + 3 <= Len(s) /\ FrameEnd(s, i) \in Nat /\ FrameEnd(s, i) <= Len(s)
      /\ i \in Nat /\ i >= 1 /\ i + 4 \in Nat
    BY FrameLies
<1>2. SubSeq(s, i, FrameEnd(s, i)) \in Seq(Nat) /\ SubSeq(s, i + 4, FrameEnd(s, i)) \in Seq(Nat)
    BY <1>1, SMTT(60)
<1>3. SubSeq(s, i, i + 3) = [k \in 1..4 |-> s[i + k - 1]]
    BY <1>1
<1>4. s[i + 1] \in Nat /\ s[i + 2] \in Nat /\ s[i + 3] \in Nat
    BY <1>1, SMTT(60)
<1>5. /\ SubSeq(s, i, i + 3)[2] = s[i + 1]
      /\ SubSeq(s, i, i + 3)[3] = s[i + 2]
      /\ SubSeq(s, i, i + 3)[4] = s[i + 3]
    BY <1>1, <1>3
<1>6. DecodedAt(s, i) = [type |-> s[i + 1], flags |-> s[i + 2], stream |-> s[i + 3],
                         payload |-> SubSeq(s, i + 4, FrameEnd(s, i))]
    <2>1. i + HeaderSize - 1 = i + 3 /\ i + HeaderSize = i + 4
        BY <1>1 DEF HeaderSize
    <2>2. QED
        BY <1>5, <2>1 DEF DecodedAt, Decoded
<1>7. DecodedAt(s, i) \in DecodedFrame
    BY <1>2, <1>4, <1>6 DEF DecodedFrame
<1>8. QED
    BY <1>2, <1>7 DEF FrameAt

LEMMA FramingsType ==
    ASSUME NEW s \in Seq(Nat)
    PROVE  \A i \in 1..(Len(s) + 1) : Framings(s)[i] \in FramingResult
<1> DEFINE T == {i \in 1..(Len(s) + 1) : Framings(s)[i] \in FramingResult}
<1>0. Len(s) \in Nat
    OBVIOUS
<1>1. ASSUME NEW i \in 1..(Len(s) + 1), \A j \in (i + 1)..(Len(s) + 1) : j \in T
      PROVE  i \in T
    <2>1. Framings(s)[i] = FramingsBody(s, Framings(s), i)
        BY FramingsEquation
    <2>2. CASE At(s, i) # "frame"
        <3>1. Framings(s)[i] = [frames |-> <<>>, ending |-> At(s, i)]
            BY <2>1, <2>2 DEF FramingsBody
        <3>2. At(s, i) \in Endings
            BY <2>2 DEF At, Endings
        <3>3. Framings(s)[i] \in FramingResult
            BY <3>1, <3>2 DEF FramingResult
        <3>4. QED
            BY <3>3
    <2>3. CASE At(s, i) = "frame"
        <3>1. PICK x \in FramingResult : x = Framings(s)[FrameEnd(s, i) + 1]
            <4>1. FrameEnd(s, i) + 1 \in (i + 1)..(Len(s) + 1)
                BY <2>3, FrameLies
            <4>2. QED
                BY <4>1, <1>1
        <3>2. Framings(s)[i] = [frames |-> <<FrameAt(s, i)>> \o x.frames, ending |-> x.ending]
            BY <2>1, <2>3, <3>1 DEF FramingsBody
        <3>3. FrameAt(s, i) \in Seq(Nat)
            BY <2>3, DecodedType
        <3>4. x.frames \in Seq(Seq(Nat)) /\ x.ending \in Endings
            BY DEF FramingResult
        <3>5. <<FrameAt(s, i)>> \o x.frames \in Seq(Seq(Nat))
            BY <3>3, <3>4
        <3>6. Framings(s)[i] \in FramingResult
            BY <3>2, <3>4, <3>5 DEF FramingResult
        <3>7. QED
            BY <3>6
    <2>4. QED
        BY <2>2, <2>3
<1>2. \A i \in 1..(Len(s) + 1) : i \in T
    <2> HIDE DEF T
    <2>1. \A i \in 1..(Len(s) + 1) : (\A j \in (i + 1)..(Len(s) + 1) : j \in T) => i \in T
        BY <1>1
    <2>2. QED
        BY <1>0, <2>1, Descend
<1>3. QED
    BY <1>2

LEMMA ReadingsType ==
    ASSUME NEW s \in Seq(Nat)
    PROVE  \A i \in 1..(Len(s) + 1) : Readings(s)[i] \in ReadingResult
<1> DEFINE T == {i \in 1..(Len(s) + 1) : Readings(s)[i] \in ReadingResult}
<1>0. Len(s) \in Nat
    OBVIOUS
<1>1. ASSUME NEW i \in 1..(Len(s) + 1), \A j \in (i + 1)..(Len(s) + 1) : j \in T
      PROVE  i \in T
    <2>1. Readings(s)[i] = ReadingsBody(s, Readings(s), i)
        BY ReadingsEquation
    <2>2. CASE At(s, i) # "frame" \/ ZeroAt(s, i)
        <3>1. PICK e \in Endings : Readings(s)[i] = [frames |-> <<>>, ending |-> e]
            <4>1. At(s, i) # "frame" => At(s, i) \in Endings
                BY DEF At, Endings
            <4>2. "streamzero" \in Endings
                BY DEF Endings
            <4>3. QED
                BY <2>1, <2>2, <4>1, <4>2 DEF ReadingsBody
        <3>2. Readings(s)[i] \in ReadingResult
            BY <3>1 DEF ReadingResult
        <3>3. QED
            BY <3>2
    <2>3. CASE At(s, i) = "frame" /\ ~ZeroAt(s, i)
        <3>1. PICK x \in ReadingResult : x = Readings(s)[FrameEnd(s, i) + 1]
            <4>1. FrameEnd(s, i) + 1 \in (i + 1)..(Len(s) + 1)
                BY <2>3, FrameLies
            <4>2. QED
                BY <4>1, <1>1
        <3>2. \/ Readings(s)[i] = x
              \/ Readings(s)[i] = [frames |-> <<DecodedAt(s, i)>> \o x.frames, ending |-> x.ending]
            BY <2>1, <2>3, <3>1 DEF ReadingsBody
        <3>3. DecodedAt(s, i) \in DecodedFrame
            BY <2>3, DecodedType
        <3>4. x.frames \in Seq(DecodedFrame) /\ x.ending \in Endings
            BY DEF ReadingResult
        <3>5. <<DecodedAt(s, i)>> \o x.frames \in Seq(DecodedFrame)
            BY <3>3, <3>4
        <3>6. [frames |-> <<DecodedAt(s, i)>> \o x.frames, ending |-> x.ending] \in ReadingResult
            BY <3>4, <3>5 DEF ReadingResult
        <3>7. Readings(s)[i] \in ReadingResult
            BY <3>1, <3>2, <3>6
        <3>8. QED
            BY <3>7
    <2>4. QED
        BY <2>2, <2>3
<1>2. \A i \in 1..(Len(s) + 1) : i \in T
    <2> HIDE DEF T
    <2>1. \A i \in 1..(Len(s) + 1) : (\A j \in (i + 1)..(Len(s) + 1) : j \in T) => i \in T
        BY <1>1
    <2>2. QED
        BY <1>0, <2>1, Descend
<1>3. QED
    BY <1>2

LEMMA FramingStops ==
    ASSUME NEW s \in Seq(Nat), NEW i \in 1..(Len(s) + 1), At(s, i) # "frame"
    PROVE  Framings(s)[i] = [frames |-> <<>>, ending |-> At(s, i)]
BY FramingsEquation DEF FramingsBody

LEMMA FramingGoesOn ==
    ASSUME NEW s \in Seq(Nat), NEW i \in 1..(Len(s) + 1), At(s, i) = "frame"
    PROVE  Framings(s)[i] = Then(<<FrameAt(s, i)>>, Framings(s)[FrameEnd(s, i) + 1])
BY FramingsEquation DEF FramingsBody, Then

LEMMA ReadingStops ==
    ASSUME NEW s \in Seq(Nat), NEW i \in 1..(Len(s) + 1), At(s, i) # "frame"
    PROVE  Readings(s)[i] = [frames |-> <<>>, ending |-> At(s, i)]
BY ReadingsEquation DEF ReadingsBody

LEMMA ReadingRefuses ==
    ASSUME NEW s \in Seq(Nat), NEW i \in 1..(Len(s) + 1), At(s, i) = "frame", ZeroAt(s, i)
    PROVE  Readings(s)[i] = [frames |-> <<>>, ending |-> "streamzero"]
BY ReadingsEquation DEF ReadingsBody

LEMMA ReadingSkips ==
    ASSUME NEW s \in Seq(Nat), NEW i \in 1..(Len(s) + 1), At(s, i) = "frame",
           ~ZeroAt(s, i), ~Known(s[i + 1])
    PROVE  Readings(s)[i] = Readings(s)[FrameEnd(s, i) + 1]
BY ReadingsEquation DEF ReadingsBody

LEMMA ReadingGoesOn ==
    ASSUME NEW s \in Seq(Nat), NEW i \in 1..(Len(s) + 1), At(s, i) = "frame",
           ~ZeroAt(s, i), Known(s[i + 1])
    PROVE  Readings(s)[i] = Then(<<DecodedAt(s, i)>>, Readings(s)[FrameEnd(s, i) + 1])
BY ReadingsEquation DEF ReadingsBody, Then

-----------------------------------------------------------------------------
(* One result after another. *)

LEMMA ThenOne ==
    ASSUME NEW S, NEW g \in Seq(S), NEW f \in S, NEW x, x.frames \in Seq(S)
    PROVE  Then(g, Then(<<f>>, x)) = Then(Append(g, f), x)
<1>1. PICK y \in Seq(S) : y = x.frames
    OBVIOUS
<1>2. g \o (<<f>> \o y) = Append(g, f) \o y
    BY SMTT(60)
<1>3. QED
    BY <1>1, <1>2 DEF Then

LEMMA ThenNothing ==
    ASSUME NEW S, NEW g \in Seq(S), NEW e
    PROVE  Then(g, [frames |-> <<>>, ending |-> e]) = [frames |-> g, ending |-> e]
BY DEF Then

LEMMA AfterNothing ==
    ASSUME NEW S, NEW x \in [frames : Seq(S), ending : Endings]
    PROVE  Then(<<>>, x) = x
<1>1. x = [frames |-> x.frames, ending |-> x.ending] /\ x.frames \in Seq(S)
    OBVIOUS
<1>2. <<>> \o x.frames = x.frames
    BY <1>1
<1>3. QED
    BY <1>1, <1>2 DEF Then

LEMMA PrefixOfMore ==
    ASSUME NEW S, NEW g \in Seq(S), NEW rest \in Seq(S), NEW whole, whole = g \o rest
    PROVE  IsPrefix(g, whole)
BY DEF IsPrefix

-----------------------------------------------------------------------------
(* What is whole in a stream is so in every longer one. *)

LEMMA LongerItself ==
    ASSUME NEW u \in Seq(Nat)
    PROVE  u \in Longer(u)
BY DEF Longer

LEMMA LongerLonger ==
    ASSUME NEW u \in Seq(Nat), NEW b \in Seq(Nat), NEW s \in Longer(u \o b)
    PROVE  s \in Longer(u)
<1>1. Len(u \o b) = Len(u) + Len(b) /\ \A i \in 1..Len(u) : (u \o b)[i] = u[i]
    OBVIOUS
<1>2. /\ s \in Seq(Nat) /\ Len(u \o b) <= Len(s)
      /\ \A i \in 1..Len(u \o b) : s[i] = (u \o b)[i]
    BY DEF Longer
<1>3. Len(u) \in Nat /\ Len(b) \in Nat /\ Len(s) \in Nat
    BY <1>2
<1>4. Len(u) <= Len(s)
    BY <1>1, <1>2, <1>3
<1>5. ASSUME NEW i \in 1..Len(u)
      PROVE  s[i] = u[i]
    <2>1. i \in 1..Len(u \o b)
        BY <1>1, <1>3
    <2>2. QED
        BY <1>1, <1>2, <2>1
<1>6. QED
    BY <1>2, <1>4, <1>5 DEF Longer

LEMMA SameSequence ==
    ASSUME NEW S, NEW x \in Seq(S), NEW y \in Seq(S), Len(x) = Len(y), \A k \in 1..Len(x) : x[k] = y[k]
    PROVE  x = y
<1>1. x = [k \in 1..Len(x) |-> x[k]] /\ y = [k \in 1..Len(y) |-> y[k]]
    OBVIOUS
<1>2. QED
    BY <1>1

LEMMA SameCells ==
    ASSUME NEW u \in Seq(Nat), NEW s \in Seq(Nat), NEW a \in Nat, NEW e \in Nat,
           a >= 1, e <= Len(u), e <= Len(s), \A j \in a..e : s[j] = u[j]
    PROVE  SubSeq(s, a, e) = SubSeq(u, a, e)
<1>1. CASE e < a
    BY <1>1
<1>2. CASE a <= e
    <2>1. SubSeq(s, a, e) \in Seq(Nat) /\ SubSeq(u, a, e) \in Seq(Nat)
        BY <1>2, SMTT(60)
    <2>2. Len(SubSeq(s, a, e)) = e - a + 1 /\ Len(SubSeq(u, a, e)) = e - a + 1
        BY <1>2
    <2>3. \A k \in 1..(e - a + 1) : SubSeq(s, a, e)[k] = s[a + k - 1] /\ SubSeq(u, a, e)[k] = u[a + k - 1]
        BY <1>2
    <2>4. \A k \in 1..(e - a + 1) : a + k - 1 \in a..e
        OBVIOUS
    <2>5. \A k \in 1..(e - a + 1) : SubSeq(s, a, e)[k] = SubSeq(u, a, e)[k]
        BY <2>3, <2>4
    <2>6. PICK x \in Seq(Nat), y \in Seq(Nat) : x = SubSeq(s, a, e) /\ y = SubSeq(u, a, e)
        BY <2>1
    <2>7. x = y
        <3>1. Len(x) = e - a + 1 /\ Len(y) = e - a + 1
            BY <2>2, <2>6
        <3>2. \A k \in 1..Len(x) : x[k] = y[k]
            BY <2>5, <2>6, <3>1
        <3>3. QED
            BY <3>1, <3>2, SameSequence
    <2>8. QED
        BY <2>6, <2>7
<1>3. QED
    BY <1>1, <1>2

LEMMA LongerFrame ==
    ASSUME NEW u \in Seq(Nat), NEW s \in Longer(u), NEW i \in 1..(Len(u) + 1), At(u, i) = "frame"
    PROVE  /\ i \in 1..(Len(s) + 1) /\ At(s, i) = "frame"
           /\ FrameEnd(s, i) = FrameEnd(u, i)
           /\ FrameAt(s, i) = FrameAt(u, i) /\ DecodedAt(s, i) = DecodedAt(u, i)
           /\ ZeroAt(s, i) = ZeroAt(u, i) /\ s[i + 1] = u[i + 1]
<1>0. s \in Seq(Nat) /\ Len(u) \in Nat /\ Len(s) \in Nat /\ Len(u) <= Len(s)
    BY DEF Longer
<1>1. \A j \in 1..Len(u) : s[j] = u[j]
    BY DEF Longer
<1>2. /\ i + 3 <= Len(u) /\ u[i] \in 0..MaxPayload
      /\ FrameEnd(u, i) = i + 3 + u[i] /\ FrameEnd(u, i) \in (i + 3)..Len(u)
    BY FrameLies
<1>3. s[i] = u[i] /\ s[i + 1] = u[i + 1] /\ s[i + 3] = u[i + 3]
    <2>1. i \in 1..Len(u) /\ i + 1 \in 1..Len(u) /\ i + 3 \in 1..Len(u)
        BY <1>0, <1>2, SMTT(60)
    <2>2. QED
        BY <1>1, <2>1
<1>4. FrameEnd(s, i) = FrameEnd(u, i)
    BY <1>3 DEF FrameEnd
<1>5. i \in 1..(Len(s) + 1) /\ At(s, i) = "frame"
    <2>1. i \in 1..(Len(s) + 1) /\ i # Len(s) + 1 /\ ~(i + 4 - 1 > Len(s))
        BY <1>0, <1>2, SMTT(60)
    <2>2. ~(s[i] > MaxPayload)
        BY <1>2, <1>3, WireAssumption, SMTT(60)
    <2>3. ~(FrameEnd(s, i) > Len(s))
        BY <1>0, <1>2, <1>4
    <2>4. QED
        BY <2>1, <2>2, <2>3 DEF At, HeaderSize
<1> DEFINE e == FrameEnd(u, i)
<1>5a. e \in Nat /\ e <= Len(u) /\ e <= Len(s) /\ i \in Nat /\ i >= 1
    BY <1>0, <1>2, SMTT(60)
<1> HIDE DEF e
<1>6. SubSeq(s, i, FrameEnd(s, i)) = SubSeq(u, i, FrameEnd(u, i))
    <2>1. i \in Nat /\ i >= 1 /\ \A j \in i..e : j \in 1..Len(u)
        BY <1>0, <1>5a
    <2>2. \A j \in i..e : s[j] = u[j]
        BY <1>1, <2>1
    <2>3. SubSeq(s, i, e) = SubSeq(u, i, e)
        BY <1>0, <1>5a, <2>1, <2>2, SameCells
    <2>4. QED
        BY <1>4, <2>3 DEF e
<1>7. SubSeq(s, i, i + 3) = SubSeq(u, i, i + 3)
    <2>1. /\ i + 3 \in Nat /\ i + 3 <= Len(u) /\ i + 3 <= Len(s)
          /\ \A j \in i..(i + 3) : j \in 1..Len(u)
        BY <1>0, <1>2, SMTT(60)
    <2>2. \A j \in i..(i + 3) : s[j] = u[j]
        BY <1>1, <2>1
    <2>3. QED
        BY <1>0, <1>5a, <2>1, <2>2, SameCells
<1>8. SubSeq(s, i + 4, FrameEnd(s, i)) = SubSeq(u, i + 4, FrameEnd(u, i))
    <2>1. i + 4 \in Nat /\ i + 4 >= 1 /\ \A j \in (i + 4)..e : j \in 1..Len(u)
        BY <1>0, <1>5a
    <2>2. \A j \in (i + 4)..e : s[j] = u[j]
        BY <1>1, <2>1
    <2>3. SubSeq(s, i + 4, e) = SubSeq(u, i + 4, e)
        BY <1>0, <1>5a, <2>1, <2>2, SameCells
    <2>4. QED
        BY <1>4, <2>3 DEF e
<1>9. i + HeaderSize - 1 = i + 3 /\ i + HeaderSize = i + 4
    BY DEF HeaderSize
<1>10. FrameAt(s, i) = FrameAt(u, i) /\ DecodedAt(s, i) = DecodedAt(u, i)
    BY <1>6, <1>7, <1>8, <1>9 DEF FrameAt, DecodedAt
<1>11. QED
    BY <1>3, <1>4, <1>5, <1>10 DEF ZeroAt

LEMMA LongerOversize ==
    ASSUME NEW u \in Seq(Nat), NEW s \in Longer(u), NEW i \in 1..(Len(u) + 1), At(u, i) = "oversize"
    PROVE  i \in 1..(Len(s) + 1) /\ At(s, i) = "oversize"
<1>1. i \in 1..Len(u) /\ i + 3 <= Len(u)
    BY DEF At, HeaderSize
<1>2. u[i] \in Nat /\ s[i] = u[i] /\ Len(u) <= Len(s) /\ s \in Seq(Nat)
    BY <1>1, SMTT(60) DEF Longer
<1>3. u[i] > MaxPayload
    BY <1>1, <1>2, WireAssumption DEF At, HeaderSize
<1>4. QED
    BY <1>1, <1>2, <1>3, WireAssumption, SMTT(60) DEF At, HeaderSize

-----------------------------------------------------------------------------
(* Pieces of a stream: the cells after the first a, up to the b-th. *)

Cut(s, a, b) == SubSeq(s, a + 1, b)

LEMMA CutFacts ==
    ASSUME NEW s \in Seq(Nat), NEW a \in Nat, NEW b \in Nat, a <= b, b <= Len(s)
    PROVE  /\ Cut(s, a, b) \in Seq(Nat) /\ Len(Cut(s, a, b)) = b - a
           /\ \A k \in 1..(b - a) : Cut(s, a, b)[k] = s[a + k]
<1>1. CASE a = b
    BY <1>1 DEF Cut
<1>2. CASE a < b
    <2>1. /\ SubSeq(s, a + 1, b) \in Seq(Nat) /\ Len(SubSeq(s, a + 1, b)) = b - a
          /\ \A k \in 1..(b - a) : SubSeq(s, a + 1, b)[k] = s[a + 1 + k - 1]
        BY <1>2
    <2>2. \A k \in 1..(b - a) : a + 1 + k - 1 = a + k
        OBVIOUS
    <2>3. QED
        BY <2>1, <2>2 DEF Cut
<1>3. QED
    BY <1>1, <1>2

LEMMA CutAll ==
    ASSUME NEW s \in Seq(Nat)
    PROVE  Cut(s, 0, Len(s)) = s
BY DEF Cut

LEMMA CutNone ==
    ASSUME NEW s \in Seq(Nat), NEW a \in Nat, a <= Len(s)
    PROVE  Cut(s, a, a) = <<>>
BY DEF Cut

LEMMA JoinFacts ==
    ASSUME NEW x \in Seq(Nat), NEW y \in Seq(Nat)
    PROVE  /\ x \o y \in Seq(Nat) /\ Len(x \o y) = Len(x) + Len(y)
           /\ \A k \in 1..Len(x) : (x \o y)[k] = x[k]
           /\ \A k \in 1..Len(y) : (x \o y)[Len(x) + k] = y[k]
OBVIOUS

LEMMA CutJoin ==
    ASSUME NEW s \in Seq(Nat), NEW a \in Nat, NEW b \in Nat, NEW c \in Nat,
           a <= b, b <= c, c <= Len(s)
    PROVE  Cut(s, a, b) \o Cut(s, b, c) = Cut(s, a, c)
<1>1. b <= Len(s) /\ a <= c
    OBVIOUS
<1>2. PICK x \in Seq(Nat) : x = Cut(s, a, b) /\ Len(x) = b - a /\ \A k \in 1..(b - a) : x[k] = s[a + k]
    BY <1>1, CutFacts
<1>3. PICK y \in Seq(Nat) : y = Cut(s, b, c) /\ Len(y) = c - b /\ \A k \in 1..(c - b) : y[k] = s[b + k]
    BY <1>1, CutFacts, ZenonT(60)
<1>4. PICK z \in Seq(Nat) : z = Cut(s, a, c) /\ Len(z) = c - a /\ \A k \in 1..(c - a) : z[k] = s[a + k]
    BY <1>1, CutFacts, ZenonT(60)
<1>5. PICK w \in Seq(Nat) : /\ w = x \o y /\ Len(w) = Len(x) + Len(y)
                            /\ \A k \in 1..Len(x) : w[k] = x[k]
                            /\ \A k \in 1..Len(y) : w[Len(x) + k] = y[k]
    BY JoinFacts, ZenonT(60)
<1>6. Len(w) = c - a
    BY <1>2, <1>3, <1>5
<1>7. ASSUME NEW k \in 1..(c - a)
      PROVE  w[k] = z[k]
    <2>1. CASE k <= b - a
        <3>1. k \in 1..(b - a)
            BY <2>1
        <3>2. QED
            BY <3>1, <1>2, <1>4, <1>5
    <2>2. CASE k > b - a
        <3>1. PICK m \in 1..(c - b) : k = (b - a) + m /\ b + m = a + k
            <4>1. k - (b - a) \in 1..(c - b) /\ k = (b - a) + (k - (b - a)) /\ b + (k - (b - a)) = a + k
                BY <2>2
            <4>2. QED
                BY <4>1
        <3>2. w[k] = y[m]
            BY <1>2, <1>3, <1>5, <3>1
        <3>3. y[m] = s[b + m] /\ z[k] = s[a + k]
            BY <1>3, <1>4
        <3>4. QED
            BY <3>1, <3>2, <3>3
    <2>3. QED
        BY <2>1, <2>2
<1>8. w = z
    BY <1>4, <1>6, <1>7, SameSequence
<1>9. QED
    BY <1>2, <1>3, <1>4, <1>5, <1>8

LEMMA CutCut ==
    ASSUME NEW s \in Seq(Nat), NEW a \in Nat, NEW b \in Nat, a <= b, b <= Len(s),
           NEW x \in Nat, NEW y \in Nat, x <= y, y <= b - a
    PROVE  Cut(Cut(s, a, b), x, y) = Cut(s, a + x, a + y)
<1>1. PICK t \in Seq(Nat) : t = Cut(s, a, b) /\ Len(t) = b - a /\ \A k \in 1..(b - a) : t[k] = s[a + k]
    BY CutFacts
<1>2. PICK u \in Seq(Nat) : u = Cut(t, x, y) /\ Len(u) = y - x /\ \A k \in 1..(y - x) : u[k] = t[x + k]
    BY <1>1, CutFacts, ZenonT(60)
<1>3. a + x \in Nat /\ a + y \in Nat /\ a + x <= a + y /\ a + y <= Len(s) /\ (a + y) - (a + x) = y - x
    OBVIOUS
<1>4. PICK v \in Seq(Nat) : /\ v = Cut(s, a + x, a + y) /\ Len(v) = y - x
                            /\ \A k \in 1..(y - x) : v[k] = s[(a + x) + k]
    <2>1. PICK p \in Nat, q \in Nat : p = a + x /\ q = a + y
        BY <1>3
    <2>2. p <= q /\ q <= Len(s) /\ q - p = y - x
        BY <1>3, <2>1
    <2>3. /\ Cut(s, p, q) \in Seq(Nat) /\ Len(Cut(s, p, q)) = q - p
          /\ \A k \in 1..(q - p) : Cut(s, p, q)[k] = s[p + k]
        BY <2>2, CutFacts, ZenonT(60)
    <2>4. QED
        BY <2>1, <2>2, <2>3
<1>5. ASSUME NEW k \in 1..(y - x)
      PROVE  u[k] = v[k]
    <2>1. x + k \in 1..(b - a) /\ a + (x + k) = (a + x) + k
        OBVIOUS
    <2>2. QED
        BY <1>1, <1>2, <1>4, <2>1, ZenonT(60)
<1>6. u = v
    BY <1>2, <1>4, <1>5, SameSequence
<1>7. QED
    BY <1>1, <1>2, <1>4, <1>6

LEMMA JoinIsLonger ==
    ASSUME NEW C \in Seq(Nat), NEW x \in Seq(Nat)
    PROVE  C \o x \in Longer(C) /\ C \o x \in Seq(Nat)
<1>1. /\ C \o x \in Seq(Nat) /\ Len(C \o x) = Len(C) + Len(x)
      /\ \A k \in 1..Len(C) : (C \o x)[k] = C[k]
    BY JoinFacts
<1>2. Len(C) <= Len(C \o x)
    <2>1. Len(C) \in Nat /\ Len(x) \in Nat
        OBVIOUS
    <2>2. QED
        BY <1>1, <2>1
<1>3. QED
    BY <1>1, <1>2 DEF Longer

-----------------------------------------------------------------------------
(* A header that is there, at a. *)

LEMMA HeaderThere ==
    ASSUME NEW s \in Seq(Nat), NEW a \in Nat, a >= 1, a + 3 <= Len(s)
    PROVE  /\ a \in 1..(Len(s) + 1) /\ s[a] \in Nat
           /\ FrameEnd(s, a) = a + 3 + s[a]
           /\ s[a] > MaxPayload => At(s, a) = "oversize"
           /\ s[a] <= MaxPayload /\ a + 3 + s[a] > Len(s) => At(s, a) = "truncated"
           /\ s[a] <= MaxPayload /\ a + 3 + s[a] <= Len(s) => At(s, a) = "frame"
           /\ DecodedAt(s, a) = Decoded(Cut(s, a - 1, a + 3), Cut(s, a + 3, a + 3 + s[a]))
<1>1. a \in 1..(Len(s) + 1) /\ a \in 1..Len(s) /\ s[a] \in Nat /\ Len(s) \in Nat
    OBVIOUS
<1>2. FrameEnd(s, a) = a + 3 + s[a]
    BY <1>1, SMTT(60) DEF FrameEnd, HeaderSize
<1>3. a # Len(s) + 1 /\ ~(a + 4 - 1 > Len(s))
    BY <1>1
<1>4. s[a] > MaxPayload => At(s, a) = "oversize"
    BY <1>3 DEF At, HeaderSize
<1>5. s[a] <= MaxPayload => ~(s[a] > MaxPayload)
    BY <1>1, WireAssumption
<1>6. /\ s[a] <= MaxPayload /\ a + 3 + s[a] > Len(s) => At(s, a) = "truncated"
      /\ s[a] <= MaxPayload /\ a + 3 + s[a] <= Len(s) => At(s, a) = "frame"
    BY <1>1, <1>2, <1>3, <1>5 DEF At, HeaderSize
<1>7. DecodedAt(s, a) = Decoded(Cut(s, a - 1, a + 3), Cut(s, a + 3, a + 3 + s[a]))
    <2>1. a + HeaderSize - 1 = a + 3 /\ a + HeaderSize = a + 3 + 1 /\ a - 1 + 1 = a
        BY DEF HeaderSize
    <2>2. QED
        BY <1>2, <2>1 DEF DecodedAt, Cut
<1>8. QED
    BY <1>1, <1>2, <1>4, <1>6, <1>7

\* A whole frame reads the same when it is cut out of the stream.
LEMMA FrameCutOut ==
    ASSUME NEW s \in Seq(Nat), NEW a \in Nat, NEW b \in Nat, a + 1 \in 1..(Len(s) + 1),
           At(s, a + 1) = "frame", b = FrameEnd(s, a + 1)
    PROVE  /\ DecodedAt(Cut(s, a, b), 1) = DecodedAt(s, a + 1)
           /\ Cut(s, a, b)[2] = s[a + 2]
<1>1. /\ a + 4 <= Len(s) /\ b = a + 4 + s[a + 1] /\ b <= Len(s) /\ s[a + 1] \in Nat /\ b >= a + 4
      /\ Len(s) \in Nat
    <2>1. PICK i \in 1..(Len(s) + 1) : i = a + 1
        OBVIOUS
    <2>2. i + 3 <= Len(s) /\ s[i] \in 0..MaxPayload /\ FrameEnd(s, i) = i + 3 + s[i] /\ FrameEnd(s, i) \in (i + 3)..Len(s)
        BY <2>1, FrameLies
    <2>3. s[i] \in Nat /\ b = i + 3 + s[i] /\ b >= i + 3 /\ b <= Len(s)
        BY <2>1, <2>2, WireAssumption
    <2>4. QED
        BY <2>1, <2>2, <2>3
<1>2. PICK t \in Seq(Nat) : t = Cut(s, a, b) /\ Len(t) = b - a /\ \A k \in 1..(b - a) : t[k] = s[a + k]
    <2>1. a <= b /\ b <= Len(s)
        BY <1>1
    <2>2. QED
        BY <2>1, CutFacts, ZenonT(60)
<1>3. t[1] = s[a + 1] /\ t[2] = s[a + 2] /\ 4 <= b - a
    <2>1. 1 \in 1..(b - a) /\ 2 \in 1..(b - a) /\ 4 <= b - a
        BY <1>1, SMTT(60)
    <2>2. QED
        BY <1>2, <2>1
<1>4. PICK n \in Nat : n = s[a + 1] /\ b = a + 4 + n /\ b - a = 4 + n
    BY <1>1
<1>5. FrameEnd(t, 1) = 4 + n
    BY <1>3, <1>4, SMTT(60) DEF FrameEnd, HeaderSize
<1>6. DecodedAt(t, 1) = Decoded(Cut(t, 0, 4), Cut(t, 4, 4 + n))
    <2>1. 1 + HeaderSize - 1 = 4 /\ 1 + HeaderSize = 4 + 1 /\ 0 + 1 = 1
        BY DEF HeaderSize
    <2>2. QED
        BY <1>5, <2>1 DEF DecodedAt, Cut
<1>7. DecodedAt(s, a + 1) = Decoded(Cut(s, a, a + 4), Cut(s, a + 4, b))
    <2>1. PICK i \in Nat : i = a + 1 /\ i >= 1 /\ i + 3 <= Len(s) /\ i - 1 = a /\ i + 3 = a + 4 /\ i + 3 + s[i] = b
        <3>1. a + 1 \in Nat /\ a + 1 >= 1 /\ a + 1 + 3 = a + 4 /\ a + 1 - 1 = a
            OBVIOUS
        <3>2. QED
            BY <1>1, <3>1
    <2>2. DecodedAt(s, i) = Decoded(Cut(s, i - 1, i + 3), Cut(s, i + 3, i + 3 + s[i]))
        BY <2>1, HeaderThere
    <2>3. QED
        BY <2>1, <2>2
<1>8. Cut(t, 0, 4) = Cut(s, a, a + 4) /\ Cut(t, 4, 4 + n) = Cut(s, a + 4, b)
    <2>1. a <= b /\ b <= Len(s)
        BY <1>1
    <2>2. 0 \in Nat /\ 4 \in Nat /\ 0 <= 4 /\ 4 <= b - a
        BY <1>3
    <2>3. Cut(Cut(s, a, b), 0, 4) = Cut(s, a + 0, a + 4)
        BY <2>1, <2>2, CutCut
    <2>4. PICK m \in Nat : m = 4 + n /\ 4 <= m /\ m <= b - a /\ a + m = b
        BY <1>4
    <2>5. Cut(Cut(s, a, b), 4, m) = Cut(s, a + 4, a + m)
        BY <2>1, <2>2, <2>4, CutCut
    <2>6. a + 0 = a
        OBVIOUS
    <2>7. QED
        BY <1>2, <2>3, <2>4, <2>5, <2>6
<1>9. QED
    BY <1>2, <1>3, <1>6, <1>7, <1>8
=============================================================================
