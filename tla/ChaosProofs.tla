----------------------------- MODULE ChaosProofs -----------------------------
(***************************************************************************)
(* Proofs about the bytes bchaos relays to the client: for every stream of   *)
(* the server, of any length, every noise and every size of the pieces.      *)
(***************************************************************************)
EXTENDS Chaos, WireProofs

-----------------------------------------------------------------------------
(* A stream s of which t cells have been dealt with, and what stands for them *)
(* in the other stream, U.                                                    *)

\* Whatever comes after U is read as if it came after the first t cells of s.
Carries(s, U, t) ==
    \E G \in Seq(DecodedFrame) :
        /\ Meaning(s) = Then(G, Readings(s)[t + 1])
        /\ \A D \in Longer(U) : Meaning(D) = Then(G, Readings(D)[Len(U) + 1])

\* Whatever comes after U is not looked at, and all is told.
Fixed(s, U) == \A D \in Longer(U) : Meaning(D) = Meaning(s)

Good(s, U, t) == Carries(s, U, t) \/ Fixed(s, U)

LEMMA GoodStarts ==
    ASSUME NEW s \in Seq(Nat)
    PROVE  Good(s, <<>>, 0)
<1>1. \A D \in Seq(Nat) : Meaning(D) = Then(<<>>, Readings(D)[1])
    <2>1. SUFFICES ASSUME NEW D \in Seq(Nat) PROVE Meaning(D) = Then(<<>>, Readings(D)[1])
        OBVIOUS
    <2>2. 1 \in 1..(Len(D) + 1)
        OBVIOUS
    <2>3. Readings(D)[1] \in [frames : Seq(DecodedFrame), ending : Endings]
        BY <2>2, ReadingsType DEF ReadingResult
    <2>4. QED
        BY <2>3, AfterNothing DEF Meaning
<1>2. Len(<<>>) = 0 /\ 0 + 1 = 1 /\ <<>> \in Seq(DecodedFrame)
    OBVIOUS
<1>3. Len(<<>>) + 1 = 1
    BY <1>2
<1>4. \A D \in Longer(<<>>) : Meaning(D) = Then(<<>>, Readings(D)[Len(<<>>) + 1])
    BY <1>1, <1>3 DEF Longer
<1>5. QED
    BY <1>1, <1>2, <1>4 DEF Good, Carries

LEMMA FixedMore ==
    ASSUME NEW s, NEW U \in Seq(Nat), NEW x \in Seq(Nat), Fixed(s, U)
    PROVE  Fixed(s, U \o x)
BY LongerLonger DEF Fixed

\* Where x lies in a stream that begins with U and then x.
LEMMA CellsOf ==
    ASSUME NEW U \in Seq(Nat), NEW x \in Seq(Nat), NEW D \in Longer(U \o x)
    PROVE  /\ D \in Seq(Nat) /\ Len(U) + Len(x) <= Len(D) /\ Len(U \o x) = Len(U) + Len(x)
           /\ \A k \in 1..Len(x) : D[Len(U) + k] = x[k]
<1>1. /\ U \o x \in Seq(Nat) /\ Len(U \o x) = Len(U) + Len(x)
      /\ \A k \in 1..Len(x) : (U \o x)[Len(U) + k] = x[k]
    BY JoinFacts
<1>2. D \in Seq(Nat) /\ Len(U \o x) <= Len(D) /\ \A i \in 1..Len(U \o x) : D[i] = (U \o x)[i]
    BY DEF Longer
<1>3. \A k \in 1..Len(x) : Len(U) + k \in 1..Len(U \o x)
    <2>1. PICK a \in Nat, b \in Nat : a = Len(U) /\ b = Len(x)
        OBVIOUS
    <2>2. \A k \in 1..b : a + k \in 1..(a + b)
        OBVIOUS
    <2>3. QED
        BY <1>1, <2>1, <2>2
<1>4. QED
    BY <1>1, <1>2, <1>3

\* x is one whole frame.
OneFrame(x) == x \in Seq(Nat) /\ At(x, 1) = "frame" /\ FrameEnd(x, 1) = Len(x)

LEMMA OneFrameIn ==
    ASSUME NEW U \in Seq(Nat), NEW x, OneFrame(x), NEW D \in Longer(U \o x), NEW i, i = Len(U) + 1
    PROVE  /\ i \in 1..(Len(D) + 1) /\ At(D, i) = "frame"
           /\ FrameEnd(D, i) + 1 = Len(U \o x) + 1
           /\ DecodedAt(D, i) = DecodedAt(x, 1) /\ ZeroAt(D, i) = ZeroAt(x, 1)
           /\ D[i + 1] = x[2]
<1>1. x \in Seq(Nat) /\ At(x, 1) = "frame" /\ FrameEnd(x, 1) = Len(x) /\ 1 \in 1..(Len(x) + 1)
    BY DEF OneFrame
<1>2. /\ D \in Seq(Nat) /\ Len(U) + Len(x) <= Len(D) /\ Len(U \o x) = Len(U) + Len(x)
      /\ \A k \in 1..Len(x) : D[Len(U) + k] = x[k]
    BY <1>1, CellsOf
<1>3. 1 + 3 <= Len(x) /\ x[1] \in 0..MaxPayload /\ FrameEnd(x, 1) = 1 + 3 + x[1]
    BY <1>1, FrameLies
<1>4. PICK a \in Nat, l \in Nat, d \in Nat :
        a = Len(U) /\ l = Len(x) /\ d = Len(D) /\ l >= 4 /\ l = 4 + x[1] /\ a + l <= d
    <2>1. Len(U) \in Nat /\ Len(x) \in Nat /\ Len(D) \in Nat
        BY <1>1, <1>2
    <2>2. Len(x) >= 4 /\ Len(x) = 4 + x[1]
        BY <1>1, <1>3, <2>1, WireAssumption
    <2>3. QED
        BY <1>2, <2>1, <2>2
<1>5. /\ D[a + 1] = x[1] /\ D[a + 2] = x[2] /\ D[a + 4] = x[4]
    <2>1. 1 \in 1..l /\ 2 \in 1..l /\ 4 \in 1..l
        BY <1>4
    <2>2. QED
        BY <1>2, <1>4, <2>1
<1>6. i = a + 1 /\ i \in Nat /\ i >= 1 /\ i + 3 <= d /\ i + 1 = a + 2 /\ i + 3 = a + 4
    BY <1>4
<1>7. x[1] \in Nat /\ x[1] <= MaxPayload /\ i + 3 + x[1] = a + l /\ i + 3 + x[1] <= d
    <2>1. PICK n \in Nat : n = x[1] /\ n <= MaxPayload
        BY <1>3, WireAssumption
    <2>2. l = 4 + n /\ i = a + 1 /\ a + l <= d
        BY <1>4, <1>6, <2>1
    <2>3. i + 3 + n = a + l /\ i + 3 + n <= d
        BY <2>2
    <2>4. QED
        BY <2>1, <2>3
<1>8. /\ i \in 1..(Len(D) + 1) /\ At(D, i) = "frame" /\ FrameEnd(D, i) = a + l
    <2>1. D[i] = x[1] /\ i + 3 <= Len(D)
        BY <1>4, <1>5, <1>6
    <2>2. /\ i \in 1..(Len(D) + 1)
          /\ FrameEnd(D, i) = i + 3 + D[i]
          /\ D[i] <= MaxPayload /\ i + 3 + D[i] <= Len(D) => At(D, i) = "frame"
        BY <1>2, <1>6, <2>1, HeaderThere
    <2>3. QED
        BY <1>4, <1>7, <2>1, <2>2
<1>9. PICK b \in Nat : b = a + l /\ a <= b /\ b <= Len(D) /\ b - a = l
    <2>1. a + l \in Nat /\ a <= a + l /\ a + l <= d /\ (a + l) - a = l
        BY <1>4
    <2>2. QED
        BY <1>4, <2>1
<1>10. Cut(D, a, b) = x
    <2>0. D \in Seq(Nat) /\ a <= b /\ b <= Len(D) /\ b - a = l
        BY <1>2, <1>9
    <2>1. PICK y \in Seq(Nat) : y = Cut(D, a, b) /\ Len(y) = l /\ \A k \in 1..l : y[k] = D[a + k]
        <3>1. /\ Cut(D, a, b) \in Seq(Nat) /\ Len(Cut(D, a, b)) = b - a
              /\ \A k \in 1..(b - a) : Cut(D, a, b)[k] = D[a + k]
            BY <2>0, CutFacts
        <3>2. QED
            BY <2>0, <3>1
    <2>2. Len(y) = Len(x) /\ \A k \in 1..Len(y) : y[k] = x[k]
        <3>1. Len(x) = l /\ \A k \in 1..l : D[a + k] = x[k]
            BY <1>2, <1>4
        <3>2. QED
            BY <2>1, <3>1
    <2>3. y = x
        BY <1>1, <2>1, <2>2, SameSequence
    <2>4. QED
        BY <2>1, <2>3
<1>11. DecodedAt(x, 1) = DecodedAt(D, i)
    <2>1. a + 1 \in 1..(Len(D) + 1) /\ At(D, a + 1) = "frame" /\ b = FrameEnd(D, a + 1)
        BY <1>6, <1>8, <1>9
    <2>2. DecodedAt(Cut(D, a, b), 1) = DecodedAt(D, a + 1)
        BY <1>2, <2>1, FrameCutOut
    <2>3. QED
        BY <1>6, <1>10, <2>2
<1>12. ZeroAt(D, i) = ZeroAt(x, 1)
    <2>1. D[i + 1] = x[1 + 1] /\ D[i + 3] = x[1 + 3]
        BY <1>5, <1>6
    <2>2. QED
        BY <2>1, Zenon DEF ZeroAt
<1>13. QED
    BY <1>2, <1>4, <1>5, <1>6, <1>8, <1>11, <1>12

\* Noise goes by unnoticed.
LEMMA NoiseCarries ==
    ASSUME NEW s, NEW U \in Seq(Nat), NEW t, Good(s, U, t), NEW x, OneFrame(x), ~Known(x[2])
    PROVE  Good(s, U \o x, t)
<1>1. x \in Seq(Nat)
    BY DEF OneFrame
<1>2. CASE Fixed(s, U)
    BY <1>1, <1>2, FixedMore DEF Good
<1>3. CASE Carries(s, U, t)
    <2>1. PICK G \in Seq(DecodedFrame) :
            /\ Meaning(s) = Then(G, Readings(s)[t + 1])
            /\ \A D \in Longer(U) : Meaning(D) = Then(G, Readings(D)[Len(U) + 1])
        BY <1>3 DEF Carries
    <2>2. ASSUME NEW D \in Longer(U \o x)
          PROVE  Meaning(D) = Then(G, Readings(D)[Len(U \o x) + 1])
        <3>1. PICK i : i = Len(U) + 1
            OBVIOUS
        <3>2. /\ i \in 1..(Len(D) + 1) /\ At(D, i) = "frame"
              /\ FrameEnd(D, i) + 1 = Len(U \o x) + 1
              /\ D[i + 1] = x[2]
            BY <3>1, OneFrameIn
        <3>3. ~Known(D[i + 1]) /\ ~ZeroAt(D, i) /\ D \in Seq(Nat)
            BY <3>2, SMTT(60) DEF ZeroAt, Known, NeedsStreamID, Longer
        <3>4. Readings(D)[i] = Readings(D)[Len(U \o x) + 1]
            <4>1. Readings(D)[i] = Readings(D)[FrameEnd(D, i) + 1]
                BY <3>2, <3>3, ReadingSkips
            <4>2. QED
                BY <3>2, <4>1
        <3>5. D \in Longer(U)
            BY <1>1, LongerLonger
        <3>6. QED
            BY <2>1, <3>1, <3>4, <3>5
    <2>3. QED
        BY <2>1, <2>2 DEF Good, Carries
<1>4. QED
    BY <1>2, <1>3 DEF Good

\* A frame cut out of a stream.
LEMMA OneFrameOf ==
    ASSUME NEW s \in Seq(Nat), NEW p \in Nat, NEW e \in Nat, p + 1 \in 1..(Len(s) + 1),
           At(s, p + 1) = "frame", e = FrameEnd(s, p + 1)
    PROVE  /\ OneFrame(Cut(s, p, e)) /\ e <= Len(s)
           /\ DecodedAt(Cut(s, p, e), 1) = DecodedAt(s, p + 1)
           /\ ZeroAt(Cut(s, p, e), 1) = ZeroAt(s, p + 1)
           /\ Cut(s, p, e)[2] = s[p + 2]
<1>1. PICK i \in 1..(Len(s) + 1) : i = p + 1
    OBVIOUS
<1>2. i + 3 <= Len(s) /\ s[i] \in 0..MaxPayload /\ FrameEnd(s, i) = i + 3 + s[i] /\ FrameEnd(s, i) \in (i + 3)..Len(s)
    BY <1>1, FrameLies
<1>3. PICK n \in Nat : n = s[p + 1] /\ n <= MaxPayload /\ e = p + 4 + n /\ e <= Len(s) /\ p <= e /\ e - p = 4 + n
    <2>1. PICK n \in Nat : n = s[p + 1] /\ n <= MaxPayload
        BY <1>1, <1>2, WireAssumption
    <2>2. e = i + 3 + n /\ e \in (i + 3)..Len(s)
        BY <1>1, <1>2, <2>1
    <2>3. e = p + 4 + n /\ e <= Len(s) /\ p <= e /\ e - p = 4 + n
        BY <1>1, <2>2, SMTT(60)
    <2>4. QED
        BY <2>1, <2>3
<1>4. PICK x \in Seq(Nat) : x = Cut(s, p, e) /\ Len(x) = 4 + n /\ \A k \in 1..(4 + n) : x[k] = s[p + k]
    <2>1. /\ Cut(s, p, e) \in Seq(Nat) /\ Len(Cut(s, p, e)) = e - p
          /\ \A k \in 1..(e - p) : Cut(s, p, e)[k] = s[p + k]
        BY <1>3, CutFacts
    <2>2. QED
        BY <1>3, <2>1
<1>5. x[1] = n /\ x[2] = s[p + 2] /\ x[4] = s[p + 4]
    <2>1. 1 \in 1..(4 + n) /\ 2 \in 1..(4 + n) /\ 4 \in 1..(4 + n)
        OBVIOUS
    <2>2. QED
        BY <1>3, <1>4, <2>1
<1>6. At(x, 1) = "frame" /\ FrameEnd(x, 1) = Len(x)
    <2>1. 1 \in Nat /\ 1 >= 1 /\ 1 + 3 <= Len(x) /\ 1 + 3 + n <= Len(x) /\ 1 + 3 + n = Len(x)
        BY <1>4
    <2>2. /\ FrameEnd(x, 1) = 1 + 3 + x[1]
          /\ x[1] <= MaxPayload /\ 1 + 3 + x[1] <= Len(x) => At(x, 1) = "frame"
        BY <2>1, HeaderThere
    <2>3. QED
        BY <1>3, <1>5, <2>1, <2>2
<1>7. DecodedAt(x, 1) = DecodedAt(s, p + 1)
    BY <1>4, FrameCutOut
<1>8. ZeroAt(x, 1) = ZeroAt(s, p + 1)
    <2>1. x[1 + 1] = s[p + 1 + 1] /\ x[1 + 3] = s[p + 1 + 3]
        BY <1>5
    <2>2. QED
        BY <2>1, Zenon DEF ZeroAt
<1>9. QED
    BY <1>3, <1>4, <1>5, <1>6, <1>7, <1>8 DEF OneFrame

\* The frame the pump sends on means the same behind U.
LEMMA FrameCarries ==
    ASSUME NEW s \in Seq(Nat), NEW U \in Seq(Nat), NEW p \in Nat, NEW e \in Nat,
           p + 1 \in 1..(Len(s) + 1), At(s, p + 1) = "frame", e = FrameEnd(s, p + 1), Good(s, U, p)
    PROVE  Good(s, U \o Cut(s, p, e), e)
<1>1. PICK x \in Seq(Nat) :
        /\ x = Cut(s, p, e) /\ OneFrame(x) /\ DecodedAt(x, 1) = DecodedAt(s, p + 1)
        /\ ZeroAt(x, 1) = ZeroAt(s, p + 1) /\ x[2] = s[p + 2]
    BY OneFrameOf DEF OneFrame
<1>2. CASE Fixed(s, U)
    BY <1>1, <1>2, FixedMore DEF Good
<1>3. CASE Carries(s, U, p)
    <2>1. PICK G \in Seq(DecodedFrame) :
            /\ Meaning(s) = Then(G, Readings(s)[p + 1])
            /\ \A D \in Longer(U) : Meaning(D) = Then(G, Readings(D)[Len(U) + 1])
        BY <1>3 DEF Carries
    <2>2. ASSUME NEW D \in Longer(U \o x)
          PROVE  \E i :
                 /\ i = Len(U) + 1 /\ D \in Seq(Nat) /\ Meaning(D) = Then(G, Readings(D)[i])
                 /\ i \in 1..(Len(D) + 1) /\ At(D, i) = "frame"
                 /\ FrameEnd(D, i) + 1 = Len(U \o x) + 1
                 /\ DecodedAt(D, i) = DecodedAt(s, p + 1) /\ ZeroAt(D, i) = ZeroAt(s, p + 1)
                 /\ D[i + 1] = s[p + 2]
        <3>1. D \in Longer(U) /\ D \in Seq(Nat)
            BY LongerLonger DEF Longer
        <3>2. PICK i : i = Len(U) + 1
            OBVIOUS
        <3>3. /\ i \in 1..(Len(D) + 1) /\ At(D, i) = "frame"
              /\ FrameEnd(D, i) + 1 = Len(U \o x) + 1
              /\ DecodedAt(D, i) = DecodedAt(x, 1) /\ ZeroAt(D, i) = ZeroAt(x, 1)
              /\ D[i + 1] = x[2]
            <4>1. OneFrame(x)
                BY <1>1
            <4>2. QED
                BY <3>2, <4>1, OneFrameIn, SMTT(60)
        <3>4. Meaning(D) = Then(G, Readings(D)[i])
            BY <2>1, <3>1, <3>2
        <3>5. DecodedAt(D, i) = DecodedAt(s, p + 1) /\ D[i + 1] = s[p + 2]
            BY <1>1, <3>3
        <3>6. ZeroAt(D, i) = ZeroAt(s, p + 1)
            BY <1>1, <3>3, Zenon
        <3>7. QED
            BY <3>1, <3>2, <3>3, <3>4, <3>5, <3>6, Zenon
    <2>3. p + 1 + 1 = p + 2
        OBVIOUS
    <2>4. CASE ZeroAt(s, p + 1)
        <3>1. PICK z : z = [frames |-> <<>>, ending |-> "streamzero"]
            OBVIOUS
        <3>2. Readings(s)[p + 1] = z
            BY <2>4, <3>1, ReadingRefuses
        <3>3. ASSUME NEW D \in Longer(U \o x)
              PROVE  Meaning(D) = Meaning(s)
            <4>1. PICK i : /\ i = Len(U) + 1 /\ D \in Seq(Nat) /\ Meaning(D) = Then(G, Readings(D)[i])
                          /\ i \in 1..(Len(D) + 1) /\ At(D, i) = "frame" /\ ZeroAt(D, i)
                BY <2>2, <2>4
            <4>2. Readings(D)[i] = z
                BY <3>1, <4>1, ReadingRefuses
            <4>3. QED
                BY <2>1, <3>2, <4>1, <4>2
        <3>4. QED
            BY <1>1, <3>3 DEF Good, Fixed
    <2>5. CASE ~ZeroAt(s, p + 1) /\ ~Known(s[p + 2])
        <3>1. Readings(s)[p + 1] = Readings(s)[e + 1]
            BY <2>3, <2>5, ReadingSkips
        <3>2. ASSUME NEW D \in Longer(U \o x)
              PROVE  Meaning(D) = Then(G, Readings(D)[Len(U \o x) + 1])
            <4>1. PICK i : /\ i = Len(U) + 1 /\ D \in Seq(Nat) /\ Meaning(D) = Then(G, Readings(D)[i])
                          /\ i \in 1..(Len(D) + 1) /\ At(D, i) = "frame" /\ ~ZeroAt(D, i) /\ ~Known(D[i + 1])
                          /\ FrameEnd(D, i) + 1 = Len(U \o x) + 1
                BY <2>2, <2>5
            <4>2. Readings(D)[i] = Readings(D)[FrameEnd(D, i) + 1]
                BY <4>1, ReadingSkips
            <4>3. QED
                BY <4>1, <4>2
        <3>3. Meaning(s) = Then(G, Readings(s)[e + 1])
            BY <2>1, <3>1
        <3>4. QED
            BY <1>1, <3>2, <3>3 DEF Good, Carries
    <2>6. CASE ~ZeroAt(s, p + 1) /\ Known(s[p + 2])
        <3>1. PICK f \in DecodedFrame : f = DecodedAt(s, p + 1)
            BY DecodedType
        <3>2. PICK H \in Seq(DecodedFrame) : H = Append(G, f)
            <4>1. Append(G, f) \in Seq(DecodedFrame)
                OBVIOUS
            <4>2. QED
                BY <4>1
        <3>3. ASSUME NEW D \in Seq(Nat), NEW i \in 1..(Len(D) + 1), At(D, i) = "frame", ~ZeroAt(D, i),
                     Known(D[i + 1]), DecodedAt(D, i) = f
              PROVE  Then(G, Readings(D)[i]) = Then(H, Readings(D)[FrameEnd(D, i) + 1])
            <4>1. PICK j \in 1..(Len(D) + 1) : j = FrameEnd(D, i) + 1
                <5>1. FrameEnd(D, i) + 1 \in (i + 4)..(Len(D) + 1)
                    BY <3>3, FrameLies
                <5>2. QED
                    BY <5>1
            <4>2. PICK r : r = Readings(D)[j] /\ r.frames \in Seq(DecodedFrame)
                BY ReadingsType DEF ReadingResult
            <4>3. Readings(D)[i] = Then(<<f>>, r)
                BY <3>3, <4>1, <4>2, ReadingGoesOn
            <4>4. Then(G, Then(<<f>>, r)) = Then(Append(G, f), r)
                BY <4>2, ThenOne
            <4>5. QED
                BY <3>2, <4>1, <4>2, <4>3, <4>4
        <3>4. Meaning(s) = Then(H, Readings(s)[e + 1])
            BY <2>1, <2>3, <2>6, <3>1, <3>3
        <3>5. ASSUME NEW D \in Longer(U \o x)
              PROVE  Meaning(D) = Then(H, Readings(D)[Len(U \o x) + 1])
            <4>1. PICK i : /\ D \in Seq(Nat) /\ Meaning(D) = Then(G, Readings(D)[i])
                          /\ i \in 1..(Len(D) + 1) /\ At(D, i) = "frame" /\ ~ZeroAt(D, i) /\ Known(D[i + 1])
                          /\ DecodedAt(D, i) = f /\ FrameEnd(D, i) + 1 = Len(U \o x) + 1
                BY <2>2, <2>6, <3>1
            <4>2. Then(G, Readings(D)[i]) = Then(H, Readings(D)[FrameEnd(D, i) + 1])
                BY <3>3, <4>1
            <4>3. QED
                BY <4>1, <4>2
        <3>6. QED
            BY <1>1, <3>4, <3>5 DEF Good, Carries
    <2>7. QED
        BY <2>4, <2>5, <2>6
<1>4. QED
    BY <1>2, <1>3 DEF Good

\* A length nobody accepts is one behind U too, and ends what is read there.
LEMMA OversizeFixes ==
    ASSUME NEW s \in Seq(Nat), NEW U \in Seq(Nat), NEW p \in Nat, NEW e \in Nat, e = p + 4, e <= Len(s),
           s[p + 1] > MaxPayload, Good(s, U, p)
    PROVE  Fixed(s, U \o Cut(s, p, e))
<1>1. PICK x \in Seq(Nat) : x = Cut(s, p, e) /\ Len(x) = 4 /\ x[1] = s[p + 1]
    <2>1. p <= e /\ e - p = 4 /\ 1 \in 1..4
        OBVIOUS
    <2>2. /\ Cut(s, p, e) \in Seq(Nat) /\ Len(Cut(s, p, e)) = e - p
          /\ \A k \in 1..(e - p) : Cut(s, p, e)[k] = s[p + k]
        BY <2>1, CutFacts
    <2>3. QED
        BY <2>1, <2>2
<1>2. CASE Fixed(s, U)
    BY <1>1, <1>2, FixedMore
<1>3. CASE Carries(s, U, p)
    <2>1. PICK G \in Seq(DecodedFrame) :
            /\ Meaning(s) = Then(G, Readings(s)[p + 1])
            /\ \A D \in Longer(U) : Meaning(D) = Then(G, Readings(D)[Len(U) + 1])
        BY <1>3 DEF Carries
    <2>2. PICK z : z = [frames |-> <<>>, ending |-> "oversize"]
        OBVIOUS
    <2>3. ASSUME NEW D \in Seq(Nat), NEW i \in Nat, i >= 1, i + 3 <= Len(D), D[i] > MaxPayload
          PROVE  Readings(D)[i] = z
        <3>1. i \in 1..(Len(D) + 1) /\ At(D, i) = "oversize"
            BY <2>3, HeaderThere
        <3>2. QED
            BY <2>2, <3>1, ReadingStops
    <2>4. Readings(s)[p + 1] = z
        <3>1. p + 1 \in Nat /\ p + 1 >= 1 /\ p + 1 + 3 <= Len(s)
            OBVIOUS
        <3>2. QED
            BY <2>3, <3>1
    <2>5. ASSUME NEW D \in Longer(U \o x)
          PROVE  Meaning(D) = Meaning(s)
        <3>1. /\ D \in Seq(Nat) /\ Len(U) + Len(x) <= Len(D)
              /\ \A k \in 1..Len(x) : D[Len(U) + k] = x[k]
            BY CellsOf
        <3>2. PICK a \in Nat : a = Len(U) /\ a + 4 <= Len(D) /\ D[a + 1] = s[p + 1]
            <4>1. Len(U) \in Nat /\ 1 \in 1..4
                OBVIOUS
            <4>2. QED
                BY <1>1, <3>1, <4>1
        <3>3. a + 1 \in Nat /\ a + 1 >= 1 /\ a + 1 + 3 <= Len(D)
            BY <3>1, <3>2, SMTT(60)
        <3>4. Readings(D)[a + 1] = z
            <4>1. D[a + 1] > MaxPayload
                BY <3>2
            <4>2. PICK j \in Nat : j = a + 1 /\ j >= 1 /\ j + 3 <= Len(D) /\ D[j] > MaxPayload
                BY <3>3, <4>1
            <4>3. Readings(D)[j] = z
                BY <2>3, <3>1, <4>2
            <4>4. QED
                BY <4>2, <4>3
        <3>5. D \in Longer(U)
            BY LongerLonger
        <3>6. QED
            BY <2>1, <2>4, <3>2, <3>4, <3>5
    <2>6. QED
        BY <1>1, <2>5 DEF Fixed
<1>4. QED
    BY <1>2, <1>3 DEF Good

LEMMA StopsAt ==
    ASSUME NEW s \in Seq(Nat), NEW U \in Seq(Nat), NEW t \in Nat, t + 1 \in 1..(Len(s) + 1),
           At(s, t + 1) # "frame", Carries(s, U, t)
    PROVE  Meaning(s).ending = At(s, t + 1)
           /\ (At(s, t + 1) = "eof" => Meaning(U) = Meaning(s))
<1>1. PICK G \in Seq(DecodedFrame) :
        /\ Meaning(s) = Then(G, Readings(s)[t + 1])
        /\ \A D \in Longer(U) : Meaning(D) = Then(G, Readings(D)[Len(U) + 1])
    BY DEF Carries
<1>2. Readings(s)[t + 1] = [frames |-> <<>>, ending |-> At(s, t + 1)]
    BY ReadingStops
<1>3. Meaning(s).ending = At(s, t + 1)
    BY <1>1, <1>2 DEF Then
<1>4. ASSUME At(s, t + 1) = "eof"
      PROVE  Meaning(U) = Meaning(s)
    <2>1. U \in Longer(U)
        BY LongerItself
    <2>2. PICK i \in 1..(Len(U) + 1) : i = Len(U) + 1
        BY SMTT(60)
    <2>3. At(U, i) = "eof"
        BY <2>2, EofAtEnd
    <2>4. Readings(U)[i] = [frames |-> <<>>, ending |-> "eof"]
        BY <2>3, ReadingStops
    <2>5. QED
        BY <1>1, <1>2, <1>4, <2>1, <2>2, <2>4
<1>5. QED
    BY <1>3, <1>4

\* Less is read of less.
LEMMA ReadingsGrow ==
    ASSUME NEW u \in Seq(Nat), NEW D \in Longer(u)
    PROVE  \E rest \in Seq(DecodedFrame) : Meaning(D).frames = Meaning(u).frames \o rest
<1> DEFINE More(i) == \E rest \in Seq(DecodedFrame) : Readings(D)[i].frames = Readings(u)[i].frames \o rest
           T == {i \in 1..(Len(u) + 1) : More(i)}
<1>1. D \in Seq(Nat) /\ Len(u) \in Nat /\ Len(D) \in Nat /\ Len(u) <= Len(D)
    BY DEF Longer
<1>2. \A i \in 1..(Len(u) + 1) : i \in 1..(Len(D) + 1)
    BY <1>1
<1>3. \A i \in 1..(Len(u) + 1) : /\ Readings(u)[i].frames \in Seq(DecodedFrame)
                                  /\ Readings(D)[i].frames \in Seq(DecodedFrame)
    BY <1>1, <1>2, ReadingsType DEF ReadingResult
<1>4. ASSUME NEW i \in 1..(Len(u) + 1), \A j \in (i + 1)..(Len(u) + 1) : j \in T
      PROVE  More(i)
    <2>1. <<>> \in Seq(DecodedFrame) /\ \A x \in Seq(DecodedFrame) : <<>> \o x = x /\ x \o <<>> = x
        OBVIOUS
    <2>2. CASE At(u, i) # "frame"
        <3>1. Readings(u)[i].frames = <<>>
            <4>1. Readings(u)[i] = [frames |-> <<>>, ending |-> At(u, i)]
                BY <2>2, ReadingStops
            <4>2. QED
                BY <4>1
        <3>2. QED
            BY <1>3, <2>1, <3>1
    <2>3. CASE At(u, i) = "frame"
        <3>1. /\ At(D, i) = "frame" /\ FrameEnd(D, i) = FrameEnd(u, i) /\ DecodedAt(D, i) = DecodedAt(u, i)
              /\ ZeroAt(D, i) = ZeroAt(u, i) /\ D[i + 1] = u[i + 1]
            BY <2>3, LongerFrame
        <3>2. PICK j \in 1..(Len(u) + 1) : j = FrameEnd(u, i) + 1 /\ j \in T
            <4>1. FrameEnd(u, i) + 1 \in (i + 4)..(Len(u) + 1)
                BY <2>3, FrameLies
            <4>2. FrameEnd(u, i) + 1 \in (i + 1)..(Len(u) + 1)
                BY <4>1
            <4>3. QED
                BY <1>4, <4>2
        <3>3. PICK rest \in Seq(DecodedFrame) : Readings(D)[j].frames = Readings(u)[j].frames \o rest
            BY <3>2
        <3>4. CASE ZeroAt(u, i)
            <4>1. Readings(u)[i].frames = <<>> /\ Readings(D)[i].frames = <<>>
                <5>1. Readings(u)[i] = [frames |-> <<>>, ending |-> "streamzero"]
                    BY <2>3, <3>4, ReadingRefuses
                <5>2. ZeroAt(D, i) /\ At(D, i) = "frame" /\ D \in Seq(Nat) /\ i \in 1..(Len(D) + 1)
                    BY <1>1, <1>2, <3>1, <3>4
                <5>3. Readings(D)[i] = [frames |-> <<>>, ending |-> "streamzero"]
                    BY <5>2, ReadingRefuses
                <5>4. QED
                    BY <5>1, <5>3
            <4>2. QED
                BY <2>1, <4>1
        <3>5. CASE ~ZeroAt(u, i) /\ ~Known(u[i + 1])
            <4>1. Readings(u)[i] = Readings(u)[j] /\ Readings(D)[i] = Readings(D)[j]
                BY <1>1, <1>2, <2>3, <3>1, <3>2, <3>5, ReadingSkips, SMTT(60)
            <4>2. QED
                BY <3>3, <4>1
        <3>6. CASE ~ZeroAt(u, i) /\ Known(u[i + 1])
            <4>1. PICK f \in DecodedFrame : f = DecodedAt(u, i)
                BY <2>3, DecodedType
            <4>2. PICK x \in Seq(DecodedFrame), y \in Seq(DecodedFrame) :
                    x = Readings(u)[j].frames /\ y = Readings(D)[j].frames /\ y = x \o rest
                BY <1>3, <3>3
            <4>3. Readings(u)[i] = Then(<<f>>, Readings(u)[j])
                BY <2>3, <3>2, <3>6, <4>1, ReadingGoesOn
            <4>4. Readings(D)[i] = Then(<<f>>, Readings(D)[j])
                BY <1>1, <1>2, <3>1, <3>2, <3>6, <4>1, ReadingGoesOn
            <4>5. Readings(u)[i].frames = <<f>> \o x /\ Readings(D)[i].frames = <<f>> \o y
                <5>1. \A r : Then(<<f>>, r).frames = <<f>> \o r.frames
                    BY DEF Then
                <5>2. QED
                    BY <4>2, <4>3, <4>4, <5>1
            <4>6. <<f>> \o (x \o rest) = (<<f>> \o x) \o rest
                BY SMTT(60)
            <4>7. QED
                BY <4>2, <4>5, <4>6
        <3>7. QED
            BY <3>4, <3>5, <3>6
    <2>4. QED
        BY <2>2, <2>3
<1>5. 1 \in T
    <2> HIDE DEF More
    <2>1. \A k \in 1..(Len(u) + 1) : (\A i \in (k + 1)..(Len(u) + 1) : i \in T) => k \in T
        BY <1>4
    <2> HIDE DEF T
    <2>2. \A i \in 1..(Len(u) + 1) : i \in T
        BY <1>1, <2>1, Descend
    <2>3. QED
        BY <1>1, <2>2
<1>6. QED
    BY <1>5 DEF Meaning

\* What has been sent of U is read as a beginning of what s means.
LEMMA GoodPrefix ==
    ASSUME NEW s \in Seq(Nat), NEW u \in Seq(Nat), NEW x \in Seq(Nat), NEW t \in Nat,
           t + 1 \in 1..(Len(s) + 1), Good(s, u \o x, t)
    PROVE  IsPrefix(Meaning(u).frames, Meaning(s).frames)
<1>1. PICK U \in Longer(u) : U = u \o x /\ U \in Seq(Nat)
    BY JoinIsLonger
<1>2. U \in Longer(U)
    BY <1>1, LongerItself
<1>3. /\ Meaning(u).frames \in Seq(DecodedFrame) /\ Meaning(U).frames \in Seq(DecodedFrame)
    <2>1. 1 \in 1..(Len(u) + 1) /\ 1 \in 1..(Len(U) + 1)
        BY <1>1
    <2>2. QED
        BY <1>1, <2>1, ReadingsType DEF Meaning, ReadingResult
<1>4. PICK a \in Seq(DecodedFrame) : Meaning(U).frames = Meaning(u).frames \o a
    BY <1>1, ReadingsGrow
<1>5. PICK b \in Seq(DecodedFrame) : Meaning(s).frames = Meaning(U).frames \o b
    <2>1. CASE Fixed(s, U)
        <3>1. <<>> \in Seq(DecodedFrame) /\ Meaning(U).frames \o <<>> = Meaning(U).frames
            BY <1>3
        <3>2. Meaning(U) = Meaning(s)
            BY <1>2, <2>1 DEF Fixed
        <3>3. QED
            BY <3>1, <3>2
    <2>2. CASE Carries(s, U, t)
        <3>1. PICK G \in Seq(DecodedFrame) :
                /\ Meaning(s) = Then(G, Readings(s)[t + 1])
                /\ Meaning(U) = Then(G, Readings(U)[Len(U) + 1])
            BY <1>2, <2>2 DEF Carries
        <3>2. PICK b \in Seq(DecodedFrame) : b = Readings(s)[t + 1].frames
            BY ReadingsType DEF ReadingResult
        <3>3. Readings(U)[Len(U) + 1].frames = <<>>
            <4>1. PICK i \in 1..(Len(U) + 1) : i = Len(U) + 1
                <5>1. Len(U) \in Nat
                    BY <1>1
                <5>2. Len(U) + 1 \in 1..(Len(U) + 1)
                    BY <5>1
                <5>3. QED
                    BY <5>2
            <4>2. At(U, i) = "eof"
                BY <1>1, <4>1, EofAtEnd
            <4>3. Readings(U)[i] = [frames |-> <<>>, ending |-> "eof"]
                BY <1>1, <4>2, ReadingStops
            <4>4. QED
                BY <4>1, <4>3
        <3>4. Meaning(U).frames = G \o <<>> /\ Meaning(s).frames = G \o b
            BY <3>1, <3>2, <3>3, SMTT(60) DEF Then
        <3>5. G \o <<>> = G
            OBVIOUS
        <3>6. QED
            BY <3>4, <3>5
    <2>3. QED
        BY <1>1, <2>1, <2>2 DEF Good
<1>6. PICK m \in Seq(DecodedFrame) : m = Meaning(u).frames
    BY <1>3
<1>7. PICK c \in Seq(DecodedFrame) : c = a \o b
    <2>1. a \o b \in Seq(DecodedFrame)
        OBVIOUS
    <2>2. QED
        BY <2>1
<1>8. (m \o a) \o b = m \o (a \o b)
    BY SMTT(60)
<1>9. Meaning(s).frames = m \o c
    BY <1>4, <1>5, <1>6, <1>7, <1>8
<1>10. QED
    BY <1>6, <1>9, PrefixOfMore

-----------------------------------------------------------------------------
(* The pump.  W is what will have been written when send returns. *)

\* The header of the frame after p cells has been read, and then all of it.
InBody(s, W, t, h) ==
    \E p \in Nat : p + 4 = t /\ h = Cut(s, p, t) /\ s[p + 1] <= MaxPayload /\ Good(s, W, p)
InFrame(s, W, t, x) ==
    \E p \in Nat :
        /\ p + 1 \in 1..(Len(s) + 1) /\ At(s, p + 1) = "frame" /\ FrameEnd(s, p + 1) = t
        /\ x = Cut(s, p, t) /\ Good(s, W, p)

Carried(c, s, W, t, h, x) ==
    /\ c \in {"backlog", "dial", "header", "framesend", "noiseend", "endsend"} => Good(s, W, t)
    /\ c = "body" => InBody(s, W, t, h)
    /\ c \in {"noise", "noisesend", "frame"} => InFrame(s, W, t, x)
    /\ c \in {"sendhdr", "raw", "rawsend", "last"} => Fixed(s, W)

PumpType ==
    /\ in \in Seq(Nat) /\ Meaning(in).ending # "truncated"
    /\ taken \in Nat /\ taken <= Len(in)
    /\ out \in Seq(Nat) /\ pending \in Seq(Nat)
    /\ pc \notin {"sendhdr", "rawsend", "last", "noisesend", "framesend", "endsend", "killed", "unserved"} =>
         pending = <<>>

Seen ==
    /\ IsPrefix(Meaning(out).frames, Meaning(in).frames)
    /\ pc \in {"stop", "done"} => "client" \in hung \/ Meaning(out) = Meaning(in)

PumpInv == PumpType /\ Carried(pc, in, out \o pending, taken, hdr, hdr \o body) /\ Seen

LEMMA PumpStarts ==
    ASSUME Init, Tidy
    PROVE  PumpInv
<1>1. /\ in \in Seq(Nat) /\ Meaning(in).ending # "truncated" /\ taken = 0 /\ pc = "backlog"
      /\ out = <<>> /\ pending = <<>>
    BY ChaosAssumption DEF Init, Tidy
<1>2. <<>> \in Seq(Nat) /\ <<>> \o <<>> = <<>> /\ 0 \in Nat /\ 0 <= Len(in)
    BY <1>1
<1>3. PumpType
    BY <1>1, <1>2 DEF PumpType
<1>4. Good(in, out \o pending, taken)
    BY <1>1, <1>2, GoodStarts
<1>5. Carried(pc, in, out \o pending, taken, hdr, hdr \o body)
    BY <1>1, <1>4 DEF Carried
<1>6. IsPrefix(Meaning(out).frames, Meaning(in).frames)
    <2>1. 0 + 1 \in 1..(Len(in) + 1)
        BY <1>1
    <2>2. QED
        BY <1>1, <1>2, <1>4, <2>1, GoodPrefix
<1>7. QED
    BY <1>1, <1>3, <1>5, <1>6 DEF PumpInv, Seen

LEMMA Unsent ==
    ASSUME PumpInv, pc \in {"backlog", "dial", "header", "body", "noise", "frame", "noiseend", "raw", "stop"}
    PROVE  pending = <<>> /\ out \o pending = out
<1>1. out \in Seq(Nat) /\ pending = <<>>
    BY DEF PumpInv, PumpType
<1>2. QED
    BY <1>1

LEMMA HeaderRuns ==
    ASSUME PumpInv, ReadHeader
    PROVE  PumpInv'
<1>1. /\ in \in Seq(Nat) /\ Meaning(in).ending # "truncated" /\ taken \in Nat /\ taken <= Len(in)
      /\ out \in Seq(Nat) /\ Len(in) \in Nat
    BY DEF PumpInv, PumpType
<1>2. pc = "header" /\ UNCHANGED <<in, body, out, hung>>
    BY DEF ReadHeader
<1>3. pending = <<>> /\ Good(in, out, taken)
    BY <1>2, Unsent DEF PumpInv, Carried
<1>4. IsPrefix(Meaning(out').frames, Meaning(in').frames)
    BY <1>2 DEF PumpInv, Seen
<1>5. CASE Left >= HeaderSize
    <2>1. PICK e \in Nat : e = taken + 4 /\ e <= Len(in) /\ taken <= e /\ taken + 1 + 3 = e
        <3>1. Len(in) - taken >= 4
            BY <1>5 DEF Left, HeaderSize
        <3>2. taken + 4 \in Nat /\ taken + 4 <= Len(in) /\ taken <= taken + 4 /\ taken + 1 + 3 = taken + 4
            BY <1>1, <3>1
        <3>3. QED
            BY <3>2
    <2>2. PICK h \in Seq(Nat) : h = Cut(in, taken, e) /\ h[1] = in[taken + 1]
        <3>1. e - taken = 4 /\ 1 \in 1..4
            BY <1>1, <2>1
        <3>2. /\ Cut(in, taken, e) \in Seq(Nat)
              /\ \A k \in 1..(e - taken) : Cut(in, taken, e)[k] = in[taken + k]
            BY <1>1, <2>1, CutFacts
        <3>3. QED
            BY <3>1, <3>2
    <2>3. /\ taken' = e /\ hdr' = h
          /\ IF h[1] > MaxPayload THEN pc' = "sendhdr" /\ pending' = h ELSE pc' = "body" /\ pending' = pending
        BY <1>5, <2>1, <2>2 DEF ReadHeader, HeaderSize, Cut
    <2>4. CASE h[1] > MaxPayload
        <3>1. Fixed(in, out \o h)
            BY <1>1, <1>3, <2>1, <2>2, <2>4, OversizeFixes
        <3>2. PumpType'
            BY <1>1, <1>2, <2>1, <2>3, <2>4 DEF PumpType
        <3>3. QED
            BY <1>2, <1>4, <2>3, <2>4, <3>1, <3>2 DEF PumpInv, Carried, Seen
    <2>5. CASE ~(h[1] > MaxPayload)
        <3>1. in[taken + 1] <= MaxPayload
            <4>1. taken + 1 \in 1..Len(in)
                BY <1>1, <2>1
            <4>2. in[taken + 1] \in Nat
                BY <1>1, <4>1
            <4>3. QED
                BY <2>2, <2>5, <4>2, WireAssumption
        <3>2. out \o <<>> = out /\ <<>> \in Seq(Nat)
            BY <1>1
        <3>3. InBody(in, out, e, h)
            BY <1>1, <1>3, <2>1, <2>2, <3>1 DEF InBody
        <3>4. PumpType'
            BY <1>1, <1>2, <1>3, <2>1, <2>3, <2>5, <3>2 DEF PumpType
        <3>5. QED
            BY <1>2, <1>3, <1>4, <2>3, <2>5, <3>2, <3>3, <3>4 DEF PumpInv, Carried, Seen
    <2>6. QED
        BY <2>4, <2>5
<1>6. CASE ~(Left >= HeaderSize)
    <2>1. taken' = Len(in) /\ pc' = "stop" /\ pending' = pending
        BY <1>6 DEF ReadHeader
    <2>2. Meaning(out) = Meaning(in)
        <3>1. ~(Len(in) - taken >= 4)
            BY <1>6 DEF Left, HeaderSize
        <3>2. /\ taken + 1 \in 1..(Len(in) + 1)
              /\ taken + 1 = Len(in) + 1 \/ (taken + 1 # Len(in) + 1 /\ taken + 1 + 4 - 1 > Len(in))
            BY <1>1, <3>1
        <3>3. At(in, taken + 1) \in {"eof", "truncated"}
            BY <3>2 DEF At, HeaderSize
        <3>4. At(in, taken + 1) # "frame"
            BY <3>3
        <3>5. CASE Carries(in, out, taken)
            BY <1>1, <3>2, <3>3, <3>4, <3>5, StopsAt
        <3>6. CASE Fixed(in, out)
            BY <1>1, <3>6, LongerItself DEF Fixed
        <3>7. QED
            BY <1>3, <3>5, <3>6 DEF Good
    <2>3. PumpType'
        BY <1>1, <1>2, <1>3, <2>1 DEF PumpType
    <2>4. QED
        BY <1>2, <1>4, <2>1, <2>2, <2>3 DEF PumpInv, Carried, Seen
<1>7. QED
    BY <1>5, <1>6

LEMMA BodyRuns ==
    ASSUME PumpInv, ReadBody
    PROVE  PumpInv'
<1>1. /\ in \in Seq(Nat) /\ Meaning(in).ending # "truncated" /\ taken \in Nat /\ taken <= Len(in)
      /\ out \in Seq(Nat) /\ Len(in) \in Nat
    BY DEF PumpInv, PumpType
<1>2. pc = "body" /\ UNCHANGED <<in, hdr, out, hung>>
    BY DEF ReadBody
<1>3. pending = <<>> /\ InBody(in, out, taken, hdr)
    BY <1>2, Unsent DEF PumpInv, Carried
<1>4. IsPrefix(Meaning(out').frames, Meaning(in').frames)
    BY <1>2 DEF PumpInv, Seen
<1>5. PICK p \in Nat : p + 4 = taken /\ hdr = Cut(in, p, taken) /\ in[p + 1] <= MaxPayload /\ Good(in, out, p)
    BY <1>3 DEF InBody
<1>6. p <= taken /\ taken - p = 4 /\ 1 \in 1..4 /\ p + 1 \in Nat /\ p + 1 >= 1 /\ p + 1 + 3 = taken /\ p + 1 + 3 <= Len(in)
    BY <1>1, <1>5
<1>7. hdr \in Seq(Nat) /\ hdr[1] = in[p + 1]
    <2>1. /\ Cut(in, p, taken) \in Seq(Nat)
          /\ \A k \in 1..(taken - p) : Cut(in, p, taken)[k] = in[p + k]
        BY <1>1, <1>6, CutFacts, ZenonT(60)
    <2>2. QED
        BY <1>5, <1>6, <2>1
<1>8. /\ p + 1 \in 1..(Len(in) + 1) /\ in[p + 1] \in Nat
      /\ FrameEnd(in, p + 1) = p + 1 + 3 + in[p + 1]
      /\ p + 1 + 3 + in[p + 1] > Len(in) => At(in, p + 1) = "truncated"
      /\ p + 1 + 3 + in[p + 1] <= Len(in) => At(in, p + 1) = "frame"
    BY <1>1, <1>5, <1>6, HeaderThere
<1>9. PICK n \in Nat : n = hdr[1] /\ n = in[p + 1]
    BY <1>7, <1>8
<1>10. PICK k \in Nat : /\ k = IF Left < n THEN Left ELSE n
                        /\ k <= n /\ taken + k <= Len(in) /\ (k < n <=> taken + n > Len(in))
    <2>1. PICK l \in Nat : l = Left /\ taken + l = Len(in)
        <3>1. Left = Len(in) - taken
            BY DEF Left
        <3>2. Len(in) - taken \in Nat /\ taken + (Len(in) - taken) = Len(in)
            BY <1>1
        <3>3. QED
            BY <3>1, <3>2
    <2>2. CASE l < n
        <3>1. l <= n /\ taken + l <= Len(in) /\ (l < n <=> taken + n > Len(in))
            BY <1>1, <2>1, <2>2
        <3>2. QED
            BY <2>1, <2>2, <3>1
    <2>3. CASE ~(l < n)
        <3>1. n <= n /\ taken + n <= Len(in) /\ (n < n <=> taken + n > Len(in))
            BY <1>1, <2>1, <2>3
        <3>2. QED
            BY <2>1, <2>3, <3>1
    <2>4. QED
        BY <2>2, <2>3
<1>11. PICK e \in Nat : e = taken + k /\ taken <= e /\ e <= Len(in)
    BY <1>1, <1>10, SMTT(60)
<1>12. PICK b : /\ b = Cut(in, taken, e) \o [j \in 1..(n - k) |-> 0]
               /\ taken' = e /\ body' = b
               /\ IF k < n THEN pc' = "last" /\ pending' = hdr \o b
                  ELSE pc' = (IF NoiseOn THEN "noise" ELSE "frame") /\ pending' = pending
    BY <1>9, <1>10, <1>11 DEF ReadBody, Cut
<1>13. Cut(in, taken, e) \in Seq(Nat)
    BY <1>1, <1>11, CutFacts
<1>14. CASE k < n
    <2>1. hdr \o b \in Seq(Nat)
        <3>1. [j \in 1..(n - k) |-> 0] \in Seq(Nat)
            <4>1. n - k \in Nat
                BY <1>14
            <4>2. QED
                BY <4>1
        <3>2. b \in Seq(Nat)
            BY <1>12, <1>13, <3>1
        <3>3. QED
            BY <1>7, <3>2
    <2>2. Fixed(in, out)
        <3>1. p + 1 + 3 + n > Len(in)
            BY <1>6, <1>10, <1>14
        <3>2. At(in, p + 1) = "truncated"
            BY <1>8, <1>9, <3>1
        <3>3. ~Carries(in, out, p)
            BY <1>1, <1>8, <3>2, StopsAt
        <3>4. QED
            BY <1>5, <3>3 DEF Good
    <2>3. Fixed(in, out \o (hdr \o b))
        BY <1>1, <2>1, <2>2, FixedMore
    <2>4. PumpType'
        BY <1>1, <1>2, <1>11, <1>12, <1>14, <2>1 DEF PumpType
    <2>5. QED
        BY <1>2, <1>4, <1>12, <1>14, <2>3, <2>4 DEF PumpInv, Carried, Seen
<1>15. CASE ~(k < n)
    <2>1. k = n /\ n - k = 0
        BY <1>10, <1>15
    <2>2. b = Cut(in, taken, e)
        <3>1. [j \in 1..(n - k) |-> 0] = <<>>
            BY <2>1
        <3>2. PICK c \in Seq(Nat) : c = Cut(in, taken, e)
            BY <1>13
        <3>3. c \o <<>> = c
            OBVIOUS
        <3>4. b = c \o <<>>
            BY <1>12, <3>1, <3>2, Zenon
        <3>5. QED
            BY <3>2, <3>3, <3>4
    <2>3. hdr \o b = Cut(in, p, e)
        <3>1. in \in Seq(Nat) /\ p <= taken /\ taken <= e /\ e <= Len(in)
            BY <1>1, <1>6, <1>11
        <3>2. Cut(in, p, taken) \o Cut(in, taken, e) = Cut(in, p, e)
            BY <1>1, <3>1, CutJoin, SMTT(60)
        <3>3. QED
            BY <1>5, <2>2, <3>2, Zenon
    <2>4. At(in, p + 1) = "frame" /\ FrameEnd(in, p + 1) = e
        <3>1. p + 1 + 3 + n = e
            BY <1>6, <1>11, <2>1
        <3>2. QED
            BY <1>8, <1>9, <1>11, <3>1
    <2>5. InFrame(in, out, e, hdr \o b)
        BY <1>5, <1>8, <2>3, <2>4 DEF InFrame
    <2>6. pc' \in {"noise", "frame"} /\ pending' = <<>> /\ out \o <<>> = out
        BY <1>1, <1>3, <1>12, <1>15
    <2>7. PumpType'
        BY <1>1, <1>2, <1>11, <1>12, <2>6 DEF PumpType
    <2>8. QED
        BY <1>2, <1>4, <1>12, <2>5, <2>6, <2>7 DEF PumpInv, Carried, Seen
<1>16. QED
    BY <1>14, <1>15

LEMMA NoiseRuns ==
    ASSUME PumpInv, Inject
    PROVE  PumpInv'
<1>1. /\ in \in Seq(Nat) /\ Meaning(in).ending # "truncated" /\ taken \in Nat /\ taken <= Len(in)
      /\ out \in Seq(Nat)
    BY DEF PumpInv, PumpType
<1>2. /\ pc \in {"noise", "noiseend"} /\ UNCHANGED <<in, taken, hdr, body, out, hung>>
      /\ pc' = IF pc = "noise" THEN "noisesend" ELSE "endsend"
    BY DEF Inject
<1>3. PICK f \in Noises : pending' = f
    BY DEF Inject
<1>4. OneFrame(f) /\ ~Known(f[2]) /\ f \in Seq(Nat)
    BY ChaosAssumption DEF OneFrame
<1>5. Carried(pc, in, out, taken, hdr, hdr \o body)
    BY <1>2, Unsent DEF PumpInv
<1>6. IsPrefix(Meaning(out').frames, Meaning(in').frames)
    BY <1>2 DEF PumpInv, Seen
<1>7. PumpType'
    BY <1>1, <1>2, <1>3, <1>4 DEF PumpType
<1>8. CASE pc = "noise"
    <2>1. PICK p \in Nat :
            /\ p + 1 \in 1..(Len(in) + 1) /\ At(in, p + 1) = "frame" /\ FrameEnd(in, p + 1) = taken
            /\ hdr \o body = Cut(in, p, taken) /\ Good(in, out, p)
        BY <1>5, <1>8 DEF Carried, InFrame
    <2>2. Good(in, out \o f, p)
        BY <1>1, <1>4, <2>1, NoiseCarries
    <2>3. InFrame(in, out \o f, taken, hdr \o body)
        BY <2>1, <2>2 DEF InFrame
    <2>4. pc' = "noisesend"
        BY <1>2, <1>8
    <2>5. Carried("noisesend", in, out \o f, taken, hdr, hdr \o body)
        BY <2>3 DEF Carried
    <2>6. Carried(pc', in', out' \o pending', taken', hdr', hdr' \o body')
        BY <1>2, <1>3, <2>4, <2>5, Zenon
    <2>7. QED
        BY <1>6, <1>7, <2>4, <2>6 DEF PumpInv, Seen
<1>9. CASE pc = "noiseend"
    <2>1. Good(in, out, taken)
        BY <1>5, <1>9 DEF Carried
    <2>2. Good(in, out \o f, taken)
        BY <1>1, <1>4, <2>1, NoiseCarries
    <2>3. pc' = "endsend"
        BY <1>2, <1>9
    <2>4. Carried("endsend", in, out \o f, taken, hdr, hdr \o body)
        BY <2>2 DEF Carried
    <2>5. Carried(pc', in', out' \o pending', taken', hdr', hdr' \o body')
        BY <1>2, <1>3, <2>3, <2>4, Zenon
    <2>6. QED
        BY <1>6, <1>7, <2>3, <2>5 DEF PumpInv, Seen
<1>10. QED
    BY <1>2, <1>8, <1>9

LEMMA FrameRuns ==
    ASSUME PumpInv, SendFrame
    PROVE  PumpInv'
<1>1. /\ in \in Seq(Nat) /\ Meaning(in).ending # "truncated" /\ taken \in Nat /\ taken <= Len(in)
      /\ out \in Seq(Nat) /\ Len(in) \in Nat
    BY DEF PumpInv, PumpType
<1>2. /\ pc = "frame" /\ UNCHANGED <<in, taken, hdr, body, out, hung>>
      /\ pc' = "framesend" /\ pending' = hdr \o body
    BY DEF SendFrame
<1>3. PICK p \in Nat :
        /\ p + 1 \in 1..(Len(in) + 1) /\ At(in, p + 1) = "frame" /\ FrameEnd(in, p + 1) = taken
        /\ hdr \o body = Cut(in, p, taken) /\ Good(in, out, p)
    BY <1>2, Unsent DEF PumpInv, Carried, InFrame
<1>4. Good(in, out \o Cut(in, p, taken), taken)
    BY <1>1, <1>3, FrameCarries
<1>5. Cut(in, p, taken) \in Seq(Nat)
    <2>1. p + 1 + 3 <= Len(in) /\ in[p + 1] \in 0..MaxPayload /\ FrameEnd(in, p + 1) = p + 1 + 3 + in[p + 1]
        BY <1>1, <1>3, FrameLies
    <2>2. p <= taken
        <3>1. PICK n \in Nat : n = in[p + 1]
            BY <2>1, WireAssumption
        <3>2. taken = p + 1 + 3 + n
            BY <1>3, <2>1, <3>1
        <3>3. QED
            BY <3>2
    <2>3. QED
        BY <1>1, <2>2, CutFacts
<1>6. Good(in', out' \o pending', taken')
    BY <1>2, <1>3, <1>4, Zenon
<1>7. IsPrefix(Meaning(out').frames, Meaning(in').frames)
    BY <1>2 DEF PumpInv, Seen
<1>8. PumpType'
    BY <1>1, <1>2, <1>3, <1>5 DEF PumpType
<1>9. QED
    BY <1>2, <1>6, <1>7, <1>8 DEF PumpInv, Carried, Seen

LEMMA RawRuns ==
    ASSUME PumpInv, CopyRaw
    PROVE  PumpInv'
<1>1. /\ in \in Seq(Nat) /\ Meaning(in).ending # "truncated" /\ taken \in Nat /\ taken <= Len(in)
      /\ out \in Seq(Nat) /\ Len(in) \in Nat
    BY DEF PumpInv, PumpType
<1>2. pc = "raw" /\ UNCHANGED <<in, hdr, body, out, hung>>
    BY DEF CopyRaw
<1>3. pending = <<>> /\ Fixed(in, out)
    BY <1>2, Unsent DEF PumpInv, Carried
<1>4. IsPrefix(Meaning(out').frames, Meaning(in').frames)
    BY <1>2 DEF PumpInv, Seen
<1>5. ASSUME NEW k \in 1..Left, pending' = SubSeq(in, taken + 1, taken + k), taken' = taken + k, pc' = "rawsend"
      PROVE  PumpInv'
    <2>1. PICK e \in Nat : e = taken + k /\ taken <= e /\ e <= Len(in)
        <3>1. k \in 1..(Len(in) - taken)
            BY <1>5 DEF Left
        <3>2. taken + k \in Nat /\ taken <= taken + k /\ taken + k <= Len(in)
            BY <1>1, <3>1
        <3>3. QED
            BY <3>2
    <2>2. PICK x \in Seq(Nat) : x = Cut(in, taken, e)
        BY <1>1, <2>1, CutFacts
    <2>3. pending' = x /\ taken' = e
        BY <1>5, <2>1, <2>2 DEF Cut
    <2>4. Fixed(in, out \o x)
        BY <1>1, <1>3, FixedMore
    <2>5. PumpType'
        BY <1>1, <1>2, <1>5, <2>1, <2>3 DEF PumpType
    <2>6. QED
        BY <1>2, <1>4, <1>5, <2>3, <2>4, <2>5 DEF PumpInv, Carried, Seen
<1>6. CASE pc' = "stop" /\ UNCHANGED <<pending, taken>>
    <2>1. Meaning(out) = Meaning(in)
        BY <1>1, <1>3, LongerItself DEF Fixed
    <2>2. PumpType'
        BY <1>1, <1>2, <1>3, <1>6 DEF PumpType
    <2>3. QED
        BY <1>2, <1>4, <1>6, <2>1, <2>2 DEF PumpInv, Carried, Seen
<1>7. QED
    BY <1>5, <1>6 DEF CopyRaw

\* What is on its way can only be read as part of what the server sent.
LEMMA SendingIsGood ==
    ASSUME PumpInv, Sending
    PROVE  \E t \in Nat : t + 1 \in 1..(Len(in) + 1) /\ Good(in, out \o pending, t)
<1>1. in \in Seq(Nat) /\ taken \in Nat /\ taken <= Len(in) /\ Len(in) \in Nat
    BY DEF PumpInv, PumpType
<1>2. 0 \in Nat /\ 0 + 1 \in 1..(Len(in) + 1) /\ taken + 1 \in 1..(Len(in) + 1)
    BY <1>1
<1>3. CASE pc \in {"framesend", "endsend"}
    <2>1. Good(in, out \o pending, taken)
        BY <1>3 DEF PumpInv, Carried
    <2>2. QED
        BY <1>1, <1>2, <2>1
<1>4. CASE pc = "noisesend"
    <2>1. InFrame(in, out \o pending, taken, hdr \o body)
        BY <1>4 DEF PumpInv, Carried
    <2>2. QED
        BY <2>1 DEF InFrame
<1>5. CASE pc \in {"sendhdr", "rawsend", "last"}
    <2>1. Fixed(in, out \o pending)
        BY <1>5 DEF PumpInv, Carried
    <2>2. Good(in, out \o pending, 0)
        BY <2>1 DEF Good
    <2>3. QED
        BY <1>2, <2>2
<1>6. QED
    BY <1>3, <1>4, <1>5 DEF Sending

LEMMA JoinJoin ==
    ASSUME NEW x \in Seq(Nat), NEW y \in Seq(Nat), NEW z \in Seq(Nat)
    PROVE  (x \o y) \o z = x \o (y \o z)
BY SMTT(30)

LEMMA PieceRuns ==
    ASSUME PumpInv, WritePiece
    PROVE  PumpInv'
<1>1. /\ in \in Seq(Nat) /\ Meaning(in).ending # "truncated" /\ taken \in Nat /\ taken <= Len(in)
      /\ out \in Seq(Nat) /\ pending \in Seq(Nat)
    BY DEF PumpInv, PumpType
<1>2. Sending /\ UNCHANGED <<in, taken, hdr, body, hung>>
    BY DEF WritePiece
<1>3. PICK n \in 1..Len(pending) :
        /\ out' = out \o SubSeq(pending, 1, n)
        /\ pending' = SubSeq(pending, n + 1, Len(pending))
        /\ pc' = IF n = Len(pending) THEN AfterSend ELSE pc
    BY DEF WritePiece
<1>4. PICK l \in Nat : l = Len(pending)
    BY <1>1
<1>5. /\ n \in Nat /\ 0 <= n /\ n <= l /\ 0 + 1 = 1 /\ l <= l /\ 0 <= l
    BY <1>3, <1>4
<1>6. PICK x \in Seq(Nat), y \in Seq(Nat) : x = Cut(pending, 0, n) /\ y = Cut(pending, n, l)
    <2>1. Cut(pending, 0, n) \in Seq(Nat)
        <3>1. pending \in Seq(Nat) /\ 0 \in Nat /\ n \in Nat /\ 0 <= n /\ n <= Len(pending)
            BY <1>1, <1>4, <1>5
        <3>2. QED
            BY <3>1, CutFacts
    <2>2. Cut(pending, n, l) \in Seq(Nat)
        <3>1. pending \in Seq(Nat) /\ n \in Nat /\ l \in Nat /\ n <= l /\ l <= Len(pending)
            BY <1>1, <1>4, <1>5
        <3>2. QED
            BY <3>1, CutFacts
    <2>3. QED
        BY <2>1, <2>2
<1>7. pending = x \o y
    <2>1. pending \in Seq(Nat) /\ 0 \in Nat /\ n \in Nat /\ l \in Nat /\ 0 <= n /\ n <= l /\ l <= Len(pending)
        BY <1>1, <1>4, <1>5
    <2>2. Cut(pending, 0, n) \o Cut(pending, n, l) = Cut(pending, 0, l)
        BY <2>1, CutJoin
    <2>3. Cut(pending, 0, l) = pending
        BY <1>1, <1>4, CutAll
    <2>4. QED
        BY <1>6, <2>2, <2>3, Zenon
<1>8. out' = out \o x /\ pending' = y
    <2>1. SubSeq(pending, 1, n) = x /\ SubSeq(pending, n + 1, Len(pending)) = y
        <3>1. x = SubSeq(pending, 0 + 1, n) /\ y = SubSeq(pending, n + 1, l)
            BY <1>6, Zenon DEF Cut
        <3>2. 0 + 1 = 1
            OBVIOUS
        <3>3. QED
            BY <1>4, <3>1, <3>2, Zenon
    <2>2. QED
        BY <1>3, <2>1
<1>9. out' \in Seq(Nat) /\ pending' \in Seq(Nat) /\ out' \o pending' = out \o pending
    <2>1. PICK o \in Seq(Nat) : o = out
        BY <1>1
    <2>2. o \o x \in Seq(Nat)
        OBVIOUS
    <2>3. (o \o x) \o y = o \o (x \o y)
        BY JoinJoin
    <2>4. y \in Seq(Nat)
        OBVIOUS
    <2>5. QED
        BY <1>7, <1>8, <2>1, <2>2, <2>3, <2>4, Zenon
<1>10. IsPrefix(Meaning(out').frames, Meaning(in').frames)
    <2>1. PICK t \in Nat : t + 1 \in 1..(Len(in) + 1) /\ Good(in, out \o pending, t)
        BY <1>2, SendingIsGood
    <2>2. Good(in, out' \o pending', t)
        BY <1>9, <2>1
    <2>3. IsPrefix(Meaning(out').frames, Meaning(in).frames)
        BY <1>1, <1>9, <2>1, <2>2, GoodPrefix
    <2>4. QED
        BY <1>2, <2>3
<1>11. Carried(pc, in', out' \o pending', taken', hdr', hdr' \o body')
    <2>1. Carried(pc, in, out \o pending, taken, hdr, hdr \o body)
        BY DEF PumpInv
    <2>2. QED
        BY <1>2, <1>9, <2>1, Zenon
<1>12. CASE n # Len(pending)
    <2>1. pc' = pc
        BY <1>3, <1>12
    <2>2. PumpType'
        BY <1>1, <1>2, <1>9, <2>1 DEF PumpType, Sending
    <2>3. QED
        BY <1>2, <1>10, <1>11, <2>1, <2>2 DEF PumpInv, Seen, Sending
<1>13. CASE n = Len(pending)
    <2>1. pc' = AfterSend
        BY <1>3, <1>13
    <2>2. pending' = <<>>
        <3>1. n = l
            BY <1>4, <1>13
        <3>2. Cut(pending, l, l) = <<>>
            BY <1>1, <1>4, <1>5, CutNone
        <3>3. QED
            BY <1>6, <1>8, <3>1, <3>2, Zenon
    <2>3. pc' \in {"raw", "stop", "frame", "noiseend", "header"}
        BY <1>2, <2>1 DEF AfterSend, AfterResponse, Sending
    <2>4. PumpType'
        BY <1>1, <1>2, <1>9, <2>2, <2>3 DEF PumpType
    <2>5. /\ pc \in {"sendhdr", "rawsend"} => pc' = "raw"
          /\ pc = "last" => pc' = "stop"
          /\ pc = "noisesend" => pc' = "frame"
          /\ pc = "framesend" => pc' \in {"noiseend", "header"}
          /\ pc = "endsend" => pc' = "header"
        BY <2>1 DEF AfterSend, AfterResponse
    <2>6. Carried(pc', in', out' \o pending', taken', hdr', hdr' \o body')
        BY <1>2, <1>11, <2>3, <2>5 DEF Carried, Sending
    <2>7. pc' = "stop" => Meaning(out') = Meaning(in')
        <3>1. SUFFICES ASSUME pc' = "stop" PROVE Meaning(out') = Meaning(in')
            OBVIOUS
        <3>2. pc = "last"
            BY <1>2, <2>5, <3>1 DEF Sending
        <3>3. Fixed(in', out' \o pending')
            BY <1>11, <3>2, Zenon DEF Carried
        <3>4. out' \o pending' = out'
            BY <1>9, <2>2
        <3>5. QED
            BY <1>9, <3>3, <3>4, LongerItself DEF Fixed
    <2>8. QED
        BY <1>10, <2>3, <2>4, <2>6, <2>7 DEF PumpInv, Seen
<1>14. QED
    BY <1>12, <1>13

\* The steps that end a connection, or have nothing to do with its responses.
LEMMA OtherRuns ==
    ASSUME PumpInv,
           \/ Start \/ ServeReturns \/ Accept \/ DialServer \/ WriteFails \/ PumpDone
           \/ Copy \/ CopyDone \/ RelayReturns \/ ClientAsks \/ ClientEnds("fin") \/ ClientEnds("client")
           \/ ServerHangsUp \/ UNCHANGED vars
    PROVE  PumpInv'
<1>1. PumpType /\ Carried(pc, in, out \o pending, taken, hdr, hdr \o body) /\ Seen
    BY DEF PumpInv
<1>2. UNCHANGED <<in, taken, hdr, body, out>> /\ hung \subseteq hung'
    BY DEF Start, ServeReturns, Accept, DialServer, WriteFails, PumpDone, Copy, CopyDone, RelayReturns,
           ClientAsks, ClientEnds, ServerHangsUp, vars, pumpVars
<1>3. CASE UNCHANGED <<pc, pending>>
    BY <1>1, <1>2, <1>3 DEF PumpInv, PumpType, Seen
<1>4. CASE pc' \in {"unserved", "killed"} /\ pending' = pending
    BY <1>1, <1>2, <1>4 DEF PumpInv, PumpType, Carried, Seen
<1>5. CASE pc \in {"backlog", "dial"} /\ pc' \in {"dial", "header"} /\ pending' = pending
    BY <1>1, <1>2, <1>5 DEF PumpInv, PumpType, Carried, Seen
<1>6. CASE pc' = "stop" /\ pending' = <<>> /\ "client" \in hung
    BY <1>1, <1>2, <1>6 DEF PumpInv, PumpType, Carried, Seen
<1>7. CASE pc = "stop" /\ pc' = "done" /\ pending' = pending
    BY <1>1, <1>2, <1>7 DEF PumpInv, PumpType, Carried, Seen
<1>8. QED
    BY <1>3, <1>4, <1>5, <1>6, <1>7 DEF Start, ServeReturns, Accept, DialServer, WriteFails, PumpDone, Copy,
           CopyDone, RelayReturns, ClientAsks, ClientEnds, ServerHangsUp, Dies, vars, pumpVars

\* A client that frames correctly sees through the proxy what it would have seen
\* without it (pump.run, writeChunked, inject, copyRaw): for every stream that does
\* not stop inside a frame, all sizes of the pieces and all noise.
THEOREM ProxyTransparent ==
    ASSUME Tidy
    PROVE  Spec => []SameMeaning
<1>1. Init => PumpInv
    BY PumpStarts
<1>2. PumpInv /\ [Next]_vars => PumpInv'
    <2>1. SUFFICES ASSUME PumpInv, [Next]_vars PROVE PumpInv'
        OBVIOUS
    <2>2. CASE ReadHeader
        BY <2>1, <2>2, HeaderRuns
    <2>3. CASE ReadBody
        BY <2>1, <2>3, BodyRuns
    <2>4. CASE Inject
        BY <2>1, <2>4, NoiseRuns
    <2>5. CASE SendFrame
        BY <2>1, <2>5, FrameRuns
    <2>6. CASE CopyRaw
        BY <2>1, <2>6, RawRuns
    <2>7. CASE WritePiece
        BY <2>1, <2>7, PieceRuns
    <2>8. CASE \/ Start \/ ServeReturns \/ Accept \/ DialServer \/ WriteFails \/ PumpDone
               \/ Copy \/ CopyDone \/ RelayReturns \/ ClientAsks \/ ClientEnds("fin") \/ ClientEnds("client")
               \/ ServerHangsUp \/ UNCHANGED vars
        BY <2>1, <2>8, OtherRuns
    <2>9. QED
        BY <2>1, <2>2, <2>3, <2>4, <2>5, <2>6, <2>7, <2>8 DEF Next, PumpAlone, Finished
<1>3. PumpInv => SameMeaning
    BY DEF PumpInv, Seen, SameMeaning
<1>4. QED
    BY <1>1, <1>2, <1>3, PTL DEF Spec
=============================================================================
