---------------------------- MODULE WiretapProofs ----------------------------
(***************************************************************************)
(* Proofs about frame.Read and the tap, byte by byte: for every stream, of  *)
(* any length, and every way to cut it up.                                  *)
(***************************************************************************)
EXTENDS Wiretap, WireProofs

-----------------------------------------------------------------------------
(* frame.Read over a bufio.Reader *)

Consumed == filled - Len(buffer)

ReaderType ==
    /\ input \in Seq(Nat) /\ filled \in Nat /\ filled <= Len(input)
    /\ buffer \in Seq(Nat) /\ Len(buffer) <= filled
    /\ part \in Seq(Nat) /\ want \in Nat /\ want >= 1
    /\ want <= HeaderSize \/ want <= MaxPayload
    /\ got \in Seq(DecodedFrame)
    /\ ending \in Endings \cup {"none", "error", "refused"}

\* The call in progress has so far what it should: part ends where the buffer
\* begins, after the header it belongs to.
InHeader ==
    /\ stage = "header" /\ want = 4
    /\ Len(part) < 4 /\ Len(part) <= Consumed
    /\ part = Cut(input, Consumed - Len(part), Consumed)

InPayload(a) ==
    /\ stage = "payload" /\ a >= 1 /\ a + 3 + Len(part) = Consumed
    /\ want = input[a] /\ want <= MaxPayload /\ Known(input[a + 1])
    /\ Len(part) < want
    /\ hdr = Cut(input, a - 1, a + 3)
    /\ part = Cut(input, a + 3, Consumed)

InDiscard ==
    stage = "discard" /\ part = <<>> /\ want <= MaxPayload

\* What was returned so far is the beginning of what the stream means, and the
\* rest is what it means from the frame in progress on.
ReaderInv ==
    /\ ReaderType
    /\ buffer = Cut(input, Consumed, filled)
    /\ CASE ending = "none" ->
              \/ /\ InHeader
                 /\ Meaning(input) = Then(got, Readings(input)[Consumed - Len(part) + 1])
              \/ \E a \in 1..Len(input) :
                    /\ InPayload(a)
                    /\ Meaning(input) = Then(got, Readings(input)[a])
              \/ /\ InDiscard
                 /\ IF Consumed + want > Len(input)
                    THEN Meaning(input) = [frames |-> got, ending |-> "truncated"]
                    ELSE Meaning(input) = Then(got, Readings(input)[Consumed + want + 1])
         [] ending \in {"error", "refused"} -> IsPrefix(got, Meaning(input).frames)
         [] OTHER -> Meaning(input) = [frames |-> got, ending |-> ending]

-----------------------------------------------------------------------------

LEMMA ReaderStarts ==
    ASSUME NEW s \in Seq(Nat), ReaderInit(s)
    PROVE  ReaderInv
<1>1. ReaderType
    <2>1. ending \in Endings \cup {"none", "error", "refused"}
        BY DEF ReaderInit
    <2>2. Len(<<>>) = 0 /\ <<>> \in Seq(Nat) /\ <<>> \in Seq(DecodedFrame) /\ 0 <= Len(s)
        OBVIOUS
    <2>3. QED
        BY <2>1, <2>2 DEF ReaderInit, ReaderType, HeaderSize
<1>2. Consumed = 0 /\ filled = 0 /\ Len(part) = 0 /\ Consumed - Len(part) = 0
    <2>1. Len(<<>>) = 0
        OBVIOUS
    <2>2. filled = 0 /\ buffer = <<>> /\ part = <<>>
        BY DEF ReaderInit
    <2>3. Len(part) = 0 /\ Len(buffer) = 0
        BY <2>1, <2>2, Zenon
    <2>4. Consumed = filled - Len(buffer)
        BY DEF Consumed
    <2>5. Consumed = 0
        BY <2>2, <2>3, <2>4
    <2>6. Consumed - Len(part) = 0
        BY <2>3, <2>5
    <2>7. QED
        BY <2>2, <2>3, <2>5, <2>6
<1>3. Cut(input, 0, 0) = <<>>
    BY CutNone DEF ReaderInit
<1>4. InHeader
    BY <1>2, <1>3 DEF InHeader, ReaderInit, HeaderSize
<1>5. Meaning(input) = Then(got, Readings(input)[Consumed - Len(part) + 1])
    <2>1. Readings(s)[1] \in [frames : Seq(DecodedFrame), ending : Endings]
        <3>1. 1 \in 1..(Len(s) + 1)
            OBVIOUS
        <3>2. QED
            BY <3>1, ReadingsType DEF ReadingResult
    <2>2. Then(<<>>, Readings(s)[1]) = Readings(s)[1]
        BY <2>1, AfterNothing
    <2>3. Consumed - Len(part) + 1 = 1
        BY <1>2
    <2>4. QED
        BY <2>2, <2>3 DEF ReaderInit, Meaning
<1>6. QED
    BY <1>1, <1>2, <1>3, <1>4, <1>5 DEF ReaderInv, ReaderInit

LEMMA MinOfTwo ==
    ASSUME NEW a \in Nat, NEW b \in Nat
    PROVE  Min({a, b}) = IF a <= b THEN a ELSE b
<1> DEFINE m == IF a <= b THEN a ELSE b
<1>1. m \in {a, b} /\ \A y \in {a, b} : m <= y
    OBVIOUS
<1>2. \A x \in {a, b} : (\A y \in {a, b} : x <= y) => x = m
    OBVIOUS
<1>3. QED
    BY <1>1, <1>2 DEF Min

LEMMA MaxOfTwo ==
    ASSUME NEW a \in Nat, NEW b \in Nat
    PROVE  Max({a, b}) = IF a <= b THEN b ELSE a
<1> DEFINE m == IF a <= b THEN b ELSE a
<1>1. m \in {a, b} /\ \A y \in {a, b} : m >= y
    OBVIOUS
<1>2. \A x \in {a, b} : (\A y \in {a, b} : x >= y) => x = m
    OBVIOUS
<1>3. QED
    BY <1>1, <1>2 DEF Max

\* The invariant is the property.
LEMMA ReaderMeans ==
    ASSUME ReaderInv
    PROVE  ChunksDoNotMatter
<1>1. ReaderType
    BY DEF ReaderInv
<1>2. want \in 1..Max({HeaderSize, MaxPayload})
    <2>1. HeaderSize \in Nat /\ MaxPayload \in Nat
        BY WireAssumption DEF HeaderSize
    <2>2. Max({HeaderSize, MaxPayload}) = IF HeaderSize <= MaxPayload THEN MaxPayload ELSE HeaderSize
        BY <2>1, MaxOfTwo
    <2>3. QED
        BY <1>1, <2>1, <2>2 DEF ReaderType
<1>3. CASE ending = "none"
    <2>1. \E rest \in Seq(DecodedFrame) : Meaning(input).frames = got \o rest
        <3>1. \A i \in 1..(Len(input) + 1) : Readings(input)[i].frames \in Seq(DecodedFrame)
            BY <1>1, ReadingsType DEF ReaderType, ReadingResult
        <3>2. CASE InHeader /\ Meaning(input) = Then(got, Readings(input)[Consumed - Len(part) + 1])
            <4>1. Consumed - Len(part) + 1 \in 1..(Len(input) + 1)
                BY <1>1, <3>2 DEF InHeader, ReaderType, Consumed
            <4>2. Meaning(input).frames = got \o Readings(input)[Consumed - Len(part) + 1].frames
                BY <3>2 DEF Then
            <4>3. QED
                BY <3>1, <4>1, <4>2
        <3>3. CASE \E a \in 1..Len(input) : InPayload(a) /\ Meaning(input) = Then(got, Readings(input)[a])
            <4>1. PICK a \in 1..Len(input) : InPayload(a) /\ Meaning(input) = Then(got, Readings(input)[a])
                BY <3>3
            <4>2. a \in 1..(Len(input) + 1)
                BY <1>1, <4>1 DEF InPayload, ReaderType, Consumed
            <4>3. Meaning(input).frames = got \o Readings(input)[a].frames
                BY <4>1 DEF Then
            <4>4. QED
                BY <3>1, <4>2, <4>3
        <3>4. CASE InDiscard /\ Meaning(input) = [frames |-> got, ending |-> "truncated"]
            <4>1. got = got \o <<>> /\ <<>> \in Seq(DecodedFrame)
                BY <1>1 DEF ReaderType
            <4>2. Meaning(input).frames = got
                BY <3>4
            <4>3. Meaning(input).frames = got \o <<>>
                BY <4>1, <4>2, Zenon
            <4>4. QED
                BY <4>1, <4>3
        <3>5. CASE /\ InDiscard /\ Consumed + want <= Len(input)
                   /\ Meaning(input) = Then(got, Readings(input)[Consumed + want + 1])
            <4>1. Consumed + want + 1 \in 1..(Len(input) + 1)
                BY <1>1, <3>5 DEF ReaderType, Consumed
            <4>2. Meaning(input).frames = got \o Readings(input)[Consumed + want + 1].frames
                BY <3>5 DEF Then
            <4>3. QED
                BY <3>1, <4>1, <4>2
        <3>6. Consumed + want > Len(input) \/ Consumed + want <= Len(input)
            BY <1>1 DEF ReaderType, Consumed
        <3>7. QED
            BY <1>3, <3>2, <3>3, <3>4, <3>5, <3>6 DEF ReaderInv
    <2>2. QED
        BY <1>1, <1>2, <1>3, <2>1, PrefixOfMore DEF ChunksDoNotMatter, ReaderType
<1>4. CASE ending \in {"error", "refused"}
    BY <1>2, <1>4 DEF ReaderInv, ChunksDoNotMatter
<1>5. CASE ending \notin {"none", "error", "refused"}
    <2>1. Meaning(input) = [frames |-> got, ending |-> ending]
        BY <1>5 DEF ReaderInv
    <2>2. Meaning(input).frames = got /\ Meaning(input).ending = ending
        BY <2>1
    <2>3. IsPrefix(got, got)
        BY <1>1 DEF ReaderType, IsPrefix
    <2>4. QED
        BY <1>2, <2>2, <2>3 DEF ChunksDoNotMatter
<1>6. QED
    BY <1>3, <1>4, <1>5

-----------------------------------------------------------------------------
(* The reader's steps.  c cells have been consumed after the step. *)

Moved(c) ==
    /\ input' = input /\ filled' = filled
    /\ c \in Nat /\ c <= filled /\ Consumed' = c
    /\ buffer' \in Seq(Nat) /\ Len(buffer') <= filled
    /\ buffer' = Cut(input, c, filled)

\* A frame has been dealt with and the next call of Read starts.
LEMMA BackToHeader ==
    ASSUME ReaderInv, NEW c \in Nat, Moved(c), Call("header", HeaderSize), ending' = "none",
           got' \in Seq(DecodedFrame),
           Meaning(input) = Then(got', Readings(input)[c + 1])
    PROVE  ReaderInv'
<1>1. /\ stage' = "header" /\ want' = 4 /\ part' = <<>> /\ Len(part') = 0
      /\ input \in Seq(Nat) /\ filled \in Nat /\ filled <= Len(input) /\ c <= Len(input)
    <2>1. Len(<<>>) = 0
        OBVIOUS
    <2>2. QED
        BY <2>1 DEF Call, HeaderSize, Moved, ReaderInv, ReaderType
<1>2. ReaderType'
    <2>1. ending' \in Endings \cup {"none", "error", "refused"} /\ <<>> \in Seq(Nat)
        OBVIOUS
    <2>2. QED
        BY <1>1, <2>1 DEF Moved, ReaderType, HeaderSize
<1>3. buffer' = Cut(input', Consumed', filled')
    BY DEF Moved
<1>4. Consumed' = c /\ Consumed' - Len(part') = c /\ Consumed' - Len(part') + 1 = c + 1
    BY <1>1 DEF Moved
<1>5. InHeader'
    <2>1. Cut(input, c, c) = <<>>
        BY <1>1, CutNone
    <2>2. QED
        BY <1>1, <1>4, <2>1 DEF InHeader, Moved
<1>6. Meaning(input') = Then(got', Readings(input')[Consumed' - Len(part') + 1])
    BY <1>4 DEF Moved
<1>7. QED
    BY <1>2, <1>3, <1>5, <1>6 DEF ReaderInv

\* Read has returned an error.
LEMMA HasEnded ==
    ASSUME ReaderInv, NEW c \in Nat, Moved(c), ending' \in Endings, UNCHANGED <<part, want, got>>,
           Meaning(input) = [frames |-> got, ending |-> ending']
    PROVE  ReaderInv'
<1>1. ReaderType'
    BY DEF Moved, ReaderInv, ReaderType
<1>2. buffer' = Cut(input', Consumed', filled')
    BY DEF Moved
<1>3. ending' # "none" /\ ending' \notin {"error", "refused"}
    BY DEF Endings
<1>4. Meaning(input') = [frames |-> got', ending |-> ending']
    BY DEF Moved
<1>5. QED
    BY <1>1, <1>2, <1>3, <1>4 DEF ReaderInv

LEMMA ReturnKeeps ==
    ASSUME ReaderInv, ending = "none", NEW a \in 1..Len(input), NEW c \in Nat, Moved(c),
           c = a + 3 + input[a], input[a] \in Nat, input[a] <= MaxPayload, Known(input[a + 1]),
           Meaning(input) = Then(got, Readings(input)[a]),
           Return(Cut(input, a - 1, a + 3), Cut(input, a + 3, c))
    PROVE  ReaderInv'
<1>1. input \in Seq(Nat) /\ filled <= Len(input) /\ filled \in Nat /\ got \in Seq(DecodedFrame)
    BY DEF ReaderInv, ReaderType
<1>2. a + 3 <= Len(input) /\ a + 3 + input[a] <= Len(input) /\ a \in Nat /\ a >= 1
    <2>1. c <= filled
        BY DEF Moved
    <2>2. c <= Len(input) /\ Len(input) \in Nat /\ a \in Nat /\ a >= 1
        BY <1>1, <2>1, SMTT(60)
    <2>3. PICK n \in Nat : n = input[a] /\ c = a + 3 + n
        OBVIOUS
    <2>4. a + 3 <= Len(input)
        BY <2>2, <2>3
    <2>5. QED
        BY <2>2, <2>4
<1>3. /\ a \in 1..(Len(input) + 1) /\ At(input, a) = "frame" /\ FrameEnd(input, a) = c
      /\ DecodedAt(input, a) = Decoded(Cut(input, a - 1, a + 3), Cut(input, a + 3, c))
    BY <1>1, <1>2, HeaderThere
<1>4. Cut(input, a - 1, a + 3)[2] = input[a + 1] /\ Cut(input, a - 1, a + 3)[4] = input[a + 3]
    <2>1. PICK b \in Nat, e \in Nat : b = a - 1 /\ e = a + 3 /\ b <= e /\ e <= Len(input) /\ e - b = 4
        BY <1>2
    <2>2. \A k \in 1..(e - b) : Cut(input, b, e)[k] = input[b + k]
        BY <1>1, <2>1, CutFacts, ZenonT(60)
    <2>3. b + 2 = a + 1 /\ b + 4 = a + 3
        BY <2>1
    <2>4. Cut(input, b, e)[2] = input[b + 2] /\ Cut(input, b, e)[4] = input[b + 4]
        BY <2>1, <2>2
    <2>5. QED
        BY <2>1, <2>3, <2>4
<1>5. CASE ZeroAt(input, a)
    <2>1. Fails("streamzero")
        BY <1>4, <1>5 DEF Return, ZeroAt
    <2>2. Readings(input)[a] = [frames |-> <<>>, ending |-> "streamzero"]
        BY <1>1, <1>3, <1>5, ReadingRefuses
    <2>3. Meaning(input) = [frames |-> got, ending |-> "streamzero"]
        BY <1>1, <2>2, ThenNothing
    <2>4. "streamzero" \in Endings
        BY DEF Endings
    <2>5. QED
        BY <2>1, <2>3, <2>4, HasEnded DEF Fails
<1>6. CASE ~ZeroAt(input, a)
    <2>1. /\ got' = Append(got, DecodedAt(input, a))
          /\ Call("header", HeaderSize) /\ ending' = "none"
        BY <1>3, <1>4, <1>6 DEF Return, ZeroAt
    <2>2. DecodedAt(input, a) \in DecodedFrame
        BY <1>1, <1>3, DecodedType
    <2>3. Readings(input)[a] = Then(<<DecodedAt(input, a)>>, Readings(input)[c + 1])
        BY <1>1, <1>3, <1>6, ReadingGoesOn
    <2>4. Readings(input)[c + 1].frames \in Seq(DecodedFrame)
        <3>1. c + 1 \in 1..(Len(input) + 1)
            BY <1>1, <1>2, SMTT(60)
        <3>2. QED
            BY <1>1, <3>1, ReadingsType DEF ReadingResult
    <2>5. Meaning(input) = Then(got', Readings(input)[c + 1])
        BY <1>1, <2>1, <2>2, <2>3, <2>4, ThenOne
    <2>6. got' \in Seq(DecodedFrame)
        BY <1>1, <2>1, <2>2
    <2>7. QED
        BY <2>1, <2>5, <2>6, BackToHeader
<1>7. QED
    BY <1>5, <1>6

\* What Take does once the number of cells is known.
TakeCases(k, full) ==
    CASE stage = "discard" ->
              /\ IF k = want THEN Call("header", HeaderSize) ELSE Call("discard", want - k)
              /\ UNCHANGED <<hdr, got, ending>>
      [] stage # "discard" /\ Len(full) < want ->
              part' = full /\ UNCHANGED <<stage, hdr, want, got, ending>>
      [] stage = "header" /\ Len(full) = want -> HeaderRead(full)
      [] stage = "payload" /\ Len(full) = want -> Return(hdr, full) /\ UNCHANGED hdr

LEMMA PartFits ==
    ASSUME ReaderInv, ending = "none"
    PROVE  Len(part) \in Nat /\ Len(part) < want /\ Len(part) <= Consumed
<1>1. /\ part \in Seq(Nat) /\ want \in Nat /\ want >= 1
      /\ filled \in Nat /\ Len(buffer) \in Nat /\ Len(buffer) <= filled
    BY DEF ReaderInv, ReaderType
<1>2. InHeader \/ (\E a \in 1..Len(input) : InPayload(a)) \/ InDiscard
    BY DEF ReaderInv
<1>3. CASE InHeader
    BY <1>1, <1>3 DEF InHeader
<1>4. CASE \E a \in 1..Len(input) : InPayload(a)
    <2>1. PICK a \in 1..Len(input) : InPayload(a)
        BY <1>4
    <2>2. Len(part) < want /\ a + 3 + Len(part) = Consumed /\ Len(part) \in Nat /\ a \in Nat
        BY <1>1, <2>1 DEF InPayload
    <2>3. QED
        BY <2>2
<1>5. CASE InDiscard
    <2>1. Len(<<>>) = 0
        OBVIOUS
    <2>2. Len(part) = 0
        BY <2>1, <1>5, Zenon DEF InDiscard
    <2>3. QED
        BY <1>1, <2>2 DEF Consumed
<1>6. QED
    BY <1>2, <1>3, <1>4, <1>5

LEMMA TakeMoves ==
    ASSUME ReaderInv, Take
    PROVE  \E k \in Nat :
              /\ k >= 1 /\ k <= want - Len(part) /\ Consumed + k <= filled
              /\ Moved(Consumed + k)
              /\ TakeCases(k, part \o Cut(input, Consumed, Consumed + k))
<1> DEFINE k == Min({Len(buffer), want - Len(part)})
<1>1. /\ ending = "none" /\ buffer # <<>> /\ input' = input /\ filled' = filled
      /\ buffer' = SubSeq(buffer, k + 1, Len(buffer))
      /\ TakeCases(k, part \o SubSeq(buffer, 1, k))
    BY DEF Take, TakeCases
<1>2. /\ input \in Seq(Nat) /\ filled \in Nat /\ filled <= Len(input)
      /\ buffer \in Seq(Nat) /\ Len(buffer) <= filled /\ want \in Nat
      /\ Len(buffer) \in Nat /\ Len(input) \in Nat
      /\ buffer = Cut(input, Consumed, filled)
    BY DEF ReaderInv, ReaderType
<1>3. Len(part) \in Nat /\ Len(part) < want /\ Len(part) <= Consumed
    BY <1>1, PartFits
<1>4. Len(buffer) >= 1
    BY <1>1, <1>2
<1>5. k \in Nat /\ k >= 1 /\ k <= Len(buffer) /\ k <= want - Len(part)
    <2>1. PICK x \in Nat, y \in Nat : x = Len(buffer) /\ y = want - Len(part) /\ x >= 1 /\ y >= 1
        BY <1>2, <1>3, <1>4, SMTT(60)
    <2>2. Min({x, y}) = IF x <= y THEN x ELSE y
        BY MinOfTwo
    <2>3. QED
        BY <2>1, <2>2
<1> HIDE DEF k
<1>6. PICK c \in Nat : c = Consumed /\ c + Len(buffer) = filled /\ c <= filled
    <2>1. Consumed = filled - Len(buffer)
        BY DEF Consumed
    <2>2. Consumed \in Nat /\ Consumed + Len(buffer) = filled /\ Consumed <= filled
        BY <1>2, <2>1
    <2>3. QED
        BY <2>2
<1>7. c + k \in Nat /\ c + k <= filled
    BY <1>2, <1>5, <1>6
<1>8. SubSeq(buffer, 1, k) = Cut(input, c, c + k)
    <2>1. SubSeq(buffer, 1, k) = Cut(buffer, 0, k)
        BY DEF Cut
    <2>2. 0 <= k /\ k <= filled - c /\ c + 0 = c
        BY <1>2, <1>5, <1>6
    <2>3. Cut(Cut(input, c, filled), 0, k) = Cut(input, c + 0, c + k)
        BY <1>2, <1>5, <1>6, <2>2, CutCut
    <2>4. QED
        BY <1>2, <1>6, <2>1, <2>2, <2>3
<1>9. buffer' = Cut(input, c + k, filled)
    <2>1. buffer' = Cut(buffer, k, Len(buffer))
        BY <1>1 DEF Cut
    <2>2. k <= Len(buffer) /\ Len(buffer) <= filled - c /\ c + Len(buffer) = filled
        BY <1>2, <1>5, <1>6
    <2>3. Cut(Cut(input, c, filled), k, Len(buffer)) = Cut(input, c + k, c + Len(buffer))
        BY <1>2, <1>5, <1>6, <2>2, CutCut, SMTT(60)
    <2>4. QED
        BY <1>2, <1>6, <2>1, <2>2, <2>3
<1>10. buffer' \in Seq(Nat) /\ Len(buffer') = filled - (c + k)
    BY <1>2, <1>7, <1>9, CutFacts
<1>11. Moved(c + k)
    <2>1. Consumed' = filled' - Len(buffer')
        BY DEF Consumed
    <2>2. Consumed' = c + k
        BY <1>1, <1>2, <1>7, <1>10, <2>1
    <2>3. Len(buffer') <= filled
        BY <1>2, <1>7, <1>10
    <2>4. QED
        BY <1>1, <1>7, <1>9, <1>10, <2>2, <2>3 DEF Moved
<1>12. QED
    BY <1>1, <1>5, <1>6, <1>7, <1>8, <1>11

\* A header is complete.
LEMMA HeaderKeeps ==
    ASSUME ReaderInv, ending = "none", NEW a \in 1..Len(input), NEW c \in Nat, Moved(c), c = a + 3,
           Meaning(input) = Then(got, Readings(input)[a]),
           HeaderRead(Cut(input, a - 1, c))
    PROVE  ReaderInv'
<1> DEFINE h == Cut(input, a - 1, c)
           n == input[a]
<1>1. input \in Seq(Nat) /\ filled <= Len(input) /\ filled \in Nat /\ got \in Seq(DecodedFrame)
    BY DEF ReaderInv, ReaderType
<1>2. a + 3 <= Len(input) /\ a \in Nat /\ a >= 1 /\ c <= filled /\ Len(input) \in Nat
    BY <1>1 DEF Moved
<1>3. /\ a \in 1..(Len(input) + 1) /\ n \in Nat
      /\ FrameEnd(input, a) = a + 3 + n
      /\ n > MaxPayload => At(input, a) = "oversize"
      /\ n <= MaxPayload /\ a + 3 + n > Len(input) => At(input, a) = "truncated"
      /\ n <= MaxPayload /\ a + 3 + n <= Len(input) => At(input, a) = "frame"
    BY <1>1, <1>2, HeaderThere
<1>4. h[1] = n /\ h[2] = input[a + 1]
    <2>1. PICK b \in Nat : b = a - 1 /\ b <= c /\ c <= Len(input) /\ c - b = 4
        BY <1>2
    <2>2. \A k \in 1..(c - b) : Cut(input, b, c)[k] = input[b + k]
        BY <1>1, <2>1, CutFacts, ZenonT(60)
    <2>3. b + 1 = a /\ b + 2 = a + 1
        BY <2>1
    <2>4. Cut(input, b, c)[1] = input[b + 1] /\ Cut(input, b, c)[2] = input[b + 2]
        BY <2>1, <2>2
    <2>5. QED
        BY <2>1, <2>3, <2>4
<1>5. hdr' = h
    BY DEF HeaderRead
<1> HIDE DEF h, n
<1>6. CASE n > MaxPayload
    <2>1. Fails("oversize")
        BY <1>4, <1>6 DEF HeaderRead, TooLong, h
    <2>2. Readings(input)[a] = [frames |-> <<>>, ending |-> "oversize"]
        BY <1>1, <1>3, <1>6, ReadingStops
    <2>3. Meaning(input) = [frames |-> got, ending |-> "oversize"]
        BY <1>1, <2>2, ThenNothing
    <2>4. "oversize" \in Endings
        BY DEF Endings
    <2>5. QED
        BY <2>1, <2>3, <2>4, HasEnded DEF Fails
<1>7. CASE ~(n > MaxPayload) /\ Known(h[2]) /\ n = 0
    <2>1. Return(h, <<>>)
        BY <1>4, <1>7 DEF HeaderRead, TooLong, h
    <2>2. Cut(input, c, c) = <<>>
        BY <1>1, <1>2, CutNone
    <2>3. c = a + 3 + input[a] /\ input[a] \in Nat /\ input[a] <= MaxPayload /\ Known(input[a + 1])
        BY <1>2, <1>3, <1>4, <1>7, WireAssumption DEF n
    <2>4. Return(Cut(input, a - 1, a + 3), Cut(input, a + 3, c))
        BY <2>1, <2>2 DEF h
    <2>5. QED
        BY <2>3, <2>4, ReturnKeeps
<1>8. CASE ~(n > MaxPayload) /\ Known(h[2]) /\ n # 0
    <2>1. Call("payload", n) /\ got' = got /\ ending' = "none"
        BY <1>4, <1>8 DEF HeaderRead, TooLong, h
    <2>2. stage' = "payload" /\ want' = n /\ part' = <<>>
        BY <2>1 DEF Call
    <2>3. Len(part') = 0 /\ n >= 1 /\ n <= MaxPayload /\ n \in Nat
        <3>1. Len(<<>>) = 0
            OBVIOUS
        <3>2. Len(part') = 0
            BY <3>1, <2>2, Zenon
        <3>3. QED
            BY <1>3, <1>8, <3>2, WireAssumption
    <2>4. ReaderType'
        <3>1. <<>> \in Seq(Nat) /\ ending' \in Endings \cup {"none", "error", "refused"}
            BY <2>1
        <3>2. QED
            BY <1>1, <2>1, <2>2, <2>3, <3>1 DEF ReaderType, Moved
    <2>5. buffer' = Cut(input', Consumed', filled')
        BY DEF Moved
    <2>6. InPayload(a)'
        <3>1. a + 3 + Len(part') = Consumed' /\ Consumed' = c
            BY <1>2, <2>3 DEF Moved
        <3>2. want' = input'[a] /\ want' <= MaxPayload /\ Known(input'[a + 1]) /\ Len(part') < want'
            BY <1>4, <1>8, <2>2, <2>3 DEF Moved, n
        <3>3. hdr' = Cut(input', a - 1, a + 3)
            BY <1>5 DEF Moved, h
        <3>4. part' = Cut(input', a + 3, Consumed')
            <4>1. Cut(input, c, c) = <<>>
                BY <1>1, <1>2, CutNone
            <4>2. QED
                BY <2>2, <3>1, <4>1 DEF Moved
        <3>5. QED
            BY <1>2, <2>2, <3>1, <3>2, <3>3, <3>4 DEF InPayload
    <2>7. a \in 1..Len(input') /\ Meaning(input') = Then(got', Readings(input')[a])
        BY <2>1 DEF Moved
    <2>8. QED
        BY <2>1, <2>4, <2>5, <2>6, <2>7 DEF ReaderInv
<1>9. CASE ~(n > MaxPayload) /\ ~Known(h[2]) /\ n # 0
    <2>1. Call("discard", n) /\ got' = got /\ ending' = "none"
        BY <1>3, <1>4, <1>9 DEF HeaderRead, TooLong, h
    <2>2. stage' = "discard" /\ want' = n /\ part' = <<>>
        BY <2>1 DEF Call
    <2>3. n >= 1 /\ n <= MaxPayload /\ n \in Nat
        BY <1>3, <1>9, WireAssumption
    <2>4. ReaderType'
        <3>1. <<>> \in Seq(Nat) /\ ending' \in Endings \cup {"none", "error", "refused"}
            BY <2>1
        <3>2. QED
            BY <1>1, <2>1, <2>2, <2>3, <3>1 DEF ReaderType, Moved
    <2>5. buffer' = Cut(input', Consumed', filled')
        BY DEF Moved
    <2>6. InDiscard' /\ Consumed' = c /\ input' = input
        BY <2>2, <2>3 DEF InDiscard, Moved
    <2>7. CASE c + n > Len(input)
        <3>1. At(input, a) = "truncated"
            BY <1>2, <1>3, <2>3, <2>7
        <3>2. Readings(input)[a] = [frames |-> <<>>, ending |-> "truncated"]
            BY <1>1, <1>3, <3>1, ReadingStops
        <3>3. Meaning(input) = [frames |-> got, ending |-> "truncated"]
            BY <1>1, <3>2, ThenNothing
        <3>4. QED
            BY <2>1, <2>2, <2>4, <2>5, <2>6, <2>7, <3>3 DEF ReaderInv
    <2>8. CASE ~(c + n > Len(input))
        <3>1. At(input, a) = "frame" /\ FrameEnd(input, a) + 1 = c + n + 1
            BY <1>2, <1>3, <2>3, <2>8
        <3>2. ~Known(input[a + 1]) /\ ~ZeroAt(input, a)
            BY <1>4, <1>9 DEF Known, ZeroAt, NeedsStreamID
        <3>3. Readings(input)[a] = Readings(input)[c + n + 1]
            BY <1>1, <1>3, <3>1, <3>2, ReadingSkips
        <3>4. QED
            BY <2>1, <2>2, <2>4, <2>5, <2>6, <2>8, <3>3 DEF ReaderInv
    <2>9. QED
        BY <2>7, <2>8
<1>10. CASE ~(n > MaxPayload) /\ ~Known(h[2]) /\ n = 0
    <2>1. Call("header", HeaderSize) /\ got' = got /\ ending' = "none"
        BY <1>3, <1>4, <1>10 DEF HeaderRead, TooLong, h
    <2>2. At(input, a) = "frame" /\ FrameEnd(input, a) + 1 = c + 1
        BY <1>2, <1>3, <1>10, WireAssumption
    <2>3. ~Known(input[a + 1]) /\ ~ZeroAt(input, a)
        BY <1>4, <1>10 DEF Known, ZeroAt, NeedsStreamID
    <2>4. Readings(input)[a] = Readings(input)[c + 1]
        BY <1>1, <1>3, <2>2, <2>3, ReadingSkips
    <2>5. QED
        BY <1>1, <2>1, <2>4, BackToHeader
<1>11. QED
    BY <1>6, <1>7, <1>8, <1>9, <1>10

LEMMA TakeInHeader ==
    ASSUME ReaderInv, ending = "none", InHeader, NEW k \in Nat, k >= 1, k <= want - Len(part),
           Moved(Consumed + k), TakeCases(k, part \o Cut(input, Consumed, Consumed + k)),
           Meaning(input) = Then(got, Readings(input)[Consumed - Len(part) + 1])
    PROVE  ReaderInv'
<1>1. /\ input \in Seq(Nat) /\ filled <= Len(input) /\ filled \in Nat /\ Len(input) \in Nat
      /\ Len(part) \in Nat /\ got \in Seq(DecodedFrame)
    BY DEF ReaderInv, ReaderType
<1>2. PICK c \in Nat, b \in Nat, e \in Nat :
        /\ c = Consumed /\ b = Consumed - Len(part) /\ e = Consumed + k
        /\ b <= c /\ c <= e /\ e <= filled /\ e - b <= 4 /\ e - b = Len(part) + k
    <2>1. /\ Consumed + k <= filled /\ Consumed + k \in Nat /\ want = 4
          /\ Len(part) <= Consumed /\ Consumed \in Int
        BY <1>1, PartFits DEF Moved, InHeader, ReaderInv, ReaderType, Consumed
    <2>2. /\ Consumed \in Nat /\ Consumed - Len(part) \in Nat
          /\ (Consumed + k) - (Consumed - Len(part)) = Len(part) + k
          /\ Len(part) + k <= 4
        BY <1>1, <2>1
    <2>3. Consumed - Len(part) <= Consumed /\ Consumed <= Consumed + k
        BY <1>1, <2>2
    <2>4. QED
        BY <2>1, <2>2, <2>3
<1>2a. input \in Seq(Nat) /\ b <= c /\ c <= e /\ b <= e /\ e <= Len(input)
    <2>1. b <= c /\ c <= e /\ e <= filled
        BY <1>2
    <2>2. QED
        BY <1>1, <2>1
<1>3. part \o Cut(input, Consumed, Consumed + k) = Cut(input, b, e)
    <2>1. part = Cut(input, b, c)
        BY <1>2 DEF InHeader
    <2>2. Cut(input, b, c) \o Cut(input, c, e) = Cut(input, b, e)
        BY <1>2a, CutJoin
    <2>3. QED
        BY <1>2, <2>1, <2>2
<1>4. PICK full \in Seq(Nat) : full = Cut(input, b, e) /\ Len(full) = e - b
    BY <1>2a, CutFacts
<1>5. TakeCases(k, full) /\ stage = "header" /\ want = 4 /\ Moved(e)
    BY <1>2, <1>3, <1>4 DEF InHeader
<1>6. CASE e - b < 4
    <2>1. part' = full /\ UNCHANGED <<stage, hdr, want, got, ending>>
        <3>1. Len(full) < want /\ ~(Len(full) = want)
            BY <1>4, <1>5, <1>6
        <3>2. (stage = "discard") = FALSE
            BY <1>5
        <3>3. QED
            BY <1>5, <3>1, <3>2 DEF TakeCases
    <2>2. /\ Consumed' = e /\ Len(part') = e - b /\ input' = input /\ filled' = filled
          /\ Consumed' - Len(part') = b
        BY <1>2, <1>4, <1>5, <2>1 DEF Moved
    <2>3. ReaderType'
        BY <1>5, <2>1 DEF ReaderInv, ReaderType, Moved
    <2>4. buffer' = Cut(input', Consumed', filled')
        BY <1>5 DEF Moved
    <2>5. InHeader'
        BY <1>2, <1>4, <1>5, <1>6, <2>1, <2>2, SMTT(60) DEF InHeader
    <2>6. Meaning(input') = Then(got', Readings(input')[Consumed' - Len(part') + 1])
        BY <1>2, <2>1, <2>2
    <2>7. QED
        BY <2>1, <2>3, <2>4, <2>5, <2>6 DEF ReaderInv
<1>7. CASE e - b = 4
    <2>1. HeaderRead(full)
        <3>1. Len(full) = want /\ ~(Len(full) < want)
            BY <1>4, <1>5, <1>7
        <3>2. QED
            BY <1>5, <3>1 DEF TakeCases
    <2>2. PICK a \in 1..Len(input) : a = b + 1 /\ a - 1 = b /\ e = a + 3
        <3>1. b + 1 \in 1..Len(input) /\ b + 1 - 1 = b /\ e = b + 1 + 3
            BY <1>1, <1>2, <1>7
        <3>2. QED
            BY <3>1
    <2>3. Meaning(input) = Then(got, Readings(input)[a]) /\ full = Cut(input, a - 1, e)
        BY <1>2, <1>4, <2>2
    <2>4. QED
        BY <1>5, <2>1, <2>2, <2>3, HeaderKeeps
<1>8. QED
    BY <1>2, <1>6, <1>7

LEMMA TakeInPayload ==
    ASSUME ReaderInv, ending = "none", NEW a \in 1..Len(input), InPayload(a),
           NEW k \in Nat, k >= 1, k <= want - Len(part),
           Moved(Consumed + k), TakeCases(k, part \o Cut(input, Consumed, Consumed + k)),
           Meaning(input) = Then(got, Readings(input)[a])
    PROVE  ReaderInv'
<1>1. /\ input \in Seq(Nat) /\ filled <= Len(input) /\ filled \in Nat /\ Len(input) \in Nat
      /\ Len(part) \in Nat /\ got \in Seq(DecodedFrame) /\ want \in Nat
    BY DEF ReaderInv, ReaderType
<1>2. PICK c \in Nat, b \in Nat, e \in Nat :
        /\ c = Consumed /\ b = a + 3 /\ e = Consumed + k
        /\ b <= c /\ c <= e /\ e <= filled /\ e - b <= want /\ e - b = Len(part) + k
    <2>1. Consumed + k <= filled /\ a + 3 + Len(part) = Consumed
        BY DEF Moved, InPayload
    <2>2. /\ Consumed \in Nat /\ a + 3 \in Nat /\ Consumed + k \in Nat
          /\ (Consumed + k) - (a + 3) = Len(part) + k
          /\ Len(part) + k <= want
        BY <1>1, <2>1, SMTT(60)
    <2>3. a + 3 <= Consumed /\ Consumed <= Consumed + k
        BY <1>1, <2>1, <2>2
    <2>4. QED
        BY <2>1, <2>2, <2>3
<1>2a. input \in Seq(Nat) /\ b <= c /\ c <= e /\ b <= e /\ e <= Len(input)
    <2>1. b <= c /\ c <= e /\ e <= filled
        BY <1>2
    <2>2. QED
        BY <1>1, <2>1
<1>3. part \o Cut(input, Consumed, Consumed + k) = Cut(input, b, e)
    <2>1. part = Cut(input, b, c)
        BY <1>2 DEF InPayload
    <2>2. Cut(input, b, c) \o Cut(input, c, e) = Cut(input, b, e)
        BY <1>2a, CutJoin
    <2>3. QED
        BY <1>2, <2>1, <2>2
<1>4. PICK full \in Seq(Nat) : full = Cut(input, b, e) /\ Len(full) = e - b
    BY <1>2a, CutFacts
<1>5. /\ TakeCases(k, full) /\ stage = "payload" /\ Moved(e)
      /\ a >= 1 /\ want = input[a] /\ want <= MaxPayload /\ Known(input[a + 1])
      /\ hdr = Cut(input, a - 1, a + 3)
    BY <1>2, <1>3, <1>4 DEF InPayload
<1>6. CASE e - b < want
    <2>1. part' = full /\ UNCHANGED <<stage, hdr, want, got, ending>>
        <3>1. Len(full) < want /\ ~(Len(full) = want)
            BY <1>1, <1>4, <1>5, <1>6
        <3>2. (stage = "discard") = FALSE
            BY <1>5
        <3>3. QED
            BY <1>5, <3>1, <3>2 DEF TakeCases
    <2>2. /\ Consumed' = e /\ Len(part') = e - b /\ input' = input /\ filled' = filled
          /\ a + 3 + Len(part') = Consumed'
        BY <1>2, <1>4, <1>5, <2>1 DEF Moved
    <2>3. ReaderType'
        BY <1>5, <2>1 DEF ReaderInv, ReaderType, Moved
    <2>4. buffer' = Cut(input', Consumed', filled')
        BY <1>5 DEF Moved
    <2>5. InPayload(a)'
        BY <1>2, <1>4, <1>5, <1>6, <2>1, <2>2 DEF InPayload
    <2>6. a \in 1..Len(input') /\ Meaning(input') = Then(got', Readings(input')[a])
        BY <2>1, <2>2
    <2>7. QED
        BY <2>1, <2>3, <2>4, <2>5, <2>6 DEF ReaderInv
<1>7. CASE e - b = want
    <2>1. Return(hdr, full)
        <3>1. Len(full) = want /\ ~(Len(full) < want)
            BY <1>1, <1>4, <1>7
        <3>2. QED
            BY <1>5, <3>1 DEF TakeCases
    <2>2. e = a + 3 + input[a] /\ input[a] \in Nat /\ input[a] <= MaxPayload
        <3>1. e = b + want /\ b = a + 3
            BY <1>1, <1>2, <1>7
        <3>2. QED
            BY <1>1, <1>5, <3>1
    <2>3. Return(Cut(input, a - 1, a + 3), Cut(input, a + 3, e))
        BY <1>2, <1>4, <1>5, <2>1
    <2>4. QED
        BY <1>5, <2>2, <2>3, ReturnKeeps
<1>8. QED
    BY <1>1, <1>2, <1>6, <1>7

LEMMA TakeInDiscard ==
    ASSUME ReaderInv, ending = "none", InDiscard,
           NEW k \in Nat, k >= 1, k <= want - Len(part), Moved(Consumed + k),
           TakeCases(k, part \o Cut(input, Consumed, Consumed + k)),
           IF Consumed + want > Len(input)
           THEN Meaning(input) = [frames |-> got, ending |-> "truncated"]
           ELSE Meaning(input) = Then(got, Readings(input)[Consumed + want + 1])
    PROVE  ReaderInv'
<1>1. /\ input \in Seq(Nat) /\ filled <= Len(input) /\ filled \in Nat /\ Len(input) \in Nat
      /\ got \in Seq(DecodedFrame) /\ want \in Nat
    BY DEF ReaderInv, ReaderType
<1>2. k <= want
    <2>1. Len(part) \in Nat
        BY PartFits
    <2>2. QED
        BY <1>1, <2>1
<1>3. PICK c \in Nat, e \in Nat : c = Consumed /\ e = Consumed + k /\ e <= filled /\ e = c + k
    <2>1. Consumed + k <= filled /\ Consumed \in Nat
        <3>1. Len(part) <= Consumed /\ Len(part) \in Nat
            BY PartFits
        <3>2. Consumed = filled - Len(buffer) /\ Len(buffer) \in Nat /\ Consumed + k <= filled
            BY DEF Consumed, Moved, ReaderInv, ReaderType
        <3>3. QED
            BY <1>1, <3>1, <3>2
    <2>2. QED
        BY <2>1
<1>4. Moved(e) /\ UNCHANGED <<hdr, got, ending>>
    BY <1>3 DEF TakeCases, InDiscard
<1>5. CASE k = want
    <2>1. Call("header", HeaderSize)
        BY <1>5 DEF TakeCases, InDiscard
    <2>2. ~(Consumed + want > Len(input)) /\ Consumed + want + 1 = e + 1
        BY <1>1, <1>3, <1>5
    <2>3. Meaning(input) = Then(got', Readings(input)[e + 1])
        BY <1>4, <2>2
    <2>4. QED
        BY <1>1, <1>4, <2>1, <2>3, BackToHeader
<1>6. CASE k # want
    <2>1. stage' = "discard" /\ want' = want - k /\ part' = <<>>
        BY <1>6 DEF TakeCases, InDiscard, Call
    <2>2. want' \in Nat /\ want' >= 1 /\ want' <= MaxPayload
        BY <1>1, <1>2, <1>6, <2>1, WireAssumption DEF InDiscard
    <2>3. ReaderType'
        <3>1. <<>> \in Seq(Nat)
            OBVIOUS
        <3>2. QED
            BY <1>4, <2>1, <2>2, <3>1 DEF ReaderInv, ReaderType, Moved
    <2>4. buffer' = Cut(input', Consumed', filled')
        BY <1>4 DEF Moved
    <2>5. InDiscard'
        BY <2>1, <2>2 DEF InDiscard
    <2>6. Consumed' + want' = Consumed + want /\ input' = input
        BY <1>1, <1>3, <1>4, <2>1 DEF Moved
    <2>7. QED
        BY <1>4, <2>3, <2>4, <2>5, <2>6 DEF ReaderInv
<1>7. QED
    BY <1>5, <1>6

LEMMA TakeKeeps ==
    ASSUME ReaderInv, Take
    PROVE  ReaderInv'
<1>1. PICK k \in Nat :
        /\ k >= 1 /\ k <= want - Len(part) /\ Consumed + k <= filled
        /\ Moved(Consumed + k)
        /\ TakeCases(k, part \o Cut(input, Consumed, Consumed + k))
    BY TakeMoves
<1>2. ending = "none"
    BY DEF Take
<1>3. CASE InHeader /\ Meaning(input) = Then(got, Readings(input)[Consumed - Len(part) + 1])
    BY <1>1, <1>2, <1>3, TakeInHeader
<1>4. CASE \E a \in 1..Len(input) : InPayload(a) /\ Meaning(input) = Then(got, Readings(input)[a])
    BY <1>1, <1>2, <1>4, TakeInPayload
<1>5. CASE /\ InDiscard
           /\ IF Consumed + want > Len(input)
              THEN Meaning(input) = [frames |-> got, ending |-> "truncated"]
              ELSE Meaning(input) = Then(got, Readings(input)[Consumed + want + 1])
    BY <1>1, <1>2, <1>5, TakeInDiscard
<1>6. QED
    BY <1>2, <1>3, <1>4, <1>5 DEF ReaderInv

\* What ReaderInv says of a connection that is still read from.
Reading ==
    \/ /\ InHeader
       /\ Meaning(input) = Then(got, Readings(input)[Consumed - Len(part) + 1])
    \/ \E a \in 1..Len(input) :
          /\ InPayload(a)
          /\ Meaning(input) = Then(got, Readings(input)[a])
    \/ /\ InDiscard
       /\ IF Consumed + want > Len(input)
          THEN Meaning(input) = [frames |-> got, ending |-> "truncated"]
          ELSE Meaning(input) = Then(got, Readings(input)[Consumed + want + 1])

LEMMA ConsumedFits ==
    ASSUME ReaderInv
    PROVE  /\ Consumed \in Nat /\ Consumed + Len(buffer) = filled
           /\ Len(buffer) \in Nat /\ Len(input) \in Nat /\ Consumed <= Len(input)
<1>1. /\ filled \in Nat /\ Len(buffer) \in Nat /\ Len(buffer) <= filled
      /\ Len(input) \in Nat /\ filled <= Len(input)
    BY DEF ReaderInv, ReaderType
<1>2. QED
    BY <1>1 DEF Consumed

LEMMA FillKeeps ==
    ASSUME ReaderInv, NEW k \in 1..Coming, Fill(k)
    PROVE  ReaderInv'
<1>1. /\ ending = "none" /\ buffer = <<>> /\ k <= Coming
      /\ buffer' = Chunk(k) /\ filled' = filled + k
      /\ UNCHANGED <<input, stage, hdr, part, want, got, ending>>
    BY DEF Fill
<1>2. ReaderType
    BY DEF ReaderInv
<1>3. /\ input \in Seq(Nat) /\ filled \in Nat /\ Len(input) \in Nat /\ k \in Nat
      /\ filled + k \in Nat /\ filled <= filled + k /\ filled + k <= Len(input)
    BY <1>1, <1>2 DEF Coming, ReaderType
<1>4. PICK f \in Nat : f = filled + k /\ filled <= f /\ f <= Len(input) /\ f - filled = k
    BY <1>3
<1>5. buffer' = Cut(input, filled, f)
    BY <1>1, <1>4 DEF Chunk, Cut
<1>6. buffer' \in Seq(Nat) /\ Len(buffer') = k
    BY <1>3, <1>4, <1>5, CutFacts
<1>7. Consumed = filled /\ Consumed' = filled
    <2>1. Len(<<>>) = 0
        OBVIOUS
    <2>2. Len(buffer) = 0
        BY <1>1, <2>1, Zenon
    <2>3. Consumed = filled - Len(buffer) /\ Consumed' = filled' - Len(buffer')
        BY DEF Consumed
    <2>4. QED
        BY <1>1, <1>3, <1>6, <2>2, <2>3
<1>8. ReaderType'
    <2>1. filled' \in Nat /\ filled' <= Len(input) /\ Len(buffer') <= filled'
        BY <1>1, <1>3, <1>6
    <2>2. QED
        BY <1>1, <1>2, <1>6, <2>1 DEF ReaderType
<1>9. buffer' = Cut(input', Consumed', filled')
    BY <1>1, <1>4, <1>5, <1>7
<1>10. Reading
    BY <1>1 DEF ReaderInv, Reading
<1>11. Consumed' = Consumed
    BY <1>7
<1>12. Reading'
    <2>1. InHeader' = InHeader /\ InDiscard' = InDiscard
        BY <1>1, <1>11, Zenon DEF InHeader, InDiscard
    <2>2. \A a : InPayload(a)' = InPayload(a)
        BY <1>1, <1>11, Zenon DEF InPayload
    <2>3. QED
        BY <1>1, <1>10, <1>11, <2>1, <2>2, Zenon DEF Reading
<1>13. QED
    BY <1>1, <1>8, <1>9, <1>12 DEF ReaderInv, Reading

LEMMA EndOfInputKeeps ==
    ASSUME ReaderInv, EndOfInput
    PROVE  ReaderInv'
<1>1. /\ ending = "none" /\ buffer = <<>> /\ Coming = 0
      /\ ending' = IF Between THEN "eof" ELSE "truncated"
      /\ UNCHANGED <<input, filled, buffer, stage, hdr, part, want, got>>
    BY DEF EndOfInput
<1>2. /\ input \in Seq(Nat) /\ filled \in Nat /\ Len(input) \in Nat /\ got \in Seq(DecodedFrame)
      /\ want \in Nat /\ want >= 1 /\ part \in Seq(Nat)
      /\ buffer \in Seq(Nat) /\ Len(buffer) <= filled /\ buffer = Cut(input, Consumed, filled)
    BY DEF ReaderInv, ReaderType
<1>3. PICK c \in Nat : c = Consumed /\ c = filled /\ c = Len(input)
    <2>1. Len(<<>>) = 0
        OBVIOUS
    <2>2. Len(buffer) = 0
        BY <1>1, <2>1, Zenon
    <2>3. filled = Len(input)
        BY <1>1, <1>2 DEF Coming
    <2>4. QED
        BY <1>2, <2>2, <2>3 DEF Consumed
<1>4. Moved(c)
    <2>1. Consumed' = Consumed
        BY <1>1 DEF Consumed
    <2>2. input' = input /\ filled' = filled /\ buffer' = buffer
        BY <1>1
    <2>3. c <= filled /\ Consumed' = c
        <3>1. PICK f \in Nat : f = filled /\ c = f
            BY <1>3
        <3>2. c <= f
            BY <3>1
        <3>3. QED
            BY <1>3, <2>1, <3>1, <3>2, Zenon
    <2>4. buffer' \in Seq(Nat) /\ Len(buffer') <= filled /\ buffer' = Cut(input, c, filled)
        BY <1>2, <1>3, <2>2, Zenon
    <2>5. QED
        BY <2>2, <2>3, <2>4, Zenon DEF Moved
<1>5. ending' \in Endings /\ UNCHANGED <<part, want, got>>
    BY <1>1 DEF Endings
<1>6. SUFFICES Meaning(input) = [frames |-> got, ending |-> ending']
    BY <1>4, <1>5, HasEnded
<1>7. CASE InHeader /\ Meaning(input) = Then(got, Readings(input)[Consumed - Len(part) + 1])
    <2>1. PICK i \in 1..(Len(input) + 1), p \in Nat :
            /\ i = Consumed - Len(part) + 1 /\ p = Len(part) /\ p < 4
            /\ i = Len(input) - p + 1
        <3>1. Len(part) \in Nat /\ Len(part) < 4 /\ Len(part) <= c
            BY <1>2, <1>3, <1>7 DEF InHeader
        <3>2. c - Len(part) + 1 \in 1..(Len(input) + 1)
            BY <1>3, <3>1
        <3>3. QED
            BY <1>3, <3>1, <3>2
    <2>2. CASE part = <<>>
        <3>1. p = 0
            BY <2>1, <2>2
        <3>2. At(input, i) = "eof"
            <4>1. i = Len(input) + 1
                BY <1>2, <2>1, <3>1
            <4>2. QED
                BY <1>2, <4>1, EofAtEnd
        <3>3. ending' = "eof"
            BY <1>1, <1>7, <2>2 DEF Between, InHeader
        <3>4. QED
            <4>1. Readings(input)[i] = [frames |-> <<>>, ending |-> "eof"]
                BY <1>2, <3>2, ReadingStops
            <4>2. QED
                BY <1>2, <1>7, <2>1, <3>3, <4>1, ThenNothing
    <2>3. CASE part # <<>>
        <3>1. p >= 1
            BY <1>2, <2>1, <2>3
        <3>2. i # Len(input) + 1 /\ i + 4 - 1 > Len(input)
            BY <1>2, <2>1, <3>1, SMTT(60)
        <3>3. At(input, i) = "truncated"
            <4>1. At(input, i) = IF i = Len(input) + 1 THEN "eof"
                                 ELSE IF i + 4 - 1 > Len(input) THEN "truncated" ELSE At(input, i)
                BY DEF At, HeaderSize
            <4>2. QED
                BY <3>2, <4>1
        <3>4. ending' = "truncated"
            BY <1>1, <2>3 DEF Between
        <3>5. QED
            <4>1. Readings(input)[i] = [frames |-> <<>>, ending |-> "truncated"]
                BY <1>2, <3>3, ReadingStops
            <4>2. QED
                BY <1>2, <1>7, <2>1, <3>4, <4>1, ThenNothing
    <2>4. QED
        BY <2>2, <2>3
<1>8. CASE \E a \in 1..Len(input) : InPayload(a) /\ Meaning(input) = Then(got, Readings(input)[a])
    <2>1. PICK a \in 1..Len(input) : InPayload(a) /\ Meaning(input) = Then(got, Readings(input)[a])
        BY <1>8
    <2>2. /\ a >= 1 /\ a + 3 + Len(part) = c /\ want = input[a] /\ want <= MaxPayload
          /\ Len(part) < want /\ stage = "payload" /\ Len(part) \in Nat /\ a \in Nat
        <3>1. Len(part) \in Nat /\ a \in Nat
            BY <1>2
        <3>2. QED
            BY <1>3, <2>1, <3>1 DEF InPayload
    <2>3. a + 3 <= Len(input) /\ a + 3 + want > Len(input)
        <3>1. PICK p \in Nat, l \in Nat : p = Len(part) /\ l = Len(input) /\ a + 3 + p = l /\ p < want
            BY <1>2, <1>3, <2>2
        <3>2. a + 3 <= l /\ a + 3 + want > l
            BY <1>2, <2>2, <3>1
        <3>3. QED
            BY <3>1, <3>2
    <2>4. At(input, a) = "truncated" /\ a \in 1..(Len(input) + 1)
        <3>1. input[a] <= MaxPayload /\ a + 3 + input[a] > Len(input)
            BY <2>2, <2>3
        <3>2. QED
            BY <1>2, <2>2, <2>3, <3>1, HeaderThere
    <2>5. ending' = "truncated"
        BY <1>1, <2>2 DEF Between
    <2>6. QED
        <3>1. Readings(input)[a] = [frames |-> <<>>, ending |-> "truncated"]
            BY <1>2, <2>4, ReadingStops
        <3>2. QED
            BY <1>2, <2>1, <2>5, <3>1, ThenNothing
<1>9. CASE /\ InDiscard
           /\ IF Consumed + want > Len(input)
              THEN Meaning(input) = [frames |-> got, ending |-> "truncated"]
              ELSE Meaning(input) = Then(got, Readings(input)[Consumed + want + 1])
    <2>1. Consumed + want > Len(input)
        BY <1>2, <1>3
    <2>2. ending' = "truncated"
        BY <1>1, <1>9 DEF Between, InDiscard
    <2>3. QED
        BY <1>9, <2>1, <2>2
<1>10. QED
    BY <1>1, <1>7, <1>8, <1>9 DEF ReaderInv

LEMMA ReadErrorKeeps ==
    ASSUME ReaderInv, ReadError
    PROVE  ReaderInv'
<1>1. ending' = "error" /\ UNCHANGED <<input, filled, buffer, stage, hdr, part, want, got>>
    BY DEF ReadError
<1>2. ReaderType'
    BY <1>1 DEF ReaderInv, ReaderType
<1>3. Consumed' = Consumed
    BY <1>1 DEF Consumed
<1>4. buffer' = Cut(input', Consumed', filled')
    BY <1>1, <1>3 DEF ReaderInv
<1>5. IsPrefix(got, Meaning(input).frames)
    BY ReaderMeans DEF ChunksDoNotMatter
<1>6. QED
    BY <1>1, <1>2, <1>4, <1>5 DEF ReaderInv

LEMMA DrainKeeps ==
    ASSUME ReaderInv, DrainRead
    PROVE  ReaderInv'
<1>1. PICK k \in 1..Coming : filled' = filled + k
    BY DEF DrainRead
<1>2. /\ buffer' = <<>> /\ ending' = (IF ending = "none" THEN "refused" ELSE ending)
      /\ UNCHANGED <<input, stage, hdr, part, want, got>>
    BY DEF DrainRead
<1>3. ReaderType /\ ending \in Endings \cup {"none", "error", "refused"}
    BY DEF ReaderInv, ReaderType
<1>4. PICK f \in Nat : f = filled' /\ f <= Len(input) /\ input \in Seq(Nat)
    <2>1. input \in Seq(Nat) /\ filled \in Nat /\ Len(input) \in Nat
        BY <1>3 DEF ReaderType
    <2>2. filled + k \in Nat /\ filled + k <= Len(input)
        BY <2>1 DEF Coming
    <2>3. QED
        BY <1>1, <2>1, <2>2
<1>5. Len(buffer') = 0 /\ buffer' \in Seq(Nat)
    <2>1. Len(<<>>) = 0 /\ <<>> \in Seq(Nat)
        OBVIOUS
    <2>2. QED
        BY <1>2, <2>1, Zenon
<1>6. Consumed' = f
    <2>1. Consumed' = filled' - Len(buffer') /\ filled' = f /\ Len(buffer') = 0
        BY <1>4, <1>5 DEF Consumed
    <2>2. Consumed' = f - 0
        BY <2>1, Zenon
    <2>3. f - 0 = f
        OBVIOUS
    <2>4. QED
        BY <2>2, <2>3, Zenon
<1>7. ReaderType'
    <2>1. Len(buffer') <= filled'
        BY <1>4, <1>5
    <2>2. ending' \in Endings \cup {"none", "error", "refused"}
        BY <1>2, <1>3
    <2>3. QED
        BY <1>2, <1>3, <1>4, <1>5, <2>1, <2>2 DEF ReaderType
<1>8. buffer' = Cut(input', Consumed', filled')
    <2>1. Cut(input, f, f) = <<>>
        BY <1>4, CutNone
    <2>2. QED
        BY <1>2, <1>4, <1>6, <2>1
<1>9. CASE ending \in {"none", "error", "refused"}
    <2>1. IsPrefix(got, Meaning(input).frames)
        BY ReaderMeans DEF ChunksDoNotMatter
    <2>2. ending' \in {"error", "refused"}
        BY <1>2, <1>9
    <2>3. QED
        BY <1>2, <1>7, <1>8, <2>1, <2>2 DEF ReaderInv
<1>10. CASE ending \notin {"none", "error", "refused"}
    <2>1. Meaning(input) = [frames |-> got, ending |-> ending] /\ ending' = ending
        BY <1>2, <1>10 DEF ReaderInv
    <2>2. QED
        BY <1>2, <1>7, <1>8, <1>10, <2>1 DEF ReaderInv
<1>11. QED
    BY <1>9, <1>10

LEMMA ReaderStays ==
    ASSUME ReaderInv, UNCHANGED readerVars
    PROVE  ReaderInv'
<1>1. UNCHANGED <<input, filled, buffer, stage, hdr, part, want, got, ending>>
    BY DEF readerVars
<1>2. ReaderType' /\ Consumed' = Consumed
    BY <1>1 DEF ReaderInv, ReaderType, Consumed
<1>3. buffer' = Cut(input', Consumed', filled')
    BY <1>1, <1>2 DEF ReaderInv
<1>4. InHeader' = InHeader /\ InDiscard' = InDiscard
    BY <1>1, <1>2, Zenon DEF InHeader, InDiscard
<1>5. \A a : InPayload(a)' = InPayload(a)
    BY <1>1, <1>2, Zenon DEF InPayload
<1>6. CASE ending = "none"
    <2>1. Reading
        BY <1>6 DEF ReaderInv, Reading
    <2>2. Reading'
        BY <1>1, <1>2, <1>4, <1>5, <2>1, Zenon DEF Reading
    <2>3. QED
        BY <1>1, <1>2, <1>3, <1>6, <2>2 DEF ReaderInv, Reading
<1>7. CASE ending # "none"
    BY <1>1, <1>2, <1>3, <1>7 DEF ReaderInv
<1>8. QED
    BY <1>6, <1>7

LEMMA ReaderStepKeeps ==
    ASSUME ReaderInv, [Next]_vars
    PROVE  ReaderInv'
<1>1. CASE TappedRead
    BY <1>1, FillKeeps DEF TappedRead
<1>1a. CASE DrainRead
    BY <1>1a, DrainKeeps
<1>2. CASE ReaderStep
    BY <1>2, TakeKeeps, EndOfInputKeeps, ReadErrorKeeps DEF ReaderStep
<1>3. CASE TappedWrite \/ TapStep \/ FlushTap
    BY <1>3, ReaderStays DEF TappedWrite, TapStep, FlushTap
<1>4. CASE Finished \/ UNCHANGED vars
    BY <1>4, ReaderStays DEF Finished, vars
<1>5. QED
    BY <1>1, <1>1a, <1>2, <1>3, <1>4 DEF Next

-----------------------------------------------------------------------------
(* The tap, one direction at a time: C has crossed, h is held, L are the      *)
(* reports, b says that the framing is broken, f that the loop of feed runs   *)
(* and e that Flush has run.                                                  *)

Report == [kind : {"frame", "raw"}, num : Nat, bytes : Seq(Nat), at : Nat, count : Nat]

End(L) == IF L = <<>> THEN 0 ELSE Last(L).at + Last(L).count

Bytes(L, m) == [j \in 1..m |-> L[j].bytes]

\* Report r of L tells the truth, and starts where it has to.
Honest(C, L, j) ==
    /\ L[j].at = IF j = 1 THEN 0 ELSE L[j - 1].at + L[j - 1].count
    /\ L[j].at + L[j].count <= Len(C)
    /\ L[j].bytes = IF L[j].kind = "frame" THEN Cut(C, L[j].at, L[j].at + L[j].count)
                    ELSE Shown(Cut(C, L[j].at, L[j].at + L[j].count))

FramesFirst(L, m) ==
    m \in 0..Len(L) /\ \A j \in 1..Len(L) : L[j].kind = IF j <= m THEN "frame" ELSE "raw"

\* All that crossed is reported or held.
Accounted(C, h, L) ==
    /\ C \in Seq(Nat) /\ h \in Seq(Nat) /\ L \in Seq(Report)
    /\ \A j \in 1..Len(L) : Honest(C, L, j)
    /\ End(L) \in Nat /\ End(L) <= Len(C)
    /\ h = Cut(C, End(L), Len(C))

\* The frames of everything that may still cross are the ones reported, then
\* those after them; from a length nobody accepts on there are none.
Open(C, L) ==
    /\ FramesFirst(L, Len(L))
    /\ \A D \in Longer(C) : Framing(D) = Then(Bytes(L, Len(L)), Framings(D)[End(L) + 1])
Shut(C, L) ==
    \E m \in 0..Len(L) :
        /\ FramesFirst(L, m)
        /\ \A D \in Longer(C) : Framing(D) = [frames |-> Bytes(L, m), ending |-> "oversize"]
Over(C, L) ==
    \E m \in 0..Len(L), x \in {"eof", "truncated"} :
        FramesFirst(L, m) /\ Framing(C) = [frames |-> Bytes(L, m), ending |-> x]

Framed(C, h, L, b, f, e) ==
    /\ ~f => ~Unreadable(h) /\ ~Complete(h)
    /\ f => ~b /\ ~e
    /\ b \/ e => h = <<>>
    /\ IF b THEN Shut(C, L) ELSE IF e THEN Over(C, L) ELSE Open(C, L)

DirInv(d) ==
    /\ Accounted(Crossed(d), held[d], log[d])
    /\ Framed(Crossed(d), held[d], log[d], broken[d], feeding = d, flushed)

TapTypes ==
    /\ output \in Seq(Nat) /\ written \in Nat /\ written <= Len(output)
    /\ feeding \in Dirs \cup {"none"} /\ flushed \in BOOLEAN /\ seq \in Nat
    /\ broken \in [Dirs -> BOOLEAN] /\ held \in [Dirs -> Seq(Nat)] /\ log \in [Dirs -> Seq(Report)]

TapInv == TapTypes /\ \A d \in Dirs : DirInv(d)

-----------------------------------------------------------------------------
(* One report more *)

LEMMA OneMore ==
    ASSUME NEW L \in Seq(Report), NEW r \in Report
    PROVE  /\ Append(L, r) \in Seq(Report) /\ Len(Append(L, r)) = Len(L) + 1
           /\ \A j \in 1..Len(L) : Append(L, r)[j] = L[j]
           /\ Append(L, r)[Len(L) + 1] = r
           /\ End(Append(L, r)) = r.at + r.count
<1> HIDE DEF Report
<1>1. PICK M \in Seq(Report) :
        /\ M = Append(L, r) /\ Len(M) = Len(L) + 1 /\ M[Len(L) + 1] = r
        /\ \A j \in 1..Len(L) : M[j] = L[j]
    <2>1. Append(L, r) \in Seq(Report) /\ Len(Append(L, r)) = Len(L) + 1
        OBVIOUS
    <2>2. Append(L, r)[Len(L) + 1] = r
        OBVIOUS
    <2>3. \A j \in 1..Len(L) : Append(L, r)[j] = L[j]
        OBVIOUS
    <2>4. QED
        BY <2>1, <2>2, <2>3
<1>2. Len(L) \in Nat
    OBVIOUS
<1>3. M # <<>> /\ Last(M) = r
    BY <1>1, <1>2 DEF Last
<1>4. QED
    BY <1>1, <1>3 DEF End

LEMMA BytesFacts ==
    ASSUME NEW L \in Seq(Report), NEW m \in 0..Len(L)
    PROVE  /\ Bytes(L, m) \in Seq(Seq(Nat)) /\ Len(Bytes(L, m)) = m
           /\ \A j \in 1..m : Bytes(L, m)[j] = L[j].bytes
<1>1. \A j \in 1..m : L[j] \in Report
    OBVIOUS
<1>2. \A j \in 1..m : L[j].bytes \in Seq(Nat)
    BY <1>1 DEF Report
<1>3. m \in Nat
    OBVIOUS
<1>4. QED
    BY <1>2, <1>3 DEF Bytes

LEMMA BytesMore ==
    ASSUME NEW L \in Seq(Report), NEW r \in Report
    PROVE  /\ \A m \in 0..Len(L) : Bytes(Append(L, r), m) = Bytes(L, m)
           /\ Bytes(Append(L, r), Len(L) + 1) = Append(Bytes(L, Len(L)), r.bytes)
<1>1. PICK M \in Seq(Report), n \in Nat :
        /\ M = Append(L, r) /\ n = Len(L) /\ Len(M) = n + 1 /\ M[n + 1] = r
        /\ \A j \in 1..n : M[j] = L[j]
    <2>1. Len(L) \in Nat
        OBVIOUS
    <2>2. QED
        BY <2>1, OneMore, ZenonT(60)
<1>2. ASSUME NEW m \in 0..Len(L)
      PROVE  Bytes(M, m) = Bytes(L, m)
    <2>1. \A j \in 1..m : M[j] = L[j]
        BY <1>1
    <2>2. QED
        BY <2>1 DEF Bytes
<1>3. Bytes(M, n + 1) = Append(Bytes(L, n), r.bytes)
    <2>1. PICK x \in Seq(Seq(Nat)) : x = Bytes(L, n) /\ Len(x) = n /\ \A j \in 1..n : x[j] = L[j].bytes
        <3>1. n \in 0..Len(L)
            BY <1>1
        <3>2. QED
            BY <3>1, BytesFacts
    <2>2. PICK y \in Seq(Seq(Nat)) : y = Bytes(M, n + 1) /\ Len(y) = n + 1 /\ \A j \in 1..(n + 1) : y[j] = M[j].bytes
        <3>1. PICK l \in 0..Len(M) : l = n + 1
            BY <1>1
        <3>2. /\ Bytes(M, l) \in Seq(Seq(Nat)) /\ Len(Bytes(M, l)) = l
              /\ \A j \in 1..l : Bytes(M, l)[j] = M[j].bytes
            BY BytesFacts
        <3>3. QED
            BY <3>1, <3>2
    <2>3. r.bytes \in Seq(Nat)
        BY DEF Report
    <2>4. PICK z \in Seq(Seq(Nat)) : z = Append(x, r.bytes) /\ Len(z) = n + 1
                                     /\ z[n + 1] = r.bytes /\ \A j \in 1..n : z[j] = x[j]
        <3>1. PICK v \in Seq(Nat) : v = r.bytes
            BY <2>3
        <3>2. Append(x, v) \in Seq(Seq(Nat)) /\ Len(Append(x, v)) = Len(x) + 1
            OBVIOUS
        <3>3. Append(x, v)[Len(x) + 1] = v
            OBVIOUS
        <3>4. \A j \in 1..Len(x) : Append(x, v)[j] = x[j]
            OBVIOUS
        <3>5. QED
            BY <2>1, <3>1, <3>2, <3>3, <3>4
    <2>5. ASSUME NEW j \in 1..(n + 1)
          PROVE  y[j] = z[j]
        <3>1. j \in 1..n \/ j = n + 1
            OBVIOUS
        <3>2. QED
            BY <1>1, <2>1, <2>2, <2>4, <3>1
    <2>6. y = z
        BY <2>2, <2>4, <2>5, SameSequence
    <2>7. QED
        BY <2>1, <2>2, <2>4, <2>6
<1>4. QED
    BY <1>1, <1>2, <1>3

LEMMA FramesFirstMore ==
    ASSUME NEW L \in Seq(Report), NEW r \in Report, NEW m \in 0..Len(L), FramesFirst(L, m)
    PROVE  /\ m \in 0..Len(Append(L, r))
           /\ r.kind = "raw" => FramesFirst(Append(L, r), m)
           /\ r.kind = "frame" /\ m = Len(L) => FramesFirst(Append(L, r), Len(Append(L, r)))
<1>1. PICK M \in Seq(Report), n \in Nat :
        /\ M = Append(L, r) /\ n = Len(L) /\ Len(M) = n + 1 /\ M[n + 1] = r
        /\ \A j \in 1..n : M[j] = L[j]
    <2>1. Len(L) \in Nat
        OBVIOUS
    <2>2. QED
        BY <2>1, OneMore, ZenonT(60)
<1>2. m \in 0..Len(M) /\ n + 1 \in 0..Len(M) /\ ~(n + 1 <= m)
    BY <1>1
<1>3. \A j \in 1..n : M[j].kind = IF j <= m THEN "frame" ELSE "raw"
    BY <1>1 DEF FramesFirst
<1>4. \A j \in 1..(n + 1) : j \in 1..n \/ j = n + 1
    BY <1>1
<1>5. ASSUME r.kind = "raw"
      PROVE  FramesFirst(M, m)
    BY <1>1, <1>2, <1>3, <1>4, <1>5 DEF FramesFirst
<1>6. ASSUME r.kind = "frame", m = Len(L)
      PROVE  FramesFirst(M, n + 1)
    <2>1. \A j \in 1..(n + 1) : M[j].kind = "frame" /\ j <= n + 1
        <3>1. \A j \in 1..n : j <= m
            BY <1>1, <1>6
        <3>2. QED
            BY <1>1, <1>3, <1>4, <1>6, <3>1
    <2>2. QED
        BY <1>1, <1>2, <2>1 DEF FramesFirst
<1>7. QED
    BY <1>1, <1>2, <1>5, <1>6

-----------------------------------------------------------------------------
(* More of the stream *)

LEMMA CutOfMore ==
    ASSUME NEW C \in Seq(Nat), NEW x \in Seq(Nat), NEW a \in Nat, NEW b \in Nat, a <= b, b <= Len(C)
    PROVE  /\ Cut(C \o x, a, b) = Cut(C, a, b)
           /\ Cut(C \o x, a, Len(C \o x)) = Cut(C, a, Len(C)) \o x
<1> DEFINE D == C \o x
           n == Len(C)
           l == Len(D)
<1>1. /\ D \in Seq(Nat) /\ l = n + Len(x)
      /\ \A k \in 1..n : D[k] = C[k]
      /\ \A k \in 1..Len(x) : D[n + k] = x[k]
    BY JoinFacts
<1>1a. n \in Nat /\ l \in Nat /\ Len(x) \in Nat /\ n = Len(C) /\ l = Len(D) /\ D = C \o x
    BY <1>1
<1> HIDE DEF D, n, l
<1>2. n <= l /\ b <= l /\ a <= l /\ a <= n
    BY <1>1, <1>1a
<1>2a. D \in Seq(Nat) /\ n \in Nat /\ l \in Nat /\ n <= l /\ l <= Len(D) /\ a <= n
    BY <1>1, <1>1a, <1>2
<1>3. \A p \in Nat, q \in Nat : p <= q /\ q <= n => Cut(D, p, q) = Cut(C, p, q)
    <2>1. SUFFICES ASSUME NEW p \in Nat, NEW q \in Nat, p <= q, q <= n
                   PROVE  Cut(D, p, q) = Cut(C, p, q)
        OBVIOUS
    <2>2. p + 1 \in Nat /\ p + 1 >= 1 /\ q <= Len(C) /\ q <= Len(D)
        BY <1>1a, <1>2, <2>1
    <2>3. \A j \in (p + 1)..q : j \in 1..n
        BY <1>2a, <2>1
    <2>4. \A j \in (p + 1)..q : D[j] = C[j]
        BY <1>1, <2>3
    <2>5. QED
        BY <1>2a, <2>2, <2>4, SameCells DEF Cut
<1>4. Cut(D, n, l) = x
    <2>1. PICK y \in Seq(Nat) : y = Cut(D, n, l) /\ Len(y) = l - n /\ \A k \in 1..(l - n) : y[k] = D[n + k]
        BY <1>2a, CutFacts
    <2>2. l - n = Len(x)
        BY <1>1, <1>1a
    <2>3. \A k \in 1..Len(y) : y[k] = x[k]
        BY <1>1, <2>1, <2>2
    <2>4. y = x
        BY <2>1, <2>2, <2>3, SameSequence
    <2>5. QED
        BY <2>1, <2>4
<1>5. Cut(D, a, n) \o Cut(D, n, l) = Cut(D, a, l)
    BY <1>2a, CutJoin, ZenonT(60)
<1>6. Cut(D, a, b) = Cut(C, a, b) /\ Cut(D, a, n) = Cut(C, a, n)
    BY <1>1a, <1>2, <1>3
<1>7. QED
    BY <1>1a, <1>4, <1>5, <1>6

LEMMA LongerOfMore ==
    ASSUME NEW C \in Seq(Nat), NEW x \in Seq(Nat)
    PROVE  C \o x \in Seq(Nat) /\ Longer(C \o x) \subseteq Longer(C)
BY LongerLonger

\* What has been reported stays true when more crosses.
LEMMA HonestOfMore ==
    ASSUME NEW C \in Seq(Nat), NEW x \in Seq(Nat), NEW L \in Seq(Report), NEW j \in 1..Len(L),
           Honest(C, L, j)
    PROVE  Honest(C \o x, L, j)
<1>1. L[j] \in Report
    OBVIOUS
<1>2. PICK a \in Nat, n \in Nat, b \in Nat :
        a = L[j].at /\ n = L[j].count /\ b = L[j].at + L[j].count /\ b = a + n /\ b <= Len(C)
    <2>1. L[j].at \in Nat /\ L[j].count \in Nat
        BY <1>1 DEF Report
    <2>2. L[j].at + L[j].count \in Nat /\ L[j].at + L[j].count <= Len(C)
        BY <2>1 DEF Honest
    <2>3. QED
        BY <2>1, <2>2
<1>3. a <= b /\ b <= Len(C \o x)
    <2>1. Len(C \o x) = Len(C) + Len(x) /\ Len(C) \in Nat /\ Len(x) \in Nat
        OBVIOUS
    <2>2. QED
        BY <1>2, <2>1, SMTT(60)
<1>4. Cut(C \o x, a, b) = Cut(C, a, b)
    BY <1>2, <1>3, CutOfMore, ZenonT(60)
<1>5. QED
    BY <1>2, <1>3, <1>4, Zenon DEF Honest

LEMMA AccountedLonger ==
    ASSUME NEW C, NEW h, NEW L, NEW x \in Seq(Nat), Accounted(C, h, L)
    PROVE  Accounted(C \o x, h \o x, L)
<1>1. /\ C \in Seq(Nat) /\ h \in Seq(Nat) /\ L \in Seq(Report) /\ Len(C) \in Nat
      /\ End(L) \in Nat /\ End(L) <= Len(C) /\ h = Cut(C, End(L), Len(C))
    BY DEF Accounted
<1>2. C \o x \in Seq(Nat) /\ h \o x \in Seq(Nat)
    BY <1>1
<1>3. \A j \in 1..Len(L) : Honest(C \o x, L, j)
    <2>1. TAKE j \in 1..Len(L)
    <2>2. Honest(C, L, j)
        BY DEF Accounted
    <2>3. QED
        BY <1>1, <2>2, HonestOfMore
<1>4. End(L) <= Len(C \o x)
    <2>1. Len(C \o x) = Len(C) + Len(x) /\ Len(C) \in Nat /\ Len(x) \in Nat
        BY <1>1
    <2>2. QED
        BY <1>1, <2>1
<1>5. h \o x = Cut(C \o x, End(L), Len(C \o x))
    <2>1. PICK a \in Nat, b \in Nat : a = End(L) /\ b = Len(C) /\ a <= b
        BY <1>1
    <2>2. b <= Len(C)
        BY <2>1
    <2>3. Cut(C \o x, a, Len(C \o x)) = Cut(C, a, Len(C)) \o x
        BY <1>1, <2>1, <2>2, CutOfMore, SMTT(60)
    <2>4. QED
        BY <1>1, <2>1, <2>3
<1>6. QED
    BY <1>1, <1>2, <1>3, <1>4, <1>5 DEF Accounted

\* A report about the first n of the bytes that are held.
LEMMA AccountedMore ==
    ASSUME NEW C, NEW h, NEW L, NEW n \in Nat, NEW r \in Report, Accounted(C, h, L),
           n <= Len(h), r.at = End(L), r.count = n,
           r.bytes = IF r.kind = "frame" THEN Cut(h, 0, n) ELSE Shown(Cut(h, 0, n))
    PROVE  /\ Accounted(C, Cut(h, n, Len(h)), Append(L, r))
           /\ End(Append(L, r)) = End(L) + n
<1>1. /\ C \in Seq(Nat) /\ h \in Seq(Nat) /\ L \in Seq(Report) /\ Len(C) \in Nat
      /\ Len(L) \in Nat /\ Len(h) \in Nat
      /\ End(L) \in Nat /\ End(L) <= Len(C) /\ h = Cut(C, End(L), Len(C))
    BY DEF Accounted
<1>2. PICK a \in Nat, b \in Nat, c \in Nat :
        a = End(L) /\ b = a + n /\ c = Len(C) /\ a <= b /\ a <= c /\ c - a = Len(h)
    <2>1. PICK a \in Nat, c \in Nat : a = End(L) /\ c = Len(C) /\ a <= c
        BY <1>1
    <2>2. c <= Len(C)
        BY <2>1
    <2>3. Len(Cut(C, a, c)) = c - a
        BY <1>1, <2>1, <2>2, CutFacts, ZenonT(60)
    <2>4. c - a = Len(h)
        BY <1>1, <2>1, <2>3
    <2>5. a + n \in Nat /\ a <= a + n
        OBVIOUS
    <2>6. QED
        BY <2>1, <2>4, <2>5
<1>3. b <= c /\ n <= c - a /\ c <= Len(C) /\ a + 0 = a /\ 0 <= n /\ a + (c - a) = c
    BY <1>1, <1>2, SMTT(60)
<1>4. Cut(h, 0, n) = Cut(C, a, b)
    <2>0. C \in Seq(Nat) /\ a <= c /\ c <= Len(C) /\ 0 <= n /\ n <= c - a /\ 0 \in Nat
        BY <1>1, <1>2, <1>3
    <2>1. Cut(Cut(C, a, c), 0, n) = Cut(C, a + 0, a + n)
        BY <2>0, CutCut
    <2>2. QED
        BY <1>1, <1>2, <1>3, <2>1
<1>5. Cut(h, n, Len(h)) = Cut(C, b, c)
    <2>1. PICK l \in Nat : l = Len(h) /\ l <= c - a /\ n <= l /\ a + l = c
        BY <1>1, <1>2, <1>3, SMTT(60)
    <2>1a. C \in Seq(Nat) /\ a <= c /\ c <= Len(C) /\ n <= l /\ l <= c - a
        BY <1>1, <1>2, <1>3, <2>1
    <2>2. Cut(Cut(C, a, c), n, l) = Cut(C, a + n, a + l)
        BY <2>1a, CutCut
    <2>3. QED
        BY <1>1, <1>2, <2>1, <2>2
<1>6. Cut(h, n, Len(h)) \in Seq(Nat)
    BY <1>1, <1>3, <1>5, CutFacts
<1>7. PICK M \in Seq(Report) :
        /\ M = Append(L, r) /\ Len(M) = Len(L) + 1 /\ M[Len(L) + 1] = r
        /\ \A j \in 1..Len(L) : M[j] = L[j]
        /\ End(M) = r.at + r.count
    BY <1>1, OneMore
<1>8. End(M) = b
    BY <1>2, <1>7
<1>9. ASSUME NEW j \in 1..Len(L)
      PROVE  Honest(C, M, j)
    <2>1. Honest(C, L, j)
        BY DEF Accounted
    <2>2. j # 1 => j - 1 \in 1..Len(L)
        BY <1>1
    <2>3. M[j] = L[j] /\ (j # 1 => M[j - 1] = L[j - 1])
        BY <1>7, <2>2
    <2>4. QED
        BY <2>1, <2>3, Zenon DEF Honest
<1>10. Honest(C, M, Len(L) + 1)
    <2>1. PICK l \in Nat : l = Len(L) + 1
        BY <1>1
    <2>2. M[l] = r /\ r.at = a /\ r.at + r.count = b
        BY <1>2, <1>7, <2>1
    <2>3. r.at = IF l = 1 THEN 0 ELSE M[l - 1].at + M[l - 1].count
        <3>1. CASE L = <<>>
            <4>1. Len(<<>>) = 0
                OBVIOUS
            <4>2. Len(L) = 0
                BY <3>1, <4>1, Zenon
            <4>3. l = 1
                BY <2>1, <4>2
            <4>4. r.at = 0
                BY <3>1 DEF End
            <4>5. QED
                BY <4>3, <4>4
        <3>2. CASE L # <<>>
            <4>1. Len(L) >= 1
                BY <1>1, <3>2
            <4>2. l # 1 /\ l - 1 = Len(L) /\ Len(L) \in 1..Len(L)
                BY <1>1, <2>1, <4>1
            <4>3. M[Len(L)] = L[Len(L)]
                BY <1>7, <4>2
            <4>4. r.at = L[Len(L)].at + L[Len(L)].count
                BY <3>2 DEF End, Last
            <4>5. QED
                BY <4>2, <4>3, <4>4
        <3>3. QED
            BY <3>1, <3>2
    <2>4. b <= Len(C)
        BY <1>1, <1>2, <1>3
    <2>5. r.bytes = IF r.kind = "frame" THEN Cut(C, a, b) ELSE Shown(Cut(C, a, b))
        BY <1>4
    <2>6. Honest(C, M, l)
        BY <2>2, <2>3, <2>4, <2>5 DEF Honest
    <2>7. QED
        BY <2>1, <2>6
<1>11. \A j \in 1..Len(M) : Honest(C, M, j)
    <2>1. \A j \in 1..Len(M) : j \in 1..Len(L) \/ j = Len(L) + 1
        BY <1>1, <1>7, SMTT(60)
    <2>2. QED
        BY <1>9, <1>10, <2>1
<1>12. Accounted(C, Cut(h, n, Len(h)), M)
    <2>1. b <= Len(C) /\ Cut(h, n, Len(h)) = Cut(C, b, Len(C))
        BY <1>2, <1>3, <1>5
    <2>2. QED
        BY <1>1, <1>6, <1>7, <1>8, <1>11, <2>1 DEF Accounted
<1>13. QED
    BY <1>2, <1>7, <1>8, <1>12

-----------------------------------------------------------------------------
(* What the loop of feed finds in the buffer is what lies in the stream where *)
(* the reports end.                                                           *)

LEMMA HeldAt ==
    ASSUME NEW C, NEW h, NEW L, Accounted(C, h, L), NEW i \in Nat, i = End(L) + 1
    PROVE  /\ i \in 1..(Len(C) + 1)
           /\ Unreadable(h) => At(C, i) = "oversize"
           /\ ~Unreadable(h) /\ Complete(h) =>
                /\ At(C, i) = "frame" /\ h[1] \in Nat /\ 4 + h[1] <= Len(h)
                /\ FrameAt(C, i) = Cut(h, 0, 4 + h[1])
                /\ FrameEnd(C, i) = End(L) + (4 + h[1])
           /\ ~Unreadable(h) /\ ~Complete(h) =>
                At(C, i) \in {"eof", "truncated"} /\ Len(h) < HeaderSize + MaxPayload
<1>1. /\ C \in Seq(Nat) /\ h \in Seq(Nat) /\ Len(C) \in Nat /\ Len(h) \in Nat
      /\ End(L) \in Nat /\ End(L) <= Len(C) /\ h = Cut(C, End(L), Len(C))
    BY DEF Accounted
<1>2. PICK a \in Nat, c \in Nat, n \in Nat :
        a = End(L) /\ c = Len(C) /\ a <= c /\ n = Len(h) /\ i = a + 1
    BY <1>1
<1>3. n = c - a /\ \A k \in 1..(c - a) : h[k] = C[a + k]
    <2>1. a <= c /\ c <= Len(C) /\ h = Cut(C, a, c) /\ C \in Seq(Nat)
        BY <1>1, <1>2
    <2>2. Len(Cut(C, a, c)) = c - a /\ \A k \in 1..(c - a) : Cut(C, a, c)[k] = C[a + k]
        BY <2>1, CutFacts
    <2>3. QED
        BY <1>2, <2>1, <2>2
<1>4. i \in 1..(Len(C) + 1) /\ i + n = c + 1
    BY <1>2, <1>3
<1>5. CASE n < 4
    <2>1. ~Unreadable(h) /\ ~Complete(h)
        BY <1>2, <1>5 DEF Unreadable, Complete, HeaderSize
    <2>2. i = c + 1 \/ (i # c + 1 /\ i + 4 - 1 > c)
        BY <1>2, <1>4, <1>5, SMTT(60)
    <2>3. At(C, i) \in {"eof", "truncated"}
        BY <1>2, <2>2 DEF At, HeaderSize
    <2>4. Len(h) < HeaderSize + MaxPayload
        BY <1>2, <1>5, WireAssumption DEF HeaderSize
    <2>5. QED
        BY <1>4, <2>1, <2>3, <2>4
<1>6. CASE n >= 4
    <2>1. h[1] = C[i] /\ i >= 1 /\ i + 3 <= Len(C)
        <3>1. 1 \in 1..(c - a)
            BY <1>2, <1>3, <1>6
        <3>2. h[1] = C[a + 1]
            BY <1>3, <3>1
        <3>3. i >= 1 /\ i + 3 <= c
            BY <1>2, <1>4, <1>6, SMTT(60)
        <3>4. QED
            BY <1>2, <3>2, <3>3
    <2>2. /\ C[i] \in Nat /\ FrameEnd(C, i) = i + 3 + C[i]
          /\ C[i] > MaxPayload => At(C, i) = "oversize"
          /\ C[i] <= MaxPayload /\ i + 3 + C[i] > Len(C) => At(C, i) = "truncated"
          /\ C[i] <= MaxPayload /\ i + 3 + C[i] <= Len(C) => At(C, i) = "frame"
        BY <1>1, <2>1, HeaderThere
    <2>3. PICK v \in Nat : v = h[1] /\ v = C[i]
        BY <2>1, <2>2
    <2>4. Unreadable(h) <=> v > MaxPayload
        BY <1>2, <1>6, <2>3 DEF Unreadable, HeaderSize
    <2>5. Complete(h) <=> n >= 4 + v
        BY <1>2, <1>6, <2>3 DEF Complete, HeaderSize
    <2>6. Unreadable(h) => At(C, i) = "oversize"
        BY <2>2, <2>3, <2>4
    <2>7. ASSUME ~Unreadable(h), Complete(h)
          PROVE  /\ At(C, i) = "frame" /\ h[1] \in Nat /\ 4 + h[1] <= Len(h)
                 /\ FrameAt(C, i) = Cut(h, 0, 4 + h[1])
                 /\ FrameEnd(C, i) = End(L) + (4 + h[1])
        <3>1. v <= MaxPayload /\ n >= 4 + v
            BY <2>3, <2>4, <2>5, <2>7, WireAssumption
        <3>2. i + 3 + v <= c /\ i + 3 + v = a + (4 + v)
            BY <1>2, <1>4, <3>1, SMTT(60)
        <3>3. At(C, i) = "frame" /\ FrameEnd(C, i) = a + (4 + v)
            BY <1>2, <2>2, <2>3, <3>1, <3>2
        <3>4. PICK m \in Nat : m = 4 + v /\ m <= c - a
            BY <1>3, <3>1
        <3>5. C \in Seq(Nat) /\ a <= c /\ c <= Len(C) /\ 0 \in Nat /\ 0 <= m /\ m <= c - a
            BY <1>1, <1>2, <3>4
        <3>6. Cut(Cut(C, a, c), 0, m) = Cut(C, a + 0, a + m)
            BY <3>5, CutCut
        <3>7. FrameAt(C, i) = Cut(C, a, a + m)
            BY <1>2, <3>3, <3>4 DEF FrameAt, Cut
        <3>8. h = Cut(C, a, c) /\ a + 0 = a
            BY <1>1, <1>2
        <3>9. FrameAt(C, i) = Cut(h, 0, m)
            BY <3>6, <3>7, <3>8
        <3>10. QED
            BY <1>2, <2>3, <3>1, <3>3, <3>4, <3>9
    <2>8. ASSUME ~Unreadable(h), ~Complete(h)
          PROVE  At(C, i) \in {"eof", "truncated"} /\ Len(h) < HeaderSize + MaxPayload
        <3>1. v <= MaxPayload /\ n < 4 + v
            BY <2>3, <2>4, <2>5, <2>8, WireAssumption
        <3>2. i + 3 + v > c
            <4>1. i + n = c + 1 /\ n < 4 + v
                BY <1>4, <3>1
            <4>2. QED
                BY <4>1
        <3>3. At(C, i) = "truncated"
            BY <1>2, <2>2, <2>3, <3>1, <3>2
        <3>4. n < 4 + MaxPayload
            BY <3>1, WireAssumption
        <3>5. QED
            BY <1>2, <3>3, <3>4 DEF HeaderSize
    <2>9. QED
        BY <1>4, <2>6, <2>7, <2>8
<1>7. QED
    BY <1>2, <1>5, <1>6

-----------------------------------------------------------------------------
(* The steps of the tap, for one direction *)

LEMMA OpenOfMore ==
    ASSUME NEW C \in Seq(Nat), NEW x \in Seq(Nat), NEW L
    PROVE  /\ Open(C, L) => Open(C \o x, L)
           /\ Shut(C, L) => Shut(C \o x, L)
<1>1. \A D \in Longer(C \o x) : D \in Longer(C)
    BY LongerOfMore
<1>2. QED
    BY <1>1, Zenon DEF Open, Shut

LEMMA ShutMore ==
    ASSUME NEW C, NEW L \in Seq(Report), NEW r \in Report, r.kind = "raw"
    PROVE  /\ Shut(C, L) => Shut(C, Append(L, r))
           /\ Over(C, L) => Over(C, Append(L, r))
<1>1. \A m \in 0..Len(L) : FramesFirst(L, m) =>
        /\ m \in 0..Len(Append(L, r)) /\ FramesFirst(Append(L, r), m)
        /\ Bytes(Append(L, r), m) = Bytes(L, m)
    BY FramesFirstMore, BytesMore
<1>2. QED
    BY <1>1 DEF Shut, Over

\* A whole frame is reported.
LEMMA OpenMore ==
    ASSUME NEW C \in Seq(Nat), NEW L \in Seq(Report), NEW r \in Report, r.kind = "frame", Open(C, L),
           NEW i \in 1..(Len(C) + 1), i = End(L) + 1, At(C, i) = "frame",
           r.bytes = FrameAt(C, i), End(Append(L, r)) = FrameEnd(C, i)
    PROVE  Open(C, Append(L, r))
<1>1. FramesFirst(Append(L, r), Len(Append(L, r)))
    <2>1. Len(L) \in 0..Len(L) /\ FramesFirst(L, Len(L))
        BY DEF Open
    <2>2. QED
        BY <2>1, FramesFirstMore
<1>2. ASSUME NEW D \in Longer(C)
      PROVE  Framing(D) = Then(Bytes(Append(L, r), Len(Append(L, r))), Framings(D)[End(Append(L, r)) + 1])
    <2>1. /\ i \in 1..(Len(D) + 1) /\ At(D, i) = "frame"
          /\ FrameEnd(D, i) = FrameEnd(C, i) /\ FrameAt(D, i) = FrameAt(C, i)
        BY LongerFrame
    <2>2. D \in Seq(Nat)
        BY DEF Longer
    <2>3. PICK e : e = FrameEnd(C, i) + 1 /\ e \in 1..(Len(D) + 1)
        <3>1. FrameEnd(D, i) + 1 \in (i + 4)..(Len(D) + 1)
            <4>1. D \in Seq(Nat) /\ i \in 1..(Len(D) + 1) /\ At(D, i) = "frame"
                BY <2>1, <2>2
            <4>2. QED
                BY <4>1, FrameLies
        <3>2. FrameEnd(D, i) + 1 \in 1..(Len(D) + 1)
            <4>1. (i + 4)..(Len(D) + 1) \subseteq 1..(Len(D) + 1)
                BY <2>2
            <4>2. QED
                BY <3>1, <4>1
        <3>3. QED
            BY <2>1, <3>2
    <2>4. Framings(D)[i] = Then(<<r.bytes>>, Framings(D)[e])
        BY <2>1, <2>2, <2>3, FramingGoesOn
    <2>5. PICK g \in Seq(Seq(Nat)) : g = Bytes(L, Len(L))
        <3>1. Len(L) \in 0..Len(L)
            OBVIOUS
        <3>2. QED
            BY <3>1, BytesFacts
    <2>6. Framing(D) = Then(g, Framings(D)[i])
        BY <2>5 DEF Open
    <2>7. Framings(D)[e].frames \in Seq(Seq(Nat))
        BY <2>2, <2>3, FramingsType DEF FramingResult
    <2>8. r.bytes \in Seq(Nat)
        BY DEF Report
    <2>9. Then(g, Then(<<r.bytes>>, Framings(D)[e])) = Then(Append(g, r.bytes), Framings(D)[e])
        BY <2>7, <2>8, ThenOne
    <2>10. Bytes(Append(L, r), Len(Append(L, r))) = Append(g, r.bytes)
        BY <2>5, BytesMore, OneMore
    <2>11. QED
        BY <2>3, <2>4, <2>6, <2>9, <2>10
<1>3. QED
    BY <1>1, <1>2 DEF Open

\* A length nobody accepts ends the framing, of all that may still cross.
LEMMA OpenShuts ==
    ASSUME NEW C \in Seq(Nat), NEW L \in Seq(Report), Open(C, L),
           NEW i \in 1..(Len(C) + 1), i = End(L) + 1, At(C, i) = "oversize"
    PROVE  Shut(C, L)
<1>1. PICK m \in 0..Len(L) : m = Len(L)
    OBVIOUS
<1>2. PICK g \in Seq(Seq(Nat)) : g = Bytes(L, m)
    BY BytesFacts
<1>3. ASSUME NEW D \in Longer(C)
      PROVE  Framing(D) = [frames |-> g, ending |-> "oversize"]
    <2>1. i \in 1..(Len(D) + 1) /\ At(D, i) = "oversize"
        BY LongerOversize
    <2>2. D \in Seq(Nat)
        BY DEF Longer
    <2>3. Framings(D)[i] = [frames |-> <<>>, ending |-> "oversize"]
        BY <2>1, <2>2, FramingStops
    <2>4. Framing(D) = Then(g, Framings(D)[i])
        BY <1>1, <1>2 DEF Open
    <2>5. QED
        BY <2>3, <2>4, ThenNothing
<1>4. FramesFirst(L, m)
    BY <1>1 DEF Open
<1>5. QED
    BY <1>2, <1>3, <1>4 DEF Shut

\* The bytes end there.
LEMMA OpenEnds ==
    ASSUME NEW C \in Seq(Nat), NEW L \in Seq(Report), Open(C, L),
           NEW i \in 1..(Len(C) + 1), i = End(L) + 1, At(C, i) \in {"eof", "truncated"}
    PROVE  Over(C, L) /\ Framing(C) = [frames |-> Bytes(L, Len(L)), ending |-> At(C, i)]
<1>1. PICK m \in 0..Len(L) : m = Len(L)
    OBVIOUS
<1>2. PICK g \in Seq(Seq(Nat)) : g = Bytes(L, m)
    BY BytesFacts
<1>3. C \in Longer(C)
    BY LongerItself
<1>4. Framings(C)[i] = [frames |-> <<>>, ending |-> At(C, i)]
    BY FramingStops
<1>5. Framing(C) = Then(g, Framings(C)[i])
    BY <1>1, <1>2, <1>3 DEF Open
<1>6. Framing(C) = [frames |-> g, ending |-> At(C, i)]
    BY <1>4, <1>5, ThenNothing
<1>7. FramesFirst(L, m)
    BY <1>1 DEF Open
<1>8. QED
    BY <1>1, <1>2, <1>6, <1>7 DEF Over

-----------------------------------------------------------------------------
(* The steps of the tap *)

LEMMA ShownType ==
    ASSUME NEW b \in Seq(Nat)
    PROVE  Shown(b) \in Seq(Nat)
<1>1. CASE Len(b) > RawPreview
    <2>1. SubSeq(b, 1, RawPreview) = Cut(b, 0, RawPreview)
        BY DEF Cut
    <2>2. 0 \in Nat /\ RawPreview \in Nat /\ 0 <= RawPreview /\ RawPreview <= Len(b)
        BY <1>1, TapAssumption
    <2>3. Cut(b, 0, RawPreview) \in Seq(Nat)
        BY <2>2, CutFacts
    <2>4. QED
        BY <1>1, <2>1, <2>3 DEF Shown
<1>2. CASE ~(Len(b) > RawPreview)
    BY <1>2 DEF Shown
<1>3. QED
    BY <1>1, <1>2

LEMMA ToldIsEnd == \A d : Told(d) = End(log[d])
BY DEF Told, End

LEMMA RawFacts ==
    ASSUME NEW d \in Dirs, NEW b \in Seq(Nat), End(log[d]) \in Nat
    PROVE  /\ RawReport(d, b) \in Report /\ RawReport(d, b).kind = "raw"
           /\ RawReport(d, b).at = End(log[d]) /\ RawReport(d, b).count = Len(b)
           /\ RawReport(d, b).bytes = Shown(b)
<1>1. RawReport(d, b) = [kind |-> "raw", num |-> 0, bytes |-> Shown(b), at |-> End(log[d]), count |-> Len(b)]
    BY ToldIsEnd DEF RawReport
<1>2. Shown(b) \in Seq(Nat) /\ Len(b) \in Nat
    BY ShownType
<1>3. QED
    BY <1>1, <1>2 DEF Report

LEMMA FrameFacts ==
    ASSUME NEW d \in Dirs, NEW b \in Seq(Nat), End(log[d]) \in Nat, seq \in Nat
    PROVE  /\ FrameReport(d, b) \in Report /\ FrameReport(d, b).kind = "frame"
           /\ FrameReport(d, b).at = End(log[d]) /\ FrameReport(d, b).count = Len(b)
           /\ FrameReport(d, b).bytes = b
<1>1. FrameReport(d, b) = [kind |-> "frame", num |-> seq + 1, bytes |-> b, at |-> End(log[d]), count |-> Len(b)]
    BY ToldIsEnd DEF FrameReport
<1>2. Len(b) \in Nat /\ seq + 1 \in Nat
    OBVIOUS
<1>3. QED
    BY <1>1, <1>2 DEF Report

\* A direction that a step does not touch.
LEMMA DirStays ==
    ASSUME NEW d \in Dirs, DirInv(d), Crossed(d)' = Crossed(d), held'[d] = held[d], log'[d] = log[d],
           broken'[d] = broken[d], (feeding' = d) = (feeding = d), flushed' = flushed
    PROVE  DirInv(d)'
<1>1. Accounted(Crossed(d)', held'[d], log'[d])
    BY DEF DirInv
<1>2. Framed(Crossed(d)', held'[d], log'[d], broken'[d], feeding' = d, flushed')
    BY DEF DirInv
<1>3. QED
    BY <1>1, <1>2 DEF DirInv

\* The whole of what is held is reported as no frame.
LEMMA AllRaw ==
    ASSUME NEW C, NEW h, NEW L, NEW r \in Report, Accounted(C, h, L),
           r.kind = "raw", r.at = End(L), r.count = Len(h), r.bytes = Shown(h)
    PROVE  Accounted(C, <<>>, Append(L, r)) /\ Append(L, r) \in Seq(Report)
<1>1. h \in Seq(Nat) /\ Len(h) \in Nat /\ Len(h) <= Len(h)
    BY DEF Accounted
<1>2. Cut(h, 0, Len(h)) = h
    BY <1>1, CutAll
<1>3. Cut(h, Len(h), Len(h)) = <<>>
    BY <1>1, CutNone
<1>4. PICK n \in Nat : n = Len(h)
    BY <1>1
<1>5. r.bytes = IF r.kind = "frame" THEN Cut(h, 0, n) ELSE Shown(Cut(h, 0, n))
    BY <1>2, <1>4
<1>6. Accounted(C, Cut(h, n, Len(h)), Append(L, r))
    BY <1>1, <1>4, <1>5, AccountedMore
<1>7. QED
    BY <1>3, <1>4, <1>6 DEF Accounted

LEMMA NothingHeld ==
    ~Unreadable(<<>>) /\ ~Complete(<<>>)
<1>1. Len(<<>>) = 0
    OBVIOUS
<1>2. ~(Len(<<>>) >= 4)
    BY <1>1
<1>3. QED
    BY <1>2 DEF Unreadable, Complete, HeaderSize

LEMMA FeedKeeps ==
    ASSUME NEW d \in Dirs, NEW b \in Seq(Nat), TapTypes, DirInv(d), Feed(d, b), ~flushed,
           Crossed(d)' = Crossed(d) \o b
    PROVE  DirInv(d)'
<1> DEFINE C == Crossed(d)
           h == held[d]
           L == log[d]
<1>1. /\ Accounted(C, h, L) /\ Framed(C, h, L, broken[d], feeding = d, flushed)
      /\ C \in Seq(Nat) /\ h \in Seq(Nat) /\ L \in Seq(Report) /\ End(L) \in Nat
    BY DEF DirInv, Accounted
<1>2. feeding = "none" /\ broken' = broken /\ flushed' = flushed /\ flushed = FALSE /\ broken[d] \in BOOLEAN
    BY DEF Feed, TapTypes
<1>3. feeding # d
    BY <1>2 DEF Dirs
<1>4. Accounted(C \o b, h \o b, L)
    BY <1>1, AccountedLonger
<1>5. Open(C, L) => Open(C \o b, L)
    BY <1>1, OpenOfMore
<1>6. CASE broken[d]
    <2>1. log' = [log EXCEPT ![d] = Append(@, RawReport(d, b))] /\ held' = held /\ feeding' = feeding
        BY <1>6 DEF Feed, Prints
    <2>2. h = <<>> /\ Shut(C, L)
        BY <1>1, <1>6 DEF Framed
    <2>3. PICK r \in Report :
            /\ r = RawReport(d, b) /\ r.kind = "raw" /\ r.at = End(L) /\ r.count = Len(b)
            /\ r.bytes = Shown(b)
        BY <1>1, RawFacts
    <2>4. h \o b = b
        BY <2>2
    <2>5. Accounted(C \o b, <<>>, Append(L, r)) /\ Append(L, r) \in Seq(Report)
        BY <1>4, <2>3, <2>4, AllRaw
    <2>6. Shut(C \o b, Append(L, r))
        <3>1. Shut(C \o b, L)
            BY <1>1, <2>2, OpenOfMore
        <3>2. QED
            BY <1>1, <2>3, <3>1, ShutMore
    <2>7. log'[d] = Append(L, r) /\ held'[d] = <<>> /\ broken'[d] = TRUE
        BY <1>2, <1>6, <2>1, <2>2, <2>3 DEF TapTypes
    <2>8. (feeding' = d) = FALSE
        BY <1>3, <2>1
    <2>9. Framed(C \o b, <<>>, Append(L, r), TRUE, FALSE, FALSE)
        BY <2>6, NothingHeld DEF Framed
    <2>10. QED
        BY <1>2, <2>5, <2>7, <2>8, <2>9, Zenon DEF DirInv
<1>7. CASE ~broken[d]
    <2>1. held' = [held EXCEPT ![d] = @ \o b] /\ feeding' = d /\ log' = log
        BY <1>7 DEF Feed
    <2>2. Open(C, L)
        BY <1>1, <1>2, <1>7 DEF Framed
    <2>3. held'[d] = h \o b /\ log'[d] = L /\ broken'[d] = FALSE /\ (feeding' = d) = TRUE
        BY <1>2, <1>7, <2>1 DEF TapTypes
    <2>4. Framed(C \o b, h \o b, L, FALSE, TRUE, FALSE)
        BY <1>5, <2>2 DEF Framed
    <2>5. QED
        BY <1>2, <1>4, <2>3, <2>4, Zenon DEF DirInv
<1>8. QED
    BY <1>6, <1>7

LEMMA LoopKeeps ==
    ASSUME NEW d \in Dirs, TapTypes, DirInv(d), Crossed(d)' = Crossed(d),
           FeedBroken(d) \/ FeedDone(d) \/ FeedFrame(d)
    PROVE  DirInv(d)'
<1> DEFINE C == Crossed(d)
           h == held[d]
           L == log[d]
<1>1. /\ Accounted(C, h, L) /\ Framed(C, h, L, broken[d], feeding = d, flushed)
      /\ C \in Seq(Nat) /\ h \in Seq(Nat) /\ L \in Seq(Report) /\ End(L) \in Nat /\ Len(C) \in Nat
    BY DEF DirInv, Accounted
<1>2. feeding = d /\ flushed' = flushed /\ broken[d] \in BOOLEAN /\ flushed \in BOOLEAN
    BY DEF FeedBroken, FeedDone, FeedFrame, TapTypes
<1>3. broken[d] = FALSE /\ flushed = FALSE /\ Open(C, L)
    BY <1>1, <1>2 DEF Framed
<1>4. PICK i \in Nat : i = End(L) + 1
    BY <1>1
<1>5. /\ i \in 1..(Len(C) + 1)
      /\ Unreadable(h) => At(C, i) = "oversize"
      /\ ~Unreadable(h) /\ Complete(h) =>
           /\ At(C, i) = "frame" /\ h[1] \in Nat /\ 4 + h[1] <= Len(h)
           /\ FrameAt(C, i) = Cut(h, 0, 4 + h[1])
           /\ FrameEnd(C, i) = End(L) + (4 + h[1])
    BY <1>1, <1>4, HeldAt
<1>6. CASE FeedBroken(d)
    <2>1. /\ Unreadable(h) /\ broken' = [broken EXCEPT ![d] = TRUE]
          /\ log' = [log EXCEPT ![d] = Append(@, RawReport(d, h))]
          /\ held' = [held EXCEPT ![d] = <<>>] /\ feeding' = "none"
        BY <1>6 DEF FeedBroken, Prints
    <2>2. PICK r \in Report :
            /\ r = RawReport(d, h) /\ r.kind = "raw" /\ r.at = End(L) /\ r.count = Len(h)
            /\ r.bytes = Shown(h)
        BY <1>1, RawFacts
    <2>3. Accounted(C, <<>>, Append(L, r))
        BY <1>1, <2>2, AllRaw
    <2>4. Shut(C, Append(L, r))
        <3>1. Shut(C, L)
            BY <1>1, <1>3, <1>4, <1>5, <2>1, OpenShuts
        <3>2. QED
            BY <1>1, <2>2, <3>1, ShutMore
    <2>5. log'[d] = Append(L, r) /\ held'[d] = <<>> /\ broken'[d] = TRUE
        BY <2>1, <2>2 DEF TapTypes
    <2>6. (feeding' = d) = FALSE
        BY <2>1 DEF Dirs
    <2>7. Framed(C, <<>>, Append(L, r), TRUE, FALSE, FALSE)
        BY <2>4, NothingHeld DEF Framed
    <2>8. QED
        BY <1>2, <1>3, <2>3, <2>5, <2>6, <2>7, Zenon DEF DirInv
<1>7. CASE FeedDone(d)
    <2>1. /\ ~Unreadable(h) /\ ~Complete(h) /\ feeding' = "none"
          /\ held' = held /\ broken' = broken /\ log' = log
        BY <1>7 DEF FeedDone
    <2>2. (feeding' = d) = FALSE
        BY <2>1 DEF Dirs
    <2>3. Framed(C, h, L, FALSE, FALSE, FALSE)
        BY <1>3, <2>1 DEF Framed
    <2>4. QED
        BY <1>1, <1>2, <1>3, <2>1, <2>2, <2>3, Zenon DEF DirInv
<1>8. CASE FeedFrame(d)
    <2>1. ~Unreadable(h) /\ Complete(h)
        BY <1>8 DEF FeedFrame
    <2>2. PICK n \in Nat : n = 4 + h[1] /\ n <= Len(h) /\ h[1] \in Nat
        BY <1>5, <2>1
    <2>3. /\ log' = [log EXCEPT ![d] = Append(@, FrameReport(d, Cut(h, 0, n)))]
          /\ held' = [held EXCEPT ![d] = Cut(h, n, Len(h))]
          /\ broken' = broken /\ feeding' = feeding
        BY <1>8, <2>2 DEF FeedFrame, Prints, Cut, HeaderSize
    <2>4. Cut(h, 0, n) \in Seq(Nat) /\ Len(Cut(h, 0, n)) = n
        <3>1. 0 \in Nat /\ 0 <= n /\ n - 0 = n
            OBVIOUS
        <3>2. QED
            BY <1>1, <2>2, <3>1, CutFacts
    <2>5. PICK r \in Report :
            /\ r = FrameReport(d, Cut(h, 0, n)) /\ r.kind = "frame" /\ r.at = End(L) /\ r.count = n
            /\ r.bytes = Cut(h, 0, n)
        BY <1>1, <2>4, FrameFacts DEF TapTypes
    <2>6. /\ Accounted(C, Cut(h, n, Len(h)), Append(L, r))
          /\ End(Append(L, r)) = End(L) + n
        <3>1. r.bytes = IF r.kind = "frame" THEN Cut(h, 0, n) ELSE Shown(Cut(h, 0, n))
            BY <2>5
        <3>2. Accounted(C, h, L) /\ n <= Len(h) /\ r.at = End(L) /\ r.count = n
            BY <1>1, <2>2, <2>5
        <3> HIDE DEF C, h, L
        <3>3. QED
            BY <3>1, <3>2, AccountedMore
    <2>7. Open(C, Append(L, r))
        <3>1. At(C, i) = "frame" /\ r.bytes = FrameAt(C, i) /\ End(Append(L, r)) = FrameEnd(C, i)
            BY <1>5, <2>1, <2>2, <2>5, <2>6
        <3>2. QED
            BY <1>1, <1>3, <1>4, <1>5, <2>5, <3>1, OpenMore
    <2>8. log'[d] = Append(L, r) /\ held'[d] = Cut(h, n, Len(h)) /\ broken'[d] = FALSE /\ (feeding' = d) = TRUE
        BY <1>2, <1>3, <2>3, <2>5 DEF TapTypes
    <2>9. Framed(C, Cut(h, n, Len(h)), Append(L, r), FALSE, TRUE, FALSE)
        BY <2>7 DEF Framed
    <2>10. QED
        BY <1>2, <1>3, <2>6, <2>8, <2>9, Zenon DEF DirInv
<1>9. QED
    BY <1>6, <1>7, <1>8

LEMMA FlushKeeps ==
    ASSUME NEW d \in Dirs, TapTypes, DirInv(d), Crossed(d)' = Crossed(d), Flush
    PROVE  DirInv(d)'
<1> DEFINE C == Crossed(d)
           h == held[d]
           L == log[d]
<1>1. /\ Accounted(C, h, L) /\ Framed(C, h, L, broken[d], feeding = d, flushed)
      /\ C \in Seq(Nat) /\ h \in Seq(Nat) /\ L \in Seq(Report) /\ End(L) \in Nat /\ Len(C) \in Nat
    BY DEF DirInv, Accounted
<1>2. /\ feeding = "none" /\ flushed = FALSE /\ flushed' = TRUE /\ feeding' = feeding /\ broken' = broken
      /\ log'[d] = IF h = <<>> THEN L ELSE Append(L, RawReport(d, h))
      /\ held'[d] = <<>> /\ broken[d] \in BOOLEAN
    BY DEF Flush, TapTypes
<1>3. (feeding' = d) = FALSE /\ feeding # d
    BY <1>2 DEF Dirs
<1>4. ~Unreadable(h) /\ ~Complete(h)
    BY <1>1, <1>3 DEF Framed
<1>5. PICK M \in Seq(Report) :
        /\ M = log'[d] /\ Accounted(C, <<>>, M)
        /\ Shut(C, L) => Shut(C, M)
        /\ Over(C, L) => Over(C, M)
    <2>1. CASE h = <<>>
        BY <1>1, <1>2, <2>1
    <2>2. CASE h # <<>>
        <3>1. PICK r \in Report :
                /\ r = RawReport(d, h) /\ r.kind = "raw" /\ r.at = End(L) /\ r.count = Len(h)
                /\ r.bytes = Shown(h)
            BY <1>1, RawFacts
        <3>2. Accounted(C, <<>>, Append(L, r)) /\ Append(L, r) \in Seq(Report)
            BY <1>1, <3>1, AllRaw
        <3>3. (Shut(C, L) => Shut(C, Append(L, r))) /\ (Over(C, L) => Over(C, Append(L, r)))
            BY <1>1, <3>1, ShutMore
        <3>4. log'[d] = Append(L, r)
            BY <1>2, <2>2, <3>1
        <3>5. QED
            BY <3>2, <3>3, <3>4
    <2>3. QED
        BY <2>1, <2>2
<1>6. CASE broken[d]
    <2>1. Shut(C, M)
        BY <1>1, <1>5, <1>6 DEF Framed
    <2>2. Framed(C, <<>>, M, TRUE, FALSE, TRUE)
        BY <2>1, NothingHeld DEF Framed
    <2>3. broken'[d] = TRUE
        BY <1>2, <1>6
    <2>4. QED
        BY <1>2, <1>3, <1>5, <2>2, <2>3, Zenon DEF DirInv
<1>7. CASE ~broken[d]
    <2>1. Open(C, L)
        BY <1>1, <1>2, <1>7 DEF Framed
    <2>2. PICK i \in Nat : i = End(L) + 1
        BY <1>1
    <2>3. i \in 1..(Len(C) + 1) /\ At(C, i) \in {"eof", "truncated"}
        BY <1>1, <1>4, <2>2, HeldAt
    <2>4. Over(C, M)
        BY <1>1, <1>5, <2>1, <2>2, <2>3, OpenEnds
    <2>5. Framed(C, <<>>, M, FALSE, FALSE, TRUE)
        BY <2>4, NothingHeld DEF Framed
    <2>6. broken'[d] = FALSE
        BY <1>2, <1>7
    <2>7. QED
        BY <1>2, <1>3, <1>5, <2>5, <2>6, Zenon DEF DirInv
<1>8. QED
    BY <1>6, <1>7

LEMMA TapStarts ==
    ASSUME Init
    PROVE  TapInv
<1>1. TapTypes
    <2>1. PICK t \in Traffic : output = t[2]
        BY DEF Init
    <2>2. output \in Seq(Nat)
        BY <2>1, TrafficAssumption
    <2>3. <<>> \in Seq(Nat) /\ <<>> \in Seq(Report) /\ Len(output) >= 0
        BY <2>2
    <2>4. QED
        BY <2>2, <2>3 DEF TapTypes, Init, TapInit
<1>2. ASSUME NEW d \in Dirs
      PROVE  DirInv(d)
    <2>1. /\ Crossed(d) = <<>> /\ held[d] = <<>> /\ log[d] = <<>> /\ broken[d] = FALSE
          /\ (feeding = d) = FALSE /\ flushed = FALSE
        <3>1. PICK t \in Traffic : ReaderInit(t[1]) /\ output = t[2]
            BY DEF Init
        <3>2. input \in Seq(Nat) /\ output \in Seq(Nat) /\ filled = 0 /\ written = 0
            BY <3>1, TrafficAssumption DEF ReaderInit, Init
        <3>3. Cut(input, 0, 0) = <<>> /\ Cut(output, 0, 0) = <<>>
            <4>1. 0 \in Nat /\ 0 <= Len(input) /\ 0 <= Len(output)
                BY <3>2
            <4>2. QED
                BY <3>2, <4>1, CutNone
        <3>4. Crossed(d) = <<>>
            BY <3>2, <3>3 DEF Crossed, Cut
        <3>5. QED
            BY <3>4 DEF Init, TapInit, Dirs
    <2>2. Len(<<>>) = 0 /\ <<>> \in Seq(Nat) /\ <<>> \in Seq(Report)
        OBVIOUS
    <2>3. End(<<>>) = 0
        BY DEF End
    <2>4. Accounted(<<>>, <<>>, <<>>)
        <3>1. Cut(<<>>, 0, 0) = <<>>
            BY <2>2 DEF Cut
        <3>2. \A j \in 1..Len(<<>>) : FALSE
            BY <2>2
        <3>3. End(<<>>) \in Nat /\ End(<<>>) <= Len(<<>>)
            BY <2>2, <2>3
        <3>4. <<>> = Cut(<<>>, End(<<>>), Len(<<>>))
            BY <2>2, <2>3, <3>1
        <3>5. QED
            BY <2>2, <3>2, <3>3, <3>4, Zenon DEF Accounted
    <2>5. Open(<<>>, <<>>)
        <3>1. FramesFirst(<<>>, Len(<<>>))
            BY <2>2 DEF FramesFirst
        <3>2. Bytes(<<>>, Len(<<>>)) = <<>>
            BY <2>2 DEF Bytes
        <3>3. ASSUME NEW D \in Longer(<<>>)
              PROVE  Framing(D) = Then(<<>>, Framings(D)[1])
            <4>1. D \in Seq(Nat) /\ 1 \in 1..(Len(D) + 1)
                BY DEF Longer
            <4>2. Framings(D)[1] \in [frames : Seq(Seq(Nat)), ending : Endings]
                BY <4>1, FramingsType DEF FramingResult
            <4>3. QED
                BY <4>2, AfterNothing DEF Framing
        <3>4. End(<<>>) + 1 = 1
            BY <2>3
        <3>5. QED
            BY <3>1, <3>2, <3>3, <3>4 DEF Open
    <2>6. Framed(<<>>, <<>>, <<>>, FALSE, FALSE, FALSE)
        BY <2>5, NothingHeld DEF Framed
    <2>7. QED
        BY <2>1, <2>4, <2>6, Zenon DEF DirInv
<1>3. QED
    BY <1>1, <1>2 DEF TapInv

-----------------------------------------------------------------------------
(* The connection *)

LEMMA CrossedFacts ==
    /\ Crossed("recv") = Cut(input, 0, filled)
    /\ Crossed("sent") = Cut(output, 0, written)
    /\ UNCHANGED <<input, filled>> => Crossed("recv")' = Crossed("recv")
    /\ UNCHANGED <<output, written>> => Crossed("sent")' = Crossed("sent")
<1>1. 0 + 1 = 1
    OBVIOUS
<1>2. QED
    BY <1>1 DEF Crossed, Cut

\* Feed leaves the other direction alone.
LEMMA FeedElsewhere ==
    ASSUME NEW d \in Dirs, NEW x \in Dirs, x # d, NEW b, TapTypes, Feed(x, b)
    PROVE  /\ held'[d] = held[d] /\ log'[d] = log[d] /\ broken'[d] = broken[d]
           /\ (feeding' = d) = (feeding = d) /\ flushed' = flushed
<1>1. feeding = "none" /\ "none" # d /\ (feeding' = feeding \/ feeding' = x) /\ broken' = broken /\ flushed' = flushed
    BY DEF Feed, Dirs
<1>2. held'[d] = held[d] /\ log'[d] = log[d]
    BY DEF Feed, Prints, TapTypes
<1>3. QED
    BY <1>1, <1>2

LEMMA LoopElsewhere ==
    ASSUME NEW d \in Dirs, NEW x \in Dirs, x # d, TapTypes,
           FeedBroken(x) \/ FeedDone(x) \/ FeedFrame(x)
    PROVE  /\ held'[d] = held[d] /\ log'[d] = log[d] /\ broken'[d] = broken[d]
           /\ (feeding' = d) = (feeding = d) /\ flushed' = flushed
<1>1. /\ feeding = x /\ "none" # d /\ (feeding' = feeding \/ feeding' = "none") /\ flushed' = flushed
      /\ broken'[d] = broken[d]
    BY DEF FeedBroken, FeedDone, FeedFrame, Dirs, TapTypes
<1>2. held'[d] = held[d] /\ log'[d] = log[d]
    BY DEF FeedBroken, FeedDone, FeedFrame, Prints, TapTypes
<1>3. QED
    BY <1>1, <1>2

\* The types of the tap's state.
LEMMA TypesFed ==
    ASSUME TapInv, NEW d \in Dirs, NEW b \in Seq(Nat), Feed(d, b)
    PROVE  /\ feeding' \in Dirs \cup {"none"} /\ flushed' \in BOOLEAN /\ seq' \in Nat
           /\ broken' \in [Dirs -> BOOLEAN] /\ held' \in [Dirs -> Seq(Nat)] /\ log' \in [Dirs -> Seq(Report)]
<1>1. TapTypes /\ held[d] \in Seq(Nat) /\ log[d] \in Seq(Report) /\ End(log[d]) \in Nat
    BY DEF TapInv, DirInv, Accounted
<1>2. RawReport(d, b) \in Report
    BY <1>1, RawFacts
<1>3. Append(log[d], RawReport(d, b)) \in Seq(Report) /\ held[d] \o b \in Seq(Nat)
    BY <1>1, <1>2
<1>4. QED
    BY <1>1, <1>3 DEF Feed, Prints, TapTypes

LEMMA TypesLoop ==
    ASSUME TapInv, NEW d \in Dirs, FeedBroken(d) \/ FeedDone(d) \/ FeedFrame(d)
    PROVE  /\ feeding' \in Dirs \cup {"none"} /\ flushed' \in BOOLEAN /\ seq' \in Nat
           /\ broken' \in [Dirs -> BOOLEAN] /\ held' \in [Dirs -> Seq(Nat)] /\ log' \in [Dirs -> Seq(Report)]
<1>1. /\ TapTypes /\ held[d] \in Seq(Nat) /\ log[d] \in Seq(Report) /\ End(log[d]) \in Nat
      /\ Accounted(Crossed(d), held[d], log[d])
    BY DEF TapInv, DirInv, Accounted
<1>2. CASE FeedDone(d)
    BY <1>1, <1>2 DEF FeedDone, TapTypes
<1>3. CASE FeedBroken(d)
    <2>1. RawReport(d, held[d]) \in Report
        BY <1>1, RawFacts
    <2>2. Append(log[d], RawReport(d, held[d])) \in Seq(Report) /\ <<>> \in Seq(Nat)
        BY <1>1, <2>1
    <2>3. QED
        BY <1>1, <1>3, <2>2 DEF FeedBroken, Prints, TapTypes
<1>4. CASE FeedFrame(d)
    <2>1. PICK i \in Nat : i = End(log[d]) + 1
        BY <1>1
    <2>2. ~Unreadable(held[d]) /\ Complete(held[d])
        BY <1>4 DEF FeedFrame
    <2>3. held[d][1] \in Nat /\ 4 + held[d][1] <= Len(held[d])
        BY <1>1, <2>1, <2>2, HeldAt
    <2>4. PICK n \in Nat, l \in Nat : n = 4 + held[d][1] /\ n <= l /\ l = Len(held[d])
        BY <1>1, <2>3
    <2>5. Cut(held[d], 0, n) \in Seq(Nat) /\ Cut(held[d], n, l) \in Seq(Nat)
        <3>1. 0 \in Nat /\ 0 <= n /\ n <= Len(held[d]) /\ n <= l /\ l <= Len(held[d])
            BY <2>4
        <3>2. QED
            BY <1>1, <3>1, CutFacts
    <2>6. FrameReport(d, Cut(held[d], 0, n)) \in Report
        BY <1>1, <2>5, FrameFacts DEF TapTypes
    <2>7. Append(log[d], FrameReport(d, Cut(held[d], 0, n))) \in Seq(Report)
        BY <1>1, <2>6
    <2>8. /\ log' = [log EXCEPT ![d] = Append(@, FrameReport(d, Cut(held[d], 0, n)))]
          /\ held' = [held EXCEPT ![d] = Cut(held[d], n, l)]
          /\ broken' = broken /\ feeding' = feeding /\ flushed' = flushed /\ seq' = seq + 1
        BY <1>4, <2>4 DEF FeedFrame, Prints, Cut, HeaderSize
    <2>9. QED
        BY <1>1, <2>5, <2>7, <2>8 DEF TapTypes
<1>5. QED
    BY <1>2, <1>3, <1>4

LEMMA TypesFlush ==
    ASSUME TapInv, Flush
    PROVE  /\ feeding' \in Dirs \cup {"none"} /\ flushed' \in BOOLEAN /\ seq' \in Nat
           /\ broken' \in [Dirs -> BOOLEAN] /\ held' \in [Dirs -> Seq(Nat)] /\ log' \in [Dirs -> Seq(Report)]
<1>1. TapTypes
    BY DEF TapInv
<1>2. ASSUME NEW d \in Dirs
      PROVE  (IF held[d] = <<>> THEN log[d] ELSE Append(log[d], RawReport(d, held[d]))) \in Seq(Report)
    <2>1. held[d] \in Seq(Nat) /\ log[d] \in Seq(Report) /\ End(log[d]) \in Nat
        BY DEF TapInv, DirInv, Accounted
    <2>2. RawReport(d, held[d]) \in Report
        BY <2>1, RawFacts
    <2>3. QED
        BY <2>1, <2>2
<1>3. <<>> \in Seq(Nat)
    OBVIOUS
<1>4. QED
    BY <1>1, <1>2, <1>3 DEF Flush, TapTypes

\* What tappedConn.Read hands over has crossed and is fed to the tap.
LEMMA ChunkCrosses ==
    ASSUME ReaderInv, NEW k \in 1..Coming, Feed("recv", Chunk(k)), filled' = filled + k, input' = input
    PROVE  \E b \in Seq(Nat) :
               /\ b = Chunk(k) /\ Len(b) = k
               /\ Feed("recv", b) /\ Crossed("recv")' = Crossed("recv") \o b
<1>1. input \in Seq(Nat) /\ filled \in Nat /\ filled <= Len(input) /\ Len(input) \in Nat
    BY DEF ReaderInv, ReaderType
<1>2. PICK f \in Nat : f = filled + k /\ filled <= f /\ f <= Len(input) /\ f - filled = k
    BY <1>1 DEF Coming
<1>3. Chunk(k) = Cut(input, filled, f)
    BY <1>2 DEF Chunk, Cut
<1>4. PICK b \in Seq(Nat) : b = Chunk(k) /\ Len(b) = f - filled
    BY <1>1, <1>2, <1>3, CutFacts
<1>5. Crossed("recv")' = Crossed("recv") \o b
    <2>1. /\ input \in Seq(Nat) /\ 0 \in Nat /\ filled \in Nat /\ f \in Nat
          /\ 0 <= filled /\ filled <= f /\ f <= Len(input)
        BY <1>1, <1>2
    <2>2. Cut(input, 0, filled) \o Cut(input, filled, f) = Cut(input, 0, f)
        BY <2>1, CutJoin
    <2>3. Crossed("recv")' = Cut(input, 0, f)
        BY <1>2, CrossedFacts DEF Crossed, Cut
    <2>4. QED
        BY <1>3, <1>4, <2>2, <2>3, CrossedFacts
<1>6. QED
    BY <1>2, <1>4, <1>5

LEMMA ReadCrosses ==
    ASSUME ReaderInv, TappedRead
    PROVE  /\ ~flushed /\ buffer' # <<>> /\ Consumed' = Consumed /\ ending = "none"
           /\ UNCHANGED <<input, stage, hdr, part, want, got, ending>>
           /\ \E b \in Seq(Nat) : Feed("recv", b) /\ Crossed("recv")' = Crossed("recv") \o b
<1>1. PICK k \in 1..Coming : Fill(k) /\ Feed("recv", Chunk(k))
    BY DEF TappedRead
<1>2. /\ ~flushed /\ ending = "none" /\ buffer = <<>> /\ buffer' = Chunk(k) /\ filled' = filled + k
      /\ UNCHANGED <<input, stage, hdr, part, want, got, ending>>
    BY <1>1 DEF TappedRead, Fill
<1>3. filled \in Nat /\ k \in Nat /\ k >= 1
    BY DEF ReaderInv, ReaderType, Coming
<1>4. PICK b \in Seq(Nat) :
        b = Chunk(k) /\ Len(b) = k /\ Feed("recv", b) /\ Crossed("recv")' = Crossed("recv") \o b
    BY <1>1, <1>2, ChunkCrosses
<1>5. Len(buffer) = 0 /\ Len(buffer') = k
    <2>1. Len(<<>>) = 0
        OBVIOUS
    <2>2. Len(buffer) = 0
        BY <1>2, <2>1, Zenon
    <2>3. QED
        BY <1>2, <1>4, <2>2
<1>6. Consumed' = Consumed
    <2>1. Consumed = filled - Len(buffer) /\ Consumed' = filled' - Len(buffer')
        BY DEF Consumed
    <2>2. QED
        BY <1>2, <1>3, <1>5, <2>1
<1>7. buffer' # <<>>
    BY <1>3, <1>5
<1>8. QED
    BY <1>2, <1>4, <1>6, <1>7

\* The same of what is read to drain the connection.
LEMMA DrainCrosses ==
    ASSUME ReaderInv, DrainRead
    PROVE  /\ ~flushed /\ got' = got /\ ending' \in Refusals /\ (ending' = ending \/ ending' = "refused")
           /\ UNCHANGED <<output, written>>
           /\ \E b \in Seq(Nat) : Feed("recv", b) /\ Crossed("recv")' = Crossed("recv") \o b
<1>1. PICK k \in 1..Coming : filled' = filled + k /\ Feed("recv", Chunk(k))
    BY DEF DrainRead
<1>2. /\ ~flushed /\ Offends /\ ending' = (IF ending = "none" THEN "refused" ELSE ending)
      /\ UNCHANGED <<input, got, output, written>>
    BY DEF DrainRead
<1>3. ending' \in Refusals /\ (ending' = ending \/ ending' = "refused")
    BY <1>2 DEF Offends, Refusals
<1>4. \E b \in Seq(Nat) : Feed("recv", b) /\ Crossed("recv")' = Crossed("recv") \o b
    BY <1>1, <1>2, ChunkCrosses
<1>5. QED
    BY <1>2, <1>3, <1>4

LEMMA TapKeeps ==
    ASSUME ReaderInv, TapInv, [Next]_vars
    PROVE  TapInv'
<1>1. TapTypes /\ \A d \in Dirs : DirInv(d)
    BY DEF TapInv
<1>2. /\ input \in Seq(Nat) /\ filled \in Nat /\ filled <= Len(input) /\ Len(input) \in Nat
      /\ output \in Seq(Nat) /\ written \in Nat /\ written <= Len(output) /\ Len(output) \in Nat
    BY <1>1 DEF ReaderInv, ReaderType, TapTypes
<1>3. "recv" \in Dirs /\ "sent" \in Dirs /\ "sent" # "recv" /\ \A d \in Dirs : d = "recv" \/ d = "sent"
    BY DEF Dirs
<1>4. CASE TappedRead \/ DrainRead
    <2>1. ~flushed /\ UNCHANGED <<output, written>>
        BY <1>4 DEF TappedRead, DrainRead
    <2>2. PICK b \in Seq(Nat) : Feed("recv", b) /\ Crossed("recv")' = Crossed("recv") \o b
        BY <1>4, ReadCrosses, DrainCrosses
    <2>3. DirInv("recv")'
        BY <1>1, <1>3, <2>1, <2>2, FeedKeeps
    <2>4. DirInv("sent")'
        <3>1. Crossed("sent")' = Crossed("sent")
            BY <2>1, CrossedFacts
        <3>2. QED
            BY <1>1, <1>3, <2>2, <3>1, FeedElsewhere, DirStays
    <2>5. TapTypes'
        BY <1>1, <1>3, <2>1, <2>2, TypesFed DEF TapTypes
    <2>6. QED
        BY <1>3, <2>3, <2>4, <2>5 DEF TapInv
<1>5. CASE TappedWrite
    <2>1. PICK k \in 1..(Len(output) - written) :
            Feed("sent", SubSeq(output, written + 1, written + k)) /\ written' = written + k
        BY <1>5 DEF TappedWrite
    <2>2. ~flushed /\ UNCHANGED <<input, filled, output>>
        BY <1>5 DEF TappedWrite, readerVars
    <2>3. PICK w \in Nat : w = written + k /\ written <= w /\ w <= Len(output)
        BY <1>2
    <2>4. PICK b \in Seq(Nat) : b = SubSeq(output, written + 1, written + k) /\ b = Cut(output, written, w)
        <3>1. Cut(output, written, w) \in Seq(Nat)
            BY <1>2, <2>3, CutFacts
        <3>2. QED
            BY <2>3, <3>1 DEF Cut
    <2>5. Crossed("sent")' = Crossed("sent") \o b
        <3>1. /\ output \in Seq(Nat) /\ 0 \in Nat /\ written \in Nat /\ w \in Nat
              /\ 0 <= written /\ written <= w /\ w <= Len(output)
            BY <1>2, <2>3
        <3>2. Cut(output, 0, written) \o Cut(output, written, w) = Cut(output, 0, w)
            BY <3>1, CutJoin
        <3>3. Crossed("sent")' = Cut(output, 0, w)
            BY <2>1, <2>2, <2>3 DEF Crossed, Cut
        <3>4. QED
            BY <2>4, <3>2, <3>3, CrossedFacts
    <2>6. DirInv("sent")'
        BY <1>1, <1>3, <2>1, <2>2, <2>4, <2>5, FeedKeeps
    <2>7. DirInv("recv")'
        <3>1. Crossed("recv")' = Crossed("recv")
            BY <2>2, CrossedFacts
        <3>2. QED
            BY <1>1, <1>3, <2>1, <3>1, FeedElsewhere, DirStays
    <2>8. TapTypes'
        <3>1. written' \in Nat /\ written' <= Len(output)
            BY <2>1, <2>3
        <3>2. QED
            BY <1>1, <1>3, <2>1, <2>2, <2>4, <3>1, TypesFed DEF TapTypes
    <2>9. QED
        BY <1>3, <2>6, <2>7, <2>8 DEF TapInv
<1>6. CASE TapStep
    <2>1. PICK x \in Dirs : FeedBroken(x) \/ FeedDone(x) \/ FeedFrame(x)
        BY <1>6 DEF TapStep, FeedLoop
    <2>2. UNCHANGED <<input, filled, output, written>>
        BY <1>6 DEF TapStep, readerVars
    <2>3. \A d \in Dirs : Crossed(d)' = Crossed(d)
        BY <2>2 DEF Crossed
    <2>4. TapTypes'
        BY <1>1, <2>1, <2>2, TypesLoop DEF TapTypes
    <2>5. ASSUME NEW d \in Dirs
          PROVE  DirInv(d)'
        <3>1. CASE d = x
            BY <1>1, <2>1, <2>3, <3>1, LoopKeeps
        <3>2. CASE d # x
            BY <1>1, <2>1, <2>3, <3>2, LoopElsewhere, DirStays
        <3>3. QED
            BY <3>1, <3>2
    <2>6. QED
        BY <2>4, <2>5 DEF TapInv
<1>7. CASE ReaderStep \/ Finished \/ UNCHANGED vars
    <2>1. UNCHANGED <<input, filled, output, written, held, broken, feeding, seq, log, flushed>>
        BY <1>7 DEF ReaderStep, Take, EndOfInput, ReadError, Finished, vars, tapVars, readerVars
    <2>2. \A d \in Dirs : Crossed(d)' = Crossed(d)
        BY <2>1 DEF Crossed
    <2>3. TapTypes'
        BY <1>1, <2>1 DEF TapTypes
    <2>4. \A d \in Dirs : DirInv(d)'
        BY <1>1, <2>1, <2>2, DirStays
    <2>5. QED
        BY <2>3, <2>4 DEF TapInv
<1>8. CASE FlushTap
    <2>1. Flush /\ UNCHANGED <<input, filled, output, written>>
        BY <1>8 DEF FlushTap, readerVars
    <2>2. \A d \in Dirs : Crossed(d)' = Crossed(d)
        BY <2>1 DEF Crossed
    <2>3. TapTypes'
        BY <1>1, <2>1, TypesFlush DEF TapTypes
    <2>4. \A d \in Dirs : DirInv(d)'
        BY <1>1, <2>1, <2>2, FlushKeeps
    <2>5. QED
        BY <2>3, <2>4 DEF TapInv
<1>9. QED
    BY <1>4, <1>5, <1>6, <1>7, <1>8 DEF Next

-----------------------------------------------------------------------------

LEMMA TapAccounts ==
    ASSUME TapInv
    PROVE  EveryByteReported
<1>1. SUFFICES ASSUME NEW d \in Dirs
      PROVE  /\ \A j \in DOMAIN log[d] :
                LET r == log[d][j]
                    about == SubSeq(Crossed(d), r.at + 1, r.at + r.count)
                IN  /\ r.at = IF j = 1 THEN 0 ELSE log[d][j - 1].at + log[d][j - 1].count
                    /\ r.at + r.count <= Len(Crossed(d))
                    /\ r.bytes = IF r.kind = "frame" THEN about ELSE Shown(about)
             /\ held[d] = SubSeq(Crossed(d), Told(d) + 1, Len(Crossed(d)))
             /\ feeding # d => Len(held[d]) < HeaderSize + MaxPayload
    BY DEF EveryByteReported
<1>2. /\ Accounted(Crossed(d), held[d], log[d])
      /\ Framed(Crossed(d), held[d], log[d], broken[d], feeding = d, flushed)
    BY DEF TapInv, DirInv
<1>3. \A j \in 1..Len(log[d]) : Honest(Crossed(d), log[d], j)
    BY <1>2 DEF Accounted
<1>4. DOMAIN log[d] = 1..Len(log[d])
    BY <1>2 DEF Accounted
<1>5. held[d] = SubSeq(Crossed(d), Told(d) + 1, Len(Crossed(d)))
    BY <1>2, ToldIsEnd DEF Accounted, Cut
<1>6. ASSUME feeding # d
      PROVE  Len(held[d]) < HeaderSize + MaxPayload
    <2>1. ~Unreadable(held[d]) /\ ~Complete(held[d])
        BY <1>2, <1>6 DEF Framed
    <2>2. PICK i \in Nat : i = End(log[d]) + 1
        BY <1>2 DEF Accounted
    <2>3. QED
        BY <1>2, <2>1, <2>2, HeldAt
<1>7. QED
    BY <1>3, <1>4, <1>5, <1>6 DEF Honest, Cut

LEMMA TapFrames ==
    ASSUME TapInv
    PROVE  PiecesDoNotMatter
<1>1. SUFFICES ASSUME NEW d \in Dirs, feeding # d
      PROVE  LET all == Framing(Crossed(d)) IN
             /\ Len(all.frames) <= Len(log[d])
             /\ \A j \in DOMAIN log[d] :
                 IF j <= Len(all.frames)
                 THEN log[d][j].kind = "frame" /\ log[d][j].bytes = all.frames[j]
                 ELSE log[d][j].kind = "raw" /\ (broken[d] \/ flushed)
             /\ broken[d] <=> all.ending = "oversize"
    BY DEF PiecesDoNotMatter
<1> DEFINE C == Crossed(d)
           h == held[d]
           L == log[d]
<1>2. /\ Accounted(C, h, L)
      /\ Framed(C, h, L, broken[d], feeding = d, flushed)
    BY DEF TapInv, DirInv
<1>3. C \in Seq(Nat) /\ L \in Seq(Report) /\ DOMAIN L = 1..Len(L) /\ Len(L) \in Nat
    BY <1>2 DEF Accounted
<1>4. \E m \in 0..Len(L), x \in {"eof", "truncated", "oversize"} :
        /\ FramesFirst(L, m)
        /\ Framing(C) = [frames |-> Bytes(L, m), ending |-> x]
        /\ broken[d] <=> x = "oversize"
        /\ ~broken[d] /\ ~flushed => m = Len(L)
    <2>1. CASE broken[d]
        <3>1. Shut(C, L)
            BY <1>2, <2>1 DEF Framed
        <3>2. C \in Longer(C)
            BY <1>3, LongerItself
        <3>3. QED
            BY <2>1, <3>1, <3>2 DEF Shut
    <2>2. CASE ~broken[d] /\ flushed
        <3>1. Over(C, L)
            BY <1>2, <2>2 DEF Framed
        <3>2. QED
            BY <2>2, <3>1 DEF Over
    <2>3. CASE ~broken[d] /\ ~flushed
        <3>1. Open(C, L) /\ ~Unreadable(h) /\ ~Complete(h)
            BY <1>1, <1>2, <2>3 DEF Framed
        <3>2. PICK i \in Nat : i = End(L) + 1
            BY <1>2 DEF Accounted
        <3>3. i \in 1..(Len(C) + 1) /\ At(C, i) \in {"eof", "truncated"}
            BY <1>2, <3>1, <3>2, HeldAt
        <3>4. Framing(C) = [frames |-> Bytes(L, Len(L)), ending |-> At(C, i)]
            BY <1>3, <3>1, <3>2, <3>3, OpenEnds
        <3>5. FramesFirst(L, Len(L)) /\ Len(L) \in 0..Len(L)
            BY <1>3, <3>1 DEF Open
        <3>6. QED
            BY <2>3, <3>3, <3>4, <3>5
    <2>4. QED
        BY <2>1, <2>2, <2>3
<1>5. PICK m \in 0..Len(L), x \in {"eof", "truncated", "oversize"} :
        /\ FramesFirst(L, m)
        /\ Framing(C) = [frames |-> Bytes(L, m), ending |-> x]
        /\ broken[d] <=> x = "oversize"
        /\ ~broken[d] /\ ~flushed => m = Len(L)
    BY <1>4
<1>6. Framing(C).frames = Bytes(L, m) /\ Framing(C).ending = x
    BY <1>5
<1>7. Len(Bytes(L, m)) = m /\ \A j \in 1..m : Bytes(L, m)[j] = L[j].bytes
    BY <1>3, BytesFacts
<1>8. Len(Framing(C).frames) = m /\ m <= Len(L)
    BY <1>3, <1>6, <1>7
<1>9. broken[d] <=> Framing(C).ending = "oversize"
    BY <1>5, <1>6
<1>10. ASSUME NEW j \in DOMAIN L
       PROVE  IF j <= Len(Framing(C).frames)
              THEN L[j].kind = "frame" /\ L[j].bytes = Framing(C).frames[j]
              ELSE L[j].kind = "raw" /\ (broken[d] \/ flushed)
    <2>1. j \in 1..Len(L) /\ j \in Nat /\ j >= 1 /\ j <= Len(L)
        BY <1>3
    <2>2. L[j].kind = IF j <= m THEN "frame" ELSE "raw"
        BY <1>5, <2>1 DEF FramesFirst
    <2>3. CASE j <= m
        <3>1. j \in 1..m
            BY <2>1, <2>3
        <3>2. QED
            BY <1>6, <1>7, <1>8, <2>2, <2>3, <3>1
    <2>4. CASE ~(j <= m)
        <3>1. m # Len(L)
            BY <2>1, <2>4
        <3>2. QED
            BY <1>5, <1>8, <2>2, <2>4, <3>1
    <2>5. QED
        BY <2>3, <2>4
<1>11. QED
    BY <1>8, <1>9, <1>10

LEMMA BothHold == Spec => [](ReaderInv /\ TapInv)
<1>1. Init => ReaderInv /\ TapInv
    <2>1. SUFFICES ASSUME Init PROVE ReaderInv /\ TapInv
        OBVIOUS
    <2>2. PICK t \in Traffic : ReaderInit(t[1])
        BY <2>1 DEF Init
    <2>3. t[1] \in Seq(Nat)
        BY TrafficAssumption
    <2>4. QED
        BY <2>1, <2>2, <2>3, ReaderStarts, TapStarts
<1>2. (ReaderInv /\ TapInv) /\ [Next]_vars => (ReaderInv /\ TapInv)'
    BY ReaderStepKeeps, TapKeeps
<1>3. QED
    BY <1>1, <1>2, PTL DEF Spec

\* However the bytes of a stream are split over reads of the connection,
\* frame.Read returns the frames of the stream in order, ends with the error the
\* stream calls for, and never waits for more than the protocol allows.
THEOREM SplitReads == Spec => []ChunksDoNotMatter
<1>1. ReaderInv /\ TapInv => ChunksDoNotMatter
    BY ReaderMeans
<1>2. QED
    BY <1>1, BothHold, PTL

\* Whatever crosses the connection, in both directions and in any pieces, the
\* tap loses no byte, repeats none and keeps their order: its reports follow one
\* another without a gap, show the bytes they are about, and the rest, which is
\* less than a frame, is held.
THEOREM NothingUnseen == Spec => []EveryByteReported
<1>1. ReaderInv /\ TapInv => EveryByteReported
    BY TapAccounts
<1>2. QED
    BY <1>1, BothHold, PTL

\* The frames the tap prints are those of the whole stream, however the bytes
\* came: a frame cut in two, several in one read, a length nobody accepts.
THEOREM SameFramesInAnyPieces == Spec => []PiecesDoNotMatter
<1>1. ReaderInv /\ TapInv => PiecesDoNotMatter
    BY TapFrames
<1>2. QED
    BY <1>1, BothHold, PTL

-----------------------------------------------------------------------------
(* The tap and the client *)

\* Where the first m reports end.
Ends(L, m) == IF m = 0 THEN 0 ELSE L[m].at + L[m].count

\* A report is about a whole frame.
Whole(C, r) ==
    /\ r.at + 1 \in 1..(Len(C) + 1) /\ At(C, r.at + 1) = "frame"
    /\ r.at + r.count = FrameEnd(C, r.at + 1)
    /\ r.bytes = Cut(C, r.at, r.at + r.count)

WholeFrames(C, L) == \A j \in 1..Len(L) : L[j].kind = "frame" => Whole(C, L[j])

\* Where the reader is, when the frame it is in begins after p bytes.
Place(p) ==
    \/ /\ stage = "header" /\ Len(part) < 4 /\ p + Len(part) = Consumed
    \/ /\ stage = "payload" /\ InPayload(p + 1)
    \/ /\ stage = "discard" /\ p + 4 <= Consumed /\ input[p + 1] <= MaxPayload /\ ~Known(input[p + 2])
       /\ p + 4 + input[p + 1] = Consumed + want

\* The reader has dealt with what the first m reports are about, p bytes.
Linked(m, p) ==
    /\ p = Ends(log["recv"], m)
    /\ \A j \in 1..m : log["recv"][j].kind = "frame"
    /\ got = Understood(log["recv"])[m]
    /\ ending \notin Refusals => Place(p)
    /\ ending = "oversize" => broken["recv"]

\* The reports about frames go up to the first thing in the stream that is none.
Caught(C, L, b, f) ==
    /\ FramesFirst(L, f)
    /\ Ends(L, f) + 1 \in 1..(Len(C) + 1)
    /\ At(C, Ends(L, f) + 1) \in IF b THEN {"oversize"} ELSE {"eof", "truncated"}
CaughtUp(C, L, b) == \E f \in 0..Len(L) : Caught(C, L, b, f)

LinkInv ==
    /\ feeding = "recv" => (buffer # <<>> \/ ending \in Refusals) /\ ~broken["recv"] /\ ~flushed
    /\ WholeFrames(Crossed("recv"), log["recv"])
    /\ feeding # "recv" => CaughtUp(Crossed("recv"), log["recv"], broken["recv"])
    /\ \E m \in 0..Len(log["recv"]), p \in Nat : Linked(m, p)

-----------------------------------------------------------------------------
(* Understood is what its equations say. *)

UnderstoodBody(L, u, n) ==
    IF n = 0 THEN <<>>
    ELSE IF L[n].kind = "frame" /\ Known(L[n].bytes[2])
         THEN Append(u[n - 1], DecodedAt(L[n].bytes, 1))
         ELSE u[n - 1]

LEMMA UnderstoodSolved ==
    ASSUME NEW L, NEW N \in Nat
    PROVE  \E u : u = [n \in 0..N |-> UnderstoodBody(L, u, n)]
<1> DEFINE Good(u, k) == /\ u = [n \in 0..N |-> u[n]]
                         /\ \A n \in 0..k : u[n] = UnderstoodBody(L, u, n)
           T == {k \in 0..N : \E u : Good(u, k)}
<1>1. 0 \in T
    <2> DEFINE u == [n \in 0..N |-> <<>>]
    <2>1. Good(u, 0)
        BY DEF UnderstoodBody
    <2>2. QED
        <3> HIDE DEF Good, u
        <3>1. QED
            BY <2>1
<1>2. ASSUME NEW k \in 0..(N - 1), k \in T
      PROVE  k + 1 \in T
    <2>1. PICK u : Good(u, k)
        BY <1>2
    <2> DEFINE v == [n \in 0..N |-> IF n = k + 1 THEN UnderstoodBody(L, u, k + 1) ELSE u[n]]
    <2>2. \A n \in 0..N : n # k + 1 => v[n] = u[n]
        OBVIOUS
    <2>3. v[k + 1] = UnderstoodBody(L, u, k + 1) /\ v = [n \in 0..N |-> v[n]]
        OBVIOUS
    <2> HIDE DEF v
    <2>4. ASSUME NEW n \in 0..(k + 1)
          PROVE  v[n] = UnderstoodBody(L, v, n)
        <3>1. n # 0 => v[n - 1] = u[n - 1]
            <4>1. n # 0 => n - 1 \in 0..N /\ n - 1 # k + 1
                OBVIOUS
            <4>2. QED
                BY <2>2, <4>1
        <3>2. UnderstoodBody(L, v, n) = UnderstoodBody(L, u, n)
            BY <3>1, Zenon DEF UnderstoodBody
        <3>3. CASE n = k + 1
            BY <2>3, <3>2, <3>3
        <3>4. CASE n # k + 1
            <4>1. n \in 0..k /\ n \in 0..N
                BY <3>4
            <4>2. QED
                BY <2>1, <2>2, <3>2, <3>4, <4>1
        <3>5. QED
            BY <3>3, <3>4
    <2>5. Good(v, k + 1)
        BY <2>3, <2>4
    <2>6. QED
        <3> HIDE DEF Good
        <3>1. k + 1 \in 0..N
            OBVIOUS
        <3>2. QED
            BY <2>5, <3>1
<1>3. N \in T
    <2> HIDE DEF T
    <2>1. \A k \in 0..(N - 1) : k \in T => k + 1 \in T
        BY <1>2
    <2>2. \A k \in 0..N : k \in T
        BY <1>1, <2>1, Ascend
    <2>3. QED
        BY <2>2
<1>4. PICK u : Good(u, N)
    BY <1>3
<1>5. u = [n \in 0..N |-> UnderstoodBody(L, u, n)]
    BY <1>4
<1>6. QED
    BY <1>5

LEMMA UnderstoodEquation ==
    ASSUME NEW L \in Seq(Report), NEW n \in 0..Len(L)
    PROVE  Understood(L)[n] = UnderstoodBody(L, Understood(L), n)
<1> DEFINE P(u) == u = [k \in 0..Len(L) |-> UnderstoodBody(L, u, k)]
<1>1. \E u : P(u)
    <2>1. Len(L) \in Nat
        OBVIOUS
    <2>2. QED
        BY <2>1, UnderstoodSolved
<1>2. P(CHOOSE u : P(u))
    <2> HIDE DEF P
    <2>1. QED
        BY <1>1, Zenon
<1>3. Understood(L) = CHOOSE u : P(u)
    BY Zenon DEF Understood, UnderstoodBody
<1>4. P(Understood(L))
    BY <1>2, <1>3, Zenon
<1>5. QED
    <2> DEFINE F == Understood(L)
    <2>1. F = [k \in 0..Len(L) |-> UnderstoodBody(L, F, k)]
        BY <1>4
    <2> HIDE DEF F
    <2>2. F[n] = UnderstoodBody(L, F, n)
        BY <2>1
    <2>3. QED
        BY <2>2 DEF F

\* One report more changes nothing about those before it.
LEMMA UnderstoodMore ==
    ASSUME NEW L \in Seq(Report), NEW r \in Report
    PROVE  \A n \in 0..Len(L) : Understood(Append(L, r))[n] = Understood(L)[n]
<1> DEFINE T == {n \in Nat : Understood(Append(L, r))[n] = Understood(L)[n]}
<1>1. PICK N \in Nat : N = Len(L)
    OBVIOUS
<1>2. PICK M \in Seq(Report) :
        M = Append(L, r) /\ Len(M) = N + 1 /\ \A j \in 1..N : M[j] = L[j]
    BY <1>1, OneMore
<1>3. 0 \in T
    <2>1. 0 \in 0..Len(L) /\ 0 \in 0..Len(M)
        BY <1>1, <1>2
    <2>2. Understood(M)[0] = <<>> /\ Understood(L)[0] = <<>>
        BY <2>1, UnderstoodEquation DEF UnderstoodBody
    <2>3. QED
        BY <1>2, <2>2
<1>4. ASSUME NEW k \in 0..(N - 1), k \in T
      PROVE  k + 1 \in T
    <2>1. PICK n \in Nat : n = k + 1 /\ n # 0 /\ n - 1 = k /\ n \in 1..N /\ n \in 0..Len(L) /\ n \in 0..Len(M)
        BY <1>1, <1>2
    <2>2. Understood(M)[n - 1] = Understood(L)[n - 1]
        BY <1>2, <1>4, <2>1
    <2>3. M[n] = L[n]
        BY <1>2, <2>1
    <2>4. Understood(M)[n] = UnderstoodBody(M, Understood(M), n) /\ Understood(L)[n] = UnderstoodBody(L, Understood(L), n)
        BY <2>1, UnderstoodEquation
    <2>5. UnderstoodBody(M, Understood(M), n) = UnderstoodBody(L, Understood(L), n)
        BY <2>2, <2>3, Zenon DEF UnderstoodBody
    <2>6. QED
        BY <1>2, <2>1, <2>4, <2>5
<1>5. QED
    <2> HIDE DEF T
    <2>1. \A k \in 0..N : k \in T
        BY <1>3, <1>4, Ascend
    <2>2. QED
        BY <1>1, <2>1 DEF T

\* A report about a whole frame decodes to what lies in the stream.
LEMMA WholeDecodes ==
    ASSUME NEW C \in Seq(Nat), NEW r \in Report, Whole(C, r)
    PROVE  /\ DecodedAt(r.bytes, 1) = DecodedAt(C, r.at + 1)
           /\ DecodedAt(r.bytes, 1) \in DecodedFrame
           /\ r.bytes[2] = C[r.at + 2]
<1>1. PICK a \in Nat, b \in Nat : a = r.at /\ b = r.at + r.count
    BY DEF Report
<1>2. a + 1 \in 1..(Len(C) + 1) /\ At(C, a + 1) = "frame" /\ b = FrameEnd(C, a + 1) /\ r.bytes = Cut(C, a, b)
    BY <1>1 DEF Whole
<1>3. DecodedAt(Cut(C, a, b), 1) = DecodedAt(C, a + 1) /\ Cut(C, a, b)[2] = C[a + 2]
    BY <1>2, FrameCutOut
<1>4. DecodedAt(C, a + 1) \in DecodedFrame
    <2>1. PICK i \in 1..(Len(C) + 1) : i = a + 1
        BY <1>2
    <2>2. QED
        BY <1>2, <2>1, DecodedType
<1>5. QED
    BY <1>1, <1>2, <1>3, <1>4

LEMMA UnderstoodNext ==
    ASSUME NEW L \in Seq(Report), NEW k \in 0..(Len(L) - 1)
    PROVE  Understood(L)[k + 1] =
             IF L[k + 1].kind = "frame" /\ Known(L[k + 1].bytes[2])
             THEN Append(Understood(L)[k], DecodedAt(L[k + 1].bytes, 1))
             ELSE Understood(L)[k]
<1>1. PICK n \in 0..Len(L) : n = k + 1 /\ n # 0 /\ n - 1 = k
    OBVIOUS
<1>2. Understood(L)[n] = UnderstoodBody(L, Understood(L), n)
    BY UnderstoodEquation
<1>3. QED
    BY <1>1, <1>2 DEF UnderstoodBody

LEMMA UnderstoodType ==
    ASSUME NEW C \in Seq(Nat), NEW L \in Seq(Report), WholeFrames(C, L)
    PROVE  \A n \in 0..Len(L) : Understood(L)[n] \in Seq(DecodedFrame)
<1> DEFINE T == {n \in Nat : Understood(L)[n] \in Seq(DecodedFrame)}
<1>1. PICK N \in Nat : N = Len(L)
    OBVIOUS
<1>2. 0 \in T
    <2>1. 0 \in 0..Len(L)
        BY <1>1
    <2>2. Understood(L)[0] = <<>>
        BY <2>1, UnderstoodEquation DEF UnderstoodBody
    <2>3. <<>> \in Seq(DecodedFrame)
        OBVIOUS
    <2>4. QED
        BY <2>2, <2>3
<1>3. ASSUME NEW k \in 0..(N - 1), k \in T
      PROVE  k + 1 \in T
    <2>1. k \in 0..(Len(L) - 1) /\ k + 1 \in 1..Len(L) /\ k + 1 \in Nat
        BY <1>1
    <2>2. PICK u \in Seq(DecodedFrame) : u = Understood(L)[k]
        BY <1>3
    <2>3. CASE L[k + 1].kind = "frame" /\ Known(L[k + 1].bytes[2])
        <3>1. L[k + 1] \in Report /\ Whole(C, L[k + 1])
            BY <2>1, <2>3 DEF WholeFrames
        <3>2. PICK x \in DecodedFrame : x = DecodedAt(L[k + 1].bytes, 1)
            BY <3>1, WholeDecodes
        <3>3. Understood(L)[k + 1] = Append(u, x)
            BY <2>1, <2>2, <2>3, <3>2, UnderstoodNext
        <3>4. Append(u, x) \in Seq(DecodedFrame)
            OBVIOUS
        <3>5. QED
            BY <2>1, <3>3, <3>4
    <2>4. CASE ~(L[k + 1].kind = "frame" /\ Known(L[k + 1].bytes[2]))
        <3>1. Understood(L)[k + 1] = u
            BY <2>1, <2>2, <2>4, UnderstoodNext
        <3>2. QED
            BY <2>1, <3>1
    <2>5. QED
        BY <2>3, <2>4
<1>4. QED
    <2> HIDE DEF T
    <2>1. \A k \in 0..N : k \in T
        BY <1>2, <1>3, Ascend
    <2>2. QED
        BY <1>1, <2>1 DEF T

LEMMA AppendJoin ==
    ASSUME NEW S, NEW u \in Seq(S), NEW v \in Seq(S), NEW x \in S
    PROVE  Append(u \o v, x) = u \o Append(v, x) /\ Append(v, x) \in Seq(S)
OBVIOUS

LEMMA UnderstoodGrows ==
    ASSUME NEW C \in Seq(Nat), NEW L \in Seq(Report), WholeFrames(C, L), NEW m \in 0..Len(L)
    PROVE  IsPrefix(Understood(L)[m], Understood(L)[Len(L)])
<1> DEFINE U == Understood(L)
           T == {n \in Nat : \E rest \in Seq(DecodedFrame) : U[m + n] = U[m] \o rest}
<1>1. PICK N \in Nat : N = Len(L) - m /\ m + N = Len(L) /\ m \in Nat
    OBVIOUS
<1>2. PICK u \in Seq(DecodedFrame) : u = U[m]
    BY UnderstoodType
<1> HIDE DEF U
<1>3. 0 \in T
    <2>1. m + 0 = m
        BY <1>1
    <2>2. <<>> \in Seq(DecodedFrame) /\ u = u \o <<>>
        OBVIOUS
    <2>3. U[m + 0] = U[m] \o <<>>
        BY <1>2, <2>1, <2>2, Zenon
    <2>4. QED
        BY <2>2, <2>3
<1>4. ASSUME NEW k \in 0..(N - 1), k \in T
      PROVE  k + 1 \in T
    <2>1. PICK rest \in Seq(DecodedFrame) : U[m + k] = u \o rest
        BY <1>2, <1>4
    <2>2. PICK l \in Nat : l = m + k /\ l \in 0..(Len(L) - 1) /\ l + 1 \in 1..Len(L) /\ m + (k + 1) = l + 1
        BY <1>1
    <2>3. CASE L[l + 1].kind = "frame" /\ Known(L[l + 1].bytes[2])
        <3>1. L[l + 1] \in Report /\ Whole(C, L[l + 1])
            BY <2>2, <2>3 DEF WholeFrames
        <3>2. PICK x \in DecodedFrame : x = DecodedAt(L[l + 1].bytes, 1)
            BY <3>1, WholeDecodes
        <3>3. U[l + 1] = Append(u \o rest, x)
            BY <2>1, <2>2, <2>3, <3>2, UnderstoodNext DEF U
        <3>4. Append(u \o rest, x) = u \o Append(rest, x) /\ Append(rest, x) \in Seq(DecodedFrame)
            <4>1. \A v \in Seq(DecodedFrame), w \in Seq(DecodedFrame), y \in DecodedFrame :
                    Append(v \o w, y) = v \o Append(w, y) /\ Append(w, y) \in Seq(DecodedFrame)
                BY AppendJoin, Zenon
            <4>2. QED
                BY <4>1, Zenon
        <3>5. U[m + (k + 1)] = U[m] \o Append(rest, x)
            BY <1>2, <2>2, <3>3, <3>4
        <3>6. k + 1 \in Nat
            OBVIOUS
        <3>7. QED
            BY <3>4, <3>5, <3>6
    <2>4. CASE ~(L[l + 1].kind = "frame" /\ Known(L[l + 1].bytes[2]))
        <3>1. U[l + 1] = u \o rest
            BY <2>1, <2>2, <2>4, UnderstoodNext DEF U
        <3>2. U[m + (k + 1)] = U[m] \o rest /\ k + 1 \in Nat
            BY <1>2, <2>2, <3>1
        <3>3. QED
            BY <3>2
    <2>5. QED
        BY <2>3, <2>4
<1>5. N \in T
    <2> HIDE DEF T
    <2>1. \A k \in 0..N : k \in T
        BY <1>3, <1>4, Ascend
    <2>2. QED
        BY <2>1
<1>6. PICK rest \in Seq(DecodedFrame) : U[Len(L)] = u \o rest
    BY <1>1, <1>2, <1>5
<1>7. IsPrefix(u, U[Len(L)])
    BY <1>6, PrefixOfMore
<1>8. QED
    BY <1>2, <1>7 DEF U

\* Bytes that are no frame are nothing to understand.
LEMMA UnderstoodRaw ==
    ASSUME NEW L \in Seq(Report), NEW m \in 0..Len(L), FramesFirst(L, m)
    PROVE  Understood(L)[Len(L)] = Understood(L)[m]
<1> DEFINE U == Understood(L)
           T == {n \in Nat : U[m + n] = U[m]}
<1>1. PICK N \in Nat : N = Len(L) - m /\ m + N = Len(L) /\ m \in Nat
    OBVIOUS
<1> HIDE DEF U
<1>2. 0 \in T
    <2>1. m + 0 = m
        BY <1>1
    <2>2. QED
        BY <2>1
<1>3. ASSUME NEW k \in 0..(N - 1), k \in T
      PROVE  k + 1 \in T
    <2>1. PICK l \in Nat : /\ l = m + k /\ l \in 0..(Len(L) - 1) /\ l + 1 \in 1..Len(L)
                           /\ m + (k + 1) = l + 1 /\ ~(l + 1 <= m)
        BY <1>1
    <2>2. L[l + 1].kind = "raw"
        BY <2>1 DEF FramesFirst
    <2>3. U[l + 1] = U[l]
        BY <2>1, <2>2, UnderstoodNext DEF U
    <2>4. QED
        BY <1>3, <2>1, <2>3
<1>4. N \in T
    <2> HIDE DEF T
    <2>1. \A k \in 0..N : k \in T
        BY <1>2, <1>3, Ascend
    <2>2. QED
        BY <2>1
<1>5. QED
    BY <1>1, <1>4 DEF U

-----------------------------------------------------------------------------
(* What the reports say comes after the m-th is what comes next in the stream. *)

LEMMA NextReport ==
    ASSUME TapInv, LinkInv, feeding # "recv", NEW m \in 0..Len(log["recv"]),
           \A j \in 1..m : log["recv"][j].kind = "frame",
           NEW p, p = Ends(log["recv"], m)
    PROVE  /\ p + 1 \in 1..(Len(Crossed("recv")) + 1) /\ p \in Nat
           /\ At(Crossed("recv"), p + 1) = "frame" =>
                /\ m + 1 \in 1..Len(log["recv"]) /\ log["recv"][m + 1].kind = "frame"
                /\ Whole(Crossed("recv"), log["recv"][m + 1])
                /\ log["recv"][m + 1].at = p
                /\ Ends(log["recv"], m + 1) = FrameEnd(Crossed("recv"), p + 1)
           /\ At(Crossed("recv"), p + 1) = "oversize" => broken["recv"]
           /\ At(Crossed("recv"), p + 1) \in {"eof", "truncated"} =>
                ~broken["recv"] /\ FramesFirst(log["recv"], m)
<1> DEFINE L == log["recv"]
           C == Crossed("recv")
<1>1. PICK f \in 0..Len(L) : Caught(C, L, broken["recv"], f)
    BY DEF LinkInv, CaughtUp
<1>2. "recv" \in Dirs
    BY DEF Dirs
<1>3. C \in Seq(Nat) /\ L \in Seq(Report) /\ Len(L) \in Nat /\ Len(C) \in Nat
    BY <1>2 DEF TapInv, DirInv, Accounted
<1>4. \A j \in 1..Len(L) : Honest(C, L, j)
    BY <1>2 DEF TapInv, DirInv, Accounted
<1>5. \A j \in 1..Len(L) : L[j].kind = "frame" => Whole(C, L[j])
    BY DEF LinkInv, WholeFrames
<1>6. FramesFirst(L, f) /\ Ends(L, f) + 1 \in 1..(Len(C) + 1)
      /\ At(C, Ends(L, f) + 1) \in IF broken["recv"] THEN {"oversize"} ELSE {"eof", "truncated"}
    BY <1>1 DEF Caught
<1>7. p \in Nat
    <2>1. CASE m = 0
        BY <2>1 DEF Ends
    <2>2. CASE m # 0
        <3>1. L[m] \in Report
            BY <1>3, <2>2
        <3>2. QED
            BY <2>2, <3>1 DEF Ends, Report
    <2>3. QED
        BY <2>1, <2>2
<1> HIDE DEF L, C
<1>8. m <= f
    <2>1. SUFFICES ASSUME m > f PROVE FALSE
        OBVIOUS
    <2>2. f + 1 \in 1..m /\ f + 1 \in 1..Len(L) /\ ~(f + 1 <= f)
        BY <1>3, <2>1 DEF L
    <2>3. L[f + 1].kind = "frame"
        BY <2>2 DEF L
    <2>4. L[f + 1].kind = "raw"
        BY <1>6, <2>2 DEF FramesFirst
    <2>5. QED
        BY <2>3, <2>4
<1>9. CASE m = f
    BY <1>6, <1>7, <1>9 DEF L, C
<1>10. CASE m < f
    <2>1. PICK j \in 1..Len(L) : j = m + 1 /\ j <= f /\ (j = 1 <=> m = 0) /\ j - 1 = m
        <3>1. m + 1 \in 1..Len(L) /\ m + 1 <= f /\ (m + 1 = 1 <=> m = 0) /\ m + 1 - 1 = m
            BY <1>3, <1>10 DEF L
        <3>2. QED
            BY <3>1
    <2>2. L[j].kind = "frame"
        BY <1>6, <2>1 DEF FramesFirst
    <2>3. Whole(C, L[j]) /\ Honest(C, L, j)
        BY <1>4, <1>5, <2>2
    <2>4. L[j].at = p
        <3>1. L[j].at = IF j = 1 THEN 0 ELSE L[j - 1].at + L[j - 1].count
            BY <2>3 DEF Honest
        <3>2. QED
            BY <2>1, <3>1 DEF Ends, L
    <2>5. /\ p + 1 \in 1..(Len(C) + 1) /\ At(C, p + 1) = "frame"
          /\ L[j].at + L[j].count = FrameEnd(C, p + 1)
        BY <2>3, <2>4 DEF Whole
    <2>6. Ends(L, j) = FrameEnd(C, p + 1)
        BY <2>1, <2>5 DEF Ends
    <2>7. QED
        BY <1>7, <2>1, <2>2, <2>3, <2>4, <2>5, <2>6 DEF L, C
<1>11. QED
    BY <1>8, <1>9, <1>10

\* What is whole in the stream and has been read is whole in what has crossed.
LEMMA SeenByBoth ==
    ASSUME ReaderInv, NEW p \in Nat, p + 4 <= filled
    PROVE  /\ input[p + 1] \in Nat
           /\ Crossed("recv") \in Seq(Nat) /\ Len(Crossed("recv")) = filled
           /\ Crossed("recv")[p + 2] = input[p + 2]
           /\ input[p + 1] > MaxPayload => At(Crossed("recv"), p + 1) = "oversize"
           /\ input[p + 1] <= MaxPayload /\ p + 4 + input[p + 1] > filled =>
                At(Crossed("recv"), p + 1) = "truncated"
           /\ input[p + 1] <= MaxPayload /\ p + 4 + input[p + 1] <= filled =>
                /\ At(Crossed("recv"), p + 1) = "frame"
                /\ FrameEnd(Crossed("recv"), p + 1) = p + 4 + input[p + 1]
                /\ DecodedAt(Crossed("recv"), p + 1) = DecodedAt(input, p + 1)
<1>1. input \in Seq(Nat) /\ filled \in Nat /\ filled <= Len(input) /\ 0 \in Nat /\ 0 <= filled
    BY DEF ReaderInv, ReaderType
<1>2. PICK C \in Seq(Nat) : C = Crossed("recv") /\ Len(C) = filled /\ \A k \in 1..filled : C[k] = input[k]
    <2>1. /\ Cut(input, 0, filled) \in Seq(Nat) /\ Len(Cut(input, 0, filled)) = filled - 0
          /\ \A k \in 1..(filled - 0) : Cut(input, 0, filled)[k] = input[0 + k]
        BY <1>1, CutFacts
    <2>2. filled - 0 = filled /\ \A k \in 1..filled : 0 + k = k
        BY <1>1
    <2>3. QED
        BY <2>1, <2>2, CrossedFacts
<1>3. input \in Longer(C)
    BY <1>1, <1>2 DEF Longer
<1>4. PICK i \in Nat : i = p + 1 /\ i >= 1 /\ i + 3 <= Len(C) /\ i + 3 = p + 4
    <2>1. p + 1 \in Nat /\ p + 1 >= 1 /\ p + 1 + 3 = p + 4
        OBVIOUS
    <2>2. QED
        BY <1>2, <2>1
<1>5. C[i] = input[i] /\ C[p + 2] = input[p + 2]
    <2>1. i \in 1..filled /\ p + 2 \in 1..filled
        BY <1>1, <1>4
    <2>2. QED
        BY <1>2, <2>1
<1>6. /\ i \in 1..(Len(C) + 1) /\ C[i] \in Nat
      /\ FrameEnd(C, i) = i + 3 + C[i]
      /\ C[i] > MaxPayload => At(C, i) = "oversize"
      /\ C[i] <= MaxPayload /\ i + 3 + C[i] > Len(C) => At(C, i) = "truncated"
      /\ C[i] <= MaxPayload /\ i + 3 + C[i] <= Len(C) => At(C, i) = "frame"
    BY <1>4, HeaderThere
<1>7. At(C, i) = "frame" => DecodedAt(C, i) = DecodedAt(input, i)
    BY <1>3, <1>6, LongerFrame
<1>8. QED
    BY <1>2, <1>4, <1>5, <1>6, <1>7

LEMMA LinkShows ==
    ASSUME ReaderInv, TapInv, LinkInv
    PROVE  ShowsWhatIsRead
<1> DEFINE L == log["recv"]
           C == Crossed("recv")
<1>1. PICK m \in 0..Len(L), p \in Nat : Linked(m, p)
    BY DEF LinkInv
<1>2. "recv" \in Dirs
    BY DEF Dirs
<1>3. C \in Seq(Nat) /\ L \in Seq(Report) /\ Len(L) \in Nat /\ WholeFrames(C, L)
    BY <1>2 DEF TapInv, DirInv, Accounted, LinkInv
<1>4. got = Understood(L)[m] /\ (ending = "oversize" => broken["recv"])
    BY <1>1 DEF Linked
<1>5. IsPrefix(got, Understood(L)[Len(L)])
    BY <1>3, <1>4, UnderstoodGrows
<1>6. ASSUME buffer = <<>>, ending \notin Refusals
      PROVE  got = Understood(L)[Len(L)] /\ ~broken["recv"]
    <2>1. feeding # "recv"
        BY <1>6 DEF LinkInv
    <2>2. p = Ends(L, m)
        BY <1>1 DEF Linked
    <2>3. /\ p \in Nat /\ p + 1 \in 1..(Len(C) + 1)
          /\ At(C, p + 1) \in {"eof", "truncated"} => ~broken["recv"] /\ FramesFirst(L, m)
        BY <1>1, <2>1, <2>2, NextReport DEF Linked
    <2>4. Place(p)
        BY <1>1, <1>6, <2>2 DEF Linked
    <2>5. PICK c \in Nat : c = Consumed /\ c = filled /\ c = Len(C)
        <3>1. Len(<<>>) = 0
            OBVIOUS
        <3>2. Len(buffer) = 0
            BY <1>6, <3>1, Zenon
        <3>3. Consumed + Len(buffer) = filled /\ Consumed \in Nat
            BY ConsumedFits
        <3>4. Consumed = filled
            BY <3>2, <3>3
        <3>5. Len(C) = filled
            <4>1. /\ input \in Seq(Nat) /\ filled \in Nat /\ filled <= Len(input) /\ 0 \in Nat /\ 0 <= filled
                  /\ filled - 0 = filled
                BY DEF ReaderInv, ReaderType
            <4>2. Len(Cut(input, 0, filled)) = filled - 0
                BY <4>1, CutFacts
            <4>3. QED
                BY <4>1, <4>2, CrossedFacts
        <3>6. QED
            BY <3>3, <3>4, <3>5
    <2>6. At(C, p + 1) \in {"eof", "truncated"}
        <3>0. part \in Seq(Nat) /\ Len(part) \in Nat /\ want \in Nat /\ want >= 1
            BY DEF ReaderInv, ReaderType
        <3>1. CASE stage = "header" /\ Len(part) < 4 /\ p + Len(part) = Consumed
            <4>1. PICK q \in Nat : q = Len(part) /\ q < 4 /\ p + q = c
                BY <2>5, <3>0, <3>1
            <4>2. p + 1 = c + 1 \/ (p + 1 # c + 1 /\ p + 1 + 4 - 1 > c)
                BY <2>3, <4>1
            <4>3. QED
                BY <2>5, <4>2 DEF At, HeaderSize
        <3>2. CASE stage = "payload" /\ InPayload(p + 1)
            <4>1. /\ p + 1 + 3 + Len(part) = c /\ want = input[p + 1] /\ want <= MaxPayload
                  /\ Len(part) < want
                BY <2>5, <3>2 DEF InPayload
            <4>2. PICK q \in Nat : q = Len(part) /\ p + 1 + 3 + q = c /\ q < want
                BY <3>0, <4>1
            <4>3. p + 4 <= c /\ p + 4 + want > c
                BY <2>3, <3>0, <4>2
            <4>4. p + 4 <= filled /\ p + 4 + input[p + 1] > filled /\ input[p + 1] <= MaxPayload
                BY <2>5, <4>1, <4>3
            <4>5. QED
                BY <2>3, <4>4, SeenByBoth
        <3>3. CASE /\ stage = "discard" /\ p + 4 <= Consumed /\ input[p + 1] <= MaxPayload
                   /\ p + 4 + input[p + 1] = Consumed + want
            <4>1. c + want > c
                BY <3>0
            <4>2. p + 4 <= filled /\ p + 4 + input[p + 1] > filled /\ input[p + 1] <= MaxPayload
                BY <2>5, <3>3, <4>1
            <4>3. QED
                BY <2>3, <4>2, SeenByBoth
        <3>4. QED
            BY <2>4, <3>1, <3>2, <3>3 DEF Place
    <2>7. ~broken["recv"] /\ FramesFirst(L, m)
        BY <2>3, <2>6
    <2>8. QED
        BY <1>3, <1>4, <2>7, UnderstoodRaw
<1>7. QED
    BY <1>4, <1>5, <1>6 DEF ShowsWhatIsRead

-----------------------------------------------------------------------------
(* The steps of the tap leave the reader where it is. *)

LEMMA EndsMore ==
    ASSUME NEW L \in Seq(Report), NEW r \in Report
    PROVE  /\ \A m \in 0..Len(L) : Ends(Append(L, r), m) = Ends(L, m)
           /\ Ends(L, Len(L)) = End(L)
<1>1. \A j \in 1..Len(L) : Append(L, r)[j] = L[j]
    BY OneMore
<1>2. \A m \in 0..Len(L) : m = 0 \/ m \in 1..Len(L)
    OBVIOUS
<1>3. L = <<>> <=> Len(L) = 0
    OBVIOUS
<1>4. QED
    BY <1>1, <1>2, <1>3 DEF Ends, End, Last

LEMMA WholeMore ==
    ASSUME NEW C, NEW L \in Seq(Report), NEW r \in Report, WholeFrames(C, L),
           r.kind = "frame" => Whole(C, r)
    PROVE  WholeFrames(C, Append(L, r))
<1>1. PICK M \in Seq(Report), n \in Nat :
        /\ M = Append(L, r) /\ n = Len(L) /\ Len(M) = n + 1 /\ M[n + 1] = r
        /\ \A j \in 1..n : M[j] = L[j]
    <2>1. Len(L) \in Nat
        OBVIOUS
    <2>2. QED
        BY <2>1, OneMore, ZenonT(60)
<1>2. \A j \in 1..(n + 1) : j \in 1..n \/ j = n + 1
    OBVIOUS
<1>3. \A j \in 1..Len(M) : M[j].kind = "frame" => Whole(C, M[j])
    BY <1>1, <1>2 DEF WholeFrames
<1>4. QED
    BY <1>1, <1>3 DEF WholeFrames

LEMMA WholeLonger ==
    ASSUME NEW C \in Seq(Nat), NEW x \in Seq(Nat), NEW L \in Seq(Report), WholeFrames(C, L)
    PROVE  WholeFrames(C \o x, L)
<1>1. SUFFICES ASSUME NEW j \in 1..Len(L), L[j].kind = "frame"
               PROVE  Whole(C \o x, L[j])
    BY DEF WholeFrames
<1>2. Whole(C, L[j]) /\ L[j] \in Report
    BY <1>1 DEF WholeFrames
<1>3. PICK a \in Nat, b \in Nat : a = L[j].at /\ b = L[j].at + L[j].count
    <2>1. L[j].at \in Nat /\ L[j].count \in Nat
        BY <1>2 DEF Report
    <2>2. L[j].at + L[j].count \in Nat
        BY <2>1
    <2>3. QED
        BY <2>1, <2>2
<1>4. PICK i \in 1..(Len(C) + 1) : i = a + 1 /\ At(C, i) = "frame" /\ b = FrameEnd(C, i)
    BY <1>2, <1>3 DEF Whole
<1>5. PICK D \in Longer(C) : D = C \o x
    BY JoinIsLonger
<1>6. i \in 1..(Len(D) + 1) /\ At(D, i) = "frame" /\ FrameEnd(D, i) = b
    BY <1>4, <1>5, LongerFrame
<1>7. Cut(D, a, b) = Cut(C, a, b)
    <2>1. FrameEnd(C, i) \in (i + 3)..Len(C)
        BY <1>4, FrameLies
    <2>2. a <= b /\ b <= Len(C)
        BY <1>4, <2>1
    <2>3. QED
        BY <1>5, <2>2, CutOfMore
<1>8. L[j].bytes = Cut(C, a, b)
    BY <1>2, <1>3 DEF Whole
<1>9. Whole(D, L[j])
    BY <1>3, <1>4, <1>6, <1>7, <1>8 DEF Whole
<1>10. QED
    BY <1>5, <1>9

LEMMA PlaceStays ==
    ASSUME input' = input, Consumed' = Consumed, UNCHANGED <<stage, hdr, part, want>>
    PROVE  \A p : Place(p)' = Place(p)
<1>1. \A a : InPayload(a)' = InPayload(a)
    BY Zenon DEF InPayload
<1>2. QED
    BY <1>1, Zenon DEF Place

LEMMA Relinked ==
    ASSUME LinkInv, log["recv"] \in Seq(Report),
           log'["recv"] = log["recv"] \/ \E r \in Report : log'["recv"] = Append(log["recv"], r),
           got' = got, ending' = ending \/ ending' = "refused",
           ending' \notin Refusals => \A p : Place(p)' = Place(p),
           broken["recv"] => broken'["recv"]
    PROVE  \E m \in 0..Len(log'["recv"]), p \in Nat : Linked(m, p)'
<1>1. PICK m \in 0..Len(log["recv"]), p \in Nat : Linked(m, p)
    BY DEF LinkInv
<1>2. /\ m \in 0..Len(log'["recv"]) /\ Ends(log'["recv"], m) = Ends(log["recv"], m)
      /\ Understood(log'["recv"])[m] = Understood(log["recv"])[m]
      /\ \A j \in 1..m : log'["recv"][j] = log["recv"][j]
    <2> DEFINE L == log["recv"]
               M == log'["recv"]
    <2>1. CASE M = L
        BY <2>1
    <2>2. CASE \E r \in Report : M = Append(L, r)
        <3>1. PICK r \in Report : M = Append(L, r)
            BY <2>2
        <3>2. Len(M) = Len(L) + 1 /\ \A j \in 1..Len(L) : M[j] = L[j]
            BY <3>1, OneMore
        <3>3. m \in 0..Len(M) /\ \A j \in 1..m : j \in 1..Len(L)
            BY <3>2
        <3>4. QED
            BY <3>1, <3>2, <3>3, EndsMore, UnderstoodMore
    <2>3. QED
        BY <2>1, <2>2
<1>3. /\ p = Ends(log'["recv"], m)
      /\ \A j \in 1..m : log'["recv"][j].kind = "frame"
      /\ got' = Understood(log'["recv"])[m]
      /\ ending' = "oversize" => broken'["recv"]
    BY <1>1, <1>2 DEF Linked
<1>4. ending' \notin Refusals => Place(p)'
    BY <1>1 DEF Linked, Refusals
<1>5. Linked(m, p)'
    BY <1>3, <1>4 DEF Linked
<1>6. QED
    BY <1>2, <1>5

LEMMA CaughtMore ==
    ASSUME NEW C, NEW L \in Seq(Report), NEW r \in Report, r.kind = "raw", NEW b, CaughtUp(C, L, b)
    PROVE  CaughtUp(C, Append(L, r), b)
<1>1. PICK f \in 0..Len(L) : Caught(C, L, b, f)
    BY DEF CaughtUp
<1>2. Ends(Append(L, r), f) = Ends(L, f)
    BY EndsMore
<1>3. f \in 0..Len(Append(L, r)) /\ FramesFirst(Append(L, r), f)
    BY <1>1, FramesFirstMore DEF Caught
<1>4. Caught(C, Append(L, r), b, f)
    BY <1>1, <1>2, <1>3 DEF Caught
<1>5. QED
    BY <1>3, <1>4 DEF CaughtUp

LEMMA CaughtLonger ==
    ASSUME NEW C \in Seq(Nat), NEW x \in Seq(Nat), NEW L \in Seq(Report), CaughtUp(C, L, TRUE)
    PROVE  CaughtUp(C \o x, L, TRUE)
<1>1. PICK f \in 0..Len(L) : Caught(C, L, TRUE, f)
    BY DEF CaughtUp
<1>2. PICK i \in 1..(Len(C) + 1) : i = Ends(L, f) + 1 /\ At(C, i) = "oversize"
    BY <1>1 DEF Caught
<1>3. PICK D \in Longer(C) : D = C \o x
    BY JoinIsLonger
<1>4. i \in 1..(Len(D) + 1) /\ At(D, i) = "oversize"
    BY <1>2, <1>3, LongerOversize
<1>5. Caught(D, L, TRUE, f)
    BY <1>1, <1>2, <1>4 DEF Caught
<1>6. QED
    BY <1>3, <1>5 DEF CaughtUp

\* What the loop of feed knows when it ends.
LEMMA CaughtAtEnd ==
    ASSUME NEW C, NEW h, NEW L, Accounted(C, h, L), Open(C, L)
    PROVE  /\ Unreadable(h) => CaughtUp(C, L, TRUE)
           /\ ~Unreadable(h) /\ ~Complete(h) => CaughtUp(C, L, FALSE)
<1>1. L \in Seq(Report) /\ Len(L) \in Nat /\ End(L) \in Nat /\ FramesFirst(L, Len(L))
    BY DEF Accounted, Open
<1>2. PICK i \in Nat : i = End(L) + 1
    BY <1>1
<1>3. Ends(L, Len(L)) = End(L)
    <2>1. L = <<>> <=> Len(L) = 0
        BY <1>1
    <2>2. QED
        BY <2>1 DEF Ends, End, Last
<1>4. /\ i \in 1..(Len(C) + 1)
      /\ Unreadable(h) => At(C, i) = "oversize"
      /\ ~Unreadable(h) /\ ~Complete(h) => At(C, i) \in {"eof", "truncated"}
    BY <1>2, HeldAt
<1>5. PICK f \in 0..Len(L) : f = Len(L)
    BY <1>1
<1>6. Ends(L, f) + 1 = i /\ FramesFirst(L, f)
    BY <1>1, <1>2, <1>3, <1>5
<1>7. /\ Unreadable(h) => Caught(C, L, TRUE, f)
      /\ ~Unreadable(h) /\ ~Complete(h) => Caught(C, L, FALSE, f)
    BY <1>4, <1>6 DEF Caught
<1>8. QED
    BY <1>7 DEF CaughtUp

LEMMA LinkFed ==
    ASSUME ReaderInv, TapInv, LinkInv, TappedRead \/ DrainRead
    PROVE  LinkInv'
<1> DEFINE C == Crossed("recv")
           L == log["recv"]
<1>1. /\ ~flushed /\ got' = got /\ (ending' = ending \/ ending' = "refused")
      /\ buffer' # <<>> \/ ending' \in Refusals
    BY ReadCrosses, DrainCrosses
<1>2. PICK b \in Seq(Nat) : Feed("recv", b) /\ Crossed("recv")' = C \o b
    BY ReadCrosses, DrainCrosses
<1>3. "recv" \in Dirs /\ "recv" # "none"
    BY DEF Dirs
<1>4. C \in Seq(Nat) /\ L \in Seq(Report) /\ End(L) \in Nat /\ TapTypes
    BY <1>3 DEF TapInv, DirInv, Accounted
<1>5. feeding = "none" /\ broken' = broken /\ flushed' = flushed /\ broken["recv"] \in BOOLEAN
    BY <1>2, <1>3, <1>4 DEF Feed, TapTypes
<1>6. WholeFrames(C, L) /\ CaughtUp(C, L, broken["recv"])
    BY <1>3, <1>5 DEF LinkInv
<1>7. WholeFrames(C \o b, L)
    BY <1>4, <1>6, WholeLonger
<1>8. ending' \notin Refusals => \A p : Place(p)' = Place(p)
    BY ReadCrosses, DrainCrosses, PlaceStays
<1>9. CASE broken["recv"]
    <2>1. PICK r \in Report : r = RawReport("recv", b) /\ r.kind = "raw"
        BY <1>3, <1>4, RawFacts
    <2>2. log'["recv"] = Append(L, r) /\ feeding' = "none"
        BY <1>2, <1>3, <1>4, <1>5, <1>9, <2>1 DEF Feed, Prints, TapTypes
    <2>3. WholeFrames(C \o b, Append(L, r))
        BY <1>4, <1>7, <2>1, WholeMore
    <2>4. broken["recv"] = TRUE /\ broken'["recv"] = TRUE
        BY <1>5, <1>9
    <2>5. CaughtUp(C \o b, Append(L, r), TRUE)
        <3>1. CaughtUp(C \o b, L, TRUE)
            BY <1>4, <1>6, <2>4, CaughtLonger
        <3>2. QED
            BY <1>4, <2>1, <3>1, CaughtMore
    <2>6. \E m \in 0..Len(log'["recv"]), p \in Nat : Linked(m, p)'
        BY <1>1, <1>4, <1>5, <1>8, <2>2, Relinked
    <2>7. QED
        BY <1>2, <1>3, <2>2, <2>3, <2>4, <2>5, <2>6 DEF LinkInv
<1>10. CASE ~broken["recv"]
    <2>1. log'["recv"] = L /\ feeding' = "recv"
        BY <1>2, <1>10 DEF Feed
    <2>2. \E m \in 0..Len(log'["recv"]), p \in Nat : Linked(m, p)'
        BY <1>1, <1>4, <1>5, <1>8, <2>1, Relinked
    <2>3. QED
        BY <1>1, <1>2, <1>5, <1>7, <1>10, <2>1, <2>2 DEF LinkInv
<1>11. QED
    BY <1>9, <1>10

LEMMA PlaceOfReader ==
    ASSUME UNCHANGED readerVars
    PROVE  /\ \A p : Place(p)' = Place(p)
           /\ UNCHANGED <<input, filled, buffer, got, ending>>
           /\ Crossed("recv")' = Crossed("recv")
<1>1. UNCHANGED <<input, filled, buffer, stage, hdr, part, want, got, ending>>
    BY DEF readerVars
<1>2. Consumed' = Consumed
    BY <1>1 DEF Consumed
<1>3. QED
    BY <1>1, <1>2, PlaceStays, CrossedFacts

LEMMA LinkLoop ==
    ASSUME TapInv, LinkInv, UNCHANGED readerVars,
           FeedBroken("recv") \/ FeedDone("recv") \/ FeedFrame("recv")
    PROVE  LinkInv'
<1> DEFINE C == Crossed("recv")
           h == held["recv"]
           L == log["recv"]
<1>1. /\ \A p : Place(p)' = Place(p)
      /\ UNCHANGED <<buffer, got, ending>> /\ Crossed("recv")' = C
    BY PlaceOfReader
<1>2. "recv" \in Dirs /\ "recv" # "none"
    BY DEF Dirs
<1>3. /\ Accounted(C, h, L) /\ Framed(C, h, L, broken["recv"], feeding = "recv", flushed)
      /\ C \in Seq(Nat) /\ h \in Seq(Nat) /\ L \in Seq(Report) /\ End(L) \in Nat /\ TapTypes
    BY <1>2 DEF TapInv, DirInv, Accounted
<1>4. feeding = "recv" /\ flushed' = flushed
    BY DEF FeedBroken, FeedDone, FeedFrame
<1>5. /\ buffer # <<>> \/ ending \in Refusals
      /\ ~broken["recv"] /\ ~flushed
      /\ WholeFrames(C, L) /\ Open(C, L)
    BY <1>3, <1>4 DEF LinkInv, Framed
<1>6. CASE FeedBroken("recv")
    <2>1. /\ Unreadable(h) /\ broken' = [broken EXCEPT !["recv"] = TRUE]
          /\ log' = [log EXCEPT !["recv"] = Append(@, RawReport("recv", h))] /\ feeding' = "none"
        BY <1>6 DEF FeedBroken, Prints
    <2>2. PICK r \in Report : r = RawReport("recv", h) /\ r.kind = "raw"
        BY <1>2, <1>3, RawFacts
    <2>3. log'["recv"] = Append(L, r) /\ broken'["recv"] = TRUE
        BY <1>2, <1>3, <2>1, <2>2 DEF TapTypes
    <2>4. WholeFrames(C, Append(L, r))
        BY <1>3, <1>5, <2>2, WholeMore
    <2>5. CaughtUp(C, Append(L, r), TRUE)
        <3>1. CaughtUp(C, L, TRUE)
            BY <1>3, <1>5, <2>1, CaughtAtEnd
        <3>2. QED
            BY <1>3, <2>2, <3>1, CaughtMore
    <2>6. \E m \in 0..Len(log'["recv"]), p \in Nat : Linked(m, p)'
        BY <1>1, <1>3, <1>5, <2>3, Relinked
    <2>7. QED
        BY <1>1, <1>2, <2>1, <2>3, <2>4, <2>5, <2>6 DEF LinkInv
<1>7. CASE FeedDone("recv")
    <2>1. ~Unreadable(h) /\ ~Complete(h) /\ feeding' = "none" /\ broken' = broken /\ log' = log
        BY <1>7 DEF FeedDone
    <2>2. CaughtUp(C, L, FALSE) /\ broken'["recv"] = FALSE
        <3>1. broken["recv"] = FALSE
            BY <1>2, <1>3, <1>5 DEF TapTypes
        <3>2. QED
            BY <1>3, <1>5, <2>1, <3>1, CaughtAtEnd
    <2>3. \E m \in 0..Len(log'["recv"]), p \in Nat : Linked(m, p)'
        BY <1>1, <1>3, <1>5, <2>1, Relinked
    <2>4. QED
        BY <1>1, <1>2, <1>5, <2>1, <2>2, <2>3 DEF LinkInv
<1>8. CASE FeedFrame("recv")
    <2>1. ~Unreadable(h) /\ Complete(h)
        BY <1>8 DEF FeedFrame
    <2>2. PICK i \in Nat : i = End(L) + 1
        BY <1>3
    <2>3. /\ i \in 1..(Len(C) + 1) /\ At(C, i) = "frame" /\ h[1] \in Nat /\ 4 + h[1] <= Len(h)
          /\ FrameAt(C, i) = Cut(h, 0, 4 + h[1])
          /\ FrameEnd(C, i) = End(L) + (4 + h[1])
        BY <1>3, <2>1, <2>2, HeldAt
    <2>4. PICK n \in Nat : n = 4 + h[1] /\ n <= Len(h)
        BY <2>3
    <2>5. /\ log' = [log EXCEPT !["recv"] = Append(@, FrameReport("recv", Cut(h, 0, n)))]
          /\ broken' = broken /\ feeding' = feeding
        BY <1>8, <2>4 DEF FeedFrame, Prints, Cut, HeaderSize
    <2>6. Cut(h, 0, n) \in Seq(Nat) /\ Len(Cut(h, 0, n)) = n
        <3>1. 0 \in Nat /\ 0 <= n /\ n - 0 = n
            OBVIOUS
        <3>2. QED
            BY <1>3, <2>4, <3>1, CutFacts
    <2>7. PICK r \in Report :
            /\ r = FrameReport("recv", Cut(h, 0, n)) /\ r.kind = "frame" /\ r.at = End(L) /\ r.count = n
            /\ r.bytes = Cut(h, 0, n)
        BY <1>2, <1>3, <2>6, FrameFacts DEF TapTypes
    <2>8. log'["recv"] = Append(L, r)
        BY <1>2, <1>3, <2>5, <2>7 DEF TapTypes
    <2>9. Whole(C, r)
        <3>1. r.at + r.count = FrameEnd(C, i) /\ r.at + 1 = i /\ r.bytes = FrameAt(C, i)
            BY <2>2, <2>3, <2>4, <2>7
        <3>2. FrameAt(C, i) = Cut(C, r.at, r.at + r.count)
            BY <3>1 DEF FrameAt, Cut
        <3>3. QED
            BY <2>3, <3>1, <3>2 DEF Whole
    <2>10. WholeFrames(C, Append(L, r))
        BY <1>3, <1>5, <2>9, WholeMore
    <2>11. \E m \in 0..Len(log'["recv"]), p \in Nat : Linked(m, p)'
        BY <1>1, <1>3, <1>5, <2>8, Relinked
    <2>12. QED
        BY <1>1, <1>4, <1>5, <2>5, <2>8, <2>10, <2>11 DEF LinkInv
<1>9. QED
    BY <1>6, <1>7, <1>8

\* A step that does not touch what was received.
LEMMA LinkStays ==
    ASSUME TapInv, LinkInv, UNCHANGED readerVars, log'["recv"] = log["recv"], broken'["recv"] = broken["recv"],
           (feeding' = "recv") = (feeding = "recv"), flushed' = flushed
    PROVE  LinkInv'
<1>1. /\ \A p : Place(p)' = Place(p)
      /\ UNCHANGED <<buffer, got, ending>> /\ Crossed("recv")' = Crossed("recv")
    BY PlaceOfReader
<1>2. log["recv"] \in Seq(Report)
    BY DEF TapInv, TapTypes, Dirs
<1>3. \E m \in 0..Len(log'["recv"]), p \in Nat : Linked(m, p)'
    BY <1>1, <1>2, Relinked
<1>4. feeding' = "recv" => (buffer' # <<>> \/ ending' \in Refusals) /\ ~broken'["recv"] /\ ~flushed'
    BY <1>1 DEF LinkInv
<1>5. WholeFrames(Crossed("recv")', log'["recv"])
    BY <1>1 DEF LinkInv
<1>6. feeding' # "recv" => CaughtUp(Crossed("recv")', log'["recv"], broken'["recv"])
    BY <1>1 DEF LinkInv
<1>7. QED
    BY <1>3, <1>4, <1>5, <1>6 DEF LinkInv

LEMMA LinkFlush ==
    ASSUME TapInv, LinkInv, UNCHANGED readerVars, Flush
    PROVE  LinkInv'
<1> DEFINE C == Crossed("recv")
           h == held["recv"]
           L == log["recv"]
<1>1. /\ \A p : Place(p)' = Place(p)
      /\ UNCHANGED <<buffer, got, ending>> /\ Crossed("recv")' = C
    BY PlaceOfReader
<1>2. "recv" \in Dirs /\ "recv" # "none"
    BY DEF Dirs
<1>3. h \in Seq(Nat) /\ L \in Seq(Report) /\ End(L) \in Nat
    BY <1>2 DEF TapInv, DirInv, Accounted
<1>4. /\ feeding = "none" /\ feeding' = feeding /\ broken' = broken
      /\ log'["recv"] = IF h = <<>> THEN L ELSE Append(L, RawReport("recv", h))
    BY <1>2 DEF Flush
<1>5. WholeFrames(C, L) /\ CaughtUp(C, L, broken["recv"])
    BY <1>2, <1>4 DEF LinkInv
<1>6. /\ log'["recv"] = L \/ \E r \in Report : log'["recv"] = Append(L, r)
      /\ WholeFrames(C, log'["recv"]) /\ CaughtUp(C, log'["recv"], broken["recv"])
    <2>1. CASE h = <<>>
        BY <1>4, <1>5, <2>1
    <2>2. CASE h # <<>>
        <3>1. PICK r \in Report : r = RawReport("recv", h) /\ r.kind = "raw"
            BY <1>2, <1>3, RawFacts
        <3>2. log'["recv"] = Append(L, r)
            BY <1>4, <2>2, <3>1
        <3>3. QED
            BY <1>3, <1>5, <3>1, <3>2, WholeMore, CaughtMore
    <2>3. QED
        BY <2>1, <2>2
<1>7. \E m \in 0..Len(log'["recv"]), p \in Nat : Linked(m, p)'
    BY <1>1, <1>3, <1>4, <1>6, Relinked
<1>8. QED
    BY <1>1, <1>2, <1>4, <1>6, <1>7 DEF LinkInv

-----------------------------------------------------------------------------
(* The reader moves on behind the tap. *)

\* Up to e cells have been consumed, and the tap has seen at least as much.
Behind(e) ==
    /\ ReaderInv /\ TapInv /\ LinkInv /\ ending = "none" /\ feeding # "recv"
    /\ e \in Nat /\ e <= filled /\ Moved(e) /\ UNCHANGED tapVars

LinkedSomewhere == \E m \in 0..Len(log["recv"]), p \in Nat : Linked(m, p)

LEMMA StillLinked ==
    ASSUME NEW m \in 0..Len(log["recv"]), NEW p \in Nat, Linked(m, p), UNCHANGED tapVars, got' = got,
           ending' \notin Refusals => Place(p)',
           ending' = "oversize" => broken["recv"]
    PROVE  LinkedSomewhere'
<1>1. log' = log /\ broken' = broken
    BY DEF tapVars
<1>2. Linked(m, p)'
    BY <1>1 DEF Linked
<1>3. m \in 0..Len(log'["recv"])
    BY <1>1
<1>4. QED
    BY <1>2, <1>3 DEF LinkedSomewhere

\* A whole frame has been dealt with.
LEMMA LinkedNext ==
    ASSUME NEW e, Behind(e), NEW m \in 0..Len(log["recv"]), NEW p \in Nat, Linked(m, p),
           input[p + 1] \in Nat, e = p + 4 + input[p + 1], input[p + 1] <= MaxPayload,
           got' = IF Known(input[p + 2]) THEN Append(got, DecodedAt(input, p + 1)) ELSE got,
           Call("header", HeaderSize), ending' = "none"
    PROVE  LinkedSomewhere'
<1> DEFINE L == log["recv"]
           C == Crossed("recv")
<1>1. /\ ReaderInv /\ TapInv /\ LinkInv /\ feeding # "recv" /\ e \in Nat /\ e <= filled
      /\ Moved(e) /\ log' = log /\ broken' = broken
    BY DEF Behind, tapVars
<1>2. p + 4 <= filled /\ p + 4 + input[p + 1] <= filled
    <2>1. filled \in Nat
        BY <1>1 DEF ReaderInv, ReaderType
    <2>2. QED
        BY <1>1, <2>1
<1>3. /\ C \in Seq(Nat) /\ C[p + 2] = input[p + 2] /\ At(C, p + 1) = "frame"
      /\ FrameEnd(C, p + 1) = e /\ DecodedAt(C, p + 1) = DecodedAt(input, p + 1)
    BY <1>1, <1>2, SeenByBoth
<1>4. p = Ends(L, m) /\ \A j \in 1..m : L[j].kind = "frame"
    BY DEF Linked
<1>5. /\ m + 1 \in 1..Len(L) /\ L[m + 1].kind = "frame" /\ Whole(C, L[m + 1])
      /\ L[m + 1].at = p /\ Ends(L, m + 1) = e
    BY <1>1, <1>3, <1>4, NextReport
<1>6. L \in Seq(Report) /\ Len(L) \in Nat
    BY <1>1 DEF TapInv, TapTypes, Dirs
<1>7. L[m + 1] \in Report /\ m \in 0..(Len(L) - 1)
    BY <1>5, <1>6
<1>8. /\ DecodedAt(L[m + 1].bytes, 1) = DecodedAt(input, p + 1)
      /\ L[m + 1].bytes[2] = input[p + 2]
    BY <1>3, <1>5, <1>7, WholeDecodes
<1>9. got' = Understood(L)[m + 1]
    <2>1. got = Understood(L)[m]
        BY DEF Linked
    <2>2. Understood(L)[m + 1] =
             IF L[m + 1].kind = "frame" /\ Known(L[m + 1].bytes[2])
             THEN Append(Understood(L)[m], DecodedAt(L[m + 1].bytes, 1))
             ELSE Understood(L)[m]
        BY <1>6, <1>7, UnderstoodNext
    <2>3. QED
        BY <1>5, <1>8, <2>1, <2>2
<1>10. Place(e)'
    <2>1. Len(<<>>) = 0
        OBVIOUS
    <2>2. stage' = "header" /\ part' = <<>>
        BY DEF Call
    <2>3. Len(part') = 0
        BY <2>1, <2>2, Zenon
    <2>4. Consumed' = e /\ e + 0 = e
        BY <1>1 DEF Moved
    <2>5. Len(part') < 4 /\ e + Len(part') = Consumed'
        BY <2>3, <2>4
    <2>6. QED
        BY <2>2, <2>5 DEF Place
<1>11. \A j \in 1..(m + 1) : L[j].kind = "frame"
    <2>1. \A j \in 1..(m + 1) : j \in 1..m \/ j = m + 1
        BY <1>6
    <2>2. QED
        BY <1>4, <1>5, <2>1
<1>12. Linked(m + 1, e)'
    BY <1>1, <1>5, <1>9, <1>10, <1>11 DEF Linked
<1>13. m + 1 \in 0..Len(log'["recv"])
    BY <1>1, <1>5, <1>6
<1>14. QED
    BY <1>1, <1>12, <1>13 DEF LinkedSomewhere

\* The frame is one the client knows.
LEMMA LinkedReturn ==
    ASSUME NEW e, Behind(e), NEW m \in 0..Len(log["recv"]), NEW p \in Nat, Linked(m, p),
           input[p + 1] \in Nat, e = p + 4 + input[p + 1], input[p + 1] <= MaxPayload,
           Known(input[p + 2]), Return(Cut(input, p, p + 4), Cut(input, p + 4, e))
    PROVE  LinkedSomewhere'
<1>1. /\ ReaderInv /\ e \in Nat /\ e <= filled /\ UNCHANGED tapVars /\ ending = "none"
      /\ input \in Seq(Nat) /\ filled \in Nat /\ filled <= Len(input)
    BY DEF Behind, ReaderInv, ReaderType
<1>2. DecodedAt(input, p + 1) = Decoded(Cut(input, p, p + 4), Cut(input, p + 4, e))
    <2>1. PICK a \in Nat : /\ a = p + 1 /\ a >= 1 /\ a + 3 <= Len(input) /\ a - 1 = p /\ a + 3 = p + 4
                           /\ a + 3 + input[p + 1] = e
        <3>1. /\ p + 1 \in Nat /\ p + 1 >= 1 /\ p + 1 + 3 <= Len(input) /\ p + 1 - 1 = p
              /\ p + 1 + 3 = p + 4 /\ p + 1 + 3 + input[p + 1] = e
            BY <1>1, SMTT(60)
        <3>2. QED
            BY <3>1
    <2>2. DecodedAt(input, a) = Decoded(Cut(input, a - 1, a + 3), Cut(input, a + 3, a + 3 + input[a]))
        BY <1>1, <2>1, HeaderThere
    <2>3. QED
        BY <2>1, <2>2
<1>3. CASE ending' = "streamzero" /\ got' = got
    BY <1>1, <1>3, StillLinked DEF Refusals
<1>4. CASE /\ got' = Append(got, Decoded(Cut(input, p, p + 4), Cut(input, p + 4, e)))
           /\ Call("header", HeaderSize) /\ ending' = ending
    BY <1>1, <1>2, <1>4, LinkedNext
<1>5. QED
    BY <1>3, <1>4 DEF Return, Fails

\* The payload of the frame after p bytes is being read.
LEMMA InThisPayload ==
    ASSUME NEW p \in Nat, ReaderInv', ending' = "none", stage' = "payload",
           p + 4 + Len(part') = Consumed'
    PROVE  Place(p)'
<1>1. Len(part') \in Nat
    BY DEF ReaderInv, ReaderType
<1>2. (\E a \in 1..Len(input) : InPayload(a))'
    BY DEF ReaderInv, InHeader, InDiscard
<1>3. PICK a \in 1..Len(input') : InPayload(a)'
    BY <1>2
<1>4. a + 3 + Len(part') = Consumed'
    BY <1>3 DEF InPayload
<1>5. PICK q \in Nat : q = Len(part')
    BY <1>1
<1>6. a \in Nat /\ a + 3 + q = p + 4 + q
    BY <1>4, <1>5
<1>7. a = p + 1
    BY <1>6
<1>8. QED
    BY <1>3, <1>7 DEF Place

\* The header of the frame after p bytes is complete.
LEMMA LinkedHeader ==
    ASSUME NEW e, Behind(e), NEW m \in 0..Len(log["recv"]), NEW p \in Nat, Linked(m, p), e = p + 4,
           HeaderRead(Cut(input, p, e)), ReaderInv'
    PROVE  LinkedSomewhere'
<1> DEFINE h == Cut(input, p, e)
           n == input[p + 1]
<1>1. /\ ReaderInv /\ TapInv /\ LinkInv /\ feeding # "recv" /\ e \in Nat /\ e <= filled /\ ending = "none"
      /\ Moved(e) /\ UNCHANGED tapVars /\ input \in Seq(Nat) /\ filled \in Nat /\ filled <= Len(input)
    BY DEF Behind, ReaderInv, ReaderType
<1>2. h[1] = n /\ h[2] = input[p + 2]
    <2>1. p <= e /\ e <= Len(input) /\ e - p = 4
        BY <1>1
    <2>2. \A k \in 1..(e - p) : Cut(input, p, e)[k] = input[p + k]
        BY <1>1, <2>1, CutFacts
    <2>3. QED
        BY <2>1, <2>2
<1>3. n \in Nat /\ (n > MaxPayload => At(Crossed("recv"), p + 1) = "oversize")
    BY <1>1, SeenByBoth
<1>4. /\ input' = input /\ Consumed' = e
    BY <1>1 DEF Moved
<1> HIDE DEF h, n
<1>5. CASE n > MaxPayload
    <2>1. ending' = "oversize" /\ got' = got
        BY <1>2, <1>5 DEF HeaderRead, TooLong, h, Fails
    <2>2. broken["recv"]
        <3>1. p = Ends(log["recv"], m) /\ \A j \in 1..m : log["recv"][j].kind = "frame"
            BY DEF Linked
        <3>2. QED
            BY <1>1, <1>3, <1>5, <3>1, NextReport
    <2>3. QED
        BY <1>1, <2>1, <2>2, StillLinked DEF Refusals
<1>6. CASE ~(n > MaxPayload) /\ Known(h[2]) /\ n = 0
    <2>1. Return(h, <<>>)
        BY <1>2, <1>6 DEF HeaderRead, TooLong, h
    <2>2. Cut(input, e, e) = <<>>
        BY <1>1, CutNone
    <2>3. e = p + 4 + n /\ n <= MaxPayload
        BY <1>3, <1>6, WireAssumption
    <2>4. Return(Cut(input, p, p + 4), Cut(input, p + 4, e))
        BY <2>1, <2>2 DEF h
    <2>5. QED
        BY <1>2, <1>3, <1>6, <2>3, <2>4, LinkedReturn DEF n
<1>7. CASE ~(n > MaxPayload) /\ Known(h[2]) /\ n # 0
    <2>1. Call("payload", n) /\ got' = got /\ ending' = "none"
        BY <1>1, <1>2, <1>7 DEF HeaderRead, TooLong, h
    <2>2. stage' = "payload" /\ part' = <<>>
        BY <2>1 DEF Call
    <2>3. p + 4 + Len(part') = Consumed'
        <3>1. Len(<<>>) = 0
            OBVIOUS
        <3>2. Len(part') = 0
            BY <2>2, <3>1, Zenon
        <3>3. QED
            BY <1>4, <3>2
    <2>4. Place(p)'
        BY <2>1, <2>2, <2>3, InThisPayload
    <2>5. QED
        BY <1>1, <2>1, <2>4, StillLinked
<1>8. CASE ~(n > MaxPayload) /\ ~Known(h[2]) /\ n # 0
    <2>1. Call("discard", n) /\ got' = got /\ ending' = "none"
        BY <1>1, <1>2, <1>3, <1>8, SMTT(60) DEF HeaderRead, TooLong, h
    <2>2. stage' = "discard" /\ want' = n
        BY <2>1 DEF Call
    <2>3. n <= MaxPayload /\ p + 4 <= e /\ p + 4 + n = e + n
        BY <1>3, <1>8, WireAssumption
    <2>4. p + 4 <= Consumed' /\ p + 4 + input'[p + 1] = Consumed' + want'
        BY <1>4, <2>2, <2>3 DEF n
    <2>5. input'[p + 1] <= MaxPayload /\ ~Known(input'[p + 2])
        BY <1>2, <1>4, <1>8, <2>3 DEF n
    <2>6. Place(p)'
        BY <2>2, <2>4, <2>5 DEF Place
    <2>7. QED
        BY <1>1, <2>1, <2>6, StillLinked
<1>9. CASE ~(n > MaxPayload) /\ ~Known(h[2]) /\ n = 0
    <2>1. Call("header", HeaderSize) /\ got' = got /\ ending' = "none"
        BY <1>1, <1>2, <1>3, <1>9 DEF HeaderRead, TooLong, h
    <2>2. e = p + 4 + n /\ n <= MaxPayload
        BY <1>3, <1>9, WireAssumption
    <2>3. QED
        BY <1>2, <1>3, <1>9, <2>1, <2>2, LinkedNext DEF n
<1>10. QED
    BY <1>5, <1>6, <1>7, <1>8, <1>9

LEMMA TakeLinks ==
    ASSUME ReaderInv, TapInv, LinkInv, Take, feeding # "recv", UNCHANGED tapVars
    PROVE  LinkedSomewhere'
<1>1. PICK k \in Nat :
        /\ k >= 1 /\ k <= want - Len(part) /\ Consumed + k <= filled
        /\ Moved(Consumed + k)
        /\ TakeCases(k, part \o Cut(input, Consumed, Consumed + k))
    BY TakeMoves
<1>2. ending = "none" /\ ReaderInv'
    BY TakeKeeps DEF Take
<1>3. PICK m \in 0..Len(log["recv"]), p \in Nat : Linked(m, p)
    BY DEF LinkInv
<1>4. Place(p)
    BY <1>2, <1>3 DEF Linked, Refusals
<1>5. /\ input \in Seq(Nat) /\ filled <= Len(input) /\ filled \in Nat /\ Len(input) \in Nat
      /\ part \in Seq(Nat) /\ Len(part) \in Nat /\ want \in Nat
    BY DEF ReaderInv, ReaderType
<1>6. PICK c \in Nat, e \in Nat : c = Consumed /\ e = Consumed + k /\ e = c + k /\ c <= e /\ e <= filled /\ e <= Len(input)
    <2>1. Consumed \in Nat
        BY ConsumedFits
    <2>2. Consumed + k \in Nat /\ Consumed <= Consumed + k /\ Consumed + k <= Len(input)
        BY <1>1, <1>5, <2>1
    <2>3. QED
        BY <1>1, <2>1, <2>2
<1>7. Behind(e) /\ Moved(e) /\ TakeCases(k, part \o Cut(input, c, e))
    BY <1>1, <1>2, <1>6 DEF Behind
<1>8. input' = input /\ Consumed' = e
    BY <1>7 DEF Moved
<1>8a. PICK q \in Nat, w \in Nat : q = Len(part) /\ w = want /\ k <= w - q
    BY <1>1, <1>5
<1>8b. e = c + k /\ c <= e /\ e <= Len(input) /\ input \in Seq(Nat)
    BY <1>5, <1>6
<1>9. InHeader \/ (\E a \in 1..Len(input) : InPayload(a)) \/ InDiscard
    BY <1>2 DEF ReaderInv
<1>10. CASE stage = "header" /\ Len(part) < 4 /\ p + Len(part) = Consumed
    <2>1. InHeader
        BY <1>9, <1>10 DEF InPayload, InDiscard
    <2>2. want = 4 /\ p <= c /\ p <= e /\ e - p = Len(part) + k /\ e - p <= 4 /\ c - Len(part) = p
        <3>1. w = 4 /\ p + q = c
            BY <1>6, <1>8a, <1>10, <2>1 DEF InHeader
        <3>2. k <= 4 - q /\ e = p + q + k
            BY <1>8a, <1>8b, <3>1
        <3>3. p <= c /\ p <= e /\ e - p = q + k /\ e - p <= 4 /\ c - q = p
            BY <3>1, <3>2
        <3>4. QED
            BY <1>8a, <3>1, <3>3
    <2>3. part = Cut(input, p, c)
        BY <1>6, <2>1, <2>2 DEF InHeader
    <2>4. Cut(input, p, c) \o Cut(input, c, e) = Cut(input, p, e)
        <3>1. input \in Seq(Nat) /\ p <= c /\ c <= e /\ e <= Len(input)
            BY <1>8b, <2>2
        <3>2. QED
            BY <3>1, CutJoin, ZenonT(60)
    <2>5. PICK full \in Seq(Nat) : full = Cut(input, p, e) /\ Len(full) = e - p
        BY <1>5, <1>6, <2>2, CutFacts
    <2>6. TakeCases(k, full)
        BY <1>7, <2>3, <2>4, <2>5
    <2>7. CASE e - p < 4
        <3>1. Len(full) < want /\ ~(Len(full) = want)
            BY <2>2, <2>5, <2>7
        <3>2. (stage = "discard") = FALSE
            BY <1>10
        <3>3. part' = full /\ UNCHANGED <<stage, hdr, want, got, ending>>
            BY <2>6, <3>1, <3>2 DEF TakeCases
        <3>4. Len(part') < 4 /\ p + Len(part') = Consumed'
            BY <1>8, <2>5, <2>7, <3>3
        <3>5. Place(p)'
            BY <1>10, <3>3, <3>4 DEF Place
        <3>6. QED
            BY <1>2, <1>3, <3>3, <3>5, StillLinked
    <2>8. CASE e - p = 4
        <3>1. Len(full) = want /\ ~(Len(full) < want)
            BY <2>2, <2>5, <2>8
        <3>2. HeaderRead(Cut(input, p, e))
            BY <1>10, <2>5, <2>6, <3>1 DEF TakeCases
        <3>3. e = p + 4
            BY <2>8
        <3>4. QED
            BY <1>2, <1>3, <1>7, <3>2, <3>3, LinkedHeader
    <2>9. QED
        BY <2>2, <2>7, <2>8
<1>11. CASE stage = "payload" /\ InPayload(p + 1)
    <2>1. /\ p + 1 + 3 + Len(part) = c /\ want = input[p + 1] /\ want <= MaxPayload /\ Known(input[p + 1 + 1])
          /\ hdr = Cut(input, p + 1 - 1, p + 1 + 3) /\ part = Cut(input, p + 1 + 3, c)
        BY <1>6, <1>11 DEF InPayload
    <2>2. PICK b \in Nat : b = p + 4 /\ p + 1 + 3 = b /\ p + 1 - 1 = p /\ p + 1 + 1 = p + 2
        OBVIOUS
    <2>3. b + Len(part) = c /\ hdr = Cut(input, p, b) /\ part = Cut(input, b, c) /\ Known(input[p + 2])
        BY <2>1, <2>2
    <2>4. b <= c /\ b <= e /\ e - b = Len(part) + k /\ e - b <= want
        <3>1. b + q = c /\ e = b + q + k
            BY <1>8a, <1>8b, <2>3
        <3>2. b <= c /\ b <= e /\ e - b = q + k /\ e - b <= w
            BY <1>8a, <3>1
        <3>3. QED
            BY <1>8a, <3>2
    <2>5. Cut(input, b, c) \o Cut(input, c, e) = Cut(input, b, e)
        <3>1. input \in Seq(Nat) /\ b <= c /\ c <= e /\ e <= Len(input)
            BY <1>8b, <2>4
        <3>2. QED
            BY <3>1, CutJoin
    <2>6. PICK full \in Seq(Nat) : full = Cut(input, b, e) /\ Len(full) = e - b
        BY <1>5, <1>6, <2>4, CutFacts, ZenonT(60)
    <2>7. TakeCases(k, full)
        BY <1>7, <2>3, <2>5, <2>6
    <2>8. CASE e - b < want
        <3>1. Len(full) < want /\ ~(Len(full) = want)
            BY <1>5, <2>6, <2>8
        <3>2. (stage = "discard") = FALSE
            BY <1>11
        <3>3. part' = full /\ UNCHANGED <<stage, hdr, want, got, ending>>
            BY <2>7, <3>1, <3>2 DEF TakeCases
        <3>4. p + 4 + Len(part') = Consumed'
            BY <1>8, <2>2, <2>6, <3>3
        <3>5. Place(p)'
            BY <1>2, <1>11, <3>3, <3>4, InThisPayload
        <3>6. QED
            BY <1>2, <1>3, <3>3, <3>5, StillLinked
    <2>9. CASE e - b = want
        <3>1. Len(full) = want /\ ~(Len(full) < want)
            BY <1>5, <2>6, <2>9
        <3>2. Return(hdr, full)
            BY <1>11, <2>7, <3>1 DEF TakeCases
        <3>3. Return(Cut(input, p, p + 4), Cut(input, p + 4, e))
            BY <2>2, <2>3, <2>6, <3>2
        <3>4. e = b + want
            BY <1>5, <2>9
        <3>5. e = p + 4 + input[p + 1] /\ input[p + 1] \in Nat /\ input[p + 1] <= MaxPayload
            BY <1>5, <2>1, <2>2, <3>4
        <3>6. QED
            BY <1>3, <1>7, <2>3, <3>3, <3>5, LinkedReturn
    <2>10. e - b < want \/ e - b = want
        <3>1. e - b <= w
            BY <1>8a, <2>4
        <3>2. e - b < w \/ e - b = w
            BY <3>1
        <3>3. QED
            BY <1>8a, <3>2
    <2>11. QED
        BY <2>8, <2>9, <2>10
<1>12. CASE /\ stage = "discard" /\ p + 4 <= Consumed /\ input[p + 1] <= MaxPayload /\ ~Known(input[p + 2])
            /\ p + 4 + input[p + 1] = Consumed + want
    <2>1. /\ IF k = want THEN Call("header", HeaderSize) ELSE Call("discard", want - k)
          /\ UNCHANGED <<hdr, got, ending>>
        BY <1>7, <1>12 DEF TakeCases
    <2>2. p + 4 <= filled
        BY <1>5, <1>6, <1>12
    <2>3. input[p + 1] \in Nat
        BY <2>2, SeenByBoth
    <2>4. CASE k = want
        <3>1. Call("header", HeaderSize)
            BY <2>1, <2>4
        <3>2. e = p + 4 + input[p + 1]
            BY <1>6, <1>12, <2>4
        <3>3. QED
            BY <1>2, <1>3, <1>7, <1>12, <2>1, <2>3, <3>1, <3>2, LinkedNext
    <2>5. CASE k # want
        <3>1. stage' = "discard" /\ want' = want - k
            BY <2>1, <2>5 DEF Call
        <3>2. p + 4 + input[p + 1] = c + want
            BY <1>6, <1>12
        <3>3. p + 4 + input[p + 1] = e + want'
            BY <1>5, <1>6, <3>1, <3>2
        <3>4. p + 4 <= e
            <4>1. p + 4 <= c
                BY <1>6, <1>12
            <4>2. QED
                BY <1>6, <4>1
        <3>5. Place(p)'
            BY <1>8, <1>12, <3>1, <3>3, <3>4 DEF Place
        <3>6. QED
            BY <1>2, <1>3, <2>1, <3>5, StillLinked
    <2>6. QED
        BY <2>4, <2>5
<1>13. QED
    BY <1>4, <1>10, <1>11, <1>12 DEF Place

LEMMA LinkKeeps ==
    ASSUME ReaderInv, TapInv, LinkInv, [Next]_vars
    PROVE  LinkInv'
<1>1. "recv" \in Dirs /\ "sent" \in Dirs /\ "sent" # "recv" /\ TapTypes
    BY DEF Dirs, TapInv
<1>2. CASE TappedRead \/ DrainRead
    BY <1>2, LinkFed
<1>3. CASE TappedWrite
    <2>1. UNCHANGED readerVars /\ \E b : Feed("sent", b)
        BY <1>3 DEF TappedWrite
    <2>2. QED
        BY <1>1, <2>1, FeedElsewhere, LinkStays
<1>4. CASE TapStep
    <2>1. PICK x \in Dirs : FeedBroken(x) \/ FeedDone(x) \/ FeedFrame(x)
        BY <1>4 DEF TapStep, FeedLoop
    <2>2. UNCHANGED readerVars
        BY <1>4 DEF TapStep
    <2>3. CASE x = "recv"
        BY <2>1, <2>2, <2>3, LinkLoop
    <2>4. CASE x # "recv"
        BY <1>1, <2>1, <2>2, <2>4, LoopElsewhere, LinkStays
    <2>5. QED
        BY <2>3, <2>4
<1>5. CASE ReaderStep
    <2>1. /\ feeding # "recv" /\ UNCHANGED tapVars /\ UNCHANGED <<input, filled>>
          /\ Take \/ EndOfInput \/ ReadError
        BY <1>5 DEF ReaderStep, Take, EndOfInput, ReadError
    <2>2. LinkedSomewhere'
        <3>1. CASE Take
            BY <2>1, <3>1, TakeLinks
        <3>2. CASE EndOfInput \/ ReadError
            <4>1. /\ ending = "none" /\ ending' \in {"eof", "truncated", "error"}
                  /\ UNCHANGED <<input, filled, buffer, stage, hdr, part, want, got>>
                BY <3>2 DEF EndOfInput, ReadError
            <4>2. Consumed' = Consumed
                BY <4>1 DEF Consumed
            <4>3. \A p : Place(p)' = Place(p)
                BY <4>1, <4>2, PlaceStays
            <4>4. PICK m \in 0..Len(log["recv"]), p \in Nat : Linked(m, p)
                BY DEF LinkInv
            <4>5. Place(p)'
                BY <4>1, <4>3, <4>4 DEF Linked, Refusals
            <4>6. QED
                BY <2>1, <4>1, <4>4, <4>5, StillLinked
        <3>3. QED
            BY <2>1, <3>1, <3>2
    <2>3. feeding' = feeding /\ log' = log /\ broken' = broken /\ Crossed("recv")' = Crossed("recv")
        BY <2>1, CrossedFacts DEF tapVars
    <2>4. QED
        BY <2>1, <2>2, <2>3 DEF LinkInv, LinkedSomewhere
<1>6. CASE FlushTap
    BY <1>6, LinkFlush DEF FlushTap
<1>7. CASE Finished \/ UNCHANGED vars
    <2>1. UNCHANGED readerVars /\ UNCHANGED tapVars
        BY <1>7 DEF Finished, vars
    <2>2. QED
        BY <2>1, LinkStays DEF tapVars
<1>8. QED
    BY <1>2, <1>3, <1>4, <1>5, <1>6, <1>7 DEF Next

LEMMA LinkStarts ==
    ASSUME Init
    PROVE  LinkInv
<1>1. PICK t \in Traffic : ReaderInit(t[1])
    BY DEF Init
<1>2. /\ input = t[1] /\ input \in Seq(Nat) /\ filled = 0 /\ buffer = <<>> /\ stage = "header" /\ part = <<>>
      /\ got = <<>> /\ ending = "none"
    BY <1>1, TrafficAssumption DEF ReaderInit
<1>3. feeding = "none" /\ log["recv"] = <<>> /\ broken["recv"] = FALSE
    BY DEF Init, TapInit, Dirs
<1>4. Len(<<>>) = 0 /\ <<>> \in Seq(Nat) /\ <<>> \in Seq(Report)
    OBVIOUS
<1>5. Len(log["recv"]) = 0 /\ Len(part) = 0 /\ Len(buffer) = 0
    BY <1>2, <1>3, <1>4, Zenon
<1>6. Crossed("recv") = <<>> /\ Len(Crossed("recv")) = 0
    <2>1. Cut(input, 0, 0) = <<>>
        <3>1. 0 \in Nat /\ 0 <= Len(input)
            BY <1>2
        <3>2. QED
            BY <1>2, <3>1, CutNone
    <2>2. QED
        BY <1>2, <1>4, <2>1, CrossedFacts
<1>7. WholeFrames(Crossed("recv"), log["recv"])
    BY <1>5 DEF WholeFrames
<1>8. CaughtUp(Crossed("recv"), log["recv"], broken["recv"])
    <2>1. Ends(log["recv"], 0) = 0
        BY DEF Ends
    <2>2. At(Crossed("recv"), 0 + 1) = "eof" /\ 0 + 1 \in 1..(Len(Crossed("recv")) + 1)
        BY <1>6 DEF At
    <2>3. FramesFirst(log["recv"], 0) /\ 0 \in 0..Len(log["recv"])
        BY <1>5 DEF FramesFirst
    <2>4. Caught(Crossed("recv"), log["recv"], broken["recv"], 0)
        BY <1>3, <2>1, <2>2, <2>3 DEF Caught
    <2>5. QED
        BY <2>3, <2>4 DEF CaughtUp
<1>9. Linked(0, 0)
    <2>1. Consumed = 0
        <3>1. Consumed = filled - Len(buffer)
            BY DEF Consumed
        <3>2. QED
            BY <1>2, <1>5, <3>1
    <2>2. Place(0)
        BY <1>2, <1>5, <2>1 DEF Place
    <2>3. Understood(log["recv"])[0] = <<>>
        <3>1. log["recv"] \in Seq(Report) /\ 0 \in 0..Len(log["recv"])
            BY <1>3, <1>4, <1>5
        <3>2. QED
            BY <3>1, UnderstoodEquation DEF UnderstoodBody
    <2>4. QED
        BY <1>2, <2>2, <2>3 DEF Linked, Ends
<1>10. 0 \in 0..Len(log["recv"]) /\ 0 \in Nat
    BY <1>5
<1>11. QED
    BY <1>2, <1>3, <1>7, <1>8, <1>9, <1>10 DEF LinkInv

\* The tap and the client understand the same bytes in the same way, for every
\* stream and every way to cut it up: what frame.Read returns to the client has
\* been printed by the tap before, and nothing the tap printed as a frame is
\* missing once the client waits for more, unless Read refused what came.
THEOREM ShownBeforeRead == Spec => []ShowsWhatIsRead
<1>1. Init => LinkInv
    BY LinkStarts
<1>2. ReaderInv /\ TapInv /\ LinkInv /\ [Next]_vars => LinkInv'
    BY LinkKeeps
<1>3. ReaderInv /\ TapInv /\ LinkInv => ShowsWhatIsRead
    BY LinkShows
<1>4. QED
    BY <1>1, <1>2, <1>3, BothHold, PTL DEF Spec
=============================================================================
