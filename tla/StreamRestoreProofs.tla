------------------------ MODULE StreamRestoreProofs -------------------------
(***************************************************************************)
(* Proofs about StreamRestore, for any streams, limits and ways to cut.    *)
(***************************************************************************)
EXTENDS StreamRestore, SequenceTheorems, FiniteSetTheorems, NaturalLemmas

-----------------------------------------------------------------------------
(* Slots.                                                                  *)

Glyphs == Pieces \cup Values

FieldRecords == [proto : {"chat", "anthropic", "responses", "ollama"}, idx : Nat, name : STRING]

\* Writing a channel back leads to the field it was made from.
LEMMA SlotBack ==
    ASSUME NEW f \in FieldRecords
    PROVE  SetSlot(TextSlot(f)) = f
    <1> DEFINE ch == TextSlot(f)
               p == f.proto
               n == f.name
               known == n \in DOMAIN SlotNames[p]
    <1>1. p \in {"chat", "anthropic", "responses", "ollama"} /\ f.idx \in Nat /\ n \in STRING
          /\ f = [proto |-> p, idx |-> f.idx, name |-> n]
        BY DEF FieldRecords
    <1>2. /\ ch.proto = p /\ ch.idx = f.idx /\ ch.x = ~known
          /\ ch.slot = IF known THEN SlotNames[p][n] ELSE n
        BY DEF TextSlot
    <1> HIDE DEF ch
    <1> DEFINE back == IF ch.x THEN ch.slot
                       ELSE IF p = "ollama" THEN CHOOSE m \in DOMAIN SlotNames.ollama : SlotNames.ollama[m] = ch.slot
                       ELSE FieldNames[p][ch.slot]
    <1>3. SetSlot(ch) = [proto |-> p, idx |-> f.idx, name |-> back]
        BY <1>2 DEF SetSlot, ListedName
    <1>4. SUFFICES back = n
        BY <1>1, <1>3 DEF ch
    <1>5. CASE ~ known
        BY <1>2, <1>5
    <1>6. CASE known /\ p = "chat"
        <2>1. n \in {"content", "reasoning_content", "reasoning", "reasoning_details", "tool_calls",
                     "function_call", "text"}
            BY <1>6 DEF SlotNames
        <2>2. back = FieldNames["chat"][SlotNames["chat"][n]]
            BY <1>2, <1>6
        <2>3. QED
            BY <2>1, <2>2 DEF SlotNames, FieldNames
    <1>7. CASE known /\ p = "anthropic"
        <2>1. n \in {"text", "thinking", "partial_json"}
            BY <1>7 DEF SlotNames
        <2>2. back = FieldNames["anthropic"][SlotNames["anthropic"][n]]
            BY <1>2, <1>7
        <2>3. QED
            BY <2>1, <2>2 DEF SlotNames, FieldNames
    <1>8. CASE known /\ p = "responses"
        <2>1. n \in {"output_text", "reasoning_text", "function_call_arguments"}
            BY <1>8 DEF SlotNames
        <2>2. back = FieldNames["responses"][SlotNames["responses"][n]]
            BY <1>2, <1>8
        <2>3. QED
            BY <2>1, <2>2 DEF SlotNames, FieldNames
    <1>9. CASE known /\ p = "ollama"
        <2>1. n \in {"message_content", "message_thinking", "response", "thinking"}
              /\ DOMAIN SlotNames.ollama = {"message_content", "message_thinking", "response", "thinking"}
            BY <1>9 DEF SlotNames
        <2>2. \A k, m \in DOMAIN SlotNames.ollama : SlotNames.ollama[k] = SlotNames.ollama[m] => k = m
            BY <2>1 DEF SlotNames
        <2>3. ch.slot = SlotNames.ollama[n] /\ ~ ch.x
            BY <1>2, <1>9
        <2>4. back = CHOOSE m \in DOMAIN SlotNames.ollama : SlotNames.ollama[m] = SlotNames.ollama[n]
            BY <1>9, <2>3
        <2>5. back = n
            <3> HIDE DEF back
            <3>1. QED
                BY <2>1, <2>2, <2>4
        <2>6. QED
            BY <2>5
    <1>10. QED
        BY <1>1, <1>5, <1>6, <1>7, <1>8, <1>9

-----------------------------------------------------------------------------
(* Restoring a text that is cut in two.                                    *)

\* The text ends inside a placeholder.
EndsHalf(x) ==
    \/ At(x, Len(x), "p1") \/ At(x, Len(x), "b1")
    \/ At(x, Len(x) - 1, "p1") /\ At(x, Len(x), "p2")

\* No placeholder lies across the cut between x and y.
Parted(x, y) == ~ EndsHalf(x) \/ At(y, 1, "p1") \/ At(y, 1, "b1")

Spelled(t, escape) ==
    [i \in 1 .. Len(t) |-> IF PlaceholderAt(t, i) THEN IF escape THEN "E" ELSE "V" ELSE t[i]]

Outside(t) == {i \in 1 .. Len(t) : ~ InsidePlaceholder(t, i)}

LEMMA JoinIs ==
    ASSUME NEW T, NEW x \in Seq(T), NEW y \in Seq(T), NEW z \in Seq(T), Len(z) = Len(x) + Len(y),
           \A i \in 1 .. Len(z) : z[i] = IF i <= Len(x) THEN x[i] ELSE y[i - Len(x)]
    PROVE  z = x \o y
    <1> DEFINE j == x \o y
    <1>1. j \in Seq(T) /\ Len(j) = Len(x) + Len(y)
          /\ \A i \in 1 .. Len(x) + Len(y) : j[i] = IF i <= Len(x) THEN x[i] ELSE y[i - Len(x)]
        BY ConcatProperties
    <1> HIDE DEF j
    <1>2. Len(z) = Len(j) /\ \A i \in 1 .. Len(z) : z[i] = j[i]
        BY <1>1
    <1>3. z = j
        BY <1>1, <1>2, SeqEqual
    <1>4. QED
        BY <1>3 DEF j

Associates(a, b, e) == (a \o b) \o e = a \o (b \o e)

LEMMA Regroup ==
    ASSUME NEW T, NEW a \in Seq(T), NEW b \in Seq(T), NEW e \in Seq(T)
    PROVE  Associates(a, b, e)
    BY ConcatAssociative DEF Associates

LEMMA RestoreFinalIs ==
    ASSUME NEW t, NEW escape
    PROVE  RestoreFinal(t, escape) = Picked(Spelled(t, escape), Outside(t))
    BY DEF RestoreFinal, Spelled, Outside

LEMMA SpelledType ==
    ASSUME NEW t \in Seq(Pieces), NEW escape
    PROVE  Spelled(t, escape) \in Seq(Glyphs) /\ Len(Spelled(t, escape)) = Len(t)
    <1> DEFINE n == Len(t)
    <1>1. n \in Nat /\ \A i \in 1 .. n : t[i] \in Pieces
        BY LenProperties, ElementOfSeq
    <1>2. "V" \in Glyphs /\ "E" \in Glyphs /\ \A p \in Pieces : p \in Glyphs
        BY DEF Glyphs, Values
    <1>3. Spelled(t, escape) = [i \in 1 .. n |-> IF PlaceholderAt(t, i) THEN IF escape THEN "E" ELSE "V" ELSE t[i]]
        BY DEF Spelled
    <1> DEFINE f == Spelled(t, escape)
    <1> HIDE DEF n
    <1>4. f \in [1 .. n -> Glyphs]
        BY <1>1, <1>2, <1>3
    <1> HIDE DEF f
    <1>5. f \in Seq(Glyphs) /\ Len(f) = n
        BY <1>1, <1>4
    <1>6. QED
        BY <1>5 DEF f, n

LEMMA RestoreType ==
    ASSUME NEW t \in Seq(Pieces), NEW escape
    PROVE  RestoreFinal(t, escape) \in Seq(Glyphs)
    <1> DEFINE f == Spelled(t, escape)
               S == Outside(t)
    <1>1. f \in Seq(Glyphs) /\ S \in SUBSET (1 .. Len(f))
        BY SpelledType DEF Outside
    <1> HIDE DEF f, S
    <1>2. Picked(f, S) \in Seq(Glyphs)
        BY <1>1, PickedFacts
    <1>3. QED
        BY <1>2, RestoreFinalIs DEF f, S

LEMMA RestoreNone ==
    ASSUME NEW escape
    PROVE  RestoreFinal(<<>>, escape) = <<>>
    <1>1. Outside(<<>>) = {}
        BY DEF Outside
    <1>2. Cardinality({}) = 0
        BY FS_EmptySet
    <1>3. Picked(Spelled(<<>>, escape), {}) = <<>>
        BY <1>2 DEF Picked
    <1>4. QED
        BY <1>1, <1>3, RestoreFinalIs

\* A text cut where no placeholder lies may be restored in two parts.
LEMMA RestoreJoin ==
    ASSUME NEW x \in Seq(Pieces), NEW y \in Seq(Pieces), Parted(x, y), NEW escape
    PROVE  RestoreFinal(x \o y, escape) = RestoreFinal(x, escape) \o RestoreFinal(y, escape)
    <1> DEFINE z == x \o y
               m == Len(x)
               l == Len(y)
    <1>1. /\ m \in Nat /\ l \in Nat /\ z \in Seq(Pieces) /\ Len(z) = m + l
          /\ \A i \in 1 .. m + l : z[i] = IF i <= m THEN x[i] ELSE y[i - m]
        BY LenProperties, ConcatProperties
    <1> HIDE DEF z
    <1>2. ASSUME NEW i \in Int, NEW p, i <= m PROVE At(z, i, p) <=> At(x, i, p)
        BY <1>1, <1>2 DEF At
    <1>3. ASSUME NEW i \in Int, NEW p, i >= 1 PROVE At(z, m + i, p) <=> At(y, i, p)
        <2> DEFINE j == m + i
        <2>1. j \in 1 .. m + l <=> i \in 1 .. l
            BY <1>1, <1>3
        <2>2. i \in 1 .. l => ~ (j <= m) /\ j - m = i
            BY <1>1, <1>3
        <2> HIDE DEF j
        <2>3. At(z, j, p) <=> At(y, i, p)
            BY <1>1, <2>1, <2>2 DEF At
        <2>4. QED
            BY <2>3 DEF j
    <1>4. ~ (At(x, m, "p1") /\ At(y, 1, "p2")) /\ ~ (At(x, m, "b1") /\ At(y, 1, "b2"))
          /\ ~ (At(x, m - 1, "p1") /\ At(x, m, "p2") /\ At(y, 1, "p3"))
        BY DEF Parted, EndsHalf, At
    <1>5. ASSUME NEW i \in 1 .. m PROVE PlaceholderAt(z, i) <=> PlaceholderAt(x, i)
        <2>1. CASE i < m
            <3>1. i \in Int /\ i + 1 \in Int /\ i <= m /\ i + 1 <= m
                BY <1>1, <2>1
            <3>2. QED
                BY <1>2, <3>1 DEF PlaceholderAt
        <2>2. CASE i = m
            <3>1. m \in Int /\ m <= m /\ 1 \in Int
                BY <1>1
            <3>2. ~ PlaceholderAt(z, m)
                BY <1>2, <1>3, <1>4, <3>1 DEF PlaceholderAt
            <3>3. ~ At(x, m + 1, "p2") /\ ~ At(x, m + 1, "b2")
                BY <1>1 DEF At
            <3>4. QED
                BY <2>2, <3>2, <3>3 DEF PlaceholderAt
        <2>3. QED
            BY <1>1, <2>1, <2>2
    <1>6. ASSUME NEW i \in 1 .. l PROVE PlaceholderAt(z, m + i) <=> PlaceholderAt(y, i)
        <2>1. i \in Int /\ i + 1 \in Int /\ i >= 1 /\ i + 1 >= 1 /\ (m + i) + 1 = m + (i + 1)
            BY <1>1
        <2>2. QED
            BY <1>3, <2>1 DEF PlaceholderAt
    <1>7. ASSUME NEW i \in 1 .. m PROVE InsidePlaceholder(z, i) <=> InsidePlaceholder(x, i)
        <2>1. i > 1 => i - 1 \in 1 .. m
            BY <1>1
        <2>2. i - 2 \in Int /\ i - 1 \in Int /\ i \in Int /\ i - 2 <= m /\ i - 1 <= m /\ i <= m
            BY <1>1
        <2>3. QED
            BY <1>2, <1>5, <2>1, <2>2 DEF InsidePlaceholder
    <1>8. ASSUME NEW i \in 1 .. l PROVE InsidePlaceholder(z, m + i) <=> InsidePlaceholder(y, i)
        <2>1. CASE i = 1
            <3>1. ~ InsidePlaceholder(y, 1)
                BY DEF InsidePlaceholder
            <3>2. m >= 1 => ~ PlaceholderAt(z, m)
                <4>1. m \in Int /\ m <= m /\ 1 \in Int /\ 1 >= 1
                    BY <1>1
                <4>2. QED
                    BY <1>2, <1>3, <1>4, <4>1 DEF PlaceholderAt
            <3>3. ~ (At(z, m - 1, "p1") /\ At(z, m, "p2") /\ At(z, m + 1, "p3"))
                <4>1. m \in Int /\ m - 1 \in Int /\ m <= m /\ m - 1 <= m /\ 1 \in Int /\ 1 >= 1
                    BY <1>1
                <4>2. QED
                    BY <1>2, <1>3, <1>4, <4>1
            <3>4. (m + 1) - 1 = m /\ (m + 1) - 2 = m - 1 /\ (m + 1 > 1 => m >= 1)
                BY <1>1
            <3>5. ~ InsidePlaceholder(z, m + 1)
                BY <3>2, <3>3, <3>4 DEF InsidePlaceholder
            <3>6. QED
                BY <2>1, <3>1, <3>5
        <2>2. CASE i = 2
            <3>1. (m + 2) - 1 = m + 1 /\ (m + 2) - 2 = m /\ m + 2 > 1 /\ 1 \in 1 .. l
                BY <1>1, <2>2
            <3>2. PlaceholderAt(z, m + 1) <=> PlaceholderAt(y, 1)
                BY <1>6, <3>1
            <3>3. ~ (At(z, m, "p1") /\ At(z, m + 1, "p2"))
                <4>1. m \in Int /\ m <= m /\ 1 \in Int /\ 1 >= 1
                    BY <1>1
                <4>2. QED
                    BY <1>2, <1>3, <1>4, <4>1
            <3>4. InsidePlaceholder(z, m + 2) <=> PlaceholderAt(z, m + 1)
                BY <3>1, <3>3 DEF InsidePlaceholder
            <3>5. InsidePlaceholder(y, 2) <=> PlaceholderAt(y, 1)
                BY DEF InsidePlaceholder
            <3>6. QED
                BY <2>2, <3>2, <3>4, <3>5
        <2>3. CASE i > 2
            <3>1. /\ i - 1 \in 1 .. l /\ (m + i) - 1 = m + (i - 1) /\ (m + i) - 2 = m + (i - 2)
                  /\ i - 2 \in Int /\ i - 1 \in Int /\ i \in Int /\ i - 2 >= 1 /\ i - 1 >= 1 /\ i >= 1
                  /\ m + i > 1 /\ m + i > 2 /\ i > 1
                BY <1>1, <2>3
            <3>2. PlaceholderAt(z, (m + i) - 1) <=> PlaceholderAt(y, i - 1)
                BY <1>6, <3>1
            <3>3. \A p : /\ At(z, (m + i) - 2, p) <=> At(y, i - 2, p)
                         /\ At(z, (m + i) - 1, p) <=> At(y, i - 1, p)
                         /\ At(z, m + i, p) <=> At(y, i, p)
                BY <1>3, <3>1
            <3>4. QED
                BY <2>3, <3>1, <3>2, <3>3 DEF InsidePlaceholder
        <2>4. QED
            BY <1>1, <2>1, <2>2, <2>3
    <1> DEFINE ix == Spelled(x, escape)
               iy == Spelled(y, escape)
               iz == Spelled(z, escape)
               A == Outside(x)
               B == Outside(y)
               C == Outside(z)
    <1>9. /\ ix \in Seq(Glyphs) /\ iy \in Seq(Glyphs) /\ iz \in Seq(Glyphs)
          /\ Len(ix) = m /\ Len(iy) = l /\ Len(iz) = m + l
        BY <1>1, SpelledType
    <1>10. /\ \A i \in 1 .. m + l : iz[i] = IF i <= m THEN ix[i] ELSE iy[i - m]
        <2>1. \A i \in 1 .. m : iz[i] = ix[i]
            <3>1. ASSUME NEW i \in 1 .. m PROVE iz[i] = ix[i]
                <4>1. i \in 1 .. m + l /\ i <= m
                    BY <1>1
                <4>2. z[i] = x[i] /\ i \in 1 .. Len(z) /\ i \in 1 .. Len(x)
                    BY <1>1, <4>1
                <4>3. QED
                    BY <1>5, <4>2 DEF Spelled
            <3>2. QED
                BY <3>1
        <2>2. ASSUME NEW i \in 1 .. l PROVE iz[m + i] = iy[i]
            <3>1. m + i \in 1 .. m + l /\ ~ (m + i <= m) /\ (m + i) - m = i
                BY <1>1
            <3>2. z[m + i] = y[i] /\ m + i \in 1 .. Len(z) /\ i \in 1 .. Len(y)
                BY <1>1, <3>1
            <3>3. QED
                BY <1>6, <3>2 DEF Spelled
        <2>3. ASSUME NEW i \in 1 .. m + l, ~ (i <= m) PROVE i - m \in 1 .. l /\ i = m + (i - m)
            BY <1>1, <2>3
        <2>4. ASSUME NEW i \in 1 .. m + l, i <= m PROVE i \in 1 .. m
            BY <1>1, <2>4
        <2> HIDE DEF ix, iy, iz
        <2>5. QED
            BY <2>1, <2>2, <2>3, <2>4
    <1> HIDE DEF ix, iy, iz
    <1>11. iz = ix \o iy
        <2>1. Len(iz) = Len(ix) + Len(iy)
              /\ \A i \in 1 .. Len(iz) : iz[i] = IF i <= Len(ix) THEN ix[i] ELSE iy[i - Len(ix)]
            BY <1>9, <1>10
        <2>2. QED
            BY <1>9, <2>1, JoinIs
    <1>12. /\ A \in SUBSET (1 .. Len(ix)) /\ B \in SUBSET (1 .. Len(iy)) /\ C \in SUBSET (1 .. Len(ix \o iy))
        <2>1. A \in SUBSET (1 .. m) /\ B \in SUBSET (1 .. l) /\ C \in SUBSET (1 .. Len(z))
            BY DEF Outside
        <2> HIDE DEF A, B, C
        <2>2. Len(ix \o iy) = Len(z)
            BY <1>1, <1>9, <1>11
        <2>3. QED
            BY <1>9, <2>1, <2>2
    <1>13. \A i \in 1 .. Len(ix) : i \in C <=> i \in A
        <2>1. \A i \in 1 .. m : i \in 1 .. Len(z)
            BY <1>1
        <2>2. QED
            BY <1>7, <1>9, <2>1 DEF Outside
    <1>14. \A i \in 1 .. Len(iy) : Len(ix) + i \in C <=> i \in B
        <2>1. \A i \in 1 .. l : m + i \in 1 .. Len(z)
            BY <1>1
        <2>2. QED
            BY <1>8, <1>9, <2>1 DEF Outside
    <1> HIDE DEF A, B, C, ix, iy
    <1>15. Picked(ix \o iy, C) = Picked(ix, A) \o Picked(iy, B)
        <2>1. ix \in Seq(Glyphs) /\ iy \in Seq(Glyphs)
            BY <1>9
        <2>2. Joins(ix, iy, A, B, C)
            BY <1>12, <1>13, <1>14 DEF Joins
        <2>3. QED
            BY <2>1, <2>2, PickedJoin
    <1>16. QED
        BY <1>11, <1>15, RestoreFinalIs DEF ix, iy, iz, A, B, C, z

-----------------------------------------------------------------------------
(* What is held and what is released.                                      *)

LEMMA HalfFacts ==
    ASSUME NEW p \in Halves
    PROVE  /\ p \in Seq(Pieces) /\ Len(p) \in 0 .. 2
           /\ p # <<>> => At(p, 1, "p1") \/ At(p, 1, "b1")
           /\ PartialLen(p) = Len(p)
    <1>1. <<>> \in Seq(Pieces) /\ <<"p1">> \in Seq(Pieces) /\ <<"p1", "p2">> \in Seq(Pieces) /\ <<"b1">> \in Seq(Pieces)
        BY EmptySeq DEF Pieces
    <1>2. CASE p = <<>>
        <2>1. Len(p) = 0 /\ \A q : ~ At(p, Len(p) - 1, q) /\ ~ At(p, Len(p), q)
            BY <1>2 DEF At
        <2>2. QED
            BY <1>1, <1>2, <2>1, StreamAssumption DEF PartialLen
    <1>3. CASE p = <<"p1">>
        <2>1. Len(p) = 1 /\ At(p, Len(p), "p1") /\ ~ At(p, Len(p) - 1, "p1") /\ At(p, 1, "p1")
            BY <1>3 DEF At
        <2>2. QED
            BY <1>1, <1>3, <2>1, StreamAssumption DEF PartialLen
    <1>4. CASE p = <<"p1", "p2">>
        <2>1. Len(p) = 2 /\ At(p, Len(p), "p2") /\ At(p, Len(p) - 1, "p1") /\ At(p, 1, "p1")
            BY <1>4 DEF At
        <2>2. QED
            BY <1>1, <1>4, <2>1, StreamAssumption DEF PartialLen
    <1>5. CASE p = <<"b1">>
        <2>1. Len(p) = 1 /\ At(p, Len(p), "b1") /\ ~ At(p, Len(p) - 1, "p1") /\ At(p, 1, "b1")
            BY <1>5 DEF At
        <2>2. QED
            BY <1>1, <1>5, <2>1, StreamAssumption DEF PartialLen
    <1>6. QED
        BY <1>2, <1>3, <1>4, <1>5 DEF Halves

\* A text is released but for its last k pieces.
Released(b, k) == SubSeq(b, 1, Len(b) - k)
Held(b, k) == SubSeq(b, Len(Released(b, k)) + 1, Len(b))

LEMMA SplitFacts ==
    ASSUME NEW b \in Seq(Pieces), NEW k \in 0 .. Len(b)
    PROVE  /\ Released(b, k) \in Seq(Pieces) /\ Len(Released(b, k)) = Len(b) - k
           /\ Held(b, k) \in Seq(Pieces) /\ Len(Held(b, k)) = k
           /\ b = Released(b, k) \o Held(b, k)
           /\ \A i \in 1 .. k : Held(b, k)[i] = b[Len(b) - k + i]
    <1> DEFINE n == Len(b)
               r == Released(b, k)
               h == Held(b, k)
    <1>1. n \in Nat /\ \A i \in 1 .. n : b[i] \in Pieces
        BY LenProperties, ElementOfSeq
    <1>2. r = SubSeq(b, 1, n - k) /\ n - k \in 0 .. n
        BY <1>1 DEF Released
    <1>3. r \in Seq(Pieces) /\ Len(r) = n - k /\ \A i \in 1 .. n - k : r[i] = b[i]
        BY <1>1, <1>2
    <1>4. h = SubSeq(b, (n - k) + 1, n)
        BY <1>3 DEF Held
    <1>5. h \in Seq(Pieces) /\ Len(h) = k /\ \A i \in 1 .. k : h[i] = b[(n - k) + i]
        BY <1>1, <1>4
    <1> HIDE DEF r, h
    <1>6. Len(b) = Len(r) + Len(h)
          /\ \A i \in 1 .. Len(b) : b[i] = IF i <= Len(r) THEN r[i] ELSE h[i - Len(r)]
        <2>1. ASSUME NEW i \in 1 .. n PROVE b[i] = IF i <= Len(r) THEN r[i] ELSE h[i - Len(r)]
            <3>1. CASE i <= n - k
                BY <1>1, <1>3, <3>1
            <3>2. CASE ~ (i <= n - k)
                <4>1. i - (n - k) \in 1 .. k /\ (n - k) + (i - (n - k)) = i
                    BY <1>1, <3>2
                <4>2. QED
                    BY <1>1, <1>3, <1>5, <3>2, <4>1
            <3>3. QED
                BY <3>1, <3>2
        <2>2. QED
            BY <1>1, <1>3, <1>5, <2>1
    <1>7. b = r \o h
        BY <1>3, <1>5, <1>6, JoinIs
    <1>8. QED
        BY <1>3, <1>5, <1>7 DEF r, h

\* Only half placeholders are held, and what is released ends in none unless a
\* half follows.
LEMMA HoldFacts ==
    ASSUME NEW b \in Seq(Pieces)
    PROVE  /\ PartialLen(b) \in 0 .. Len(b)
           /\ Held(b, PartialLen(b)) \in Halves
           /\ Held(b, PartialLen(b)) = <<>> <=> PartialLen(b) = 0
           /\ PartialLen(b) = 0 => ~ EndsHalf(b)
    <1> DEFINE n == Len(b)
               k == PartialLen(b)
               h == Held(b, k)
    <1>1. n \in Nat
        BY LenProperties
    <1>2. \/ k = 2 /\ At(b, n - 1, "p1") /\ At(b, n, "p2")
          \/ k = 1 /\ (At(b, n, "p1") \/ At(b, n, "b1"))
          \/ k = 0 /\ ~ EndsHalf(b)
        BY StreamAssumption DEF PartialLen, EndsHalf
    <1>3. k \in 0 .. n
        BY <1>1, <1>2 DEF At
    <1> HIDE DEF k
    <1>4. h \in Seq(Pieces) /\ Len(h) = k /\ \A i \in 1 .. k : h[i] = b[n - k + i]
        BY <1>3, SplitFacts
    <1> HIDE DEF h
    <1>5. CASE k = 2 /\ At(b, n - 1, "p1") /\ At(b, n, "p2")
        <2>1. n - 2 + 1 = n - 1 /\ n - 2 + 2 = n
            BY <1>1
        <2>2. h[1] = "p1" /\ h[2] = "p2"
            BY <1>4, <1>5, <2>1 DEF At
        <2>3. h = <<"p1", "p2">>
            BY <1>4, <1>5, <2>2
        <2>4. QED
            BY <1>3, <1>5, <2>3 DEF Halves, k, h
    <1>6. CASE k = 1 /\ (At(b, n, "p1") \/ At(b, n, "b1"))
        <2>1. n - 1 + 1 = n
            BY <1>1
        <2>2. h[1] = "p1" \/ h[1] = "b1"
            BY <1>4, <1>6, <2>1 DEF At
        <2>3. h = <<"p1">> \/ h = <<"b1">>
            BY <1>4, <1>6, <2>2
        <2>4. QED
            BY <1>3, <1>6, <2>3 DEF Halves, k, h
    <1>7. CASE k = 0 /\ ~ EndsHalf(b)
        <2>1. h = <<>>
            BY <1>4, <1>7, EmptySeq
        <2>2. QED
            BY <1>3, <1>7, <2>1 DEF Halves, k, h
    <1>8. QED
        BY <1>2, <1>5, <1>6, <1>7

LEMMA AtJoin ==
    ASSUME NEW x \in Seq(Pieces), NEW y \in Seq(Pieces), NEW q
    PROVE  /\ \A i \in Nat : i <= Len(x) => (At(x \o y, i, q) <=> At(x, i, q))
           /\ \A i \in Nat \ {0} : At(x \o y, Len(x) + i, q) <=> At(y, i, q)
    <1> DEFINE z == x \o y
               m == Len(x)
               l == Len(y)
    <1>1. /\ m \in Nat /\ l \in Nat /\ Len(z) = m + l
          /\ \A i \in 1 .. m + l : z[i] = IF i <= m THEN x[i] ELSE y[i - m]
        BY LenProperties, ConcatProperties
    <1> HIDE DEF z
    <1>2. ASSUME NEW i \in Nat, i <= m PROVE At(z, i, q) <=> At(x, i, q)
        BY <1>1, <1>2 DEF At
    <1>3. ASSUME NEW i \in Nat \ {0} PROVE At(z, m + i, q) <=> At(y, i, q)
        <2> DEFINE j == m + i
        <2>1. j \in 1 .. m + l <=> i \in 1 .. l
            BY <1>1
        <2>2. ~ (j <= m) /\ j - m = i
            BY <1>1
        <2> HIDE DEF j
        <2>3. At(z, j, q) <=> At(y, i, q)
            BY <1>1, <2>1, <2>2 DEF At
        <2>4. QED
            BY <2>3 DEF j
    <1>4. QED
        BY <1>2, <1>3 DEF z

-----------------------------------------------------------------------------
(* The text of one field.                                                  *)

\* A field whose text g came in reads sh, and p is held: what is read is the
\* restoration of all but p, and no placeholder lies across the cut.
Reads(f, g, sh, p) ==
    \E x \in Seq(Pieces) : g = x \o p /\ sh = Restored(f, x) /\ (p = <<>> => ~ EndsHalf(x))

LEMMA CutClean ==
    ASSUME NEW x \in Seq(Pieces), NEW p \in Halves, NEW t \in Seq(Pieces), p = <<>> => ~ EndsHalf(x)
    PROVE  Parted(x, p \o t)
    <1>1. CASE p = <<>>
        BY <1>1 DEF Parted
    <1>2. CASE p # <<>>
        <2>1. At(p, 1, "p1") \/ At(p, 1, "b1")
            BY <1>2, HalfFacts
        <2>2. p \in Seq(Pieces) /\ Len(p) \in Nat /\ Len(t) \in Nat
            BY HalfFacts, LenProperties
        <2> DEFINE b == p \o t
        <2>3. Len(b) = Len(p) + Len(t) /\ \A i \in 1 .. Len(p) : b[i] = p[i]
            BY <2>2
        <2> HIDE DEF b
        <2>4. At(b, 1, "p1") \/ At(b, 1, "b1")
            BY <2>1, <2>2, <2>3 DEF At
        <2>5. QED
            BY <2>4 DEF Parted, b
    <1>3. QED
        BY <1>1, <1>2

\* Released without a hold, a text completes what is read.
LEMMA TextWhole ==
    ASSUME NEW f, NEW g, NEW sh, NEW p \in Halves, NEW t \in Seq(Pieces), Reads(f, g, sh, p)
    PROVE  sh \o Restored(f, p \o t) = Restored(f, g \o t)
    <1>1. PICK x \in Seq(Pieces) : g = x \o p /\ sh = Restored(f, x) /\ (p = <<>> => ~ EndsHalf(x))
        BY DEF Reads
    <1>2. p \in Seq(Pieces) /\ p \o t \in Seq(Pieces)
        BY HalfFacts, ConcatProperties
    <1>3. Parted(x, p \o t)
        BY <1>1, CutClean
    <1>4. Restored(f, x \o (p \o t)) = Restored(f, x) \o Restored(f, p \o t)
        BY <1>2, <1>3, RestoreJoin DEF Restored
    <1>5. g \o t = x \o (p \o t)
        BY <1>1, <1>2, ConcatAssociative
    <1>6. QED
        BY <1>1, <1>4, <1>5

\* Released up to the half placeholder at its end, it is read on.
LEMMA TextStep ==
    ASSUME NEW f, NEW g, NEW sh, NEW p \in Halves, NEW t \in Seq(Pieces), Reads(f, g, sh, p),
           NEW k, k = PartialLen(p \o t)
    PROVE  Reads(f, g \o t, sh \o Restored(f, Released(p \o t, k)), Held(p \o t, k))
    <1>1. PICK x \in Seq(Pieces) : g = x \o p /\ sh = Restored(f, x) /\ (p = <<>> => ~ EndsHalf(x))
        BY DEF Reads
    <1> DEFINE b == p \o t
               r == Released(b, k)
               h == Held(b, k)
               n == Len(x)
               l == Len(b)
    <1>2. p \in Seq(Pieces) /\ b \in Seq(Pieces)
        BY HalfFacts, ConcatProperties
    <1>3. Parted(x, b)
        BY <1>1, CutClean
    <1>4. p # <<>> => At(b, 1, "p1") \/ At(b, 1, "b1")
        <2>1. p # <<>> => At(p, 1, "p1") \/ At(p, 1, "b1")
            BY HalfFacts
        <2>2. Len(b) = Len(p) + Len(t) /\ Len(p) \in Nat /\ Len(t) \in Nat /\ \A i \in 1 .. Len(p) : b[i] = p[i]
            BY <1>2, LenProperties
        <2> HIDE DEF b
        <2>3. QED
            BY <2>1, <2>2 DEF At
    <1>5. k = PartialLen(b) /\ g \o t = x \o b
        BY <1>1, <1>2, ConcatAssociative
    <1>6. b = <<>> => p = <<>>
        <2>1. Len(b) = Len(p) + Len(t) /\ Len(p) \in Nat /\ Len(t) \in Nat
            BY <1>2, ConcatProperties, LenProperties
        <2> HIDE DEF b
        <2>2. b = <<>> => Len(p) = 0
            BY <2>1
        <2>3. QED
            BY <1>2, <2>2, EmptySeq
    <1> HIDE DEF b
    <1>7. /\ k \in 0 .. Len(b) /\ h \in Halves /\ (h = <<>> <=> k = 0) /\ (k = 0 => ~ EndsHalf(b))
        BY <1>2, <1>5, HoldFacts
    <1>8. r \in Seq(Pieces) /\ h \in Seq(Pieces) /\ b = r \o h
        BY <1>2, <1>7, SplitFacts
    <1> HIDE DEF r, h
    <1> DEFINE y == x \o r
    <1>9. y \in Seq(Pieces) /\ y \o h = x \o b
        BY <1>8, ConcatProperties, ConcatAssociative
    <1>10. sh \o Restored(f, r) = Restored(f, y)
        <2>1. CASE r = <<>>
            <3>1. Restored(f, r) = <<>> /\ y = x
                BY <2>1, RestoreNone, ConcatEmptySeq DEF Restored
            <3>2. sh \in Seq(Glyphs)
                BY <1>1, RestoreType DEF Restored
            <3>3. QED
                BY <1>1, <3>1, <3>2, ConcatEmptySeq
        <2>2. CASE r # <<>>
            <3>1. Len(r) \in Nat \ {0}
                BY <1>8, <2>2, LenProperties, EmptySeq
            <3>2. b[1] = r[1] /\ Len(b) \in Nat
                BY <1>2, <1>8, <3>1, LenProperties
            <3>3. Parted(x, r)
                BY <1>3, <3>1, <3>2 DEF Parted, At
            <3>4. QED
                BY <1>1, <1>8, <3>3, RestoreJoin DEF Restored
        <2>3. QED
            BY <2>1, <2>2
    <1>11. ASSUME h = <<>> PROVE ~ EndsHalf(y)
        <2>1. k = 0 /\ ~ EndsHalf(b)
            BY <1>7, <1>11
        <2>2. r = b
            BY <1>8, <1>11, ConcatEmptySeq
        <2>3. y = x \o b
            BY <2>2
        <2>4. n \in Nat /\ l \in Nat /\ Len(y) = n + l
            BY <1>2, <2>3, LenProperties, ConcatProperties
        <2> HIDE DEF y
        <2>5. CASE b = <<>>
            <3>1. y = x /\ p = <<>>
                BY <1>6, <2>3, <2>5, ConcatEmptySeq
            <3>2. QED
                BY <1>1, <3>1
        <2>6. CASE b # <<>>
            <3>1. l \in Nat \ {0}
                BY <1>2, <2>4, <2>6, EmptySeq
            <3>2. /\ \A i \in Nat : i <= n => \A q : At(y, i, q) <=> At(x, i, q)
                  /\ \A i \in Nat \ {0} : \A q : At(y, n + i, q) <=> At(b, i, q)
                BY <1>2, <2>3, AtJoin
            <3> HIDE DEF n, l
            <3>3. CASE l > 1
                <4>1. l - 1 \in Nat \ {0} /\ (n + l) - 1 = n + (l - 1)
                    BY <2>4, <3>3
                <4>2. \A q : At(y, n + (l - 1), q) <=> At(b, l - 1, q)
                    BY <3>2, <4>1
                <4>3. QED
                    BY <2>1, <2>4, <3>1, <3>2, <4>1, <4>2 DEF EndsHalf, l
            <3>4. CASE l = 1
                <4>1. (n + l) - 1 = n
                    BY <2>4, <3>4
                <4>2. \A q : At(y, n, q) <=> At(x, n, q)
                    BY <2>4, <3>2
                <4>3. SUFFICES ASSUME At(x, n, "p1"), At(b, 1, "p2") PROVE FALSE
                    BY <2>1, <2>4, <3>1, <3>2, <3>4, <4>1, <4>2 DEF EndsHalf, l
                <4>4. EndsHalf(x)
                    BY <4>3 DEF EndsHalf, n
                <4>5. QED
                    BY <1>3, <4>3, <4>4 DEF Parted, At
            <3>5. QED
                BY <3>1, <3>3, <3>4
        <2>7. QED
            BY <2>5, <2>6 DEF y
    <1>12. Reads(f, x \o b, Restored(f, y), h)
        BY <1>9, <1>11 DEF Reads
    <1>13. QED
        BY <1>5, <1>10, <1>12 DEF b, r, h

LEMMA ExtendsJoin ==
    ASSUME NEW T, NEW s \in Seq(T), NEW u \in Seq(T)
    PROVE  Promise!Extends(s \o u, s)
    <1> DEFINE z == s \o u
               n == Len(s)
    <1>1. n \in Nat /\ Len(u) \in Nat /\ z \in Seq(T) /\ Len(z) = n + Len(u) /\ \A i \in 1 .. n : z[i] = s[i]
        BY LenProperties, ConcatProperties
    <1> HIDE DEF z
    <1>2. SubSeq(z, 1, n) \in Seq(T) /\ Len(SubSeq(z, 1, n)) = n /\ \A i \in 1 .. n : SubSeq(z, 1, n)[i] = z[i]
        BY <1>1
    <1>3. SubSeq(z, 1, n) = s
        BY <1>1, <1>2, SeqEqual
    <1>4. n <= Len(z)
        BY <1>1
    <1>5. QED
        BY <1>3, <1>4 DEF Promise!Extends, z

LEMMA ExtendsSelf ==
    ASSUME NEW T, NEW s \in Seq(T)
    PROVE  Promise!Extends(s, s)
    BY SubSeqFull, LenProperties DEF Promise!Extends

LEMMA ExtendsOn ==
    ASSUME NEW T, NEW s \in Seq(T), NEW t \in Seq(T), NEW u \in Seq(T),
           Promise!Extends(t, s), Promise!Extends(u, t)
    PROVE  Promise!Extends(u, s)
    <1> DEFINE l == Len(s)
               m == Len(t)
               n == Len(u)
    <1>1. l \in Nat /\ m \in Nat /\ n \in Nat /\ l <= m /\ m <= n
          /\ SubSeq(t, 1, l) = s /\ SubSeq(u, 1, m) = t
        BY LenProperties DEF Promise!Extends
    <1> HIDE DEF l, m, n
    <1>2. \A i \in 1 .. m : t[i] = u[i]
        <2> DEFINE w == SubSeq(u, 1, m)
        <2>1. \A i \in 1 .. m : w[i] = u[i]
            BY <1>1 DEF n
        <2> HIDE DEF w
        <2>2. QED
            BY <1>1, <2>1 DEF w
    <1>3. \A i \in 1 .. l : s[i] = t[i]
        <2> DEFINE w == SubSeq(t, 1, l)
        <2>1. \A i \in 1 .. l : w[i] = t[i]
            BY <1>1 DEF m
        <2> HIDE DEF w
        <2>2. QED
            BY <1>1, <2>1 DEF w
    <1> DEFINE v == SubSeq(u, 1, l)
    <1>4. v \in Seq(T) /\ Len(v) = l /\ \A i \in 1 .. l : v[i] = u[i]
        BY <1>1 DEF n
    <1> HIDE DEF v
    <1>5. \A i \in 1 .. l : v[i] = s[i]
        BY <1>1, <1>2, <1>3, <1>4
    <1>6. v = s
        BY <1>4, <1>5, SeqEqual DEF l
    <1>7. l <= n
        BY <1>1
    <1>8. QED
        BY <1>6, <1>7 DEF Promise!Extends, v, l, n

\* What is read is the beginning of the restored text.
LEMMA ReadsFacts ==
    ASSUME NEW f, NEW g, NEW sh, NEW p \in Halves, Reads(f, g, sh, p)
    PROVE  /\ sh \o Restored(f, p) = Restored(f, g)
           /\ Promise!Extends(Restored(f, g), sh)
    <1>1. PICK x \in Seq(Pieces) : g = x \o p /\ sh = Restored(f, x)
        BY DEF Reads
    <1>2. p \in Seq(Pieces) /\ <<>> \in Seq(Pieces) /\ g \in Seq(Pieces)
        BY <1>1, HalfFacts, EmptySeq, ConcatProperties
    <1>3. p \o <<>> = p /\ g \o <<>> = g
        BY <1>2, ConcatEmptySeq
    <1> DEFINE t == <<>>
    <1>4. t \in Seq(Pieces) /\ p \o t = p /\ g \o t = g
        BY <1>2, <1>3
    <1> HIDE DEF t
    <1>5. sh \o Restored(f, p) = Restored(f, g)
        <2>1. \A u \in Seq(Pieces) : sh \o Restored(f, p \o u) = Restored(f, g \o u)
            BY TextWhole
        <2>2. QED
            BY <1>4, <2>1
    <1>6. sh \in Seq(Glyphs) /\ Restored(f, p) \in Seq(Glyphs)
        BY <1>1, <1>2, RestoreType DEF Restored
    <1>7. QED
        BY <1>5, <1>6, ExtendsJoin

-----------------------------------------------------------------------------
(* Fields and channels.                                                    *)

LEMMA FieldFacts ==
    ASSUME stream \in Streams
    PROVE  /\ \A f \in Fields : TextSlot(f) \in Channels /\ SetSlot(TextSlot(f)) = f
           /\ \A f, g \in Fields : TextSlot(f) = TextSlot(g) => f = g
           /\ \A ch \in Channels : SetSlot(ch) \in Fields /\ TextSlot(SetSlot(ch)) = ch
           /\ Fields # {}
    <1>1. Fields # {} /\ \A f \in Fields : f \in FieldRecords
        BY ScriptAssumption DEF Fields, FieldRecords
    <1>2. \A f \in Fields : TextSlot(f) \in Channels /\ SetSlot(TextSlot(f)) = f
        BY <1>1, SlotBack DEF Channels
    <1>3. QED
        BY <1>1, <1>2 DEF Channels

Sessions ==
    [pending : [Channels -> Halves], tmpl : SUBSET Channels,
     given : [Fields -> Seq(Pieces)], shown : [Fields -> Seq(Glyphs)],
     stray : SUBSET Seq(Glyphs), closed : SUBSET Fields, excused : SUBSET Fields]

Kinds == {"delta", "blank", "stop", "all", "done"}

Events ==
    {e \in [kind : Kinds, of : Fields, texts : UNION {[F -> Seq(Pieces)] : F \in SUBSET Fields}] :
        e.kind = "done" => DOMAIN e.texts = {}}

LEMMA SessionFacts ==
    ASSUME NEW s \in Sessions
    PROVE  /\ s.pending \in [Channels -> Halves] /\ s.tmpl \in SUBSET Channels
           /\ s.given \in [Fields -> Seq(Pieces)] /\ s.shown \in [Fields -> Seq(Glyphs)]
           /\ s.stray \in SUBSET Seq(Glyphs) /\ s.closed \in SUBSET Fields /\ s.excused \in SUBSET Fields
    BY DEF Sessions

LEMMA EventTypes ==
    ASSUME NEW e \in Events
    PROVE  /\ e.kind \in Kinds /\ e.of \in Fields
           /\ DOMAIN e.texts \in SUBSET Fields
           /\ \A f \in DOMAIN e.texts : e.texts[f] \in Seq(Pieces)
           /\ e.kind = "done" => DOMAIN e.texts = {}
    BY DEF Events

\* The fields an event ends.
Ends(e) == {f \in Fields : TextSlot(f) \in TerminalPrefixes(e)}

LEMMA TerminalFacts ==
    ASSUME NEW e \in Events, stream \in Streams
    PROVE  TerminalPrefixes(e) \in SUBSET Channels
    <1>1. e.kind \in {"delta", "blank", "stop", "all", "done"} /\ TextSlot(e.of) \in Channels
        BY EventTypes, FieldFacts DEF Kinds
    <1>2. QED
        BY <1>1 DEF TerminalPrefixes

-----------------------------------------------------------------------------
(* What the parts of handling an event do, field by field.                 *)

\* s and r agree but for what was shown.
OnlyShown(s, r) ==
    /\ r.pending = s.pending /\ r.tmpl = s.tmpl /\ r.given = s.given
    /\ r.stray = s.stray /\ r.closed = s.closed /\ r.excused = s.excused

LEMMA ShowFacts ==
    ASSUME NEW s \in Sessions, NEW text,
           \A f \in Fields : f \in DOMAIN text => text[f] \in Seq(Glyphs)
    PROVE  /\ Show(s, text) \in Sessions
           /\ OnlyShown(s, Show(s, text))
           /\ \A f \in Fields : Show(s, text).shown[f] =
                IF f \in s.closed \/ f \notin DOMAIN text THEN s.shown[f] ELSE s.shown[f] \o text[f]
    <1> DEFINE sh == [f \in Fields |-> IF f \in s.closed \/ f \notin DOMAIN text THEN s.shown[f] ELSE s.shown[f] \o text[f]]
               r == Show(s, text)
    <1>1. DOMAIN s.shown = Fields /\ \A f \in Fields : s.shown[f] \in Seq(Glyphs)
        BY SessionFacts
    <1>2. r = [s EXCEPT !.shown = sh]
        BY <1>1 DEF Show
    <1>3. ASSUME NEW f \in Fields PROVE sh[f] \in Seq(Glyphs)
        <2>1. CASE f \in s.closed \/ f \notin DOMAIN text
            BY <1>1, <2>1
        <2>2. CASE ~ (f \in s.closed \/ f \notin DOMAIN text)
            <3>1. s.shown[f] \o text[f] \in Seq(Glyphs)
                BY <1>1, <2>2, ConcatProperties
            <3>2. QED
                BY <2>2, <3>1
        <2>3. QED
            BY <2>1, <2>2
    <1>4. sh \in [Fields -> Seq(Glyphs)]
        BY <1>3
    <1>5. \A f \in Fields : sh[f] = IF f \in s.closed \/ f \notin DOMAIN text THEN s.shown[f] ELSE s.shown[f] \o text[f]
        OBVIOUS
    <1> HIDE DEF sh, r
    <1>6. r \in Sessions /\ r.shown = sh /\ OnlyShown(s, r)
        BY <1>2, <1>4 DEF Sessions, OnlyShown
    <1>7. QED
        BY <1>5, <1>6 DEF r

\* A channel that holds text has a template; all of them do.
Modelled(s, ch) == s.pending[ch] # <<>> => ch \in s.tmpl
Templated(s) == \A ch \in Channels : Modelled(s, ch)

\* flush_pending_matching: the held text of these channels goes out.
LEMMA FlushFacts ==
    ASSUME stream \in Streams, blocked \in BOOLEAN, NEW s \in Sessions, NEW chs \in SUBSET Channels
    PROVE  LET r == FlushPending(s, chs)
               hits == {ch \in chs : s.pending[ch] # <<>>}
           IN /\ r \in Sessions
              /\ r.given = s.given /\ r.closed = s.closed /\ r.excused = s.excused
              /\ \A ch \in Channels : Modelled(s, ch) => Modelled(r, ch)
              /\ ~ blocked =>
                   /\ \A ch \in Channels : r.pending[ch] = IF ch \in chs THEN <<>> ELSE s.pending[ch]
                   /\ r.tmpl = s.tmpl \ hits
                   /\ hits \subseteq s.tmpl => r.stray = s.stray
                   /\ \A f \in Fields : r.shown[f] =
                        IF f \notin s.closed /\ TextSlot(f) \in chs /\ TextSlot(f) \in s.tmpl /\ s.pending[TextSlot(f)] # <<>>
                        THEN s.shown[f] \o Restored(f, s.pending[TextSlot(f)])
                        ELSE s.shown[f]
              /\ blocked => r.shown = s.shown /\ r.stray = s.stray
    <1> DEFINE r == FlushPending(s, chs)
               hits == {ch \in chs : s.pending[ch] # <<>>}
               framed == hits \cap s.tmpl
               text(ch) == RestoreFinal(s.pending[ch], ch \in s.tmpl /\ Escaped(SetSlot(ch)))
               cleared == IF blocked /\ hits # {} THEN DOMAIN s.pending ELSE hits
               pend == [ch \in DOMAIN s.pending |-> IF ch \in cleared THEN <<>> ELSE s.pending[ch]]
               rest == [s EXCEPT !.pending = pend, !.tmpl = s.tmpl \ cleared]
               put == [f \in {SetSlot(ch) : ch \in framed} |-> text(CHOOSE ch \in framed : SetSlot(ch) = f)]
               seen == Show(rest, put)
               lost == {text(ch) : ch \in hits \ framed}
    <1>1. /\ s.pending \in [Channels -> Halves] /\ s.tmpl \in SUBSET Channels /\ s.closed \in SUBSET Fields
          /\ s.shown \in [Fields -> Seq(Glyphs)] /\ s.stray \in SUBSET Seq(Glyphs)
        BY SessionFacts
    <1>2. r = IF blocked THEN rest ELSE [seen EXCEPT !.stray = seen.stray \cup lost]
        BY DEF FlushPending
    <1>3. \A ch \in Channels : pend[ch] = IF ch \in cleared THEN <<>> ELSE s.pending[ch]
        BY <1>1
    <1>4. pend \in [Channels -> Halves] /\ cleared \in SUBSET Channels
        <2>1. cleared \in SUBSET Channels /\ DOMAIN s.pending = Channels
            BY <1>1
        <2> HIDE DEF cleared
        <2>2. \A ch \in Channels : (IF ch \in cleared THEN <<>> ELSE s.pending[ch]) \in Halves
            BY <1>1 DEF Halves
        <2>3. pend = [ch \in Channels |-> IF ch \in cleared THEN <<>> ELSE s.pending[ch]]
            BY <2>1
        <2>4. QED
            BY <2>1, <2>2, <2>3
    <1>5. \A ch \in Channels : text(ch) \in Seq(Glyphs)
        <2>1. \A ch \in Channels : s.pending[ch] \in Seq(Pieces)
            BY <1>1, HalfFacts
        <2>2. QED
            BY <2>1, RestoreType
    <1>6. hits \in SUBSET chs /\ framed \in SUBSET Channels
        OBVIOUS
    <1> HIDE DEF pend, cleared
    <1>7. /\ rest \in Sessions /\ rest.pending = pend /\ rest.tmpl = s.tmpl \ cleared
          /\ rest.given = s.given /\ rest.shown = s.shown /\ rest.stray = s.stray
          /\ rest.closed = s.closed /\ rest.excused = s.excused
        BY <1>4 DEF Sessions
    <1> HIDE DEF rest
    <1>8. ASSUME NEW ch \in Channels, Modelled(s, ch), pend[ch] # <<>>
          PROVE  ch \in s.tmpl \ cleared
        BY <1>3, <1>8 DEF Modelled
    <1>9. CASE blocked
        <2>1. r = rest
            BY <1>2, <1>9
        <2> HIDE DEF r
        <2>2. \A ch \in Channels : Modelled(s, ch) => Modelled(r, ch)
            BY <1>7, <1>8, <2>1 DEF Modelled
        <2>3. QED
            BY <1>7, <1>9, <2>1, <2>2 DEF r
    <1>10. CASE ~ blocked
        <2>1. cleared = hits
            BY <1>10 DEF cleared
        <2>2. ASSUME NEW f \in Fields
              PROVE  /\ f \in DOMAIN put <=> TextSlot(f) \in framed
                     /\ TextSlot(f) \in framed => put[f] = Restored(f, s.pending[TextSlot(f)])
            <3>1. f \in DOMAIN put <=> \E ch \in framed : SetSlot(ch) = f
                OBVIOUS
            <3>2. \A ch \in framed : SetSlot(ch) = f <=> ch = TextSlot(f)
                BY <1>6, FieldFacts
            <3>3. TextSlot(f) \in framed => put[f] = text(TextSlot(f))
                BY <3>1, <3>2
            <3>4. TextSlot(f) \in framed => text(TextSlot(f)) = Restored(f, s.pending[TextSlot(f)])
                <4>1. SetSlot(TextSlot(f)) = f
                    BY FieldFacts
                <4>2. TextSlot(f) \in framed => ((TextSlot(f) \in s.tmpl /\ Escaped(f)) = Escaped(f))
                    BY DEF Escaped
                <4>3. QED
                    BY <4>1, <4>2, Zenon DEF Restored
            <3>5. QED
                BY <3>1, <3>2, <3>3, <3>4
        <2>3. \A f \in Fields : f \in DOMAIN put => put[f] \in Seq(Glyphs)
            <3>1. \A f \in Fields : s.pending[TextSlot(f)] \in Seq(Pieces)
                BY <1>1, FieldFacts, HalfFacts
            <3>2. \A f \in Fields : Restored(f, s.pending[TextSlot(f)]) \in Seq(Glyphs)
                BY <3>1, RestoreType DEF Restored
            <3> HIDE DEF put
            <3>3. QED
                BY <2>2, <3>2
        <2> HIDE DEF put
        <2>4. /\ seen \in Sessions /\ OnlyShown(rest, seen)
              /\ \A f \in Fields : seen.shown[f] =
                   IF f \in rest.closed \/ f \notin DOMAIN put THEN rest.shown[f] ELSE rest.shown[f] \o put[f]
            BY <1>7, <2>3, ShowFacts
        <2>5. lost \in SUBSET Seq(Glyphs) /\ (hits \subseteq s.tmpl => lost = {})
            BY <1>5, <1>6
        <2> HIDE DEF lost, seen
        <2>6. r = [seen EXCEPT !.stray = seen.stray \cup lost]
            BY <1>2, <1>10
        <2> HIDE DEF r
        <2>7. /\ r \in Sessions /\ r.stray = seen.stray \cup lost
              /\ r.pending = seen.pending /\ r.tmpl = seen.tmpl /\ r.given = seen.given /\ r.shown = seen.shown
              /\ r.closed = seen.closed /\ r.excused = seen.excused
            BY <2>4, <2>5, <2>6 DEF Sessions
        <2>8. /\ r.pending = pend /\ r.tmpl = s.tmpl \ hits /\ r.given = s.given
              /\ r.closed = s.closed /\ r.excused = s.excused /\ r.stray = s.stray \cup lost
            BY <1>7, <2>1, <2>4, <2>7 DEF OnlyShown
        <2>9. \A ch \in Channels : Modelled(s, ch) => Modelled(r, ch)
            BY <1>8, <2>1, <2>8 DEF Modelled
        <2>10. \A ch \in Channels : r.pending[ch] = IF ch \in chs THEN <<>> ELSE s.pending[ch]
            BY <1>3, <2>1, <2>8
        <2>11. \A f \in Fields : r.shown[f] =
                        IF f \notin s.closed /\ TextSlot(f) \in chs /\ TextSlot(f) \in s.tmpl /\ s.pending[TextSlot(f)] # <<>>
                        THEN s.shown[f] \o Restored(f, s.pending[TextSlot(f)])
                        ELSE s.shown[f]
            BY <1>7, <2>2, <2>4, <2>7
        <2>12. hits \subseteq s.tmpl => r.stray = s.stray
            BY <2>5, <2>8
        <2>13. QED
            BY <1>10, <2>7, <2>8, <2>9, <2>10, <2>11, <2>12 DEF r
    <1>11. QED
        BY <1>9, <1>10

\* restore_channel: each channel of the event keeps its half placeholder.
LEMMA SlotsFacts ==
    ASSUME stream \in Streams, NEW s \in Sessions, NEW e \in Events, NEW finals
    PROVE  LET r == RestoreSlots(s, e, finals)
               b(f) == Buffered(s, e, f)
               k(f) == KeepLen(s, e, f, TextSlot(f) \in finals)
           IN /\ r.state \in Sessions
              /\ r.state.tmpl = s.tmpl /\ r.state.given = s.given /\ r.state.shown = s.shown
              /\ r.state.stray = s.stray /\ r.state.closed = s.closed /\ r.state.excused = s.excused
              /\ \A f \in Fields : r.state.pending[TextSlot(f)] =
                    IF f \in DOMAIN e.texts THEN Held(b(f), k(f)) ELSE s.pending[TextSlot(f)]
              /\ DOMAIN r.text = DOMAIN e.texts
              /\ \A f \in DOMAIN e.texts : /\ r.text[f] = Restored(f, Released(b(f), k(f)))
                                           /\ r.text[f] \in Seq(Glyphs)
    <1> DEFINE r == RestoreSlots(s, e, finals)
               b(f) == Buffered(s, e, f)
               k(f) == KeepLen(s, e, f, TextSlot(f) \in finals)
               F == DOMAIN e.texts
               slots == {TextSlot(f) : f \in F}
               writes == [ch \in slots |-> CHOOSE f \in F : TextSlot(f) = ch]
               released(f) == SubSeq(b(f), 1, Len(b(f)) - k(f))
               held(f) == SubSeq(b(f), Len(released(f)) + 1, Len(b(f)))
               pend == [ch \in DOMAIN s.pending |-> IF ch \in slots THEN held(writes[ch]) ELSE s.pending[ch]]
               txt == [f \in F |-> IF \E ch \in slots : SetSlot(ch) = f
                                   THEN LET ch == CHOOSE c \in slots : SetSlot(c) = f
                                        IN Restored(writes[ch], released(writes[ch]))
                                   ELSE Restored(f, e.texts[f])]
    <1>1. /\ s.pending \in [Channels -> Halves] /\ F \in SUBSET Fields
          /\ \A f \in F : e.texts[f] \in Seq(Pieces)
        BY SessionFacts, EventTypes
    <1>2. r = [state |-> [s EXCEPT !.pending = pend], text |-> txt]
        BY DEF RestoreSlots
    <1>3. ASSUME NEW f \in F
          PROVE  /\ b(f) \in Seq(Pieces) /\ k(f) \in 0 .. Len(b(f))
                 /\ Held(b(f), k(f)) \in Halves /\ Released(b(f), k(f)) \in Seq(Pieces)
                 /\ released(f) = Released(b(f), k(f)) /\ held(f) = Held(b(f), k(f))
        <2>1. s.pending[TextSlot(f)] \in Seq(Pieces)
            BY <1>1, FieldFacts, HalfFacts
        <2>2. b(f) \in Seq(Pieces)
            BY <1>1, <2>1, ConcatProperties DEF Buffered
        <2> DEFINE c == b(f)
                   n == k(f)
        <2>3. n = 0 \/ n = PartialLen(c)
            BY DEF KeepLen
        <2> HIDE DEF c, n
        <2>4. c \in Seq(Pieces) /\ Len(c) \in Nat
            BY <2>2, LenProperties DEF c
        <2>5. n \in 0 .. Len(c)
            BY <2>3, <2>4, HoldFacts
        <2>6. Released(c, n) \in Seq(Pieces) /\ Len(Released(c, n)) = Len(c) - n
              /\ Held(c, n) \in Seq(Pieces) /\ Len(Held(c, n)) = n
            BY <2>4, <2>5, SplitFacts
        <2>7. Held(c, n) \in Halves
            <3>1. CASE n = 0
                <4>1. Held(c, n) = <<>>
                    BY <2>6, <3>1, EmptySeq
                <4>2. QED
                    BY <4>1 DEF Halves
            <3>2. CASE n = PartialLen(c)
                BY <2>4, <3>2, HoldFacts
            <3>3. QED
                BY <2>3, <3>1, <3>2
        <2>8. SubSeq(c, 1, Len(c) - n) = Released(c, n)
            BY DEF Released
        <2>9. SubSeq(c, Len(Released(c, n)) + 1, Len(c)) = Held(c, n)
            BY <2>6 DEF Held
        <2>10. QED
            BY <2>2, <2>5, <2>6, <2>7, <2>8, <2>9 DEF c, n
    <1>4. ASSUME NEW f \in F PROVE TextSlot(f) \in slots /\ writes[TextSlot(f)] = f
        BY <1>1, FieldFacts
    <1>5. ASSUME NEW f \in F PROVE txt[f] = Restored(f, Released(b(f), k(f))) /\ txt[f] \in Seq(Glyphs)
        <2>1. TextSlot(f) \in slots /\ SetSlot(TextSlot(f)) = f /\ \A c \in slots : SetSlot(c) = f => c = TextSlot(f)
            BY <1>1, <1>4, FieldFacts
        <2>2. (CHOOSE c \in slots : SetSlot(c) = f) = TextSlot(f)
            BY <2>1
        <2>3. txt[f] = Restored(writes[TextSlot(f)], released(writes[TextSlot(f)]))
            <3> HIDE DEF slots, writes, released
            <3>1. QED
                BY <2>1, <2>2
        <2>4. txt[f] = Restored(f, released(f))
            <3> HIDE DEF slots, writes, released, txt
            <3>1. QED
                BY <1>4, <2>3
        <2>5. released(f) = Released(b(f), k(f)) /\ Released(b(f), k(f)) \in Seq(Pieces)
            BY <1>3
        <2>6. Restored(f, Released(b(f), k(f))) \in Seq(Glyphs)
            BY <2>5, RestoreType DEF Restored
        <2> HIDE DEF released, txt, b, k
        <2>7. QED
            BY <2>4, <2>5, <2>6
    <1>6. ASSUME NEW f \in Fields
          PROVE  pend[TextSlot(f)] = IF f \in F THEN Held(b(f), k(f)) ELSE s.pending[TextSlot(f)]
        <2>1. TextSlot(f) \in DOMAIN s.pending
            BY <1>1, FieldFacts
        <2>2. pend[TextSlot(f)] = IF TextSlot(f) \in slots THEN held(writes[TextSlot(f)]) ELSE s.pending[TextSlot(f)]
            BY <2>1
        <2>3. f \notin F => TextSlot(f) \notin slots
            BY <1>1, FieldFacts
        <2>4. f \in F => held(f) = Held(b(f), k(f))
            BY <1>3
        <2> HIDE DEF pend, slots, writes, held, b, k, F
        <2>5. QED
            BY <1>4, <2>2, <2>3, <2>4
    <1>7. pend \in [Channels -> Halves]
        <2>1. pend = [ch \in Channels |-> IF ch \in slots THEN held(writes[ch]) ELSE s.pending[ch]]
            BY <1>1
        <2>2. ASSUME NEW ch \in Channels PROVE (IF ch \in slots THEN held(writes[ch]) ELSE s.pending[ch]) \in Halves
            <3>1. CASE ch \in slots
                <4>1. PICK f \in F : ch = TextSlot(f)
                    BY <3>1
                <4>2. writes[ch] = f /\ held(f) \in Halves
                    <5>1. writes[ch] = f
                        BY <1>4, <4>1
                    <5>2. held(f) = Held(b(f), k(f)) /\ Held(b(f), k(f)) \in Halves
                        BY <1>3
                    <5> HIDE DEF held, writes
                    <5>3. QED
                        BY <5>1, <5>2
                <4> HIDE DEF held, writes, slots
                <4>3. QED
                    BY <3>1, <4>2
            <3>2. CASE ch \notin slots
                <4> HIDE DEF held, writes, slots
                <4>1. QED
                    BY <1>1, <3>2
            <3>3. QED
                BY <3>1, <3>2
        <2> HIDE DEF held, writes, slots
        <2>3. QED
            BY <2>1, <2>2
    <1> HIDE DEF pend, txt, b, k, F
    <1>8. /\ r.state = [s EXCEPT !.pending = pend] /\ r.text = txt
        BY <1>2
    <1> DEFINE st == r.state
    <1> HIDE DEF st, r
    <1>9. /\ st \in Sessions /\ st.pending = pend
          /\ st.tmpl = s.tmpl /\ st.given = s.given /\ st.shown = s.shown
          /\ st.stray = s.stray /\ st.closed = s.closed /\ st.excused = s.excused
        <2>1. st = [s EXCEPT !.pending = pend]
            BY <1>8 DEF st
        <2>2. QED
            BY <1>7, <2>1 DEF Sessions
    <1>10. DOMAIN r.text = F
        BY <1>8 DEF txt
    <1>11. QED
        BY <1>5, <1>6, <1>8, <1>9, <1>10 DEF r, b, k, F, st

Carries(e, f) == f \in DOMAIN e.texts /\ e.texts[f] # <<>>

GivenBy(g, e, f) == IF f \in DOMAIN e.texts THEN g \o e.texts[f] ELSE g

LEMMA TemplatesFacts ==
    ASSUME stream \in Streams, NEW s \in Sessions, NEW e \in Events,
           \A f \in Fields : f \notin DOMAIN e.texts => Modelled(s, TextSlot(f))
    PROVE  LET r == Templates(s, e)
           IN /\ r \in Sessions /\ Templated(r)
              /\ r.pending = s.pending /\ r.given = s.given /\ r.shown = s.shown
              /\ r.stray = s.stray /\ r.closed = s.closed /\ r.excused = s.excused
    <1> DEFINE r == Templates(s, e)
               new == {TextSlot(f) : f \in {g \in DOMAIN e.texts : s.pending[TextSlot(g)] # <<>>}}
    <1>1. r = [s EXCEPT !.tmpl = s.tmpl \cup new]
        BY DEF Templates
    <1>2. new \in SUBSET Channels /\ s.tmpl \in SUBSET Channels
        BY EventTypes, FieldFacts, SessionFacts
    <1>3. \A f \in DOMAIN e.texts : s.pending[TextSlot(f)] # <<>> => TextSlot(f) \in new
        OBVIOUS
    <1> HIDE DEF new, r
    <1>4. /\ r \in Sessions /\ r.pending = s.pending /\ r.given = s.given /\ r.shown = s.shown
          /\ r.stray = s.stray /\ r.closed = s.closed /\ r.excused = s.excused /\ r.tmpl = s.tmpl \cup new
        BY <1>1, <1>2 DEF Sessions
    <1>5. Templated(r)
        <2>1. SUFFICES ASSUME NEW ch \in Channels, s.pending[ch] # <<>> PROVE ch \in s.tmpl \cup new
            BY <1>4 DEF Templated, Modelled
        <2>2. PICK f \in Fields : ch = TextSlot(f)
            BY DEF Channels
        <2>3. QED
            BY <1>3, <2>1, <2>2 DEF Modelled
    <1>6. QED
        BY <1>4, <1>5 DEF r

\* The event reaches the client.
LEMMA DeliverFacts ==
    ASSUME stream \in Streams, NEW s \in Sessions, NEW e \in Events, NEW text,
           \A f \in Fields : f \in DOMAIN text => text[f] \in Seq(Glyphs)
    PROVE  LET r == Deliver(s, e, text)
           IN /\ r \in Sessions
              /\ r.pending = s.pending /\ r.tmpl = s.tmpl /\ r.stray = s.stray /\ r.excused = s.excused
              /\ r.closed = s.closed \cup Ends(e)
              /\ \A f \in Fields : /\ r.given[f] = GivenBy(s.given[f], e, f)
                                   /\ r.shown[f] = IF f \in s.closed \/ f \notin DOMAIN text THEN s.shown[f]
                                                   ELSE s.shown[f] \o text[f]
    <1> DEFINE r == Deliver(s, e, text)
               seen == Show(s, text)
               giv == [f \in DOMAIN seen.given |-> IF f \in DOMAIN e.texts THEN seen.given[f] \o e.texts[f] ELSE seen.given[f]]
    <1>1. /\ seen \in Sessions /\ OnlyShown(s, seen)
          /\ \A f \in Fields : seen.shown[f] =
               IF f \in s.closed \/ f \notin DOMAIN text THEN s.shown[f] ELSE s.shown[f] \o text[f]
        BY ShowFacts
    <1>2. r = [seen EXCEPT !.given = giv, !.closed = seen.closed \cup Ends(e)]
        BY DEF Deliver, Ends
    <1> HIDE DEF seen, r
    <1>3. seen.given \in [Fields -> Seq(Pieces)] /\ seen.closed \in SUBSET Fields /\ Ends(e) \in SUBSET Fields
        BY <1>1, SessionFacts DEF Ends
    <1>4. giv = [f \in Fields |-> GivenBy(seen.given[f], e, f)]
        BY <1>3 DEF GivenBy
    <1>5. ASSUME NEW f \in Fields PROVE GivenBy(seen.given[f], e, f) \in Seq(Pieces)
        <2>1. f \in DOMAIN e.texts => seen.given[f] \o e.texts[f] \in Seq(Pieces)
            BY <1>3, EventTypes, ConcatProperties
        <2>2. QED
            BY <1>3, <2>1 DEF GivenBy
    <1> HIDE DEF giv
    <1>6. giv \in [Fields -> Seq(Pieces)] /\ \A f \in Fields : giv[f] = GivenBy(seen.given[f], e, f)
        BY <1>4, <1>5
    <1>7. /\ r \in Sessions /\ r.given = giv /\ r.closed = seen.closed \cup Ends(e)
          /\ r.pending = seen.pending /\ r.tmpl = seen.tmpl /\ r.stray = seen.stray /\ r.excused = seen.excused
          /\ r.shown = seen.shown
        BY <1>1, <1>2, <1>3, <1>6 DEF Sessions
    <1>8. QED
        BY <1>1, <1>6, <1>7 DEF r, OnlyShown

LEMMA ExcuseFacts ==
    ASSUME NEW s \in Sessions, NEW e, NEW final
    PROVE  LET x == Excuse(s, e, final)
           IN /\ x \in Sessions
              /\ x.pending = s.pending /\ x.tmpl = s.tmpl /\ x.given = s.given /\ x.shown = s.shown
              /\ x.stray = s.stray /\ x.closed = s.closed
              /\ x.excused = s.excused \cup Excused(s, e, final)
    <1> DEFINE x == Excuse(s, e, final)
    <1>1. x = [s EXCEPT !.excused = s.excused \cup Excused(s, e, final)]
        BY DEF Excuse
    <1>2. Excused(s, e, final) \in SUBSET Fields
        BY DEF Excused
    <1> HIDE DEF x
    <1>3. QED
        BY <1>1, <1>2 DEF Sessions, x

-----------------------------------------------------------------------------
(* One event.                                                              *)

LEMMA EndFacts ==
    ASSUME stream \in Streams, NEW m \in Sessions, NEW e \in Events, NEW text,
           \A f \in Fields : f \notin DOMAIN e.texts => Modelled(m, TextSlot(f)),
           \A f \in Fields : f \in DOMAIN text => text[f] \in Seq(Glyphs)
    PROVE  LET r == Deliver(Templates(m, e), e, text)
           IN /\ r \in Sessions /\ Templated(r)
              /\ r.pending = m.pending /\ r.stray = m.stray /\ r.excused = m.excused
              /\ r.closed = m.closed \cup Ends(e)
              /\ \A f \in Fields : /\ r.given[f] = GivenBy(m.given[f], e, f)
                                   /\ r.shown[f] = IF f \in m.closed \/ f \notin DOMAIN text THEN m.shown[f]
                                                   ELSE m.shown[f] \o text[f]
    <1> DEFINE t == Templates(m, e)
               r == Deliver(t, e, text)
    <1>1. /\ t \in Sessions /\ Templated(t)
          /\ t.pending = m.pending /\ t.given = m.given /\ t.shown = m.shown
          /\ t.stray = m.stray /\ t.closed = m.closed /\ t.excused = m.excused
        BY TemplatesFacts
    <1> HIDE DEF t
    <1>2. /\ r \in Sessions
          /\ r.pending = t.pending /\ r.tmpl = t.tmpl /\ r.stray = t.stray /\ r.excused = t.excused
          /\ r.closed = t.closed \cup Ends(e)
          /\ \A f \in Fields : /\ r.given[f] = GivenBy(t.given[f], e, f)
                               /\ r.shown[f] = IF f \in t.closed \/ f \notin DOMAIN text THEN t.shown[f]
                                               ELSE t.shown[f] \o text[f]
        BY <1>1, DeliverFacts
    <1> HIDE DEF r
    <1>3. Templated(r)
        BY <1>1, <1>2 DEF Templated, Modelled
    <1>4. QED
        BY <1>1, <1>2, <1>3 DEF r, t

InStep(s, f) == Reads(f, s.given[f], s.shown[f], s.pending[TextSlot(f)])

Whole(s, f) == s.shown[f] \o Restored(f, s.pending[TextSlot(f)]) = Restored(f, s.given[f])

Strayless(s) == s.stray # {} => s.excused # {}

Grows(s, r, f) == Promise!Extends(r.given[f], s.given[f]) /\ Promise!Extends(r.shown[f], s.shown[f])

\* What an event does to an open field: its text goes on, and is whole where
\* the event ends it.
FieldStep(s, e, final, r, f) ==
    /\ Grows(s, r, f)
    /\ f \in Ends(e) => r.shown[f] = Restored(f, r.given[f])
    /\ f \notin Ends(e) /\ final => Whole(r, f)
    /\ f \notin Ends(e) /\ ~ final => InStep(r, f)

\* What an event does to a session in which no field it carries is closed.
EventStep(s, e, final, r) ==
    /\ r \in Sessions /\ Templated(r)
    /\ r.closed = s.closed \cup Ends(e) /\ s.excused \subseteq r.excused
    /\ \A f \in s.closed : r.given[f] = s.given[f] /\ r.shown[f] = s.shown[f]
    /\ ~ blocked => /\ Strayless(s) => Strayless(r)
                    /\ \A f \in Fields : f \notin s.closed /\ f \notin r.excused /\ InStep(s, f)
                                            => FieldStep(s, e, final, r, f)

\* The ways the text of a field can go on.
GoesOn(f, g, sh, p, t) ==
    /\ Promise!Extends(g \o t, g) /\ Promise!Extends(g, g) /\ Promise!Extends(sh, sh)
    /\ \A u \in Seq(Pieces) : Promise!Extends(sh \o Restored(f, u), sh)
    /\ sh \o Restored(f, p \o t) = Restored(f, g \o t)
    /\ sh \o Restored(f, p) = Restored(f, g)
    /\ p = <<>> => sh = Restored(f, g)
    /\ t = <<>> => (sh \o Restored(f, p)) \o Restored(f, t) = Restored(f, g \o t)
    /\ p = <<>> => sh \o Restored(f, t) = Restored(f, g \o t)
    /\ \A u, v \in Seq(Pieces) : Promise!Extends((sh \o Restored(f, u)) \o Restored(f, v), sh)

LEMMA Outcomes ==
    ASSUME NEW f, NEW g \in Seq(Pieces), NEW sh \in Seq(Glyphs), NEW p \in Halves, NEW t \in Seq(Pieces),
           Reads(f, g, sh, p)
    PROVE  GoesOn(f, g, sh, p, t)
    <1>1. Promise!Extends(g \o t, g) /\ Promise!Extends(g, g) /\ Promise!Extends(sh, sh)
        BY ExtendsJoin, ExtendsSelf
    <1>2. \A u \in Seq(Pieces) : Restored(f, u) \in Seq(Glyphs)
        BY RestoreType DEF Restored
    <1>3. \A u \in Seq(Pieces) : Promise!Extends(sh \o Restored(f, u), sh)
        BY <1>2, ExtendsJoin
    <1>4. sh \o Restored(f, p \o t) = Restored(f, g \o t)
        BY TextWhole
    <1>5. sh \o Restored(f, p) = Restored(f, g)
        BY ReadsFacts
    <1>6. p = <<>> => sh = Restored(f, g)
        <2>1. Restored(f, <<>>) = <<>> /\ sh \o <<>> = sh
            BY RestoreNone, ConcatEmptySeq DEF Restored
        <2>2. QED
            BY <1>5, <2>1
    <1>7. ASSUME t = <<>> PROVE (sh \o Restored(f, p)) \o Restored(f, t) = Restored(f, g \o t)
        <2>1. Restored(f, t) = <<>> /\ g \o t = g
            BY <1>7, RestoreNone, ConcatEmptySeq DEF Restored
        <2>2. sh \o Restored(f, p) \in Seq(Glyphs)
            <3>1. p \in Seq(Pieces)
                BY HalfFacts
            <3>2. QED
                BY <1>2, <3>1, ConcatProperties
        <2>3. (sh \o Restored(f, p)) \o <<>> = sh \o Restored(f, p)
            BY <2>2, ConcatEmptySeq
        <2>4. QED
            BY <1>5, <2>1, <2>3
    <1>8. p = <<>> => sh \o Restored(f, t) = Restored(f, g \o t)
        <2>1. <<>> \o t = t
            BY ConcatEmptySeq
        <2>2. QED
            BY <1>4, <2>1
    <1>9. ASSUME NEW u \in Seq(Pieces), NEW v \in Seq(Pieces)
          PROVE  Promise!Extends((sh \o Restored(f, u)) \o Restored(f, v), sh)
        <2> DEFINE a == sh \o Restored(f, u)
                   b == a \o Restored(f, v)
        <2>1. a \in Seq(Glyphs)
            BY <1>2, ConcatProperties
        <2>2. Promise!Extends(a, sh)
            BY <1>3
        <2> HIDE DEF a
        <2>3. b \in Seq(Glyphs) /\ Promise!Extends(b, a)
            BY <1>2, <2>1, ConcatProperties, ExtendsJoin
        <2> HIDE DEF b
        <2>4. Promise!Extends(b, sh)
            BY <2>1, <2>2, <2>3, ExtendsOn
        <2>5. QED
            BY <2>4 DEF a, b
    <1>10. QED
        BY <1>1, <1>3, <1>4, <1>5, <1>6, <1>7, <1>8, <1>9 DEF GoesOn

\* Opaque to the provers, which mistake a known Boolean argument for its value.
IsLast(final) == final = TRUE

\* Closed fields do not change when the event does not carry them.
LEMMA ClosedKept ==
    ASSUME NEW g \in Seq(Pieces), NEW e, NEW f, ~ Carries(e, f)
    PROVE  GivenBy(g, e, f) = g
    BY ConcatEmptySeq DEF Carries, GivenBy

LEMMA Unheld ==
    ASSUME NEW b \in Seq(Pieces)
    PROVE  Held(b, 0) = <<>> /\ Released(b, 0) = b
    <1>1. 0 \in 0 .. Len(b)
        BY LenProperties
    <1>2. Held(b, 0) \in Seq(Pieces) /\ Len(Held(b, 0)) = 0 /\ Released(b, 0) \in Seq(Pieces)
          /\ b = Released(b, 0) \o Held(b, 0)
        BY <1>1, SplitFacts
    <1>3. Held(b, 0) = <<>>
        BY <1>2, EmptySeq
    <1>4. QED
        BY <1>2, <1>3, ConcatEmptySeq

\* The last event of an SSE stream: nothing is flushed and nothing is held.
LEMMA SseLast ==
    ASSUME stream \in Streams, stream.framing = "sse", NEW s \in Sessions, Templated(s), NEW e \in Events,
           \A f \in s.closed : ~ Carries(e, f), NEW final \in BOOLEAN, IsLast(final), e.kind # "done"
    PROVE  EventStep(s, e, final, RestoreEvent(s, e, final))
    <1> DEFINE x == Excuse(s, e, final)
               q == RestoreSlots(x, e, Channels)
               m == q.state
               r == Deliver(Templates(m, e), e, q.text)
    <1>1. RestoreEvent(s, e, final) = r
        BY DEF RestoreEvent, RestoreSseEvent, FlushOnTerminal, IsLast
    <1>2. /\ x \in Sessions
          /\ x.pending = s.pending /\ x.tmpl = s.tmpl /\ x.given = s.given /\ x.shown = s.shown
          /\ x.stray = s.stray /\ x.closed = s.closed
          /\ x.excused = s.excused \cup Excused(s, e, final)
        BY ExcuseFacts
    <1> HIDE DEF x
    <1>3. /\ m \in Sessions
          /\ m.tmpl = x.tmpl /\ m.given = x.given /\ m.shown = x.shown
          /\ m.stray = x.stray /\ m.closed = x.closed /\ m.excused = x.excused
          /\ DOMAIN q.text = DOMAIN e.texts
          /\ \A f \in DOMAIN e.texts : q.text[f] \in Seq(Glyphs)
        BY <1>2, SlotsFacts
    <1>4. ASSUME NEW f \in Fields, f \in DOMAIN e.texts
          PROVE  /\ m.pending[TextSlot(f)] = <<>>
                 /\ q.text[f] = Restored(f, s.pending[TextSlot(f)] \o e.texts[f])
        <2> DEFINE b == Buffered(x, e, f)
                   k == KeepLen(x, e, f, TextSlot(f) \in Channels)
        <2>1. m.pending[TextSlot(f)] = Held(b, k) /\ q.text[f] = Restored(f, Released(b, k))
            BY <1>2, <1>4, SlotsFacts
        <2>2. k = 0
            BY FieldFacts DEF KeepLen
        <2>3. b = s.pending[TextSlot(f)] \o e.texts[f]
            BY <1>2 DEF Buffered
        <2>4. b \in Seq(Pieces)
            <3>1. s.pending[TextSlot(f)] \in Seq(Pieces) /\ e.texts[f] \in Seq(Pieces)
                BY <1>4, SessionFacts, EventTypes, FieldFacts, HalfFacts
            <3>2. QED
                BY <2>3, <3>1, ConcatProperties
        <2> HIDE DEF b, k
        <2>5. Held(b, 0) = <<>> /\ Released(b, 0) = b
            BY <2>4, Unheld
        <2>6. QED
            BY <2>1, <2>2, <2>3, <2>5
    <1>5. ASSUME NEW f \in Fields, f \notin DOMAIN e.texts PROVE m.pending[TextSlot(f)] = s.pending[TextSlot(f)]
        BY <1>2, <1>5, SlotsFacts
    <1> HIDE DEF m, q
    <1>6. \A f \in Fields : f \notin DOMAIN e.texts => Modelled(m, TextSlot(f))
        BY <1>2, <1>3, <1>5, FieldFacts DEF Modelled, Templated
    <1>7. /\ r \in Sessions /\ Templated(r)
          /\ r.pending = m.pending /\ r.stray = m.stray /\ r.excused = m.excused
          /\ r.closed = m.closed \cup Ends(e)
          /\ \A f \in Fields : /\ r.given[f] = GivenBy(m.given[f], e, f)
                               /\ r.shown[f] = IF f \in m.closed \/ f \notin DOMAIN q.text THEN m.shown[f]
                                               ELSE m.shown[f] \o q.text[f]
        BY <1>3, <1>6, EndFacts
    <1> HIDE DEF r
    <1>8. \A f \in s.closed : r.given[f] = s.given[f] /\ r.shown[f] = s.shown[f]
        <2>1. \A f \in s.closed : f \in Fields /\ s.given[f] \in Seq(Pieces)
            BY SessionFacts
        <2>2. QED
            BY <1>2, <1>3, <1>7, <2>1, ClosedKept
    <1>9. Strayless(s) => Strayless(r)
        BY <1>2, <1>3, <1>7 DEF Strayless
    <1>10. ASSUME NEW f \in Fields, f \notin s.closed, f \notin r.excused, InStep(s, f)
           PROVE  FieldStep(s, e, final, r, f)
        <2> DEFINE g == s.given[f]
                   sh == s.shown[f]
                   p == s.pending[TextSlot(f)]
        <2>1. g \in Seq(Pieces) /\ sh \in Seq(Glyphs) /\ p \in Halves /\ Reads(f, g, sh, p) /\ p \in Seq(Pieces)
            BY <1>10, SessionFacts, FieldFacts, HalfFacts DEF InStep
        <2> HIDE DEF g, sh, p
        <2>2. CASE f \in DOMAIN e.texts
            <3> DEFINE t == e.texts[f]
            <3>1. t \in Seq(Pieces) /\ p \o t \in Seq(Pieces)
                BY <2>1, <2>2, EventTypes, ConcatProperties
            <3>2. r.given[f] = g \o t /\ r.shown[f] = sh \o Restored(f, p \o t) /\ r.pending[TextSlot(f)] = <<>>
                <4>1. r.given[f] = g \o t
                    BY <1>2, <1>3, <1>7, <2>2 DEF GivenBy, g
                <4>2. q.text[f] = Restored(f, p \o t) /\ m.pending[TextSlot(f)] = <<>>
                    BY <1>4, <2>2 DEF p
                <4>3. f \notin m.closed /\ f \in DOMAIN q.text /\ m.shown[f] = sh
                    BY <1>2, <1>3, <1>10, <2>2 DEF sh
                <4>4. QED
                    BY <1>7, <4>1, <4>2, <4>3
            <3> HIDE DEF t
            <3>3. /\ Promise!Extends(g \o t, g) /\ Promise!Extends(sh \o Restored(f, p \o t), sh)
                  /\ sh \o Restored(f, p \o t) = Restored(f, g \o t)
                <4>1. GoesOn(f, g, sh, p, t)
                    BY <2>1, <3>1, Outcomes
                <4>2. QED
                    BY <3>1, <4>1 DEF GoesOn
            <3>4. r.shown[f] = Restored(f, r.given[f])
                BY <3>2, <3>3
            <3>5. Whole(r, f)
                <4>1. Restored(f, <<>>) = <<>> /\ r.shown[f] \in Seq(Glyphs)
                    BY <1>7, SessionFacts, RestoreNone DEF Restored
                <4>2. r.shown[f] \o <<>> = r.shown[f]
                    BY <4>1, ConcatEmptySeq
                <4>3. QED
                    BY <3>2, <3>4, <4>1, <4>2 DEF Whole
            <3>6. Grows(s, r, f)
                BY <3>2, <3>3 DEF Grows, g, sh
            <3>7. QED
                BY <3>4, <3>5, <3>6 DEF FieldStep, IsLast
        <2>3. CASE f \notin DOMAIN e.texts
            <3>1. r.given[f] = g /\ r.shown[f] = sh /\ r.pending[TextSlot(f)] = p
                BY <1>2, <1>3, <1>5, <1>7, <1>10, <2>3 DEF GivenBy, g, sh, p
            <3>2. /\ Promise!Extends(g, g) /\ Promise!Extends(sh, sh)
                  /\ sh \o Restored(f, p) = Restored(f, g)
                  /\ p = <<>> => sh = Restored(f, g)
                <4>1. GoesOn(f, g, sh, p, <<>>)
                    BY <2>1, EmptySeq, Outcomes
                <4>2. QED
                    BY <4>1 DEF GoesOn
            <3>3. f \in Ends(e) => p = <<>>
                BY <1>2, <1>3, <1>7, <1>10, <2>3 DEF Ends, Excused, p, IsLast
            <3>4. Grows(s, r, f) /\ Whole(r, f)
                BY <3>1, <3>2 DEF Grows, Whole, g, sh
            <3>5. QED
                BY <3>1, <3>2, <3>3, <3>4 DEF FieldStep, IsLast
        <2>4. QED
            BY <2>2, <2>3
    <1>11. r.closed = s.closed \cup Ends(e) /\ s.excused \subseteq r.excused
        BY <1>2, <1>3, <1>7
    <1>12. QED
        BY <1>1, <1>7, <1>8, <1>9, <1>10, <1>11 DEF EventStep

LEMMA WholeIs ==
    ASSUME NEW r \in Sessions, NEW f \in Fields, r.pending[TextSlot(f)] = <<>>, r.shown[f] = Restored(f, r.given[f])
    PROVE  Whole(r, f)
    <1>1. Restored(f, <<>>) = <<>> /\ r.shown[f] \in Seq(Glyphs)
        BY SessionFacts, RestoreNone DEF Restored
    <1>2. r.shown[f] \o <<>> = r.shown[f]
        BY <1>1, ConcatEmptySeq
    <1>3. QED
        BY <1>1, <1>2 DEF Whole

LEMMA InStepWhole ==
    ASSUME stream \in Streams, NEW r \in Sessions, NEW f \in Fields, InStep(r, f)
    PROVE  Whole(r, f)
    <1>1. r.pending[TextSlot(f)] \in Halves
        BY SessionFacts, FieldFacts
    <1>2. QED
        BY <1>1, ReadsFacts DEF InStep, Whole

\* Any other event of an SSE stream: what the channels it ends hold goes first.
LEMMA SseEvent ==
    ASSUME stream \in Streams, stream.framing = "sse", blocked \in BOOLEAN,
           NEW s \in Sessions, Templated(s), NEW e \in Events,
           \A f \in s.closed : ~ Carries(e, f), NEW final \in BOOLEAN, ~ IsLast(final) \/ e.kind = "done"
    PROVE  EventStep(s, e, final, RestoreEvent(s, e, final))
    <1> DEFINE x == Excuse(s, e, final)
               chs == TerminalPrefixes(e)
               w == FlushPending(x, chs)
               q == RestoreSlots(w, e, chs)
               m == q.state
               r == Deliver(Templates(m, e), e, q.text)
    <1>1. RestoreEvent(s, e, final) = r
        <2>1. e.kind = "done" => chs = Channels
            BY DEF TerminalPrefixes
        <2>2. FlushOnTerminal(x, e, final) = w
            BY DEF FlushOnTerminal, IsLast
        <2>3. (IF final THEN Channels ELSE chs) = chs
            BY <2>1 DEF IsLast
        <2> HIDE DEF x, w, chs
        <2>4. RestoreEvent(s, e, final) = RestoreSseEvent(x, e, final)
            BY DEF RestoreEvent, x
        <2>5. RestoreSseEvent(x, e, final) = r
            BY <2>2, <2>3 DEF RestoreSseEvent, chs
        <2>6. QED
            BY <2>4, <2>5
    <1>2. /\ x \in Sessions
          /\ x.pending = s.pending /\ x.tmpl = s.tmpl /\ x.given = s.given /\ x.shown = s.shown
          /\ x.stray = s.stray /\ x.closed = s.closed
          /\ x.excused = s.excused \cup Excused(s, e, final)
        BY ExcuseFacts
    <1> HIDE DEF x
    <1>3. chs \in SUBSET Channels /\ \A f \in Fields : TextSlot(f) \in chs <=> f \in Ends(e)
        BY TerminalFacts DEF Ends
    <1> HIDE DEF chs
    <1>4. Templated(x)
        BY <1>2 DEF Templated, Modelled
    <1>5. /\ w \in Sessions
          /\ w.given = x.given /\ w.closed = x.closed /\ w.excused = x.excused
          /\ \A ch \in Channels : Modelled(w, ch)
          /\ blocked => w.shown = x.shown
        BY <1>2, <1>3, <1>4, FlushFacts DEF Templated
    <1>6. ASSUME ~ blocked
          PROVE  /\ \A ch \in Channels : w.pending[ch] = IF ch \in chs THEN <<>> ELSE x.pending[ch]
                 /\ w.stray = x.stray
                 /\ \A f \in Fields : w.shown[f] =
                        IF f \notin x.closed /\ TextSlot(f) \in chs /\ TextSlot(f) \in x.tmpl /\ x.pending[TextSlot(f)] # <<>>
                        THEN x.shown[f] \o Restored(f, x.pending[TextSlot(f)])
                        ELSE x.shown[f]
        <2>1. {ch \in chs : x.pending[ch] # <<>>} \subseteq x.tmpl
            BY <1>3, <1>4 DEF Templated, Modelled
        <2>2. QED
            BY <1>2, <1>3, <1>6, <2>1, FlushFacts
    <1> HIDE DEF w
    <1>7. /\ m \in Sessions
          /\ m.tmpl = w.tmpl /\ m.given = w.given /\ m.shown = w.shown
          /\ m.stray = w.stray /\ m.closed = w.closed /\ m.excused = w.excused
          /\ DOMAIN q.text = DOMAIN e.texts
          /\ \A f \in DOMAIN e.texts : q.text[f] \in Seq(Glyphs)
        BY <1>5, SlotsFacts
    <1>8. ASSUME NEW f \in Fields, f \notin DOMAIN e.texts PROVE m.pending[TextSlot(f)] = w.pending[TextSlot(f)]
        BY <1>5, <1>8, SlotsFacts
    <1>9. ASSUME NEW f \in Fields, f \in DOMAIN e.texts
          PROVE  LET b == w.pending[TextSlot(f)] \o e.texts[f]
                     k == IF f \in Ends(e) THEN 0 ELSE PartialLen(b)
                 IN m.pending[TextSlot(f)] = Held(b, k) /\ q.text[f] = Restored(f, Released(b, k))
        <2> DEFINE b == Buffered(w, e, f)
                   k == KeepLen(w, e, f, TextSlot(f) \in chs)
        <2>1. m.pending[TextSlot(f)] = Held(b, k) /\ q.text[f] = Restored(f, Released(b, k))
            BY <1>5, <1>9, SlotsFacts
        <2>2. k = IF f \in Ends(e) THEN 0 ELSE PartialLen(b)
            BY <1>3 DEF KeepLen
        <2>3. b = w.pending[TextSlot(f)] \o e.texts[f]
            BY DEF Buffered
        <2> HIDE DEF b, k
        <2>4. QED
            BY <2>1, <2>2, <2>3
    <1> HIDE DEF m, q
    <1>10. \A f \in Fields : f \notin DOMAIN e.texts => Modelled(m, TextSlot(f))
        BY <1>5, <1>7, <1>8, FieldFacts DEF Modelled
    <1>11. /\ r \in Sessions /\ Templated(r)
           /\ r.pending = m.pending /\ r.stray = m.stray /\ r.excused = m.excused
           /\ r.closed = m.closed \cup Ends(e)
           /\ \A f \in Fields : /\ r.given[f] = GivenBy(m.given[f], e, f)
                                /\ r.shown[f] = IF f \in m.closed \/ f \notin DOMAIN q.text THEN m.shown[f]
                                                ELSE m.shown[f] \o q.text[f]
        BY <1>7, <1>10, EndFacts
    <1> HIDE DEF r
    <1>12. \A f \in s.closed : r.given[f] = s.given[f] /\ r.shown[f] = s.shown[f]
        <2>1. \A f \in s.closed : f \in Fields /\ s.given[f] \in Seq(Pieces)
            BY SessionFacts
        <2>2. \A f \in s.closed : w.shown[f] = s.shown[f]
            BY <1>2, <1>5, <1>6, <2>1
        <2>3. QED
            BY <1>2, <1>5, <1>7, <1>11, <2>1, <2>2, ClosedKept
    <1>13. ~ blocked /\ Strayless(s) => Strayless(r)
        BY <1>2, <1>5, <1>6, <1>7, <1>11 DEF Strayless
    <1>14. ASSUME ~ blocked, NEW f \in Fields, f \notin s.closed, f \notin r.excused, InStep(s, f)
           PROVE  FieldStep(s, e, final, r, f)
        <2> DEFINE g == s.given[f]
                   sh == s.shown[f]
                   p == s.pending[TextSlot(f)]
                   d == m.shown[f]
        <2>1. g \in Seq(Pieces) /\ sh \in Seq(Glyphs) /\ p \in Halves /\ Reads(f, g, sh, p) /\ p \in Seq(Pieces)
            BY <1>14, SessionFacts, FieldFacts, HalfFacts DEF InStep
        <2>2. TextSlot(f) \in Channels /\ (p # <<>> => TextSlot(f) \in s.tmpl)
            BY FieldFacts DEF Templated, Modelled
        <2>3. w.pending[TextSlot(f)] = IF f \in Ends(e) THEN <<>> ELSE p
            BY <1>2, <1>3, <1>6, <1>14, <2>2
        <2>4. d = IF f \in Ends(e) THEN sh \o Restored(f, p) ELSE sh
            <3>1. d = IF f \in Ends(e) /\ p # <<>> THEN sh \o Restored(f, p) ELSE sh
                BY <1>2, <1>3, <1>6, <1>7, <1>14, <2>2
            <3>2. sh \o <<>> = sh /\ Restored(f, <<>>) = <<>>
                BY <2>1, ConcatEmptySeq, RestoreNone DEF Restored
            <3>3. QED
                BY <3>1, <3>2
        <2>5. f \notin m.closed /\ m.given[f] = g
            BY <1>2, <1>5, <1>7, <1>14
        <2> HIDE DEF g, sh, p, d
        <2>6. CASE f \in DOMAIN e.texts
            <3> DEFINE t == e.texts[f]
                       b == w.pending[TextSlot(f)] \o t
                       k == IF f \in Ends(e) THEN 0 ELSE PartialLen(b)
            <3>1. t \in Seq(Pieces) /\ e.kind # "done" /\ ~ IsLast(final)
                BY <2>6, EventTypes
            <3>2. m.pending[TextSlot(f)] = Held(b, k) /\ q.text[f] = Restored(f, Released(b, k))
                BY <1>9, <2>6
            <3>3. r.given[f] = g \o t /\ r.shown[f] = d \o q.text[f] /\ r.pending = m.pending
                BY <1>7, <1>11, <2>5, <2>6 DEF GivenBy, d
            <3> HIDE DEF t
            <3>4. GoesOn(f, g, sh, p, t)
                BY <2>1, <3>1, Outcomes
            <3>5. CASE f \in Ends(e)
                <4>1. b = t /\ k = 0 /\ d = sh \o Restored(f, p)
                    BY <2>3, <2>4, <3>1, <3>5, ConcatEmptySeq
                <4> HIDE DEF b, k
                <4>2. q.text[f] = Restored(f, t)
                    BY <3>1, <3>2, <4>1, Unheld
                <4>3. t # <<>> => p = <<>>
                    <5>1. t # <<>> => f \notin Fields \ s.closed \/ s.pending[TextSlot(f)] = <<>>
                        BY <1>2, <1>5, <1>7, <1>11, <1>14, <2>6, <3>1, <3>5 DEF Excused, Ends, t, IsLast
                    <5>2. QED
                        BY <1>14, <5>1 DEF p
                <4>4. r.shown[f] = (sh \o Restored(f, p)) \o Restored(f, t)
                    BY <3>3, <4>1, <4>2
                <4>5. (sh \o Restored(f, p)) \o Restored(f, t) = Restored(f, g \o t)
                    <5>1. CASE t = <<>>
                        BY <3>4, <5>1 DEF GoesOn
                    <5>2. CASE t # <<>>
                        <6>1. sh \o <<>> = sh /\ Restored(f, p) = <<>>
                            BY <2>1, <4>3, <5>2, ConcatEmptySeq, RestoreNone DEF Restored
                        <6>2. sh \o Restored(f, t) = Restored(f, g \o t)
                            BY <3>4, <4>3, <5>2 DEF GoesOn
                        <6>3. QED
                            BY <6>1, <6>2
                    <5>3. QED
                        BY <5>1, <5>2
                <4>6. Grows(s, r, f)
                    BY <2>1, <3>1, <3>3, <3>4, <4>4 DEF GoesOn, Grows, g, sh
                <4>7. QED
                    BY <3>3, <3>5, <4>4, <4>5, <4>6 DEF FieldStep
            <3>6. CASE f \notin Ends(e)
                <4>1. b = p \o t /\ k = PartialLen(p \o t) /\ d = sh
                    BY <2>3, <2>4, <3>6
                <4> HIDE DEF b, k
                <4>2. b \in Seq(Pieces) /\ k \in 0 .. Len(b)
                    BY <2>1, <3>1, <4>1, ConcatProperties, HoldFacts
                <4>3. Released(b, k) \in Seq(Pieces)
                    BY <4>2, SplitFacts
                <4>4. Reads(f, g \o t, sh \o Restored(f, Released(p \o t, k)), Held(p \o t, k))
                    BY <2>1, <3>1, <4>1, TextStep
                <4>5. InStep(r, f)
                    BY <3>2, <3>3, <4>1, <4>4 DEF InStep
                <4>6. r.shown[f] = sh \o Restored(f, Released(b, k))
                    BY <3>2, <3>3, <4>1
                <4>7. Grows(s, r, f)
                    BY <3>3, <3>4, <4>3, <4>6 DEF GoesOn, Grows, g, sh
                <4>8. QED
                    BY <3>1, <3>6, <4>5, <4>7 DEF FieldStep, IsLast
            <3>7. QED
                BY <3>5, <3>6
        <2>7. CASE f \notin DOMAIN e.texts
            <3>1. r.given[f] = g /\ r.shown[f] = d /\ r.pending[TextSlot(f)] = w.pending[TextSlot(f)]
                BY <1>7, <1>8, <1>11, <2>5, <2>7 DEF GivenBy, d
            <3>2. GoesOn(f, g, sh, p, <<>>)
                BY <2>1, EmptySeq, Outcomes
            <3>3. CASE f \in Ends(e)
                <4>1. r.shown[f] = sh \o Restored(f, p)
                    BY <2>4, <3>1, <3>3
                <4>2. sh \o Restored(f, p) = Restored(f, g) /\ Grows(s, r, f)
                    BY <2>1, <3>1, <3>2, <4>1 DEF GoesOn, Grows, g, sh
                <4>3. QED
                    BY <3>1, <3>3, <4>1, <4>2 DEF FieldStep
            <3>4. CASE f \notin Ends(e)
                <4>1. r.shown[f] = sh /\ r.pending[TextSlot(f)] = p
                    BY <2>3, <2>4, <3>1, <3>4
                <4>2. InStep(r, f)
                    BY <2>1, <3>1, <4>1 DEF InStep
                <4>3. Grows(s, r, f)
                    BY <3>1, <3>2, <4>1 DEF GoesOn, Grows, g, sh
                <4>4. Whole(r, f)
                    BY <1>11, <4>2, InStepWhole
                <4>5. QED
                    BY <3>4, <4>2, <4>3, <4>4 DEF FieldStep
            <3>5. QED
                BY <3>3, <3>4
        <2>8. QED
            BY <2>6, <2>7
    <1>15. r.closed = s.closed \cup Ends(e) /\ s.excused \subseteq r.excused
        BY <1>2, <1>5, <1>7, <1>11
    <1>16. QED
        BY <1>1, <1>11, <1>12, <1>13, <1>14, <1>15 DEF EventStep

\* A line of NDJSON without any text slot.
LEMMA NdjsonBare ==
    ASSUME stream \in Streams, stream.framing # "sse",
           NEW s \in Sessions, Templated(s), NEW e \in Events,
           NEW final \in BOOLEAN, DOMAIN e.texts = {}
    PROVE  EventStep(s, e, final, RestoreEvent(s, e, final))
    <1> DEFINE x == Excuse(s, e, final)
               none == <<>>
               r == Deliver(x, e, none)
    <1>1. RestoreEvent(s, e, final) = r
        BY DEF RestoreEvent, RestoreNdjsonLine
    <1>2. /\ x \in Sessions
          /\ x.pending = s.pending /\ x.tmpl = s.tmpl /\ x.given = s.given /\ x.shown = s.shown
          /\ x.stray = s.stray /\ x.closed = s.closed
          /\ x.excused = s.excused \cup Excused(s, e, final)
        BY ExcuseFacts
    <1> HIDE DEF x
    <1>3. DOMAIN none = {}
        OBVIOUS
    <1> HIDE DEF none
    <1>4. /\ r \in Sessions
          /\ r.pending = x.pending /\ r.tmpl = x.tmpl /\ r.stray = x.stray /\ r.excused = x.excused
          /\ r.closed = x.closed \cup Ends(e)
          /\ \A f \in Fields : /\ r.given[f] = GivenBy(x.given[f], e, f)
                               /\ r.shown[f] = IF f \in x.closed \/ f \notin DOMAIN none THEN x.shown[f]
                                               ELSE x.shown[f] \o none[f]
        BY <1>2, <1>3, DeliverFacts
    <1> HIDE DEF r
    <1>5. \A f \in Fields : r.given[f] = s.given[f] /\ r.shown[f] = s.shown[f] /\ r.pending[TextSlot(f)] = s.pending[TextSlot(f)]
        BY <1>2, <1>3, <1>4 DEF GivenBy
    <1>6. Templated(r) /\ (Strayless(s) => Strayless(r))
        BY <1>2, <1>4 DEF Templated, Modelled, Strayless
    <1>7. ASSUME NEW f \in Fields, f \notin s.closed, f \notin r.excused, InStep(s, f)
          PROVE  FieldStep(s, e, final, r, f)
        <2> DEFINE g == s.given[f]
                   sh == s.shown[f]
                   p == s.pending[TextSlot(f)]
        <2>1. g \in Seq(Pieces) /\ sh \in Seq(Glyphs) /\ p \in Halves /\ Reads(f, g, sh, p)
            BY <1>7, SessionFacts, FieldFacts DEF InStep
        <2> HIDE DEF g, sh, p
        <2>2. r.given[f] = g /\ r.shown[f] = sh /\ r.pending[TextSlot(f)] = p
            BY <1>5 DEF g, sh, p
        <2>3. GoesOn(f, g, sh, p, <<>>)
            BY <2>1, EmptySeq, Outcomes
        <2>4. f \in Ends(e) => p = <<>>
            BY <1>2, <1>4, <1>7 DEF Excused, Ends, p
        <2>5. Grows(s, r, f) /\ (p = <<>> => sh = Restored(f, g))
            BY <2>2, <2>3 DEF GoesOn, Grows, g, sh
        <2>6. InStep(r, f)
            BY <2>1, <2>2 DEF InStep
        <2>7. Whole(r, f)
            BY <1>4, <2>6, InStepWhole
        <2>8. QED
            BY <2>2, <2>4, <2>5, <2>6, <2>7 DEF FieldStep
    <1>8. \A f \in s.closed : f \in Fields
        BY SessionFacts
    <1>9. r.closed = s.closed \cup Ends(e) /\ s.excused \subseteq r.excused
        BY <1>2, <1>4
    <1>10. QED
        BY <1>1, <1>4, <1>5, <1>6, <1>7, <1>8, <1>9 DEF EventStep

\* What an empty text leaves of a hold.
LEMMA HeldOn ==
    ASSUME NEW p \in Halves
    PROVE  /\ PartialLen(p) = Len(p) /\ Held(p, Len(p)) = p /\ Released(p, Len(p)) = <<>>
    <1>1. p \in Seq(Pieces) /\ PartialLen(p) = Len(p) /\ Len(p) \in Nat
        BY HalfFacts
    <1> DEFINE n == Len(p)
               u == Released(p, n)
               v == Held(p, n)
    <1>2. n \in 0 .. n
        BY <1>1
    <1>3. u \in Seq(Pieces) /\ Len(u) = n - n /\ v \in Seq(Pieces) /\ p = u \o v
        BY <1>1, <1>2, SplitFacts
    <1> HIDE DEF u, v, n
    <1>4. u = <<>>
        BY <1>1, <1>3, EmptySeq DEF n
    <1>5. v = p
        BY <1>3, <1>4, ConcatEmptySeq
    <1>6. QED
        BY <1>1, <1>4, <1>5 DEF u, v, n

\* A line with slots: what its channels hold afterwards goes out if it ends them.
LEMMA NdjsonLine ==
    ASSUME stream \in Streams, stream.framing # "sse", blocked \in BOOLEAN,
           NEW s \in Sessions, Templated(s), NEW e \in Events,
           \A f \in s.closed : ~ Carries(e, f), NEW final \in BOOLEAN, DOMAIN e.texts # {}
    PROVE  EventStep(s, e, final, RestoreEvent(s, e, final))
    <1> DEFINE x == Excuse(s, e, final)
               chs == TerminalPrefixes(e)
               lasts == IF final THEN Channels ELSE {}
               q == RestoreSlots(x, e, lasts)
               n == q.state
               m == FlushPending(n, chs)
               r == Deliver(Templates(m, e), e, q.text)
    <1>1. RestoreEvent(s, e, final) = r
        <2> HIDE DEF x
        <2>1. RestoreEvent(s, e, final) = RestoreNdjsonLine(x, e, final)
            BY DEF RestoreEvent, x
        <2>2. RestoreNdjsonLine(x, e, final) = r
            BY DEF RestoreNdjsonLine
        <2>3. QED
            BY <2>1, <2>2
    <1>2. /\ x \in Sessions
          /\ x.pending = s.pending /\ x.tmpl = s.tmpl /\ x.given = s.given /\ x.shown = s.shown
          /\ x.stray = s.stray /\ x.closed = s.closed
          /\ x.excused = s.excused \cup Excused(s, e, final)
        BY ExcuseFacts
    <1> HIDE DEF x
    <1>3. chs \in SUBSET Channels /\ \A f \in Fields : TextSlot(f) \in chs <=> f \in Ends(e)
        BY TerminalFacts DEF Ends
    <1>4. \A f \in Fields : TextSlot(f) \in lasts <=> IsLast(final)
        BY FieldFacts DEF IsLast
    <1> HIDE DEF chs, lasts
    <1>5. /\ n \in Sessions
          /\ n.tmpl = x.tmpl /\ n.given = x.given /\ n.shown = x.shown
          /\ n.stray = x.stray /\ n.closed = x.closed /\ n.excused = x.excused
          /\ DOMAIN q.text = DOMAIN e.texts
          /\ \A f \in DOMAIN e.texts : q.text[f] \in Seq(Glyphs)
        BY <1>2, SlotsFacts
    <1>6. ASSUME NEW f \in Fields, f \notin DOMAIN e.texts PROVE n.pending[TextSlot(f)] = s.pending[TextSlot(f)]
        BY <1>2, <1>6, SlotsFacts
    <1>7. ASSUME NEW f \in Fields, f \in DOMAIN e.texts
          PROVE  LET b == s.pending[TextSlot(f)] \o e.texts[f]
                     k == IF IsLast(final) THEN 0 ELSE PartialLen(b)
                 IN n.pending[TextSlot(f)] = Held(b, k) /\ q.text[f] = Restored(f, Released(b, k))
        <2> DEFINE b == Buffered(x, e, f)
                   k == KeepLen(x, e, f, TextSlot(f) \in lasts)
        <2>1. n.pending[TextSlot(f)] = Held(b, k) /\ q.text[f] = Restored(f, Released(b, k))
            BY <1>2, <1>7, SlotsFacts
        <2>2. k = IF IsLast(final) THEN 0 ELSE PartialLen(b)
            BY <1>4 DEF KeepLen
        <2>3. b = s.pending[TextSlot(f)] \o e.texts[f]
            BY <1>2 DEF Buffered
        <2> HIDE DEF b, k
        <2>4. QED
            BY <2>1, <2>2, <2>3
    <1> HIDE DEF n, q
    \* What is still held without a template came with this line.
    <1>8. ASSUME NEW f \in Fields, ~ Modelled(n, TextSlot(f))
          PROVE  Carries(e, f) /\ (f \in Ends(e) => f \in x.excused)
        <2> DEFINE p == s.pending[TextSlot(f)]
                   t == e.texts[f]
                   b == p \o t
                   k == IF IsLast(final) THEN 0 ELSE PartialLen(b)
        <2>1. TextSlot(f) \in Channels /\ p \in Halves /\ p \in Seq(Pieces) /\ Modelled(s, TextSlot(f))
            BY SessionFacts, FieldFacts, HalfFacts DEF Templated
        <2>2. n.pending[TextSlot(f)] # <<>> /\ TextSlot(f) \notin s.tmpl
            BY <1>2, <1>5, <1>8 DEF Modelled
        <2>3. p = <<>>
            BY <2>1, <2>2 DEF Modelled
        <2>4. f \in DOMAIN e.texts
            BY <1>6, <2>2, <2>3
        <2>5. t \in Seq(Pieces) /\ b = t /\ n.pending[TextSlot(f)] = Held(b, k)
            BY <1>7, <2>3, <2>4, EventTypes, ConcatEmptySeq
        <2>6. k # 0
            <3> HIDE DEF k, b
            <3>1. QED
                BY <2>2, <2>5, Unheld
        <2>7. t # <<>>
            <3>1. PartialLen(<<>>) = 0
                BY StreamAssumption DEF PartialLen, At
            <3>2. QED
                BY <2>5, <2>6, <3>1
        <2>8. f \notin s.closed
            BY <2>4, <2>7 DEF Carries
        <2>9. k = KeepLen(s, e, f, final)
            BY DEF KeepLen, Buffered, IsLast
        <2>10. k > 0
            <3>1. PartialLen(b) \in Nat
                BY <2>5, LenProperties, HoldFacts
            <3>2. QED
                BY <2>6, <3>1
        <2> HIDE DEF k, b, t
        <2>11. f \in Ends(e) => f \in Excused(s, e, final)
            BY <2>4, <2>7, <2>8, <2>9, <2>10 DEF Excused, Ends, t
        <2>12. QED
            BY <1>2, <2>4, <2>7, <2>11 DEF Carries, t
    <1>9. /\ m \in Sessions
          /\ m.given = n.given /\ m.closed = n.closed /\ m.excused = n.excused
          /\ \A ch \in Channels : Modelled(n, ch) => Modelled(m, ch)
          /\ blocked => m.shown = n.shown
        BY <1>3, <1>5, FlushFacts
    <1>10. ASSUME ~ blocked
           PROVE  /\ \A ch \in Channels : m.pending[ch] = IF ch \in chs THEN <<>> ELSE n.pending[ch]
                  /\ {ch \in chs : n.pending[ch] # <<>>} \subseteq n.tmpl => m.stray = n.stray
                  /\ \A f \in Fields : m.shown[f] =
                        IF f \notin n.closed /\ TextSlot(f) \in chs /\ TextSlot(f) \in n.tmpl /\ n.pending[TextSlot(f)] # <<>>
                        THEN n.shown[f] \o Restored(f, n.pending[TextSlot(f)])
                        ELSE n.shown[f]
        BY <1>3, <1>5, <1>10, FlushFacts
    <1> HIDE DEF m
    <1>11. \A f \in Fields : f \notin DOMAIN e.texts => Modelled(m, TextSlot(f))
        BY <1>8, <1>9, FieldFacts DEF Carries
    <1>12. /\ r \in Sessions /\ Templated(r)
           /\ r.pending = m.pending /\ r.stray = m.stray /\ r.excused = m.excused
           /\ r.closed = m.closed \cup Ends(e)
           /\ \A f \in Fields : /\ r.given[f] = GivenBy(m.given[f], e, f)
                                /\ r.shown[f] = IF f \in m.closed \/ f \notin DOMAIN q.text THEN m.shown[f]
                                                ELSE m.shown[f] \o q.text[f]
        BY <1>5, <1>9, <1>11, EndFacts
    <1> HIDE DEF r
    <1>13. \A f \in s.closed : r.given[f] = s.given[f] /\ r.shown[f] = s.shown[f]
        <2>1. \A f \in s.closed : f \in Fields /\ s.given[f] \in Seq(Pieces)
            BY SessionFacts
        <2>2. \A f \in s.closed : m.shown[f] = s.shown[f]
            BY <1>2, <1>5, <1>9, <1>10, <2>1
        <2>3. QED
            BY <1>2, <1>5, <1>9, <1>12, <2>1, <2>2, ClosedKept
    <1>14. ASSUME ~ blocked, Strayless(s) PROVE Strayless(r)
        <2>1. CASE {ch \in chs : n.pending[ch] # <<>>} \subseteq n.tmpl
            BY <1>2, <1>5, <1>9, <1>10, <1>12, <1>14, <2>1 DEF Strayless
        <2>2. CASE ~ ({ch \in chs : n.pending[ch] # <<>>} \subseteq n.tmpl)
            <3>1. PICK ch \in chs : ~ Modelled(n, ch)
                BY <2>2 DEF Modelled
            <3>2. PICK f \in Fields : ch = TextSlot(f)
                BY <1>3 DEF Channels
            <3>3. f \in x.excused
                BY <1>3, <1>8, <3>1, <3>2
            <3>4. QED
                BY <1>5, <1>9, <1>12, <3>3 DEF Strayless
        <2>3. QED
            BY <2>1, <2>2
    <1>15. ASSUME ~ blocked, NEW f \in Fields, f \notin s.closed, f \notin r.excused, InStep(s, f)
           PROVE  FieldStep(s, e, final, r, f)
        <2> DEFINE g == s.given[f]
                   sh == s.shown[f]
                   p == s.pending[TextSlot(f)]
                   d == m.shown[f]
                   h == n.pending[TextSlot(f)]
        <2>1. g \in Seq(Pieces) /\ sh \in Seq(Glyphs) /\ p \in Halves /\ Reads(f, g, sh, p) /\ p \in Seq(Pieces)
            BY <1>15, SessionFacts, FieldFacts, HalfFacts DEF InStep
        <2>2. TextSlot(f) \in Channels /\ h \in Halves
            BY <1>5, FieldFacts, SessionFacts
        <2>3. f \notin x.excused /\ f \notin m.closed /\ f \notin n.closed /\ m.given[f] = g /\ n.shown[f] = sh
            BY <1>2, <1>5, <1>9, <1>12, <1>15
        <2>4. r.pending[TextSlot(f)] = IF f \in Ends(e) THEN <<>> ELSE h
            BY <1>3, <1>10, <1>12, <1>15, <2>2
        <2>5. d = IF f \in Ends(e) THEN sh \o Restored(f, h) ELSE sh
            <3>1. f \in Ends(e) /\ h # <<>> => TextSlot(f) \in n.tmpl
                BY <1>8, <2>3 DEF Modelled
            <3>2. d = IF f \in Ends(e) /\ h # <<>> THEN sh \o Restored(f, h) ELSE sh
                BY <1>3, <1>10, <1>15, <2>3, <3>1
            <3>3. sh \o <<>> = sh /\ Restored(f, <<>>) = <<>>
                BY <2>1, ConcatEmptySeq, RestoreNone DEF Restored
            <3>4. QED
                BY <3>2, <3>3
        <2> HIDE DEF g, sh, p, d, h
        <2>6. CASE f \in DOMAIN e.texts
            <3> DEFINE t == e.texts[f]
                       b == p \o t
                       k == IF IsLast(final) THEN 0 ELSE PartialLen(b)
            <3>1. t \in Seq(Pieces)
                BY <2>6, EventTypes
            <3>2. h = Held(b, k) /\ q.text[f] = Restored(f, Released(b, k))
                BY <1>7, <2>6 DEF h, p
            <3>3. r.given[f] = g \o t /\ r.shown[f] = d \o q.text[f]
                BY <1>5, <1>12, <2>3, <2>6 DEF GivenBy, d
            <3>4. f \in Ends(e) /\ t # <<>> => ~ (KeepLen(s, e, f, final) > 0)
                BY <1>2, <1>15, <2>3, <2>6 DEF Excused, Ends
            <3>5. k = KeepLen(s, e, f, final)
                BY DEF KeepLen, Buffered, IsLast, p
            <3> HIDE DEF t
            <3>6. GoesOn(f, g, sh, p, t)
                BY <2>1, <3>1, Outcomes
            <3>7. b \in Seq(Pieces) /\ PartialLen(b) \in 0 .. Len(b) /\ Len(b) \in Nat
                BY <2>1, <3>1, ConcatProperties, LenProperties, HoldFacts
            <3> HIDE DEF b
            <3>8. k \in 0 .. Len(b)
                BY <3>7
            <3> HIDE DEF k
            \* The line releases everything.
            <3>9. CASE k = 0
                <4>1. h = <<>> /\ q.text[f] = Restored(f, b)
                    BY <3>2, <3>7, <3>9, Unheld
                <4>2. d = sh
                    <5>1. sh \o <<>> = sh /\ Restored(f, <<>>) = <<>>
                        BY <2>1, ConcatEmptySeq, RestoreNone DEF Restored
                    <5>2. QED
                        BY <2>5, <4>1, <5>1
                <4>3. r.shown[f] = sh \o Restored(f, p \o t)
                    BY <3>3, <4>1, <4>2 DEF b
                <4>4. sh \o Restored(f, p \o t) = Restored(f, g \o t)
                    BY <3>6 DEF GoesOn
                <4>5. Grows(s, r, f)
                    BY <3>3, <3>6, <3>7, <4>3 DEF GoesOn, Grows, g, sh, b
                <4>6. r.pending[TextSlot(f)] = <<>>
                    BY <2>4, <4>1
                <4>7. Whole(r, f)
                    BY <1>12, <3>3, <4>3, <4>4, <4>6, WholeIs
                <4>8. ASSUME ~ IsLast(final) PROVE InStep(r, f)
                    <5>1. k = PartialLen(p \o t)
                        BY <4>8 DEF k, b
                    <5>2. Reads(f, g \o t, sh \o Restored(f, Released(p \o t, k)), Held(p \o t, k))
                        BY <2>1, <3>1, <5>1, TextStep
                    <5>3. Held(p \o t, k) = <<>> /\ Released(p \o t, k) = p \o t
                        BY <3>7, <3>9, Unheld DEF b
                    <5>4. QED
                        BY <3>3, <4>3, <4>6, <5>2, <5>3 DEF InStep
                <4>9. QED
                    BY <3>3, <4>3, <4>4, <4>5, <4>7, <4>8 DEF FieldStep, IsLast
            <3>10. CASE k # 0 /\ f \in Ends(e)
                <4>1. t = <<>>
                    BY <3>4, <3>5, <3>7, <3>8, <3>10
                <4>2. b = p
                    BY <2>1, <4>1, ConcatEmptySeq DEF b
                <4>3. k = PartialLen(p)
                    BY <3>10, <4>2 DEF k
                <4>4. h = p /\ q.text[f] = Restored(f, t)
                    BY <2>1, <3>2, <4>1, <4>2, <4>3, HeldOn
                <4>5. r.shown[f] = (sh \o Restored(f, p)) \o Restored(f, t)
                    BY <2>5, <3>3, <3>10, <4>4
                <4>6. (sh \o Restored(f, p)) \o Restored(f, t) = Restored(f, g \o t)
                    BY <3>6, <4>1 DEF GoesOn
                <4>7. Grows(s, r, f)
                    BY <2>1, <3>1, <3>3, <3>6, <4>5 DEF GoesOn, Grows, g, sh
                <4>8. QED
                    BY <3>3, <3>10, <4>5, <4>6, <4>7 DEF FieldStep
            <3>11. CASE k # 0 /\ f \notin Ends(e)
                <4>1. k = PartialLen(p \o t) /\ ~ IsLast(final) /\ d = sh
                    BY <2>5, <3>11 DEF k, b
                <4>2. Released(b, k) \in Seq(Pieces)
                    BY <3>7, <3>8, SplitFacts
                <4>3. Reads(f, g \o t, sh \o Restored(f, Released(p \o t, k)), Held(p \o t, k))
                    BY <2>1, <3>1, <4>1, TextStep
                <4>4. r.shown[f] = sh \o Restored(f, Released(b, k)) /\ r.pending[TextSlot(f)] = Held(b, k)
                    BY <2>4, <3>2, <3>3, <3>11, <4>1
                <4>5. InStep(r, f)
                    BY <3>3, <4>3, <4>4 DEF InStep, b
                <4>6. Grows(s, r, f)
                    BY <3>3, <3>6, <4>2, <4>4 DEF GoesOn, Grows, g, sh
                <4>7. QED
                    BY <3>11, <4>1, <4>5, <4>6 DEF FieldStep, IsLast
            <3>12. QED
                BY <3>9, <3>10, <3>11
        <2>7. CASE f \notin DOMAIN e.texts
            <3>1. r.given[f] = g /\ r.shown[f] = d /\ h = p
                BY <1>5, <1>6, <1>12, <2>3, <2>7 DEF GivenBy, d, h, p
            <3>2. GoesOn(f, g, sh, p, <<>>)
                BY <2>1, EmptySeq, Outcomes
            <3>3. CASE f \in Ends(e)
                <4>1. r.shown[f] = sh \o Restored(f, p)
                    BY <2>5, <3>1, <3>3
                <4>2. sh \o Restored(f, p) = Restored(f, g) /\ Grows(s, r, f)
                    BY <2>1, <3>1, <3>2, <4>1 DEF GoesOn, Grows, g, sh
                <4>3. QED
                    BY <3>1, <3>3, <4>1, <4>2 DEF FieldStep
            <3>4. CASE f \notin Ends(e)
                <4>1. r.shown[f] = sh /\ r.pending[TextSlot(f)] = p
                    BY <2>4, <2>5, <3>1, <3>4
                <4>2. InStep(r, f)
                    BY <2>1, <3>1, <4>1 DEF InStep
                <4>3. Grows(s, r, f)
                    BY <3>1, <3>2, <4>1 DEF GoesOn, Grows, g, sh
                <4>4. Whole(r, f)
                    BY <1>12, <4>2, InStepWhole
                <4>5. QED
                    BY <3>4, <4>2, <4>3, <4>4 DEF FieldStep
            <3>5. QED
                BY <3>3, <3>4
        <2>8. QED
            BY <2>6, <2>7
    <1>16. r.closed = s.closed \cup Ends(e) /\ s.excused \subseteq r.excused
        BY <1>2, <1>5, <1>9, <1>12
    <1>17. QED
        BY <1>1, <1>12, <1>13, <1>14, <1>15, <1>16 DEF EventStep

\* One event, whatever the framing.
LEMMA EventFacts ==
    ASSUME stream \in Streams, blocked \in BOOLEAN, NEW s \in Sessions, Templated(s), NEW e \in Events,
           \A f \in s.closed : ~ Carries(e, f), NEW final \in BOOLEAN
    PROVE  EventStep(s, e, final, RestoreEvent(s, e, final))
    <1>1. CASE stream.framing = "sse" /\ IsLast(final) /\ e.kind # "done"
        BY <1>1, SseLast
    <1>2. CASE stream.framing = "sse" /\ (~ IsLast(final) \/ e.kind = "done")
        BY <1>2, SseEvent
    <1>3. CASE stream.framing # "sse" /\ DOMAIN e.texts = {}
        BY <1>3, NdjsonBare
    <1>4. CASE stream.framing # "sse" /\ DOMAIN e.texts # {}
        BY <1>4, NdjsonLine
    <1>5. QED
        BY <1>1, <1>2, <1>3, <1>4

-----------------------------------------------------------------------------
(* A frame: one event after the other.                                     *)

LEMMA EventType ==
    ASSUME stream \in Streams, blocked \in BOOLEAN, NEW s \in Sessions, NEW e \in Events, NEW final \in BOOLEAN
    PROVE  RestoreEvent(s, e, final) \in Sessions
    <1> DEFINE x == Excuse(s, e, final)
               chs == TerminalPrefixes(e)
    <1>1. x \in Sessions /\ chs \in SUBSET Channels
        BY ExcuseFacts, TerminalFacts
    <1>2. ASSUME NEW y \in Sessions PROVE FlushPending(y, chs) \in Sessions
        BY <1>1, FlushFacts
    <1>3. ASSUME NEW y \in Sessions, NEW text, \A f \in Fields : f \in DOMAIN text => text[f] \in Seq(Glyphs)
          PROVE  Deliver(y, e, text) \in Sessions
        BY <1>3, DeliverFacts
    <1>4. ASSUME NEW y \in Sessions PROVE Templates(y, e) \in Sessions
        <2> DEFINE new == {TextSlot(f) : f \in {g \in DOMAIN e.texts : y.pending[TextSlot(g)] # <<>>}}
        <2>1. new \in SUBSET Channels
            BY EventTypes, FieldFacts
        <2>2. Templates(y, e) = [y EXCEPT !.tmpl = y.tmpl \cup new]
            BY DEF Templates
        <2> HIDE DEF new
        <2>3. QED
            BY <2>1, <2>2 DEF Sessions
    <1>5. ASSUME NEW y \in Sessions, NEW lasts
          PROVE  LET q == RestoreSlots(y, e, lasts)
                 IN q.state \in Sessions /\ \A f \in Fields : f \in DOMAIN q.text => q.text[f] \in Seq(Glyphs)
        BY SlotsFacts
    <1> HIDE DEF x, chs
    <1>6. CASE stream.framing = "sse"
        <2> DEFINE w == FlushOnTerminal(x, e, final)
                   lasts == IF final THEN Channels ELSE chs
                   q == RestoreSlots(w, e, lasts)
        <2>1. w = x \/ w = FlushPending(x, chs)
            BY DEF FlushOnTerminal, chs
        <2>2. w \in Sessions
            BY <1>1, <1>2, <2>1
        <2> HIDE DEF w
        <2>3. RestoreEvent(s, e, final) = Deliver(Templates(q.state, e), e, q.text)
            BY <1>6 DEF RestoreEvent, RestoreSseEvent, x, chs, w
        <2> HIDE DEF lasts
        <2>4. q.state \in Sessions /\ \A f \in Fields : f \in DOMAIN q.text => q.text[f] \in Seq(Glyphs)
            BY <1>5, <2>2
        <2> HIDE DEF q
        <2>5. Templates(q.state, e) \in Sessions
            BY <1>4, <2>4
        <2>6. QED
            BY <1>3, <2>3, <2>4, <2>5
    <1>7. CASE stream.framing # "sse" /\ DOMAIN e.texts = {}
        <2> DEFINE none == <<>>
        <2>1. RestoreEvent(s, e, final) = Deliver(x, e, none)
            BY <1>7 DEF RestoreEvent, RestoreNdjsonLine, x
        <2>2. DOMAIN none = {}
            OBVIOUS
        <2> HIDE DEF none
        <2>3. QED
            BY <1>1, <1>3, <2>1, <2>2
    <1>8. CASE stream.framing # "sse" /\ DOMAIN e.texts # {}
        <2> DEFINE lasts == IF final THEN Channels ELSE {}
                   q == RestoreSlots(x, e, lasts)
                   m == FlushPending(q.state, chs)
        <2>1. RestoreEvent(s, e, final) = Deliver(Templates(m, e), e, q.text)
            BY <1>8 DEF RestoreEvent, RestoreNdjsonLine, x, chs
        <2> HIDE DEF lasts
        <2>2. q.state \in Sessions /\ \A f \in Fields : f \in DOMAIN q.text => q.text[f] \in Seq(Glyphs)
            BY <1>1, <1>5
        <2> HIDE DEF q
        <2>3. m \in Sessions
            BY <1>2, <2>2
        <2> HIDE DEF m
        <2>4. Templates(m, e) \in Sessions
            BY <1>4, <2>3
        <2>5. QED
            BY <1>3, <2>1, <2>2, <2>4
    <1>9. QED
        BY <1>6, <1>7, <1>8

\* What events that are not the last do to an open field.
OpenStep(s, r, f) ==
    /\ Grows(s, r, f)
    /\ f \in r.closed => r.shown[f] = Restored(f, r.given[f])
    /\ f \notin r.closed => InStep(r, f)

Reaches(s, final, r) ==
    /\ r \in Sessions /\ Templated(r)
    /\ s.closed \subseteq r.closed /\ s.excused \subseteq r.excused
    /\ \A f \in s.closed : r.given[f] = s.given[f] /\ r.shown[f] = s.shown[f]
    /\ ~ blocked => /\ Strayless(s) => Strayless(r)
                    /\ ~ IsLast(final) =>
                        \A f \in Fields : f \notin s.closed /\ f \notin r.excused /\ InStep(s, f) => OpenStep(s, r, f)

LEMMA ReachesSelf ==
    ASSUME NEW s \in Sessions, Templated(s), NEW final
    PROVE  Reaches(s, final, s)
    <1>1. \A f \in Fields : s.given[f] \in Seq(Pieces) /\ s.shown[f] \in Seq(Glyphs)
        BY SessionFacts
    <1>2. \A f \in Fields : Grows(s, s, f)
        BY <1>1, ExtendsSelf DEF Grows
    <1>3. QED
        BY <1>2 DEF Reaches, OpenStep

LEMMA ReachesOn ==
    ASSUME NEW s \in Sessions, NEW m, NEW e \in Events, NEW r, NEW final \in BOOLEAN,
           Reaches(s, final, m), EventStep(m, e, final, r)
    PROVE  Reaches(s, final, r)
    <1>1. m \in Sessions /\ r \in Sessions /\ Templated(r)
        BY DEF Reaches, EventStep
    <1>2. s.closed \subseteq m.closed /\ m.closed \subseteq r.closed /\ s.excused \subseteq m.excused /\ m.excused \subseteq r.excused
          /\ r.closed = m.closed \cup Ends(e)
        BY DEF Reaches, EventStep
    <1>3. \A f \in s.closed : r.given[f] = s.given[f] /\ r.shown[f] = s.shown[f]
        BY DEF Reaches, EventStep
    <1>4. ASSUME ~ blocked PROVE Strayless(s) => Strayless(r)
        BY <1>4 DEF Reaches, EventStep
    <1>5. ASSUME ~ blocked, ~ IsLast(final), NEW f \in Fields, f \notin s.closed, f \notin r.excused, InStep(s, f)
          PROVE  OpenStep(s, r, f)
        <2>1. f \notin m.excused
            BY <1>2, <1>5
        <2>2. OpenStep(s, m, f)
            BY <1>5, <2>1 DEF Reaches
        <2>3. CASE f \in m.closed
            <3>1. r.given[f] = m.given[f] /\ r.shown[f] = m.shown[f] /\ f \in r.closed
                BY <1>2, <2>3 DEF EventStep
            <3>2. QED
                BY <2>2, <2>3, <3>1 DEF OpenStep, Grows
        <2>4. CASE f \notin m.closed
            <3>1. FieldStep(m, e, final, r, f)
                BY <1>5, <2>2, <2>4 DEF EventStep, OpenStep
            <3>2. Grows(s, r, f)
                <4>1. s.given[f] \in Seq(Pieces) /\ m.given[f] \in Seq(Pieces) /\ r.given[f] \in Seq(Pieces)
                    BY <1>1, SessionFacts
                <4>2. s.shown[f] \in Seq(Glyphs) /\ m.shown[f] \in Seq(Glyphs) /\ r.shown[f] \in Seq(Glyphs)
                    BY <1>1, SessionFacts
                <4>3. Grows(s, m, f) /\ Grows(m, r, f)
                    BY <2>2, <3>1 DEF OpenStep, FieldStep
                <4>4. Promise!Extends(r.given[f], s.given[f])
                    BY <4>1, <4>3, ExtendsOn DEF Grows
                <4>5. Promise!Extends(r.shown[f], s.shown[f])
                    BY <4>2, <4>3, ExtendsOn DEF Grows
                <4>6. QED
                    BY <4>4, <4>5 DEF Grows
            <3>3. QED
                BY <1>2, <1>5, <2>4, <3>1, <3>2 DEF OpenStep, FieldStep, IsLast
        <2>5. QED
            BY <2>3, <2>4
    <1>6. QED
        BY <1>1, <1>2, <1>3, <1>4, <1>5 DEF Reaches

\* No event carries text for a field in c, or for one an earlier event ended.
Ordered(c, es) ==
    \A j \in 1 .. Len(es) : \A f \in Fields :
        f \in c \/ (\E i \in 1 .. j - 1 : f \in Ends(es[i])) => ~ Carries(es[j], f)

\* The fields closed after k events.
ClosedBy(c, es, k) == c \cup {f \in Fields : \E i \in 1 .. k : f \in Ends(es[i])}

LEMMA FrameFacts ==
    ASSUME stream \in Streams, blocked \in BOOLEAN, NEW s \in Sessions, Templated(s), NEW frame, NEW final \in BOOLEAN,
           EventsOf(frame) \in Seq(Events), Ordered(s.closed, EventsOf(frame))
    PROVE  LET es == EventsOf(frame)
               r == RestoreFrame(s, frame, final)
           IN /\ Reaches(s, final, r)
              /\ r.closed = ClosedBy(s.closed, es, Len(es))
              /\ Len(es) = 0 => r = s
              /\ Len(es) = 1 => EventStep(s, es[1], final, r)
    <1> DEFINE es == EventsOf(frame)
               n == Len(es)
               r == RestoreFrame(s, frame, final)
               Good(A) == A = [k \in 0 .. n |-> IF k = 0 THEN s ELSE RestoreEvent(A[k - 1], es[k], final)]
               After == CHOOSE A : Good(A)
    <1>1. n \in Nat /\ \A i \in 1 .. n : es[i] \in Events
        BY LenProperties, ElementOfSeq
    <1>2. r = After[n]
        BY DEF RestoreFrame
    <1> HIDE DEF es
    <1>3. \E A : Good(A)
        <2> DEFINE G == [i \in 1 .. n |-> [y \in Sessions |-> RestoreEvent(y, es[i], final)]]
        <2> HIDE DEF n
        <2>1. \A i \in 1 .. n : \A y \in Sessions : RestoreEvent(y, es[i], final) \in Sessions
            BY <1>1, EventType
        <2>2. G \in StepsOn(n, Sessions)
            BY <2>1 DEF StepsOn
        <2>3. \A i \in 1 .. n : \A y \in Sessions : G[i][y] = RestoreEvent(y, es[i], final)
            OBVIOUS
        <2> HIDE DEF G
        <2>4. PICK A : Follows(A, n, Sessions, s, G)
            BY <1>1, <2>2, StepwiseFunction
        <2>5. A \in [0 .. n -> Sessions] /\ A[0] = s /\ \A i \in 1 .. n : A[i] = G[i][A[i - 1]]
            BY <2>4 DEF Follows
        <2>6. ASSUME NEW i \in 0 .. n
              PROVE  A[i] = IF i = 0 THEN s ELSE RestoreEvent(A[i - 1], es[i], final)
            <3>1. CASE i = 0
                BY <2>5, <3>1
            <3>2. CASE i # 0
                <4>1. i \in 1 .. n /\ i - 1 \in 0 .. n
                    BY <1>1, <3>2
                <4>2. A[i - 1] \in Sessions
                    BY <2>5, <4>1
                <4>3. QED
                    BY <2>3, <2>5, <3>2, <4>1, <4>2
            <3>3. QED
                BY <3>1, <3>2
        <2>7. Good(A)
            BY <2>5, <2>6
        <2>8. QED
            BY <2>7
    <1>4. Good(After)
        <2> HIDE DEF Good
        <2>1. QED
            BY <1>3
    <1> HIDE DEF After, n, r
    <1>5. After[0] = s /\ \A i \in 1 .. n : After[i] = RestoreEvent(After[i - 1], es[i], final)
        <2>1. \A i \in 0 .. n : After[i] = IF i = 0 THEN s ELSE RestoreEvent(After[i - 1], es[i], final)
            BY <1>4
        <2> HIDE DEF Good
        <2>2. 0 \in 0 .. n /\ \A i \in 1 .. n : i \in 0 .. n /\ i # 0
            BY <1>1
        <2>3. QED
            BY <2>1, <2>2
    <1> HIDE DEF Good
    <1> DEFINE Fine(k, y) == Reaches(s, final, y) /\ y.closed = ClosedBy(s.closed, es, k)
               P == {k \in 0 .. n : Fine(k, After[k])}
    <1>6. ASSUME NEW k \in 1 .. n, NEW y, Fine(k - 1, y)
          PROVE  /\ Fine(k, RestoreEvent(y, es[k], final))
                 /\ EventStep(y, es[k], final, RestoreEvent(y, es[k], final))
        <2> DEFINE z == RestoreEvent(y, es[k], final)
        <2>1. y \in Sessions /\ Templated(y) /\ es[k] \in Events
            BY <1>1, <1>6 DEF Reaches
        <2>2. \A f \in y.closed : ~ Carries(es[k], f)
            <3>1. \A f \in y.closed : f \in Fields
                BY <2>1, SessionFacts
            <3>2. \A f \in Fields : f \in s.closed \/ (\E i \in 1 .. k - 1 : f \in Ends(es[i])) => ~ Carries(es[k], f)
                BY DEF Ordered, es, n
            <3>3. QED
                BY <1>6, <3>1, <3>2 DEF ClosedBy
        <2>3. EventStep(y, es[k], final, z)
            BY <2>1, <2>2, EventFacts
        <2> HIDE DEF z
        <2>4. Reaches(s, final, z)
            BY <1>6, <2>1, <2>3, ReachesOn
        <2>5. z.closed = y.closed \cup Ends(es[k])
            BY <2>3 DEF EventStep
        <2>6. ClosedBy(s.closed, es, k) = ClosedBy(s.closed, es, k - 1) \cup Ends(es[k])
            <3>1. \A i : i \in 1 .. k <=> i \in 1 .. k - 1 \/ i = k
                BY <1>1
            <3>2. QED
                BY <3>1 DEF ClosedBy, Ends
        <2>7. QED
            BY <1>6, <2>3, <2>4, <2>5, <2>6 DEF z
    <1>7. 0 \in P
        <2>1. 0 \in 0 .. n /\ 1 .. 0 = {}
            BY <1>1
        <2>2. ClosedBy(s.closed, es, 0) = s.closed
            BY <2>1 DEF ClosedBy
        <2>3. QED
            BY <1>5, <2>1, <2>2, ReachesSelf
    <1>8. ASSUME NEW i \in 1 .. n, i - 1 \in P PROVE i \in P
        <2>1. Fine(i - 1, After[i - 1]) /\ i \in 0 .. n
            BY <1>1, <1>8
        <2> HIDE DEF Fine
        <2>2. QED
            BY <1>5, <1>6, <2>1
    <1>9. n \in P
        <2>1. P \in SUBSET (0 .. n) /\ n \in 0 .. n
            BY <1>1
        <2> HIDE DEF P
        <2>2. QED
            BY <1>1, <1>7, <1>8, <2>1, IntervalInduction
    <1>10. Fine(n, r)
        BY <1>2, <1>9
    <1>11. n = 0 => r = s
        BY <1>2, <1>5
    <1>12. ASSUME n = 1 PROVE EventStep(s, es[1], final, r)
        <2>1. 1 \in 1 .. n /\ 1 - 1 = 0 /\ Fine(0, s)
            BY <1>5, <1>7, <1>12
        <2> HIDE DEF Fine
        <2>2. r = RestoreEvent(s, es[1], final)
            BY <1>2, <1>5, <1>12, <2>1
        <2>3. QED
            BY <1>6, <2>1, <2>2
    <1>13. QED
        BY <1>10, <1>11, <1>12 DEF es, n, r

-----------------------------------------------------------------------------
(* What is on its way.                                                     *)

\* h takes the entries of v to entries of u, in order.
Embeds(h, v, u) ==
    /\ h \in [1 .. Len(v) -> 1 .. Len(u)]
    /\ \A i \in 1 .. Len(v) : v[i] = u[h[i]]
    /\ \A i, j \in 1 .. Len(v) : i < j => h[i] < h[j]

\* v is what is left of u when some entries are dropped.
Within(v, u) == \E h : Embeds(h, v, u)

LEMMA WithinSelf ==
    ASSUME NEW T, NEW u \in Seq(T)
    PROVE  Within(u, u)
    <1> DEFINE n == Len(u)
               h == [i \in 1 .. n |-> i]
    <1>1. n \in Nat
        BY LenProperties
    <1>2. Embeds(h, u, u)
        BY <1>1 DEF Embeds
    <1>3. QED
        BY <1>2 DEF Within

LEMMA WithinJoin ==
    ASSUME NEW T, NEW a \in Seq(T), NEW b \in Seq(T), NEW x \in Seq(T), NEW y \in Seq(T),
           Within(a, x), Within(b, y)
    PROVE  Within(a \o b, x \o y)
    <1> DEFINE k == Len(a)
               l == Len(b)
               m == Len(x)
               n == Len(y)
               v == a \o b
               u == x \o y
    <1>1. /\ k \in Nat /\ l \in Nat /\ m \in Nat /\ n \in Nat
          /\ Len(v) = k + l /\ Len(u) = m + n
          /\ \A i \in 1 .. k + l : v[i] = IF i <= k THEN a[i] ELSE b[i - k]
          /\ \A i \in 1 .. m + n : u[i] = IF i <= m THEN x[i] ELSE y[i - m]
        BY LenProperties, ConcatProperties
    <1>2. PICK f : Embeds(f, a, x)
        BY DEF Within
    <1>3. PICK g : Embeds(g, b, y)
        BY DEF Within
    <1>4. /\ f \in [1 .. k -> 1 .. m] /\ (\A i \in 1 .. k : a[i] = x[f[i]])
          /\ \A i, j \in 1 .. k : i < j => f[i] < f[j]
        BY <1>2 DEF Embeds
    <1>5. /\ g \in [1 .. l -> 1 .. n] /\ (\A i \in 1 .. l : b[i] = y[g[i]])
          /\ \A i, j \in 1 .. l : i < j => g[i] < g[j]
        BY <1>3 DEF Embeds
    <1> HIDE DEF k, l, m, n, v, u
    <1> DEFINE h == [i \in 1 .. k + l |-> IF i <= k THEN f[i] ELSE m + g[i - k]]
    <1>6. ASSUME NEW i \in 1 .. k + l
          PROVE  /\ i <= k => i \in 1 .. k /\ f[i] \in 1 .. m
                 /\ ~ (i <= k) => i - k \in 1 .. l /\ g[i - k] \in 1 .. n
        <2>1. i <= k => i \in 1 .. k
            BY <1>1
        <2>2. ~ (i <= k) => i - k \in 1 .. l
            BY <1>1
        <2>3. QED
            BY <1>4, <1>5, <2>1, <2>2
    <1>7. \A i \in 1 .. k + l : h[i] = IF i <= k THEN f[i] ELSE m + g[i - k]
        OBVIOUS
    <1>8. \A i \in 1 .. k + l : h[i] \in 1 .. m + n
        <2> SUFFICES ASSUME NEW i \in 1 .. k + l PROVE (IF i <= k THEN f[i] ELSE m + g[i - k]) \in 1 .. m + n
            BY <1>7
        <2>1. \A q \in 1 .. m : q \in 1 .. m + n
            BY <1>1
        <2>2. \A q \in 1 .. n : m + q \in 1 .. m + n
            BY <1>1
        <2>3. QED
            BY <1>6, <2>1, <2>2
    <1>9. h \in [1 .. k + l -> 1 .. m + n]
        BY <1>8
    <1> HIDE DEF h
    <1>10. ASSUME NEW i \in 1 .. k + l PROVE v[i] = u[h[i]]
        <2>1. CASE i <= k
            <3>1. h[i] = f[i] /\ f[i] \in 1 .. m + n /\ f[i] <= m /\ i \in 1 .. k
                BY <1>1, <1>6, <1>7, <2>1
            <3>2. QED
                BY <1>1, <1>4, <2>1, <3>1
        <2>2. CASE ~ (i <= k)
            <3> DEFINE j == i - k
                       p == g[j]
            <3>1. j \in 1 .. l /\ p \in 1 .. n
                BY <1>6, <2>2
            <3>2. h[i] = m + p
                BY <1>7, <2>2
            <3> HIDE DEF p
            <3>3. m + p \in 1 .. m + n /\ ~ (m + p <= m) /\ (m + p) - m = p
                BY <1>1, <3>1
            <3>4. u[m + p] = y[p]
                BY <1>1, <3>3
            <3>5. v[i] = b[j]
                BY <1>1, <2>2
            <3>6. QED
                BY <1>5, <3>1, <3>2, <3>4, <3>5 DEF p
        <2>3. QED
            BY <2>1, <2>2
    <1>11. ASSUME NEW i \in 1 .. k + l, NEW j \in 1 .. k + l, i < j PROVE h[i] < h[j]
        <2>1. CASE j <= k
            <3>1. i <= k
                BY <1>1, <1>11, <2>1
            <3>2. QED
                BY <1>4, <1>6, <1>7, <1>11, <2>1, <3>1
        <2>2. CASE ~ (j <= k) /\ i <= k
            <3>1. h[i] \in 1 .. m /\ h[j] = m + g[j - k] /\ g[j - k] \in 1 .. n
                BY <1>6, <1>7, <2>2
            <3>2. QED
                BY <1>1, <3>1
        <2>3. CASE ~ (i <= k)
            <3>1. ~ (j <= k) /\ i - k < j - k
                BY <1>1, <1>11, <2>3
            <3>2. i - k \in 1 .. l /\ j - k \in 1 .. l
                BY <1>6, <2>3, <3>1
            <3>3. g[i - k] < g[j - k] /\ g[i - k] \in 1 .. n /\ g[j - k] \in 1 .. n
                BY <1>5, <3>1, <3>2
            <3>4. h[i] = m + g[i - k] /\ h[j] = m + g[j - k]
                BY <1>7, <2>3, <3>1
            <3>5. QED
                BY <1>1, <3>3, <3>4
        <2>4. QED
            BY <2>1, <2>2, <2>3
    <1>12. Embeds(h, v, u)
        BY <1>1, <1>9, <1>10, <1>11 DEF Embeds
    <1>13. QED
        BY <1>12 DEF Within, v, u

LEMMA WithinPicked ==
    ASSUME NEW T, NEW u \in Seq(T), NEW S \in SUBSET (1 .. Len(u))
    PROVE  Picked(u, S) \in Seq(T) /\ Within(Picked(u, S), u)
    <1> DEFINE v == Picked(u, S)
               n == Len(v)
               h == [i \in 1 .. n |-> Nth(S, i)]
    <1>1. v \in Seq(T) /\ n \in Nat /\ \A i \in 1 .. n : Nth(S, i) \in S /\ v[i] = u[Nth(S, i)]
        BY PickedFacts
    <1>2. S \in SUBSET Nat /\ IsFiniteSet(S) /\ n = Cardinality(S)
        <2>1. Len(u) \in Nat /\ IsFiniteSet(1 .. Len(u))
            BY LenProperties, FS_Interval
        <2> DEFINE m == Len(u)
        <2> HIDE DEF m
        <2>2. IsFiniteSet(S) /\ S \in SUBSET Nat
            <3>1. S \in SUBSET (1 .. m) /\ IsFiniteSet(1 .. m) /\ m \in Nat
                BY <2>1 DEF m
            <3>2. IsFiniteSet(S)
                BY <3>1, FS_Subset
            <3>3. S \in SUBSET Nat
                BY <3>1
            <3>4. QED
                BY <3>2, <3>3
        <2>3. Cardinality(S) \in Nat
            BY <2>2, FS_CardinalityType
        <2>4. DOMAIN v = 1 .. Cardinality(S)
            BY DEF Picked
        <2> HIDE DEF v
        <2>5. DOMAIN v = 1 .. n
            BY <1>1, LenProperties
        <2> HIDE DEF n
        <2>6. n = Cardinality(S)
            BY <1>1, <2>3, <2>4, <2>5
        <2>7. QED
            BY <2>2, <2>6
    <1>3. \A i, j \in 1 .. n : i < j => Nth(S, i) < Nth(S, j)
        BY <1>2, NthAscends
    <1> HIDE DEF v, n
    <1>4. h \in [1 .. n -> 1 .. Len(u)] /\ \A i \in 1 .. n : h[i] = Nth(S, i)
        BY <1>1
    <1>5. Embeds(h, v, u)
        BY <1>1, <1>3, <1>4 DEF Embeds, n
    <1>6. QED
        BY <1>1, <1>5 DEF Within, v

Units == {LF, CR, <<"damaged">>} \cup ({"head", "rest"} \X Events)

LEMMA UnitFacts ==
    /\ \A x \in Units : x[1] = "head" => x[2] \in Events
    /\ LF[1] # "head" /\ CR[1] # "head" /\ <<"damaged">>[1] # "head"
    BY DEF Units, LF, CR

\* The entry begins an event that ends the field.
EndsAt(x, f) == x[1] = "head" /\ f \in Ends(x[2])

\* What is on its way when the fields in c are closed and upstream has finished
\* those in d: no event carries text for a field in c or one an earlier event
\* ends.
Flow(c, d, u) ==
    /\ u \in Seq(Units) /\ c \subseteq d
    /\ \A j \in 1 .. Len(u) : \A f \in Fields :
        /\ EndsAt(u[j], f) => f \in d
        /\ u[j][1] = "head" /\ (f \in c \/ \E i \in 1 .. j - 1 : EndsAt(u[i], f)) => ~ Carries(u[j][2], f)

LEMMA FlowWithin ==
    ASSUME NEW c, NEW d, NEW u, NEW v, v \in Seq(Units), Flow(c, d, u), Within(v, u)
    PROVE  Flow(c, d, v)
    <1> DEFINE m == Len(u)
               n == Len(v)
    <1>1. PICK h : Embeds(h, v, u)
        BY DEF Within
    <1>2. u \in Seq(Units) /\ m \in Nat /\ n \in Nat
        BY LenProperties DEF Flow
    <1>3. /\ h \in [1 .. n -> 1 .. m] /\ (\A i \in 1 .. n : v[i] = u[h[i]])
          /\ \A i, j \in 1 .. n : i < j => h[i] < h[j]
        BY <1>1 DEF Embeds
    <1>4. c \subseteq d /\ \A j \in 1 .. m : \A f \in Fields :
        /\ EndsAt(u[j], f) => f \in d
        /\ u[j][1] = "head" /\ (f \in c \/ \E i \in 1 .. j - 1 : EndsAt(u[i], f)) => ~ Carries(u[j][2], f)
        BY DEF Flow
    <1> HIDE DEF m, n
    <1>5. ASSUME NEW j \in 1 .. n, NEW f \in Fields
          PROVE  /\ EndsAt(v[j], f) => f \in d
                 /\ v[j][1] = "head" /\ (f \in c \/ \E i \in 1 .. j - 1 : EndsAt(v[i], f)) => ~ Carries(v[j][2], f)
        <2>1. h[j] \in 1 .. m /\ v[j] = u[h[j]]
            BY <1>3
        <2>2. ASSUME NEW i \in 1 .. j - 1, EndsAt(v[i], f)
              PROVE  \E k \in 1 .. h[j] - 1 : EndsAt(u[k], f)
            <3>1. i \in 1 .. n /\ i < j
                BY <1>2
            <3>2. h[i] < h[j] /\ h[i] \in 1 .. m /\ v[i] = u[h[i]]
                BY <1>3, <3>1
            <3>3. h[i] \in 1 .. h[j] - 1
                BY <1>2, <2>1, <3>2
            <3>4. QED
                BY <2>2, <3>2, <3>3
        <2>3. QED
            BY <1>4, <2>1, <2>2
    <1>6. QED
        BY <1>4, <1>5 DEF Flow, n

\* Handling the events of the first part leaves a flow behind.
LEMMA FlowConsume ==
    ASSUME NEW c \in SUBSET Fields, NEW d, NEW t, NEW u, t \in Seq(Units), u \in Seq(Units), Flow(c, d, t \o u)
    PROVE  LET es == EventsOf(t)
           IN /\ es \in Seq(Events) /\ Ordered(c, es)
              /\ Flow(ClosedBy(c, es, Len(es)), d, u)
    <1> DEFINE S == {i \in 1 .. Len(t) : t[i][1] = "head" /\ i < Len(t) /\ t[i + 1][1] = "rest"}
               w == Picked(t, S)
               n == Len(w)
               l == Len(t)
               m == Len(u)
               z == t \o u
               es == EventsOf(t)
    <1>1. l \in Nat /\ m \in Nat /\ z \in Seq(Units) /\ Len(z) = l + m
          /\ \A i \in 1 .. l + m : z[i] = IF i <= l THEN t[i] ELSE u[i - l]
        BY LenProperties, ConcatProperties
    <1> HIDE DEF z
    <1>2. es = [k \in 1 .. n |-> w[k][2]]
        BY DEF EventsOf
    <1>3. S \in SUBSET (1 .. l)
        OBVIOUS
    <1>4. w \in Seq(Units) /\ n \in Nat /\ Within(w, t) /\ \A k \in 1 .. n : Nth(S, k) \in S /\ w[k] = t[Nth(S, k)]
        <2> HIDE DEF S
        <2>1. QED
            BY <1>3, WithinPicked, PickedFacts
    <1>5. \A k \in 1 .. n : w[k][1] = "head"
        BY <1>4
    <1> HIDE DEF S, w, n
    <1>6. \A k \in 1 .. n : w[k] \in Units /\ w[k][2] \in Events
        BY <1>4, <1>5, ElementOfSeq, UnitFacts DEF n
    <1>7. es \in [1 .. n -> Events] /\ \A k \in 1 .. n : es[k] = w[k][2]
        BY <1>2, <1>6
    <1> HIDE DEF es
    <1>8. es \in Seq(Events) /\ Len(es) = n
        BY <1>4, <1>7
    <1>9. PICK h : Embeds(h, w, t)
        BY <1>4 DEF Within
    <1>10. /\ h \in [1 .. n -> 1 .. l] /\ (\A k \in 1 .. n : w[k] = t[h[k]])
           /\ \A i, j \in 1 .. n : i < j => h[i] < h[j]
        BY <1>9 DEF Embeds, n
    <1>11. c \subseteq d /\ \A j \in 1 .. l + m : \A f \in Fields :
        /\ EndsAt(z[j], f) => f \in d
        /\ z[j][1] = "head" /\ (f \in c \/ \E i \in 1 .. j - 1 : EndsAt(z[i], f)) => ~ Carries(z[j][2], f)
        BY <1>1 DEF Flow, z
    <1> HIDE DEF l, m
    <1>12. \A i \in 1 .. l : i \in 1 .. l + m /\ z[i] = t[i]
        BY <1>1
    <1>13. ASSUME NEW k \in 1 .. n PROVE h[k] \in 1 .. l /\ h[k] \in 1 .. l + m /\ z[h[k]] = w[k] /\ z[h[k]][1] = "head"
        BY <1>5, <1>10, <1>12
    <1>14. ASSUME NEW k \in 1 .. n, NEW f \in Fields PROVE f \in Ends(es[k]) <=> EndsAt(z[h[k]], f)
        BY <1>7, <1>13 DEF EndsAt
    <1>15. Ordered(c, es)
        <2>1. SUFFICES ASSUME NEW j \in 1 .. n, NEW f \in Fields, f \in c \/ \E i \in 1 .. j - 1 : f \in Ends(es[i])
                       PROVE  ~ Carries(es[j], f)
            BY <1>8 DEF Ordered
        <2>2. ASSUME NEW i \in 1 .. j - 1, f \in Ends(es[i]) PROVE \E k \in 1 .. h[j] - 1 : EndsAt(z[k], f)
            <3>1. i \in 1 .. n /\ i < j
                BY <1>4
            <3>2. h[i] < h[j] /\ h[i] \in 1 .. l /\ h[j] \in 1 .. l
                BY <1>10, <3>1
            <3>3. h[i] \in 1 .. h[j] - 1
                BY <1>1, <3>2
            <3>4. QED
                BY <1>14, <2>2, <3>1, <3>3
        <2>3. ~ Carries(z[h[j]][2], f)
            BY <1>11, <1>13, <2>1, <2>2
        <2>4. QED
            BY <1>7, <1>13, <2>3
    <1> DEFINE b == ClosedBy(c, es, n)
    <1>16. \A f \in Fields : f \in b <=> f \in c \/ \E k \in 1 .. n : f \in Ends(es[k])
        BY DEF ClosedBy
    <1>17. b \subseteq Fields
        BY DEF ClosedBy
    <1> HIDE DEF b
    <1>18. b \subseteq d
        BY <1>11, <1>13, <1>14, <1>16, <1>17
    <1>19. ASSUME NEW j \in 1 .. m, NEW f \in Fields
           PROVE  /\ EndsAt(u[j], f) => f \in d
                  /\ u[j][1] = "head" /\ (f \in b \/ \E i \in 1 .. j - 1 : EndsAt(u[i], f)) => ~ Carries(u[j][2], f)
        <2>1. l + j \in 1 .. l + m /\ ~ (l + j <= l) /\ (l + j) - l = j
            BY <1>1
        <2>2. z[l + j] = u[j]
            BY <1>1, <2>1
        <2>3. ASSUME NEW i \in 1 .. j - 1, EndsAt(u[i], f) PROVE \E k \in 1 .. (l + j) - 1 : EndsAt(z[k], f)
            <3>1. l + i \in 1 .. l + m /\ ~ (l + i <= l) /\ (l + i) - l = i /\ l + i \in 1 .. (l + j) - 1
                BY <1>1
            <3>2. z[l + i] = u[i]
                BY <1>1, <3>1
            <3>3. QED
                BY <2>3, <3>1, <3>2
        <2>4. ASSUME NEW k \in 1 .. n, f \in Ends(es[k]) PROVE \E i \in 1 .. (l + j) - 1 : EndsAt(z[i], f)
            <3>1. h[k] \in 1 .. (l + j) - 1
                BY <1>1, <1>13
            <3>2. QED
                BY <1>14, <2>4, <3>1
        <2>5. f \in b => f \in c \/ \E i \in 1 .. (l + j) - 1 : EndsAt(z[i], f)
            BY <1>16, <2>4
        <2>6. QED
            BY <1>11, <2>1, <2>2, <2>3, <2>5
    <1>20. Flow(b, d, u)
        BY <1>18, <1>19 DEF Flow, m
    <1>21. QED
        BY <1>8, <1>15, <1>20 DEF es, b

\* Upstream sends an event that carries nothing for the fields it has finished.
LEMMA FlowSend ==
    ASSUME NEW c, NEW d \in SUBSET Fields, NEW u, NEW e \in Events, NEW t, t \in Seq(Units), Flow(c, d, u),
           \A j \in 1 .. Len(t) : t[j][1] = "head" => j = 1 /\ t[j][2] = e,
           \A f \in d : ~ Carries(e, f)
    PROVE  Flow(c, d \cup Ends(e), u \o t)
    <1> DEFINE l == Len(u)
               m == Len(t)
               z == u \o t
    <1>1. u \in Seq(Units)
        BY DEF Flow
    <1>2. l \in Nat /\ m \in Nat /\ z \in Seq(Units) /\ Len(z) = l + m
          /\ \A i \in 1 .. l + m : z[i] = IF i <= l THEN u[i] ELSE t[i - l]
        BY <1>1, LenProperties, ConcatProperties
    <1>3. c \subseteq d /\ \A j \in 1 .. l : \A f \in Fields :
        /\ EndsAt(u[j], f) => f \in d
        /\ u[j][1] = "head" /\ (f \in c \/ \E i \in 1 .. j - 1 : EndsAt(u[i], f)) => ~ Carries(u[j][2], f)
        BY DEF Flow
    <1> HIDE DEF l, z
    <1>4. \A j \in 1 .. m : t[j][1] = "head" => j = 1 /\ t[j][2] = e
        OBVIOUS
    <1> HIDE DEF m
    <1>5. ASSUME NEW j \in 1 .. l + m, NEW f \in Fields
          PROVE  /\ EndsAt(z[j], f) => f \in d \cup Ends(e)
                 /\ z[j][1] = "head" /\ (f \in c \/ \E i \in 1 .. j - 1 : EndsAt(z[i], f)) => ~ Carries(z[j][2], f)
        <2>1. CASE j <= l
            <3>1. j \in 1 .. l /\ z[j] = u[j]
                BY <1>2, <2>1
            <3>2. ASSUME NEW i \in 1 .. j - 1 PROVE z[i] = u[i]
                BY <1>2, <2>1
            <3>3. QED
                BY <1>3, <3>1, <3>2
        <2>2. CASE ~ (j <= l)
            <3>1. j - l \in 1 .. m /\ z[j] = t[j - l]
                BY <1>2, <2>2
            <3>2. z[j][1] = "head" => j - l = 1 /\ z[j][2] = e
                BY <1>4, <3>1
            <3>3. ASSUME z[j][1] = "head", NEW i \in 1 .. j - 1, EndsAt(z[i], f) PROVE f \in d
                <4>1. i \in 1 .. l /\ i <= l /\ i \in 1 .. l + m
                    BY <1>2, <3>2, <3>3
                <4>2. z[i] = u[i]
                    BY <1>2, <4>1
                <4>3. QED
                    BY <1>3, <3>3, <4>1, <4>2
            <3>4. EndsAt(z[j], f) => f \in Ends(e)
                BY <3>2 DEF EndsAt
            <3>5. QED
                BY <1>3, <3>2, <3>3, <3>4
        <2>3. QED
            BY <2>1, <2>2
    <1>6. QED
        BY <1>2, <1>3, <1>5 DEF Flow, z

\* A frame taken for the last one keeps the closed fields and excuses the open.
LEMMA ForcedFacts ==
    ASSUME stream \in Streams, blocked \in BOOLEAN, NEW s \in Sessions, Templated(s), NEW frame,
           EventsOf(frame) \in Seq(Events), Ordered(s.closed, EventsOf(frame))
    PROVE  LET es == EventsOf(frame)
               r == ForcedFrame(s, frame)
           IN /\ r \in Sessions /\ Templated(r)
              /\ r.closed = ClosedBy(s.closed, es, Len(es)) /\ s.closed \subseteq r.closed
              /\ s.excused \subseteq r.excused /\ \A f \in Fields : f \notin s.closed => f \in r.excused
              /\ \A f \in s.closed : r.given[f] = s.given[f] /\ r.shown[f] = s.shown[f]
              /\ ~ blocked => (Strayless(s) => Strayless(r))
    <1> DEFINE x == [s EXCEPT !.excused = s.excused \cup (Fields \ s.closed)]
               es == EventsOf(frame)
               r == RestoreFrame(x, frame, TRUE)
    <1>1. /\ x \in Sessions /\ x.excused = s.excused \cup (Fields \ s.closed)
          /\ x.pending = s.pending /\ x.tmpl = s.tmpl /\ x.given = s.given /\ x.shown = s.shown
          /\ x.stray = s.stray /\ x.closed = s.closed
        BY DEF Sessions
    <1>2. ForcedFrame(s, frame) = r
        BY DEF ForcedFrame
    <1> HIDE DEF x, es
    <1>3. Templated(x) /\ (Strayless(s) => Strayless(x))
        BY <1>1 DEF Templated, Modelled, Strayless
    <1>4. \A b \in BOOLEAN : /\ Reaches(x, b, RestoreFrame(x, frame, b))
                             /\ RestoreFrame(x, frame, b).closed = ClosedBy(x.closed, es, Len(es))
        BY <1>1, <1>3, FrameFacts DEF es
    <1>5. Reaches(x, TRUE, r) /\ r.closed = ClosedBy(s.closed, es, Len(es))
        BY <1>1, <1>4
    <1> HIDE DEF r
    <1>6. QED
        BY <1>1, <1>2, <1>3, <1>5 DEF Reaches, es

LEMMA FramesEndFacts ==
    ASSUME stream \in Streams, NEW T, NEW t \in Seq(T)
    PROVE  /\ FramesEnd(t) \in 0 .. Len(t)
           /\ \A j \in Delimiters(t) : j + (DelimLen - 1) <= FramesEnd(t)
    <1> DEFINE n == Len(t)
               d == DelimLen - 1
               D == Delimiters(t)
    <1>1. n \in Nat /\ d \in {0, 1}
        BY LenProperties DEF DelimLen
    <1>2. CASE D = {}
        BY <1>1, <1>2 DEF FramesEnd
    <1>3. CASE D # {}
        <2>1. D \in SUBSET Nat /\ \A i \in D : i \in 1 .. n /\ i + d <= n
            <3>1. \A i \in D : i \in 1 .. n /\ i + d <= n
                <4>1. d \in 0 .. DelimLen - 1
                    BY <1>1
                <4>2. QED
                    BY <4>1 DEF Delimiters
            <3>2. QED
                BY <1>1, <3>1
        <2>2. \A i \in D : i <= n
            BY <1>1, <2>1
        <2> HIDE DEF D, n, d
        <2>3. PICK m \in D : \A j \in D : j <= m
            BY <1>1, <1>3, <2>1, <2>2, GreatestElement
        <2>4. m + d \in 1 .. n /\ (m + d) - d \in D /\ \A j \in D : j + d <= m + d
            BY <1>1, <2>1, <2>3
        <2>5. FramesEnd(t) = CHOOSE i \in 1 .. n : i - d \in D /\ \A j \in D : j + d <= i
            BY <1>3 DEF FramesEnd, D, n, d
        <2>6. FramesEnd(t) \in 1 .. n /\ \A j \in D : j + d <= FramesEnd(t)
            BY <2>4, <2>5
        <2>7. QED
            BY <1>1, <2>6 DEF n, D, d
    <1>4. QED
        BY <1>2, <1>3

LEMMA CutAtFacts ==
    ASSUME NEW T, NEW t \in Seq(T)
    PROVE  /\ CutAt(t) \in 1 .. Len(t) + 1
           /\ \A j \in CutAt(t) + 1 .. Len(t) : t[j] # LF
           /\ CutAt(t) = Len(t) + 1 => \A j \in 1 .. Len(t) : t[j] # LF
    <1> DEFINE n == Len(t)
               L == {i \in 1 .. n : t[i] = LF}
               c == CutAt(t)
    <1>1. n \in Nat
        BY LenProperties
    <1>2. CASE L = {}
        <2>1. c = n + 1
            BY <1>2 DEF CutAt
        <2> HIDE DEF c
        <2>2. QED
            BY <1>1, <1>2, <2>1 DEF c
    <1>3. CASE L # {}
        <2>1. c = CHOOSE i \in 1 .. n : t[i] = LF /\ \A j \in i + 1 .. n : t[j] # LF
            BY <1>3 DEF CutAt
        <2> HIDE DEF c, n
        <2>2. L \in SUBSET Nat /\ \A i \in L : i <= n
            BY <1>1
        <2> DEFINE K == L
        <2> HIDE DEF K
        <2>3. PICK m \in K : \A j \in K : j <= m
            BY <1>1, <1>3, <2>2, GreatestElement DEF K
        <2>4. m \in 1 .. n /\ t[m] = LF /\ \A j \in m + 1 .. n : t[j] # LF
            BY <1>1, <2>3 DEF K
        <2>5. c \in 1 .. n /\ t[c] = LF /\ \A j \in c + 1 .. n : t[j] # LF
            BY <2>1, <2>4
        <2>6. c \in 1 .. n + 1 /\ c # n + 1
            BY <1>1, <2>5
        <2>7. QED
            BY <2>5, <2>6 DEF c, n
    <1>4. QED
        BY <1>2, <1>3

\* A sequence cut in two.
LEMMA CutInTwo ==
    ASSUME NEW T, NEW t \in Seq(T), NEW k \in 0 .. Len(t)
    PROVE  /\ SubSeq(t, 1, k) \in Seq(T) /\ SubSeq(t, k + 1, Len(t)) \in Seq(T)
           /\ Len(SubSeq(t, 1, k)) = k /\ Len(SubSeq(t, k + 1, Len(t))) = Len(t) - k
           /\ t = SubSeq(t, 1, k) \o SubSeq(t, k + 1, Len(t))
           /\ \A i \in 1 .. Len(t) - k : SubSeq(t, k + 1, Len(t))[i] = t[k + i]
    <1> DEFINE n == Len(t)
               a == SubSeq(t, 1, k)
               b == SubSeq(t, k + 1, n)
    <1>1. n \in Nat /\ k \in Nat /\ k <= n /\ \A i \in 1 .. n : t[i] \in T
        BY LenProperties, ElementOfSeq
    <1>2. a = [i \in 1 .. k |-> t[i]]
        <2>1. a = [i \in 1 .. 1 + k - 1 |-> t[i + 1 - 1]]
            BY <1>1 DEF n
        <2>2. 1 + k - 1 = k /\ \A i \in 1 .. k : i + 1 - 1 = i
            BY <1>1
        <2>3. QED
            BY <2>1, <2>2
    <1>3. a \in Seq(T) /\ Len(a) = k /\ \A i \in 1 .. k : a[i] = t[i]
        <2> HIDE DEF a, n
        <2>1. a \in [1 .. k -> T]
            BY <1>1, <1>2
        <2>2. QED
            BY <1>1, <1>2, <2>1
    <1>4. b \in Seq(T) /\ Len(b) = n - k /\ \A i \in 1 .. n - k : b[i] = t[k + i]
        BY <1>1
    <1> HIDE DEF a, b
    <1>5. n = Len(a) + Len(b)
        BY <1>1, <1>3, <1>4
    <1>6. \A i \in 1 .. n : t[i] = IF i <= Len(a) THEN a[i] ELSE b[i - Len(a)]
        <2> HIDE DEF n
        <2>1. ASSUME NEW i \in 1 .. n, ~ (i <= k) PROVE i - k \in 1 .. n - k /\ k + (i - k) = i
            BY <1>1, <2>1
        <2>2. ASSUME NEW i \in 1 .. n, i <= k PROVE i \in 1 .. k
            BY <1>1, <2>2
        <2>3. QED
            BY <1>3, <1>4, <2>1, <2>2
    <1>7. t = a \o b
        BY <1>3, <1>4, <1>5, <1>6, JoinIs
    <1>8. QED
        BY <1>3, <1>4, <1>7 DEF a, b, n

\* Going on from a frame to one that is taken for the last.
LEMMA ReachesForced ==
    ASSUME NEW s \in Sessions, NEW m, NEW r, Reaches(s, FALSE, m), r \in Sessions, Templated(r),
           m.closed \subseteq r.closed, m.excused \subseteq r.excused,
           \A f \in Fields : f \notin m.closed => f \in r.excused,
           \A f \in m.closed : r.given[f] = m.given[f] /\ r.shown[f] = m.shown[f],
           ~ blocked => (Strayless(m) => Strayless(r))
    PROVE  Reaches(s, FALSE, r)
    <1>1. s.closed \subseteq r.closed /\ s.excused \subseteq r.excused /\ s.closed \subseteq m.closed
        BY DEF Reaches
    <1>2. \A f \in s.closed : r.given[f] = s.given[f] /\ r.shown[f] = s.shown[f]
        BY DEF Reaches
    <1>3. ~ blocked => (Strayless(s) => Strayless(r))
        BY DEF Reaches
    <1>4. ASSUME ~ blocked, NEW f \in Fields, f \notin s.closed, f \notin r.excused, InStep(s, f)
          PROVE  OpenStep(s, r, f)
        <2>1. f \in m.closed /\ f \notin m.excused /\ f \in r.closed
            BY <1>4
        <2>2. OpenStep(s, m, f)
            BY <1>4, <2>1 DEF Reaches, IsLast
        <2>3. QED
            BY <2>1, <2>2 DEF OpenStep, Grows
    <1>5. QED
        BY <1>1, <1>2, <1>3, <1>4 DEF Reaches

\* What push leaves in the buffer, and the session after it.
Left(text) ==
    LET rest == SubSeq(text, FramesEnd(text) + 1, Len(text))
    IN IF Len(rest) > BufMax THEN SubSeq(rest, CutAt(rest) + 1, Len(rest)) ELSE rest

Pushed(s, text) ==
    LET end == FramesEnd(text)
        framed == RestoreFrame(s, SubSeq(text, 1, end), FALSE)
        rest == SubSeq(text, end + 1, Len(text))
    IN IF Len(rest) > BufMax THEN ForcedFrame(framed, SubSeq(rest, 1, CutAt(rest) - 1)) ELSE framed

\* What is left after a cut.
LEMMA CutLeaves ==
    ASSUME NEW T, NEW t \in Seq(T), NEW c \in 1 .. Len(t) + 1
    PROVE  LET a == SubSeq(t, 1, c - 1)
               b == SubSeq(t, c + 1, Len(t))
           IN /\ a \in Seq(T) /\ b \in Seq(T)
              /\ \E x \in Seq(T) : t = a \o x /\ Within(b, x)
              /\ Len(b) = IF c = Len(t) + 1 THEN 0 ELSE Len(t) - c
              /\ \A i \in 1 .. Len(b) : b[i] = t[c + i]
    <1> DEFINE n == Len(t)
               a == SubSeq(t, 1, c - 1)
               b == SubSeq(t, c + 1, n)
               x == SubSeq(t, c, n)
    <1>1. n \in Nat
        BY LenProperties
    <1>2. c - 1 \in 0 .. n /\ (c - 1) + 1 = c
        BY <1>1
    <1>3. a \in Seq(T) /\ x \in Seq(T) /\ Len(x) = n - (c - 1) /\ t = a \o x
          /\ \A i \in 1 .. n - (c - 1) : x[i] = t[(c - 1) + i]
        BY <1>1, <1>2, CutInTwo, ZenonT(30)
    <1>4. CASE c = n + 1
        <2>1. b = <<>>
            BY <1>1, <1>4
        <2>2. b \in Seq(T) /\ Len(b) = 0
            BY <2>1, EmptySeq
        <2> HIDE DEF a, b, x
        <2>3. 1 .. Len(b) = {}
            BY <2>2
        <2>4. Within(b, x)
            <3> DEFINE h == [i \in 1 .. Len(b) |-> 1]
            <3>1. Embeds(h, b, x)
                BY <2>3 DEF Embeds
            <3>2. QED
                BY <3>1 DEF Within
        <2>5. QED
            BY <1>3, <1>4, <2>2, <2>3, <2>4 DEF a, b, x, n
    <1>5. CASE c # n + 1
        <2>1. c \in 0 .. n
            BY <1>1, <1>5
        <2>2. b \in Seq(T) /\ Len(b) = n - c /\ \A i \in 1 .. n - c : b[i] = t[c + i]
            BY <2>1, CutInTwo
        <2> HIDE DEF a, b, x
        <2>3. Within(b, x)
            <3> DEFINE h == [i \in 1 .. n - c |-> i + 1]
                       l == Len(x)
            <3>1. l = n - (c - 1)
                BY <1>3
            <3> HIDE DEF l, n
            <3>2. h \in [1 .. n - c -> 1 .. l] /\ \A i \in 1 .. n - c : h[i] = i + 1
                BY <1>1, <2>1, <3>1
            <3> HIDE DEF h
            <3>3. ASSUME NEW i \in 1 .. n - c PROVE b[i] = x[h[i]]
                <4>1. i + 1 \in 1 .. n - (c - 1) /\ (c - 1) + (i + 1) = c + i
                    BY <1>1, <2>1
                <4>2. x[i + 1] = t[(c - 1) + (i + 1)]
                    BY <1>3, <4>1
                <4>3. QED
                    BY <2>2, <3>2, <4>1, <4>2
            <3>4. \A i, j \in 1 .. n - c : i < j => h[i] < h[j]
                BY <1>1, <2>1, <3>2
            <3>5. Embeds(h, b, x)
                BY <2>2, <3>2, <3>3, <3>4 DEF Embeds, l
            <3>6. QED
                BY <3>5 DEF Within
        <2>4. QED
            BY <1>3, <1>5, <2>2, <2>3 DEF a, b, x, n
    <1>6. QED
        BY <1>4, <1>5

LEMMA PushFacts ==
    ASSUME stream \in Streams, blocked \in BOOLEAN, NEW s \in Sessions, Templated(s), NEW d,
           NEW text, NEW k, text \in Seq(Units), k \in Seq(Units), Flow(s.closed, d, text \o k)
    PROVE  /\ Reaches(s, FALSE, Pushed(s, text))
           /\ Left(text) \in Seq(Units)
           /\ Flow(Pushed(s, text).closed, d, Left(text) \o k)
    <1> DEFINE end == FramesEnd(text)
               frame == SubSeq(text, 1, end)
               rest == SubSeq(text, end + 1, Len(text))
               es == EventsOf(frame)
               m == RestoreFrame(s, frame, FALSE)
               cut == CutAt(rest)
               last == SubSeq(rest, 1, cut - 1)
               r == ForcedFrame(m, last)
               left == SubSeq(rest, cut + 1, Len(rest))
    <1>1. Pushed(s, text) = (IF Len(rest) > BufMax THEN r ELSE m) /\ Left(text) = (IF Len(rest) > BufMax THEN left ELSE rest)
        BY DEF Pushed, Left
    <1>2. end \in 0 .. Len(text)
        BY FramesEndFacts
    <1> HIDE DEF end
    <1>3. frame \in Seq(Units) /\ rest \in Seq(Units) /\ text = frame \o rest
        BY <1>2, CutInTwo
    <1> HIDE DEF frame, rest
    <1>4. text \o k = frame \o (rest \o k) /\ rest \o k \in Seq(Units)
        <2>1. Associates(frame, rest, k)
            BY <1>3, Regroup
        <2>2. rest \o k \in Seq(Units)
            BY <1>3, ConcatProperties
        <2>3. QED
            BY <1>3, <2>1, <2>2 DEF Associates
    <1>5. s.closed \in SUBSET Fields
        BY SessionFacts
    <1>6. es \in Seq(Events) /\ Ordered(s.closed, es) /\ Flow(ClosedBy(s.closed, es, Len(es)), d, rest \o k)
        BY <1>3, <1>4, <1>5, FlowConsume
    <1>7. \A b \in BOOLEAN : /\ Reaches(s, b, RestoreFrame(s, frame, b))
                             /\ RestoreFrame(s, frame, b).closed = ClosedBy(s.closed, es, Len(es))
        BY <1>6, FrameFacts
    <1>8. Reaches(s, FALSE, m) /\ m.closed = ClosedBy(s.closed, es, Len(es))
        BY <1>7
    <1> HIDE DEF m, es
    <1>9. m \in Sessions /\ Templated(m) /\ m.closed \in SUBSET Fields /\ Flow(m.closed, d, rest \o k)
        BY <1>6, <1>8, SessionFacts DEF Reaches
    <1>10. CASE ~ (Len(rest) > BufMax)
        BY <1>1, <1>3, <1>8, <1>9, <1>10
    <1>11. CASE Len(rest) > BufMax
        <2>1. cut \in 1 .. Len(rest) + 1
            BY <1>3, CutAtFacts
        <2> HIDE DEF cut
        <2>2. last \in Seq(Units) /\ left \in Seq(Units) /\ \E x \in Seq(Units) : rest = last \o x /\ Within(left, x)
            BY <1>3, <2>1, CutLeaves
        <2> HIDE DEF last, left
        <2>3. PICK x \in Seq(Units) : rest = last \o x /\ Within(left, x)
            BY <2>2
        <2> DEFINE ls == EventsOf(last)
        <2>4. rest \o k = last \o (x \o k) /\ x \o k \in Seq(Units)
            <3>1. Associates(last, x, k)
                BY <2>2, Regroup
            <3>2. x \o k \in Seq(Units)
                BY ConcatProperties
            <3>3. QED
                BY <2>3, <3>1, <3>2 DEF Associates
        <2>5. ls \in Seq(Events) /\ Ordered(m.closed, ls) /\ Flow(ClosedBy(m.closed, ls, Len(ls)), d, x \o k)
            BY <1>9, <2>2, <2>4, FlowConsume
        <2>6. /\ r \in Sessions /\ Templated(r)
              /\ r.closed = ClosedBy(m.closed, ls, Len(ls)) /\ m.closed \subseteq r.closed
              /\ m.excused \subseteq r.excused /\ \A f \in Fields : f \notin m.closed => f \in r.excused
              /\ \A f \in m.closed : r.given[f] = m.given[f] /\ r.shown[f] = m.shown[f]
              /\ ~ blocked => (Strayless(m) => Strayless(r))
            BY <1>9, <2>5, ForcedFacts
        <2> HIDE DEF r, ls
        <2>7. Reaches(s, FALSE, r)
            BY <1>8, <2>6, ReachesForced
        <2>8. left \o k \in Seq(Units) /\ Within(left \o k, x \o k)
            BY <2>2, <2>3, WithinSelf, WithinJoin, ConcatProperties
        <2>9. Flow(r.closed, d, left \o k)
            BY <2>5, <2>6, <2>8, FlowWithin
        <2>10. QED
            BY <1>1, <1>11, <2>2, <2>7, <2>9
    <1>12. QED
        BY <1>10, <1>11

\* The session after the end of the stream, whose last frame this is.
LastFrame(s, frame) ==
    IF Len(EventsOf(frame)) > 1 THEN ForcedFrame(s, frame) ELSE RestoreFrame(s, frame, TRUE)

Finished(s, frame) == [FlushPending(LastFrame(s, frame), Channels) EXCEPT !.closed = Fields]

LEMMA LastFrameFacts ==
    ASSUME stream \in Streams, blocked \in BOOLEAN, NEW s \in Sessions, Templated(s), NEW d,
           NEW frame, frame \in Seq(Units), Flow(s.closed, d, frame)
    PROVE  LET l == LastFrame(s, frame)
           IN /\ l \in Sessions /\ Templated(l) /\ s.closed \subseteq l.closed /\ s.excused \subseteq l.excused
              /\ \A f \in s.closed : l.given[f] = s.given[f] /\ l.shown[f] = s.shown[f]
              /\ ~ blocked =>
                    /\ Strayless(s) => Strayless(l)
                    /\ \A f \in Fields : f \notin s.closed /\ f \notin l.excused /\ InStep(s, f) =>
                            /\ Grows(s, l, f)
                            /\ f \in l.closed => l.shown[f] = Restored(f, l.given[f])
                            /\ f \notin l.closed => Whole(l, f)
    <1> DEFINE l == LastFrame(s, frame)
               es == EventsOf(frame)
               r == RestoreFrame(s, frame, TRUE)
               none == <<>>
    <1>1. none \in Seq(Units) /\ frame \o none = frame
        BY EmptySeq, ConcatEmptySeq
    <1> HIDE DEF none
    <1>2. s.closed \in SUBSET Fields
        BY SessionFacts
    <1>3. es \in Seq(Events) /\ Ordered(s.closed, es) /\ Len(es) \in Nat
        <2>1. Flow(s.closed, d, frame \o none)
            BY <1>1
        <2>2. es \in Seq(Events) /\ Ordered(s.closed, es)
            BY <1>1, <1>2, <2>1, FlowConsume
        <2>3. QED
            BY <2>2, LenProperties
    <1>4. CASE Len(es) > 1
        <2>1. l = ForcedFrame(s, frame)
            BY <1>4 DEF LastFrame
        <2> HIDE DEF l
        <2>2. /\ l \in Sessions /\ Templated(l) /\ s.closed \subseteq l.closed
              /\ s.excused \subseteq l.excused /\ \A f \in Fields : f \notin s.closed => f \in l.excused
              /\ \A f \in s.closed : l.given[f] = s.given[f] /\ l.shown[f] = s.shown[f]
              /\ ~ blocked => (Strayless(s) => Strayless(l))
            BY <1>3, <2>1, ForcedFacts
        <2>3. QED
            BY <2>2 DEF l
    <1>5. CASE ~ (Len(es) > 1)
        <2>1. l = r
            BY <1>5 DEF LastFrame
        <2>2. \A b \in BOOLEAN :
                LET x == RestoreFrame(s, frame, b)
                IN Reaches(s, b, x) /\ (Len(es) = 0 => x = s) /\ (Len(es) = 1 => EventStep(s, es[1], b, x))
            BY <1>3, FrameFacts
        <2>3. Reaches(s, TRUE, r) /\ (Len(es) = 0 => r = s) /\ (Len(es) = 1 => EventStep(s, es[1], TRUE, r))
            BY <2>2
        <2> HIDE DEF l, r
        <2>4. ASSUME ~ blocked, NEW f \in Fields, f \notin s.closed, f \notin r.excused, InStep(s, f)
              PROVE  /\ Grows(s, r, f)
                     /\ f \in r.closed => r.shown[f] = Restored(f, r.given[f])
                     /\ f \notin r.closed => Whole(r, f)
            <3>1. CASE Len(es) = 0
                <4>1. r = s /\ s.given[f] \in Seq(Pieces) /\ s.shown[f] \in Seq(Glyphs)
                    BY <2>3, <3>1, SessionFacts
                <4>2. Grows(s, s, f)
                    BY <4>1, ExtendsSelf DEF Grows
                <4>3. QED
                    BY <2>4, <4>1, <4>2, InStepWhole
            <3>2. CASE Len(es) = 1
                <4>1. EventStep(s, es[1], TRUE, r)
                    BY <2>3, <3>2
                <4>2. FieldStep(s, es[1], TRUE, r, f)
                    BY <2>4, <4>1 DEF EventStep
                <4>3. r.closed = s.closed \cup Ends(es[1])
                    BY <4>1 DEF EventStep
                <4>4. QED
                    BY <2>4, <4>2, <4>3 DEF FieldStep
            <3>3. Len(es) = 0 \/ Len(es) = 1
                <4> DEFINE n == Len(es)
                <4> HIDE DEF n
                <4>1. n \in Nat /\ ~ (n > 1)
                    BY <1>3, <1>5 DEF n
                <4>2. n = 0 \/ n = 1
                    BY <4>1
                <4>3. QED
                    BY <4>2 DEF n
            <3>4. QED
                BY <3>1, <3>2, <3>3
        <2>5. QED
            BY <2>1, <2>3, <2>4 DEF Reaches, l
    <1>6. QED
        BY <1>4, <1>5

LEMMA FinishFacts ==
    ASSUME stream \in Streams, blocked \in BOOLEAN, NEW s \in Sessions, Templated(s), NEW d,
           NEW frame, frame \in Seq(Units), Flow(s.closed, d, frame)
    PROVE  LET r == Finished(s, frame)
           IN /\ r \in Sessions /\ Templated(r) /\ r.closed = Fields /\ s.excused \subseteq r.excused
              /\ \A f \in s.closed : r.given[f] = s.given[f] /\ r.shown[f] = s.shown[f]
              /\ ~ blocked =>
                    /\ Strayless(s) => Strayless(r)
                    /\ \A f \in Fields : f \notin s.closed /\ f \notin r.excused /\ InStep(s, f) =>
                            Grows(s, r, f) /\ r.shown[f] = Restored(f, r.given[f])
    <1> DEFINE l == LastFrame(s, frame)
               w == FlushPending(l, Channels)
               r == [w EXCEPT !.closed = Fields]
    <1>1. Finished(s, frame) = r
        BY DEF Finished
    <1>2. /\ l \in Sessions /\ Templated(l) /\ s.closed \subseteq l.closed /\ s.excused \subseteq l.excused
          /\ \A f \in s.closed : l.given[f] = s.given[f] /\ l.shown[f] = s.shown[f]
          /\ ~ blocked =>
                    /\ Strayless(s) => Strayless(l)
                    /\ \A f \in Fields : f \notin s.closed /\ f \notin l.excused /\ InStep(s, f) =>
                            /\ Grows(s, l, f)
                            /\ f \in l.closed => l.shown[f] = Restored(f, l.given[f])
                            /\ f \notin l.closed => Whole(l, f)
        BY LastFrameFacts
    <1> HIDE DEF l
    <1>3. s.closed \in SUBSET Fields
        BY SessionFacts
    <1>4. /\ w \in Sessions /\ w.given = l.given /\ w.closed = l.closed /\ w.excused = l.excused
          /\ \A ch \in Channels : Modelled(l, ch) => Modelled(w, ch)
          /\ blocked => w.shown = l.shown
        BY <1>2, FlushFacts
    <1>5. ASSUME ~ blocked
          PROVE  /\ w.stray = l.stray
                 /\ \A f \in Fields : w.shown[f] =
                        IF f \notin l.closed /\ TextSlot(f) \in Channels /\ TextSlot(f) \in l.tmpl /\ l.pending[TextSlot(f)] # <<>>
                        THEN l.shown[f] \o Restored(f, l.pending[TextSlot(f)])
                        ELSE l.shown[f]
        <2>1. {ch \in Channels : l.pending[ch] # <<>>} \subseteq l.tmpl
            BY <1>2 DEF Templated, Modelled
        <2>2. QED
            BY <1>2, <1>5, <2>1, FlushFacts
    <1> HIDE DEF w
    <1>6. /\ r \in Sessions /\ r.closed = Fields /\ r.pending = w.pending /\ r.tmpl = w.tmpl /\ r.given = w.given
          /\ r.shown = w.shown /\ r.stray = w.stray /\ r.excused = w.excused
        BY <1>4 DEF Sessions
    <1> HIDE DEF r
    <1>7. Templated(r)
        BY <1>2, <1>4, <1>6 DEF Templated, Modelled
    <1>8. \A f \in s.closed : r.given[f] = s.given[f] /\ r.shown[f] = s.shown[f]
        <2>1. \A f \in s.closed : w.shown[f] = l.shown[f]
            BY <1>2, <1>3, <1>4, <1>5
        <2>2. QED
            BY <1>2, <1>4, <1>6, <2>1
    <1>9. ~ blocked /\ Strayless(s) => Strayless(r)
        BY <1>2, <1>4, <1>5, <1>6 DEF Strayless
    <1>10. ASSUME ~ blocked, NEW f \in Fields, f \notin s.closed, f \notin r.excused, InStep(s, f)
           PROVE  Grows(s, r, f) /\ r.shown[f] = Restored(f, r.given[f])
        <2>1. /\ Grows(s, l, f)
              /\ f \in l.closed => l.shown[f] = Restored(f, l.given[f])
              /\ f \notin l.closed => Whole(l, f)
            BY <1>2, <1>4, <1>6, <1>10
        <2>2. r.given[f] = l.given[f]
            BY <1>4, <1>6
        <2>3. CASE f \in l.closed
            <3>1. r.shown[f] = l.shown[f]
                BY <1>5, <1>6, <1>10, <2>3
            <3>2. QED
                BY <2>1, <2>2, <2>3, <3>1 DEF Grows
        <2>4. CASE f \notin l.closed
            <3> DEFINE p == l.pending[TextSlot(f)]
                       sh == l.shown[f]
            <3>1. TextSlot(f) \in Channels /\ p \in Halves /\ p \in Seq(Pieces) /\ sh \in Seq(Glyphs)
                  /\ (p # <<>> => TextSlot(f) \in l.tmpl)
                BY <1>2, SessionFacts, FieldFacts, HalfFacts DEF Templated, Modelled
            <3>2. r.shown[f] = sh \o Restored(f, p)
                <4>1. r.shown[f] = IF p # <<>> THEN sh \o Restored(f, p) ELSE sh
                    BY <1>5, <1>6, <1>10, <2>4, <3>1
                <4> HIDE DEF sh, p
                <4>2. sh \o <<>> = sh /\ Restored(f, <<>>) = <<>>
                    BY <3>1, ConcatEmptySeq, RestoreNone DEF Restored
                <4>3. QED
                    BY <4>1, <4>2
            <3>3. Restored(f, p) \in Seq(Glyphs)
                BY <3>1, RestoreType DEF Restored
            <3>4. Promise!Extends(sh \o Restored(f, p), sh)
                BY <3>1, <3>3, ExtendsJoin
            <3>5. s.shown[f] \in Seq(Glyphs) /\ r.shown[f] \in Seq(Glyphs)
                BY <1>6, SessionFacts
            <3>6. Promise!Extends(r.shown[f], s.shown[f])
                <4>1. Promise!Extends(r.shown[f], sh) /\ Promise!Extends(sh, s.shown[f])
                    BY <2>1, <3>2, <3>4 DEF Grows
                <4>2. QED
                    BY <3>1, <3>5, <4>1, ExtendsOn
            <3>7. QED
                BY <2>1, <2>2, <2>4, <3>2, <3>6 DEF Grows, Whole
        <2>5. QED
            BY <2>3, <2>4
    <1>11. QED
        BY <1>1, <1>2, <1>4, <1>6, <1>7, <1>8, <1>9, <1>10

-----------------------------------------------------------------------------
(* The inductive invariant.                                                *)

Inv ==
    /\ stream \in Streams /\ blocked \in BOOLEAN /\ ended \in BOOLEAN
    /\ sent \in [Fields -> Nat] /\ \A f \in Fields : sent[f] <= Len(stream.script[f])
    /\ events \in 0 .. MaxEvents /\ stopped \in SUBSET Fields
    /\ State \in Sessions /\ Templated(State) /\ Strayless(State)
    /\ blocked => excused = Fields
    /\ buf \in Seq(Units) /\ utf8Tail \in Seq(Units) /\ wire \in Seq(Units)
    /\ ~ ended => Flow(closed, stopped, buf \o (utf8Tail \o wire))
    /\ ~ ended => \A f \in Fields : f \notin closed /\ f \notin excused => InStep(State, f)

LEMMA StateFacts ==
    /\ State.pending = pending /\ State.tmpl = tmpl /\ State.given = given /\ State.shown = shown
    /\ State.stray = stray /\ State.closed = closed /\ State.excused = excused
    BY DEF State

LEMMA InitInv == Init => Inv
    <1> SUFFICES ASSUME Init PROVE Inv
        OBVIOUS
    <1>1. stream \in Streams /\ blocked = FALSE /\ ended = FALSE /\ events = 0 /\ stopped = {}
        BY DEF Init
    <1>2. sent \in [Fields -> Nat] /\ \A f \in Fields : sent[f] <= Len(stream.script[f])
        <2>1. \A f \in Fields : Len(stream.script[f]) \in Nat
            BY <1>1, ScriptAssumption, LenProperties DEF Fields
        <2>2. sent = [f \in Fields |-> 0]
            BY DEF Init
        <2>3. QED
            BY <2>1, <2>2
    <1> DEFINE none == <<>>
    <1>3. none \in Seq(Units) /\ none \in Seq(Pieces) /\ none \in Seq(Glyphs) /\ none \in Halves /\ Len(none) = 0
        BY EmptySeq DEF Halves
    <1>4. /\ State.pending = [ch \in Channels |-> none] /\ State.tmpl = {} /\ State.given = [f \in Fields |-> none]
          /\ State.shown = [f \in Fields |-> none] /\ State.stray = {} /\ State.closed = {} /\ State.excused = {}
          /\ buf = none /\ utf8Tail = none /\ wire = none
        BY DEF Init, State
    <1>5. State \in Sessions
        <2>1. State = [pending |-> pending, tmpl |-> tmpl, given |-> given, shown |-> shown,
                       stray |-> stray, closed |-> closed, excused |-> excused]
            BY DEF State
        <2> HIDE DEF none
        <2>2. pending \in [Channels -> Halves] /\ given \in [Fields -> Seq(Pieces)] /\ shown \in [Fields -> Seq(Glyphs)]
            BY <1>3, <1>4, StateFacts
        <2>3. tmpl = {} /\ stray = {} /\ closed = {} /\ excused = {}
            BY DEF Init
        <2>4. QED
            BY <2>1, <2>2, <2>3 DEF Sessions
    <1>6. Templated(State) /\ Strayless(State)
        BY <1>4 DEF Templated, Modelled, Strayless
    <1>7. Flow({}, {}, none)
        BY <1>3 DEF Flow
    <1>8. none \o (none \o none) = none
        BY ConcatEmptySeq
    <1>9. \A f \in Fields : InStep(State, f)
        <2>1. ASSUME NEW f \in Fields PROVE Reads(f, none, none, none)
            <3>1. Restored(f, none) = none
                BY RestoreNone DEF Restored
            <3>2. ~ EndsHalf(none)
                BY DEF EndsHalf, At
            <3>3. none = none \o none
                BY ConcatEmptySeq
            <3> HIDE DEF none
            <3>4. QED
                BY <1>3, <3>1, <3>2, <3>3 DEF Reads
        <2> HIDE DEF none
        <2>2. \A f \in Fields : State.given[f] = none /\ State.shown[f] = none /\ State.pending[TextSlot(f)] = none
            BY <1>1, <1>4, FieldFacts
        <2>3. QED
            BY <2>1, <2>2 DEF InStep
    <1>10. closed = {} /\ stopped = {}
        BY DEF Init
    <1> HIDE DEF none
    <1>11. Flow(closed, stopped, buf \o (utf8Tail \o wire))
        BY <1>4, <1>7, <1>8, <1>10
    <1>12. events \in 0 .. MaxEvents
        BY <1>1, StreamAssumption
    <1>13. QED
        BY <1>1, <1>2, <1>3, <1>4, <1>5, <1>6, <1>9, <1>11, <1>12 DEF Inv

\* A step keeps the stream, and with it the fields and what is made of them.
LEMMA SameStream ==
    ASSUME stream' = stream
    PROVE  /\ Fields' = Fields /\ Channels' = Channels /\ Sessions' = Sessions /\ Events' = Events /\ Units' = Units
           /\ \A e : Ends(e)' = Ends(e)
    <1>1. Fields' = Fields
        BY DEF Fields
    <1>2. Channels' = Channels
        BY <1>1 DEF Channels
    <1>3. Sessions' = Sessions
        BY <1>1, <1>2 DEF Sessions
    <1>4. Events' = Events
        BY <1>1 DEF Events
    <1>5. Units' = Units
        BY <1>4 DEF Units
    <1>6. \A e : TerminalPrefixes(e)' = TerminalPrefixes(e)
        BY <1>2 DEF TerminalPrefixes
    <1>7. \A e : Ends(e)' = Ends(e)
        BY <1>1, <1>6 DEF Ends
    <1>8. QED
        BY <1>1, <1>2, <1>3, <1>4, <1>5, <1>7

\* A step keeps the stream, and with it what a flow is.
LEMMA FlowPrimed ==
    ASSUME stream' = stream, NEW CONSTANT c, NEW CONSTANT d, NEW CONSTANT u, Flow(c, d, u)
    PROVE  Flow(c, d, u)'
    <1>1. u \in Seq(Units) /\ c \subseteq d
          /\ \A j \in 1 .. Len(u) : \A f \in Fields :
                /\ EndsAt(u[j], f) => f \in d
                /\ u[j][1] = "head" /\ (f \in c \/ \E i \in 1 .. j - 1 : EndsAt(u[i], f)) => ~ Carries(u[j][2], f)
        BY DEF Flow
    <1>2. \A x, f : EndsAt(x, f)' <=> EndsAt(x, f)
        BY SameStream DEF EndsAt
    <1>3. \A j \in 1 .. Len(u) : \A f \in Fields :
                /\ EndsAt(u[j], f)' => f \in d
                /\ u[j][1] = "head" /\ (f \in c \/ \E i \in 1 .. j - 1 : EndsAt(u[i], f)') => ~ Carries(u[j][2], f)
        BY <1>1, <1>2
    <1>4. u \in Seq(Units') /\ Fields' = Fields
        BY <1>1, SameStream
    <1>5. QED
        BY <1>1, <1>3, <1>4 DEF Flow

LEMMA TemplatedPrimed ==
    ASSUME stream' = stream, NEW CONSTANT s, Templated(s)
    PROVE  Templated(s)'
    BY SameStream DEF Templated

\* What upstream may send: the next pieces of fields it has not finished.
Sends(kind, of, take, fs) ==
    /\ kind \in Kinds /\ of \in Fields /\ take \in Takes /\ fs \in SUBSET Fields
    /\ kind = "done" => fs = {}
    /\ Emit(kind, of, take, fs)

LEMMA SendStep ==
    ASSUME Inv, NEW kind, NEW of, NEW take, NEW fs, Sends(kind, of, take, fs)
    PROVE  /\ Inv' /\ UNCHANGED <<given, shown, closed, excused>>
           /\ ~ ended /\ UNCHANGED <<stream, utf8Tail, buf, ended>>
           /\ \E x \in Events : wire' = wire \o Encode(x)
    <1> DEFINE texts == [f \in fs |-> SubSeq(stream.script[f], sent[f] + 1, sent[f] + take[f])]
               e == [kind |-> kind, of |-> of, texts |-> texts]
    <1>1. /\ kind \in Kinds /\ of \in Fields /\ take \in Takes /\ fs \in SUBSET Fields
          /\ kind = "done" => fs = {}
        BY DEF Sends
    <1>2. /\ ~ ended /\ events < MaxEvents /\ events' = events + 1
          /\ wire' = wire \o Encode(e)
          /\ sent' = [f \in Fields |-> sent[f] + take[f]]
          /\ stopped' = stopped \cup Ends(e)
          /\ UNCHANGED <<stream, received, session, client, blocked, ended>>
        BY DEF Sends, Emit, Ends
    <1>3. /\ stream' = stream /\ utf8Tail' = utf8Tail /\ buf' = buf /\ pending' = pending /\ tmpl' = tmpl
          /\ given' = given /\ shown' = shown /\ stray' = stray /\ closed' = closed /\ excused' = excused
          /\ blocked' = blocked /\ ended' = ended
        BY <1>2 DEF received, session, client
    <1>4. State' = State
        BY <1>3 DEF State
    <1>5. /\ stream \in Streams /\ blocked \in BOOLEAN /\ ended \in BOOLEAN
          /\ sent \in [Fields -> Nat] /\ \A f \in Fields : sent[f] <= Len(stream.script[f])
          /\ events \in 0 .. MaxEvents /\ stopped \in SUBSET Fields
          /\ State \in Sessions /\ Templated(State) /\ Strayless(State)
          /\ blocked => excused = Fields
          /\ buf \in Seq(Units) /\ utf8Tail \in Seq(Units) /\ wire \in Seq(Units)
          /\ Flow(closed, stopped, buf \o (utf8Tail \o wire))
          /\ \A f \in Fields : f \notin closed /\ f \notin excused => InStep(State, f)
        BY <1>2 DEF Inv
    <1>6. \A f \in Fields : stream.script[f] \in Seq(Pieces) /\ Len(stream.script[f]) \in Nat
        BY <1>5, ScriptAssumption, LenProperties DEF Fields
    <1>7. \A f \in Fields : /\ take[f] \in Nat /\ take[f] <= Len(stream.script[f]) - sent[f]
                            /\ f \in stopped => take[f] = 0
        <2>1. \A f \in Fields : Remaining(f) \in Nat /\ Remaining(f) = Len(stream.script[f]) - sent[f]
            BY <1>5, <1>6, SMTT(30) DEF Remaining
        <2>2. take \in [Fields -> UNION {0 .. Remaining(f) : f \in Fields}]
              /\ \A f \in Fields : take[f] <= Remaining(f) /\ (f \in stopped => take[f] = 0)
            BY <1>1 DEF Takes
        <2>3. \A f \in Fields : take[f] \in Nat
            <3>1. SUFFICES ASSUME NEW f \in Fields PROVE take[f] \in Nat
                OBVIOUS
            <3>2. PICK g \in Fields : take[f] \in 0 .. Remaining(g)
                BY <2>2
            <3>3. QED
                BY <2>1, <3>2
        <2>4. QED
            BY <2>1, <2>2, <2>3
    <1>8. sent' \in [Fields' -> Nat] /\ \A f \in Fields' : sent'[f] <= Len(stream'.script[f])
        <2>1. \A f \in Fields : sent[f] + take[f] \in Nat /\ sent[f] + take[f] <= Len(stream.script[f])
            BY <1>5, <1>6, <1>7
        <2>2. QED
            BY <1>2, <1>3, <2>1, SameStream
    <1>9. ASSUME NEW f \in fs
          PROVE  texts[f] \in Seq(Pieces) /\ (f \in stopped => texts[f] = <<>>)
        <2> DEFINE q == stream.script[f]
                   a == sent[f]
                   b == take[f]
        <2>1. q \in Seq(Pieces) /\ a \in Nat /\ b \in Nat /\ a + b <= Len(q) /\ Len(q) \in Nat /\ (f \in stopped => b = 0)
            BY <1>1, <1>5, <1>6, <1>7
        <2>2. texts[f] = SubSeq(q, a + 1, a + b)
            OBVIOUS
        <2> HIDE DEF q, a, b
        <2>3. \A i \in a + 1 .. a + b : i \in 1 .. Len(q)
            BY <2>1
        <2>4. SubSeq(q, a + 1, a + b) \in Seq(Pieces) /\ Len(SubSeq(q, a + 1, a + b)) = b
            BY <2>1, <2>3, SubSeqProperties
        <2>5. b = 0 => SubSeq(q, a + 1, a + b) = <<>>
            BY <2>4, EmptySeq
        <2>6. QED
            BY <2>1, <2>2, <2>4, <2>5
    <1>10. /\ e.kind = kind /\ e.of = of /\ e.texts = texts /\ DOMAIN texts = fs
        OBVIOUS
    <1>11. e \in Events
        <2>1. texts \in [fs -> Seq(Pieces)]
            BY <1>9
        <2> HIDE DEF texts
        <2>2. e \in [kind : Kinds, of : Fields, texts : UNION {[F -> Seq(Pieces)] : F \in SUBSET Fields}]
            BY <1>1, <2>1
        <2>3. QED
            BY <1>1, <1>10, <2>2 DEF Events
    <1>12. \A f \in stopped : ~ Carries(e, f)
        BY <1>9, <1>10 DEF Carries
    <1> HIDE DEF e, texts
    <1> DEFINE t == Encode(e)
    <1>13. t \in Seq(Units) /\ \A j \in 1 .. Len(t) : t[j][1] = "head" => j = 1 /\ t[j][2] = e
        <2> DEFINE h == <<<<"head", e>>, <<"rest", e>>>>
                   q == IF stream.framing = "sse" THEN LineEnd \o LineEnd ELSE LineEnd
        <2>1. t = h \o q
            BY DEF Encode
        <2>2. LF \in Units /\ CR \in Units /\ <<"head", e>> \in Units /\ <<"rest", e>> \in Units
            BY <1>11 DEF Units
        <2>3. LF[1] # "head" /\ CR[1] # "head"
            BY UnitFacts
        <2>4. LineEnd \in Seq({LF, CR})
            <3>1. \A x, y : <<x, y>> \in Seq({y, x}) /\ <<y>> \in Seq({y, x})
                OBVIOUS
            <3>2. <<CR, LF>> \in Seq({LF, CR}) /\ <<LF>> \in Seq({LF, CR})
                BY <3>1
            <3>3. QED
                BY <3>2 DEF LineEnd
        <2>5. LineEnd \o LineEnd \in Seq({LF, CR})
            BY <2>4, ConcatProperties
        <2>6. q \in Seq({LF, CR})
            BY <2>4, <2>5
        <2> HIDE DEF q
        <2>7. Len(q) \in Nat /\ \A i \in 1 .. Len(q) : q[i] \in {LF, CR}
            BY <2>6, LenProperties, ElementOfSeq
        <2>8. h \in Seq(Units) /\ Len(h) = 2 /\ h[1] = <<"head", e>> /\ h[2] = <<"rest", e>>
            BY <2>2
        <2> HIDE DEF h
        <2>9. q \in Seq(Units)
            BY <2>2, <2>6
        <2>10. t \in Seq(Units) /\ Len(t) = 2 + Len(q)
               /\ \A i \in 1 .. 2 + Len(q) : t[i] = IF i <= 2 THEN h[i] ELSE q[i - 2]
            <3> DEFINE hq == h \o q
            <3>1. /\ hq \in Seq(Units) /\ Len(hq) = Len(h) + Len(q)
                  /\ \A i \in 1 .. Len(h) + Len(q) : hq[i] = IF i <= Len(h) THEN h[i] ELSE q[i - Len(h)]
                BY <2>8, <2>9, ConcatProperties
            <3>2. t = hq
                BY <2>1
            <3> HIDE DEF hq, t
            <3>3. QED
                BY <2>8, <3>1, <3>2
        <2> HIDE DEF t
        <2>11. ASSUME NEW j \in 1 .. 2 + Len(q), t[j][1] = "head" PROVE j = 1 /\ t[j][2] = e
            <3>1. CASE j > 2
                <4>1. j - 2 \in 1 .. Len(q) /\ ~ (j <= 2)
                    BY <2>7, <3>1
                <4>2. t[j] \in {LF, CR}
                    BY <2>7, <2>10, <4>1
                <4>3. QED
                    BY <2>3, <2>11, <4>2
            <3>2. CASE j = 2
                BY <2>8, <2>10, <2>11, <3>2
            <3>3. CASE j = 1
                BY <2>8, <2>10, <3>3
            <3>4. QED
                BY <2>7, <3>1, <3>2, <3>3
        <2>12. QED
            BY <2>10, <2>11
    <1> HIDE DEF t
    <1>14. wire' = wire \o t /\ wire' \in Seq(Units)
        <2>1. wire \o t \in Seq(Units)
            BY <1>5, <1>13, ConcatProperties
        <2>2. QED
            BY <1>2, <2>1 DEF t
    <1>15. (buf \o (utf8Tail \o wire)) \o t = buf' \o (utf8Tail' \o wire')
        <2>1. utf8Tail \o wire \in Seq(Units)
            BY <1>5, ConcatProperties
        <2>2. Associates(buf, utf8Tail \o wire, t) /\ Associates(utf8Tail, wire, t)
            BY <1>5, <1>13, <2>1, Regroup
        <2>3. QED
            BY <1>3, <1>14, <2>2 DEF Associates
    <1>16. Flow(closed', stopped', buf' \o (utf8Tail' \o wire'))
        <2>1. Flow(closed, stopped \cup Ends(e), (buf \o (utf8Tail \o wire)) \o t)
            BY <1>5, <1>11, <1>12, <1>13, FlowSend
        <2>2. QED
            BY <1>2, <1>3, <1>15, <2>1
    <1>17. Flow(closed, stopped, buf \o (utf8Tail \o wire))'
        BY <1>3, <1>16, FlowPrimed
    <1>18. stopped' \in SUBSET Fields' /\ events' \in 0 .. MaxEvents
        BY <1>2, <1>3, <1>5, StreamAssumption, SameStream DEF Ends
    <1>19. State' \in Sessions' /\ Templated(State)' /\ Strayless(State)'
        <2>1. Templated(State')
            BY <1>4, <1>5
        <2>2. Templated(State)'
            BY <1>3, <2>1, TemplatedPrimed
        <2>3. QED
            BY <1>3, <1>4, <1>5, <2>2, SameStream
    <1>20. \A f \in Fields' : f \notin closed' /\ f \notin excused' => InStep(State, f)'
        BY <1>3, <1>4, <1>5, SameStream
    <1>21. /\ stream' \in Streams /\ blocked' \in BOOLEAN /\ ended' \in BOOLEAN
           /\ blocked' => excused' = Fields'
           /\ buf' \in Seq(Units') /\ utf8Tail' \in Seq(Units') /\ wire' \in Seq(Units')
        BY <1>3, <1>5, <1>14, SameStream
    <1>22. Inv'
        BY <1>8, <1>17, <1>18, <1>19, <1>20, <1>21 DEF Inv
    <1>23. \E x \in Events : wire' = wire \o Encode(x)
        BY <1>2, <1>11
    <1>24. QED
        BY <1>2, <1>3, <1>22, <1>23

\* A session r the events of a chunk, or of the end of a body, may lead to.
Settled(r) ==
    /\ r \in Sessions /\ Templated(r)
    /\ closed \subseteq r.closed /\ excused \subseteq r.excused
    /\ \A f \in closed : r.given[f] = given[f] /\ r.shown[f] = shown[f]
    /\ ~ blocked => /\ Strayless(r)
                    /\ \A f \in Fields : f \notin closed /\ f \notin r.excused => OpenStep(State, r, f)

\* What Install makes of it keeps the invariant's clauses about the session, and
\* is a step of the promise; from the moment the blocker stops the response the
\* client reads nothing and every field is excused.
LEMMA InstallFacts ==
    ASSUME stream \in Streams, blocked \in BOOLEAN, State \in Sessions, Strayless(State),
           blocked => excused = Fields, NEW r, NEW hit \in BOOLEAN, Settled(r), Install(r, hit)
    PROVE  /\ State' \in Sessions /\ Templated(State') /\ Strayless(State')
           /\ blocked' \in BOOLEAN /\ (blocked' => excused' = Fields) /\ closed' = r.closed
           /\ \A f \in Fields : f \notin closed' /\ f \notin excused' => InStep(State', f)
           /\ Promise!Next
    <1>1. /\ pending' = r.pending /\ tmpl' = r.tmpl /\ given' = r.given /\ closed' = r.closed
          /\ blocked' = (blocked \/ hit)
          /\ blocked' => shown' = shown /\ stray' = stray /\ excused' = Fields
          /\ ~ blocked' => shown' = r.shown /\ stray' = r.stray /\ excused' = r.excused
        BY DEF Install
    <1>2. /\ State'.pending = pending' /\ State'.tmpl = tmpl' /\ State'.given = given' /\ State'.shown = shown'
          /\ State'.stray = stray' /\ State'.closed = closed' /\ State'.excused = excused'
        BY DEF State
    <1>3. /\ r \in Sessions /\ Templated(r)
          /\ closed \subseteq r.closed /\ excused \subseteq r.excused
          /\ \A f \in closed : r.given[f] = given[f] /\ r.shown[f] = shown[f]
          /\ ~ blocked => /\ Strayless(r)
                          /\ \A f \in Fields : f \notin closed /\ f \notin r.excused => OpenStep(State, r, f)
        BY DEF Settled
    <1>4. /\ r.pending \in [Channels -> Halves] /\ r.tmpl \in SUBSET Channels
          /\ r.given \in [Fields -> Seq(Pieces)] /\ r.shown \in [Fields -> Seq(Glyphs)]
          /\ r.stray \in SUBSET Seq(Glyphs) /\ r.closed \in SUBSET Fields /\ r.excused \in SUBSET Fields
        BY <1>3, SessionFacts
    <1>5. /\ given \in [Fields -> Seq(Pieces)] /\ shown \in [Fields -> Seq(Glyphs)] /\ stray \in SUBSET Seq(Glyphs)
          /\ closed \in SUBSET Fields /\ excused \in SUBSET Fields
        BY SessionFacts, StateFacts
    <1>6. blocked' \in BOOLEAN /\ (blocked' => excused' = Fields) /\ closed' = r.closed
        BY <1>1
    <1>7. /\ shown' \in [Fields -> Seq(Glyphs)] /\ stray' \in SUBSET Seq(Glyphs) /\ excused' \in SUBSET Fields
        <2>1. CASE blocked'
            BY <1>1, <1>5, <2>1
        <2>2. CASE ~ blocked'
            BY <1>1, <1>4, <2>2
        <2>3. QED
            BY <2>1, <2>2
    <1>8. State' \in Sessions
        <2>1. State' = [pending |-> pending', tmpl |-> tmpl', given |-> given', shown |-> shown',
                        stray |-> stray', closed |-> closed', excused |-> excused']
            BY DEF State
        <2>2. /\ pending' \in [Channels -> Halves] /\ tmpl' \in SUBSET Channels
              /\ given' \in [Fields -> Seq(Pieces)] /\ closed' \in SUBSET Fields
            BY <1>1, <1>4
        <2>3. QED
            BY <1>7, <2>1, <2>2 DEF Sessions
    <1>9. Templated(State')
        BY <1>1, <1>2, <1>3 DEF Templated, Modelled
    <1>10. Strayless(State')
        <2>1. CASE blocked'
            <3>1. excused' # {}
                BY <1>6, <2>1, FieldFacts
            <3>2. QED
                BY <1>2, <3>1 DEF Strayless
        <2>2. CASE ~ blocked'
            <3>1. ~ blocked
                BY <1>1, <2>2
            <3>2. QED
                BY <1>1, <1>2, <1>3, <2>2, <3>1 DEF Strayless
        <2>3. QED
            BY <2>1, <2>2
    <1>11. ASSUME NEW f \in Fields, f \notin excused', f \notin closed
           PROVE  /\ ~ blocked /\ ~ blocked' /\ shown' = r.shown
                  /\ Grows(State, r, f)
                  /\ f \in r.closed => r.shown[f] = Restored(f, r.given[f])
                  /\ f \notin r.closed => InStep(r, f)
        <2>1. ~ blocked'
            BY <1>6, <1>11
        <2>2. ~ blocked /\ shown' = r.shown /\ excused' = r.excused
            BY <1>1, <2>1
        <2>3. OpenStep(State, r, f)
            BY <1>3, <1>11, <2>2
        <2>4. QED
            BY <2>1, <2>2, <2>3 DEF OpenStep
    <1>12. ASSUME NEW f \in Fields, f \notin closed', f \notin excused'
           PROVE  InStep(State', f)
        <2>1. f \notin closed /\ f \notin r.closed
            BY <1>1, <1>3, <1>12
        <2>2. shown' = r.shown /\ InStep(r, f)
            BY <1>11, <1>12, <2>1
        <2>3. QED
            BY <1>1, <1>2, <2>2 DEF InStep
    <1>13. Promise!Next
        <2>1. DOMAIN given = Fields /\ DOMAIN given' = Fields
            BY <1>1, <1>4, <1>5
        <2>2. closed \subseteq closed' /\ excused \subseteq excused'
            <3>1. CASE blocked'
                BY <1>1, <1>3, <1>5, <1>6, <3>1
            <3>2. CASE ~ blocked'
                BY <1>1, <1>3, <3>2
            <3>3. QED
                BY <3>1, <3>2
        <2>3. ASSUME NEW f \in Fields, f \notin excused', f \in closed
              PROVE  Promise!Keep(f)
            <3>1. ~ blocked'
                BY <1>6, <2>3
            <3>2. QED
                BY <1>1, <1>3, <2>3, <3>1 DEF Promise!Keep
        <2>4. ASSUME NEW f \in Fields, f \notin excused', f \notin closed
              PROVE  /\ f \in closed' => Promise!Complete(f)
                     /\ f \notin closed' => Promise!Progress(f)
            <3>1. /\ shown' = r.shown /\ Grows(State, r, f)
                  /\ f \in r.closed => r.shown[f] = Restored(f, r.given[f])
                  /\ f \notin r.closed => InStep(r, f)
                BY <1>11, <2>4
            <3>2. Promise!Extends(given'[f], given[f]) /\ Promise!Extends(shown'[f], shown[f])
                BY <1>1, <3>1, StateFacts DEF Grows
            <3>3. CASE f \in r.closed
                <4>1. r.shown[f] = Restored(f, r.given[f]) /\ r.shown[f] \in Seq(Glyphs)
                    BY <1>4, <3>1, <3>3
                <4>2. Promise!Extends(r.shown[f], r.shown[f])
                    BY <4>1, ExtendsSelf
                <4>3. Promise!Extends(Restored(f, given'[f]), shown'[f]) /\ shown'[f] = Restored(f, given'[f])
                    BY <1>1, <3>1, <4>1, <4>2
                <4>4. QED
                    BY <1>1, <3>2, <3>3, <4>3 DEF Promise!Complete, Promise!Progress
            <3>4. CASE f \notin r.closed
                <4>1. Reads(f, r.given[f], r.shown[f], r.pending[TextSlot(f)])
                    BY <3>1, <3>4 DEF InStep
                <4>2. r.pending[TextSlot(f)] \in Halves
                    BY <1>4, FieldFacts
                <4>3. Promise!Extends(Restored(f, r.given[f]), r.shown[f])
                    BY <4>1, <4>2, ReadsFacts
                <4>4. Promise!Progress(f)
                    BY <1>1, <3>1, <3>2, <4>3 DEF Promise!Progress
                <4>5. QED
                    BY <1>1, <3>4, <4>4
            <3>5. QED
                BY <3>3, <3>4
        <2>5. \A f \in Fields \ excused' : \/ f \in closed /\ Promise!Keep(f)
                                           \/ f \in closed' \ closed /\ Promise!Complete(f)
                                           \/ f \notin closed' /\ Promise!Progress(f)
            BY <2>3, <2>4
        <2>6. QED
            BY <2>1, <2>2, <2>5 DEF Promise!Next, Promise!Fields
    <1>14. QED
        BY <1>6, <1>8, <1>9, <1>10, <1>12, <1>13

\* Decoding a chunk loses nothing: what is not decoded is kept.
LEMMA DecodedFacts ==
    ASSUME NEW bytes, bytes \in Seq(Units)
    PROVE  Decoded(bytes) \in Seq(Units) /\ Kept(bytes) \in Seq(Units) /\ Decoded(bytes) \o Kept(bytes) = bytes
    <1> DEFINE n == Len(bytes)
    <1>1. n \in Nat
        BY LenProperties
    <1>2. CASE ~ Incomplete(bytes)
        <2>1. Decoded(bytes) = bytes /\ Kept(bytes) = <<>>
            BY <1>2 DEF Decoded, Kept
        <2>2. <<>> \in Seq(Units) /\ bytes \o <<>> = bytes
            BY EmptySeq, ConcatEmptySeq
        <2>3. QED
            BY <2>1, <2>2
    <1>3. CASE Incomplete(bytes)
        <2> DEFINE x == SubSeq(bytes, 1, n - 1)
                   y == <<bytes[n]>>
        <2>1. bytes # <<>>
            BY <1>3 DEF Incomplete
        <2>2. n >= 1
            BY <1>1, <2>1, EmptySeq
        <2>3. Decoded(bytes) = x /\ Kept(bytes) = y
            BY <1>3 DEF Decoded, Kept, Front, Last
        <2> HIDE DEF n
        <2>4. n - 1 \in Nat /\ bytes[n] \in Units /\ \A i \in 1 .. n - 1 : i \in 1 .. n
            BY <1>1, <2>2, ElementOfSeq DEF n
        <2>5. x \in Seq(Units) /\ Len(x) = n - 1 /\ \A i \in 1 .. n - 1 : x[i] = bytes[i]
            <3> DEFINE l == n - 1
            <3>1. l \in Int /\ 1 \in Int /\ \A i \in 1 .. l : bytes[i] \in Units
                BY <1>1, <2>4, ElementOfSeq DEF n
            <3> HIDE DEF l
            <3>2. /\ SubSeq(bytes, 1, l) \in Seq(Units)
                  /\ Len(SubSeq(bytes, 1, l)) = (IF 1 <= l THEN l - 1 + 1 ELSE 0)
                  /\ \A i \in 1 .. l - 1 + 1 : SubSeq(bytes, 1, l)[i] = bytes[1 + i - 1]
                BY <3>1, SubSeqProperties
            <3>3. l \in Nat
                BY <2>4 DEF l
            <3>4. Len(SubSeq(bytes, 1, l)) = l /\ \A i \in 1 .. l : SubSeq(bytes, 1, l)[i] = bytes[i]
                BY <3>2, <3>3
            <3>5. QED
                BY <3>2, <3>4 DEF l
        <2>6. y \in Seq(Units) /\ Len(y) = 1 /\ y[1] = bytes[n]
            BY <2>4
        <2> HIDE DEF x, y
        <2> DEFINE z == x \o y
        <2>7. z \in Seq(Units) /\ Len(z) = Len(x) + Len(y)
              /\ \A i \in 1 .. Len(x) + Len(y) : z[i] = IF i <= Len(x) THEN x[i] ELSE y[i - Len(x)]
            BY <2>5, <2>6, ConcatProperties
        <2> HIDE DEF z
        <2>8. Len(z) = n
            BY <1>1, <2>5, <2>6, <2>7
        <2>9. ASSUME NEW i \in 1 .. n PROVE z[i] = bytes[i]
            <3>1. CASE i <= n - 1
                BY <1>1, <2>5, <2>6, <2>7, <3>1, SMTT(30)
            <3>2. CASE i = n
                BY <1>1, <2>5, <2>6, <2>7, <3>2
            <3>3. QED
                BY <1>1, <3>1, <3>2
        <2>10. z = bytes
            BY <2>7, <2>8, <2>9, SeqEqual DEF n
        <2>11. QED
            BY <2>3, <2>5, <2>6, <2>10 DEF z
    <1>4. QED
        BY <1>2, <1>3

LEMMA NormalisedFacts ==
    ASSUME NEW t, t \in Seq(Units)
    PROVE  Normalised(t) \in Seq(Units) /\ Within(Normalised(t), t)
    <1> DEFINE S == {i \in 1 .. Len(t) : ~(t[i] = CR /\ i < Len(t) /\ t[i + 1] = LF)}
    <1>1. S \in SUBSET (1 .. Len(t)) /\ Normalised(t) = Picked(t, S)
        BY DEF Normalised
    <1> HIDE DEF S
    <1>2. QED
        BY <1>1, WithinPicked

\* A chunk taken off the wire leaves on its way what is buffered, undecoded or
\* still on the wire.
ChunkText(n) == buf \o Normalised(Decoded(utf8Tail \o SubSeq(wire, 1, n)))
ChunkKept(n) == Kept(utf8Tail \o SubSeq(wire, 1, n)) \o SubSeq(wire, n + 1, Len(wire))

LEMMA ChunkSplit ==
    ASSUME utf8Tail \in Seq(Units), wire \in Seq(Units), NEW n \in 1 .. Len(wire)
    PROVE  /\ Kept(utf8Tail \o SubSeq(wire, 1, n)) \in Seq(Units) /\ SubSeq(wire, n + 1, Len(wire)) \in Seq(Units)
           /\ \E dec \in Seq(Units) :
                /\ ChunkKept(n) \in Seq(Units) /\ utf8Tail \o wire = dec \o ChunkKept(n)
                /\ ChunkText(n) = buf \o Normalised(dec)
    <1> DEFINE x == SubSeq(wire, 1, n)
               y == SubSeq(wire, n + 1, Len(wire))
               bytes == utf8Tail \o x
               dec == Decoded(bytes)
               kept == Kept(bytes)
    <1>1. Len(wire) \in Nat /\ n \in Nat /\ n <= Len(wire) /\ 0 <= n
        BY LenProperties
    <1>2. x \in Seq(Units) /\ y \in Seq(Units) /\ x \o y = wire
        <2>1. n \in 0 .. Len(wire)
            BY <1>1
        <2>2. SubSeq(wire, 1, n) \in Seq(Units) /\ SubSeq(wire, n + 1, Len(wire)) \in Seq(Units)
            BY <2>1, CutInTwo
        <2>3. wire = SubSeq(wire, 1, n) \o SubSeq(wire, n + 1, Len(wire))
            BY <2>1, CutInTwo
        <2>4. QED
            BY <2>2, <2>3
    <1>3. ChunkText(n) = buf \o Normalised(dec) /\ ChunkKept(n) = kept \o y
        BY DEF ChunkText, ChunkKept
    <1> HIDE DEF x, y
    <1>4. bytes \in Seq(Units)
        BY <1>2, ConcatProperties
    <1> HIDE DEF bytes
    <1>5. dec \in Seq(Units) /\ kept \in Seq(Units) /\ dec \o kept = bytes
        BY <1>4, DecodedFacts
    <1> HIDE DEF dec, kept
    <1>6. kept \o y \in Seq(Units)
        BY <1>2, <1>5, ConcatProperties
    <1>7. utf8Tail \o wire = dec \o (kept \o y)
        <2>1. dec \o kept = utf8Tail \o x
            BY <1>5 DEF bytes
        <2>2. Associates(dec, kept, y) /\ Associates(utf8Tail, x, y)
            BY <1>2, <1>5, Regroup
        <2>3. utf8Tail \o (x \o y) = dec \o (kept \o y)
            BY <2>1, <2>2 DEF Associates
        <2>4. QED
            BY <1>2, <2>3
    <1>8. kept \in Seq(Units) /\ y \in Seq(Units)
        BY <1>2, <1>5
    <1>9. QED
        BY <1>3, <1>5, <1>6, <1>7, <1>8 DEF x, y, bytes, kept

LEMMA ChunkFacts ==
    ASSUME buf \in Seq(Units), utf8Tail \in Seq(Units), wire \in Seq(Units), NEW n \in 1 .. Len(wire),
           NEW c, NEW d, Flow(c, d, buf \o (utf8Tail \o wire))
    PROVE  /\ ChunkText(n) \in Seq(Units) /\ ChunkKept(n) \in Seq(Units)
           /\ Kept(utf8Tail \o SubSeq(wire, 1, n)) \in Seq(Units) /\ SubSeq(wire, n + 1, Len(wire)) \in Seq(Units)
           /\ Flow(c, d, ChunkText(n) \o ChunkKept(n))
    <1> DEFINE k == ChunkKept(n)
    <1>1. Kept(utf8Tail \o SubSeq(wire, 1, n)) \in Seq(Units) /\ SubSeq(wire, n + 1, Len(wire)) \in Seq(Units)
        BY ChunkSplit
    <1>2. PICK dec \in Seq(Units) :
                /\ k \in Seq(Units) /\ utf8Tail \o wire = dec \o k
                /\ ChunkText(n) = buf \o Normalised(dec)
        BY ChunkSplit
    <1> HIDE DEF k
    <1> DEFINE norm == Normalised(dec)
    <1>3. norm \in Seq(Units) /\ Within(norm, dec)
        BY NormalisedFacts
    <1> HIDE DEF norm
    <1>4. dec \o k \in Seq(Units) /\ norm \o k \in Seq(Units) /\ buf \o norm \in Seq(Units)
        BY <1>2, <1>3, ConcatProperties
    <1>5. Within(norm \o k, dec \o k)
        <2>1. Within(k, k)
            BY <1>2, WithinSelf
        <2>2. QED
            BY <1>2, <1>3, <2>1, WithinJoin
    <1>6. Within(buf \o (norm \o k), buf \o (dec \o k))
        <2>1. Within(buf, buf)
            BY WithinSelf
        <2>2. QED
            BY <1>4, <1>5, <2>1, WithinJoin
    <1>7. buf \o (norm \o k) = (buf \o norm) \o k
        <2>1. Associates(buf, norm, k)
            BY <1>2, <1>3, Regroup
        <2>2. QED
            BY <2>1 DEF Associates
    <1>8. buf \o (norm \o k) \in Seq(Units)
        BY <1>4, ConcatProperties
    <1>9. Flow(c, d, buf \o (norm \o k))
        BY <1>2, <1>6, <1>8, FlowWithin
    <1>10. QED
        BY <1>1, <1>2, <1>4, <1>7, <1>9 DEF k, norm

LEMMA ReceiveStep ==
    ASSUME Inv, NEW n \in 1 .. Len(wire), NEW hit \in BOOLEAN, Push(n, hit)
    PROVE  Inv' /\ Promise!Next
    <1> DEFINE text == ChunkText(n)
               k == ChunkKept(n)
               r == Pushed(State, text)
               kept == Kept(utf8Tail \o SubSeq(wire, 1, n))
               y == SubSeq(wire, n + 1, Len(wire))
    <1>1. /\ ~ ended /\ wire' = y /\ utf8Tail' = kept /\ buf' = Left(text)
          /\ Install(r, hit)
          /\ UNCHANGED <<upstream, ended>>
        BY DEF Push, ChunkText, Left, Pushed
    <1>2. stream' = stream /\ sent' = sent /\ stopped' = stopped /\ events' = events /\ ended' = ended /\ ~ ended'
        BY <1>1 DEF upstream
    <1>3. /\ stream \in Streams /\ blocked \in BOOLEAN /\ ended \in BOOLEAN
          /\ sent \in [Fields -> Nat] /\ \A f \in Fields : sent[f] <= Len(stream.script[f])
          /\ events \in 0 .. MaxEvents /\ stopped \in SUBSET Fields
          /\ State \in Sessions /\ Templated(State) /\ Strayless(State)
          /\ blocked => excused = Fields
          /\ buf \in Seq(Units) /\ utf8Tail \in Seq(Units) /\ wire \in Seq(Units)
          /\ Flow(closed, stopped, buf \o (utf8Tail \o wire))
          /\ \A f \in Fields : f \notin closed /\ f \notin excused => InStep(State, f)
        BY <1>1 DEF Inv
    <1>4. /\ text \in Seq(Units) /\ k \in Seq(Units) /\ kept \in Seq(Units) /\ y \in Seq(Units)
          /\ Flow(closed, stopped, text \o k) /\ k = kept \o y
        <2>1. Flow(closed, stopped, text \o k)
            BY <1>3, ChunkFacts
        <2>2. QED
            BY <1>3, <2>1, ChunkFacts DEF ChunkKept
    <1> HIDE DEF text, k, kept, y
    <1>5. /\ Reaches(State, FALSE, r) /\ Left(text) \in Seq(Units)
          /\ Flow(r.closed, stopped, Left(text) \o k)
        <2>1. Flow(State.closed, stopped, text \o k)
            BY <1>4, StateFacts
        <2>2. QED
            BY <1>3, <1>4, <2>1, PushFacts
    <1> HIDE DEF r
    <1>6. Settled(r)
        <2>1. /\ r \in Sessions /\ Templated(r)
              /\ closed \subseteq r.closed /\ excused \subseteq r.excused
              /\ \A f \in closed : r.given[f] = given[f] /\ r.shown[f] = shown[f]
              /\ ~ blocked => /\ Strayless(State) => Strayless(r)
                              /\ \A f \in Fields : f \notin closed /\ f \notin r.excused /\ InStep(State, f) => OpenStep(State, r, f)
            BY <1>5, StateFacts DEF Reaches, IsLast
        <2>2. QED
            BY <1>3, <2>1 DEF Settled
    <1>7. /\ State' \in Sessions /\ Templated(State') /\ Strayless(State')
          /\ blocked' \in BOOLEAN /\ (blocked' => excused' = Fields) /\ closed' = r.closed
          /\ \A f \in Fields : f \notin closed' /\ f \notin excused' => InStep(State', f)
          /\ Promise!Next
        BY <1>1, <1>3, <1>6, InstallFacts
    <1>8. Flow(closed', stopped', buf' \o (utf8Tail' \o wire'))
        BY <1>1, <1>2, <1>4, <1>5, <1>7
    <1>9. Flow(closed, stopped, buf \o (utf8Tail \o wire))'
        BY <1>2, <1>8, FlowPrimed
    <1>10. State' \in Sessions' /\ Templated(State)' /\ Strayless(State)'
        <2>1. Templated(State)'
            BY <1>2, <1>7, TemplatedPrimed
        <2>2. QED
            BY <1>2, <1>7, <2>1, SameStream
    <1>11. \A f \in Fields' : f \notin closed' /\ f \notin excused' => InStep(State, f)'
        BY <1>2, <1>7, SameStream
    <1>12. /\ stream' \in Streams /\ blocked' \in BOOLEAN /\ ended' \in BOOLEAN
           /\ sent' \in [Fields' -> Nat] /\ \A f \in Fields' : sent'[f] <= Len(stream'.script[f])
           /\ events' \in 0 .. MaxEvents /\ stopped' \in SUBSET Fields'
           /\ blocked' => excused' = Fields'
           /\ buf' \in Seq(Units') /\ utf8Tail' \in Seq(Units') /\ wire' \in Seq(Units')
        BY <1>1, <1>2, <1>3, <1>4, <1>5, <1>7, SameStream
    <1>13. Inv'
        BY <1>9, <1>10, <1>11, <1>12 DEF Inv
    <1>14. QED
        BY <1>7, <1>13

\* The bytes of an incomplete character hold no event.
LEMMA FlowDamaged ==
    ASSUME NEW c, NEW d, NEW x, NEW y, NEW t, x \in Seq(Units), y \in Seq(Units), t \in Seq(Units),
           Flow(c, d, x \o y), \A i \in 1 .. Len(t) : t[i][1] # "head"
    PROVE  Flow(c, d, x \o t)
    <1> DEFINE u == x \o y
               v == x \o t
               k == Len(x)
               l == Len(y)
               m == Len(t)
    <1>1. k \in Nat /\ l \in Nat /\ m \in Nat
        BY LenProperties
    <1>2. /\ v \in Seq(Units) /\ Len(v) = k + m
          /\ \A i \in 1 .. k + m : v[i] = IF i <= k THEN x[i] ELSE t[i - k]
        BY ConcatProperties
    <1>3. Len(u) = k + l /\ \A i \in 1 .. k + l : u[i] = IF i <= k THEN x[i] ELSE y[i - k]
        BY ConcatProperties
    <1>4. c \subseteq d /\ \A j \in 1 .. Len(u) : \A f \in Fields :
              /\ EndsAt(u[j], f) => f \in d
              /\ u[j][1] = "head" /\ (f \in c \/ \E i \in 1 .. j - 1 : EndsAt(u[i], f)) => ~ Carries(u[j][2], f)
        BY DEF Flow
    <1>5. \A i \in 1 .. m : t[i][1] # "head"
        OBVIOUS
    <1> HIDE DEF u, v, k, l, m
    <1>6. \A i \in 1 .. k : v[i] = u[i] /\ i \in 1 .. k + l /\ i \in 1 .. k + m
        BY <1>1, <1>2, <1>3
    <1>7. ASSUME NEW j \in 1 .. k + m, NEW f \in Fields
          PROVE  /\ EndsAt(v[j], f) => f \in d
                 /\ v[j][1] = "head" /\ (f \in c \/ \E i \in 1 .. j - 1 : EndsAt(v[i], f)) => ~ Carries(v[j][2], f)
        <2>1. CASE j > k
            <3>1. j - k \in 1 .. m /\ ~ (j <= k)
                BY <1>1, <2>1
            <3>2. v[j][1] # "head"
                BY <1>2, <1>5, <3>1
            <3>3. QED
                BY <3>2 DEF EndsAt
        <2>2. CASE j <= k
            <3>1. j \in 1 .. k /\ j \in 1 .. Len(u)
                BY <1>1, <1>3, <2>2
            <3>2. \A i \in 1 .. j - 1 : i \in 1 .. k
                BY <1>1, <3>1
            <3>3. v[j] = u[j] /\ \A i \in 1 .. j - 1 : v[i] = u[i]
                BY <1>6, <3>1, <3>2
            <3>4. QED
                BY <1>4, <3>1, <3>3
        <2>3. QED
            BY <1>1, <2>1, <2>2
    <1>8. QED
        BY <1>2, <1>4, <1>7 DEF Flow, v

LEMMA FinishStep ==
    ASSUME Inv, Finish
    PROVE  Inv' /\ Promise!Next
    <1> DEFINE t == [i \in 1 .. Len(utf8Tail) |-> <<"damaged">>]
               frame == buf \o t
               r == Finished(State, frame)
    <1>1. /\ ~ ended /\ ended' = TRUE /\ wire' = <<>> /\ utf8Tail' = <<>> /\ buf' = <<>>
          /\ Install(r, FALSE) /\ UNCHANGED upstream
        BY DEF Finish, Finished, LastFrame
    <1>2. stream' = stream /\ sent' = sent /\ stopped' = stopped /\ events' = events
        BY <1>1 DEF upstream
    <1>3. /\ stream \in Streams /\ blocked \in BOOLEAN /\ ended \in BOOLEAN
          /\ sent \in [Fields -> Nat] /\ \A f \in Fields : sent[f] <= Len(stream.script[f])
          /\ events \in 0 .. MaxEvents /\ stopped \in SUBSET Fields
          /\ State \in Sessions /\ Templated(State) /\ Strayless(State)
          /\ blocked => excused = Fields
          /\ buf \in Seq(Units) /\ utf8Tail \in Seq(Units) /\ wire \in Seq(Units)
          /\ Flow(closed, stopped, buf \o (utf8Tail \o wire))
          /\ \A f \in Fields : f \notin closed /\ f \notin excused => InStep(State, f)
        BY <1>1 DEF Inv
    <1>4. t \in Seq(Units) /\ \A i \in 1 .. Len(t) : t[i][1] # "head"
        <2> DEFINE m == Len(utf8Tail)
        <2>1. m \in Nat
            BY <1>3, LenProperties
        <2>2. <<"damaged">> \in Units /\ <<"damaged">>[1] # "head"
            BY DEF Units
        <2>3. t \in [1 .. m -> Units] /\ \A i \in 1 .. m : t[i] = <<"damaged">>
            BY <2>2
        <2> HIDE DEF m, t
        <2>4. t \in Seq(Units) /\ Len(t) = m
            BY <2>1, <2>3
        <2>5. QED
            BY <2>2, <2>3, <2>4
    <1> HIDE DEF t
    <1>5. frame \in Seq(Units) /\ Flow(State.closed, stopped, frame)
        <2>1. utf8Tail \o wire \in Seq(Units) /\ frame \in Seq(Units)
            BY <1>3, <1>4, ConcatProperties
        <2>2. Flow(closed, stopped, frame)
            BY <1>3, <1>4, <2>1, FlowDamaged
        <2>3. QED
            BY <2>1, <2>2, StateFacts
    <1> HIDE DEF frame
    <1>6. /\ r \in Sessions /\ Templated(r) /\ r.closed = Fields /\ State.excused \subseteq r.excused
          /\ \A f \in State.closed : r.given[f] = State.given[f] /\ r.shown[f] = State.shown[f]
          /\ ~ blocked =>
                /\ Strayless(State) => Strayless(r)
                /\ \A f \in Fields : f \notin State.closed /\ f \notin r.excused /\ InStep(State, f) =>
                        Grows(State, r, f) /\ r.shown[f] = Restored(f, r.given[f])
        BY <1>3, <1>5, FinishFacts
    <1> HIDE DEF r
    <1>7. Settled(r)
        <2>1. closed \in SUBSET Fields
            BY <1>3, SessionFacts, StateFacts
        <2>2. /\ r \in Sessions /\ Templated(r)
              /\ closed \subseteq r.closed /\ excused \subseteq r.excused
              /\ \A f \in closed : r.given[f] = given[f] /\ r.shown[f] = shown[f]
            BY <1>6, <2>1, StateFacts
        <2>3. ASSUME ~ blocked, NEW f \in Fields, f \notin closed, f \notin r.excused
              PROVE  OpenStep(State, r, f)
            <3>1. InStep(State, f)
                BY <1>3, <2>2, <2>3
            <3>2. Grows(State, r, f) /\ r.shown[f] = Restored(f, r.given[f])
                BY <1>6, <2>3, <3>1, StateFacts
            <3>3. QED
                BY <1>6, <3>2 DEF OpenStep
        <2>4. QED
            BY <1>3, <1>6, <2>2, <2>3 DEF Settled
    <1>8. /\ State' \in Sessions /\ Templated(State') /\ Strayless(State')
          /\ blocked' \in BOOLEAN /\ (blocked' => excused' = Fields)
          /\ Promise!Next
        <2>1. \A hit \in BOOLEAN : Install(r, hit) =>
                /\ State' \in Sessions /\ Templated(State') /\ Strayless(State')
                /\ blocked' \in BOOLEAN /\ (blocked' => excused' = Fields)
                /\ Promise!Next
            BY <1>3, <1>7, InstallFacts
        <2>2. FALSE \in BOOLEAN
            OBVIOUS
        <2>3. QED
            BY <1>1, <2>1, <2>2
    <1>9. State' \in Sessions' /\ Templated(State)' /\ Strayless(State)'
        <2>1. Templated(State)'
            BY <1>2, <1>8, TemplatedPrimed
        <2>2. QED
            BY <1>2, <1>8, <2>1, SameStream
    <1>10. /\ stream' \in Streams /\ blocked' \in BOOLEAN /\ ended' \in BOOLEAN /\ ended'
           /\ sent' \in [Fields' -> Nat] /\ \A f \in Fields' : sent'[f] <= Len(stream'.script[f])
           /\ events' \in 0 .. MaxEvents /\ stopped' \in SUBSET Fields'
           /\ blocked' => excused' = Fields'
        BY <1>1, <1>2, <1>3, <1>8, SameStream
    <1>11. buf' \in Seq(Units') /\ utf8Tail' \in Seq(Units') /\ wire' \in Seq(Units')
        BY <1>1, EmptySeq
    <1>12. Inv'
        BY <1>9, <1>10, <1>11 DEF Inv
    <1>13. QED
        BY <1>8, <1>12

\* Every event upstream may send carries the next pieces of fields it has not
\* finished.
LEMMA SendKinds ==
    ASSUME stream \in Streams, SendDelta \/ SendStop \/ SendAll \/ SendDone
    PROVE  \E kind, of, take, fs : Sends(kind, of, take, fs)
    <1>1. AField \in Fields
        BY FieldFacts DEF AField
    <1>2. CASE SendDelta
        <2> DEFINE kind == IF stream.blank THEN "blank" ELSE "delta"
        <2>1. kind \in Kinds /\ kind # "done"
            BY DEF Kinds
        <2>2. PICK take \in Takes : Emit(kind, AField, take, Taken(take))
            BY <1>2 DEF SendDelta
        <2> HIDE DEF kind
        <2>3. Taken(take) \in SUBSET Fields
            BY DEF Taken
        <2>4. QED
            BY <1>1, <2>1, <2>2, <2>3 DEF Sends
    <1>3. CASE SendStop
        <2>1. PICK f \in Fields \ stopped, take \in Takes :
                    \E fs \in Slots(take, Proto # "chat") : Emit("stop", f, take, fs)
            BY <1>3 DEF SendStop
        <2>2. PICK fs \in Slots(take, Proto # "chat") : Emit("stop", f, take, fs)
            BY <2>1
        <2>3. fs \in SUBSET Fields
            BY DEF Slots
        <2>4. QED
            BY <2>2, <2>3 DEF Sends, Kinds
    <1>4. CASE SendAll
        <2>1. PICK take \in Takes : \E fs \in Slots(take, Proto # "ollama") : Emit("all", AField, take, fs)
            BY <1>4 DEF SendAll
        <2>2. PICK fs \in Slots(take, Proto # "ollama") : Emit("all", AField, take, fs)
            BY <2>1
        <2>3. fs \in SUBSET Fields
            BY DEF Slots
        <2>4. QED
            BY <1>1, <2>2, <2>3 DEF Sends, Kinds
    <1>5. CASE SendDone
        <2>1. PICK take \in Takes : Emit("done", AField, take, {})
            BY <1>5 DEF SendDone
        <2>2. QED
            BY <1>1, <2>1 DEF Sends, Kinds
    <1>6. QED
        BY <1>2, <1>3, <1>4, <1>5

\* Every step keeps the invariant and is a step of the promise, or none.
LEMMA NextInv ==
    ASSUME Inv, [Next]_vars
    PROVE  Inv' /\ [Promise!Next]_<<given, shown, closed, excused>>
    <1>1. stream \in Streams
        BY DEF Inv
    <1>2. CASE SendDelta \/ SendStop \/ SendAll \/ SendDone
        <2>1. PICK kind, of, take, fs : Sends(kind, of, take, fs)
            BY <1>1, <1>2, SendKinds
        <2>2. Inv' /\ UNCHANGED <<given, shown, closed, excused>>
            BY <2>1, SendStep
        <2>3. QED
            BY <2>2
    <1>3. CASE Receive
        <2>1. PICK n \in 1 .. Len(wire), hit \in {FALSE, CanBlock} : Push(n, hit)
            BY <1>3 DEF Receive
        <2>2. hit \in BOOLEAN
            BY StreamAssumption
        <2>3. QED
            BY <2>1, <2>2, ReceiveStep
    <1>4. CASE Finish
        BY <1>4, FinishStep
    <1>5. CASE UNCHANGED vars
        <2>1. /\ stream' = stream /\ sent' = sent /\ stopped' = stopped /\ events' = events /\ wire' = wire
              /\ utf8Tail' = utf8Tail /\ buf' = buf /\ pending' = pending /\ tmpl' = tmpl
              /\ given' = given /\ shown' = shown /\ stray' = stray /\ closed' = closed /\ excused' = excused
              /\ blocked' = blocked /\ ended' = ended
            BY <1>5 DEF vars, upstream, received, session, client
        <2>2. State' = State
            BY <2>1 DEF State
        <2>3. Templated(State)'
            <3>1. Templated(State')
                BY <2>2 DEF Inv
            <3>2. QED
                BY <2>1, <3>1, TemplatedPrimed
        <2>4. ~ ended' => Flow(closed, stopped, buf \o (utf8Tail \o wire))'
            <3>1. ~ ended' => Flow(closed', stopped', buf' \o (utf8Tail' \o wire'))
                BY <2>1 DEF Inv
            <3>2. QED
                BY <2>1, <3>1, FlowPrimed
        <2>5. ~ ended' => \A f \in Fields' : f \notin closed' /\ f \notin excused' => InStep(State, f)'
            BY <2>1, <2>2, SameStream DEF Inv
        <2>6. Strayless(State)' /\ State' \in Sessions'
            BY <2>1, <2>2, SameStream DEF Inv
        <2>7. /\ stream' \in Streams /\ blocked' \in BOOLEAN /\ ended' \in BOOLEAN
              /\ sent' \in [Fields' -> Nat] /\ \A f \in Fields' : sent'[f] <= Len(stream'.script[f])
              /\ events' \in 0 .. MaxEvents /\ stopped' \in SUBSET Fields'
              /\ blocked' => excused' = Fields'
              /\ buf' \in Seq(Units') /\ utf8Tail' \in Seq(Units') /\ wire' \in Seq(Units')
            BY <2>1, SameStream DEF Inv
        <2>8. Inv'
            BY <2>3, <2>4, <2>5, <2>6, <2>7 DEF Inv
        <2>9. QED
            BY <2>1, <2>8
    <1>6. QED
        BY <1>2, <1>3, <1>4, <1>5 DEF Next

LEMMA InvHolds == Spec => []Inv
    <1>1. Init => Inv
        BY InitInv
    <1>2. Inv /\ [Next]_vars => Inv'
        BY NextInv
    <1>3. QED
        BY <1>1, <1>2, PTL DEF Spec

-----------------------------------------------------------------------------
(* The theorems.                                                           *)

\* The variables keep their types, and what a channel holds back is never more
\* than the half of one placeholder (TypeOK), for every number of fields, every
\* script and every way the chunks are cut.
THEOREM TypeCorrect == Spec => []TypeOK
    <1>1. Inv => TypeOK
        <2>1. SUFFICES ASSUME Inv PROVE TypeOK
            OBVIOUS
        <2>2. /\ stream \in Streams /\ blocked \in BOOLEAN /\ ended \in BOOLEAN
              /\ sent \in [Fields -> Nat] /\ \A f \in Fields : sent[f] <= Len(stream.script[f])
              /\ events \in 0 .. MaxEvents /\ stopped \in SUBSET Fields /\ State \in Sessions
            BY <2>1 DEF Inv
        <2>3. /\ pending \in [Channels -> Halves] /\ tmpl \in SUBSET Channels
              /\ given \in [Fields -> Seq(Pieces)] /\ shown \in [Fields -> Seq(Pieces \cup Values)]
              /\ stray \in SUBSET Seq(Pieces \cup Values) /\ closed \in SUBSET Fields /\ excused \in SUBSET Fields
            BY <2>2, SessionFacts, StateFacts DEF Glyphs
        <2>4. QED
            BY <2>2, <2>3 DEF TypeOK
    <1>2. QED
        BY <1>1, InvHolds, PTL

\* A channel that holds text always has a template to put it out with, so no
\* text leaves in a frame of no field unless the stream was forced apart
\* (NothingStray: flush_pending_matching, wrap_bare_flush).
THEOREM NothingStrayHolds == Spec => []NothingStray
    <1>1. Inv => NothingStray
        BY StateFacts DEF Inv, NothingStray, Templated, Modelled, Strayless
    <1>2. QED
        BY <1>1, InvHolds, PTL

\* The streamed response implements the promise of RestoredText (KeepsPromise):
\* field by field the client reads a growing prefix of the restored answer and,
\* unless the field is excused, all of it when it sees the field's end.
THEOREM PromiseKept == Spec => KeepsPromise
    <1>1. Init => Promise!Init
        <2>1. SUFFICES ASSUME Init PROVE Promise!Init
            OBVIOUS
        <2>2. given = [f \in Fields |-> <<>>] /\ shown = given /\ closed = {} /\ excused = {}
            BY <2>1 DEF Init
        <2>3. QED
            BY <2>2 DEF Promise!Init, Promise!Fields
    <1>2. Inv /\ [Next]_vars => [Promise!Next]_Promise!vars
        BY NextInv DEF Promise!vars
    <1>3. QED
        BY <1>1, <1>2, InvHolds, PTL DEF Spec, KeepsPromise, Promise!Spec

-----------------------------------------------------------------------------
(* The lines on their way, and the bound of the buffer.                    *)

\* No four units without a line end among them.
Dense(u) == \A i \in 1 .. Len(u) : \E k \in 0 .. 3 : i + k <= Len(u) /\ u[i + k] = LF

\* The event is followed by its rest and then by a whole delimiter.
Delimited(u, i) ==
    /\ i + 1 + DelimLen <= Len(u) /\ u[i + 1][1] # "head"
    /\ \A k \in 1 .. DelimLen : u[i + 1 + k] = LF

Apart(u) == \A i \in 1 .. Len(u) : u[i] # CR /\ (u[i][1] = "head" => Delimited(u, i))

Lines(u) == Dense(u) /\ (~ stream.crlf => Apart(u))

LEMMA DelimLenIs ==
    DelimLen \in {1, 2}
    BY DEF DelimLen

\* What follows a cut is still whole lines at its end.
LEMMA LinesSuffix ==
    ASSUME NEW T, NEW x \in Seq(T), NEW y \in Seq(T), Lines(x \o y)
    PROVE  Lines(y)
    <1> DEFINE u == x \o y
               m == Len(x)
               n == Len(y)
    <1>1. m \in Nat /\ n \in Nat
        BY LenProperties
    <1>2. Len(u) = m + n /\ \A i \in 1 .. m + n : u[i] = IF i <= m THEN x[i] ELSE y[i - m]
        BY ConcatProperties
    <1>3. Dense(u) /\ (~ stream.crlf => Apart(u))
        BY DEF Lines
    <1> HIDE DEF u, m, n
    <1>4. \A i \in 1 .. n : y[i] = u[m + i] /\ m + i \in 1 .. Len(u)
        <2>1. ASSUME NEW i \in 1 .. n PROVE y[i] = u[m + i] /\ m + i \in 1 .. Len(u)
            <3>1. m + i \in 1 .. m + n /\ ~ (m + i <= m) /\ (m + i) - m = i
                BY <1>1
            <3>2. QED
                BY <1>2, <3>1
        <2>2. QED
            BY <2>1
    <1>5. Dense(y)
        <2>1. ASSUME NEW i \in 1 .. n PROVE \E k \in 0 .. 3 : i + k <= n /\ y[i + k] = LF
            <3>1. PICK k \in 0 .. 3 : (m + i) + k <= Len(u) /\ u[(m + i) + k] = LF
                BY <1>3, <1>4 DEF Dense
            <3>2. i + k \in 1 .. n /\ m + (i + k) = (m + i) + k
                BY <1>1, <1>2, <3>1
            <3>3. i + k <= n /\ y[i + k] = LF
                BY <1>1, <1>4, <3>1, <3>2
            <3>4. QED
                BY <3>3
        <2>2. QED
            BY <2>1 DEF Dense, n
    <1>6. ASSUME ~ stream.crlf PROVE Apart(y)
        <2>1. ASSUME NEW i \in 1 .. n PROVE y[i] # CR /\ (y[i][1] = "head" => Delimited(y, i))
            <3>1. u[m + i] # CR /\ (u[m + i][1] = "head" => Delimited(u, m + i))
                BY <1>3, <1>4, <1>6 DEF Apart
            <3>2. ASSUME y[i][1] = "head" PROVE Delimited(y, i)
                <4>1. /\ (m + i) + 1 + DelimLen <= Len(u) /\ u[(m + i) + 1][1] # "head"
                      /\ \A k \in 1 .. DelimLen : u[(m + i) + 1 + k] = LF
                    BY <1>4, <3>1, <3>2 DEF Delimited
                <4>2. i + 1 + DelimLen <= n /\ i + 1 \in 1 .. n /\ m + (i + 1) = (m + i) + 1
                    BY <1>1, <1>2, <4>1, DelimLenIs
                <4>3. ASSUME NEW k \in 1 .. DelimLen PROVE y[i + 1 + k] = LF
                    <5>1. i + 1 + k \in 1 .. n /\ m + (i + 1 + k) = (m + i) + 1 + k
                        BY <1>1, <4>2, DelimLenIs
                    <5>2. QED
                        BY <1>4, <4>1, <5>1
                <4>4. y[i + 1][1] # "head"
                    BY <1>4, <4>1, <4>2
                <4>5. QED
                    BY <4>2, <4>3, <4>4 DEF Delimited, n
            <3>3. QED
                BY <1>4, <3>1, <3>2
        <2>2. QED
            BY <2>1 DEF Apart, n
    <1>7. QED
        BY <1>5, <1>6 DEF Lines

\* Lines follow lines.
LEMMA LinesJoin ==
    ASSUME NEW T, NEW x \in Seq(T), NEW y \in Seq(T), Lines(x), Lines(y)
    PROVE  Lines(x \o y)
    <1> DEFINE u == x \o y
               m == Len(x)
               n == Len(y)
    <1>1. m \in Nat /\ n \in Nat
        BY LenProperties
    <1>2. Len(u) = m + n /\ \A i \in 1 .. m + n : u[i] = IF i <= m THEN x[i] ELSE y[i - m]
        BY ConcatProperties
    <1>3. Dense(x) /\ Dense(y) /\ (~ stream.crlf => Apart(x) /\ Apart(y))
        BY DEF Lines
    <1> HIDE DEF u, m, n
    <1>4. \A i \in 1 .. m : i \in 1 .. m + n /\ u[i] = x[i]
        BY <1>1, <1>2
    <1>5. \A i \in 1 .. m + n : i > m => i - m \in 1 .. n /\ m + (i - m) = i
        BY <1>1
    <1>6. \A i \in 1 .. n : m + i \in 1 .. m + n /\ u[m + i] = y[i]
        <2>1. ASSUME NEW i \in 1 .. n PROVE m + i \in 1 .. m + n /\ u[m + i] = y[i]
            <3>1. m + i \in 1 .. m + n /\ ~ (m + i <= m) /\ (m + i) - m = i
                BY <1>1
            <3>2. QED
                BY <1>2, <3>1
        <2>2. QED
            BY <2>1
    <1>7. Dense(u)
        <2>1. ASSUME NEW i \in 1 .. m + n PROVE \E k \in 0 .. 3 : i + k <= m + n /\ u[i + k] = LF
            <3>1. CASE i <= m
                <4>1. i \in 1 .. m
                    BY <1>1, <3>1
                <4>2. PICK k \in 0 .. 3 : i + k <= m /\ x[i + k] = LF
                    BY <1>3, <4>1 DEF Dense, m
                <4>3. i + k \in 1 .. m /\ i + k <= m + n
                    BY <1>1, <4>1, <4>2
                <4>4. QED
                    BY <1>4, <4>2, <4>3
            <3>2. CASE i > m
                <4> DEFINE j == i - m
                <4>1. j \in 1 .. n /\ m + j = i
                    BY <1>5, <3>2
                <4> HIDE DEF j
                <4>2. PICK k \in 0 .. 3 : j + k <= n /\ y[j + k] = LF
                    BY <1>3, <4>1 DEF Dense, n
                <4>3. j + k \in 1 .. n /\ i + k <= m + n /\ m + (j + k) = i + k
                    BY <1>1, <4>1, <4>2
                <4>4. u[i + k] = LF
                    BY <1>6, <4>2, <4>3
                <4>5. QED
                    BY <4>3, <4>4
            <3>3. QED
                BY <1>1, <3>1, <3>2
        <2>2. QED
            BY <1>2, <2>1 DEF Dense
    <1>8. ASSUME ~ stream.crlf PROVE Apart(u)
        <2>1. ASSUME NEW i \in 1 .. m + n PROVE u[i] # CR /\ (u[i][1] = "head" => Delimited(u, i))
            <3>1. CASE i <= m
                <4>1. i \in 1 .. m
                    BY <1>1, <3>1
                <4>2. x[i] # CR /\ (x[i][1] = "head" => Delimited(x, i))
                    BY <1>3, <1>8, <4>1 DEF Apart, m
                <4>3. ASSUME u[i][1] = "head" PROVE Delimited(u, i)
                    <5>1. /\ i + 1 + DelimLen <= m /\ x[i + 1][1] # "head"
                          /\ \A k \in 1 .. DelimLen : x[i + 1 + k] = LF
                        BY <1>4, <4>1, <4>2, <4>3 DEF Delimited, m
                    <5>2. /\ i + 1 + DelimLen <= m + n /\ i + 1 \in 1 .. m
                          /\ \A k \in 1 .. DelimLen : i + 1 + k \in 1 .. m
                        BY <1>1, <4>1, <5>1, DelimLenIs
                    <5>3. QED
                        BY <1>2, <1>4, <5>1, <5>2 DEF Delimited
                <4>4. QED
                    BY <1>4, <4>1, <4>2, <4>3
            <3>2. CASE i > m
                <4> DEFINE j == i - m
                <4>1. j \in 1 .. n /\ m + j = i
                    BY <1>5, <3>2
                <4> HIDE DEF j
                <4>2. y[j] # CR /\ (y[j][1] = "head" => Delimited(y, j)) /\ u[i] = y[j]
                    BY <1>3, <1>6, <1>8, <4>1 DEF Apart, n
                <4>3. ASSUME u[i][1] = "head" PROVE Delimited(u, i)
                    <5>1. /\ j + 1 + DelimLen <= n /\ y[j + 1][1] # "head"
                          /\ \A k \in 1 .. DelimLen : y[j + 1 + k] = LF
                        BY <4>2, <4>3 DEF Delimited, n
                    <5>2. /\ i + 1 + DelimLen <= m + n /\ j + 1 \in 1 .. n /\ m + (j + 1) = i + 1
                          /\ \A k \in 1 .. DelimLen : j + 1 + k \in 1 .. n /\ m + (j + 1 + k) = i + 1 + k
                        BY <1>1, <4>1, <5>1, DelimLenIs
                    <5>3. u[i + 1][1] # "head" /\ \A k \in 1 .. DelimLen : u[i + 1 + k] = LF
                        BY <1>6, <5>1, <5>2
                    <5>4. QED
                        BY <1>2, <5>2, <5>3 DEF Delimited
                <4>4. QED
                    BY <4>2, <4>3
            <3>3. QED
                BY <1>1, <3>1, <3>2
        <2>2. QED
            BY <1>2, <2>1 DEF Apart
    <1>9. QED
        BY <1>7, <1>8 DEF Lines, u

LEMMA JoinAt ==
    ASSUME NEW T, NEW p \in Seq(T), NEW q \in Seq(T)
    PROVE  /\ p \o q \in Seq(T) /\ Len(p \o q) = Len(p) + Len(q)
           /\ \A i \in 1 .. Len(p) : (p \o q)[i] = p[i]
           /\ \A j \in 1 .. Len(q) : (p \o q)[Len(p) + j] = q[j]
    <1> DEFINE m == Len(p)
               n == Len(q)
               z == p \o q
    <1>1. m \in Nat /\ n \in Nat
        BY LenProperties
    <1>2. z \in Seq(T) /\ Len(z) = m + n /\ \A i \in 1 .. m + n : z[i] = IF i <= m THEN p[i] ELSE q[i - m]
        BY ConcatProperties
    <1> HIDE DEF m, n, z
    <1>3. \A i \in 1 .. m : z[i] = p[i]
        BY <1>1, <1>2
    <1>4. ASSUME NEW j \in 1 .. n PROVE z[m + j] = q[j]
        <2>1. m + j \in 1 .. m + n /\ ~ (m + j <= m) /\ (m + j) - m = j
            BY <1>1
        <2>2. QED
            BY <1>2, <2>1
    <1>5. QED
        BY <1>2, <1>3, <1>4 DEF m, n, z

\* An encoded event is whole lines.
LEMMA LinesEncode ==
    ASSUME stream \in Streams, NEW e, e \in Events
    PROVE  Encode(e) \in Seq(Units) /\ Lines(Encode(e))
    <1> DEFINE h == <<"head", e>>
               r == <<"rest", e>>
               p == <<h, r>>
               l == LineEnd
               q == IF stream.framing = "sse" THEN l \o l ELSE l
               t == p \o q
    <1>1. LF \in Units /\ CR \in Units /\ h \in Units /\ r \in Units
        BY DEF Units
    <1>2. LF[1] # "head" /\ r[1] # "head" /\ LF # CR /\ h # CR /\ r # CR
        BY UnitFacts DEF LF, CR
    <1>3. Encode(e) = t
        BY DEF Encode
    <1>4. stream.crlf \in BOOLEAN
        BY ScriptAssumption
    <1> HIDE DEF h, r
    <1>5. p \in Seq(Units) /\ Len(p) = 2 /\ p[1] = h /\ p[2] = r
        BY <1>1
    <1>6. /\ l \in Seq(Units)
          /\ stream.crlf => Len(l) = 2 /\ l[1] = CR /\ l[2] = LF
          /\ ~ stream.crlf => Len(l) = 1 /\ l[1] = LF
        <2>1. \A x, y \in Units : <<x, y>> \in Seq(Units) /\ Len(<<x, y>>) = 2 /\ <<x, y>>[1] = x /\ <<x, y>>[2] = y
            OBVIOUS
        <2>2. \A x \in Units : <<x>> \in Seq(Units) /\ Len(<<x>>) = 1 /\ <<x>>[1] = x
            OBVIOUS
        <2>3. QED
            BY <1>1, <1>4, <2>1, <2>2 DEF LineEnd
    <1> HIDE DEF l, p
    <1> DEFINE ll == l \o l
    <1>7. /\ ll \in Seq(Units)
          /\ stream.crlf => Len(ll) = 4 /\ ll[1] = CR /\ ll[2] = LF /\ ll[3] = CR /\ ll[4] = LF
          /\ ~ stream.crlf => Len(ll) = 2 /\ ll[1] = LF /\ ll[2] = LF
        <2>1. /\ ll \in Seq(Units) /\ Len(ll) = Len(l) + Len(l)
              /\ \A i \in 1 .. Len(l) : ll[i] = l[i]
              /\ \A i \in 1 .. Len(l) : ll[Len(l) + i] = l[i]
            BY <1>6, JoinAt
        <2> HIDE DEF ll
        <2>2. QED
            BY <1>6, <2>1
    <1>8. q = IF stream.framing = "sse" THEN ll ELSE l
        OBVIOUS
    <1> HIDE DEF ll, q
    <1>9. q \in Seq(Units)
        BY <1>6, <1>7, <1>8
    <1>10. /\ Len(t) = 2 + Len(q) /\ t[1] = h /\ t[2] = r
           /\ \A j \in 1 .. Len(q) : t[2 + j] = q[j]
        <2>1. /\ Len(t) = Len(p) + Len(q)
              /\ \A i \in 1 .. Len(p) : t[i] = p[i]
              /\ \A j \in 1 .. Len(q) : t[Len(p) + j] = q[j]
            <3>1. p \in Seq(Units) /\ q \in Seq(Units)
                BY <1>5, <1>9
            <3>2. /\ Len(p \o q) = Len(p) + Len(q)
                  /\ \A i \in 1 .. Len(p) : (p \o q)[i] = p[i]
                  /\ \A j \in 1 .. Len(q) : (p \o q)[Len(p) + j] = q[j]
                BY <3>1, JoinAt
            <3>3. QED
                BY <3>2
        <2> DEFINE m == Len(p)
        <2>2. Len(t) = m + Len(q) /\ (\A i \in 1 .. m : t[i] = p[i]) /\ (\A j \in 1 .. Len(q) : t[m + j] = q[j]) /\ m = 2
            BY <1>5, <2>1
        <2> HIDE DEF t, m
        <2>3. t[1] = p[1] /\ t[2] = p[2]
            BY <2>2
        <2>4. QED
            BY <1>5, <2>2, <2>3
    <1>11. t \in Seq(Units)
        BY <1>5, <1>9, ConcatProperties
    <1> HIDE DEF t
    <1>12. CASE stream.crlf
        <2>1. CASE stream.framing = "sse"
            <3>1. Len(t) = 6 /\ t[4] = LF /\ t[6] = LF
                <4>1. Len(q) = 4 /\ q[2] = LF /\ q[4] = LF
                    BY <1>7, <1>8, <1>12, <2>1
                <4>2. t[2 + 2] = LF /\ t[2 + 4] = LF
                    BY <1>10, <4>1
                <4>3. QED
                    BY <1>10, <4>1, <4>2
            <3>2. Dense(t)
                BY <3>1 DEF Dense
            <3>3. QED
                BY <1>3, <1>11, <1>12, <3>2 DEF Lines
        <2>2. CASE stream.framing # "sse"
            <3>1. Len(t) = 4 /\ t[4] = LF
                <4>1. Len(q) = 2 /\ q[2] = LF
                    BY <1>6, <1>8, <1>12, <2>2
                <4>2. t[2 + 2] = LF
                    BY <1>10, <4>1
                <4>3. QED
                    BY <1>10, <4>1, <4>2
            <3>2. Dense(t)
                BY <3>1 DEF Dense
            <3>3. QED
                BY <1>3, <1>11, <1>12, <3>2 DEF Lines
        <2>3. QED
            BY <2>1, <2>2
    <1>13. CASE ~ stream.crlf
        <2>1. CASE stream.framing = "sse"
            <3>1. Len(t) = 4 /\ t[3] = LF /\ t[4] = LF
                BY <1>7, <1>8, <1>10, <1>13, <2>1
            <3>2. Dense(t)
                BY <3>1 DEF Dense
            <3>3. DelimLen = 2
                BY <2>1 DEF DelimLen
            <3>4. Delimited(t, 1)
                BY <1>2, <1>10, <3>1, <3>3 DEF Delimited
            <3>5. ASSUME NEW i \in 1 .. 4 PROVE t[i] # CR /\ (t[i][1] = "head" => Delimited(t, i))
                <4>1. CASE i = 1
                    BY <1>2, <1>10, <3>4, <4>1
                <4>2. CASE i # 1
                    <5>1. t[i] \in {r, LF}
                        BY <1>10, <3>1, <4>2
                    <5>2. QED
                        BY <1>2, <5>1
                <4>3. QED
                    BY <4>1, <4>2
            <3>6. QED
                BY <1>3, <1>11, <3>1, <3>2, <3>5 DEF Lines, Apart
        <2>2. CASE stream.framing # "sse"
            <3>1. Len(t) = 3 /\ t[3] = LF
                BY <1>6, <1>8, <1>10, <1>13, <2>2
            <3>2. Dense(t)
                BY <3>1 DEF Dense
            <3>3. DelimLen = 1
                BY <2>2 DEF DelimLen
            <3>4. Delimited(t, 1)
                BY <1>2, <1>10, <3>1, <3>3 DEF Delimited
            <3>5. ASSUME NEW i \in 1 .. 3 PROVE t[i] # CR /\ (t[i][1] = "head" => Delimited(t, i))
                <4>1. CASE i = 1
                    BY <1>2, <1>10, <3>4, <4>1
                <4>2. CASE i # 1
                    <5>1. t[i] \in {r, LF}
                        BY <1>10, <3>1, <4>2
                    <5>2. QED
                        BY <1>2, <5>1
                <4>3. QED
                    BY <4>1, <4>2
            <3>6. QED
                BY <1>3, <1>11, <3>1, <3>2, <3>5 DEF Lines, Apart
        <2>3. QED
            BY <2>1, <2>2
    <1>14. QED
        BY <1>3, <1>11, <1>12, <1>13

\* Dropping units other than line ends leaves the line ends as dense.
LEMMA DensePicked ==
    ASSUME NEW T, NEW u \in Seq(T), NEW C \in SUBSET (1 .. Len(u)), Dense(u),
           \A i \in 1 .. Len(u) : u[i] = LF => i \in C
    PROVE  Dense(Picked(u, C))
    <1> DEFINE v == Picked(u, C)
               n == Len(v)
               m == Len(u)
    <1>1. /\ n \in Nat /\ m \in Nat
          /\ \A k \in 1 .. n : Nth(C, k) \in C /\ v[k] = u[Nth(C, k)]
        BY PickedFacts, LenProperties
    <1>2. C \in SUBSET Nat /\ IsFiniteSet(C) /\ n = Cardinality(C)
        <2>1. IsFiniteSet(1 .. m)
            <3>1. \A j \in Nat : IsFiniteSet(1 .. j)
                BY FS_Interval
            <3>2. QED
                BY <1>1, <3>1
        <2>2. IsFiniteSet(C)
            BY <2>1, FS_Subset
        <2>3. C \in SUBSET Nat
            BY <1>1
        <2>4. Cardinality(C) \in Nat
            BY <2>2, FS_CardinalityType
        <2>5. QED
            BY <2>2, <2>3, <2>4 DEF Picked
    <1> HIDE DEF v, n, m
    <1>3. \A k \in 1 .. n : Nth(C, k) \in 1 .. m
        BY <1>1 DEF m
    <1>4. \A k, l \in 1 .. n : k < l => Nth(C, k) < Nth(C, l)
        BY <1>2, NthAscends
    <1>5. \A i \in C : \E k \in 1 .. n : Nth(C, k) = i
        BY <1>2, NthFacts
    <1>6. ASSUME NEW i \in 1 .. n PROVE \E k \in 0 .. 3 : i + k <= n /\ v[i + k] = LF
        <2> DEFINE a == Nth(C, i)
        <2>1. a \in 1 .. m
            BY <1>3
        <2>2. PICK k \in 0 .. 3 : a + k <= m /\ u[a + k] = LF
            BY <2>1 DEF Dense, m
        <2>3. a + k \in 1 .. m
            BY <1>1, <2>1, <2>2
        <2>4. a + k \in C
            BY <2>2, <2>3 DEF m
        <2>5. PICK j \in 1 .. n : Nth(C, j) = a + k
            BY <1>5, <2>4
        <2>6. v[j] = LF
            BY <1>1, <2>2, <2>5
        <2> DEFINE g == [l \in 1 .. n |-> Nth(C, l)]
        <2>7. /\ \A l \in 1 .. n : g[l] \in Int
              /\ \A l, o \in 1 .. n : l < o => g[l] < g[o]
              /\ g[i] = a /\ g[j] = a + k
            BY <1>1, <1>3, <1>4, <2>5
        <2> HIDE DEF g, a
        <2>8. j >= i
            <3>1. ASSUME j < i PROVE FALSE
                <4>1. g[j] < g[i]
                    BY <2>7, <3>1
                <4>2. QED
                    BY <1>1, <2>1, <2>7, <4>1
            <3>2. QED
                BY <1>1, <3>1
        <2>9. j <= i + 3
            <3>1. ASSUME j > i + 3 PROVE FALSE
                <4>1. i + 1 \in 1 .. n /\ i + 2 \in 1 .. n /\ i + 3 \in 1 .. n
                    BY <1>1, <3>1
                <4>2. g[i] < g[i + 1] /\ g[i + 1] < g[i + 2] /\ g[i + 2] < g[i + 3] /\ g[i + 3] < g[j]
                    BY <1>1, <2>7, <3>1, <4>1
                <4>3. g[i] \in Int /\ g[i + 1] \in Int /\ g[i + 2] \in Int /\ g[i + 3] \in Int /\ g[j] \in Int
                    BY <2>7, <4>1
                <4>4. g[j] >= g[i] + 4
                    BY <4>2, <4>3
                <4>5. QED
                    BY <1>1, <2>1, <2>7, <4>4
            <3>2. QED
                BY <1>1, <3>1
        <2>10. j - i \in 0 .. 3 /\ i + (j - i) = j /\ j <= n
            BY <1>1, <2>8, <2>9
        <2>11. QED
            BY <2>6, <2>10
    <1>7. QED
        BY <1>6 DEF Dense, v, n

\* Dropping carriage returns between two texts.
LEMMA DenseNormalised ==
    ASSUME NEW x, NEW y, NEW z, x \in Seq(Units), y \in Seq(Units), z \in Seq(Units), Dense(x \o (y \o z))
    PROVE  Dense(x \o (Normalised(y) \o z))
    <1> DEFINE S == {i \in 1 .. Len(y) : ~(y[i] = CR /\ i < Len(y) /\ y[i + 1] = LF)}
               k == Len(x)
               l == Len(y)
               m == Len(z)
               w == y \o z
               u == x \o w
               B == S \cup {i \in 1 .. l + m : i > l}
               C == 1 .. k \cup {i \in 1 .. k + (l + m) : i > k /\ i - k \in B}
    <1>1. k \in Nat /\ l \in Nat /\ m \in Nat
        BY LenProperties
    <1>2. S \in SUBSET (1 .. l) /\ Normalised(y) = Picked(y, S) /\ \A i \in 1 .. l : y[i] = LF => i \in S
        BY DEF Normalised, LF, CR
    <1>3. /\ w \in Seq(Units) /\ Len(w) = l + m /\ (\A i \in 1 .. l : w[i] = y[i])
          /\ \A j \in 1 .. m : w[l + j] = z[j]
        BY JoinAt
    <1> HIDE DEF S, w
    <1>4. /\ u \in Seq(Units) /\ Len(u) = k + Len(w) /\ (\A i \in 1 .. k : u[i] = x[i])
          /\ \A j \in 1 .. Len(w) : u[k + j] = w[j]
        <2>1. w \in Seq(Units)
            BY <1>3
        <2>2. /\ x \o w \in Seq(Units) /\ Len(x \o w) = Len(x) + Len(w) /\ (\A i \in 1 .. Len(x) : (x \o w)[i] = x[i])
              /\ \A j \in 1 .. Len(w) : (x \o w)[Len(x) + j] = w[j]
            BY <2>1, JoinAt
        <2>3. QED
            BY <2>2
    <1> HIDE DEF k, l, m, u
    <1>5. Joins(y, z, S, 1 .. m, B)
        <2>1. B \subseteq 1 .. l + m
            <3>1. ASSUME NEW i \in S PROVE i \in 1 .. l + m
                BY <1>1, <1>2
            <3>2. QED
                BY <3>1
        <2>2. \A i \in 1 .. l : i \in B <=> i \in S
            BY <1>1, <1>2
        <2>3. \A j \in 1 .. m : l + j \in B <=> j \in 1 .. m
            BY <1>1
        <2> HIDE DEF B
        <2>4. QED
            BY <1>2, <1>3, <2>1, <2>2, <2>3 DEF Joins, l, m, w
    <1>6. B \subseteq 1 .. l + m
        BY <1>5, <1>3 DEF Joins, w
    <1>7. \A i \in 1 .. l : y[i] = LF => i \in B
        BY <1>2
    <1>8. \A i \in 1 .. l + m : i > l => i \in B
        OBVIOUS
    <1> HIDE DEF B
    <1>9. Joins(x, w, 1 .. k, B, C)
        <2>1. C \subseteq 1 .. k + (l + m)
            BY <1>1
        <2>2. \A i \in 1 .. k : i \in C <=> i \in 1 .. k
            BY <1>1
        <2>3. \A j \in 1 .. l + m : k + j \in C <=> j \in B
            BY <1>1
        <2> HIDE DEF C
        <2>4. QED
            BY <1>3, <1>4, <1>6, <2>1, <2>2, <2>3 DEF Joins, k, u
    <1>10. C \in SUBSET (1 .. Len(u))
        BY <1>1, <1>3, <1>4
    <1>11. ASSUME NEW i \in 1 .. Len(u), u[i] = LF PROVE i \in C
        <2>1. i \in 1 .. k + (l + m)
            BY <1>3, <1>4
        <2>2. CASE i <= k
            BY <1>1, <2>1, <2>2
        <2>3. CASE i > k
            <3> DEFINE j == i - k
            <3>1. j \in 1 .. l + m /\ k + j = i
                BY <1>1, <2>1, <2>3
            <3> HIDE DEF j
            <3>2. w[j] = LF
                BY <1>3, <1>4, <1>11, <3>1
            <3>3. j \in B
                <4>1. CASE j <= l
                    <5>1. j \in 1 .. l
                        BY <1>1, <3>1, <4>1
                    <5>2. QED
                        BY <1>3, <1>7, <3>2, <5>1
                <4>2. CASE j > l
                    BY <1>8, <3>1, <4>2
                <4>3. QED
                    BY <1>1, <3>1, <4>1, <4>2
            <3>4. QED
                BY <2>1, <2>3, <3>3 DEF j
        <2>4. QED
            BY <1>1, <2>1, <2>2, <2>3
    <1> HIDE DEF C
    <1>12. Dense(Picked(u, C))
        <2>1. Dense(u)
            BY DEF u, w
        <2>2. QED
            BY <1>4, <1>10, <1>11, <2>1, DensePicked
    <1>13. Picked(u, C) = Picked(x, 1 .. k) \o Picked(w, B)
        BY <1>3, <1>9, PickedJoin DEF u
    <1>14. Picked(w, B) = Picked(y, S) \o Picked(z, 1 .. m)
        BY <1>5, PickedJoin DEF w
    <1>15. Picked(x, 1 .. k) = x /\ Picked(z, 1 .. m) = z
        BY PickedAll DEF k, m
    <1>16. QED
        BY <1>2, <1>12, <1>13, <1>14, <1>15

\* Over LF nothing is dropped.
LEMMA NormalisedPlain ==
    ASSUME NEW t, t \in Seq(Units), \A i \in 1 .. Len(t) : t[i] # CR
    PROVE  Normalised(t) = t
    <1>1. {i \in 1 .. Len(t) : ~(t[i] = CR /\ i < Len(t) /\ t[i + 1] = LF)} = 1 .. Len(t)
        OBVIOUS
    <1>2. Normalised(t) = Picked(t, 1 .. Len(t))
        BY <1>1 DEF Normalised
    <1>3. QED
        BY <1>2, PickedAll

LEMMA ChunkLines ==
    ASSUME buf \in Seq(Units), utf8Tail \in Seq(Units), wire \in Seq(Units), NEW n \in 1 .. Len(wire),
           Lines(buf \o (utf8Tail \o wire)), ChunkText(n) \in Seq(Units)
    PROVE  Lines(ChunkText(n) \o ChunkKept(n))
    <1> DEFINE k == ChunkKept(n)
    <1>1. PICK dec \in Seq(Units) :
                /\ k \in Seq(Units) /\ utf8Tail \o wire = dec \o k
                /\ ChunkText(n) = buf \o Normalised(dec)
        BY ChunkSplit
    <1> HIDE DEF k
    <1> DEFINE norm == Normalised(dec)
               u == buf \o (dec \o k)
    <1>2. norm \in Seq(Units)
        BY NormalisedFacts
    <1>3. Dense(u) /\ (~ stream.crlf => Apart(u))
        BY <1>1 DEF Lines
    <1>4. Dense(buf \o (norm \o k))
        BY <1>1, <1>3, DenseNormalised
    <1>5. ASSUME ~ stream.crlf PROVE norm = dec
        <2> DEFINE l == Len(dec)
                   w == dec \o k
                   m == Len(buf)
        <2>1. l \in Nat /\ m \in Nat /\ Len(k) \in Nat
            BY <1>1, LenProperties
        <2>2. w \in Seq(Units) /\ Len(w) = l + Len(k) /\ \A i \in 1 .. l : w[i] = dec[i]
            BY <1>1, JoinAt
        <2> HIDE DEF w
        <2>3. Len(buf \o w) = m + Len(w) /\ \A j \in 1 .. Len(w) : (buf \o w)[m + j] = w[j]
            <3>1. w \in Seq(Units)
                BY <2>2
            <3>2. /\ Len(buf \o w) = Len(buf) + Len(w)
                  /\ \A j \in 1 .. Len(w) : (buf \o w)[Len(buf) + j] = w[j]
                BY <3>1, JoinAt
            <3>3. QED
                BY <3>2
        <2>4. u = buf \o w
            BY DEF w
        <2> HIDE DEF u, l, m
        <2>5. ASSUME NEW i \in 1 .. l PROVE dec[i] # CR
            <3>1. i \in 1 .. Len(w) /\ m + i \in 1 .. m + Len(w)
                BY <2>1, <2>2
            <3>2. u[m + i] = dec[i] /\ m + i \in 1 .. Len(u)
                BY <2>2, <2>3, <2>4, <3>1
            <3>3. QED
                BY <1>3, <1>5, <3>2 DEF Apart
        <2>6. QED
            BY <2>5, NormalisedPlain DEF l
    <1> HIDE DEF norm
    <1>6. ~ stream.crlf => Apart(buf \o (norm \o k))
        BY <1>3, <1>5
    <1>7. buf \o (norm \o k) = (buf \o norm) \o k
        <2>1. Associates(buf, norm, k)
            BY <1>1, <1>2, Regroup
        <2>2. QED
            BY <2>1 DEF Associates
    <1>8. QED
        BY <1>1, <1>4, <1>6, <1>7 DEF Lines, norm, k

\* Over LF a text without a delimiter holds at most one event.
LEMMA OneEvent ==
    ASSUME NEW b, NEW k, b \in Seq(Units), k \in Seq(Units), Delimiters(b) = {}, Apart(b \o k)
    PROVE  Len(EventsOf(b)) <= 1
    <1> DEFINE S == {i \in 1 .. Len(b) : /\ b[i][1] = "head"
                                         /\ i < Len(b)
                                         /\ b[i + 1][1] = "rest"}
               whole == Picked(b, S)
               m == Len(b)
               u == b \o k
    <1>1. m \in Nat /\ Len(k) \in Nat
        BY LenProperties
    <1>2. Len(u) = m + Len(k) /\ \A i \in 1 .. m : u[i] = b[i]
        BY JoinAt
    <1>3. LF[1] # "head"
        BY UnitFacts
    <1> HIDE DEF u
    <1>4. ASSUME NEW i \in S, NEW j \in S, i < j PROVE FALSE
        <2>1. i \in 1 .. m /\ j \in 1 .. m /\ b[i][1] = "head" /\ b[j][1] = "head"
            OBVIOUS
        <2> HIDE DEF S, m
        <2>2. u[i] = b[i] /\ u[j] = b[j] /\ i \in 1 .. Len(u)
            BY <1>1, <1>2, <2>1
        <2>3. Delimited(u, i)
            BY <2>1, <2>2 DEF Apart, u
        <2>4. u[i + 1][1] # "head" /\ \A l \in 1 .. DelimLen : u[i + 1 + l] = LF
            BY <2>3 DEF Delimited
        <2>5. j # i + 1 /\ \A l \in 1 .. DelimLen : j # i + 1 + l
            BY <1>3, <2>1, <2>2, <2>4
        <2>6. j > i + 1 + DelimLen
            <3>1. CASE DelimLen = 1
                <4>1. j # i + 1 + 1
                    BY <2>5, <3>1
                <4>2. QED
                    BY <1>1, <1>4, <2>1, <2>5, <3>1, <4>1
            <3>2. CASE DelimLen = 2
                <4>1. j # i + 1 + 1 /\ j # i + 1 + 2
                    BY <2>5, <3>2
                <4>2. QED
                    BY <1>1, <1>4, <2>1, <2>5, <3>2, <4>1
            <3>3. QED
                BY <3>1, <3>2, DelimLenIs
        <2>7. ASSUME NEW l \in 0 .. DelimLen - 1 PROVE (i + 2) + l <= m /\ b[(i + 2) + l] = LF
            <3>1. l + 1 \in 1 .. DelimLen /\ i + 1 + (l + 1) = (i + 2) + l /\ (i + 2) + l \in 1 .. m
                BY <1>1, <2>1, <2>6, DelimLenIs
            <3>2. u[(i + 2) + l] = LF
                BY <2>4, <3>1
            <3>3. QED
                BY <1>1, <1>2, <3>1, <3>2
        <2>8. i + 2 \in 1 .. m
            BY <1>1, <2>1, <2>6, DelimLenIs
        <2>9. i + 2 \in Delimiters(b)
            BY <2>7, <2>8 DEF Delimiters, m
        <2>10. QED
            BY <2>9
    <1>5. S \in SUBSET (1 .. Len(b))
        OBVIOUS
    <1>6. EventsOf(b) = [l \in 1 .. Len(whole) |-> whole[l][2]]
        BY DEF EventsOf
    <1> HIDE DEF S, whole
    <1>7. /\ Len(whole) \in Nat
          /\ \A l \in 1 .. Len(whole) : Nth(S, l) \in S
          /\ \A l, o \in 1 .. Len(whole) : Nth(S, l) = Nth(S, o) => l = o
        BY <1>5, PickedFacts DEF whole
    <1>8. Len(EventsOf(b)) = Len(whole)
        <2> DEFINE o == Len(whole)
        <2> HIDE DEF o
        <2>1. o \in Nat /\ EventsOf(b) = [l \in 1 .. o |-> whole[l][2]]
            BY <1>6, <1>7 DEF o
        <2>2. Len(EventsOf(b)) = o
            BY <2>1
        <2>3. QED
            BY <2>2 DEF o
    <1>9. ASSUME Len(whole) > 1 PROVE FALSE
        <2>1. 1 \in 1 .. Len(whole) /\ 2 \in 1 .. Len(whole)
            BY <1>7, <1>9
        <2>2. Nth(S, 1) \in S /\ Nth(S, 2) \in S /\ Nth(S, 1) # Nth(S, 2)
            BY <1>7, <2>1
        <2>3. Nth(S, 1) \in Nat /\ Nth(S, 2) \in Nat
            <3>1. \A i \in 1 .. Len(b) : i \in Nat
                BY <1>1
            <3>2. QED
                BY <1>5, <2>2, <3>1
        <2>4. Nth(S, 1) < Nth(S, 2) \/ Nth(S, 2) < Nth(S, 1)
            BY <2>2, <2>3
        <2>5. QED
            BY <1>4, <2>2, <2>4
    <1>10. QED
        BY <1>7, <1>8, <1>9

\* No delimiter is left after the last frame.
LEMMA RestPlain ==
    ASSUME stream \in Streams, NEW text, text \in Seq(Units)
    PROVE  Delimiters(SubSeq(text, FramesEnd(text) + 1, Len(text))) = {}
    <1> DEFINE end == FramesEnd(text)
               rest == SubSeq(text, end + 1, Len(text))
               n == Len(text)
               D == Delimiters(text)
    <1>1. end \in 0 .. Len(text) /\ end \in 0 .. n /\ n \in Nat /\ DelimLen \in {1, 2}
        BY FramesEndFacts, LenProperties, DelimLenIs
    <1>2. \A j \in D : j + (DelimLen - 1) <= end
        BY FramesEndFacts
    <1> HIDE DEF end, D
    <1>3. /\ Len(rest) = Len(text) - end
          /\ \A i \in 1 .. Len(text) - end : rest[i] = text[end + i]
        BY <1>1, CutInTwo
    <1> HIDE DEF rest
    <1>4. ASSUME NEW i \in Delimiters(rest) PROVE FALSE
        <2>1. i \in 1 .. n - end /\ \A l \in 0 .. DelimLen - 1 : i + l <= n - end /\ rest[i + l] = LF
            BY <1>3, <1>4 DEF Delimiters
        <2> HIDE DEF n
        <2>2. ASSUME NEW l \in 0 .. DelimLen - 1 PROVE (end + i) + l <= n /\ text[(end + i) + l] = LF
            <3>1. i \in Nat /\ l \in Nat /\ i >= 1 /\ i + l <= n - end /\ end \in Nat
                BY <1>1, <2>1
            <3>2. i + l \in 1 .. n - end /\ end + (i + l) = (end + i) + l /\ (end + i) + l <= n
                BY <1>1, <3>1
            <3>3. QED
                BY <1>3, <2>1, <3>2 DEF n
        <2>3. end + i \in 1 .. n
            BY <1>1, <2>1 DEF n
        <2>4. end + i \in D
            BY <2>2, <2>3 DEF Delimiters, D, n
        <2>5. (end + i) + (DelimLen - 1) <= end
            BY <1>2, <2>4
        <2>6. QED
            BY <1>1, <2>1, <2>5
    <1>5. QED
        BY <1>4 DEF rest, end

\* What is left in the buffer: whole lines with what follows, within the limit.
LEMMA LeftFacts ==
    ASSUME stream \in Streams, NEW text, NEW k, text \in Seq(Units), k \in Seq(Units), Lines(text \o k)
    PROVE  /\ Lines(Left(text) \o k)
           /\ Len(Left(text)) <= BufMax
           /\ ~ stream.crlf => Len(EventsOf(Left(text))) <= 1
    <1> DEFINE end == FramesEnd(text)
               a == SubSeq(text, 1, end)
               rest == SubSeq(text, end + 1, Len(text))
               c == CutAt(rest)
               b == SubSeq(rest, c + 1, Len(rest))
    <1>1. Left(text) = IF Len(rest) > BufMax THEN b ELSE rest
        BY DEF Left
    <1>2. Delimiters(rest) = {}
        BY RestPlain
    <1>3. a \in Seq(Units) /\ rest \in Seq(Units) /\ text = a \o rest
        <2>1. end \in 0 .. Len(text)
            BY FramesEndFacts
        <2> HIDE DEF end
        <2>2. QED
            BY <2>1, CutInTwo
    <1> HIDE DEF end, a, rest
    <1>4. Lines(rest \o k)
        <2>1. Associates(a, rest, k) /\ rest \o k \in Seq(Units)
            BY <1>3, Regroup, ConcatProperties
        <2>2. Lines(a \o (rest \o k))
            BY <1>3, <2>1 DEF Associates
        <2>3. QED
            BY <1>3, <2>1, <2>2, LinesSuffix
    <1>5. Len(rest) \in Nat /\ BufMax \in Nat /\ BufMax >= 3
        BY <1>3, LenProperties, StreamAssumption
    <1>6. CASE ~ (Len(rest) > BufMax)
        <2>1. Left(text) = rest
            BY <1>1, <1>6
        <2>2. ~ stream.crlf => Len(EventsOf(rest)) <= 1
            BY <1>2, <1>3, <1>4, OneEvent DEF Lines
        <2>3. QED
            BY <1>4, <1>5, <1>6, <2>1, <2>2
    <1>7. CASE Len(rest) > BufMax
        <2>1. c \in 1 .. Len(rest) + 1 /\ \A j \in c + 1 .. Len(rest) : rest[j] # LF
            BY <1>3, CutAtFacts
        <2> HIDE DEF c
        <2>2. /\ b \in Seq(Units) /\ Len(b) = (IF c = Len(rest) + 1 THEN 0 ELSE Len(rest) - c)
              /\ \A i \in 1 .. Len(b) : b[i] = rest[c + i]
            BY <1>3, <2>1, CutLeaves
        <2>3. \E p \in Seq(Units) : rest = p \o b
            <3>1. CASE c = Len(rest) + 1
                <4>1. Len(b) = 0
                    BY <2>2, <3>1
                <4>2. b = <<>>
                    BY <2>2, <4>1, EmptySeq
                <4>3. rest \o <<>> = rest
                    BY <1>3, ConcatEmptySeq
                <4> HIDE DEF b
                <4>4. rest = rest \o b
                    BY <4>2, <4>3
                <4>5. QED
                    BY <1>3, <4>4
            <3>2. CASE c # Len(rest) + 1
                <4>1. c \in 0 .. Len(rest)
                    BY <1>5, <2>1, <3>2
                <4>2. SubSeq(rest, 1, c) \in Seq(Units) /\ rest = SubSeq(rest, 1, c) \o b
                    BY <1>3, <4>1, CutInTwo
                <4>3. QED
                    BY <4>2
            <3>3. QED
                BY <3>1, <3>2
        <2> HIDE DEF b
        <2>4. PICK p \in Seq(Units) : rest = p \o b
            BY <2>3
        <2>5. Lines(b \o k)
            <3>1. Associates(p, b, k) /\ b \o k \in Seq(Units)
                BY <2>2, Regroup, ConcatProperties
            <3>2. Lines(p \o (b \o k))
                BY <1>4, <2>4, <3>1 DEF Associates
            <3>3. QED
                BY <3>1, <3>2, LinesSuffix
        <2>6. Len(b) \in Nat
            BY <2>2, LenProperties
        <2>7. \A i \in 1 .. Len(b) : b[i] # LF
            <3>1. ASSUME NEW i \in 1 .. Len(b) PROVE c + i \in c + 1 .. Len(rest)
                BY <1>5, <2>1, <2>2
            <3>2. QED
                BY <2>1, <2>2, <3>1
        <2>8. Delimiters(b) = {}
            <3>1. ASSUME NEW i \in Delimiters(b) PROVE FALSE
                <4>1. 0 \in 0 .. DelimLen - 1
                    BY DelimLenIs
                <4>2. i \in 1 .. Len(b) /\ b[i + 0] = LF
                    BY <4>1 DEF Delimiters
                <4>3. i + 0 = i
                    BY <2>6, <4>2
                <4>4. QED
                    BY <2>7, <4>2, <4>3
            <3>2. QED
                BY <3>1
        <2>9. Len(b) <= 3
            <3>1. ASSUME Len(b) > 3 PROVE FALSE
                <4> DEFINE u == b \o k
                <4>1. Len(k) \in Nat
                    BY LenProperties
                <4>2. Len(u) = Len(b) + Len(k) /\ \A i \in 1 .. Len(b) : u[i] = b[i]
                    BY <2>2, JoinAt, ZenonT(30)
                <4>3. Dense(u)
                    BY <2>5 DEF Lines
                <4> HIDE DEF u
                <4>4. 1 \in 1 .. Len(u)
                    BY <2>6, <3>1, <4>1, <4>2
                <4>5. PICK l \in 0 .. 3 : u[1 + l] = LF
                    BY <4>3, <4>4 DEF Dense
                <4>6. 1 + l \in 1 .. Len(b)
                    BY <2>6, <3>1
                <4>7. QED
                    BY <2>7, <4>2, <4>5, <4>6
            <3>2. QED
                BY <2>6, <3>1
        <2>10. ~ stream.crlf => Len(EventsOf(b)) <= 1
            BY <2>2, <2>5, <2>8, OneEvent DEF Lines
        <2>11. Left(text) = b
            BY <1>1, <1>7
        <2>12. QED
            BY <1>5, <2>5, <2>6, <2>9, <2>10, <2>11
    <1>8. QED
        BY <1>6, <1>7

\* What is on its way is whole lines at its end, whatever has been taken off.
LinesInv == (~ ended => Lines(buf \o (utf8Tail \o wire))) /\ BufferBounded

LEMMA LinesPrimed ==
    ASSUME stream' = stream, NEW CONSTANT u, Lines(u)
    PROVE  Lines(u)'
    BY DEF Lines, Dense, Apart, Delimited, DelimLen

LEMMA EmptyBuffer ==
    ASSUME NEW buffer, buffer = <<>>
    PROVE  Len(buffer) <= BufMax /\ Len(EventsOf(buffer)) <= 1
    <1> DEFINE b == buffer
    <1>1. b \in Seq(Units) /\ Len(b) = 0
        BY EmptySeq
    <1> HIDE DEF b
    <1>2. Len(EventsOf(b)) <= 1
        <2> DEFINE S == {i \in 1 .. Len(b) : b[i][1] = "head" /\ i < Len(b) /\ b[i + 1][1] = "rest"}
        <2>1. S = {}
            BY <1>1
        <2>2. EventsOf(b) = [l \in 1 .. Len(Picked(b, S)) |-> Picked(b, S)[l][2]]
            BY DEF EventsOf
        <2> HIDE DEF S
        <2>3. /\ Len(Picked(b, S)) \in Nat /\ \A l \in 1 .. Len(Picked(b, S)) : Nth(S, l) \in S
            <3>1. S \in SUBSET (1 .. Len(b))
                BY <2>1
            <3>2. QED
                BY <1>1, <3>1, PickedFacts
        <2> DEFINE o == Len(Picked(b, S))
        <2> HIDE DEF o
        <2>4. o \in Nat /\ EventsOf(b) = [l \in 1 .. o |-> Picked(b, S)[l][2]] /\ (\A l \in 1 .. o : Nth(S, l) \in S)
            BY <2>2, <2>3 DEF o
        <2>5. Len(EventsOf(b)) = o
            BY <2>4
        <2>6. o = 0
            <3>1. ASSUME o # 0 PROVE FALSE
                <4>1. 1 \in 1 .. o
                    BY <2>4, <3>1
                <4>2. QED
                    BY <2>1, <2>4, <4>1
            <3>2. QED
                BY <3>1
        <2>7. QED
            BY <2>5, <2>6
    <1>3. Len(b) <= BufMax
        BY <1>1, StreamAssumption
    <1>4. QED
        BY <1>2, <1>3 DEF b

LEMMA NextLines ==
    ASSUME Inv, LinesInv, [Next]_vars
    PROVE  LinesInv'
    <1>1. stream \in Streams
        BY DEF Inv
    <1>2. CASE SendDelta \/ SendStop \/ SendAll \/ SendDone
        <2>1. PICK kind, of, take, fs : Sends(kind, of, take, fs)
            BY <1>1, <1>2, SendKinds
        <2>2. ~ ended /\ stream' = stream /\ utf8Tail' = utf8Tail /\ buf' = buf
            BY <2>1, SendStep
        <2>3. PICK e \in Events : wire' = wire \o Encode(e)
            BY <2>1, SendStep
        <2>4. buf \in Seq(Units) /\ utf8Tail \in Seq(Units) /\ wire \in Seq(Units)
            BY DEF Inv
        <2> DEFINE t == Encode(e)
                   u == buf \o (utf8Tail \o wire)
        <2>5. t \in Seq(Units) /\ Lines(t)
            BY <1>1, LinesEncode
        <2>6. wire' = wire \o t
            BY <2>3
        <2> HIDE DEF t
        <2>7. utf8Tail \o wire \in Seq(Units) /\ u \in Seq(Units)
            BY <2>4, ConcatProperties
        <2>8. Lines(u)
            BY <2>2 DEF LinesInv
        <2>9. u \o t = buf' \o (utf8Tail' \o wire')
            <3>1. Associates(buf, utf8Tail \o wire, t) /\ Associates(utf8Tail, wire, t)
                BY <2>4, <2>5, <2>7, Regroup
            <3>2. QED
                BY <2>2, <2>6, <3>1 DEF Associates
        <2> HIDE DEF u
        <2>10. Lines(u \o t)
            BY <2>5, <2>7, <2>8, LinesJoin
        <2>11. Lines(buf' \o (utf8Tail' \o wire'))
            BY <2>9, <2>10
        <2>12. Lines(buf \o (utf8Tail \o wire))'
            BY <2>2, <2>11, LinesPrimed
        <2>13. BufferBounded'
            BY <2>2 DEF LinesInv, BufferBounded, EventsOf
        <2>14. QED
            BY <2>12, <2>13 DEF LinesInv
    <1>3. CASE Receive
        <2>1. PICK n \in 1 .. Len(wire), hit \in {FALSE, CanBlock} : Push(n, hit)
            BY <1>3 DEF Receive
        <2> DEFINE text == ChunkText(n)
                   k == ChunkKept(n)
                   kept == Kept(utf8Tail \o SubSeq(wire, 1, n))
                   y == SubSeq(wire, n + 1, Len(wire))
        <2>2. ~ ended /\ wire' = y /\ utf8Tail' = kept /\ buf' = Left(text) /\ stream' = stream
            BY <2>1 DEF Push, ChunkText, Left, upstream
        <2>3. /\ buf \in Seq(Units) /\ utf8Tail \in Seq(Units) /\ wire \in Seq(Units)
              /\ Flow(closed, stopped, buf \o (utf8Tail \o wire))
            BY <2>2 DEF Inv
        <2>4. text \in Seq(Units) /\ k \in Seq(Units) /\ k = kept \o y
            BY <2>3, ChunkFacts DEF ChunkKept
        <2>5. Lines(text \o k)
            BY <2>2, <2>3, <2>4, ChunkLines DEF LinesInv
        <2> HIDE DEF text, k, kept, y
        <2>6. /\ Lines(Left(text) \o k)
              /\ Len(Left(text)) <= BufMax
              /\ ~ stream.crlf => Len(EventsOf(Left(text))) <= 1
            BY <1>1, <2>4, <2>5, LeftFacts
        <2>7. Lines(buf' \o (utf8Tail' \o wire'))
            BY <2>2, <2>4, <2>6
        <2>8. Lines(buf \o (utf8Tail \o wire))'
            BY <2>2, <2>7, LinesPrimed
        <2>9. BufferBounded'
            <3>1. EventsOf(buf)' = EventsOf(buf')
                BY DEF EventsOf
            <3>2. QED
                BY <2>2, <2>6, <3>1 DEF BufferBounded
        <2>10. QED
            BY <2>8, <2>9 DEF LinesInv
    <1>4. CASE Finish
        <2>1. ended' = TRUE /\ buf' = <<>>
            BY <1>4 DEF Finish
        <2>2. BufferBounded'
            <3>1. Len(buf') <= BufMax /\ Len(EventsOf(buf')) <= 1
                BY <2>1, EmptyBuffer
            <3>2. EventsOf(buf)' = EventsOf(buf')
                BY DEF EventsOf
            <3>3. QED
                BY <3>1, <3>2 DEF BufferBounded
        <2>3. QED
            BY <2>1, <2>2 DEF LinesInv
    <1>5. CASE UNCHANGED vars
        <2>1. /\ stream' = stream /\ wire' = wire /\ utf8Tail' = utf8Tail /\ buf' = buf /\ ended' = ended
            BY <1>5 DEF vars, upstream, received
        <2>2. ~ ended' => Lines(buf' \o (utf8Tail' \o wire'))
            BY <2>1 DEF LinesInv
        <2>3. ~ ended' => Lines(buf \o (utf8Tail \o wire))'
            BY <2>1, <2>2, LinesPrimed
        <2>4. BufferBounded'
            BY <2>1 DEF LinesInv, BufferBounded, EventsOf
        <2>5. QED
            BY <2>3, <2>4 DEF LinesInv
    <1>6. QED
        BY <1>2, <1>3, <1>4, <1>5 DEF Next

\* The buffer never grows past its limit, however the chunks are cut and
\* whatever delimiters are torn apart, as long as a single line fits it; over LF
\* it never holds two whole events (BufferBounded: push, SSE_BUF_MAX).
THEOREM BufferStaysBounded == Spec => []BufferBounded
    <1>1. Init => LinesInv
        <2>1. SUFFICES ASSUME Init PROVE LinesInv
            OBVIOUS
        <2>2. buf = <<>> /\ utf8Tail = <<>> /\ wire = <<>>
            BY <2>1 DEF Init
        <2>3. buf \o (utf8Tail \o wire) = <<>>
            BY <2>2
        <2>4. Lines(<<>>)
            BY DEF Lines, Dense, Apart
        <2>5. BufferBounded
            BY <2>2, EmptyBuffer DEF BufferBounded
        <2>6. QED
            BY <2>3, <2>4, <2>5 DEF LinesInv
    <1>2. Inv /\ LinesInv /\ [Next]_vars => LinesInv'
        BY NextLines
    <1>3. LinesInv => BufferBounded
        BY DEF LinesInv
    <1>4. QED
        BY <1>1, <1>2, <1>3, InvHolds, PTL DEF Spec

=============================================================================
