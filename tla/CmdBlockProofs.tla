--------------------------- MODULE CmdBlockProofs ---------------------------
(***************************************************************************)
(* Proofs about CmdBlock, for any rules, settings, answers and limits.     *)
(***************************************************************************)
EXTENDS CmdBlock, SequenceTheorems, NaturalLemmas, TLAPS

-----------------------------------------------------------------------------
(* The inductive invariant.                                                *)

Ids == {Patterns[k].id : k \in Rules}

\* Text is handed over in whole characters.
FedWhole == Boundary(script, fed)

\* As long as nothing is blocked, the hold is the end of what came in.
Placed ==
    ~cmd_blocked =>
        /\ Len(cmd_pend) <= fed
        /\ \A i \in 1 .. Len(cmd_pend) : cmd_pend[i] = script[(fed - Len(cmd_pend)) + i]

\* The command c is part of the first n bytes of the answer.
CameBy(n, c) ==
    \E i \in 1 .. n : /\ i + Len(c) - 1 <= n
                      /\ \A j \in 1 .. Len(c) : script[i + j - 1] = c[j]

\* Every hit has the verdict of the engine's mode, and the response has the
\* verdict of its hits.
Verdicts ==
    /\ \A h \in cmd_hits : h.blocked <=> engine.mode = "block"
    /\ cmd_blocked <=> engine.mode = "block" /\ cmd_hits # {}

HitsCameIn == \A h \in cmd_hits : CameBy(fed, h.snippet)

\* Nothing was rewritten so far: that takes an engine that rewrites, and a hit.
Plain == engine.mode # "rewrite" \/ cmd_hits = {}

\* Until then only bytes are put out, the first ones of the answer; and all that
\* came in but for the hold.
OutPlain == Plain => out \in Seq(Bytes)

OutPlaced ==
    Plain =>
        /\ path = "stream" \/ ~cmd_blocked =>
              Len(out) <= fed /\ \A i \in 1 .. Len(out) : out[i] = script[i]
        /\ ~panicked /\ ~cmd_blocked => Len(out) = fed - Len(cmd_pend)

IInv ==
    /\ TypeOK
    /\ FedWhole
    /\ Placed
    /\ HoldBounded
    /\ Verdicts
    /\ HitsCameIn
    /\ OutPlain
    /\ OutPlaced

-----------------------------------------------------------------------------
(* Texts and their parts.                                                  *)

\* Parts of a sequence, element by element.
LEMMA PartFacts ==
    ASSUME NEW S, NEW t \in Seq(S), NEW m \in 1 .. Len(t) + 1, NEW n \in m - 1 .. Len(t)
    PROVE  /\ SubSeq(t, m, n) \in Seq(S)
           /\ Len(SubSeq(t, m, n)) = (n - m) + 1
           /\ \A i \in 1 .. (n - m) + 1 : SubSeq(t, m, n)[i] = t[(m - 1) + i]
    <1>1. Len(t) \in Nat /\ m \in Int /\ n \in Int /\ n >= m - 1
        BY LenProperties
    <1>2. \A i \in m .. n : t[i] \in S
        BY <1>1, ElementOfSeq
    <1>3. /\ SubSeq(t, m, n) \in Seq(S)
          /\ Len(SubSeq(t, m, n)) = IF m <= n THEN n - m + 1 ELSE 0
          /\ \A i \in 1 .. n - m + 1 : SubSeq(t, m, n)[i] = t[m + i - 1]
        BY <1>1, <1>2, SubSeqProperties
    <1>4. \A i \in Int : m + i - 1 = (m - 1) + i
        BY <1>1
    <1>5. QED
        BY <1>1, <1>3, <1>4

\* A command occurs where its bytes are.
LEMMA OccursFacts ==
    ASSUME NEW t \in Seq(Bytes), NEW c \in Seq(Bytes), NEW i \in 1 .. Len(t)
    PROVE  Occurs(t, i, c) <=>
             i + Len(c) - 1 <= Len(t) /\ \A j \in 1 .. Len(c) : t[i + j - 1] = c[j]
    <1>1. Len(t) \in Nat /\ Len(c) \in Nat /\ i \in Nat \ {0}
        BY LenProperties
    <1>2. ASSUME i + Len(c) - 1 <= Len(t)
          PROVE  SubSeq(t, i, i + Len(c) - 1) = c <=> \A j \in 1 .. Len(c) : t[i + j - 1] = c[j]
        <2> DEFINE n == i + Len(c) - 1
                   p == SubSeq(t, i, n)
        <2>1. n \in i - 1 .. Len(t) /\ i \in 1 .. Len(t) + 1 /\ (n - i) + 1 = Len(c)
            BY <1>1, <1>2
        <2>2. /\ p \in Seq(Bytes) /\ Len(p) = (n - i) + 1
              /\ \A j \in 1 .. (n - i) + 1 : p[j] = t[(i - 1) + j]
            BY <2>1, PartFacts
        <2> HIDE DEF n, p
        <2>3. Len(p) = Len(c) /\ \A j \in 1 .. Len(c) : p[j] = t[(i - 1) + j]
            BY <2>1, <2>2
        <2>4. \A j \in 1 .. Len(c) : (i - 1) + j = i + j - 1
            BY <1>1
        <2>5. \A j \in 1 .. Len(c) : p[j] = t[i + j - 1]
            BY <2>3, <2>4
        <2>6. p = c <=> \A j \in 1 .. Len(c) : p[j] = c[j]
            BY <2>2, <2>3, SeqEqual
        <2>7. QED
            BY <2>5, <2>6 DEF p, n
    <1>3. QED
        BY <1>2 DEF Occurs

LEMMA CommandTypes ==
    /\ Rules \subseteq Nat
    /\ Commands \subseteq Seq(Bytes)
    /\ \A k \in Rules : Patterns[k].commands \subseteq Commands /\ Patterns[k].id \in Ids
    BY CmdAssumption DEF Rules, Commands, Ids

\* What find finds is a command of some rule, and it is in the text.
LEMMA FindFacts ==
    ASSUME NEW t \in Seq(Bytes), NEW h \in Find(t)
    PROVE  /\ h.id \in Ids /\ h.snippet \in Commands
           /\ \E i \in 1 .. Len(t) : /\ i + Len(h.snippet) - 1 <= Len(t)
                                     /\ \A j \in 1 .. Len(h.snippet) : t[i + j - 1] = h.snippet[j]
    <1> DEFINE w == Window(t)
    <1>1. PICK k \in Hitting(t) : h = HitOf(t, k)
        BY DEF Find
    <1>2. k \in Rules /\ Matches(w, Patterns[k]) # {}
        BY DEF Hitting, Enabled
    <1>3. Len(t) \in Nat /\ ScanMax \in Nat
        BY LenProperties, CmdAssumption
    <1>4. w \in Seq(Bytes) /\ Len(w) \in Nat /\ Len(w) <= Len(t) /\ \A i \in 1 .. Len(w) : w[i] = t[i]
        <2> DEFINE n == IF Len(t) > ScanMax THEN ScanMax ELSE Len(t)
        <2>1. n \in 1 - 1 .. Len(t) /\ 1 \in 1 .. Len(t) + 1 /\ n \in Nat /\ n <= Len(t) /\ (n - 1) + 1 = n
            BY <1>3
        <2>2. /\ w \in Seq(Bytes) /\ Len(w) = (n - 1) + 1
              /\ \A i \in 1 .. (n - 1) + 1 : w[i] = t[(1 - 1) + i]
            BY <2>1, PartFacts DEF Window
        <2> HIDE DEF n, w
        <2>3. \A i \in 1 .. n : (1 - 1) + i = i
            BY <2>1
        <2>4. QED
            BY <2>1, <2>2, <2>3
    <1> HIDE DEF w
    <1> DEFINE M == Matches(w, Patterns[k])
    <1>5. \A ic \in M : /\ ic[1] \in 1 .. Len(w) /\ ic[2] \in Patterns[k].commands
                        /\ Occurs(w, ic[1], ic[2])
        BY DEF Matches
    <1>6. PICK ic \in M : FirstMatch(w, Patterns[k]) = ic[2]
        <2> DEFINE P == {ic[1] : ic \in M}
        <2>1. P \in SUBSET Nat /\ P # {}
            BY <1>2, <1>4, <1>5
        <2>2. PICK p \in P : \A q \in P : p <= q
            BY <2>1, LeastElement
        <2>3. \E ic \in M : \A jd \in M : ic[1] <= jd[1]
            BY <2>2
        <2>4. QED
            BY <2>3 DEF FirstMatch
    <1>7. h.id = Patterns[k].id /\ h.snippet = ic[2]
        BY <1>1, <1>6 DEF HitOf, w
    <1>8. ic[2] \in Commands /\ ic[2] \in Seq(Bytes) /\ Patterns[k].id \in Ids
        BY <1>2, <1>5, CommandTypes
    <1>9. ic[1] + Len(ic[2]) - 1 <= Len(w) /\ \A j \in 1 .. Len(ic[2]) : w[ic[1] + j - 1] = ic[2][j]
        BY <1>4, <1>5, <1>8, OccursFacts
    <1>10. Len(ic[2]) \in Nat /\ ic[1] \in Nat \ {0} /\ ic[1] \in 1 .. Len(t)
        BY <1>3, <1>4, <1>5, <1>8, LenProperties
    <1>11. ASSUME NEW j \in 1 .. Len(ic[2]) PROVE t[ic[1] + j - 1] = ic[2][j]
        <2>1. ic[1] + j - 1 \in 1 .. Len(w)
            BY <1>4, <1>9, <1>10
        <2>2. QED
            BY <1>4, <1>9, <2>1
    <1>12. ic[1] + Len(ic[2]) - 1 <= Len(t)
        BY <1>3, <1>4, <1>9, <1>10
    <1>13. QED
        BY <1>7, <1>8, <1>10, <1>11, <1>12

\* The cut of a text that goes on is at a character, and leaves at most
\* HoldMax bytes and the rest of a character to be held.
LEMMA SplitFacts ==
    ASSUME NEW t \in Seq(Bytes), Len(t) > HoldMax, t[1] # "w2",
           \A i \in 1 .. Len(t) - 1 : ~ (t[i] = "w2" /\ t[i + 1] = "w2")
    PROVE  /\ SplitAt(t) \in 0 .. Len(t)
           /\ Boundary(t, SplitAt(t))
           /\ Len(t) - SplitAt(t) <= HoldMax + 1
    <1> DEFINE cut == Len(t) - HoldMax
               Good(n) == Boundary(t, n) /\ \A k \in n + 1 .. cut : ~ Boundary(t, k)
    <1>1. Len(t) \in Nat /\ HoldMax \in Nat
        BY LenProperties, CmdAssumption
    <1>2. cut \in Nat \ {0} /\ cut <= Len(t) /\ Len(t) - cut = HoldMax
        BY <1>1
    <1>3. SplitAt(t) = CHOOSE n \in 0 .. cut : Good(n)
        BY DEF SplitAt
    <1>4. CASE Boundary(t, cut)
        <2>1. cut \in 0 .. cut /\ Good(cut)
            BY <1>2, <1>4
        <2> HIDE DEF Good
        <2>2. SplitAt(t) \in 0 .. cut /\ Good(SplitAt(t))
            BY <1>3, <2>1
        <2> USE DEF Good
        <2>3. ~ (cut \in SplitAt(t) + 1 .. cut)
            BY <1>4, <2>2
        <2> HIDE DEF cut
        <2>4. SplitAt(t) = cut
            BY <1>2, <2>2, <2>3
        <2>5. QED
            BY <1>1, <1>2, <1>4, <2>4
    <1>5. CASE ~ Boundary(t, cut)
        <2> HIDE DEF cut
        <2>1. cut < Len(t) /\ t[cut + 1] = "w2"
            BY <1>1, <1>2, <1>5 DEF Boundary
        <2>2. cut \in 1 .. Len(t) - 1
            BY <1>1, <1>2, <2>1
        <2>3. t[cut] # "w2" /\ (cut - 1) + 1 = cut
            BY <1>2, <2>1, <2>2
        <2>4. Boundary(t, cut - 1)
            BY <2>3 DEF Boundary
        <2>5. \A k \in (cut - 1) + 1 .. cut : k = cut
            BY <1>2
        <2>6. cut - 1 \in 0 .. cut /\ Good(cut - 1)
            BY <1>2, <1>5, <2>4, <2>5
        <2> HIDE DEF Good
        <2>7. SplitAt(t) \in 0 .. cut /\ Good(SplitAt(t))
            BY <1>3, <2>6
        <2> USE DEF Good
        <2>8. ~ (cut - 1 \in SplitAt(t) + 1 .. cut) /\ SplitAt(t) # cut
            BY <1>5, <2>4, <2>7
        <2>9. SplitAt(t) = cut - 1
            BY <1>2, <2>7, <2>8
        <2>10. QED
            BY <1>1, <1>2, <2>4, <2>9
    <1>6. QED
        BY <1>4, <1>5

-----------------------------------------------------------------------------
(* What is handed over, with what was held.                                *)

LEMMA BasicTypes ==
    ASSUME TypeOK
    PROVE  /\ engine \in Settings /\ script \in Seq(Bytes) /\ script \in Scripts
           /\ Len(script) \in Nat /\ fed \in Nat /\ fed <= Len(script)
           /\ cmd_pend \in Seq(Bytes) /\ Len(cmd_pend) \in Nat
           /\ HoldMax \in Nat /\ cmd_blocked \in BOOLEAN
    <1>1. script \in Scripts /\ fed \in 0 .. Len(script) /\ cmd_pend \in Seq(Bytes)
        BY DEF TypeOK
    <1>2. script \in Seq(Bytes) /\ HoldMax \in Nat
        BY <1>1, CmdAssumption
    <1>3. Len(script) \in Nat /\ Len(cmd_pend) \in Nat
        BY <1>1, <1>2, LenProperties
    <1>4. QED
        BY <1>1, <1>2, <1>3 DEF TypeOK

\* The part of the answer that is handed over.
LEMMA UpcomingFacts ==
    ASSUME TypeOK, NEW n \in Lengths
    PROVE  /\ n \in Nat /\ fed + n <= Len(script) /\ Boundary(script, fed + n)
           /\ Upcoming(n) \in Seq(Bytes) /\ Len(Upcoming(n)) = n
           /\ \A i \in 1 .. n : Upcoming(n)[i] = script[fed + i]
    <1>1. n \in 0 .. Len(script) - fed /\ Boundary(script, fed + n)
        BY DEF Lengths
    <1>2. n \in Nat /\ fed + n <= Len(script)
        BY <1>1, BasicTypes
    <1>3. /\ fed + 1 \in 1 .. Len(script) + 1
          /\ fed + n \in (fed + 1) - 1 .. Len(script)
          /\ ((fed + n) - (fed + 1)) + 1 = n
          /\ \A i \in 1 .. n : ((fed + 1) - 1) + i = fed + i
        <2>1. fed \in Nat /\ Len(script) \in Nat /\ fed <= Len(script)
            BY BasicTypes
        <2>2. QED
            BY <1>2, <2>1
    <1> DEFINE u == SubSeq(script, fed + 1, fed + n)
    <1>4. /\ u \in Seq(Bytes) /\ Len(u) = ((fed + n) - (fed + 1)) + 1
          /\ \A i \in 1 .. ((fed + n) - (fed + 1)) + 1 : u[i] = script[((fed + 1) - 1) + i]
        BY <1>3, BasicTypes, PartFacts, ZenonT(30)
    <1> HIDE DEF u
    <1>5. u \in Seq(Bytes) /\ Len(u) = n /\ \A i \in 1 .. n : u[i] = script[fed + i]
        BY <1>3, <1>4
    <1>6. Upcoming(n) = u
        BY DEF u, Upcoming
    <1>7. QED
        BY <1>1, <1>2, <1>5, <1>6

\* The text that is judged: the hold, and what is handed over.
Combined(n) == cmd_pend \o Upcoming(n)

\* Where it begins in the answer.
From == fed - Len(cmd_pend)

\* It is whole characters of the answer, the last that came in.
LEMMA CombinedFacts ==
    ASSUME TypeOK, FedWhole, Placed, HoldBounded, ~ cmd_blocked, NEW n \in Lengths
    PROVE  /\ Combined(n) \in Seq(Bytes) /\ Len(Combined(n)) \in Nat
           /\ From \in Nat /\ From + Len(Combined(n)) = fed + n
           /\ \A i \in 1 .. Len(Combined(n)) : Combined(n)[i] = script[From + i]
           /\ Len(Combined(n)) > 0 => Combined(n)[1] # "w2"
           /\ \A i \in 1 .. Len(Combined(n)) - 1 :
                ~ (Combined(n)[i] = "w2" /\ Combined(n)[i + 1] = "w2")
    <1> DEFINE u == Upcoming(n)
               c == cmd_pend \o u
               p == Len(cmd_pend)
    <1>1. /\ n \in Nat /\ fed + n <= Len(script)
          /\ u \in Seq(Bytes) /\ Len(u) = n
          /\ \A i \in 1 .. n : u[i] = script[fed + i]
        BY UpcomingFacts
    <1>2. /\ Len(script) \in Nat /\ fed \in Nat /\ p \in Nat /\ cmd_pend \in Seq(Bytes)
          /\ script \in Scripts
        BY BasicTypes
    <1>3. p <= fed /\ \A i \in 1 .. p : cmd_pend[i] = script[(fed - p) + i]
        BY DEF Placed
    <1> HIDE DEF u
    <1>4. /\ c \in Seq(Bytes) /\ Len(c) = p + n
          /\ \A i \in 1 .. p + n : c[i] = IF i <= p THEN cmd_pend[i] ELSE u[i - p]
        BY <1>1, <1>2, ConcatProperties
    <1> HIDE DEF c, p
    <1>5. ASSUME NEW i \in 1 .. p + n PROVE c[i] = script[(fed - p) + i]
        <2>1. CASE i <= p
            <3>1. i \in 1 .. p
                BY <1>1, <1>2, <2>1
            <3>2. QED
                BY <1>3, <1>4, <2>1, <3>1
        <2>2. CASE ~ (i <= p)
            <3>1. i - p \in 1 .. n /\ fed + (i - p) = (fed - p) + i
                BY <1>1, <1>2, <2>2
            <3>2. QED
                BY <1>1, <1>4, <2>2, <3>1
        <2>3. QED
            BY <2>1, <2>2
    <1>6. fed - p \in Nat /\ (fed - p) + (p + n) = fed + n
        BY <1>1, <1>2, <1>3
    <1>7. ASSUME p + n > 0 PROVE c[1] # "w2"
        <2>1. 1 \in 1 .. p + n
            BY <1>1, <1>2, <1>7
        <2>2. CASE p = 0
            <3>1. fed < Len(script) /\ (fed - p) + 1 = fed + 1
                BY <1>1, <1>2, <1>7, <2>2
            <3>2. ~ (fed >= Len(script))
                BY <1>2, <3>1
            <3>3. QED
                BY <1>5, <2>1, <3>1, <3>2 DEF FedWhole, Boundary
        <2>3. CASE p # 0
            <3>1. cmd_pend # <<>>
                BY <1>2, <2>3, EmptySeq DEF p
            <3>2. cmd_pend[1] # "w2" /\ 1 <= p
                BY <1>2, <2>3, <3>1 DEF HoldBounded
            <3>3. QED
                BY <1>4, <2>1, <3>2
        <2>4. QED
            BY <2>2, <2>3
    <1>8. ASSUME NEW i \in 1 .. (p + n) - 1 PROVE ~ (c[i] = "w2" /\ c[i + 1] = "w2")
        <2> DEFINE q == (fed - p) + (i + 1)
        <2>1. i \in 1 .. p + n /\ i + 1 \in 1 .. p + n /\ q \in 1 .. Len(script) /\ q - 1 = (fed - p) + i
            BY <1>1, <1>2, <1>3
        <2>2. c[i] = script[q - 1] /\ c[i + 1] = script[q]
            BY <1>5, <2>1
        <2> HIDE DEF q
        <2>3. script[q] = "w2" => script[q - 1] = "w1"
            BY <1>2, <2>1, CharAssumption
        <2>4. QED
            BY <2>2, <2>3
    <1>9. Combined(n) = c /\ From = fed - p
        BY DEF Combined, From, c, u, p
    <1>10. Len(c) = p + n /\ Len(c) \in Nat
        BY <1>1, <1>2, <1>4
    <1>11. QED
        BY <1>4, <1>5, <1>6, <1>7, <1>8, <1>9, <1>10

-----------------------------------------------------------------------------
(* The hits that are recorded.                                             *)

HitType == [id : Ids, snippet : Commands, kind : engine.channels, blocked : BOOLEAN]

\* What is found in a part of the answer came in with it.
LEMMA FoundCameIn ==
    ASSUME NEW t \in Seq(Bytes), NEW off \in Nat, NEW n \in Nat, off + Len(t) <= n,
           \A i \in 1 .. Len(t) : t[i] = script[off + i],
           NEW h \in Find(t)
    PROVE  CameBy(n, h.snippet)
    <1> DEFINE c == h.snippet
    <1>1. c \in Commands
        BY FindFacts
    <1>2. PICK i \in 1 .. Len(t) : /\ i + Len(c) - 1 <= Len(t)
                                   /\ \A j \in 1 .. Len(c) : t[i + j - 1] = c[j]
        BY FindFacts
    <1>3. Len(t) \in Nat /\ Len(c) \in Nat
        BY <1>1, CommandTypes, LenProperties
    <1> HIDE DEF c
    <1>4. off + i \in 1 .. n /\ (off + i) + Len(c) - 1 <= n
        BY <1>2, <1>3
    <1>5. ASSUME NEW j \in 1 .. Len(c) PROVE script[(off + i) + j - 1] = c[j]
        <2>1. i + j - 1 \in 1 .. Len(t) /\ off + (i + j - 1) = (off + i) + j - 1
            BY <1>2, <1>3
        <2>2. QED
            BY <1>2, <2>1
    <1>6. QED
        BY <1>4, <1>5 DEF CameBy, c

\* What came in stays.
LEMMA CameByMonotone ==
    ASSUME NEW m \in Nat, NEW n \in Nat, m <= n, NEW c \in Commands, CameBy(m, c)
    PROVE  CameBy(n, c)
    <1>1. Len(c) \in Nat
        BY CommandTypes, LenProperties
    <1>2. PICK i \in 1 .. m : i + Len(c) - 1 <= m /\ \A j \in 1 .. Len(c) : script[i + j - 1] = c[j]
        BY DEF CameBy
    <1>3. i \in 1 .. n /\ i + Len(c) - 1 <= n
        BY <1>1, <1>2
    <1>4. QED
        BY <1>2, <1>3 DEF CameBy

\* Recording a hit keeps the others, and gives all the verdict of the mode.
LEMMA RecordFacts ==
    ASSUME cmd_hits \subseteq HitType, \A h \in cmd_hits : h.blocked <=> engine.mode = "block",
           NEW hit, hit.id \in Ids, hit.snippet \in Commands,
           NEW kind \in engine.channels,
           NEW b \in BOOLEAN, b <=> engine.mode = "block"
    PROVE  /\ Recorded(hit, kind, b) # {}
           /\ \A r \in Recorded(hit, kind, b) :
                /\ r \in HitType
                /\ r.blocked <=> engine.mode = "block"
                /\ r.snippet = hit.snippet \/ \E h \in cmd_hits : r.snippet = h.snippet
    <1> DEFINE same == {h \in cmd_hits : h.id = hit.id /\ h.snippet = hit.snippet /\ h.kind = kind}
               new == [id |-> hit.id, snippet |-> hit.snippet, kind |-> kind, blocked |-> b]
               Raise(h) == [h EXCEPT !.blocked = h.blocked \/ b]
               raised == {Raise(h) : h \in same}
    <1>1. /\ new \in HitType /\ new.snippet = hit.snippet
          /\ new.blocked <=> engine.mode = "block"
        BY DEF HitType
    <1>2. ASSUME NEW h \in cmd_hits
          PROVE  /\ Raise(h) \in HitType /\ Raise(h).snippet = h.snippet
                 /\ Raise(h).blocked <=> engine.mode = "block"
        BY DEF HitType
    <1>3. CASE same = {}
        <2>1. Recorded(hit, kind, b) = cmd_hits \cup {new}
            BY <1>3 DEF Recorded
        <2> HIDE DEF new
        <2>2. QED
            BY <1>1, <2>1
    <1>4. CASE same # {}
        <2>1. Recorded(hit, kind, b) = (cmd_hits \ same) \cup raised
            BY <1>4 DEF Recorded
        <2> HIDE DEF Raise, new
        <2>2. raised # {} /\ \A r \in raised : /\ r \in HitType
                                               /\ r.blocked <=> engine.mode = "block"
                                               /\ \E h \in cmd_hits : r.snippet = h.snippet
            BY <1>2, <1>4
        <2> HIDE DEF same, raised
        <2>3. QED
            BY <2>1, <2>2
    <1>5. QED
        BY <1>3, <1>4

\* The record after a text of the answer was judged.
LEMMA HitsFacts ==
    ASSUME TypeOK, Verdicts, HitsCameIn,
           NEW t \in Seq(Bytes), NEW off \in Nat, NEW n \in Nat, fed <= n, off + Len(t) <= n,
           \A i \in 1 .. Len(t) : t[i] = script[off + i],
           NEW kind \in engine.channels,
           NEW b \in BOOLEAN, Acted(t) # {} => (b <=> engine.mode = "block"),
           NEW R, R = RecordedOf(Acted(t), kind, b)
    PROVE  /\ R \subseteq HitType
           /\ \A h \in R : h.blocked <=> engine.mode = "block"
           /\ \A h \in R : CameBy(n, h.snippet)
           /\ Acted(t) = {} => R = cmd_hits
           /\ Acted(t) # {} => R # {}
    <1>1. cmd_hits \subseteq HitType /\ \A h \in cmd_hits : h.blocked <=> engine.mode = "block"
        BY DEF TypeOK, HitType, Ids, Verdicts
    <1>2. fed \in Nat
        BY BasicTypes
    <1>3. ASSUME NEW h \in cmd_hits PROVE CameBy(n, h.snippet)
        <2>1. h.snippet \in Commands /\ CameBy(fed, h.snippet)
            BY <1>1 DEF HitType, HitsCameIn
        <2>2. QED
            BY <1>2, <2>1, CameByMonotone
    <1>4. CASE Acted(t) = {}
        BY <1>1, <1>3, <1>4 DEF RecordedOf
    <1>5. CASE Acted(t) # {}
        <2> DEFINE hit == CHOOSE h \in Acted(t) : TRUE
        <2>1. hit \in Find(t) /\ R = Recorded(hit, kind, b)
            BY <1>5 DEF Acted, RecordedOf
        <2> HIDE DEF hit
        <2>2. hit.id \in Ids /\ hit.snippet \in Commands
            BY <2>1, FindFacts
        <2>3. CameBy(n, hit.snippet)
            BY <2>1, FoundCameIn
        <2>4. /\ R # {}
              /\ \A r \in R :
                    /\ r \in HitType
                    /\ r.blocked <=> engine.mode = "block"
                    /\ r.snippet = hit.snippet \/ \E h \in cmd_hits : r.snippet = h.snippet
            BY <1>1, <1>5, <2>1, <2>2, RecordFacts
        <2>5. /\ R \subseteq HitType
              /\ \A h \in R : h.blocked <=> engine.mode = "block"
              /\ \A h \in R : CameBy(n, h.snippet)
              /\ R # {}
            BY <1>3, <2>3, <2>4
        <2>6. QED
            BY <1>5, <2>5
    <1>6. QED
        BY <1>4, <1>5

-----------------------------------------------------------------------------
(* One step of the response.                                               *)

\* The next n bytes are handed over.
Feeds(n) ==
    /\ n \in Lengths
    /\ fed' = fed + n
    /\ UNCHANGED answer
    /\ ended' \in BOOLEAN

\* The parts of the invariant after such a step, in the words of the state
\* before it.
LEMMA Assemble ==
    ASSUME IInv, NEW n, Feeds(n),
           panicked' \in BOOLEAN, cmd_reason' \subseteq Commands,
           cmd_pend' \in Seq(Bytes), Placed', HoldBounded',
           cmd_hits' \subseteq HitType,
           \A h \in cmd_hits' : h.blocked <=> engine.mode = "block",
           \A h \in cmd_hits' : CameBy(fed + n, h.snippet),
           cmd_blocked' \in BOOLEAN,
           cmd_blocked' <=> engine.mode = "block" /\ cmd_hits' # {},
           engine.mode # "rewrite" \/ cmd_hits' = {} => out' \in Seq(Bytes),
           OutPlaced'
    PROVE  IInv'
    <1>1. n \in Lengths /\ fed' = fed + n /\ engine' = engine /\ path' = path /\ script' = script
        BY DEF Feeds, answer
    <1>2. n \in Nat /\ fed + n <= Len(script) /\ Boundary(script, fed + n)
        BY <1>1, UpcomingFacts DEF IInv
    <1>3. fed \in Nat /\ Len(script) \in Nat
        BY BasicTypes DEF IInv
    <1>4. fed + n \in 0 .. Len(script)
        BY <1>2, <1>3
    <1>5. engine \in Settings /\ path \in {"stream", "tree"} /\ script \in Scripts
        BY DEF IInv, TypeOK
    <1>6. TypeOK'
        BY <1>1, <1>4, <1>5 DEF TypeOK, HitType, Ids, Feeds
    <1>7. FedWhole'
        BY <1>1, <1>2 DEF FedWhole, Boundary
    <1>8. Verdicts'
        BY <1>1 DEF Verdicts
    <1>9. HitsCameIn'
        BY <1>1 DEF HitsCameIn, CameBy
    <1>10. OutPlain'
        BY <1>1 DEF OutPlain, Plain
    <1>11. QED
        BY <1>6, <1>7, <1>8, <1>9, <1>10 DEF IInv

\* The hold stays where it is only when nothing more comes in, or when the
\* response is blocked.
LEMMA HoldKept ==
    ASSUME IInv, NEW n, Feeds(n), cmd_blocked' = cmd_blocked,
           cmd_pend' = <<>> \/ (cmd_pend' = cmd_pend /\ (cmd_blocked \/ n = 0 \/ cmd_pend = <<>>))
    PROVE  cmd_pend' \in Seq(Bytes) /\ Placed' /\ HoldBounded'
    <1>1. n \in Lengths /\ fed' = fed + n /\ engine' = engine /\ path' = path /\ script' = script
        BY DEF Feeds, answer
    <1>2. n \in Nat
        BY <1>1, UpcomingFacts DEF IInv
    <1>3. fed \in Nat /\ HoldMax \in Nat /\ cmd_pend \in Seq(Bytes)
        BY BasicTypes DEF IInv
    <1>4. <<>> \in Seq(Bytes) /\ Len(<<>>) = 0
        BY EmptySeq
    <1>5. CASE cmd_pend' = <<>>
        <2>1. cmd_pend' \in Seq(Bytes) /\ Len(cmd_pend') = 0
            BY <1>4, <1>5
        <2>2. Len(cmd_pend') <= fed' /\ 1 .. Len(cmd_pend') = {} /\ Len(cmd_pend') <= HoldMax + 1
            BY <1>1, <1>2, <1>3, <2>1
        <2>3. QED
            BY <1>5, <2>1, <2>2 DEF Placed, HoldBounded
    <1>6. CASE cmd_pend' = cmd_pend /\ cmd_blocked
        BY <1>1, <1>3, <1>6 DEF IInv, Placed, HoldBounded
    <1>7. CASE cmd_pend' = cmd_pend /\ n = 0
        <2>1. fed' = fed
            BY <1>1, <1>3, <1>7
        <2>2. QED
            BY <1>1, <1>3, <1>7, <2>1 DEF IInv, Placed, HoldBounded
    <1>8. QED
        BY <1>5, <1>6, <1>7

\* What was put out stays right when nothing is added and the step blocks,
\* panics or hands over nothing.
LEMMA OutStays ==
    ASSUME IInv, NEW n, Feeds(n),
           engine.mode # "rewrite" \/ cmd_hits' = {} => Plain,
           out \in Seq(Bytes) => out' = out,
           cmd_blocked => cmd_blocked',
           \/ panicked' \/ cmd_blocked'
           \/ n = 0 /\ cmd_pend' = cmd_pend /\ panicked' = panicked
    PROVE  OutPlaced'
    <1>1. /\ n \in Lengths /\ fed' = fed + n /\ engine' = engine /\ path' = path /\ script' = script
        BY DEF Feeds, answer
    <1>2. n \in Nat /\ fed \in Nat
        BY <1>1, UpcomingFacts, BasicTypes DEF IInv
    <1> SUFFICES ASSUME Plain'
                 PROVE  /\ path = "stream" \/ ~cmd_blocked' =>
                             Len(out') <= fed' /\ \A i \in 1 .. Len(out') : out'[i] = script[i]
                        /\ ~panicked' /\ ~cmd_blocked' => Len(out') = fed' - Len(cmd_pend')
        BY <1>1 DEF OutPlaced
    <1>3. Plain
        BY <1>1 DEF Plain
    <1>4. out' = out /\ out \in Seq(Bytes)
        BY <1>3 DEF IInv, OutPlain
    <1>5. Len(out) \in Nat
        BY <1>4, LenProperties
    <1>6. ASSUME path = "stream" \/ ~cmd_blocked'
          PROVE  Len(out') <= fed' /\ \A i \in 1 .. Len(out') : out'[i] = script[i]
        <2>1. Len(out) <= fed /\ \A i \in 1 .. Len(out) : out[i] = script[i]
            BY <1>3, <1>6 DEF IInv, OutPlaced
        <2>2. QED
            BY <1>1, <1>2, <1>4, <1>5, <2>1
    <1>7. ASSUME ~panicked', ~cmd_blocked' PROVE Len(out') = fed' - Len(cmd_pend')
        <2>1. n = 0 /\ cmd_pend' = cmd_pend /\ ~panicked /\ ~cmd_blocked
            BY <1>7
        <2>2. Len(out) = fed - Len(cmd_pend) /\ fed' = fed
            BY <1>1, <1>2, <1>3, <2>1 DEF IInv, OutPlaced
        <2>3. QED
            BY <1>4, <2>1, <2>2
    <1>8. QED
        BY <1>6, <1>7

\* It stays right when the next part of the answer is added, up to the hold.
LEMMA OutGrows ==
    ASSUME IInv, ~panicked, ~cmd_blocked, NEW n, Feeds(n),
           engine.mode # "rewrite" \/ cmd_hits' = {} => Plain,
           NEW t \in Seq(Bytes), out' = out \o t,
           From \in Nat,
           \A i \in 1 .. Len(t) : t[i] = script[From + i],
           Len(cmd_pend') \in Nat, (fed + n) - Len(cmd_pend') = From + Len(t)
    PROVE  OutPlaced'
    <1>1. /\ n \in Lengths /\ fed' = fed + n /\ engine' = engine /\ path' = path /\ script' = script
        BY DEF Feeds, answer
    <1>2. n \in Nat /\ fed \in Nat /\ Len(t) \in Nat
        BY <1>1, UpcomingFacts, BasicTypes, LenProperties DEF IInv
    <1> SUFFICES ASSUME Plain'
                 PROVE  /\ Len(out') <= fed'
                        /\ \A i \in 1 .. Len(out') : out'[i] = script[i]
                        /\ Len(out') = fed' - Len(cmd_pend')
        BY <1>1 DEF OutPlaced
    <1>3. Plain
        BY <1>1 DEF Plain
    <1>4. out \in Seq(Bytes)
        BY <1>3 DEF IInv, OutPlain
    <1>5. Len(out) \in Nat
        BY <1>4, LenProperties
    <1>6. Len(out) = From /\ \A i \in 1 .. Len(out) : out[i] = script[i]
        BY <1>3 DEF IInv, OutPlaced, From
    <1>7. /\ Len(out') = Len(out) + Len(t)
          /\ \A i \in 1 .. Len(out) + Len(t) :
                out'[i] = IF i <= Len(out) THEN out[i] ELSE t[i - Len(out)]
        BY <1>4, ConcatProperties
    <1>8. ASSUME NEW i \in 1 .. Len(out') PROVE out'[i] = script[i]
        <2>1. CASE i <= Len(out)
            <3>1. i \in 1 .. Len(out)
                BY <1>2, <1>5, <1>7, <2>1
            <3>2. QED
                BY <1>6, <1>7, <2>1, <3>1
        <2>2. CASE ~ (i <= Len(out))
            <3>1. i - Len(out) \in 1 .. Len(t) /\ From + (i - Len(out)) = i
                BY <1>2, <1>5, <1>6, <1>7, <2>2
            <3>2. QED
                BY <1>7, <2>2, <3>1
        <2>3. QED
            BY <2>1, <2>2
    <1>9. Len(out') = From + Len(t)
        BY <1>6, <1>7
    <1>10. Len(out') <= fed' /\ Len(out') = fed' - Len(cmd_pend')
        <2>1. From + Len(t) <= fed + n
            BY <1>2
        <2>2. QED
            BY <1>1, <1>9, <2>1
    <1>11. QED
        BY <1>8, <1>10

\* Text that is passed on as it came, with nothing held.
LEMMA OutPasses ==
    ASSUME IInv, ~panicked, path = "stream" => ~cmd_blocked, NEW n, Feeds(n),
           engine.mode # "rewrite" \/ cmd_hits' = {} => Plain,
           cmd_pend = <<>>, cmd_pend' = cmd_pend, cmd_blocked' = cmd_blocked,
           out' = out \o Upcoming(n)
    PROVE  OutPlaced'
    <1>1. n \in Lengths /\ path' = path
        BY DEF Feeds, answer
    <1>2. CASE cmd_blocked
        BY <1>1, <1>2 DEF OutPlaced
    <1>3. CASE ~cmd_blocked
        <2> DEFINE u == Upcoming(n)
        <2>1. /\ n \in Nat /\ u \in Seq(Bytes) /\ Len(u) = n
              /\ \A i \in 1 .. n : u[i] = script[fed + i]
            BY <1>1, UpcomingFacts DEF IInv
        <2>2. fed \in Nat /\ Len(cmd_pend) = 0 /\ Len(cmd_pend') = 0
            BY BasicTypes, EmptySeq DEF IInv
        <2> HIDE DEF u
        <2>3. From = fed /\ (fed + n) - Len(cmd_pend') = fed + n
            BY <2>1, <2>2 DEF From
        <2>4. /\ From \in Nat /\ Len(cmd_pend') \in Nat
              /\ (fed + n) - Len(cmd_pend') = From + Len(u)
              /\ \A i \in 1 .. Len(u) : u[i] = script[From + i]
            BY <2>1, <2>2, <2>3
        <2>5. out' = out \o u
            BY DEF u
        <2>6. QED
            BY <1>3, <2>1, <2>4, <2>5, OutGrows
    <1>4. QED
        BY <1>2, <1>3

\* A step that records nothing and puts out, at most, plain text.
LEMMA QuietStep ==
    ASSUME IInv, NEW n, Feeds(n),
           panicked' \in BOOLEAN, cmd_reason' \subseteq Commands,
           cmd_pend' = <<>> \/ (cmd_pend' = cmd_pend /\ (cmd_blocked \/ n = 0 \/ cmd_pend = <<>>)),
           cmd_hits' = cmd_hits, cmd_blocked' = cmd_blocked,
           out \in Seq(Bytes) => out' \in Seq(Bytes),
           OutPlaced'
    PROVE  IInv'
    <1>1. cmd_pend' \in Seq(Bytes) /\ Placed' /\ HoldBounded'
        BY HoldKept
    <1>2. n \in Nat
        BY UpcomingFacts DEF Feeds, IInv
    <1>3. fed \in Nat /\ cmd_blocked \in BOOLEAN
        BY BasicTypes DEF IInv
    <1>4. cmd_hits \subseteq HitType
        BY DEF IInv, TypeOK, HitType, Ids
    <1>5. ASSUME NEW h \in cmd_hits PROVE CameBy(fed + n, h.snippet)
        <2>1. h.snippet \in Commands /\ CameBy(fed, h.snippet)
            BY <1>4 DEF IInv, HitsCameIn, HitType
        <2>2. fed + n \in Nat /\ fed <= fed + n
            BY <1>2, <1>3
        <2>3. QED
            BY <1>3, <2>1, <2>2, CameByMonotone
    <1>6. /\ \A h \in cmd_hits : h.blocked <=> engine.mode = "block"
          /\ cmd_blocked <=> engine.mode = "block" /\ cmd_hits # {}
          /\ engine.mode # "rewrite" \/ cmd_hits = {} => out \in Seq(Bytes)
        BY DEF IInv, Verdicts, OutPlain, Plain
    <1>7. QED
        BY <1>1, <1>3, <1>4, <1>5, <1>6, Assemble

\* The cut of the combined text: what is judged, and what is then held.
Cut(n, m) ==
    /\ m \in 0 .. Len(Combined(n))
    /\ Boundary(Combined(n), m)
    /\ Len(Combined(n)) - m <= HoldMax + 1

Ahead(n, m) == SubSeq(Combined(n), 1, m)
Rest(n, m) == SubSeq(Combined(n), m + 1, Len(Combined(n)))

\* Both are parts of the answer.
LEMMA CutFacts ==
    ASSUME IInv, ~ cmd_blocked, NEW n \in Lengths, NEW m, Cut(n, m)
    PROVE  /\ m \in Nat
           /\ Ahead(n, m) \in Seq(Bytes) /\ Len(Ahead(n, m)) = m
           /\ From \in Nat /\ From + m <= fed + n
           /\ \A i \in 1 .. m : Ahead(n, m)[i] = script[From + i]
           /\ Rest(n, m) \in Seq(Bytes)
           /\ Len(Rest(n, m)) \in Nat /\ Len(Rest(n, m)) = (fed + n) - (From + m)
           /\ Len(Rest(n, m)) <= HoldMax + 1
           /\ \A i \in 1 .. Len(Rest(n, m)) : Rest(n, m)[i] = script[(From + m) + i]
           /\ Len(Rest(n, m)) > 0 => Rest(n, m)[1] # "w2"
           /\ m = Len(Combined(n)) => Rest(n, m) = <<>>
    <1> DEFINE c == Combined(n)
               f == Ahead(n, m)
               r == Rest(n, m)
    <1>1. /\ c \in Seq(Bytes) /\ Len(c) \in Nat /\ From \in Nat /\ From + Len(c) = fed + n
          /\ \A i \in 1 .. Len(c) : c[i] = script[From + i]
        BY CombinedFacts DEF IInv
    <1>2. m \in 0 .. Len(c) /\ Boundary(c, m) /\ Len(c) - m <= HoldMax + 1
        BY DEF Cut
    <1>3. f = SubSeq(c, 1, m) /\ r = SubSeq(c, m + 1, Len(c))
        BY DEF Ahead, Rest
    <1>4. fed \in Nat /\ n \in Nat
        BY BasicTypes, UpcomingFacts DEF IInv
    <1> HIDE DEF c, f, r
    <1>5. /\ m \in Nat /\ m <= Len(c) /\ 1 \in 1 .. Len(c) + 1 /\ m \in 1 - 1 .. Len(c)
          /\ m + 1 \in 1 .. Len(c) + 1 /\ Len(c) \in (m + 1) - 1 .. Len(c)
          /\ (m - 1) + 1 = m /\ (Len(c) - (m + 1)) + 1 = Len(c) - m
        BY <1>1, <1>2
    <1>6. f \in Seq(Bytes) /\ Len(f) = m /\ \A i \in 1 .. m : f[i] = c[(1 - 1) + i]
        <2>1. /\ f \in Seq(Bytes) /\ Len(f) = (m - 1) + 1
              /\ \A i \in 1 .. (m - 1) + 1 : f[i] = c[(1 - 1) + i]
            BY <1>1, <1>3, <1>5, PartFacts
        <2>2. QED
            BY <1>5, <2>1
    <1>7. /\ r \in Seq(Bytes) /\ Len(r) = Len(c) - m
          /\ \A i \in 1 .. Len(c) - m : r[i] = c[((m + 1) - 1) + i]
        <2> DEFINE k == m + 1
                   e == Len(c)
        <2>1. k \in 1 .. Len(c) + 1 /\ e \in k - 1 .. Len(c) /\ r = SubSeq(c, k, e)
            BY <1>3, <1>5
        <2> HIDE DEF k, e
        <2>2. /\ r \in Seq(Bytes) /\ Len(r) = (e - k) + 1
              /\ \A i \in 1 .. (e - k) + 1 : r[i] = c[(k - 1) + i]
            BY <1>1, <2>1, PartFacts
        <2>3. (e - k) + 1 = Len(c) - m
            BY <1>5 DEF k, e
        <2>4. QED
            BY <2>2, <2>3 DEF k
    <1>8. ASSUME NEW i \in 1 .. m PROVE f[i] = script[From + i]
        <2>1. (1 - 1) + i = i /\ i \in 1 .. Len(c)
            BY <1>1, <1>5
        <2>2. QED
            BY <1>1, <1>6, <2>1
    <1>9. ASSUME NEW i \in 1 .. Len(c) - m PROVE r[i] = c[m + i] /\ r[i] = script[(From + m) + i]
        <2>1. /\ ((m + 1) - 1) + i = m + i /\ m + i \in 1 .. Len(c)
              /\ From + (m + i) = (From + m) + i
            BY <1>1, <1>5
        <2>2. QED
            BY <1>1, <1>7, <2>1
    <1>10. Len(r) \in Nat /\ Len(r) = (fed + n) - (From + m) /\ From + m <= fed + n
        BY <1>1, <1>4, <1>5, <1>7
    <1>11. ASSUME Len(r) > 0 PROVE r[1] # "w2"
        <2>1. 1 \in 1 .. Len(c) - m /\ ~ (m >= Len(c))
            BY <1>1, <1>5, <1>7, <1>11
        <2>2. r[1] = c[m + 1]
            BY <1>9, <2>1
        <2>3. QED
            BY <1>2, <2>1, <2>2 DEF Boundary
    <1>12. ASSUME m = Len(c) PROVE r = <<>>
        <2>1. Len(r) = 0
            BY <1>1, <1>7, <1>12
        <2>2. QED
            BY <1>7, <2>1, EmptySeq
    <1>13. QED
        BY <1>1, <1>2, <1>5, <1>6, <1>7, <1>8, <1>9, <1>10, <1>11, <1>12 DEF c, f, r

\* Judging the front and holding the rest.
LEMMA JudgeStep ==
    ASSUME IInv, ~ panicked, ~ cmd_blocked, engine.mode # "observe",
           NEW n, Feeds(n), NEW kind \in engine.channels, NEW m, Cut(n, m),
           m = Len(Combined(n)) \/ (path = "stream" /\ "text" \in engine.channels),
           Judge(Ahead(n, m), Rest(n, m), kind)
    PROVE  IInv'
    <1> DEFINE f == Ahead(n, m)
               r == Rest(n, m)
    <1>1. n \in Lengths /\ fed' = fed + n /\ engine' = engine /\ path' = path /\ script' = script
        BY DEF Feeds, answer
    <1>2. /\ m \in Nat /\ f \in Seq(Bytes) /\ Len(f) = m /\ From \in Nat /\ From + m <= fed + n
          /\ \A i \in 1 .. m : f[i] = script[From + i]
          /\ r \in Seq(Bytes) /\ Len(r) \in Nat /\ Len(r) = (fed + n) - (From + m)
          /\ Len(r) <= HoldMax + 1
          /\ \A i \in 1 .. Len(r) : r[i] = script[(From + m) + i]
          /\ Len(r) > 0 => r[1] # "w2"
          /\ m = Len(Combined(n)) => r = <<>>
        BY <1>1, CutFacts
    <1>3. fed \in Nat /\ n \in Nat
        BY <1>1, BasicTypes, UpcomingFacts DEF IInv
    <1> HIDE DEF f, r
    <1>4. /\ cmd_pend' = r
          /\ PutOut(IF Acted(f) # {} /\ engine.mode = "block" THEN <<>>
                    ELSE IF Acted(f) = {} THEN f ELSE Rewrite(f))
          /\ cmd_reason' = cmd_reason /\ panicked' = panicked
        BY DEF Judge, f, r
    <1>5. PICK b \in BOOLEAN : /\ b <=> Acted(f) # {} /\ engine.mode = "block"
                               /\ cmd_hits' = RecordedOf(Acted(f), kind, b)
                               /\ cmd_blocked' = (cmd_blocked \/ b)
        BY Zenon DEF Judge, f, r
    <1>6. Placed'
        <2>1. (fed + n) - Len(r) = From + m /\ Len(r) <= fed + n
            BY <1>2, <1>3
        <2>2. QED
            BY <1>1, <1>2, <1>4, <2>1 DEF Placed
    <1>7. HoldBounded'
        <2>1. r # <<>> => Len(r) > 0
            BY <1>2, EmptySeq
        <2>2. QED
            BY <1>1, <1>2, <1>4, <2>1 DEF HoldBounded
    <1>8. /\ cmd_hits' \subseteq HitType
          /\ \A h \in cmd_hits' : h.blocked <=> engine.mode = "block"
          /\ \A h \in cmd_hits' : CameBy(fed + n, h.snippet)
          /\ Acted(f) = {} => cmd_hits' = cmd_hits
          /\ Acted(f) # {} => cmd_hits' # {}
        <2> DEFINE e == fed + n
        <2>1. TypeOK /\ Verdicts /\ HitsCameIn
            BY DEF IInv
        <2>2. f \in Seq(Bytes) /\ From \in Nat /\ e \in Nat /\ fed <= e /\ From + Len(f) <= e
            BY <1>2, <1>3
        <2>3. \A i \in 1 .. Len(f) : f[i] = script[From + i]
            BY <1>2
        <2>4. Acted(f) # {} => (b <=> engine.mode = "block")
            BY <1>5
        <2>5. cmd_hits' = RecordedOf(Acted(f), kind, b)
            BY <1>5
        <2> HIDE DEF e
        <2>6. /\ cmd_hits' \subseteq HitType
              /\ \A h \in cmd_hits' : h.blocked <=> engine.mode = "block"
              /\ \A h \in cmd_hits' : CameBy(e, h.snippet)
              /\ Acted(f) = {} => cmd_hits' = cmd_hits
              /\ Acted(f) # {} => cmd_hits' # {}
            BY <2>1, <2>2, <2>3, <2>4, <2>5, HitsFacts
        <2>7. QED
            BY <2>6 DEF e
    <1>9. cmd_blocked' \in BOOLEAN /\ (cmd_blocked' <=> b)
        BY <1>5, BasicTypes DEF IInv
    <1>10. cmd_blocked' <=> engine.mode = "block" /\ cmd_hits' # {}
        BY <1>5, <1>8, <1>9 DEF IInv, Verdicts
    <1>11. engine.mode # "rewrite" \/ cmd_hits' = {} =>
               /\ Plain
               /\ \/ (Acted(f) # {} /\ engine.mode = "block") /\ out' = out \o <<>>
                  \/ ~ (Acted(f) # {} /\ engine.mode = "block") /\ out' = out \o f
        <2>1. engine.mode \in {"rewrite", "block"}
            BY BasicTypes, CmdAssumption DEF IInv
        <2>2. QED
            BY <1>4, <1>8, <2>1 DEF Plain, PutOut
    <1>12. ASSUME engine.mode # "rewrite" \/ cmd_hits' = {} PROVE out' \in Seq(Bytes)
        <2>1. out \in Seq(Bytes)
            BY <1>11, <1>12 DEF IInv, OutPlain
        <2>2. out \o f \in Seq(Bytes) /\ out \o <<>> \in Seq(Bytes)
            BY <1>2, <2>1, EmptySeq, ConcatProperties
        <2>3. QED
            BY <1>11, <1>12, <2>2
    <1>13. OutPlaced'
        <2>1. CASE ~ Plain'
            BY <2>1 DEF OutPlaced
        <2>2. CASE Plain' /\ out' = out \o f
            <3>1. Plain
                BY <1>1, <1>11, <2>2 DEF Plain
            <3>2. Len(cmd_pend') \in Nat /\ (fed + n) - Len(cmd_pend') = From + Len(f)
                BY <1>2, <1>3, <1>4
            <3>3. f \in Seq(Bytes) /\ From \in Nat /\ \A i \in 1 .. Len(f) : f[i] = script[From + i]
                BY <1>2
            <3>4. QED
                BY <2>2, <3>1, <3>2, <3>3, OutGrows
        <2>3. CASE Plain' /\ out' = out \o <<>> /\ cmd_blocked'
            <3>1. Plain
                BY <1>1, <1>11, <2>3 DEF Plain
            <3>2. out \in Seq(Bytes) => out' = out
                BY <2>3, ConcatEmptySeq
            <3>3. QED
                BY <2>3, <3>1, <3>2, OutStays
        <2>4. QED
            BY <1>1, <1>5, <1>9, <1>11, <2>1, <2>2, <2>3 DEF Plain
    <1>14. panicked' \in BOOLEAN /\ cmd_reason' \subseteq Commands
        BY <1>4 DEF IInv, TypeOK
    <1>15. QED
        BY <1>2, <1>4, <1>6, <1>7, <1>8, <1>9, <1>10, <1>12, <1>13, <1>14, Assemble

\* A panic while the combined text is looked through: the hold was taken out.
LEMMA PanicStep ==
    ASSUME IInv, NEW n, Feeds(n), cmd_pend' = <<>>, panicked' = TRUE,
           UNCHANGED <<cmd_blocked, cmd_hits, cmd_reason, out, seams>>
    PROVE  IInv'
    <1>1. panicked' \in BOOLEAN /\ cmd_reason' \subseteq Commands
        BY DEF IInv, TypeOK
    <1>2. cmd_hits' = cmd_hits /\ cmd_blocked' = cmd_blocked /\ out' = out
        OBVIOUS
    <1>3. OutPlaced'
        BY <1>2, OutStays DEF Plain
    <1>4. QED
        BY <1>1, <1>2, <1>3, QuietStep

\* The task dies while the combined text is looked through.
Dies ==
    cmd_pend' = <<>> /\ panicked' = TRUE /\ UNCHANGED <<cmd_blocked, cmd_hits, cmd_reason, out, seams>>

\* A text that goes on: its end is held.
LEMMA ActOnFacts ==
    ASSUME IInv, ~ cmd_blocked, NEW n, Feeds(n), NEW kind, ProcessAct(Upcoming(n), kind, FALSE)
    PROVE  Dies \/ \E m : Cut(n, m) /\ Judge(Ahead(n, m), Rest(n, m), kind)
    <1> DEFINE c == Combined(n)
               j == IF Len(c) > HoldMax THEN SubSeq(c, 1, SplitAt(c)) ELSE <<>>
               h == SubSeq(c, Len(j) + 1, Len(c))
               m == IF Len(c) > HoldMax THEN SplitAt(c) ELSE 0
    <1>1. n \in Lengths
        BY DEF Feeds
    <1>2. /\ c \in Seq(Bytes) /\ Len(c) \in Nat
          /\ Len(c) > 0 => c[1] # "w2"
          /\ \A i \in 1 .. Len(c) - 1 : ~ (c[i] = "w2" /\ c[i + 1] = "w2")
        BY <1>1, CombinedFacts DEF IInv
    <1>3. Dies \/ Judge(j, h, kind)
        BY DEF ProcessAct, Judged, Held, Combined, Dies
    <1>4. HoldMax \in Nat
        BY CmdAssumption
    <1> HIDE DEF c
    <1>5. m \in 0 .. Len(c) /\ Boundary(c, m) /\ Len(c) - m <= HoldMax + 1
        <2>1. CASE Len(c) > HoldMax
            <3>1. Len(c) > 0
                BY <1>2, <1>4, <2>1
            <3>2. QED
                BY <1>2, <2>1, <3>1, SplitFacts
        <2>2. CASE ~ (Len(c) > HoldMax)
            <3>1. m = 0 /\ 0 \in 0 .. Len(c) /\ Len(c) - 0 <= HoldMax + 1 /\ 0 + 1 = 1
                BY <1>2, <1>4, <2>2
            <3>2. Boundary(c, 0)
                BY <1>2, <3>1 DEF Boundary
            <3>3. QED
                BY <3>1, <3>2
        <2>3. QED
            BY <2>1, <2>2
    <1>6. j = SubSeq(c, 1, m) /\ Len(j) = m
        <2>1. /\ m \in Nat /\ 1 \in 1 .. Len(c) + 1 /\ m \in 1 - 1 .. Len(c) /\ (m - 1) + 1 = m
            BY <1>2, <1>5
        <2>2. SubSeq(c, 1, m) \in Seq(Bytes) /\ Len(SubSeq(c, 1, m)) = m
            <3> HIDE DEF m
            <3>1. QED
                BY <1>2, <2>1, PartFacts
        <2>3. CASE Len(c) > HoldMax
            BY <2>2, <2>3
        <2>4. CASE ~ (Len(c) > HoldMax)
            <3>1. m = 0 /\ j = <<>>
                BY <2>4
            <3>2. SubSeq(c, 1, m) = <<>> /\ Len(<<>>) = 0
                BY <2>2, <3>1, EmptySeq
            <3>3. QED
                BY <3>1, <3>2
        <2>5. QED
            BY <2>3, <2>4
    <1>7. h = SubSeq(c, m + 1, Len(c))
        BY <1>6
    <1>8. Cut(n, m) /\ j = Ahead(n, m) /\ h = Rest(n, m)
        BY <1>5, <1>6, <1>7 DEF Cut, Ahead, Rest, c
    <1> HIDE DEF j, h, m
    <1>9. CASE Judge(j, h, kind)
        <2>1. Judge(Ahead(n, m), Rest(n, m), kind)
            BY <1>8, <1>9, Zenon
        <2>2. QED
            BY <1>8, <2>1
    <1>10. QED
        BY <1>3, <1>9

\* A text that is final: nothing is held.
LEMMA ActFinalFacts ==
    ASSUME IInv, ~ cmd_blocked, NEW n, Feeds(n), NEW kind, ProcessAct(Upcoming(n), kind, TRUE)
    PROVE  \/ Dies
           \/ \E m : Cut(n, m) /\ m = Len(Combined(n)) /\ Judge(Ahead(n, m), Rest(n, m), kind)
    <1> DEFINE c == Combined(n)
               h == SubSeq(c, Len(c) + 1, Len(c))
    <1>1. n \in Lengths /\ HoldMax \in Nat
        BY CmdAssumption DEF Feeds
    <1>2. c \in Seq(Bytes) /\ Len(c) \in Nat
        BY <1>1, CombinedFacts DEF IInv
    <1>3. Dies \/ Judge(c, h, kind)
        BY DEF ProcessAct, Judged, Held, Combined, Dies
    <1> HIDE DEF c
    <1>4. Len(c) \in 0 .. Len(c) /\ Boundary(c, Len(c)) /\ Len(c) - Len(c) <= HoldMax + 1
        BY <1>1, <1>2 DEF Boundary
    <1>5. c = SubSeq(c, 1, Len(c))
        BY <1>2, SubSeqFull
    <1>6. Cut(n, Len(c)) /\ c = Ahead(n, Len(c)) /\ h = Rest(n, Len(c)) /\ Len(c) = Len(Combined(n))
        BY <1>4, <1>5 DEF Cut, Ahead, Rest, c
    <1> HIDE DEF h
    <1>7. CASE Judge(c, h, kind)
        <2>1. Judge(Ahead(n, Len(c)), Rest(n, Len(c)), kind)
            BY <1>6, <1>7, Zenon
        <2>2. QED
            BY <1>6, <2>1
    <1>8. QED
        BY <1>3, <1>7

\* Text that is acted on: a stream's, or one that is final.
LEMMA ActStep ==
    ASSUME IInv, ~ panicked, ~ cmd_blocked, engine.mode # "observe",
           NEW n, Feeds(n), NEW kind \in engine.channels, NEW final \in BOOLEAN,
           final \/ (path = "stream" /\ "text" \in engine.channels),
           ProcessAct(Upcoming(n), kind, final)
    PROVE  IInv'
    <1>1. \/ Dies
          \/ \E m : /\ Cut(n, m) /\ Judge(Ahead(n, m), Rest(n, m), kind)
                    /\ m = Len(Combined(n)) \/ (path = "stream" /\ "text" \in engine.channels)
        BY ActOnFacts, ActFinalFacts
    <1>2. CASE Dies
        BY <1>2, PanicStep DEF Dies
    <1>3. QED
        BY <1>1, <1>2, JudgeStep

\* An engine that observes records what it finds, and passes the text on.
LEMMA ObserveStep ==
    ASSUME IInv, ~ panicked, ~ cmd_blocked, engine.mode = "observe", cmd_pend = <<>>,
           NEW n, Feeds(n), NEW kind \in engine.channels,
           ProcessObserve(Upcoming(n), kind)
    PROVE  IInv'
    <1> DEFINE u == Upcoming(n)
    <1>1. n \in Lengths
        BY DEF Feeds
    <1>2. /\ n \in Nat /\ u \in Seq(Bytes) /\ Len(u) = n
          /\ \A i \in 1 .. n : u[i] = script[fed + i]
        BY <1>1, UpcomingFacts DEF IInv
    <1>3. fed \in Nat
        BY BasicTypes DEF IInv
    <1>4. cmd_reason \subseteq Commands /\ panicked \in BOOLEAN
        BY DEF IInv, TypeOK
    <1> HIDE DEF u
    <1>5. CASE Panic
        <2>1. panicked' \in BOOLEAN /\ cmd_reason' \subseteq Commands
            BY <1>4, <1>5 DEF Panic, session
        <2>2. /\ cmd_pend' = cmd_pend /\ cmd_hits' = cmd_hits /\ cmd_blocked' = cmd_blocked /\ out' = out
            BY <1>5 DEF Panic, session
        <2>3. OutPlaced'
            BY <1>5, <2>2, OutStays DEF Panic, Plain
        <2>4. QED
            BY <2>1, <2>2, <2>3, QuietStep
    <1>6. CASE /\ cmd_hits' = RecordedOf(Acted(u), kind, FALSE)
               /\ PutOut(u)
               /\ UNCHANGED <<cmd_pend, cmd_blocked, cmd_reason, panicked>>
        <2>1. PICK b \in BOOLEAN : ~ b /\ cmd_hits' = RecordedOf(Acted(u), kind, b)
            BY <1>6, Zenon
        <2>2. cmd_pend' \in Seq(Bytes) /\ Placed' /\ HoldBounded'
            BY <1>6, HoldKept
        <2> DEFINE e == fed + n
        <2>3. TypeOK /\ Verdicts /\ HitsCameIn
            BY DEF IInv
        <2>4. u \in Seq(Bytes) /\ fed \in Nat /\ e \in Nat /\ fed <= e /\ fed + Len(u) <= e
            BY <1>2, <1>3
        <2>5. \A i \in 1 .. Len(u) : u[i] = script[fed + i]
            BY <1>2
        <2>6. Acted(u) # {} => (b <=> engine.mode = "block")
            BY <2>1
        <2> HIDE DEF e
        <2>7. /\ cmd_hits' \subseteq HitType
              /\ \A h \in cmd_hits' : h.blocked <=> engine.mode = "block"
              /\ \A h \in cmd_hits' : CameBy(e, h.snippet)
              /\ Acted(u) = {} => cmd_hits' = cmd_hits
              /\ Acted(u) # {} => cmd_hits' # {}
            BY <2>1, <2>3, <2>4, <2>5, <2>6, HitsFacts
        <2>8. cmd_blocked' \in BOOLEAN /\ (cmd_blocked' <=> engine.mode = "block" /\ cmd_hits' # {})
            BY <1>6, BasicTypes DEF IInv
        <2>9. out' \in Seq(Bytes)
            <3>1. out \in Seq(Bytes)
                BY DEF IInv, OutPlain, Plain
            <3>2. out \o u \in Seq(Bytes)
                BY <1>2, <3>1, ConcatProperties
            <3>3. QED
                BY <1>6, <3>2 DEF PutOut
        <2>10. panicked' \in BOOLEAN /\ cmd_reason' \subseteq Commands
            BY <1>4, <1>6
        <2>11. OutPlaced'
            BY <1>6, OutPasses DEF Plain, PutOut, u
        <2>12. QED
            BY <2>2, <2>7, <2>8, <2>9, <2>10, <2>11, Assemble DEF e
    <1>7. QED
        BY <1>5, <1>6 DEF ProcessObserve, u

\* Text that is passed on unread.
LEMMA PassStep ==
    ASSUME IInv, ~ panicked, NEW n, Feeds(n), NEW t \in Seq(Bytes), Pass(t),
           \/ cmd_blocked /\ t = <<>>
           \/ cmd_pend = <<>> /\ t = Upcoming(n) /\ (path = "stream" => ~ cmd_blocked)
    PROVE  IInv'
    <1>1. /\ cmd_pend' = cmd_pend /\ cmd_hits' = cmd_hits /\ cmd_blocked' = cmd_blocked
          /\ out' = out \o t
        BY DEF Pass, PutOut, session
    <1>2. panicked' \in BOOLEAN /\ cmd_reason' \subseteq Commands
        BY DEF Pass, session, IInv, TypeOK
    <1>3. out \in Seq(Bytes) => out' \in Seq(Bytes)
        BY <1>1, ConcatProperties
    <1>4. OutPlaced'
        <2>1. CASE cmd_blocked /\ t = <<>>
            <3>1. out \in Seq(Bytes) => out' = out
                BY <1>1, <2>1, ConcatEmptySeq
            <3>2. QED
                BY <1>1, <2>1, <3>1, OutStays DEF Plain
        <2>2. CASE cmd_pend = <<>> /\ t = Upcoming(n) /\ (path = "stream" => ~ cmd_blocked)
            BY <1>1, <2>2, OutPasses DEF Plain
        <2>3. QED
            BY <2>1, <2>2
    <1>5. QED
        BY <1>1, <1>2, <1>3, <1>4, QuietStep

\* Reasoning is looked through and passed on; only its commands are noted.
LEMMA ReasonStep ==
    ASSUME IInv, ~ panicked, path = "stream" => ~ cmd_blocked,
           NEW n, Feeds(n), cmd_pend = <<>>, ProcessReason(Upcoming(n))
    PROVE  IInv'
    <1> DEFINE u == Upcoming(n)
    <1>1. u \in Seq(Bytes)
        BY UpcomingFacts DEF Feeds, IInv
    <1>2. cmd_reason \subseteq Commands /\ panicked \in BOOLEAN
        BY DEF IInv, TypeOK
    <1> HIDE DEF u
    <1>3. CASE Panic
        <2>1. panicked' \in BOOLEAN /\ cmd_reason' \subseteq Commands
            BY <1>2, <1>3 DEF Panic, session
        <2>2. cmd_pend' = cmd_pend /\ cmd_hits' = cmd_hits /\ cmd_blocked' = cmd_blocked /\ out' = out
            BY <1>3 DEF Panic, session
        <2>3. OutPlaced'
            BY <1>3, <2>2, OutStays DEF Panic, Plain
        <2>4. QED
            BY <2>1, <2>2, <2>3, QuietStep
    <1>4. CASE /\ cmd_reason' = cmd_reason \cup {h.snippet : h \in Find(u)}
               /\ PutOut(u)
               /\ UNCHANGED <<cmd_pend, cmd_blocked, cmd_hits, panicked>>
        <2>1. \A h \in Find(u) : h.snippet \in Commands
            BY <1>1, FindFacts
        <2>2. panicked' \in BOOLEAN /\ cmd_reason' \subseteq Commands
            BY <1>2, <1>4, <2>1
        <2>3. out \in Seq(Bytes) => out' \in Seq(Bytes)
            BY <1>1, <1>4, ConcatProperties DEF PutOut
        <2>4. cmd_pend' = cmd_pend /\ cmd_hits' = cmd_hits /\ cmd_blocked' = cmd_blocked
            BY <1>4
        <2>5. OutPlaced'
            BY <1>4, <2>4, OutPasses DEF Plain, PutOut, u
        <2>6. QED
            BY <2>2, <2>3, <2>4, <2>5, QuietStep
    <1>5. QED
        BY <1>3, <1>4 DEF ProcessReason, u

\* The answers of process that act on nothing, for text of the one channel a
\* stream has or of any key of a JSON answer.
LEMMA UnactedStep ==
    ASSUME IInv, ~ panicked, NEW n, Feeds(n), NEW kind,
           path = "stream" => kind = "text" /\ ~ cmd_blocked,
           \/ kind = "reason" /\ ProcessReason(Upcoming(n))
           \/ kind # "reason" /\ kind \notin engine.channels /\ Pass(Upcoming(n))
           \/ cmd_blocked /\ Pass(<<>>)
           \/ /\ kind \in engine.channels /\ ~ cmd_blocked /\ engine.mode = "observe"
              /\ ProcessObserve(Upcoming(n), kind)
    PROVE  IInv'
    <1>1. Upcoming(n) \in Seq(Bytes) /\ <<>> \in Seq(Bytes)
        BY UpcomingFacts, EmptySeq DEF Feeds, IInv
    <1>2. cmd_pend = <<>> \/ (path = "stream" /\ engine.mode # "observe" /\ "text" \in engine.channels)
        BY DEF IInv, HoldBounded
    <1>3. CASE kind = "reason" /\ ProcessReason(Upcoming(n))
        BY <1>2, <1>3, ReasonStep
    <1>4. CASE kind # "reason" /\ kind \notin engine.channels /\ Pass(Upcoming(n))
        BY <1>1, <1>2, <1>4, PassStep
    <1>5. CASE cmd_blocked /\ Pass(<<>>)
        BY <1>1, <1>5, PassStep
    <1>6. CASE /\ kind \in engine.channels /\ ~ cmd_blocked /\ engine.mode = "observe"
               /\ ProcessObserve(Upcoming(n), kind)
        BY <1>2, <1>6, ObserveStep
    <1>7. QED
        BY <1>3, <1>4, <1>5, <1>6

\* A chunk of a stream.
LEMMA ChunkStep ==
    ASSUME IInv, ~ panicked, ~ cmd_blocked, NEW n, Feeds(n), path = "stream",
           Process(Upcoming(n), "content", FALSE)
    PROVE  IInv'
    <1>1. ChannelKind["content"] = "text"
        BY DEF ChannelKind
    <1>2. CASE /\ "text" \in engine.channels /\ ~ cmd_blocked /\ engine.mode # "observe"
               /\ ProcessAct(Upcoming(n), "text", FALSE)
        BY <1>2, ActStep
    <1>3. QED
        BY <1>1, <1>2, UnactedStep DEF Process

\* The last text of a stream, or a string of a JSON answer.
LEMMA FinalStep ==
    ASSUME IInv, ~ panicked, NEW n, Feeds(n), NEW key,
           path = "stream" => key = "content" /\ ~ cmd_blocked,
           Process(Upcoming(n), key, TRUE)
    PROVE  IInv'
    <1> DEFINE kind == ChannelKind[key]
    <1>1. path = "stream" => kind = "text"
        BY DEF ChannelKind
    <1> HIDE DEF kind
    <1>2. CASE /\ kind \in engine.channels /\ ~ cmd_blocked /\ engine.mode # "observe"
               /\ ProcessAct(Upcoming(n), kind, TRUE)
        BY <1>2, ActStep
    <1>3. QED
        BY <1>1, <1>2, UnactedStep DEF Process, kind

-----------------------------------------------------------------------------
(* The invariant holds.                                                    *)

LEMMA InitEstablishes == Init => IInv
    <1> SUFFICES ASSUME Init PROVE IInv
        OBVIOUS
    <1>1. <<>> \in Seq(Bytes) /\ Len(<<>>) = 0
        BY EmptySeq
    <1>2. script \in Scripts /\ script \in Seq(Bytes) /\ HoldMax \in Nat
        BY CmdAssumption DEF Init
    <1>3. Len(script) \in Nat
        BY <1>2, LenProperties
    <1>4. 0 \in 0 .. Len(script)
        BY <1>3
    <1>5. TypeOK
        BY <1>1, <1>2, <1>4 DEF Init, TypeOK
    <1>6. FedWhole
        <2>1. CASE Len(script) = 0
            BY <1>3, <2>1 DEF Init, FedWhole, Boundary
        <2>2. CASE Len(script) # 0
            <3>1. 1 \in 1 .. Len(script) /\ 0 + 1 = 1
                BY <1>3, <2>2
            <3>2. script[1] # "w2"
                BY <1>2, <3>1, CharAssumption
            <3>3. QED
                BY <3>1, <3>2 DEF Init, FedWhole, Boundary
        <2>3. QED
            BY <2>1, <2>2
    <1>7. Placed /\ HoldBounded
        BY <1>1, <1>2 DEF Init, Placed, HoldBounded
    <1>8. Verdicts /\ HitsCameIn /\ OutPlain
        BY <1>1 DEF Init, Verdicts, HitsCameIn, OutPlain
    <1>9. OutPlaced
        <2>1. Len(out) = 0 /\ Len(cmd_pend) = 0 /\ fed = 0
            BY <1>1 DEF Init
        <2>2. Len(out) <= fed /\ 1 .. Len(out) = {} /\ Len(out) = fed - Len(cmd_pend)
            BY <2>1
        <2>3. QED
            BY <2>2 DEF OutPlaced
    <1>10. QED
        BY <1>5, <1>6, <1>7, <1>8, <1>9 DEF IInv

\* Nothing, and all the rest, are whole characters.
LEMMA WholeLengths ==
    ASSUME IInv
    PROVE  0 \in Lengths /\ Len(script) - fed \in Lengths /\ fed + 0 = fed
    <1>1. Len(script) \in Nat /\ fed \in Nat /\ fed <= Len(script)
        BY BasicTypes DEF IInv
    <1>2. 0 \in 0 .. Len(script) - fed /\ fed + 0 = fed /\ Boundary(script, fed + 0)
        BY <1>1 DEF IInv, FedWhole
    <1>3. /\ Len(script) - fed \in 0 .. Len(script) - fed
          /\ fed + (Len(script) - fed) >= Len(script)
        BY <1>1
    <1>4. QED
        BY <1>2, <1>3 DEF Lengths, Boundary

\* A step that leaves the blocker and what was put out alone.
LEMMA IdleStep ==
    ASSUME IInv, NEW n, Feeds(n), cmd_blocked \/ n = 0, UNCHANGED <<session, out, seams, panicked>>
    PROVE  IInv'
    <1>1. /\ cmd_pend' = cmd_pend /\ cmd_hits' = cmd_hits /\ cmd_blocked' = cmd_blocked
          /\ out' = out
        BY DEF session
    <1>2. panicked' \in BOOLEAN /\ cmd_reason' \subseteq Commands
        BY DEF session, IInv, TypeOK
    <1>3. panicked' = panicked
        OBVIOUS
    <1>4. OutPlaced'
        BY <1>1, <1>3, OutStays DEF Plain
    <1>5. QED
        BY <1>1, <1>2, <1>4, QuietStep

LEMMA NextPreserves == IInv /\ [Next]_vars => IInv'
    <1> SUFFICES ASSUME IInv, [Next]_vars PROVE IInv'
        OBVIOUS
    <1>1. ended \in BOOLEAN
        BY DEF IInv, TypeOK
    <1>2. CASE StreamChunk
        <2>1. PICK n \in Lengths : /\ fed' = fed + n
                                   /\ \/ cmd_blocked /\ UNCHANGED <<session, out, seams, panicked>>
                                      \/ ~ cmd_blocked /\ Process(Upcoming(n), "content", FALSE)
            BY <1>2 DEF StreamChunk
        <2>2. Feeds(n) /\ path = "stream" /\ ~ panicked
            BY <1>1, <1>2, <2>1 DEF StreamChunk, Feeds, Running
        <2>3. QED
            BY <2>1, <2>2, IdleStep, ChunkStep
    <1>3. CASE StreamEnd
        <2> DEFINE n == Len(script) - fed
        <2>1. n \in Lengths
            BY WholeLengths
        <2>2. /\ fed' = fed + n
              /\ \/ (n = 0 \/ cmd_blocked) /\ UNCHANGED <<session, out, seams, panicked>>
                 \/ ~ cmd_blocked /\ Process(Upcoming(n), "content", TRUE)
            BY <1>3 DEF StreamEnd
        <2>3. Feeds(n) /\ path = "stream" /\ ~ panicked
            BY <1>3, <2>1, <2>2 DEF StreamEnd, Feeds, Running
        <2> HIDE DEF n
        <2>4. CASE ~ cmd_blocked /\ Process(Upcoming(n), "content", TRUE)
            BY <2>3, <2>4, FinalStep
        <2>5. QED
            BY <2>2, <2>3, <2>4, IdleStep
    <1>4. CASE TreeString
        <2>1. PICK n \in Lengths, key \in DOMAIN ChannelKind :
                 fed' = fed + n /\ Process(Upcoming(n), key, TRUE)
            BY <1>4 DEF TreeString
        <2>2. Feeds(n) /\ path # "stream" /\ ~ panicked
            BY <1>1, <1>4, <2>1 DEF TreeString, Feeds, Running
        <2>3. QED
            BY <2>1, <2>2, FinalStep
    <1>5. CASE TreeEnd
        <2>1. Feeds(0)
            BY <1>5, WholeLengths DEF TreeEnd, Feeds
        <2>2. UNCHANGED <<session, out, seams, panicked>>
            BY <1>5 DEF TreeEnd
        <2>3. QED
            BY <2>1, <2>2, IdleStep
    <1>6. CASE UNCHANGED vars
        <2>1. Feeds(0)
            BY <1>1, <1>6, WholeLengths DEF vars, Feeds
        <2>2. UNCHANGED <<session, out, seams, panicked>>
            BY <1>6 DEF vars
        <2>3. QED
            BY <2>1, <2>2, IdleStep
    <1>7. QED
        BY <1>2, <1>3, <1>4, <1>5, <1>6 DEF Next

LEMMA Invariance == Spec => []IInv
    BY InitEstablishes, NextPreserves, PTL DEF Spec

\* TypeOK: at every moment of a response the hold is bytes of text, never the
\* notice, and every recorded hit names a rule, one of its commands and a kind
\* of text the engine acts on (process, record).
THEOREM TypeCorrect == Spec => []TypeOK
    BY Invariance, PTL DEF IInv

\* HoldBounded: however a stream is cut, the hold is bounded by HoldMax and
\* the rest of one character, begins with a whole character, and is empty
\* where text is only observed or comes whole (process).
THEOREM HoldIsBounded == Spec => []HoldBounded
    BY Invariance, PTL DEF IInv

\* RecordTellsAll: a response is blocked iff a blocked hit is recorded, a
\* notice is put out only where a hit is recorded, and every recorded hit is
\* in the answer, also when it came in with several chunks (record).
THEOREM RecordsTellAll == Spec => []RecordTellsAll
    <1>1. IInv => RecordTellsAll
        <2> SUFFICES ASSUME IInv PROVE RecordTellsAll
            OBVIOUS
        <2>1. cmd_blocked <=> \E h \in cmd_hits : h.blocked
            BY DEF IInv, Verdicts
        <2>2. ASSUME Contains(out, Notice) PROVE \E h \in cmd_hits : ~ h.blocked
            <3>1. out \notin Seq(Bytes)
                <4>1. SUFFICES ASSUME out \in Seq(Bytes) PROVE FALSE
                    OBVIOUS
                <4>2. PICK i \in 1 .. Len(out) : out[i] = Notice
                    BY <2>2 DEF Contains
                <4>3. out[i] \in Bytes
                    BY <4>1, ElementOfSeq
                <4>4. QED
                    BY <4>2, <4>3 DEF Bytes
            <3>2. engine.mode # "block" /\ cmd_hits # {}
                BY <3>1 DEF IInv, OutPlain, Plain
            <3>3. QED
                BY <3>2 DEF IInv, Verdicts
        <2>3. ASSUME NEW h \in cmd_hits PROVE \E i \in 1 .. fed : Occurs(Fed, i, h.snippet)
            <3> DEFINE c == h.snippet
            <3>1. c \in Commands /\ CameBy(fed, c)
                BY DEF IInv, TypeOK, HitsCameIn
            <3>2. c \in Seq(Bytes) /\ Len(c) \in Nat
                BY <3>1, CommandTypes, LenProperties
            <3>3. /\ script \in Seq(Bytes) /\ Len(script) \in Nat /\ fed \in Nat /\ fed <= Len(script)
                BY BasicTypes DEF IInv
            <3> HIDE DEF c
            <3>4. PICK i \in 1 .. fed : /\ i + Len(c) - 1 <= fed
                                        /\ \A j \in 1 .. Len(c) : script[i + j - 1] = c[j]
                BY <3>1 DEF CameBy
            <3>5. /\ 1 \in 1 .. Len(script) + 1 /\ fed \in 1 - 1 .. Len(script) /\ (fed - 1) + 1 = fed
                  /\ \A j \in 1 .. fed : (1 - 1) + j = j
                BY <3>3
            <3>6. /\ Fed \in Seq(Bytes) /\ Len(Fed) = (fed - 1) + 1
                  /\ \A j \in 1 .. (fed - 1) + 1 : Fed[j] = script[(1 - 1) + j]
                BY <3>3, <3>5, PartFacts DEF Fed
            <3>7. Len(Fed) = fed /\ \A j \in 1 .. fed : Fed[j] = script[j]
                BY <3>5, <3>6
            <3>8. ASSUME NEW j \in 1 .. Len(c) PROVE Fed[i + j - 1] = c[j]
                <4>1. i + j - 1 \in 1 .. fed
                    BY <3>2, <3>3, <3>4
                <4>2. QED
                    BY <3>4, <3>7, <4>1
            <3>9. i \in 1 .. Len(Fed) /\ i + Len(c) - 1 <= Len(Fed)
                BY <3>4, <3>7
            <3>10. Occurs(Fed, i, c)
                BY <3>2, <3>6, <3>8, <3>9, OccursFacts
            <3>11. QED
                BY <3>4, <3>10 DEF c
        <2>4. QED
            BY <2>1, <2>2, <2>3 DEF RecordTellsAll
    <1>2. QED
        BY Invariance, <1>1, PTL

\* Unaltered: an answer in which nothing was rewritten reaches the client byte
\* by byte, whatever chunks it comes in and wherever the hold begins (process).
THEOREM AnswerUnaltered == Spec => []Unaltered
    <1>1. IInv => Unaltered
        <2> SUFFICES ASSUME IInv, Plain
                     PROVE  /\ path = "stream" \/ ~cmd_blocked =>
                                 \E n \in 0 .. fed : out = SubSeq(script, 1, n)
                            /\ ~panicked /\ ~cmd_blocked => out \o cmd_pend = Fed
            BY DEF Unaltered, Plain
        <2>1. /\ script \in Seq(Bytes) /\ Len(script) \in Nat /\ fed \in Nat /\ fed <= Len(script)
              /\ cmd_pend \in Seq(Bytes) /\ Len(cmd_pend) \in Nat
            BY BasicTypes DEF IInv
        <2>2. out \in Seq(Bytes) /\ Len(out) \in Nat
            BY LenProperties DEF IInv, OutPlain
        <2>3. ASSUME NEW n \in 0 .. fed
              PROVE  LET p == SubSeq(script, 1, n)
                     IN p \in Seq(Bytes) /\ Len(p) = n /\ \A i \in 1 .. n : p[i] = script[i]
            <3> DEFINE p == SubSeq(script, 1, n)
            <3>1. /\ 1 \in 1 .. Len(script) + 1 /\ n \in 1 - 1 .. Len(script) /\ (n - 1) + 1 = n
                  /\ \A i \in 1 .. n : (1 - 1) + i = i
                BY <2>1
            <3>2. /\ p \in Seq(Bytes) /\ Len(p) = (n - 1) + 1
                  /\ \A i \in 1 .. (n - 1) + 1 : p[i] = script[(1 - 1) + i]
                BY <2>1, <3>1, PartFacts
            <3> HIDE DEF p
            <3>3. p \in Seq(Bytes) /\ Len(p) = n /\ \A i \in 1 .. n : p[i] = script[i]
                BY <3>1, <3>2
            <3>4. QED
                BY <3>3 DEF p
        <2>4. ASSUME path = "stream" \/ ~cmd_blocked
              PROVE  \E n \in 0 .. fed : out = SubSeq(script, 1, n)
            <3> DEFINE n == Len(out)
                       p == SubSeq(script, 1, n)
            <3>1. n <= fed /\ \A i \in 1 .. n : out[i] = script[i]
                BY <2>4 DEF IInv, OutPlaced
            <3>2. n \in 0 .. fed
                BY <2>1, <2>2, <3>1
            <3>3. p \in Seq(Bytes) /\ Len(p) = n /\ \A i \in 1 .. n : p[i] = script[i]
                BY <2>3, <3>2
            <3> HIDE DEF p
            <3>4. out = p
                BY <2>2, <3>1, <3>3, SeqEqual
            <3>5. QED
                BY <3>2, <3>4 DEF p
        <2>5. ASSUME ~panicked, ~cmd_blocked PROVE out \o cmd_pend = Fed
            <3> DEFINE k == Len(cmd_pend)
                       w == out \o cmd_pend
            <3>1. /\ Len(out) = fed - k /\ \A i \in 1 .. Len(out) : out[i] = script[i]
                  /\ \A i \in 1 .. k : cmd_pend[i] = script[(fed - k) + i]
                BY <2>5 DEF IInv, OutPlaced, Placed
            <3>2. /\ w \in Seq(Bytes) /\ Len(w) = Len(out) + k
                  /\ \A i \in 1 .. Len(out) + k :
                        w[i] = IF i <= Len(out) THEN out[i] ELSE cmd_pend[i - Len(out)]
                BY <2>1, <2>2, ConcatProperties
            <3> HIDE DEF k, w
            <3>3. k \in Nat /\ Len(out) + k = fed /\ fed \in 0 .. fed
                BY <2>1, <3>1 DEF k
            <3>4. ASSUME NEW i \in 1 .. fed PROVE w[i] = script[i]
                <4>1. CASE i <= Len(out)
                    <5>1. i \in 1 .. Len(out)
                        BY <2>1, <2>2, <4>1
                    <5>2. QED
                        BY <3>1, <3>2, <3>3, <4>1, <5>1
                <4>2. CASE ~ (i <= Len(out))
                    <5>1. i - Len(out) \in 1 .. k /\ (fed - k) + (i - Len(out)) = i
                        BY <2>1, <2>2, <3>1, <3>3, <4>2
                    <5>2. QED
                        BY <3>1, <3>2, <3>3, <4>2, <5>1
                <4>3. QED
                    BY <4>1, <4>2
            <3>5. Fed \in Seq(Bytes) /\ Len(Fed) = fed /\ \A i \in 1 .. fed : Fed[i] = script[i]
                BY <2>3, <3>3 DEF Fed
            <3>6. w = Fed
                BY <3>2, <3>3, <3>4, <3>5, SeqEqual
            <3>7. QED
                BY <3>6 DEF w
        <2>6. QED
            BY <2>4, <2>5
    <1>2. QED
        BY Invariance, <1>1, PTL

-----------------------------------------------------------------------------
(* What is put out, unit by unit, against what came in.                    *)

Units == Bytes \cup {Notice}

\* The i-th unit of o is the next unit of f, at a place where no command of D
\* begins, or the notice in place of a command of C: m[i] is the length of f
\* that the first i units of o stand for.
StandsFor(m, o, f, C, D, i) ==
    \/ m[i] = m[i - 1] + 1 /\ o[i] = f[m[i]] /\ \A d \in D : ~ Occurs(f, m[i], d)
    \/ o[i] = Notice /\ \E c \in C : Occurs(f, m[i - 1] + 1, c) /\ m[i] = m[i - 1] + Len(c)

Walks(m, o, f, C, D, a, b) ==
    /\ m \in [0 .. Len(o) -> 0 .. Len(f)]
    /\ m[0] = a /\ m[Len(o)] = b
    /\ \A i \in 1 .. Len(o) : StandsFor(m, o, f, C, D, i)

\* o is what becomes of f between the places a and b.
Walk(o, f, C, D, a, b) == \E m : Walks(m, o, f, C, D, a, b)

LEMMA UnitSeqs ==
    /\ \A t \in Seq(Bytes) : t \in Seq(Units)
    /\ \A x \in Bytes : x \in Units /\ x # Notice
    /\ Notice \in Units
    <1>1. Bytes \subseteq Units /\ Notice \in Units /\ \A x \in Bytes : x # Notice
        BY DEF Units, Bytes
    <1>2. ASSUME NEW t \in Seq(Bytes) PROVE t \in Seq(Units)
        <2> HIDE DEF Units
        <2>1. QED
            BY <1>1
    <1>3. QED
        BY <1>1, <1>2

\* Two walks, one where the other ends.
LEMMA WalkJoin ==
    ASSUME NEW o \in Seq(Units), NEW p \in Seq(Units), NEW f, NEW C, NEW D,
           NEW a, NEW b, NEW e, Walk(o, f, C, D, a, b), Walk(p, f, C, D, b, e)
    PROVE  Walk(o \o p, f, C, D, a, e)
    <1>1. PICK g : Walks(g, o, f, C, D, a, b)
        BY DEF Walk
    <1>2. PICK h : Walks(h, p, f, C, D, b, e)
        BY DEF Walk
    <1> DEFINE j == Len(o)
               k == Len(p)
               q == o \o p
               m == [i \in 0 .. j + k |-> IF i <= j THEN g[i] ELSE h[i - j]]
    <1>3. j \in Nat /\ k \in Nat
        BY LenProperties
    <1>4. /\ Len(q) = j + k
          /\ \A i \in 1 .. j + k : q[i] = IF i <= j THEN o[i] ELSE p[i - j]
        BY ConcatProperties
    <1>5. /\ g \in [0 .. j -> 0 .. Len(f)] /\ g[0] = a /\ g[j] = b
          /\ \A i \in 1 .. j : StandsFor(g, o, f, C, D, i)
        BY <1>1 DEF Walks
    <1>6. /\ h \in [0 .. k -> 0 .. Len(f)] /\ h[0] = b /\ h[k] = e
          /\ \A i \in 1 .. k : StandsFor(h, p, f, C, D, i)
        BY <1>2 DEF Walks
    <1> HIDE DEF j, k, q
    <1>7. /\ \A i \in 0 .. j + k : i <= j => i \in 0 .. j
          /\ \A i \in 0 .. j + k : ~ (i <= j) => i - j \in 0 .. k
        BY <1>3
    <1>8. m \in [0 .. j + k -> 0 .. Len(f)]
        BY <1>5, <1>6, <1>7
    <1>9. \A i \in 0 .. j + k : m[i] = IF i <= j THEN g[i] ELSE h[i - j]
        OBVIOUS
    <1> HIDE DEF m
    <1>10. m[0] = a
        <2>1. 0 \in 0 .. j + k /\ 0 <= j
            BY <1>3
        <2>2. QED
            BY <1>5, <1>9, <2>1
    <1>11. m[j + k] = e
        <2>1. CASE k = 0
            <3>1. j + k = j /\ j \in 0 .. j + k /\ j <= j
                BY <1>3, <2>1
            <3>2. QED
                BY <1>5, <1>6, <1>9, <2>1, <3>1
        <2>2. CASE k # 0
            <3>1. j + k \in 0 .. j + k /\ ~ (j + k <= j) /\ (j + k) - j = k
                BY <1>3, <2>2
            <3>2. QED
                BY <1>6, <1>9, <3>1
        <2>3. QED
            BY <2>1, <2>2
    <1>12. ASSUME NEW i \in 1 .. j + k PROVE StandsFor(m, q, f, C, D, i)
        <2>1. CASE i <= j
            <3>1. i \in 1 .. j /\ i - 1 \in 0 .. j + k /\ i \in 0 .. j + k /\ i - 1 <= j
                BY <1>3, <2>1
            <3>2. m[i] = g[i] /\ m[i - 1] = g[i - 1] /\ q[i] = o[i]
                BY <1>4, <1>9, <2>1, <3>1
            <3>3. QED
                BY <1>5, <3>1, <3>2 DEF StandsFor
        <2>2. CASE ~ (i <= j)
            <3> DEFINE l == i - j
            <3>1. l \in 1 .. k /\ l - 1 = (i - 1) - j /\ i - 1 \in 0 .. j + k /\ i \in 0 .. j + k
                BY <1>3, <2>2
            <3>2. m[i] = h[l] /\ q[i] = p[l]
                BY <1>4, <1>9, <2>2, <3>1
            <3>3. m[i - 1] = h[l - 1]
                <4>1. CASE i - 1 <= j
                    <5>1. i - 1 = j /\ l - 1 = 0
                        BY <1>3, <2>2, <4>1
                    <5>2. QED
                        BY <1>5, <1>6, <1>9, <3>1, <4>1, <5>1
                <4>2. CASE ~ (i - 1 <= j)
                    BY <1>9, <3>1, <4>2
                <4>3. QED
                    BY <4>1, <4>2
            <3>4. StandsFor(h, p, f, C, D, l)
                BY <1>6, <3>1
            <3> HIDE DEF l
            <3>5. QED
                BY <3>2, <3>3, <3>4 DEF StandsFor
        <2>3. QED
            BY <2>1, <2>2
    <1>13. Walks(m, q, f, C, D, a, e)
        BY <1>4, <1>8, <1>10, <1>11, <1>12 DEF Walks
    <1>14. QED
        BY <1>13 DEF Walk, q

\* A walk of one unit.
LEMMA WalkOne ==
    ASSUME NEW x \in Units, NEW f, NEW C, NEW D, NEW a \in 0 .. Len(f), NEW b \in 0 .. Len(f),
           \/ b = a + 1 /\ x = f[b] /\ \A d \in D : ~ Occurs(f, b, d)
           \/ x = Notice /\ \E c \in C : Occurs(f, a + 1, c) /\ b = a + Len(c)
    PROVE  Walk(<<x>>, f, C, D, a, b)
    <1> DEFINE m == [i \in 0 .. 1 |-> IF i = 0 THEN a ELSE b]
               o == <<x>>
    <1>1. Len(o) = 1 /\ o[1] = x
        OBVIOUS
    <1>2. m \in [0 .. 1 -> 0 .. Len(f)] /\ m[0] = a /\ m[1] = b
        OBVIOUS
    <1>3. 1 - 1 = 0 /\ \A i \in 1 .. 1 : i = 1
        OBVIOUS
    <1> HIDE DEF m, o
    <1>4. StandsFor(m, o, f, C, D, 1)
        BY <1>1, <1>2, <1>3 DEF StandsFor
    <1>5. Walks(m, o, f, C, D, a, b)
        BY <1>1, <1>2, <1>3, <1>4 DEF Walks
    <1>6. QED
        BY <1>5 DEF Walk, o

LEMMA WalkAppend ==
    ASSUME NEW o \in Seq(Units), NEW x \in Units, NEW f, NEW C, NEW D, NEW a,
           NEW b \in 0 .. Len(f), NEW e \in 0 .. Len(f), Walk(o, f, C, D, a, b),
           \/ e = b + 1 /\ x = f[e] /\ \A d \in D : ~ Occurs(f, e, d)
           \/ x = Notice /\ \E c \in C : Occurs(f, b + 1, c) /\ e = b + Len(c)
    PROVE  Append(o, x) \in Seq(Units) /\ Walk(Append(o, x), f, C, D, a, e)
    <1>1. Walk(<<x>>, f, C, D, b, e)
        BY WalkOne
    <1>2. <<x>> \in Seq(Units) /\ Append(o, x) = o \o <<x>> /\ Append(o, x) \in Seq(Units)
        OBVIOUS
    <1> HIDE DEF Walk
    <1>3. QED
        BY <1>1, <1>2, WalkJoin

\* A walk of nothing.
LEMMA WalkNone ==
    ASSUME NEW f, NEW C, NEW D, NEW a \in 0 .. Len(f)
    PROVE  Walk(<<>>, f, C, D, a, a)
    <1> DEFINE m == [i \in 0 .. 0 |-> a]
               o == <<>>
    <1>1. Len(o) = 0 /\ m \in [0 .. 0 -> 0 .. Len(f)] /\ m[0] = a /\ 1 .. 0 = {}
        OBVIOUS
    <1> HIDE DEF m, o
    <1>2. Walks(m, o, f, C, D, a, a)
        BY <1>1 DEF Walks
    <1>3. QED
        BY <1>2 DEF Walk, o

LEMMA WalkWeaken ==
    ASSUME NEW o, NEW f, NEW C, NEW E, C \subseteq E, NEW D, NEW a, NEW b, Walk(o, f, C, D, a, b)
    PROVE  Walk(o, f, E, {}, a, b)
    <1>1. PICK m : Walks(m, o, f, C, D, a, b)
        BY DEF Walk
    <1>2. Walks(m, o, f, E, {}, a, b)
        BY <1>1 DEF Walks, StandsFor
    <1>3. QED
        BY <1>2 DEF Walk

\* Where a command occurs in a text that may have notices in it.
LEMMA OccursIn ==
    ASSUME NEW t \in Seq(Units), NEW c \in Seq(Units), c # <<>>, NEW i \in Nat \ {0}
    PROVE  Occurs(t, i, c) <=>
             i + Len(c) - 1 <= Len(t) /\ \A j \in 1 .. Len(c) : t[(i - 1) + j] = c[j]
    <1>1. Len(t) \in Nat /\ Len(c) \in Nat \ {0}
        BY LenProperties, EmptySeq
    <1>2. ASSUME i + Len(c) - 1 <= Len(t)
          PROVE  SubSeq(t, i, i + Len(c) - 1) = c <=> \A j \in 1 .. Len(c) : t[(i - 1) + j] = c[j]
        <2> DEFINE n == i + Len(c) - 1
                   p == SubSeq(t, i, n)
        <2>1. n \in i - 1 .. Len(t) /\ i \in 1 .. Len(t) + 1 /\ (n - i) + 1 = Len(c)
            BY <1>1, <1>2
        <2>2. /\ p \in Seq(Units) /\ Len(p) = (n - i) + 1
              /\ \A j \in 1 .. (n - i) + 1 : p[j] = t[(i - 1) + j]
            BY <2>1, PartFacts
        <2> HIDE DEF n, p
        <2>3. Len(p) = Len(c) /\ \A j \in 1 .. Len(c) : p[j] = t[(i - 1) + j]
            BY <2>1, <2>2
        <2>4. p = c <=> \A j \in 1 .. Len(c) : p[j] = c[j]
            BY <2>2, <2>3, SeqEqual
        <2>5. QED
            BY <2>3, <2>4 DEF p, n
    <1>3. QED
        BY <1>2 DEF Occurs

\* The text u stands in f behind the place a.
LiesIn(u, f, a) ==
    /\ u \in Seq(Units) /\ f \in Seq(Units) /\ a \in Nat /\ a + Len(u) <= Len(f)
    /\ \A i \in 1 .. Len(u) : u[i] = f[a + i]

LEMMA OccursThere ==
    ASSUME NEW u, NEW f, NEW a, LiesIn(u, f, a),
           NEW c \in Seq(Units), c # <<>>, NEW i \in Nat \ {0}, i + Len(c) - 1 <= Len(u)
    PROVE  Occurs(f, a + i, c) <=> Occurs(u, i, c)
    <1>1. /\ u \in Seq(Units) /\ f \in Seq(Units) /\ a \in Nat /\ a + Len(u) <= Len(f)
          /\ \A j \in 1 .. Len(u) : u[j] = f[a + j]
        BY DEF LiesIn
    <1>2. Len(u) \in Nat /\ Len(f) \in Nat /\ Len(c) \in Nat \ {0}
        BY <1>1, LenProperties, EmptySeq
    <1>3. a + i \in Nat \ {0} /\ (a + i) + Len(c) - 1 <= Len(f)
        BY <1>1, <1>2
    <1>4. ASSUME NEW j \in 1 .. Len(c) PROVE u[(i - 1) + j] = f[((a + i) - 1) + j]
        <2>1. (i - 1) + j \in 1 .. Len(u) /\ a + ((i - 1) + j) = ((a + i) - 1) + j
            BY <1>1, <1>2
        <2>2. QED
            BY <1>1, <2>1
    <1>5. Occurs(u, i, c) <=> \A j \in 1 .. Len(c) : u[(i - 1) + j] = c[j]
        BY <1>1, OccursIn
    <1>6. Occurs(f, a + i, c) <=> \A j \in 1 .. Len(c) : f[((a + i) - 1) + j] = c[j]
        BY <1>1, <1>3, OccursIn
    <1>7. QED
        BY <1>4, <1>5, <1>6

\* What becomes of a part, becomes of it where the part stands; and the other
\* way round.
LEMMA WalkThere ==
    ASSUME NEW o \in Seq(Units), NEW u, NEW f, NEW a, LiesIn(u, f, a),
           NEW C \in SUBSET Seq(Units), <<>> \notin C,
           NEW b \in 0 .. Len(u), NEW e \in 0 .. Len(u), Walk(o, u, C, {}, b, e)
    PROVE  Walk(o, f, C, {}, a + b, a + e)
    <1>1. /\ u \in Seq(Units) /\ f \in Seq(Units) /\ a \in Nat /\ a + Len(u) <= Len(f)
          /\ \A j \in 1 .. Len(u) : u[j] = f[a + j]
        BY DEF LiesIn
    <1>2. Len(u) \in Nat /\ Len(f) \in Nat /\ Len(o) \in Nat
        BY <1>1, LenProperties
    <1>3. PICK m : Walks(m, o, u, C, {}, b, e)
        BY DEF Walk
    <1>4. /\ m \in [0 .. Len(o) -> 0 .. Len(u)] /\ m[0] = b /\ m[Len(o)] = e
          /\ \A i \in 1 .. Len(o) : StandsFor(m, o, u, C, {}, i)
        BY <1>3 DEF Walks
    <1> DEFINE h == [i \in 0 .. Len(o) |-> a + m[i]]
    <1>5. ASSUME NEW i \in 0 .. Len(o) PROVE a + m[i] \in 0 .. Len(f)
        <2>1. m[i] \in 0 .. Len(u)
            BY <1>4
        <2>2. QED
            BY <1>1, <1>2, <2>1
    <1>6. h \in [0 .. Len(o) -> 0 .. Len(f)] /\ \A i \in 0 .. Len(o) : h[i] = a + m[i]
        BY <1>5
    <1> HIDE DEF h
    <1>7. ASSUME NEW i \in 1 .. Len(o) PROVE StandsFor(h, o, f, C, {}, i)
        <2>1. i \in 0 .. Len(o) /\ i - 1 \in 0 .. Len(o)
            BY <1>2
        <2> DEFINE x == m[i]
                   y == m[i - 1]
        <2>2. x \in 0 .. Len(u) /\ y \in 0 .. Len(u) /\ h[i] = a + x /\ h[i - 1] = a + y
            BY <1>4, <1>6, <2>1
        <2>3. StandsFor(m, o, u, C, {}, i)
            BY <1>4
        <2>4. \/ x = y + 1 /\ o[i] = u[x]
              \/ o[i] = Notice /\ \E c \in C : Occurs(u, y + 1, c) /\ x = y + Len(c)
            BY <2>3 DEF StandsFor
        <2> HIDE DEF x, y
        <2>5. CASE x = y + 1 /\ o[i] = u[x]
            <3>1. x \in 1 .. Len(u) /\ a + x = (a + y) + 1
                BY <1>1, <1>2, <2>2, <2>5
            <3>2. o[i] = f[a + x]
                BY <1>1, <2>5, <3>1
            <3>3. QED
                BY <2>2, <3>1, <3>2 DEF StandsFor
        <2>6. CASE o[i] = Notice /\ \E c \in C : Occurs(u, y + 1, c) /\ x = y + Len(c)
            <3>1. PICK c \in C : Occurs(u, y + 1, c) /\ x = y + Len(c)
                BY <2>6
            <3>2. c \in Seq(Units) /\ c # <<>> /\ Len(c) \in Nat
                BY LenProperties
            <3>3. /\ y + 1 \in Nat \ {0} /\ (y + 1) + Len(c) - 1 <= Len(u)
                  /\ a + (y + 1) = (a + y) + 1 /\ a + x = (a + y) + Len(c)
                <4> DEFINE k == Len(c)
                <4>1. k \in Nat /\ y \in Nat /\ a \in Nat /\ x = y + k /\ x <= Len(u)
                    BY <1>1, <1>2, <2>2, <3>1, <3>2
                <4> HIDE DEF k
                <4>2. /\ y + 1 \in Nat \ {0} /\ (y + 1) + k - 1 = x
                      /\ a + (y + 1) = (a + y) + 1 /\ a + x = (a + y) + k
                    BY <4>1
                <4>3. QED
                    BY <4>1, <4>2 DEF k
            <3>4. Occurs(f, a + (y + 1), c)
                BY <3>1, <3>2, <3>3, OccursThere
            <3>5. Occurs(f, h[i - 1] + 1, c) /\ h[i] = h[i - 1] + Len(c)
                BY <2>2, <3>3, <3>4
            <3>6. QED
                BY <2>6, <3>5 DEF StandsFor
        <2>7. QED
            BY <2>4, <2>5, <2>6
    <1>8. h[0] = a + b /\ h[Len(o)] = a + e
        BY <1>2, <1>4, <1>6
    <1>9. Walks(h, o, f, C, {}, a + b, a + e)
        BY <1>6, <1>7, <1>8 DEF Walks
    <1>10. QED
        BY <1>9 DEF Walk

\* A command in what a walk makes was copied, from a place where no command of D
\* begins.
LEMMA WalkCopies ==
    ASSUME NEW o \in Seq(Units), NEW f \in Seq(Units), NEW C, NEW D, NEW a, NEW b, NEW m,
           Walks(m, o, f, C, D, a, b),
           NEW c \in Seq(Bytes), c # <<>>, NEW p \in Nat, Occurs(o, p + 1, c)
    PROVE  /\ p + Len(c) <= Len(o)
           /\ m[p + Len(c)] = m[p] + Len(c)
           /\ Occurs(f, m[p] + 1, c)
           /\ c \notin D
    <1>1. /\ m \in [0 .. Len(o) -> 0 .. Len(f)]
          /\ \A i \in 1 .. Len(o) : StandsFor(m, o, f, C, D, i)
        BY DEF Walks
    <1> DEFINE n == Len(c)
    <1>2. Len(o) \in Nat /\ Len(f) \in Nat /\ n \in Nat \ {0} /\ c \in Seq(Units)
        BY LenProperties, EmptySeq, UnitSeqs
    <1>3. p + n <= Len(o) /\ \A j \in 1 .. n : o[p + j] = c[j]
        <2>1. p + 1 \in Nat \ {0} /\ (p + 1) + n - 1 = p + n /\ (p + 1) - 1 = p
            BY <1>2
        <2>2. (p + 1) + n - 1 <= Len(o) /\ \A j \in 1 .. n : o[((p + 1) - 1) + j] = c[j]
            BY <1>2, <2>1, OccursIn
        <2>3. QED
            BY <2>1, <2>2
    <1> HIDE DEF n
    <1>4. ASSUME NEW j \in 1 .. n
          PROVE  /\ m[p + j] = m[p + (j - 1)] + 1 /\ c[j] = f[m[p + j]]
                 /\ \A d \in D : ~ Occurs(f, m[p + j], d)
        <2>1. p + j \in 1 .. Len(o) /\ (p + j) - 1 = p + (j - 1)
            BY <1>2, <1>3
        <2>2. o[p + j] = c[j] /\ c[j] \in Bytes /\ c[j] # Notice
            <3>1. c[j] \in Bytes
                BY ElementOfSeq DEF n
            <3>2. QED
                BY <1>3, <3>1, UnitSeqs
        <2>3. StandsFor(m, o, f, C, D, p + j)
            BY <1>1, <2>1
        <2>4. QED
            BY <2>1, <2>2, <2>3 DEF StandsFor
    <1>5. p \in 0 .. Len(o) /\ m[p] \in 0 .. Len(f)
        <2>1. p \in 0 .. Len(o)
            BY <1>2, <1>3
        <2>2. QED
            BY <1>1, <2>1
    <1>6. \A j \in 0 .. n : m[p + j] = m[p] + j
        <2> DEFINE P == {j \in 0 .. n : m[p + j] = m[p] + j}
        <2>1. 0 \in P
            <3>1. p + 0 = p /\ m[p] + 0 = m[p] /\ 0 \in 0 .. n
                BY <1>2, <1>5
            <3>2. QED
                BY <3>1
        <2>2. ASSUME NEW j \in 1 .. n, j - 1 \in P PROVE j \in P
            <3>1. m[p + (j - 1)] = m[p] + (j - 1) /\ m[p + j] = m[p + (j - 1)] + 1
                BY <1>4, <2>2
            <3>2. (m[p] + (j - 1)) + 1 = m[p] + j /\ j \in 0 .. n
                BY <1>2, <1>5
            <3>3. QED
                BY <3>1, <3>2
        <2>3. P \in SUBSET (0 .. n) /\ n \in Nat
            BY <1>2
        <2> HIDE DEF P
        <2>4. \A j \in 0 .. n : j \in P
            BY <2>1, <2>2, <2>3, IntervalInduction
        <2>5. QED
            BY <2>4 DEF P
    <1>7. m[p + n] = m[p] + n /\ m[p] + n <= Len(f)
        <2>1. n \in 0 .. n /\ p + n \in 0 .. Len(o)
            BY <1>2, <1>3
        <2>2. m[p + n] = m[p] + n /\ m[p + n] \in 0 .. Len(f)
            BY <1>1, <1>6, <2>1
        <2>3. QED
            BY <1>2, <2>2
    <1>8. Occurs(f, m[p] + 1, c)
        <2> DEFINE q == m[p]
        <2>1. q + 1 \in Nat \ {0} /\ (q + 1) + n - 1 <= Len(f) /\ (q + 1) - 1 = q
            BY <1>2, <1>5, <1>7
        <2>2. ASSUME NEW j \in 1 .. n PROVE f[q + j] = c[j]
            <3>1. j \in 0 .. n
                BY <1>2
            <3>2. QED
                BY <1>4, <1>6, <3>1
        <2> HIDE DEF q
        <2>3. /\ (q + 1) + Len(c) - 1 <= Len(f)
              /\ \A j \in 1 .. Len(c) : f[((q + 1) - 1) + j] = c[j]
            BY <2>1, <2>2 DEF n
        <2>4. Occurs(f, q + 1, c)
            BY <1>2, <2>1, <2>3, OccursIn
        <2>5. QED
            BY <2>4 DEF q
    <1>9. c \notin D
        <2>1. 1 \in 1 .. n /\ 1 \in 0 .. n
            BY <1>2
        <2>2. m[p + 1] = m[p] + 1 /\ \A d \in D : ~ Occurs(f, m[p + 1], d)
            BY <1>4, <1>6, <2>1
        <2>3. QED
            BY <1>8, <2>2
    <1>10. QED
        BY <1>3, <1>7, <1>8, <1>9 DEF n

\* What becomes of something that became of f.
LEMMA WalkCompose ==
    ASSUME NEW o \in Seq(Units), NEW u \in Seq(Units), NEW f \in Seq(Units),
           NEW C \in SUBSET Seq(Bytes), <<>> \notin C,
           Walk(o, u, C, {}, 0, Len(u)), Walk(u, f, C, {}, 0, Len(f))
    PROVE  Walk(o, f, C, {}, 0, Len(f))
    <1>1. PICK g : Walks(g, o, u, C, {}, 0, Len(u))
        BY DEF Walk
    <1>2. PICK h : Walks(h, u, f, C, {}, 0, Len(f))
        BY DEF Walk
    <1>3. /\ g \in [0 .. Len(o) -> 0 .. Len(u)] /\ g[0] = 0 /\ g[Len(o)] = Len(u)
          /\ \A i \in 1 .. Len(o) : StandsFor(g, o, u, C, {}, i)
        BY <1>1 DEF Walks
    <1>4. /\ h \in [0 .. Len(u) -> 0 .. Len(f)] /\ h[0] = 0 /\ h[Len(u)] = Len(f)
          /\ \A i \in 1 .. Len(u) : StandsFor(h, u, f, C, {}, i)
        BY <1>2 DEF Walks
    <1>5. Len(o) \in Nat /\ Len(u) \in Nat /\ Len(f) \in Nat
        BY LenProperties
    <1> DEFINE m == [i \in 0 .. Len(o) |-> h[g[i]]]
    <1>6. m \in [0 .. Len(o) -> 0 .. Len(f)] /\ \A i \in 0 .. Len(o) : m[i] = h[g[i]]
        BY <1>3, <1>4
    <1> HIDE DEF m
    <1>7. m[0] = 0 /\ m[Len(o)] = Len(f)
        <2>1. 0 \in 0 .. Len(o) /\ Len(o) \in 0 .. Len(o)
            BY <1>5
        <2>2. QED
            BY <1>3, <1>4, <1>6, <2>1
    <1>8. ASSUME NEW i \in 1 .. Len(o) PROVE StandsFor(m, o, f, C, {}, i)
        <2> DEFINE x == g[i]
                   y == g[i - 1]
        <2>1. i \in 0 .. Len(o) /\ i - 1 \in 0 .. Len(o)
            BY <1>5
        <2>2. x \in 0 .. Len(u) /\ y \in 0 .. Len(u) /\ m[i] = h[x] /\ m[i - 1] = h[y]
            BY <1>3, <1>6, <2>1
        <2>3. StandsFor(g, o, u, C, {}, i)
            BY <1>3
        <2>4. \/ x = y + 1 /\ o[i] = u[x]
              \/ o[i] = Notice /\ \E c \in C : Occurs(u, y + 1, c) /\ x = y + Len(c)
            BY <2>3 DEF StandsFor
        <2> HIDE DEF x, y
        <2>5. CASE x = y + 1 /\ o[i] = u[x]
            <3>1. x \in 1 .. Len(u) /\ x - 1 = y
                BY <1>5, <2>2, <2>5
            <3>2. StandsFor(h, u, f, C, {}, x)
                BY <1>4, <3>1
            <3>3. QED
                BY <2>2, <2>5, <3>1, <3>2 DEF StandsFor
        <2>6. CASE o[i] = Notice /\ \E c \in C : Occurs(u, y + 1, c) /\ x = y + Len(c)
            <3>1. PICK c \in C : Occurs(u, y + 1, c) /\ x = y + Len(c)
                BY <2>6
            <3>2. c \in Seq(Bytes) /\ c # <<>> /\ y \in Nat
                BY <1>5, <2>2
            <3>3. h[y + Len(c)] = h[y] + Len(c) /\ Occurs(f, h[y] + 1, c)
                BY <1>2, <3>1, <3>2, WalkCopies
            <3>4. QED
                BY <2>2, <2>6, <3>1, <3>3 DEF StandsFor
        <2>7. QED
            BY <2>4, <2>5, <2>6
    <1>9. Walks(m, o, f, C, {}, 0, Len(f))
        BY <1>6, <1>7, <1>8 DEF Walks
    <1>10. QED
        BY <1>9 DEF Walk

-----------------------------------------------------------------------------
(* The recursive functions of the model.                                   *)

\* A walk over all of f is a rewriting of it.
LEMMA WalkIsRewriting ==
    ASSUME NEW o \in Seq(Units), NEW f \in Seq(Units), Walk(o, f, Commands, {}, 0, Len(f))
    PROVE  RewritingOf(o, f)
    <1> DEFINE n == Len(o)
               J == 0 .. Len(f)
               Onward(R, i) ==
                   {j \in J : \/ j > 0 /\ o[i] = f[j] /\ j - 1 \in R
                              \/ /\ o[i] = Notice
                                 /\ \E c \in Commands : /\ Len(c) <= j /\ j - Len(c) \in R
                                                        /\ Occurs(f, j - Len(c) + 1, c)}
               Good(R) == R = [i \in 0 .. n |-> IF i = 0 THEN {0} ELSE Onward(R[i - 1], i)]
               Reach == CHOOSE R : Good(R)
    <1>1. n \in Nat /\ Len(f) \in Nat
        BY LenProperties
    <1>2. RewritingOf(o, f) <=> Len(f) \in Reach[n]
        BY DEF RewritingOf
    <1>3. \E R : Good(R)
        <2> DEFINE G == [i \in 1 .. n |-> [R \in SUBSET J |-> Onward(R, i)]]
        <2>1. \A i, R : Onward(R, i) \in SUBSET J
            OBVIOUS
        <2> HIDE DEF Onward
        <2>2. G \in [1 .. n -> [SUBSET J -> SUBSET J]] /\ {0} \in SUBSET J
            BY <1>1, <2>1
        <2>3. \A i \in 1 .. n : \A R \in SUBSET J : G[i][R] = Onward(R, i)
            OBVIOUS
        <2> HIDE DEF G, J, n
        <2>4. PICK R \in [0 .. n -> SUBSET J] : R[0] = {0} /\ \A i \in 1 .. n : R[i] = G[i][R[i - 1]]
            <3> DEFINE K == SUBSET J
                       z == {0}
            <3>1. G \in StepsOn(n, K) /\ z \in K
                BY <2>2 DEF StepsOn
            <3> HIDE DEF K, z
            <3>2. PICK R : Follows(R, n, K, z, G)
                BY <1>1, <3>1, StepwiseFunction
            <3>3. QED
                BY <3>2 DEF Follows, K, z
        <2>5. ASSUME NEW i \in 0 .. n PROVE R[i] = IF i = 0 THEN {0} ELSE Onward(R[i - 1], i)
            <3>1. CASE i = 0
                BY <2>4, <3>1
            <3>2. CASE i # 0
                <4>1. i \in 1 .. n /\ i - 1 \in 0 .. n
                    BY <1>1, <3>2
                <4>2. R[i - 1] \in SUBSET J
                    BY <4>1
                <4>3. QED
                    BY <2>3, <2>4, <3>2, <4>1, <4>2
            <3>3. QED
                BY <3>1, <3>2
        <2>6. Good(R)
            BY <2>5
        <2>7. QED
            BY <2>6
    <1>4. Good(Reach)
        <2> HIDE DEF Good
        <2>1. QED
            BY <1>3
    <1> HIDE DEF Reach
    <1>5. /\ Reach[0] = {0}
          /\ \A i \in 1 .. n : Reach[i] = Onward(Reach[i - 1], i)
        <2>1. \A i \in 0 .. n : Reach[i] = IF i = 0 THEN {0} ELSE Onward(Reach[i - 1], i)
            <3> HIDE DEF Onward
            <3>1. QED
                BY <1>4
        <2> HIDE DEF Good, Onward
        <2>2. 0 \in 0 .. n /\ \A i \in 1 .. n : i \in 0 .. n /\ i # 0
            BY <1>1
        <2>3. QED
            BY <2>1, <2>2
    <1>6. PICK m : Walks(m, o, f, Commands, {}, 0, Len(f))
        BY DEF Walk
    <1>7. /\ m \in [0 .. n -> J] /\ m[0] = 0 /\ m[n] = Len(f)
          /\ \A i \in 1 .. n : StandsFor(m, o, f, Commands, {}, i)
        BY <1>6 DEF Walks
    <1> HIDE DEF Good, n
    <1> DEFINE P == {i \in 0 .. n : m[i] \in Reach[i]}
    <1>8. 0 \in P
        BY <1>1, <1>5, <1>7
    <1>9. ASSUME NEW i \in 1 .. n, i - 1 \in P PROVE i \in P
        <2> DEFINE x == m[i]
                   y == m[i - 1]
        <2>1. i \in 0 .. n /\ i - 1 \in 0 .. n
            BY <1>1
        <2>2. x \in J /\ y \in J /\ x \in Nat /\ y \in Nat /\ y \in Reach[i - 1]
            BY <1>1, <1>7, <1>9, <2>1
        <2>3. StandsFor(m, o, f, Commands, {}, i)
            BY <1>7
        <2>4. \/ x = y + 1 /\ o[i] = f[x]
              \/ o[i] = Notice /\ \E c \in Commands : Occurs(f, y + 1, c) /\ x = y + Len(c)
            BY <2>3 DEF StandsFor
        <2> HIDE DEF x, y, J
        <2>5. CASE x = y + 1 /\ o[i] = f[x]
            <3>1. x > 0 /\ x - 1 = y
                BY <2>2, <2>5
            <3>2. x \in Onward(Reach[i - 1], i)
                BY <2>2, <2>5, <3>1
            <3>3. QED
                BY <1>5, <2>1, <3>2 DEF x
        <2>6. CASE o[i] = Notice /\ \E c \in Commands : Occurs(f, y + 1, c) /\ x = y + Len(c)
            <3>1. PICK c \in Commands : Occurs(f, y + 1, c) /\ x = y + Len(c)
                BY <2>6
            <3>2. Len(c) \in Nat
                BY CommandTypes, LenProperties
            <3>3. Len(c) <= x /\ x - Len(c) = y
                BY <2>2, <3>1, <3>2
            <3>4. x \in Onward(Reach[i - 1], i)
                BY <2>2, <2>6, <3>1, <3>3
            <3>5. QED
                BY <1>5, <2>1, <3>4 DEF x
        <2>7. QED
            BY <2>4, <2>5, <2>6
    <1>10. P \in SUBSET (0 .. n)
        OBVIOUS
    <1>11. n \in P
        <2> HIDE DEF P
        <2>1. \A i \in 0 .. n : i \in P
            BY <1>1, <1>8, <1>9, <1>10, IntervalInduction
        <2>2. n \in 0 .. n
            BY <1>1
        <2>3. QED
            BY <2>1, <2>2
    <1>12. QED
        BY <1>2, <1>7, <1>11

\* One position of the search for a rule's commands.
LEMMA ReplaceNextFacts ==
    ASSUME NEW t \in Seq(Units), NEW rule, NEW C \in SUBSET Seq(Bytes), C = rule.commands, <<>> \notin C,
           NEW s \in [text : Seq(Units), next : Nat], NEW i \in 1 .. Len(t)
    PROVE  /\ ReplaceNext(t, rule, s, i) \in [text : Seq(Units), next : Nat]
           /\ (i - 1 < s.next /\ s.next <= Len(t) + 1 /\ Walk(s.text, t, C, C, 0, s.next - 1)) =>
                LET r == ReplaceNext(t, rule, s, i)
                IN i < r.next /\ r.next <= Len(t) + 1 /\ Walk(r.text, t, C, C, 0, r.next - 1)
    <1> DEFINE here == {c \in C : Occurs(t, i, c)}
               r == ReplaceNext(t, rule, s, i)
    <1>1. r = IF i < s.next THEN s
              ELSE IF here # {}
                   THEN [text |-> Append(s.text, Notice), next |-> i + Len(CHOOSE c \in here : TRUE)]
                   ELSE [text |-> Append(s.text, t[i]), next |-> i + 1]
        BY DEF ReplaceNext
    <1>2. Len(t) \in Nat /\ i \in Nat \ {0} /\ t[i] \in Units /\ Notice \in Units
        BY LenProperties, ElementOfSeq, UnitSeqs
    <1>3. s.text \in Seq(Units) /\ s.next \in Nat
        OBVIOUS
    <1> HIDE DEF r
    <1> SUFFICES /\ r \in [text : Seq(Units), next : Nat]
                 /\ (i - 1 < s.next /\ s.next <= Len(t) + 1 /\ Walk(s.text, t, C, C, 0, s.next - 1)) =>
                      i < r.next /\ r.next <= Len(t) + 1 /\ Walk(r.text, t, C, C, 0, r.next - 1)
        BY DEF r
    <1>4. CASE i < s.next
        BY <1>1, <1>4
    <1>5. CASE ~ (i < s.next) /\ here # {}
        <2> DEFINE c == CHOOSE c \in here : TRUE
        <2>1. c \in C /\ Occurs(t, i, c)
            BY <1>5
        <2>2. r = [text |-> Append(s.text, Notice), next |-> i + Len(c)]
            BY <1>1, <1>5
        <2> HIDE DEF c, here
        <2>3. c \in Seq(Bytes) /\ c # <<>> /\ c \in Seq(Units)
            BY <2>1, UnitSeqs
        <2>4. Len(c) \in Nat \ {0}
            BY <2>3, LenProperties, EmptySeq
        <2>5. i + Len(c) - 1 <= Len(t)
            BY <1>2, <2>1, <2>3, OccursIn
        <2>6. Append(s.text, Notice) \in Seq(Units) /\ i + Len(c) \in Nat
            BY <1>2, <1>3, <2>4
        <2>7. r.text = Append(s.text, Notice) /\ r.next = i + Len(c) /\ r \in [text : Seq(Units), next : Nat]
            BY <2>2, <2>6
        <2>8. ASSUME i - 1 < s.next, s.next <= Len(t) + 1, Walk(s.text, t, C, C, 0, s.next - 1)
              PROVE  i < r.next /\ r.next <= Len(t) + 1 /\ Walk(r.text, t, C, C, 0, r.next - 1)
            <3> DEFINE b == s.next - 1
                       e == r.next - 1
            <3>1. s.next = i
                BY <1>2, <1>3, <1>5, <2>8
            <3>2. b = i - 1 /\ b + 1 = i /\ e = b + Len(c) /\ b \in 0 .. Len(t) /\ e \in 0 .. Len(t)
                <4> DEFINE l == Len(c)
                <4>1. l \in Nat \ {0} /\ i + l - 1 <= Len(t) /\ r.next = i + l
                    BY <2>4, <2>5, <2>7
                <4> HIDE DEF l
                <4>2. b = i - 1 /\ b + 1 = i /\ e = b + l /\ b \in 0 .. Len(t) /\ e \in 0 .. Len(t)
                    BY <1>2, <3>1, <4>1
                <4>3. QED
                    BY <4>2 DEF l
            <3>3. i < r.next /\ r.next <= Len(t) + 1
                BY <1>2, <2>4, <2>5, <2>7
            <3> HIDE DEF b, e
            <3>4. Walk(s.text, t, C, C, 0, b)
                BY <2>8 DEF b
            <3>5. Occurs(t, b + 1, c)
                BY <2>1, <3>2
            <3>6. Walk(Append(s.text, Notice), t, C, C, 0, e)
                BY <1>2, <1>3, <2>1, <3>2, <3>4, <3>5, WalkAppend
            <3>7. QED
                BY <2>7, <3>3, <3>6 DEF e
        <2>9. QED
            BY <2>7, <2>8
    <1>6. CASE ~ (i < s.next) /\ here = {}
        <2>1. r = [text |-> Append(s.text, t[i]), next |-> i + 1]
            BY <1>1, <1>6
        <2>2. \A d \in C : ~ Occurs(t, i, d)
            BY <1>6
        <2> HIDE DEF here
        <2>3. Append(s.text, t[i]) \in Seq(Units) /\ i + 1 \in Nat
            BY <1>2, <1>3
        <2>4. r.text = Append(s.text, t[i]) /\ r.next = i + 1 /\ r \in [text : Seq(Units), next : Nat]
            BY <2>1, <2>3
        <2>5. ASSUME i - 1 < s.next, s.next <= Len(t) + 1, Walk(s.text, t, C, C, 0, s.next - 1)
              PROVE  i < r.next /\ r.next <= Len(t) + 1 /\ Walk(r.text, t, C, C, 0, r.next - 1)
            <3> DEFINE b == s.next - 1
                       x == t[i]
            <3>1. s.next = i
                BY <1>2, <1>3, <1>6, <2>5
            <3>2. b = i - 1 /\ i = b + 1 /\ b \in 0 .. Len(t) /\ i \in 0 .. Len(t) /\ r.next - 1 = i
                BY <1>2, <2>4, <3>1
            <3>3. i < r.next /\ r.next <= Len(t) + 1
                BY <1>2, <2>4
            <3> HIDE DEF b
            <3>4. Walk(s.text, t, C, C, 0, b)
                BY <2>5 DEF b
            <3>5. x \in Units /\ x = t[i]
                BY <1>2
            <3> HIDE DEF x
            <3>6. Walk(Append(s.text, x), t, C, C, 0, i)
                BY <1>3, <2>2, <3>2, <3>4, <3>5, WalkAppend
            <3>7. QED
                BY <2>4, <3>2, <3>3, <3>6 DEF x
        <2>6. QED
            BY <2>4, <2>5
    <1>7. QED
        BY <1>4, <1>5, <1>6

\* What replace_all_literal makes of a text: every command of the rule that the
\* search meets is replaced, and what is copied begins none.
LEMMA ReplaceFacts ==
    ASSUME NEW t \in Seq(Units), NEW rule, NEW C \in SUBSET Seq(Bytes), C = rule.commands, <<>> \notin C
    PROVE  /\ ReplaceLiteral(t, rule) \in Seq(Units)
           /\ Walk(ReplaceLiteral(t, rule), t, C, C, 0, Len(t))
    <1> DEFINE n == Len(t)
               S == [text : Seq(Units), next : Nat]
               start == [text |-> <<>>, next |-> 1]
               Good(A) == A = [i \in 0 .. n |-> IF i = 0 THEN start ELSE ReplaceNext(t, rule, A[i - 1], i)]
               After == CHOOSE A : Good(A)
    <1>1. n \in Nat
        BY LenProperties
    <1>2. ReplaceLiteral(t, rule) = After[n].text
        BY DEF ReplaceLiteral
    <1>3. start \in S /\ start.text = <<>> /\ start.next = 1
        BY EmptySeq
    <1>4. \A i \in 1 .. n : \A s \in S : ReplaceNext(t, rule, s, i) \in S
        BY ReplaceNextFacts
    <1>5. \E A : Good(A)
        <2> DEFINE G == [i \in 1 .. n |-> [s \in S |-> ReplaceNext(t, rule, s, i)]]
        <2> HIDE DEF S, n, start
        <2>1. G \in StepsOn(n, S)
            BY <1>4 DEF StepsOn
        <2>2. \A i \in 1 .. n : \A s \in S : G[i][s] = ReplaceNext(t, rule, s, i)
            OBVIOUS
        <2> HIDE DEF G
        <2>3. PICK A : Follows(A, n, S, start, G)
            BY <1>1, <1>3, <2>1, StepwiseFunction
        <2>4. A \in [0 .. n -> S] /\ A[0] = start /\ \A i \in 1 .. n : A[i] = G[i][A[i - 1]]
            BY <2>3 DEF Follows
        <2>5. ASSUME NEW i \in 0 .. n
              PROVE  A[i] = IF i = 0 THEN start ELSE ReplaceNext(t, rule, A[i - 1], i)
            <3>1. CASE i = 0
                BY <2>4, <3>1
            <3>2. CASE i # 0
                <4>1. i \in 1 .. n /\ i - 1 \in 0 .. n
                    BY <1>1, <3>2
                <4>2. A[i - 1] \in S
                    BY <2>4, <4>1
                <4>3. QED
                    BY <2>2, <2>4, <3>2, <4>1, <4>2
            <3>3. QED
                BY <3>1, <3>2
        <2>6. Good(A)
            BY <2>4, <2>5
        <2>7. QED
            BY <2>6
    <1>6. Good(After)
        <2> HIDE DEF Good
        <2>1. QED
            BY <1>5
    <1> HIDE DEF After, n, start, S
    <1>7. /\ After[0] = start
          /\ \A i \in 1 .. n : After[i] = ReplaceNext(t, rule, After[i - 1], i)
        <2>1. \A i \in 0 .. n : After[i] = IF i = 0 THEN start ELSE ReplaceNext(t, rule, After[i - 1], i)
            BY <1>6
        <2> HIDE DEF Good
        <2>2. 0 \in 0 .. n /\ \A i \in 1 .. n : i \in 0 .. n /\ i # 0
            BY <1>1
        <2>3. QED
            BY <2>1, <2>2
    <1> HIDE DEF Good
    <1> DEFINE Fine(i, s) == /\ s \in S /\ i < s.next /\ s.next <= n + 1
                             /\ Walk(s.text, t, C, C, 0, s.next - 1)
               P == {i \in 0 .. n : Fine(i, After[i])}
    <1>8. Fine(0, start)
        <2>1. 0 \in 0 .. Len(t) /\ 1 - 1 = 0 /\ 0 < 1 /\ 1 <= n + 1
            BY <1>1 DEF n
        <2>2. Walk(<<>>, t, C, C, 0, 0)
            BY <2>1, WalkNone
        <2>3. QED
            BY <1>3, <2>1, <2>2
    <1>9. ASSUME NEW i \in 1 .. n, i - 1 \in P PROVE i \in P
        <2> DEFINE s == After[i - 1]
                   r == ReplaceNext(t, rule, s, i)
        <2>1. s \in S /\ i - 1 < s.next /\ s.next <= n + 1 /\ Walk(s.text, t, C, C, 0, s.next - 1)
            BY <1>9
        <2> HIDE DEF s
        <2>2. r \in S /\ i < r.next /\ r.next <= n + 1 /\ Walk(r.text, t, C, C, 0, r.next - 1)
            BY <2>1, ReplaceNextFacts DEF S, n
        <2>3. After[i] = r /\ i \in 0 .. n
            BY <1>1, <1>7 DEF s
        <2> HIDE DEF r
        <2>4. QED
            BY <2>2, <2>3
    <1>10. Fine(n, After[n])
        <2>1. 0 \in P /\ P \in SUBSET (0 .. n)
            <3> HIDE DEF Fine
            <3>1. QED
                BY <1>1, <1>7, <1>8
        <2> HIDE DEF P, Fine
        <2>2. \A i \in 0 .. n : i \in P
            BY <1>1, <1>9, <2>1, IntervalInduction
        <2>3. n \in 0 .. n
            BY <1>1
        <2>4. QED
            BY <2>2, <2>3 DEF P
    <1>11. QED
        <2> DEFINE s == After[n]
        <2>1. s \in S /\ n < s.next /\ s.next <= n + 1 /\ Walk(s.text, t, C, C, 0, s.next - 1)
            BY <1>10
        <2> HIDE DEF s, P, Fine
        <2>2. s.text \in Seq(Units) /\ s.next \in Nat
            BY <2>1 DEF S
        <2>3. s.next - 1 = n
            BY <1>1, <2>1, <2>2
        <2>4. QED
            BY <1>2, <2>1, <2>2, <2>3 DEF s, n

\* No command of these occurs in o.
Free(o, C) == \A c \in C : \A i \in Nat \ {0} : ~ Occurs(o, i, c)

LEMMA RuleTypes ==
    ASSUME NEW k \in Rules
    PROVE  /\ Patterns[k].commands \in SUBSET Seq(Bytes) /\ <<>> \notin Patterns[k].commands
           /\ Patterns[k].commands \subseteq Commands
    BY CmdAssumption DEF Rules, Commands

LEMMA CommandsWhole == Commands \in SUBSET Seq(Bytes) /\ <<>> \notin Commands
    BY CmdAssumption DEF Rules, Commands

\* A text, walked over as it is.
LEMMA WalkSame ==
    ASSUME NEW t \in Seq(Units), NEW C
    PROVE  Walk(t, t, C, {}, 0, Len(t))
    <1> DEFINE m == [i \in 0 .. Len(t) |-> i]
    <1>1. Len(t) \in Nat
        BY LenProperties
    <1>2. m \in [0 .. Len(t) -> 0 .. Len(t)] /\ m[0] = 0 /\ m[Len(t)] = Len(t)
        BY <1>1
    <1>3. ASSUME NEW i \in 1 .. Len(t) PROVE StandsFor(m, t, t, C, {}, i)
        <2>1. m[i] = i /\ m[i - 1] = i - 1 /\ (i - 1) + 1 = i
            BY <1>1
        <2> HIDE DEF m
        <2>2. QED
            BY <2>1 DEF StandsFor
    <1> HIDE DEF m
    <1>4. Walks(m, t, t, C, {}, 0, Len(t))
        BY <1>2, <1>3 DEF Walks
    <1>5. QED
        BY <1>4 DEF Walk

\* A walk brings in no command, and leaves none of D.
LEMMA WalkFrees ==
    ASSUME NEW o \in Seq(Units), NEW f \in Seq(Units), NEW C, NEW D, NEW a, NEW b,
           Walk(o, f, C, D, a, b),
           NEW E \in SUBSET Seq(Bytes), <<>> \notin E, Free(f, E) \/ E = D
    PROVE  Free(o, E)
    <1>1. PICK m : Walks(m, o, f, C, D, a, b)
        BY DEF Walk
    <1>2. SUFFICES ASSUME NEW c \in E, NEW i \in Nat \ {0}, Occurs(o, i, c) PROVE FALSE
        BY DEF Free
    <1> DEFINE p == i - 1
    <1>3. p \in Nat /\ i = p + 1 /\ c \in Seq(Bytes) /\ c # <<>>
        OBVIOUS
    <1> HIDE DEF p
    <1>4. Occurs(o, p + 1, c)
        BY <1>2, <1>3
    <1>5. p + Len(c) <= Len(o) /\ Occurs(f, m[p] + 1, c) /\ c \notin D
        BY <1>1, <1>3, <1>4, WalkCopies
    <1>6. m[p] + 1 \in Nat \ {0}
        <2>1. Len(o) \in Nat /\ Len(f) \in Nat /\ Len(c) \in Nat
            BY <1>3, LenProperties
        <2>2. p \in 0 .. Len(o)
            BY <1>3, <1>5, <2>1
        <2>3. m[p] \in 0 .. Len(f)
            BY <1>1, <2>2 DEF Walks
        <2>4. QED
            BY <2>1, <2>3
    <1>7. QED
        BY <1>5, <1>6 DEF Free

\* What rewrite makes of a text: commands replaced, and no command of an enabled
\* rule left, not even one that the replacing brought together.
LEMMA RewriteFacts ==
    ASSUME NEW t \in Seq(Units)
    PROVE  /\ Rewrite(t) \in Seq(Units)
           /\ Walk(Rewrite(t), t, Commands, {}, 0, Len(t))
           /\ \A k \in Enabled : Free(Rewrite(t), Patterns[k].commands)
    <1> DEFINE n == Len(Patterns)
               S == Seq(Units)
               Turn(u, k) == IF k \in Enabled THEN ReplaceLiteral(u, Patterns[k]) ELSE u
               Good(A) == A = [k \in 0 .. n |->
                                 IF k = 0 THEN t
                                 ELSE IF k \in Enabled THEN ReplaceLiteral(A[k - 1], Patterns[k])
                                 ELSE A[k - 1]]
               After == CHOOSE A : Good(A)
    <1>1. n \in Nat /\ t \in S
        BY CmdAssumption
    <1>2. Rewrite(t) = After[n]
        BY DEF Rewrite
    <1>3. ASSUME NEW k \in 1 .. n, NEW u \in S
          PROVE  /\ Turn(u, k) \in S
                 /\ Walk(u, t, Commands, {}, 0, Len(t)) => Walk(Turn(u, k), t, Commands, {}, 0, Len(t))
                 /\ \A j \in Enabled : j = k \/ Free(u, Patterns[j].commands)
                                         => Free(Turn(u, k), Patterns[j].commands)
        <2> DEFINE C == Patterns[k].commands
                   r == ReplaceLiteral(u, Patterns[k])
        <2>1. CASE k \notin Enabled
            BY <2>1
        <2>2. CASE k \in Enabled
            <3>1. C \in SUBSET Seq(Bytes) /\ <<>> \notin C /\ C \subseteq Commands
                BY RuleTypes DEF Rules
            <3>2. r \in Seq(Units) /\ Walk(r, u, C, C, 0, Len(u))
                BY <3>1, ReplaceFacts
            <3> HIDE DEF C, r
            <3>3. Walk(r, u, Commands, {}, 0, Len(u))
                BY <3>1, <3>2, WalkWeaken
            <3>4. Walk(u, t, Commands, {}, 0, Len(t)) => Walk(r, t, Commands, {}, 0, Len(t))
                BY <3>2, <3>3, CommandsWhole, WalkCompose
            <3>5. ASSUME NEW j \in Enabled, j = k \/ Free(u, Patterns[j].commands)
                  PROVE  Free(r, Patterns[j].commands)
                <4> DEFINE E == Patterns[j].commands
                <4>1. E \in SUBSET Seq(Bytes) /\ <<>> \notin E
                    BY RuleTypes DEF Enabled
                <4>2. Free(u, E) \/ E = C
                    BY <3>5 DEF C
                <4> HIDE DEF E
                <4>3. Free(r, E)
                    BY <3>2, <4>1, <4>2, WalkFrees
                <4>4. QED
                    BY <4>3 DEF E
            <3>6. Turn(u, k) = r
                BY <2>2 DEF r
            <3>7. QED
                BY <3>2, <3>4, <3>5, <3>6
        <2>3. QED
            BY <2>1, <2>2
    <1>4. \E A : Good(A)
        <2> DEFINE G == [k \in 1 .. n |-> [u \in S |-> Turn(u, k)]]
        <2> HIDE DEF S, n, Turn
        <2>1. G \in StepsOn(n, S)
            BY <1>3 DEF StepsOn
        <2>2. \A k \in 1 .. n : \A u \in S : G[k][u] = Turn(u, k)
            OBVIOUS
        <2> HIDE DEF G
        <2>3. PICK A : Follows(A, n, S, t, G)
            BY <1>1, <2>1, StepwiseFunction
        <2>4. A \in [0 .. n -> S] /\ A[0] = t /\ \A k \in 1 .. n : A[k] = G[k][A[k - 1]]
            BY <2>3 DEF Follows
        <2>5. ASSUME NEW k \in 0 .. n
              PROVE  A[k] = IF k = 0 THEN t ELSE Turn(A[k - 1], k)
            <3>1. CASE k = 0
                BY <2>4, <3>1
            <3>2. CASE k # 0
                <4>1. k \in 1 .. n /\ k - 1 \in 0 .. n
                    BY <1>1, <3>2
                <4>2. A[k - 1] \in S
                    BY <2>4, <4>1
                <4>3. QED
                    BY <2>2, <2>4, <3>2, <4>1, <4>2
            <3>3. QED
                BY <3>1, <3>2
        <2>6. Good(A)
            BY <2>4, <2>5 DEF Turn
        <2>7. QED
            BY <2>6
    <1>5. Good(After)
        <2> HIDE DEF Good
        <2>1. QED
            BY <1>4
    <1> HIDE DEF After, n, S
    <1>6. After[0] = t /\ \A k \in 1 .. n : After[k] = Turn(After[k - 1], k)
        <2>1. \A k \in 0 .. n : After[k] = IF k = 0 THEN t ELSE Turn(After[k - 1], k)
            BY <1>5
        <2> HIDE DEF Good, Turn
        <2>2. 0 \in 0 .. n /\ \A k \in 1 .. n : k \in 0 .. n /\ k # 0
            BY <1>1
        <2>3. QED
            BY <2>1, <2>2
    <1> HIDE DEF Good, Turn
    <1> DEFINE Fine(k, u) == /\ u \in S /\ Walk(u, t, Commands, {}, 0, Len(t))
                             /\ \A j \in Enabled : j <= k => Free(u, Patterns[j].commands)
               P == {k \in 0 .. n : Fine(k, After[k])}
    <1>7. Fine(0, t)
        <2>1. Walk(t, t, Commands, {}, 0, Len(t))
            BY WalkSame
        <2>2. \A j \in Enabled : ~ (j <= 0)
            BY <1>1 DEF Enabled, Rules
        <2>3. QED
            BY <1>1, <2>1, <2>2
    <1>8. ASSUME NEW k \in 1 .. n, k - 1 \in P PROVE k \in P
        <2> DEFINE u == After[k - 1]
        <2>1. Fine(k - 1, u)
            BY <1>8
        <2>2. After[k] = Turn(u, k) /\ k \in 0 .. n
            BY <1>1, <1>6
        <2> HIDE DEF u
        <2>3. ASSUME NEW j \in Enabled, j <= k PROVE j = k \/ j <= k - 1
            <3>1. j \in Nat /\ k \in Nat
                BY <1>1 DEF Enabled, Rules
            <3>2. QED
                BY <2>3, <3>1
        <2>4. Fine(k, Turn(u, k))
            BY <1>3, <2>1, <2>3
        <2> HIDE DEF Fine
        <2>5. QED
            BY <2>2, <2>4
    <1>9. Fine(n, After[n])
        <2>1. 0 \in P /\ P \in SUBSET (0 .. n)
            <3> HIDE DEF Fine
            <3>1. QED
                BY <1>1, <1>6, <1>7
        <2> HIDE DEF P, Fine
        <2>2. \A k \in 0 .. n : k \in P
            BY <1>1, <1>8, <2>1, IntervalInduction
        <2>3. n \in 0 .. n
            BY <1>1
        <2>4. QED
            BY <2>2, <2>3 DEF P
    <1>10. \A j \in Enabled : j <= n
        BY <1>1 DEF Enabled, Rules, n
    <1>11. QED
        BY <1>2, <1>9, <1>10 DEF S

-----------------------------------------------------------------------------
(* What a step puts out.                                                   *)

\* Text of a stream is acted on.
Acting == path = "stream" /\ engine.mode # "observe" /\ "text" \in engine.channels

\* The part u of the answer, the next behind what was put out, is put out as t:
\* as it is, or rewritten; what came in beyond it is held.
Emits(u, t) ==
    /\ ~ panicked /\ ~ cmd_blocked
    /\ LiesIn(u, script, From)
    /\ u \in Seq(Bytes)
    /\ fed' - Len(cmd_pend') = From + Len(u)
    /\ PutOut(t)
    /\ (t = u /\ (Acting => Acted(u) = {})) \/ t = Rewrite(u)

\* Nothing is put out: the step dies, blocks, was blocked before or hands over
\* nothing.
Silent ==
    /\ UNCHANGED <<out, seams>> \/ PutOut(<<>>)
    /\ panicked' \/ cmd_blocked' \/ UNCHANGED <<fed, cmd_pend>>

\* A JSON answer goes on behind a block, with text that is not acted on.
GoesOn == path # "stream" /\ cmd_blocked /\ \E u \in Seq(Bytes) : PutOut(u)

Output ==
    /\ cmd_blocked => cmd_blocked'
    /\ panicked => panicked'
    /\ Silent \/ GoesOn \/ \E u, t : Emits(u, t)

\* Judging the front of the combined text.
LEMMA JudgeOutput ==
    ASSUME IInv, ~ panicked, ~ cmd_blocked, NEW n, Feeds(n), NEW kind, NEW m, Cut(n, m),
           Judge(Ahead(n, m), Rest(n, m), kind)
    PROVE  Output
    <1> DEFINE f == Ahead(n, m)
               r == Rest(n, m)
    <1>1. n \in Lengths /\ fed' = fed + n
        BY DEF Feeds
    <1>2. /\ m \in Nat /\ f \in Seq(Bytes) /\ Len(f) = m /\ From \in Nat /\ From + m <= fed + n
          /\ \A i \in 1 .. m : f[i] = script[From + i]
          /\ r \in Seq(Bytes) /\ Len(r) \in Nat /\ Len(r) = (fed + n) - (From + m)
        BY <1>1, CutFacts
    <1>3. /\ fed \in Nat /\ n \in Nat /\ fed + n <= Len(script)
          /\ script \in Seq(Bytes) /\ Len(script) \in Nat
        BY <1>1, BasicTypes, UpcomingFacts DEF IInv
    <1>4. f \in Seq(Units) /\ script \in Seq(Units)
        BY <1>2, <1>3, UnitSeqs
    <1> HIDE DEF f, r
    <1>5. /\ cmd_pend' = r
          /\ PutOut(IF Acted(f) # {} /\ engine.mode = "block" THEN <<>>
                    ELSE IF Acted(f) = {} THEN f ELSE Rewrite(f))
          /\ panicked' = panicked
        BY DEF Judge, f, r
    <1>6. Acted(f) # {} /\ engine.mode = "block" => cmd_blocked'
        BY Zenon DEF Judge, f
    <1>7. LiesIn(f, script, From)
        <2>1. From + Len(f) <= Len(script)
            BY <1>2, <1>3
        <2>2. QED
            BY <1>2, <1>4, <2>1 DEF LiesIn
    <1>8. fed' - Len(cmd_pend') = From + Len(f)
        BY <1>1, <1>2, <1>3, <1>5
    <1>9. CASE Acted(f) # {} /\ engine.mode = "block"
        <2>1. PutOut(<<>>) /\ cmd_blocked'
            BY <1>5, <1>6, <1>9
        <2>2. QED
            BY <2>1 DEF Output, Silent
    <1>10. CASE Acted(f) = {}
        <2>1. PutOut(f)
            BY <1>5, <1>10
        <2>2. Emits(f, f)
            BY <1>2, <1>7, <1>8, <1>10, <2>1 DEF Emits
        <2>3. QED
            BY <2>2 DEF Output
    <1>11. CASE Acted(f) # {} /\ engine.mode # "block"
        <2>1. PutOut(Rewrite(f))
            BY <1>5, <1>11
        <2>2. Emits(f, Rewrite(f))
            BY <1>2, <1>7, <1>8, <2>1 DEF Emits
        <2>3. QED
            BY <2>2 DEF Output
    <1>12. QED
        BY <1>9, <1>10, <1>11

\* Text that is not acted on, or only observed, is put out as it came.
LEMMA PlainOutput ==
    ASSUME IInv, ~ panicked, ~ cmd_blocked, ~ Acting, NEW n, Feeds(n),
           PutOut(Upcoming(n)), cmd_pend' = cmd_pend
    PROVE  \E u, t : Emits(u, t)
    <1> DEFINE u == Upcoming(n)
    <1>1. n \in Lengths /\ fed' = fed + n
        BY DEF Feeds
    <1>2. cmd_pend = <<>>
        BY DEF IInv, HoldBounded, Acting
    <1>3. /\ n \in Nat /\ fed + n <= Len(script) /\ u \in Seq(Bytes) /\ Len(u) = n
          /\ \A i \in 1 .. n : u[i] = script[fed + i]
        BY <1>1, UpcomingFacts DEF IInv
    <1>4. fed \in Nat /\ script \in Seq(Bytes) /\ Len(cmd_pend) = 0
        BY <1>2, BasicTypes, EmptySeq DEF IInv
    <1>5. u \in Seq(Units) /\ script \in Seq(Units)
        BY <1>3, <1>4, UnitSeqs
    <1>6. PutOut(u)
        OBVIOUS
    <1> HIDE DEF u
    <1>7. From = fed /\ fed' - Len(cmd_pend') = From + Len(u)
        BY <1>1, <1>3, <1>4 DEF From
    <1>8. LiesIn(u, script, From)
        BY <1>3, <1>4, <1>5, <1>7 DEF LiesIn
    <1>9. Emits(u, u)
        BY <1>3, <1>6, <1>7, <1>8 DEF Emits
    <1>10. QED
        BY <1>9

\* A call of process.
LEMMA ProcessOutput ==
    ASSUME IInv, ~ panicked, NEW n, Feeds(n), NEW key, NEW final \in BOOLEAN,
           path = "stream" => key = "content" /\ ~ cmd_blocked,
           Process(Upcoming(n), key, final)
    PROVE  Output
    <1> DEFINE u == Upcoming(n)
               kind == ChannelKind[key]
    <1>1. path = "stream" => kind = "text"
        BY DEF ChannelKind
    <1>2. n \in Lengths /\ u \in Seq(Bytes)
        BY UpcomingFacts DEF Feeds, IInv
    <1>3. \/ kind = "reason" /\ ProcessReason(u)
          \/ kind # "reason" /\ kind \notin engine.channels /\ Pass(u)
          \/ cmd_blocked /\ Pass(<<>>)
          \/ ~ cmd_blocked /\ engine.mode = "observe" /\ ProcessObserve(u, kind)
          \/ ~ cmd_blocked /\ ProcessAct(u, kind, final)
        BY DEF Process
    <1> HIDE DEF kind
    <1>4. ASSUME cmd_blocked' = cmd_blocked, panicked' = panicked, cmd_pend' = cmd_pend,
                 ~ Acting, PutOut(u)
          PROVE  Output
        <2>1. CASE cmd_blocked
            <3>1. path # "stream"
                BY <2>1
            <3>2. GoesOn
                BY <1>2, <1>4, <2>1, <3>1 DEF GoesOn
            <3>3. QED
                BY <1>4, <3>2 DEF Output
        <2>2. CASE ~ cmd_blocked
            <3>1. \E v, t : Emits(v, t)
                BY <1>4, <2>2, PlainOutput
            <3>2. QED
                BY <1>4, <3>1 DEF Output
        <2>3. QED
            BY <2>1, <2>2
    <1>5. CASE Panic
        BY <1>5 DEF Panic, session, Output, Silent
    <1>6. CASE kind = "reason" /\ ProcessReason(u)
        <2>1. ~ Acting
            BY <1>1, <1>6 DEF Acting
        <2>2. CASE ~ Panic
            BY <1>4, <1>6, <2>1, <2>2 DEF ProcessReason
        <2>3. QED
            BY <1>5, <2>2
    <1>7. CASE kind # "reason" /\ kind \notin engine.channels /\ Pass(u)
        <2>1. ~ Acting
            BY <1>1, <1>7 DEF Acting
        <2>2. QED
            BY <1>4, <1>7, <2>1 DEF Pass, session
    <1>8. CASE cmd_blocked /\ Pass(<<>>)
        BY <1>8 DEF Pass, session, Output, Silent
    <1>9. CASE ~ cmd_blocked /\ engine.mode = "observe" /\ ProcessObserve(u, kind)
        <2>1. ~ Acting
            BY <1>9 DEF Acting
        <2>2. CASE ~ Panic
            BY <1>4, <1>9, <2>1, <2>2 DEF ProcessObserve
        <2>3. QED
            BY <1>5, <2>2
    <1>10. CASE ~ cmd_blocked /\ ProcessAct(u, kind, final)
        <2>1. Dies \/ \E m : Cut(n, m) /\ Judge(Ahead(n, m), Rest(n, m), kind)
            <3>1. CASE final
                <4>1. ProcessAct(u, kind, TRUE)
                    BY <1>10, <3>1, Zenon
                <4>2. QED
                    BY <1>10, <4>1, ActFinalFacts
            <3>2. CASE ~ final
                <4>1. ProcessAct(u, kind, FALSE)
                    BY <1>10, <3>2, Zenon
                <4>2. QED
                    BY <1>10, <4>1, ActOnFacts
            <3>3. QED
                BY <3>1, <3>2
        <2>2. CASE Dies
            BY <1>10, <2>2 DEF Dies, Output, Silent
        <2>3. QED
            BY <1>10, <2>1, <2>2, JudgeOutput
    <1>11. QED
        BY <1>3, <1>6, <1>7, <1>8, <1>9, <1>10

LEMMA StepOutput ==
    ASSUME IInv, [Next]_vars
    PROVE  Output /\ engine' = engine /\ path' = path /\ script' = script
    <1>1. ended \in BOOLEAN
        BY DEF IInv, TypeOK
    <1>2. ASSUME UNCHANGED <<session, out, seams, panicked>>, cmd_blocked \/ UNCHANGED fed PROVE Output
        BY <1>2 DEF session, Output, Silent
    <1>3. CASE StreamChunk
        <2>1. PICK n \in Lengths : /\ fed' = fed + n
                                   /\ \/ cmd_blocked /\ UNCHANGED <<session, out, seams, panicked>>
                                      \/ ~ cmd_blocked /\ Process(Upcoming(n), "content", FALSE)
            BY <1>3 DEF StreamChunk
        <2>2. Feeds(n) /\ ~ panicked /\ engine' = engine /\ path' = path /\ script' = script
            BY <1>1, <1>3, <2>1 DEF StreamChunk, Feeds, Running, answer
        <2>3. CASE ~ cmd_blocked /\ Process(Upcoming(n), "content", FALSE)
            BY <2>2, <2>3, ProcessOutput
        <2>4. QED
            BY <1>2, <2>1, <2>2, <2>3
    <1>4. CASE StreamEnd
        <2> DEFINE n == Len(script) - fed
        <2>1. n \in Lengths /\ fed + 0 = fed
            BY WholeLengths
        <2>2. /\ fed' = fed + n
              /\ \/ (n = 0 \/ cmd_blocked) /\ UNCHANGED <<session, out, seams, panicked>>
                 \/ ~ cmd_blocked /\ Process(Upcoming(n), "content", TRUE)
            BY <1>4 DEF StreamEnd
        <2>3. Feeds(n) /\ ~ panicked /\ engine' = engine /\ path' = path /\ script' = script
            BY <1>4, <2>1, <2>2 DEF StreamEnd, Feeds, Running, answer
        <2> HIDE DEF n
        <2>4. CASE ~ cmd_blocked /\ Process(Upcoming(n), "content", TRUE)
            BY <2>3, <2>4, ProcessOutput
        <2>5. QED
            BY <1>2, <2>1, <2>2, <2>3, <2>4
    <1>5. CASE TreeString
        <2>1. PICK n \in Lengths, key \in DOMAIN ChannelKind :
                 fed' = fed + n /\ Process(Upcoming(n), key, TRUE)
            BY <1>5 DEF TreeString
        <2>2. /\ Feeds(n) /\ path # "stream" /\ ~ panicked
              /\ engine' = engine /\ path' = path /\ script' = script
            BY <1>1, <1>5, <2>1 DEF TreeString, Feeds, Running, answer
        <2>3. Output
            BY <2>1, <2>2, ProcessOutput
        <2>4. QED
            BY <2>2, <2>3
    <1>6. CASE TreeEnd
        BY <1>2, <1>6 DEF TreeEnd, answer
    <1>7. CASE UNCHANGED vars
        BY <1>2, <1>7 DEF vars, answer
    <1>8. QED
        BY <1>3, <1>4, <1>5, <1>6, <1>7 DEF Next

-----------------------------------------------------------------------------
(* What was put out is the answer with commands replaced.                  *)

\* The first k bytes of the answer.
Part(k) == SubSeq(script, 1, k)

OutUnits == out \in Seq(Units)

\* What was put out is what came in but for the hold, commands replaced.
OutStands == ~ panicked /\ ~ cmd_blocked => Walk(out, Part(From), Commands, {}, 0, From)

LEMMA PartLies ==
    ASSUME script \in Seq(Bytes), NEW k \in Nat, NEW l \in Nat, k <= l, l <= Len(script)
    PROVE  /\ Part(l) \in Seq(Units) /\ Len(Part(l)) = l
           /\ LiesIn(Part(k), Part(l), 0)
           /\ \A u : LiesIn(u, script, k) /\ k + Len(u) = l => LiesIn(u, Part(l), k)
    <1>1. Len(script) \in Nat
        BY LenProperties
    <1>2. ASSUME NEW j \in Nat, j <= Len(script)
          PROVE  /\ Part(j) \in Seq(Bytes) /\ Len(Part(j)) = j
                 /\ \A i \in 1 .. j : Part(j)[i] = script[i]
        <2> DEFINE p == SubSeq(script, 1, j)
        <2>1. /\ 1 \in 1 .. Len(script) + 1 /\ j \in 1 - 1 .. Len(script) /\ (j - 1) + 1 = j
              /\ \A i \in 1 .. j : (1 - 1) + i = i
            BY <1>1, <1>2
        <2>2. /\ p \in Seq(Bytes) /\ Len(p) = (j - 1) + 1
              /\ \A i \in 1 .. (j - 1) + 1 : p[i] = script[(1 - 1) + i]
            BY <2>1, PartFacts
        <2> HIDE DEF p
        <2>3. p \in Seq(Bytes) /\ Len(p) = j /\ \A i \in 1 .. j : p[i] = script[i]
            BY <2>1, <2>2
        <2>4. QED
            BY <2>3 DEF p, Part
    <1>3. k <= Len(script)
        BY <1>1
    <1>4. /\ Part(k) \in Seq(Bytes) /\ Len(Part(k)) = k /\ \A i \in 1 .. k : Part(k)[i] = script[i]
          /\ Part(l) \in Seq(Bytes) /\ Len(Part(l)) = l /\ \A i \in 1 .. l : Part(l)[i] = script[i]
        BY <1>2, <1>3
    <1>5. Part(k) \in Seq(Units) /\ Part(l) \in Seq(Units)
        BY <1>4, UnitSeqs
    <1>6. LiesIn(Part(k), Part(l), 0)
        <2>1. 0 + k <= l /\ \A i \in 1 .. k : 0 + i = i /\ i \in 1 .. l
            OBVIOUS
        <2>2. QED
            BY <1>4, <1>5, <2>1 DEF LiesIn
    <1>7. ASSUME NEW u, LiesIn(u, script, k), k + Len(u) = l PROVE LiesIn(u, Part(l), k)
        <2>1. u \in Seq(Units) /\ \A i \in 1 .. Len(u) : u[i] = script[k + i]
            BY <1>7 DEF LiesIn
        <2>2. Len(u) \in Nat
            BY <2>1, LenProperties
        <2>3. \A i \in 1 .. Len(u) : k + i \in 1 .. l
            BY <1>7, <2>2
        <2>4. k + Len(u) <= Len(Part(l))
            BY <1>4, <1>7
        <2>5. QED
            BY <1>4, <1>5, <2>1, <2>3, <2>4 DEF LiesIn
    <1>8. QED
        BY <1>4, <1>5, <1>6, <1>7

\* The next part of the answer is added, as it is or rewritten.
LEMMA WalkGoesOn ==
    ASSUME script \in Seq(Bytes), NEW o \in Seq(Units), NEW k \in Nat,
           Walk(o, Part(k), Commands, {}, 0, k),
           NEW u, LiesIn(u, script, k), NEW t \in Seq(Units), Walk(t, u, Commands, {}, 0, Len(u))
    PROVE  Walk(o \o t, Part(k + Len(u)), Commands, {}, 0, k + Len(u))
    <1> DEFINE l == k + Len(u)
               C == Commands
    <1>1. u \in Seq(Units) /\ l <= Len(script)
        BY DEF LiesIn
    <1>2. Len(u) \in Nat /\ l \in Nat /\ k <= l /\ k <= Len(script)
        <2>1. Len(u) \in Nat /\ Len(script) \in Nat
            BY <1>1, LenProperties
        <2>2. QED
            BY <1>1, <2>1
    <1>3. /\ Part(l) \in Seq(Units) /\ Len(Part(l)) = l /\ LiesIn(Part(k), Part(l), 0)
          /\ LiesIn(u, Part(l), k)
        BY <1>1, <1>2, PartLies
    <1>4. Len(Part(k)) = k
        BY <1>2, PartLies
    <1>5. C \in SUBSET Seq(Units) /\ <<>> \notin C
        BY CommandsWhole, UnitSeqs
    <1>6. 0 \in 0 .. k /\ k \in 0 .. k /\ 0 \in 0 .. Len(u) /\ Len(u) \in 0 .. Len(u)
        BY <1>2
    <1>7. 0 + 0 = 0 /\ 0 + k = k /\ k + 0 = k
        OBVIOUS
    <1>8. Walk(o, Part(k), C, {}, 0, k) /\ Walk(t, u, C, {}, 0, Len(u))
        OBVIOUS
    <1> HIDE DEF C
    <1>9. Walk(o, Part(l), C, {}, 0 + 0, 0 + k)
        BY <1>3, <1>4, <1>5, <1>6, <1>8, WalkThere
    <1>10. Walk(t, Part(l), C, {}, k + 0, k + Len(u))
        BY <1>3, <1>5, <1>6, <1>8, WalkThere
    <1>11. Walk(o, Part(l), C, {}, 0, k) /\ Walk(t, Part(l), C, {}, k, l)
        BY <1>7, <1>9, <1>10
    <1> HIDE DEF l
    <1>12. Walk(o \o t, Part(l), C, {}, 0, l)
        BY <1>11, WalkJoin
    <1>13. QED
        BY <1>12 DEF l, C

\* What a step puts out, as units.
LEMMA EmittedUnits ==
    ASSUME NEW u, NEW t, Emits(u, t)
    PROVE  t \in Seq(Units) /\ Walk(t, u, Commands, {}, 0, Len(u))
    <1>1. u \in Seq(Units)
        BY DEF Emits, LiesIn
    <1>2. t = u \/ t = Rewrite(u)
        BY DEF Emits
    <1>3. QED
        BY <1>1, <1>2, WalkSame, RewriteFacts

LEMMA StandsNext ==
    ASSUME IInv, OutUnits, OutStands, [Next]_vars
    PROVE  OutUnits' /\ OutStands'
    <1>1. Output /\ script' = script
        BY StepOutput
    <1>2. /\ cmd_blocked => cmd_blocked'
          /\ panicked => panicked'
          /\ Silent \/ GoesOn \/ \E u, t : Emits(u, t)
        BY <1>1 DEF Output
    <1>3. CASE Silent
        <2>1. out' = out
            BY <1>3, ConcatEmptySeq DEF Silent, PutOut, OutUnits
        <2>2. ASSUME ~ panicked', ~ cmd_blocked' PROVE Walk(out', Part(From)', Commands, {}, 0, From')
            <3>1. ~ panicked /\ ~ cmd_blocked /\ fed' = fed /\ cmd_pend' = cmd_pend
                BY <1>2, <1>3, <2>2 DEF Silent
            <3>2. From' = From /\ Part(From)' = Part(From)
                BY <1>1, <3>1 DEF From, Part
            <3>3. QED
                BY <2>1, <3>1, <3>2 DEF OutStands
        <2>3. QED
            BY <2>1, <2>2 DEF OutUnits, OutStands
    <1>4. CASE GoesOn
        <2>1. PICK u \in Seq(Bytes) : out' = out \o u
            BY <1>4 DEF GoesOn, PutOut
        <2>2. out' \in Seq(Units)
            BY <2>1, UnitSeqs, ConcatProperties DEF OutUnits
        <2>3. cmd_blocked'
            BY <1>2, <1>4 DEF GoesOn
        <2>4. QED
            BY <2>2, <2>3 DEF OutUnits, OutStands
    <1>5. CASE \E u, t : Emits(u, t)
        <2>1. PICK u, t : Emits(u, t)
            BY <1>5
        <2>2. t \in Seq(Units) /\ Walk(t, u, Commands, {}, 0, Len(u))
            BY <2>1, EmittedUnits
        <2>3. /\ ~ panicked /\ ~ cmd_blocked /\ LiesIn(u, script, From) /\ out' = out \o t
              /\ From' = From + Len(u)
            BY <2>1 DEF Emits, PutOut, From
        <2>4. From \in Nat /\ script \in Seq(Bytes)
            BY <2>3, BasicTypes DEF LiesIn, IInv
        <2>5. Walk(out, Part(From), Commands, {}, 0, From) /\ out \in Seq(Units)
            BY <2>3 DEF OutStands, OutUnits
        <2> DEFINE k == From
                   l == k + Len(u)
        <2>6. Walk(out \o t, Part(l), Commands, {}, 0, l)
            <3>1. k \in Nat /\ LiesIn(u, script, k) /\ Walk(out, Part(k), Commands, {}, 0, k)
                BY <2>3, <2>4, <2>5
            <3> HIDE DEF k
            <3>2. QED
                BY <2>2, <2>4, <2>5, <3>1, WalkGoesOn
        <2>7. Part(From)' = Part(l)
            BY <1>1, <2>3 DEF Part
        <2>8. out' \in Seq(Units)
            BY <2>2, <2>3, <2>5, ConcatProperties
        <2>9. Walk(out', Part(From)', Commands, {}, 0, From')
            <3> HIDE DEF Part, From
            <3>1. QED
                BY <2>3, <2>6, <2>7
        <2>10. QED
            BY <2>8, <2>9 DEF OutUnits, OutStands
    <1>6. QED
        BY <1>2, <1>3, <1>4, <1>5

LEMMA StandsInvariant == Spec => [](IInv /\ OutUnits /\ OutStands)
    <1>1. Init => OutUnits /\ OutStands
        <2> SUFFICES ASSUME Init PROVE OutUnits /\ OutStands
            OBVIOUS
        <2>1. <<>> \in Seq(Units) /\ Len(<<>>) = 0
            BY EmptySeq
        <2>2. out = <<>> /\ From = 0
            <3>1. fed = 0 /\ Len(cmd_pend) = 0 /\ out = <<>> /\ 0 - 0 = 0
                BY <2>1 DEF Init
            <3>2. QED
                BY <3>1 DEF From
        <2>3. script \in Seq(Bytes) /\ Len(script) \in Nat
            BY CmdAssumption, LenProperties DEF Init
        <2>4. Len(Part(0)) = 0
            BY <2>3, PartLies
        <2>5. 0 \in 0 .. Len(Part(0))
            BY <2>4
        <2>6. Walk(<<>>, Part(0), Commands, {}, 0, 0)
            BY <2>5, WalkNone
        <2>7. QED
            BY <2>1, <2>2, <2>6 DEF OutUnits, OutStands
    <1>2. IInv /\ OutUnits /\ OutStands /\ [Next]_vars => OutUnits' /\ OutStands'
        BY StandsNext
    <1>3. QED
        BY InitEstablishes, NextPreserves, <1>1, <1>2, PTL DEF Spec

\* NothingMissing: what was put out and what is held are together all that came
\* in, in order, but for commands replaced by the notice, for any rules and
\* however the answer is cut (process, rewrite, replace_all_literal).
THEOREM NothingIsMissing == Spec => []NothingMissing
    <1>1. IInv /\ OutUnits /\ OutStands => NothingMissing
        <2> SUFFICES ASSUME IInv, OutUnits, OutStands, ~ panicked, ~ cmd_blocked
                     PROVE  RewritingOf(out \o cmd_pend, Fed)
            BY DEF NothingMissing
        <2> DEFINE k == From
                   p == cmd_pend
        <2>1. /\ script \in Seq(Bytes) /\ Len(script) \in Nat /\ fed \in Nat /\ fed <= Len(script)
              /\ p \in Seq(Bytes) /\ Len(p) \in Nat
            BY BasicTypes DEF IInv
        <2>2. Len(p) <= fed /\ \A i \in 1 .. Len(p) : p[i] = script[k + i]
            BY DEF IInv, Placed, From
        <2>3. k \in Nat /\ k + Len(p) = fed
            BY <2>1, <2>2 DEF From
        <2>4. Walk(out, Part(k), Commands, {}, 0, k) /\ out \in Seq(Units)
            BY DEF OutStands, OutUnits
        <2>5. p \in Seq(Units) /\ script \in Seq(Units)
            BY <2>1, UnitSeqs
        <2> HIDE DEF k, p
        <2>6. LiesIn(p, script, k)
            BY <2>1, <2>2, <2>3, <2>5 DEF LiesIn
        <2>7. Walk(p, p, Commands, {}, 0, Len(p))
            BY <2>5, WalkSame
        <2>8. Walk(out \o p, Part(k + Len(p)), Commands, {}, 0, k + Len(p))
            BY <2>1, <2>3, <2>4, <2>5, <2>6, <2>7, WalkGoesOn
        <2>9. Part(fed) \in Seq(Units) /\ Len(Part(fed)) = fed /\ Fed = Part(fed)
            BY <2>1, PartLies DEF Fed, Part
        <2>10. out \o p \in Seq(Units)
            BY <2>4, <2>5, ConcatProperties
        <2>11. RewritingOf(out \o p, Fed)
            BY <2>3, <2>8, <2>9, <2>10, WalkIsRewriting
        <2>12. QED
            BY <2>11 DEF p
    <1>2. QED
        BY StandsInvariant, <1>1, PTL

-----------------------------------------------------------------------------
(* What is let through.                                                    *)

\* The scan window is the beginning of the text.
LEMMA WindowLies ==
    ASSUME NEW t \in Seq(Bytes)
    PROVE  /\ LiesIn(Window(t), t, 0) /\ Len(t) \in Nat /\ ScanMax \in Nat
           /\ Len(Window(t)) = IF Len(t) > ScanMax THEN ScanMax ELSE Len(t)
    <1> DEFINE w == Window(t)
               n == IF Len(t) > ScanMax THEN ScanMax ELSE Len(t)
    <1>1. Len(t) \in Nat /\ ScanMax \in Nat
        BY LenProperties, CmdAssumption
    <1>2. n \in 1 - 1 .. Len(t) /\ 1 \in 1 .. Len(t) + 1 /\ n \in Nat /\ n <= Len(t) /\ (n - 1) + 1 = n
        BY <1>1
    <1>3. /\ w \in Seq(Bytes) /\ Len(w) = (n - 1) + 1
          /\ \A i \in 1 .. (n - 1) + 1 : w[i] = t[(1 - 1) + i]
        BY <1>2, PartFacts DEF Window
    <1> HIDE DEF n, w
    <1>4. (1 - 1) = 0 /\ 0 + n <= Len(t)
        BY <1>1, <1>2
    <1>5. w \in Seq(Units) /\ t \in Seq(Units)
        BY <1>3, UnitSeqs
    <1>6. Len(w) = n /\ \A i \in 1 .. n : w[i] = t[0 + i]
        BY <1>2, <1>3, <1>4
    <1>7. LiesIn(w, t, 0)
        BY <1>4, <1>5, <1>6 DEF LiesIn
    <1>8. QED
        BY <1>1, <1>6, <1>7 DEF n, w

\* Where nothing is allowed, a text that is not acted on has a command of an
\* enabled rule only beyond the scan window.
LEMMA UnactedText ==
    ASSUME NEW t \in Seq(Bytes), engine.allow = {}, Acted(t) = {},
           NEW k \in Enabled, NEW c \in Patterns[k].commands, NEW i \in Nat \ {0}, Occurs(t, i, c)
    PROVE  i + Len(c) - 1 > ScanMax
    <1> DEFINE w == Window(t)
    <1>1. SUFFICES ASSUME ~ (i + Len(c) - 1 > ScanMax) PROVE FALSE
        OBVIOUS
    <1>2. k \in Rules /\ k \in Nat /\ \A j \in Enabled : j \in Nat
        BY CommandTypes DEF Enabled
    <1>3. c \in Seq(Bytes) /\ c \in Seq(Units) /\ c # <<>>
        BY <1>2, RuleTypes, UnitSeqs
    <1>4. Len(c) \in Nat \ {0} /\ t \in Seq(Units)
        BY <1>3, LenProperties, EmptySeq, UnitSeqs
    <1>5. /\ LiesIn(w, t, 0) /\ Len(t) \in Nat /\ ScanMax \in Nat
          /\ Len(w) = IF Len(t) > ScanMax THEN ScanMax ELSE Len(t)
        BY WindowLies
    <1>6. i + Len(c) - 1 <= Len(t)
        BY <1>3, <1>4, OccursIn
    <1> HIDE DEF w
    <1>7. i + Len(c) - 1 <= Len(w) /\ 0 + i = i
        <2> DEFINE e == i + Len(c) - 1
        <2>1. e \in Nat /\ e <= Len(t) /\ ~ (e > ScanMax)
            BY <1>1, <1>4, <1>6
        <2> HIDE DEF e
        <2>2. e <= Len(w)
            BY <1>5, <2>1
        <2>3. QED
            BY <2>2 DEF e
    <1>8. Occurs(w, i, c)
        BY <1>3, <1>5, <1>7, OccursThere
    <1>9. i \in 1 .. Len(w)
        <2>1. Len(w) \in Nat
            BY <1>5
        <2>2. QED
            BY <1>4, <1>7, <2>1
    <1>10. Matches(w, Patterns[k]) # {}
        <2>1. <<i, c>> \in Matches(w, Patterns[k])
            BY <1>8, <1>9 DEF Matches
        <2>2. QED
            BY <2>1
    <1>11. k \in Hitting(t)
        BY <1>10 DEF Hitting, w
    <1>12. PICK h \in Hitting(t) : \A j \in Hitting(t) : h <= j
        <2>1. Hitting(t) \in SUBSET Nat /\ Hitting(t) # {}
            BY <1>2, <1>11 DEF Hitting
        <2>2. QED
            BY <2>1, LeastElement
    <1>13. HitOf(t, h) \in Find(t)
        BY <1>12 DEF Find
    <1>14. QED
        BY <1>13 DEF Acted, IsEcho, RequestSnippets

\* The text added is in what was put out then, and so is what was there before.
LEMMA AddedLies ==
    ASSUME NEW o \in Seq(Units), NEW t \in Seq(Units)
    PROVE  /\ o \o t \in Seq(Units) /\ Len(o) \in Nat /\ Len(t) \in Nat /\ Len(o \o t) = Len(o) + Len(t)
           /\ LiesIn(o, o \o t, 0) /\ LiesIn(t, o \o t, Len(o))
    <1> DEFINE q == o \o t
               j == Len(o)
               k == Len(t)
    <1>1. j \in Nat /\ k \in Nat
        BY LenProperties
    <1>2. /\ q \in Seq(Units) /\ Len(q) = j + k
          /\ \A i \in 1 .. j + k : q[i] = IF i <= j THEN o[i] ELSE t[i - j]
        BY ConcatProperties
    <1> HIDE DEF q, j, k
    <1>3. \A i \in 1 .. j : i \in 1 .. j + k /\ i <= j /\ 0 + i = i
        BY <1>1
    <1>4. \A i \in 1 .. k : j + i \in 1 .. j + k /\ ~ (j + i <= j) /\ (j + i) - j = i
        BY <1>1
    <1>5. 0 + j <= j + k
        BY <1>1
    <1>6. (\A i \in 1 .. j : o[i] = q[0 + i]) /\ \A i \in 1 .. k : t[i] = q[j + i]
        BY <1>2, <1>3, <1>4
    <1>7. LiesIn(o, q, 0)
        BY <1>2, <1>5, <1>6 DEF LiesIn, j
    <1>8. LiesIn(t, q, j)
        <2>1. j + k <= Len(q)
            BY <1>1, <1>2
        <2>2. QED
            BY <1>1, <1>2, <1>6, <2>1 DEF LiesIn, k
    <1>9. QED
        BY <1>1, <1>2, <1>7, <1>8 DEF q, j, k

\* The last place of a set before i, when it is before i and no place is later.
LEMMA LastPlace ==
    ASSUME NEW j \in Nat, NEW S \in SUBSET (0 .. j), NEW i \in Nat, j < i
    PROVE  Max({s \in S \cup {j} : s < i}) = j
    <1> DEFINE T == {s \in S \cup {j} : s < i}
    <1>1. j \in T /\ \A s \in T : s \in Nat /\ j >= s
        OBVIOUS
    <1> HIDE DEF T
    <1>2. Max(T) = CHOOSE x \in T : \A y \in T : x >= y
        BY DEF Max
    <1>3. Max(T) \in T /\ \A y \in T : Max(T) >= y
        BY <1>1, <1>2
    <1>4. Max(T) >= j /\ j >= Max(T) /\ Max(T) \in Nat
        BY <1>1, <1>3
    <1>5. Max(T) = j
        BY <1>4
    <1>6. QED
        BY <1>5 DEF T

\* Between the segments, or beyond the scan window of one, a command of the rule
\* may be put out.
Excused(S, i, c) ==
    \/ \E s \in S : s \in i .. (i + Len(c) - 1) - 1
    \/ (i + Len(c) - 1) - Max({s \in S : s < i}) > ScanMax

\* A segment is added in which commands are beyond the scan window.
LEMMA SegmentAdded ==
    ASSUME NEW o \in Seq(Units), NEW S \in SUBSET (0 .. Len(o)), NEW t \in Seq(Units),
           NEW C \in SUBSET Seq(Bytes), <<>> \notin C,
           \A c \in C : \A i \in Nat \ {0} : Occurs(o, i, c) => Excused(S, i, c),
           \A c \in C : \A i \in Nat \ {0} : Occurs(t, i, c) => i + Len(c) - 1 > ScanMax,
           NEW c \in C, NEW i \in Nat \ {0}, Occurs(o \o t, i, c)
    PROVE  Excused(S \cup {Len(o)}, i, c)
    <1> DEFINE j == Len(o)
               q == o \o t
               l == Len(c)
               last == i + l - 1
               R == S \cup {j}
    <1>1. /\ q \in Seq(Units) /\ j \in Nat /\ Len(t) \in Nat /\ Len(q) = j + Len(t)
          /\ LiesIn(o, q, 0) /\ LiesIn(t, q, j)
        BY AddedLies
    <1>2. c \in Seq(Units) /\ c # <<>> /\ l \in Nat \ {0}
        <2>1. c \in Seq(Bytes) /\ c # <<>>
            OBVIOUS
        <2>2. QED
            BY <2>1, UnitSeqs, LenProperties, EmptySeq
    <1>3. last <= Len(q) /\ Occurs(q, i, c)
        BY <1>1, <1>2, OccursIn
    <1> HIDE DEF q, j, l
    <1>4. last \in Nat /\ i <= last
        BY <1>2
    <1>5. SUFFICES \/ \E s \in R : s \in i .. last - 1
                   \/ last - Max({s \in R : s < i}) > ScanMax
        BY DEF Excused, q, j, l
    <1>6. CASE last <= j
        <2>1. i + Len(c) - 1 <= Len(o) /\ 0 + i = i
            BY <1>4, <1>6 DEF j, l
        <2>2. Occurs(o, i, c)
            BY <1>1, <1>2, <1>3, <2>1, OccursThere
        <2>3. \/ \E s \in S : s \in i .. last - 1
              \/ last - Max({s \in S : s < i}) > ScanMax
            BY <2>2 DEF Excused, l
        <2>4. {s \in R : s < i} = {s \in S : s < i}
            <3>1. ~ (j < i)
                BY <1>1, <1>4, <1>6
            <3>2. QED
                BY <3>1
        <2> HIDE DEF last
        <2>5. QED
            BY <2>3, <2>4
    <1>7. CASE i <= j /\ ~ (last <= j)
        <2>1. j \in i .. last - 1 /\ j \in R
            BY <1>1, <1>4, <1>7
        <2>2. QED
            BY <2>1
    <1>8. CASE ~ (i <= j)
        <2> DEFINE h == i - j
        <2>1. j < i /\ h \in Nat \ {0} /\ j + h = i /\ h + l - 1 <= Len(t) /\ last - j = h + l - 1
            BY <1>1, <1>2, <1>3, <1>8
        <2>2. Max({s \in R : s < i}) = j
            <3>1. S \in SUBSET (0 .. j)
                BY DEF j
            <3>2. QED
                BY <1>1, <2>1, <3>1, LastPlace
        <2> HIDE DEF h, last, R
        <2>3. Occurs(t, h, c)
            <3>1. h + Len(c) - 1 <= Len(t) /\ Occurs(q, j + h, c)
                BY <1>3, <2>1 DEF l
            <3>2. QED
                BY <1>1, <1>2, <2>1, <3>1, OccursThere
        <2>4. h + Len(c) - 1 > ScanMax
            BY <2>1, <2>3
        <2>5. last - j > ScanMax
            BY <2>1, <2>4 DEF l
        <2>6. QED
            BY <2>2, <2>5
    <1>9. QED
        BY <1>6, <1>7, <1>8

SeamsIn == seams \subseteq 0 .. Len(out)

LetThrough ==
    Acting /\ engine.allow = {} =>
        \A k \in Enabled : \A c \in Patterns[k].commands : \A i \in Nat \ {0} :
            Occurs(out, i, c) => Excused(seams, i, c)

LEMMA SeamsNext ==
    ASSUME IInv, OutUnits, SeamsIn, LetThrough, [Next]_vars
    PROVE  SeamsIn' /\ LetThrough'
    <1>1. Output /\ engine' = engine /\ path' = path
        BY StepOutput
    <1>2. Silent \/ GoesOn \/ \E u, t : Emits(u, t)
        BY <1>1 DEF Output
    <1>3. Acting' = Acting /\ Enabled' = Enabled
        BY <1>1 DEF Acting, Enabled
    <1>4. ASSUME out' = out, seams' = seams PROVE SeamsIn' /\ LetThrough'
        BY <1>1, <1>3, <1>4 DEF SeamsIn, LetThrough
    <1>5. ASSUME NEW t \in Seq(Units), PutOut(t)
          PROVE  /\ SeamsIn'
                 /\ \/ out' = out /\ seams' = seams
                    \/ out' = out \o t /\ seams' = seams \cup {Len(out)}
        <2>1. /\ Len(out) \in Nat /\ Len(t) \in Nat /\ Len(out \o t) = Len(out) + Len(t)
            BY AddedLies DEF OutUnits
        <2>2. out' = out \o t /\ seams' = IF t = <<>> THEN seams ELSE seams \cup {Len(out)}
            BY <1>5 DEF PutOut
        <2>3. CASE t = <<>>
            <3>1. out' = out /\ seams' = seams
                BY <2>2, <2>3, ConcatEmptySeq DEF OutUnits
            <3>2. QED
                BY <3>1 DEF SeamsIn
        <2>4. CASE t # <<>>
            <3>1. seams' = seams \cup {Len(out)} /\ out' = out \o t
                BY <2>2, <2>4
            <3>2. seams \cup {Len(out)} \subseteq 0 .. Len(out) + Len(t)
                <4> DEFINE j == Len(out)
                           l == Len(t)
                <4>1. j \in Nat /\ l \in Nat /\ seams \subseteq 0 .. j
                    BY <2>1 DEF SeamsIn
                <4> HIDE DEF j, l
                <4>2. 0 .. j \subseteq 0 .. j + l /\ j \in 0 .. j + l
                    BY <4>1
                <4>3. seams \cup {j} \subseteq 0 .. j + l
                    BY <4>1, <4>2
                <4>4. QED
                    BY <4>3 DEF j, l
            <3>3. QED
                BY <2>1, <3>1, <3>2 DEF SeamsIn
        <2>5. QED
            BY <2>3, <2>4
    <1>6. CASE Silent
        <2>1. CASE UNCHANGED <<out, seams>>
            BY <1>4, <2>1
        <2>2. CASE PutOut(<<>>)
            <3>1. out' = out \o <<>> /\ seams' = seams
                BY <2>2 DEF PutOut
            <3>2. out' = out
                BY <3>1, ConcatEmptySeq DEF OutUnits
            <3>3. QED
                BY <1>4, <3>1, <3>2
        <2>3. QED
            BY <1>6, <2>1, <2>2 DEF Silent
    <1>7. CASE GoesOn
        <2>1. PICK u \in Seq(Bytes) : PutOut(u)
            BY <1>7 DEF GoesOn
        <2>2. u \in Seq(Units) /\ ~ Acting
            BY <1>7, UnitSeqs DEF GoesOn, Acting
        <2>3. QED
            BY <1>3, <1>5, <2>1, <2>2 DEF LetThrough
    <1>8. CASE \E u, t : Emits(u, t)
        <2>1. PICK u, t : Emits(u, t)
            BY <1>8
        <2>2. t \in Seq(Units) /\ PutOut(t) /\ u \in Seq(Bytes) /\ u \in Seq(Units)
            BY <2>1, EmittedUnits, UnitSeqs DEF Emits
        <2>3. SeamsIn'
            BY <1>5, <2>2
        <2>4. ASSUME out' = out \o t, seams' = seams \cup {Len(out)},
                     Acting, engine.allow = {}, NEW k \in Enabled
              PROVE  \A c \in Patterns[k].commands : \A i \in Nat \ {0} :
                        Occurs(out', i, c) => Excused(seams', i, c)
            <3> DEFINE C == Patterns[k].commands
            <3>1. C \in SUBSET Seq(Bytes) /\ <<>> \notin C
                BY RuleTypes DEF Enabled
            <3>2. \A c \in C : \A i \in Nat \ {0} : Occurs(out, i, c) => Excused(seams, i, c)
                BY <2>4 DEF LetThrough
            <3>3. \A c \in C : \A i \in Nat \ {0} : Occurs(t, i, c) => i + Len(c) - 1 > ScanMax
                <4>1. CASE t = Rewrite(u)
                    BY <2>2, <2>4, <4>1, RewriteFacts DEF Free
                <4>2. CASE t = u /\ Acted(u) = {}
                    BY <2>2, <2>4, <4>2, UnactedText
                <4>3. QED
                    BY <2>1, <2>4, <4>1, <4>2 DEF Emits
            <3>4. out \in Seq(Units) /\ seams \in SUBSET (0 .. Len(out))
                BY DEF OutUnits, SeamsIn
            <3> HIDE DEF C
            <3>5. \A c \in C : \A i \in Nat \ {0} :
                     Occurs(out \o t, i, c) => Excused(seams \cup {Len(out)}, i, c)
                BY <2>2, <3>1, <3>2, <3>3, <3>4, SegmentAdded
            <3>6. QED
                BY <2>4, <3>5 DEF C
        <2>5. CASE out' = out \o t /\ seams' = seams \cup {Len(out)}
            <3>1. LetThrough'
                BY <1>1, <1>3, <2>4, <2>5 DEF LetThrough
            <3>2. QED
                BY <2>3, <3>1
        <2>6. QED
            BY <1>4, <1>5, <2>2, <2>5
    <1>9. QED
        BY <1>2, <1>6, <1>7, <1>8

\* OnlySeamsLetThrough: on a stream that is acted on, with nothing allowed, a
\* command of an enabled rule is put out only across the texts of two calls or
\* beyond the scan window, for any rules and limits (process, find, rewrite).
THEOREM SeamsLetThrough == Spec => []OnlySeamsLetThrough
    <1>1. Init => SeamsIn /\ LetThrough
        <2> SUFFICES ASSUME Init PROVE SeamsIn /\ LetThrough
            OBVIOUS
        <2>1. out = <<>> /\ seams = {} /\ <<>> \in Seq(Units) /\ Len(<<>>) = 0
            BY EmptySeq DEF Init
        <2>2. ASSUME NEW k \in Enabled, NEW c \in Patterns[k].commands, NEW i \in Nat \ {0}
              PROVE  ~ Occurs(out, i, c)
            <3>1. c \in Seq(Bytes) /\ c # <<>>
                BY RuleTypes DEF Enabled
            <3>2. Len(c) \in Nat \ {0} /\ c \in Seq(Units)
                BY <3>1, LenProperties, EmptySeq, UnitSeqs
            <3>3. ~ (i + Len(c) - 1 <= 0)
                BY <3>2
            <3>4. out \in Seq(Units) /\ Len(out) = 0
                BY <2>1
            <3>5. Occurs(out, i, c) => i + Len(c) - 1 <= Len(out)
                BY <3>1, <3>2, <3>4, OccursIn
            <3>6. QED
                BY <3>3, <3>4, <3>5
        <2>3. QED
            BY <2>1, <2>2 DEF SeamsIn, LetThrough
    <1>2. IInv /\ OutUnits /\ SeamsIn /\ LetThrough /\ [Next]_vars => SeamsIn' /\ LetThrough'
        BY SeamsNext
    <1>3. SeamsIn /\ LetThrough => OnlySeamsLetThrough
        <2> SUFFICES ASSUME SeamsIn, LetThrough PROVE OnlySeamsLetThrough
            OBVIOUS
        <2>1. ASSUME Acting, engine.allow = {}, NEW k \in Enabled, NEW ic \in Matches(out, Patterns[k])
              PROVE  \/ \E s \in seams : s \in ic[1] .. (ic[1] + Len(ic[2]) - 1) - 1
                     \/ (ic[1] + Len(ic[2]) - 1) - SegmentStart(ic[1]) > ScanMax
            <3>1. ic[1] \in 1 .. Len(out) /\ ic[2] \in Patterns[k].commands /\ Occurs(out, ic[1], ic[2])
                BY DEF Matches
            <3>2. ic[1] \in Nat \ {0}
                BY <3>1
            <3>3. Excused(seams, ic[1], ic[2])
                BY <2>1, <3>1, <3>2 DEF LetThrough
            <3>4. QED
                BY <3>3 DEF Excused, SegmentStart
        <2>2. QED
            BY <2>1 DEF OnlySeamsLetThrough, SeamsIn, Acting
    <1>4. QED
        BY StandsInvariant, <1>1, <1>2, <1>3, PTL DEF Spec
=============================================================================
