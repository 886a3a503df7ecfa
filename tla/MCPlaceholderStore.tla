------------------------- MODULE MCPlaceholderStore -------------------------
(* Small instances of PlaceholderStore for TLC.                             *)
EXTENDS PlaceholderStore, TLC

CONSTANTS o1, w1, rand0, rand1, s1, s2

\* Suffixes that are drawn at random are interchangeable, and so are sessions.
StoreSymmetry == Permutations({rand0, rand1}) \cup Permutations(Sids)

\* Labels in their normal form, and one that is normalised to another.
MCLabels == {"TERM", "ORG"}

MCSafeLabel == [l \in MCLabels |-> l]

SpelledLabels == {"TERM", "term", "ORG"}

SpelledSafeLabel == [l \in SpelledLabels |-> IF l = "term" THEN "TERM" ELSE l]

MCRuleLabel == [o \in Originals |-> "ORG"]

\* Two counters of the hash of the configured word.
MCDetSuffix == [w \in Words |-> [c \in 0..1 |-> IF c = 0 THEN "d0" ELSE "d1"]]

\* Bound: configuration changes and restarts together.
FewUpheavals == spent["changes"] + spent["restarts"] <= 2

=============================================================================
