---------------------------- MODULE RestoredText ----------------------------
(***************************************************************************)
(* What a client is promised about the text of a restored response,        *)
(* whatever the wire protocol and however upstream cuts the answer: field  *)
(* by field it reads a growing prefix of the restored answer, and the      *)
(* whole restored answer by the time the field is closed.  A field may be  *)
(* excused from the promise, once and for ever; StreamRestore says when.   *)
(***************************************************************************)
EXTENDS Naturals, Sequences

CONSTANT Restored(_, _)     \* the restoration of a field's text

VARIABLES
    given,              \* the text of each field as upstream gave it
    shown,              \* the text of each field as the client read it
    closed,             \* fields the client has read to their end
    excused             \* fields about which nothing is promised any more

Fields == DOMAIN given

vars == <<given, shown, closed, excused>>

Extends(t, s) == Len(s) <= Len(t) /\ SubSeq(t, 1, Len(s)) = s

Init ==
    /\ \A f \in Fields : given[f] = <<>>
    /\ shown = given
    /\ closed = {}
    /\ excused = {}

\* One step for a field that stays open: more is given, more is shown, and
\* what is shown stays a prefix of the restoration.
Progress(f) ==
    /\ Extends(given'[f], given[f])
    /\ Extends(shown'[f], shown[f])
    /\ Extends(Restored(f, given'[f]), shown'[f])

\* The step that closes a field completes it.
Complete(f) == Progress(f) /\ shown'[f] = Restored(f, given'[f])

\* A closed field does not change.
Keep(f) == given'[f] = given[f] /\ shown'[f] = shown[f]

Next ==
    /\ DOMAIN given' = Fields
    /\ closed \subseteq closed'
    /\ excused \subseteq excused'
    /\ \A f \in Fields \ excused' :
        \/ f \in closed /\ Keep(f)
        \/ f \in closed' \ closed /\ Complete(f)
        \/ f \notin closed' /\ Progress(f)

Spec == Init /\ [][Next]_vars
=============================================================================
