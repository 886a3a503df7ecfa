------------------------------ MODULE BodyMask ------------------------------
(***************************************************************************)
(* Masking a JSON request body and restoring a JSON answer: encoded        *)
(* payloads are taken out and put back (blob.rs), the tree is masked with  *)
(* its protocol fields left alone (tree.rs, exemptions.rs), the result is  *)
(* written back into the client's bytes where that gives the same tree,    *)
(* and an answer that repeats the body is restored.                        *)
(*                                                                         *)
(* A string is a pair: <<"secret", v>> is a value the rules find,          *)
(* <<"placeholder", v>> what it is replaced by, <<"part", v>> a longer     *)
(* text that holds the characters of v but is not found, <<"blob", k>> an  *)
(* encoded payload of kind k, <<"token", pos>> what stands for it, and     *)
(* <<"name", n>> any other text.  What finds values, and why a placeholder *)
(* stands for one value, is PlaceholderStore's business.                   *)
(***************************************************************************)
EXTENDS Integers, Sequences, FiniteSets, SequencesExt

CONSTANTS
    Bodies,         \* the bodies clients may send, as nodes
    Modes,          \* the settings of mask.multimodal_blob.mode
    MaskMaxDepth,   \* MASK_MAX_DEPTH
    RestoreMaxDepth \* RESTORE_MAX_DEPTH

ASSUME BodyAssumption ==
    /\ Modes \subseteq {"off", "data_uri", "auto"}
    /\ MaskMaxDepth \in Nat /\ RestoreMaxDepth \in Nat

VARIABLES
    phase,          \* "received", "extracted", "forwarded", "refused", "echoed"
    mode,           \* the mode in the configuration
    raw,            \* the client's body: [tree, layout]
    eff,            \* the body with payloads taken out (eff_body)
    final,          \* what is forwarded (final_text)
    restored        \* the answer the client gets, upstream repeating the body

vars == <<phase, mode, raw, eff, final, restored>>

\* Nodes.  A literal is odd if it is spelt with escapes that neither spelling
\* of splice_mask has.  A tree is raw text, so an object may repeat a key.
Str(s, odd) == [t |-> "str", s |-> s, odd |-> odd]
Num(s) == [t |-> "num", s |-> s]
Arr(items) == [t |-> "arr", items |-> items]
Obj(members) == [t |-> "obj", members |-> members]
Member(k, v) == [key |-> k, val |-> v]
Name(n) == <<"name", n>>
Error == [t |-> "error"]

Text(tree, layout) == [tree |-> tree, layout |-> layout]

\* Map of serde_json: a key that is there keeps its place and changes its value.
Insert(members, k, v) ==
    LET i == SelectInSeq(members, LAMBDA m : m.key = k)
    IN IF i = 0 THEN Append(members, Member(k, v)) ELSE [members EXCEPT ![i] = Member(k, v)]

\* What a tree parses to: one value per key, the last; spelling is gone.
RECURSIVE Parse(_)
Parse(n) ==
    CASE n.t = "str" -> Str(n.s, FALSE)
      [] n.t = "arr" -> Arr([i \in DOMAIN n.items |-> Parse(n.items[i])])
      [] n.t = "obj" ->
           Obj(FoldLeft(LAMBDA ms, m : Insert(ms, m.key, Parse(m.val)), <<>>, n.members))
      [] OTHER -> n

RECURSIVE DetectDuplicateKeys(_)
DetectDuplicateKeys(n) ==
    \/ n.t = "arr" /\ \E i \in DOMAIN n.items : DetectDuplicateKeys(n.items[i])
    \/ n.t = "obj" /\ \E i, j \in DOMAIN n.members :
                         \/ i # j /\ n.members[i].key = n.members[j].key
                         \/ DetectDuplicateKeys(n.members[i].val)

\* The string values of a tree with their positions.
RECURSIVE StringsAt(_, _)
StringsAt(n, pos) ==
    CASE n.t = "str" -> {[pos |-> pos, node |-> n]}
      [] n.t = "arr" -> UNION {StringsAt(n.items[i], Append(pos, i)) : i \in DOMAIN n.items}
      [] n.t = "obj" ->
           UNION {StringsAt(n.members[i].val, Append(pos, i)) : i \in DOMAIN n.members}
      [] OTHER -> {}

\* A tree with the values at some positions replaced.
RECURSIVE Substitute(_, _, _)
Substitute(n, pos, by) ==
    CASE pos \in DOMAIN by -> by[pos]
      [] pos \notin DOMAIN by /\ n.t = "arr" ->
           Arr([i \in DOMAIN n.items |-> Substitute(n.items[i], Append(pos, i), by)])
      [] pos \notin DOMAIN by /\ n.t = "obj" ->
           Obj([i \in DOMAIN n.members |->
                    Member(n.members[i].key, Substitute(n.members[i].val, Append(pos, i), by))])
      [] OTHER -> n

----------------------------------------------------------------------------
(* Exemptions (exemptions.rs), each table by some of its names.            *)

NoKey == Name("")

Names(ns) == {Name(n) : n \in ns}

CorrelationIdKeys == Names({"tool_call_id", "tool_use_id", "call_id"})
BusinessKeys == Names({"input", "arguments"})
SkipScalarKeys == Names({"model"})
SkipNumericKeys == Names({"seed"})
SkipSubtreeKeys == Names({"cache_control"})
MediaValueKeys == Names({"image_url"})
MediaValueParents == Names({"content", "input", "messages"})
ProtocolParents == Names({"function", "tools"})
ProtocolIdParents == Names({"messages", "tools"})
RoleTypeParents == Names({"messages", "content", "function"})
RootWrapKey == Name("__shield_root__")

\* protected_key_names: no structural name is masked.  The rules find nothing
\* in any other name either, so only the strings of data keys matter.
ProtectedKey(k) == k[1] = "name"

LeafExempt(key, parent, business) ==
    \/ key \in CorrelationIdKeys
    \/ /\ ~business
       /\ \/ key \in MediaValueKeys /\ parent \in MediaValueParents
          \/ key \in SkipScalarKeys
          \/ key \in Names({"role", "type"}) /\ parent \in RoleTypeParents \cup {NoKey}
          \/ key \in Names({"name", "url", "data"}) /\ parent \in ProtocolParents
          \/ key = Name("id") /\ parent \in ProtocolIdParents

----------------------------------------------------------------------------
(* Payloads (blob.rs).  Kinds: "uri" a data URI, "big" and "small" bare    *)
(* base64 above and below the threshold.                                   *)

\* classify_bytes on the bytes between the quotes; a backslash among them
\* speaks against a payload.
Classify(s, odd, m) ==
    /\ s[1] = "blob"
    /\ ~odd
    /\ \/ s[2] = "uri" /\ m \in {"data_uri", "auto"}
       \/ s[2] = "big" /\ m = "auto"

\* The payloads of a body: values only, never keys.
BlobsOf(tree, m) == {x \in StringsAt(tree, <<>>) : Classify(x.node.s, x.node.odd, m)}

\* A slip: all payloads get the token of the first.
ExtractBlobsShared(text, m) ==
    LET at == {x.pos : x \in BlobsOf(text.tree, m)}
        one == CHOOSE pos \in at : TRUE
    IN Text(Substitute(text.tree, <<>>, [pos \in at |-> Str(<<"token", one>>, FALSE)]), text.layout)

\* extract: one token per payload, told apart by its number (here position).
ExtractBlobs(text, m) ==
    LET at == {x.pos : x \in BlobsOf(text.tree, m)}
    IN Text(Substitute(text.tree, <<>>, [pos \in at |-> Str(<<"token", pos>>, FALSE)]), text.layout)

TokensAt(text) == {x \in StringsAt(text.tree, <<>>) : x.node.s[1] = "token"}

Tokens(text) == {x.node.s[2] : x \in TokensAt(text)}

\* reinject_checked, once all tokens are known to be there.
Reinject(text) ==
    LET content(pos) == (CHOOSE x \in StringsAt(raw.tree, <<>>) : x.pos = pos).node
        token(pos) == (CHOOSE x \in TokensAt(text) : x.pos = pos).node.s[2]
        at == {x.pos : x \in TokensAt(text)}
    IN Text(Substitute(text.tree, <<>>, [pos \in at |-> content(token(pos))]), text.layout)

----------------------------------------------------------------------------
(* Masking a tree.                                                         *)

Mask(s) == IF s[1] = "secret" THEN <<"placeholder", s[2]>> ELSE s

\* Is a leaf looked at?  Tokens, exempt places and payloads are not.
Scans(n, key, parent, business, m) ==
    /\ n.s[1] # "token"
    /\ ~LeafExempt(key, parent, business)
    /\ IF n.t = "num" THEN key \notin SkipNumericKeys ELSE ~Classify(n.s, FALSE, m)

SkipsSubtree(key, business) == ~business /\ key \in SkipSubtreeKeys

MaskKey(k) == IF ProtectedKey(k) THEN k ELSE Mask(k)

\* mask_tree.  business says that the path, which leaves out the top-level
\* key, meets a business key.
RECURSIVE MaskTree(_, _, _, _, _, _)
MaskTree(n, key, parent, business, depth, m) ==
    CASE depth > MaskMaxDepth -> Error
      [] depth <= MaskMaxDepth /\ n.t \in {"str", "num"} ->
           IF Scans(n, key, parent, business, m) /\ Mask(n.s) # n.s
           THEN Str(Mask(n.s), FALSE) ELSE n
      [] depth <= MaskMaxDepth /\ n.t = "arr" ->
           Arr([i \in DOMAIN n.items |->
                    MaskTree(n.items[i], key, parent, business, depth + 1, m)])
      [] OTHER ->
           IF SkipsSubtree(key, business) THEN n
           ELSE Obj(FoldLeft(LAMBDA ms, mem : Insert(ms, MaskKey(mem.key),
                        MaskTree(mem.val, mem.key, key, business \/ mem.key \in BusinessKeys,
                                 depth + 1, m)), <<>>, n.members))

\* The strings mask is called with, from which the session's table of pairs
\* is filled (Session.fwd).
RECURSIVE Scanned(_, _, _, _, _)
Scanned(n, key, parent, business, m) ==
    CASE n.t \in {"str", "num"} -> IF Scans(n, key, parent, business, m) THEN {n.s} ELSE {}
      [] n.t = "arr" ->
           UNION {Scanned(n.items[i], key, parent, business, m) : i \in DOMAIN n.items}
      [] OTHER ->
           IF SkipsSubtree(key, business) THEN {}
           ELSE UNION {{k \in {mem.key} : ~ProtectedKey(k)}
                           \cup Scanned(mem.val, mem.key, key, business \/ mem.key \in BusinessKeys, m)
                       : mem \in ToSet(n.members)}

\* mask_body applies it to the members of the body, or to a body that is no
\* object as to the one member of an object.
MaskRoot(n, m) ==
    IF n.t = "obj"
    THEN Obj(FoldLeft(LAMBDA ms, mem : Insert(ms, MaskKey(mem.key),
                 MaskTree(mem.val, mem.key, NoKey, FALSE, 0, m)), <<>>, n.members))
    ELSE MaskTree(n, RootWrapKey, NoKey, FALSE, 0, m)

ScannedRoot(n, m) ==
    IF n.t = "obj"
    THEN UNION {{k \in {mem.key} : ~ProtectedKey(k)} \cup Scanned(mem.val, mem.key, NoKey, FALSE, m)
                : mem \in ToSet(n.members)}
    ELSE Scanned(n, RootWrapKey, NoKey, FALSE, m)

RECURSIVE Fails(_)
Fails(n) ==
    \/ n.t = "error"
    \/ n.t = "arr" /\ \E i \in DOMAIN n.items : Fails(n.items[i])
    \/ n.t = "obj" /\ \E i \in DOMAIN n.members : Fails(n.members[i].val)

\* splice_mask: every spelling of a known value is replaced in the client's
\* bytes, wherever it stands; inside a number that is no JSON any more.
SpliceString(s, fwd) ==
    IF s[1] \in {"secret", "part"} /\ s[2] \in fwd
    THEN (IF s[1] = "secret" THEN Mask(s) ELSE <<"mangled", s[2]>>)
    ELSE s

RECURSIVE Splice(_, _)
Splice(n, fwd) ==
    CASE n.t = "str" -> IF n.odd THEN n ELSE Str(SpliceString(n.s, fwd), FALSE)
      [] n.t = "num" -> IF SpliceString(n.s, fwd) = n.s THEN n ELSE Error
      [] n.t = "arr" -> Arr([i \in DOMAIN n.items |-> Splice(n.items[i], fwd)])
      [] n.t = "obj" ->
           Obj([i \in DOMAIN n.members |->
                    Member(SpliceString(n.members[i].key, fwd), Splice(n.members[i].val, fwd))])

\* A slip: a splice that parses is taken without comparing the trees.
SpliceHoldsIfParsed(spliced, root) == ~Fails(spliced)

SpliceHolds(spliced, root) == ~Fails(spliced) /\ Parse(spliced) = root

\* A slip: the body is always written anew.
MaskBodyAnew(text, m) ==
    LET root == MaskRoot(Parse(text.tree), m)
    IN IF Fails(root) THEN Text(Error, "none") ELSE Text(root, "compact")

\* mask_body: bytes untouched, spliced, or the masked tree written anew.
MaskBody(text, m) ==
    LET tree == Parse(text.tree)
        root == MaskRoot(tree, m)
        dup == DetectDuplicateKeys(text.tree)
        fwd == {s[2] : s \in {z \in ScannedRoot(tree, m) : z[1] = "secret"}}
        spliced == Splice(text.tree, fwd)
    IN IF Fails(root) THEN Text(Error, "none")
       ELSE IF root = tree /\ ~dup THEN text
       ELSE IF ~dup /\ spliced # text.tree /\ SpliceHolds(spliced, root)
       THEN Text(spliced, text.layout)
       ELSE Text(root, "compact")

----------------------------------------------------------------------------
(* Restoring a tree.                                                       *)

RestoreString(s) == IF s[1] = "placeholder" THEN <<"secret", s[2]>> ELSE s

\* A slip: keys are not restored.
RestoreKeyNever(k, members, ms) == k

\* The key a member gets: restored, unless that is the key of another member.
RestoreKey(k, members, ms) ==
    LET r == RestoreString(k)
        taken == {mem.key : mem \in ToSet(members) \cup ToSet(ms)}
    IN IF r # k /\ r \in taken THEN k ELSE r

RECURSIVE RestoreTree(_, _)
RestoreTree(n, depth) ==
    CASE depth > RestoreMaxDepth -> n
      [] depth <= RestoreMaxDepth /\ n.t = "str" -> Str(RestoreString(n.s), FALSE)
      [] depth <= RestoreMaxDepth /\ n.t = "arr" ->
           Arr([i \in DOMAIN n.items |-> RestoreTree(n.items[i], depth + 1)])
      [] depth <= RestoreMaxDepth /\ n.t = "obj" ->
           Obj(FoldLeft(LAMBDA ms, mem : Insert(ms, RestoreKey(mem.key, n.members, ms),
                   IF mem.val.t = "str" THEN Str(RestoreString(mem.val.s), FALSE)
                   ELSE RestoreTree(mem.val, depth + 1)), <<>>, n.members))
      [] OTHER -> n

----------------------------------------------------------------------------
(* One request.                                                            *)

\* extract, before the body is parsed.
Extract ==
    /\ phase = "received"
    /\ phase' = "extracted"
    /\ eff' = IF BlobsOf(raw.tree, mode) = {} THEN raw
              ELSE ExtractBlobs(raw, mode)
    /\ UNCHANGED <<mode, raw, final, restored>>

\* The console changes the setting while the request is between two tasks.
ChangeMode ==
    /\ phase = "extracted"
    /\ mode' \in Modes
    /\ UNCHANGED <<phase, raw, eff, final, restored>>

\* The blocking task: mask, put the payloads back, and if one of them went
\* missing mask the original body instead.
MaskTask ==
    LET masked == MaskBody(eff, mode)
        text == IF Fails(masked.tree) THEN masked
                ELSE IF Tokens(eff) \subseteq Tokens(masked) THEN Reinject(masked)
                ELSE MaskBody(raw, mode)
    IN /\ phase = "extracted"
       /\ final' = text
       /\ phase' = IF Fails(text.tree) THEN "refused" ELSE "forwarded"
       /\ UNCHANGED <<mode, raw, eff, restored>>

\* process_whole on an answer that repeats the body.
Echo ==
    /\ phase = "forwarded"
    /\ phase' = "echoed"
    /\ restored' = RestoreTree(Parse(final.tree), 0)
    /\ UNCHANGED <<mode, raw, eff, final>>

Init ==
    /\ phase = "received"
    /\ mode \in Modes
    /\ raw \in {Text(b, "client") : b \in Bodies}
    /\ eff = raw
    /\ final = Text(Error, "none")
    /\ restored = Error

Next == Extract \/ ChangeMode \/ MaskTask \/ Echo

Spec == Init /\ [][Next]_vars

----------------------------------------------------------------------------
(* Properties.                                                             *)

\* The leaves of a tree with the keys that lead to them; keys are leaves too.
RECURSIVE Places(_, _)
Places(n, path) ==
    CASE n.t \in {"str", "num"} -> {[path |-> path, key |-> FALSE, node |-> n]}
      [] n.t = "arr" -> UNION {Places(n.items[i], path) : i \in DOMAIN n.items}
      [] n.t = "obj" ->
           UNION {Places(mem.val, Append(path, mem.key))
                    \cup {[path |-> path, key |-> TRUE, node |-> Str(mem.key, FALSE)]}
                  : mem \in ToSet(n.members)}
      [] OTHER -> {}

PathKey(p) == IF p = <<>> THEN RootWrapKey ELSE Last(p)

PathParent(p) == IF Len(p) < 2 THEN NoKey ELSE p[Len(p) - 1]

\* The business area as mask_tree sees it: below a top-level key.
Business(p) == \E i \in 2 .. Len(p) : p[i] \in BusinessKeys

InSkipped(p) ==
    \E i \in 1 .. Len(p) : p[i] \in SkipSubtreeKeys /\ ~Business(SubSeq(p, 1, i))

\* Where a value may stay: protocol fields, by key and parent.
Exempt(place) ==
    LET p == place.path
    IN \/ InSkipped(IF place.key THEN p ELSE SubSeq(p, 1, Len(p) - 1))
       \/ /\ ~place.key
          /\ \/ LeafExempt(PathKey(p), PathParent(p), Business(p))
             \/ place.node.t = "num" /\ PathKey(p) \in SkipNumericKeys

IsSecret(place) == place.node.s[1] = "secret"

Done == phase \in {"forwarded", "echoed"}

\* No value leaves in clear outside the protocol fields: not in a key that is
\* repeated and overwritten, not in an odd spelling, not as a number, whichever
\* way the body is written back (mask_tree, splice_mask, mask_body).
SecretsMasked ==
    Done => \A place \in Places(final.tree, <<>>) : IsSecret(place) => Exempt(place)

\* Two members of an object whose keys come to the same when masked.
RECURSIVE KeysClash(_)
KeysClash(n) ==
    \/ n.t = "arr" /\ \E i \in DOMAIN n.items : KeysClash(n.items[i])
    \/ n.t = "obj" /\ \E i, j \in DOMAIN n.members :
                         \/ /\ n.members[i].key # n.members[j].key
                            /\ Mask(n.members[i].key) = Mask(n.members[j].key)
                         \/ KeysClash(n.members[i].val)

RECURSIVE Depth(_)
Depth(n) ==
    LET below == CASE n.t = "arr" -> {Depth(n.items[i]) : i \in DOMAIN n.items}
                   [] n.t = "obj" -> {Depth(n.members[i].val) : i \in DOMAIN n.members}
                   [] OTHER -> {}
    IN IF below = {} THEN 0 ELSE 1 + Max(below)

\* A tree up to what masking does not keep: values and their placeholders, and
\* numbers that were masked as strings.
RECURSIVE Meaning(_)
Meaning(n) ==
    CASE n.t = "str" -> Str(RestoreString(n.s), FALSE)
      [] n.t = "num" -> IF n.s[1] = "secret" THEN Str(n.s, FALSE) ELSE n
      [] n.t = "arr" -> Arr([i \in DOMAIN n.items |-> Meaning(n.items[i])])
      [] n.t = "obj" ->
           Obj([i \in DOMAIN n.members |->
                    Member(RestoreString(n.members[i].key), Meaning(n.members[i].val))])
      [] OTHER -> n

\* The client gets its own body back from an upstream that repeats it, as long
\* as no two keys of an object mask to the same, and no array lies so deep that
\* it was masked and is not restored: restore_tree counts the root, mask_body
\* does not (restore_tree against mask_body, extract and reinject_checked).
RoundTrip ==
    (phase = "echoed" /\ ~KeysClash(raw.tree) /\ Depth(raw.tree) <= RestoreMaxDepth) =>
        /\ Meaning(restored) = Meaning(Parse(raw.tree))
        /\ \A place \in Places(restored, <<>>) : place.node.s[1] # "placeholder"

BlobPlaces(tree) ==
    {[path |-> [i \in DOMAIN p.path |-> RestoreString(p.path[i])], node |-> p.node]
        : p \in {q \in Places(Parse(tree), <<>>) : q.node.s[1] = "blob"}}

\* Payloads arrive as they were and where they were, and no token leaves,
\* through repeated keys and a changed setting (reinject_checked and the second
\* masking when a token went missing).
BlobsIntact ==
    Done => /\ Tokens(final) = {}
            /\ KeysClash(raw.tree) \/ BlobPlaces(final.tree) = BlobPlaces(raw.tree)

\* The client's bytes are kept where the caches of the upstream need it: a body
\* with nothing to mask is forwarded as it came, and one whose values are all
\* plainly spelt strings, found and nowhere exempt, keeps its layout (splice_mask).
LayoutKept ==
    LET places == Places(Parse(raw.tree), <<>>)
        found == {p \in places : IsSecret(p) /\ ~Exempt(p)}
        values == {p.node.s[2] : p \in found}
        awkward(p) == /\ p.node.s[2] \in values
                      /\ \/ p.node.s[1] = "part"
                         \/ IsSecret(p) /\ (Exempt(p) \/ p.node.t = "num" \/ p.node.odd)
    IN (Done /\ ~DetectDuplicateKeys(raw.tree)) =>
        /\ found = {} => final = raw
        /\ (\A p \in Places(raw.tree, <<>>) : ~awkward(p)) => final.layout = "client"
=============================================================================
