----------------------------- MODULE MCBodyMask -----------------------------
(* Instances of BodyMask for TLC.                                          *)
EXTENDS BodyMask

Secret == <<"secret", "v">>
Placeholder == <<"placeholder", "v">>

Leaves ==
    {Str(Name("text"), FALSE), Str(Secret, FALSE), Str(Secret, TRUE), Str(<<"part", "v">>, FALSE),
     Num(Secret), Str(<<"blob", "uri">>, FALSE), Str(<<"blob", "uri">>, TRUE),
     Str(<<"blob", "big">>, FALSE)}

One(k, v) == <<Member(k, v)>>

\* Objects of one member in a place that is exempt, business or neither.
Single ==
    {Obj(One(k, v)) : k \in Names({"model", "arguments", "id", "tool_call_id", "seed"}) \cup {Secret},
                      v \in Leaves}

\* Objects of two members, with keys that repeat or clash.
Few == {Str(Secret, FALSE), Str(<<"blob", "uri">>, FALSE), Num(Name("1"))}
DataKeys == {Name("content"), Secret, Placeholder}
Double == {Obj(One(k, v) \o One(l, w)) : k, l \in DataKeys, v, w \in Few}

\* Arrays at the depth limit and beyond it, and objects below a business key.
Deep ==
    {Arr(<<v>>) : v \in Few} \cup {Arr(<<o>>) : o \in Double}
        \cup {Obj(One(Name("content"), Arr(<<v, w>>))) : v, w \in Few}
        \cup {Obj(One(k, Obj(One(Name("model"), v)))) : k \in Names({"input", "cache_control"}), v \in Leaves}
        \cup {Obj(One(Name("content"), Obj(One(Name("content"), Arr(<<v>>))))) : v \in Few}

Nested == Single \cup Double \cup Deep

MCBodies ==
    {Obj(One(k, n) \o One(l, v)) :
        k \in Names({"messages", "input", "cache_control"}), n \in Nested,
        l \in {Name("messages"), Secret}, v \in Few \cup {Str(Secret, TRUE), Str(<<"part", "v">>, FALSE)}}
    \cup Nested \cup Leaves
=============================================================================
