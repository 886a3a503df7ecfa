----------------------------- MODULE MCCmdBlock -----------------------------
(* Instances of CmdBlock for TLC.                                          *)
EXTENDS CmdBlock

MCPatterns ==
    <<[id |-> "rm", commands |-> {<<"r", "x">>, <<"r", "y">>}],
      [id |-> "dd", commands |-> {<<"d", "d">>}]>>

Setting(mode, channels, disabled, allow) ==
    [mode |-> mode, channels |-> channels, disabled |-> disabled, allow |-> allow]

MCSettings ==
    {Setting("observe", {"text"}, {}, {}),
     Setting("rewrite", {"text", "tool"}, {}, {}),
     Setting("rewrite", {"text", "tool"}, {"dd"}, {<<"r", "y">>}),
     Setting("block", {"text", "tool"}, {}, {}),
     Setting("block", {"tool"}, {}, {<<"r", "x">>})}

Words == {<<"a">>, <<"w1", "w2">>, <<"r", "x">>, <<"r", "y">>, <<"d", "d">>}

\* All answers of three words, and two in which a command comes late.
MCScripts ==
    {FlattenSeq(ws) : ws \in [1 .. 3 -> Words]}
        \cup {<<"a", "r", "x", "w1", "w2", "a", "r", "y">>, <<"a", "a", "r", "x", "d", "d", "a">>}
=============================================================================
