------------------------------ MODULE MCLinkage -----------------------------
(* A small instance of Linkage: a short name, the longest that is not      *)
(* clipped, and one that toMessage() leaves as it is before a string and   *)
(* cuts short before a float; a float that is not the same backwards.      *)
EXTENDS Linkage

LongName    == [i \in 1 .. MaxName |-> 98]
ClippedName == Append(LongName, 98) \o <<DT_STRING>>

MCPrograms == {[lang |-> "C", names |-> {<<97>>}],
               [lang |-> "Python", names |-> {LongName}],
               [lang |-> "Python", names |-> {ClippedName}]}
(* A packet that is followed by a 0, or by a letter and a 0.               *)
MCBeyond  == {<<>>, <<DT_STRING>>}
MCFloats  == {<<1, 2, 3, 64>>}
MCStrings == {<<99>>}
MCOthers  == {<<String(<<>>), Float(<<0, 0, 128, 63>>)>>}

Num    == [kind |-> "number", f |-> <<1, 2, 3, 64>>]
Words  == [kind |-> "text", s |-> <<99, 0, 99>>]
Odd    == [kind |-> "odd"]
Other  == [kind |-> "other"]

MCPySequences == {<<>>, <<Num, Words>>, <<Words, Odd>>, <<Num, Other>>}
=============================================================================
