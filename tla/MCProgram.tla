----------------------------- MODULE MCProgram -----------------------------
EXTENDS Program

MCFrameOf == <<4, 1, 3, 0, 6, 2>>

\* Lengths around the word and the page, alone and after another string.
Str(n) == [i \in 1 .. n |-> (i % 3) + 1]
MCArgLists ==
  {<<Str(a)>> : a \in {0, 2, 3, 7}} \cup {<<Str(a), Str(b)>> : a, b \in {1, 4, 14}}
    \cup {<<Str(30), Str(30)>>}

MCExitArgs == {-4, 0, 300}
MCMasks == {{10}, {9, 10}}
=============================================================================
