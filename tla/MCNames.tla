------------------------------ MODULE MCNames ------------------------------
(* A small volume: names that differ in case only, a file and directories. *)
EXTENDS Names

MCUpper(n) == IF n = "a" THEN "A" ELSE n

MCGiven == {<<".", "a">>, <<"A">>, <<"d">>, <<"d", "">>, <<"..", "a">>, <<"", "d", "a">>}

MCGivenDirs == {<<"d">>, <<"", "">>}

MCFlags == {{"O_TRUNC"}, {"O_RDWR", "O_CREAT", "O_EXCL"}, {"O_RDWR", "O_CREAT"},
            {"O_WRONLY", "O_TRUNC"}, {"O_DIRECTORY"}}

MCBuffer == {<<1>>}

\* What follows on a broken duty is not explored.
Dutiful == dutiful

Perms == Permutations(Cluster) \cup Permutations(Fd)
=============================================================================
