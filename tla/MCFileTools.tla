----------------------------- MODULE MCFileTools -----------------------------
EXTENDS FileTools, TLC

CONSTANTS f1, f2

\* Two names of one file, a file that is not there yet, a path that is refused.
NameTable == ("name" :> f1) @@ ("alias" :> f1) @@ ("new" :> f2) @@ ("out" :> Outside)
OneName == "name" :> f1

A == <<"a">>
B == <<"b">>
Read(p) == [tool |-> "read", path |-> p]
Write(p, s) == [tool |-> "write", path |-> p, content |-> s]
Edit(p, s, t, n) == [tool |-> "edit", path |-> p, find |-> s, replace |-> t, count |-> n]

SharingRequests ==
    {Read("new"), Write("out", A), Write("name", A \o B), Write("alias", B), Write("new", A),
     Edit("name", A, B \o B, 1), Edit("alias", B, A, 0), Edit("new", A, B, 1)}
SharingTexts == {A \o B \o A, Absent}

ErasingRequests == {Edit("name", A, <<"x">>, 0), Edit("name", B, <<"x">>, 0)}
ErasingTexts == {A \o B}

Symmetry == Permutations(Calls)
===============================================================================
