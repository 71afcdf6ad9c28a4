------------------------------- MODULE MCRules -------------------------------
EXTENDS Workspace, TextQuestions, TLC

Dir == [kind |-> "dir"]
File == [kind |-> "file"]
Absent == [kind |-> "absent"]
To(at) == [kind |-> "link", to |-> at]

\* Two directories below "/", one of them a root; in it two entries, in the other
\* one: links within a directory, across, to a directory, to nothing, in a circle.
InRoot == {Dir, File, Absent, To(<<"w", "a">>), To(<<"w", "b">>), To(<<"o">>), To(<<"o", "a">>),
           To(<<"w">>)}
InOther == {File, Absent, To(<<"w", "b">>)}
RootTree(a, b, c) ==
    (<<"w">> :> Dir) @@ (<<"o">> :> Dir) @@ (<<"w", "a">> :> a) @@ (<<"w", "b">> :> b)
        @@ (<<"o", "a">> :> c)
SmallTrees ==
    {RootTree(a, b, c) : a \in InRoot, b \in InRoot, c \in InOther}
    \cup {(<<"w">> :> To(<<"o">>)) @@ (<<"o">> :> o) @@ (<<"o", "a">> :> a) :
            o \in {Dir}, a \in {Absent, File}}
    \cup {(<<"w">> :> To(<<"o">>)), <<"o">> :> Dir}

Paths == BoundedSeq({"w", "a", "b", ".."}, 2) \cup
    {<<"w", "a", "..", "b">>, <<"..", "..", "w", "a">>, <<"a", "b", "a">>, <<"o", "a">>, <<"o", "a", "b">>,
     <<"w", ".", "a">>, <<"w", "..", "o", "a">>, <<"..", "o">>, <<"w", "a", "b">>, <<"w", "b", "a", "b">>}
SmallRequests == [absolute : BOOLEAN, parts : Paths]
TwoRoots == <<<<"w">>, <<"w", "b">>>>

\* Characters of one, two and four bytes; the edits are of the first two.
Characters == {"a", "e", "g"}
Bytewise == ("a" :> 1) @@ ("e" :> 2) @@ ("g" :> 4)
Strings(n) == BoundedSeq({"a", "e"}, n)
SmallQuestions ==
    [of : {"edit"}, text : Strings(4), find : Strings(2), replace : Strings(2), count : 0..2]
    \cup [of : {"cut"}, text : BoundedSeq(Characters, 4), max : 0..10]

\* A behaviour is about a path, or it is a state that asks about a text.
RulesInit ==
    \/ Init /\ question = NoQuestion
    \/ /\ question \in Questions
       /\ tree = <<"o">> :> Dir /\ pc = "empty" /\ request = [absolute |-> FALSE, parts |-> <<>>]
       /\ resolved = Nothing /\ opened = Nothing /\ quiet = TRUE

RulesSpec == RulesInit /\ [][Next /\ UNCHANGED question]_<<vars, question>>
===============================================================================
