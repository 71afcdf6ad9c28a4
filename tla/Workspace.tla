------------------------------ MODULE Workspace ------------------------------
(***************************************************************************)
(* resolve (src/src/workspace.rs) and what a file tool then opens, in a    *)
(* file system with symbolic links that may change between the two.        *)
(* A location is the sequence of its components from the root directory.   *)
(* FileTools takes the answers of resolve as given.                        *)
(***************************************************************************)
EXTENDS Naturals, Sequences, SequencesExt

CONSTANTS
    Trees,     \* file systems: functions from locations to nodes
    Roots,     \* Config::workspace_roots
    Requests,  \* what is asked for: [absolute, parts]
    Nothing,   \* no location
    MaxSteps   \* bound: components looked at on one path

Locations == Seq(STRING)

Nodes == [kind : {"absent", "file", "dir"}] \cup [kind : {"link"}, to : Locations]
Node(fs, at) == IF at \in DOMAIN fs THEN fs[at] ELSE [kind |-> "absent"]

Parent(at) == IF at = <<>> THEN <<>> ELSE Front(at)

\* What is in a file system is in a directory of it.
ASSUME WorkspaceAssumption ==
    /\ \A fs \in Trees : \A at \in DOMAIN fs :
          /\ at \in Locations \ {<<>>} /\ fs[at] \in Nodes
          /\ fs[at].kind = "absent" \/ Parent(at) = <<>> \/ Node(fs, Parent(at)).kind = "dir"
    /\ Roots \in Seq(Locations) /\ Roots # <<>>
    /\ Requests \subseteq [absolute : BOOLEAN, parts : Locations]
    /\ Nothing \notin Locations
    /\ MaxSteps \in Nat

VARIABLES
    tree,      \* the file system
    pc,        \* "start", "resolved", "outside", "empty", "opened"
    request,
    resolved,  \* what resolve answers
    opened,    \* the location of the file that is opened
    quiet      \* history: the file system has not changed since resolve

vars == <<tree, pc, request, resolved, opened, quiet>>

-------------------------------------------------------------------------------
(* The kernel: where a path leads. *)

\* A walk from the root directory: the directory it is in, what is left of the
\* path, and how much of that is the path's own and not a link's.
Start(path) == [at |-> <<>>, rest |-> path, own |-> Len(path)]

Dots == {".", ".."}
Name(w) == Head(w.rest)
Ahead(fs, w) == Node(fs, Append(w.at, Name(w)))

\* A file ends a path.
Moves(fs, w) ==
    /\ w.rest # <<>>
    /\ \/ Name(w) \in Dots \/ Ahead(fs, w).kind \in {"dir", "link"}
       \/ Ahead(fs, w).kind = "file" /\ Tail(w.rest) = <<>>

Follows(fs, w) == Name(w) \notin Dots /\ Ahead(fs, w).kind = "link"

Move(fs, w) ==
    [at |-> IF Name(w) = ".." THEN Parent(w.at)
            ELSE IF Name(w) = "." THEN w.at
            ELSE IF Follows(fs, w) THEN <<>> ELSE Append(w.at, Name(w)),
     rest |-> IF Follows(fs, w) THEN Ahead(fs, w).to \o Tail(w.rest) ELSE Tail(w.rest),
     own |-> IF w.own < Len(w.rest) THEN w.own ELSE Len(w.rest) - 1]

\* Where it cannot go on, it stays.
Step(fs, w) == IF Moves(fs, w) THEN Move(fs, w) ELSE w

\* The walk after n steps.
After(fs, w, n) ==
    LET walk[i \in 0..n] == IF i = 0 THEN w ELSE Step(fs, walk[i - 1])
    IN  walk[n]

Walk(fs, path) == After(fs, Start(path), MaxSteps)

\* The walk comes back to a name before it has gone past it.
Circles(fs, w) ==
    \E n \in 1..MaxSteps :
        LET v == After(fs, [w EXCEPT !.rest = <<Name(w)>>], n)
        IN  Moves(fs, v) /\ v.at = w.at /\ Name(v) = Name(w)

\* MaxSteps is no bound for the path: the walk has ended by then or never does.
Settled(fs, path) ==
    \/ ~Moves(fs, Walk(fs, path))
    \/ \E n \in 0..MaxSteps :
          LET w == After(fs, Start(path), n) IN w.rest # <<>> /\ Circles(fs, w)

\* The location of what is there.
Canonicalize(fs, path) ==
    IF Walk(fs, path).rest = <<>> THEN Walk(fs, path).at ELSE Nothing

\* Where a tool ends that makes what is missing (create_dir_all, File::create):
\* components of the path itself, or the very target of a link.
Makes(fs, w) ==
    /\ w.rest # <<>> /\ ~Moves(fs, w) /\ Ahead(fs, w).kind = "absent"
    /\ Len(w.rest) <= w.own \/ Len(w.rest) = 1
Landing(fs, path) ==
    IF Makes(fs, Walk(fs, path)) THEN Walk(fs, path).at \o Walk(fs, path).rest
    ELSE Canonicalize(fs, path)

-------------------------------------------------------------------------------
(* resolve. *)

Joined(r) == IF r.absolute THEN r.parts ELSE Roots[1] \o r.parts

\* Mutant of LexicallyNormalize: ".." is left out like ".".
NormalizeSkips(path) == SelectSeq(path, LAMBDA c : c \notin {".", ".."})

\* Function: the first k components.
NormalizeTo(path) ==
    LET done[k \in 0..Len(path)] ==
            IF k = 0 THEN <<>>
            ELSE IF path[k] = "." THEN done[k - 1]
            ELSE IF path[k] = ".." THEN Parent(done[k - 1])
            ELSE Append(done[k - 1], path[k])
    IN  done
LexicallyNormalize(path) == NormalizeTo(path)[Len(path)]

\* Mutant of CanonicalizeExistingPrefix: the directory alone is canonicalized.
CanonicalizeParent(fs, path) ==
    IF path = <<>> \/ Canonicalize(fs, Front(path)) = Nothing THEN path
    ELSE Append(Canonicalize(fs, Front(path)), Last(path))

\* How much of the path is there.
Existing(fs, path) ==
    CHOOSE k \in 0..Len(path) :
        /\ Canonicalize(fs, SubSeq(path, 1, k)) # Nothing
        /\ \A j \in (k + 1)..Len(path) : Canonicalize(fs, SubSeq(path, 1, j)) = Nothing

\* Another: the names that are left are put back in the order they came off.
CanonicalizeReversed(fs, path) ==
    Canonicalize(fs, SubSeq(path, 1, Existing(fs, path)))
        \o Reverse(SubSeq(path, Existing(fs, path) + 1, Len(path)))

\* The whole path, or the longest part that is there, and the rest as it is.
CanonicalizeExistingPrefix(fs, path) ==
    Canonicalize(fs, SubSeq(path, 1, Existing(fs, path)))
        \o SubSeq(path, Existing(fs, path) + 1, Len(path))

Lexical(r) == LexicallyNormalize(Joined(r))
Real(fs, r) == CanonicalizeExistingPrefix(fs, Lexical(r))

\* Mutant of RootReal: a root is taken as it is configured.
RootAsGiven(fs, root) == LexicallyNormalize(root)
RootReal(fs, root) == CanonicalizeExistingPrefix(fs, LexicallyNormalize(root))

\* Every path that is looked at on the way.
ASSUME EnoughSteps ==
    \A fs \in Trees :
       \A path \in {Lexical(r) : r \in Requests}
                    \cup {LexicallyNormalize(Roots[i]) : i \in DOMAIN Roots} :
          /\ \A k \in 0..Len(path) : Settled(fs, SubSeq(path, 1, k))
          /\ Settled(fs, CanonicalizeExistingPrefix(fs, path))

Init ==
    /\ tree \in Trees
    /\ pc = "start"
    /\ request \in Requests
    /\ resolved = Nothing /\ opened = Nothing
    /\ quiet = TRUE

Resolve ==
    /\ pc = "start"
    /\ IF ~request.absolute /\ request.parts = <<>>
         THEN pc' = "empty" /\ UNCHANGED resolved
         ELSE IF \E i \in DOMAIN Roots : IsPrefix(RootReal(tree, Roots[i]), Real(tree, request))
         THEN pc' = "resolved" /\ resolved' = Real(tree, request)
         ELSE pc' = "outside" /\ UNCHANGED resolved
    /\ UNCHANGED <<tree, request, opened, quiet>>

\* Between resolve and the operating system's own look at the path.
TreeChanges ==
    /\ pc = "resolved" /\ quiet
    /\ quiet' = FALSE
    /\ tree' \in Trees
    /\ UNCHANGED <<pc, request, resolved, opened>>

\* read_file and edit_file open what is there, write_file makes it.
Open(makes) ==
    /\ pc = "resolved"
    /\ pc' = "opened"
    /\ opened' = IF makes THEN Landing(tree, resolved) ELSE Canonicalize(tree, resolved)
    /\ UNCHANGED <<tree, request, resolved, quiet>>

Next == Resolve \/ TreeChanges \/ Open(TRUE) \/ Open(FALSE)

Spec == Init /\ [][Next]_vars

-------------------------------------------------------------------------------
(* Properties.  resolve leaves a link to nothing in its answer, and the kernel *)
(* follows it when a tool makes a file by it: what they except is that case.   *)

Dangles(fs, at) == Node(fs, at).kind = "link" /\ Canonicalize(fs, at) = Nothing
Exists(fs, at) == at = <<>> \/ Node(fs, at).kind # "absent"

\* What a tool opens is the very location that resolve has compared with the
\* roots, whatever links the request goes through, unless the file system has
\* changed in between; or else it is a file it makes, by a link to nothing.
OpensResolved ==
    pc = "opened" /\ quiet =>
        \/ opened \in {resolved, Nothing}
        \/ Dangles(tree, resolved) /\ ~Exists(tree, opened)

\* Below what a root leads to: the roots may be links, be missing, or contain
\* each other.
Inside(fs, at) ==
    \E i \in DOMAIN Roots :
        LET root == Landing(fs, LexicallyNormalize(Roots[i]))
        IN  root # Nothing /\ IsPrefix(root, at)

\* "Every path therefore resolves against an allowlist of roots": a request is
\* refused if, and only if, the operating system would be led out of every root by
\* it.  Of anything that is there this is so without exception; of what is not,
\* unless the answer or a root is a link to nothing.
RefusesOutside ==
    LET at == Landing(tree, Lexical(request))
    IN  pc \in {"resolved", "outside"} /\ quiet /\ at # Nothing =>
            \/ pc = "resolved" <=> Inside(tree, at)
            \/ /\ ~Exists(tree, at)
               /\ \/ Dangles(tree, Real(tree, request))
                  \/ \E i \in DOMAIN Roots : Dangles(tree, RootReal(tree, Roots[i]))

\* No tool opens anything that is there outside the roots; a file that it makes is
\* inside as well, unless it makes it by a link to nothing.
OpensInside ==
    pc = "opened" /\ quiet /\ opened # Nothing =>
        \/ Inside(tree, opened)
        \/ Dangles(tree, resolved) /\ ~Exists(tree, opened)

\* "Anything landing outside them is refused": what a tool opens or makes is inside.
NothingOutside ==
    pc = "opened" /\ quiet /\ opened # Nothing => Inside(tree, opened)

\* Canonicalizing changes the name and not what it names, also where nothing is
\* there yet.
NamesTheSame ==
    pc = "resolved" /\ quiet => Landing(tree, resolved) = Landing(tree, Lexical(request))

\* Where no link is in the way, the ".." of a request mean what they mean to the
\* operating system.
DotsAgree ==
    pc = "resolved" /\ quiet /\ (\A at \in DOMAIN tree : tree[at].kind # "link")
        /\ Canonicalize(tree, Joined(request)) # Nothing
    => resolved = Canonicalize(tree, Joined(request))
===============================================================================
