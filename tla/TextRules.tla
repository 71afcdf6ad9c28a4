------------------------------ MODULE TextRules ------------------------------
(***************************************************************************)
(* What the program does to texts: the replacements of edit_file           *)
(* (src/src/server.rs) and the cut of a long output (src/src/sandbox.rs),  *)
(* each with what it is meant to do.  A text is a sequence of characters.  *)
(***************************************************************************)
EXTENDS Naturals, Sequences, FiniteSets, SequencesExt

(* str::matches, str::replace and str::replacen. *)

MatchAt(s, find, i) ==
    i + Len(find) <= Len(s) + 1 /\ SubSeq(s, i, i + Len(find) - 1) = find

\* How far apart two matches are at least.  An empty string matches at every
\* boundary.
Stride(find) == IF find = <<>> THEN 1 ELSE Len(find)

\* After the matches found another one, of at most n, begins at i.
Begins(s, find, n, found, i) ==
    /\ MatchAt(s, find, i) /\ Cardinality(found) < n
    /\ \A m \in found : m + Stride(find) <= i

\* Where the first n matches begin: leftmost first, none inside another.
\* Function: those that begin up to i.
MatchesUpTo(s, find, n) ==
    LET found[i \in 0..(Len(s) + 1)] ==
            IF i = 0 THEN {}
            ELSE found[i - 1] \cup {j \in {i} : Begins(s, find, n, found[i - 1], j)}
    IN  found
Matches(s, find, n) == MatchesUpTo(s, find, n)[Len(s) + 1]

\* What stands in the text replaced for position i of the text: the replacement,
\* if a match begins here, and the character, if it is in no match.
Piece(s, find, replace, at, i) ==
    (IF i \in at THEN replace ELSE <<>>)
        \o (IF i <= Len(s) /\ \A m \in at : i \notin m..(m + Len(find) - 1)
            THEN <<s[i]>> ELSE <<>>)

\* Function: the text replaced, up to i.
WrittenTo(s, find, replace, at) ==
    LET written[i \in 0..(Len(s) + 1)] ==
            IF i = 0 THEN <<>> ELSE written[i - 1] \o Piece(s, find, replace, at, i)
    IN  written

\* The first n matches replaced.
Replacen(s, find, replace, n) ==
    WrittenTo(s, find, replace, Matches(s, find, n))[Len(s) + 1]

\* All matches: there are no more of them than boundaries.
Every(s) == Len(s) + 1

\* What an edit makes of a text, and the number it reports.
Edited(s, r) == Replacen(s, r.find, r.replace, IF r.count = 0 THEN Every(s) ELSE r.count)
\* (Mutant: an earlier revision reported the number asked for.)
ReplacedAsAsked(s, r) == r.count
Replaced(s, r) ==
    LET occurrences == Cardinality(Matches(s, r.find, Every(s)))
    IN  IF r.count = 0 \/ occurrences < r.count THEN occurrences ELSE r.count

\* "the response reports replacements actually made" (README.md, edit_file): the
\* number is the largest number of occurrences of `find` in the text that do not
\* overlap, or `count` if that is smaller, and the text written is longer or
\* shorter by that many times the difference of the two strings.
ReportsActual(s, r) ==
    LET n == Replaced(s, r)
        starts == {i \in 1..(Len(s) + 1) : MatchAt(s, r.find, i)}
        apart == {S \in SUBSET starts : \A i, j \in S : i < j => i + Stride(r.find) <= j}
    IN  /\ \E S \in apart : Cardinality(S) >= n
        /\ n # r.count => \A S \in apart : Cardinality(S) <= n
        /\ r.count # 0 => n <= r.count
        /\ Len(Edited(s, r)) + n * Len(r.find) = Len(s) + n * Len(r.replace)

-------------------------------------------------------------------------------
(* truncate_to, of characters of width[c] bytes. *)

\* Function: the bytes of the first k characters.
BytesTo(s, width) ==
    LET bytes[k \in 0..Len(s)] == IF k = 0 THEN 0 ELSE bytes[k - 1] + width[s[k]]
    IN  bytes
Bytes(s, width) == BytesTo(s, width)[Len(s)]

IsCharBoundary(s, width, at) == \E k \in 0..Len(s) : BytesTo(s, width)[k] = at

\* Mutant of End: the cut is made up to the next boundary.
EndAbove(s, width, max) ==
    CHOOSE e \in max..Bytes(s, width) :
        /\ IsCharBoundary(s, width, e)
        /\ \A d \in max..(e - 1) : ~IsCharBoundary(s, width, d)

\* Back from max to a boundary.
End(s, width, max) ==
    LET back[e \in 0..max] == IF e > 0 /\ ~IsCharBoundary(s, width, e) THEN back[e - 1] ELSE e
    IN  back[max]

TruncateTo(s, width, max) ==
    IF Bytes(s, width) <= max THEN s
    ELSE SubSeq(s, 1, CHOOSE k \in 0..Len(s) : BytesTo(s, width)[k] = End(s, width, max))

\* The flag beside the text, which exchange and read_file compute by themselves.
Truncated(s, width, max) == Bytes(s, width) > max

\* "Truncate to at most MAX_OUTPUT_BYTES, never splitting a UTF-8 character"
\* (truncate_to): the longest run of whole characters from the start that fits,
\* and the flag is set exactly when something is missing.
CutsCleanly(s, width, max) ==
    LET cut == TruncateTo(s, width, max)
    IN  /\ cut \in Prefixes(s) /\ Bytes(cut, width) <= max
        /\ \A p \in Prefixes(s) : Bytes(p, width) <= max => Len(p) <= Len(cut)
        /\ Truncated(s, width, max) <=> cut # s
===============================================================================
