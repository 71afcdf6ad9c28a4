---------------------------- MODULE TextQuestions ----------------------------
(***************************************************************************)
(* Texts and what is asked of the rules for them: to edit one as edit_file *)
(* does, or to cut one as truncate_to does.                                *)
(***************************************************************************)
EXTENDS TextRules

CONSTANTS
    Chars,     \* characters
    Width,     \* bytes of each in UTF-8
    Questions

Edits == [of : {"edit"}, text : Seq(Chars), find : Seq(Chars), replace : Seq(Chars), count : Nat]
Cuts == [of : {"cut"}, text : Seq(Chars), max : Nat]
NoQuestion == [of |-> "none"]

ASSUME TextAssumption ==
    /\ Width \in [Chars -> 1..4]
    /\ Questions \subseteq Edits \cup Cuts

VARIABLE question

TextSpec == question \in Questions \cup {NoQuestion} /\ [][UNCHANGED question]_question

\* "the response reports replacements actually made" (README.md, edit_file): for
\* every text, every string to find and to replace, and every count.
EditExact == question.of = "edit" => ReportsActual(question.text, question)

\* The longest run of whole characters that fits, and a flag that says whether
\* something is missing: for every text and every limit.
CutExact == question.of = "cut" => CutsCleanly(question.text, Width, question.max)
===============================================================================
