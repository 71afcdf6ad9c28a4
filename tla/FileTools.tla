------------------------------- MODULE FileTools -------------------------------
(***************************************************************************)
(* read_file, write_file and edit_file (src/src/server.rs).  They hold no  *)
(* lock: calls on one file interleave at every await, under whatever path  *)
(* each of them names it by.                                               *)
(*                                                                         *)
(* tokio::fs::write is File::create, which truncates, and then write_all   *)
(* from offset 0 of a descriptor of its own: two steps.  A read of a small *)
(* file is one.  Text is a sequence of characters; what resolve answers    *)
(* for a path, and whether an operation of the file system fails, is       *)
(* given by the instance and by chance.                                    *)
(***************************************************************************)
EXTENDS Naturals, Sequences, FiniteSets, TextRules

CONSTANTS
    Calls,     \* tool calls
    Requests,  \* what a call may ask: records of a tool and its arguments
    Files,     \* files under the workspace roots
    FileOf,    \* resolve: the file a path leads to, or Outside
    Outside,   \* resolve refuses the path
    Absent,    \* there is no such file
    Texts,     \* what a file may hold at the start (texts, or Absent)
    Unknown,   \* no promise about a file, no text yet
    Faults     \* bound: failures of the file system and restarts, together

Text == Seq(STRING)

ReadRequests  == [tool : {"read"}, path : DOMAIN FileOf]
WriteRequests == [tool : {"write"}, path : DOMAIN FileOf, content : Text]
EditRequests  == [tool : {"edit"}, path : DOMAIN FileOf, find : Text, replace : Text,
                  count : Nat]

ASSUME FileAssumption ==
    /\ Requests \subseteq ReadRequests \cup WriteRequests \cup EditRequests
    /\ FileOf \in [DOMAIN FileOf -> Files \cup {Outside}]
    /\ Outside \notin Files
    /\ Texts \subseteq Text \cup {Absent}
    /\ Absent \notin Text
    /\ Unknown \notin Text \cup {Absent}
    /\ Faults \in Nat

VARIABLES
    files,     \* files[f]: its text, or Absent
    parents,   \* files whose directory exists
    pc,        \* "start", "edit" (text read), "open", "write" (truncated), "done"
    request,   \* request[c], once the call has started
    read,      \* the text edit_file has read
    text,      \* the text to write
    report,    \* what the call answers
    faults,    \* failures so far
    promised,  \* history: what the file holds by the calls' answers, or Unknown
    alone      \* history: calls that have shared their file with no other

vars == <<files, parents, pc, request, read, text, report, faults, promised, alone>>

Report == [kind : {"none", "read", "written", "replaced", "error", "refused", "notfound", "lost"},
           count : Nat]
Says(k) == [kind |-> k, count |-> 0]

File(c) == FileOf[request[c].path]
InFlight == {c \in Calls : pc[c] \in {"mkdir", "edit", "open", "write"}}
\* Calls between their first step and their last on file f.
Changing(f) == {c \in InFlight : File(c) = f}
\* One of them has truncated it and not written yet.
Writing(f) == \E c \in Calls : pc[c] = "write" /\ File(c) = f

TypeOK ==
    /\ \A f \in Files : files[f] = Absent \/ files[f] \in Text
    /\ \A f \in Files : files[f] # Absent => f \in parents
    /\ parents \subseteq Files
    /\ pc \in [Calls -> {"start", "mkdir", "edit", "open", "write", "done"}]
    /\ \A c \in InFlight : request[c].tool = "edit" => read[c] \in Text
    /\ \A c \in Calls : pc[c] \in {"mkdir", "open", "write"} => text[c] \in Text
    /\ \A c \in Calls : pc[c] = "write" => files[File(c)] # Absent
    /\ report \in [Calls -> Report]
    /\ faults \in 0..Faults
    /\ \A f \in Files : promised[f] \in Text \cup {Absent, Unknown}
    /\ alone \subseteq Calls

Init ==
    /\ files \in [Files -> Texts]
    /\ parents = {f \in Files : files[f] # Absent}
    /\ pc = [c \in Calls |-> "start"]
    /\ request = [c \in Calls |-> Unknown]
    /\ read = [c \in Calls |-> Unknown]
    /\ text = [c \in Calls |-> Unknown]
    /\ report = [c \in Calls |-> Says("none")]
    /\ faults = 0
    /\ promised = files
    /\ alone = {}

-------------------------------------------------------------------------------
(* The tools. *)

Finish(c, rep) ==
    /\ pc' = [pc EXCEPT ![c] = "done"]
    /\ report' = [report EXCEPT ![c] = rep]

\* From its first step on a call shares the file with those that are changing
\* it; nothing is promised of a file two calls change at a time.
Begin(c, f) ==
    /\ alone' = IF Changing(f) = {} THEN alone \cup {c} ELSE alone \ Changing(f)
    /\ promised' = [promised EXCEPT ![f] = IF Changing(f) = {} THEN @ ELSE Unknown]

\* resolve() refuses the path.
Refused(c) ==
    /\ pc[c] = "start"
    /\ \E r \in Requests :
        /\ FileOf[r.path] = Outside
        /\ request' = [request EXCEPT ![c] = r]
    /\ Finish(c, Says("refused"))
    /\ UNCHANGED <<files, parents, read, text, faults, promised, alone>>

\* read_file: the text, or the error of a file that is not there.
ReadFile(c) ==
    /\ pc[c] = "start"
    /\ \E r \in Requests :
        /\ r.tool = "read" /\ FileOf[r.path] # Outside
        /\ request' = [request EXCEPT ![c] = r]
        /\ read' = [read EXCEPT ![c] = files[FileOf[r.path]]]
        /\ Finish(c, Says(IF files[FileOf[r.path]] = Absent THEN "error" ELSE "read"))
    /\ UNCHANGED <<files, parents, text, faults, promised, alone>>

\* write_file, to its first await.
WriteFile(c) ==
    /\ pc[c] = "start"
    /\ \E r \in Requests :
        /\ r.tool = "write" /\ FileOf[r.path] # Outside
        /\ request' = [request EXCEPT ![c] = r]
        /\ text' = [text EXCEPT ![c] = r.content]
        /\ Begin(c, FileOf[r.path])
    /\ pc' = [pc EXCEPT ![c] = "mkdir"]
    /\ UNCHANGED <<files, parents, read, report, faults>>

\* create_dir_all.
CreateParent(c) ==
    /\ pc[c] = "mkdir"
    /\ parents' = parents \cup {File(c)}
    /\ pc' = [pc EXCEPT ![c] = "open"]
    /\ UNCHANGED <<files, request, read, text, report, faults, promised, alone>>

\* Mutant of EditRead: a file that cannot be read is edited like an empty one.
EditReadUnchecked(c) ==
    /\ pc[c] = "start"
    /\ \E r \in Requests :
        /\ r.tool = "edit" /\ FileOf[r.path] # Outside
        /\ request' = [request EXCEPT ![c] = r]
        /\ read' = [read EXCEPT ![c] = files[FileOf[r.path]]]
        /\ pc' = [pc EXCEPT ![c] = "edit"]
        /\ Begin(c, FileOf[r.path])
    /\ UNCHANGED <<files, parents, text, report, faults>>

\* edit_file reads the text.
EditRead(c) ==
    /\ pc[c] = "start"
    /\ \E r \in Requests :
        /\ r.tool = "edit" /\ FileOf[r.path] # Outside
        /\ request' = [request EXCEPT ![c] = r]
        /\ read' = [read EXCEPT ![c] = files[FileOf[r.path]]]
        /\ IF files[FileOf[r.path]] = Absent
             THEN Finish(c, Says("error")) /\ UNCHANGED <<promised, alone>>
             ELSE /\ pc' = [pc EXCEPT ![c] = "edit"]
                  /\ Begin(c, FileOf[r.path])
                  /\ UNCHANGED report
    /\ UNCHANGED <<files, parents, text, faults>>

\* The file is there and cannot be read (its bytes are no text, permissions):
\* read_file and edit_file end with the error.
ReadFails(c) ==
    /\ pc[c] = "start" /\ faults < Faults
    /\ \E r \in Requests :
        /\ r.tool \in {"read", "edit"} /\ FileOf[r.path] # Outside
        /\ files[FileOf[r.path]] # Absent
        /\ request' = [request EXCEPT ![c] = r]
    /\ faults' = faults + 1
    /\ Finish(c, Says("error"))
    /\ UNCHANGED <<files, parents, read, text, promised, alone>>

\* No occurrence: the file is not written.
EditNotFound(c) ==
    /\ pc[c] = "edit"
    /\ Matches(read[c], request[c].find, Every(read[c])) = {}
    /\ Finish(c, Says("notfound"))
    /\ UNCHANGED <<files, parents, request, read, text, faults, promised, alone>>

EditReplace(c) ==
    /\ pc[c] = "edit"
    /\ Matches(read[c], request[c].find, Every(read[c])) # {}
    /\ text' = [text EXCEPT ![c] = Edited(read[c], request[c])]
    /\ pc' = [pc EXCEPT ![c] = "open"]
    /\ UNCHANGED <<files, parents, request, read, report, faults, promised, alone>>

\* Mutant of OpenFile: opened without O_TRUNC.
OpenFileKeeps(c) ==
    /\ pc[c] = "open" /\ File(c) \in parents
    /\ files' = [files EXCEPT ![File(c)] = IF @ = Absent THEN <<>> ELSE @]
    /\ pc' = [pc EXCEPT ![c] = "write"]
    /\ UNCHANGED <<parents, request, read, text, report, faults, promised, alone>>

\* tokio::fs::write, first step: File::create.
OpenFile(c) ==
    /\ pc[c] = "open" /\ File(c) \in parents
    /\ files' = [files EXCEPT ![File(c)] = <<>>]
    /\ pc' = [pc EXCEPT ![c] = "write"]
    /\ UNCHANGED <<parents, request, read, text, report, faults, promised, alone>>

\* What a write of s from offset 0 makes of a file that holds t.
Overlay(s, t) == IF t = <<>> THEN s ELSE s \o SubSeq(t, Len(s) + 1, Len(t))

\* What the answer of the call promises of the file.
Promise(f, r) ==
    IF r.tool = "write" THEN r.content
    ELSE IF promised[f] = Unknown THEN Unknown ELSE Edited(promised[f], r)

Success(c) ==
    IF request[c].tool = "write" THEN Says("written")
    ELSE [kind |-> "replaced", count |-> Replaced(read[c], request[c])]

\* Second step: write_all.
WriteAll(c) ==
    /\ pc[c] = "write"
    /\ files' = [files EXCEPT ![File(c)] = Overlay(text[c], @)]
    /\ promised' = [promised EXCEPT ![File(c)] =
           IF c \in alone THEN Promise(File(c), request[c]) ELSE Unknown]
    /\ Finish(c, Success(c))
    /\ UNCHANGED <<parents, request, read, text, faults, alone>>

\* create_dir_all or File::create fails (a name in the way, permissions): the
\* file is as it was.
OpenFails(c) ==
    /\ pc[c] \in {"mkdir", "open"} /\ faults < Faults
    /\ faults' = faults + 1
    /\ Finish(c, Says("error"))
    /\ UNCHANGED <<files, parents, request, read, text, promised, alone>>

\* write_all fails half way (no space left): the file keeps what was written.
WriteFails(c) ==
    /\ pc[c] = "write" /\ faults < Faults
    /\ faults' = faults + 1
    /\ \E n \in 0..Len(text[c]) :
           files' = [files EXCEPT ![File(c)] = Overlay(SubSeq(text[c], 1, n), @)]
    /\ promised' = [promised EXCEPT ![File(c)] = Unknown]
    /\ Finish(c, Says("error"))
    /\ UNCHANGED <<parents, request, read, text, alone>>

\* The server is killed and started again: calls in flight are lost where
\* they are.
Restart ==
    /\ InFlight # {} /\ faults < Faults
    /\ faults' = faults + 1
    /\ pc' = [c \in Calls |-> IF c \in InFlight THEN "done" ELSE pc[c]]
    /\ report' = [c \in Calls |-> IF c \in InFlight THEN Says("lost") ELSE report[c]]
    /\ promised' = [f \in Files |-> IF Writing(f) THEN Unknown ELSE promised[f]]
    /\ UNCHANGED <<files, parents, request, read, text, alone>>

ToolStep(c) ==
    \/ Refused(c) \/ ReadFile(c) \/ ReadFails(c)
    \/ WriteFile(c) \/ CreateParent(c)
    \/ EditRead(c) \/ EditNotFound(c) \/ EditReplace(c)
    \/ OpenFile(c) \/ WriteAll(c) \/ OpenFails(c) \/ WriteFails(c)

Next == (\E c \in Calls : ToolStep(c)) \/ Restart

Spec == Init /\ [][Next]_vars

-------------------------------------------------------------------------------
(* Properties. *)

\* Calls on a file that do not overlap keep what they answer: while nobody has
\* the file open, it holds what the answers so far say, through refused, failed
\* and lost calls, other calls on other files and other names of the same file.
QuietFilesKeepPromises == \A f \in Files :
    ~Writing(f) /\ promised[f] # Unknown => files[f] = promised[f]

\* The invariant behind it: a call that shares its file with no other has read,
\* and will write, what the answers so far say.
AloneInv == \A c \in InFlight :
    /\ request[c] \in Requests /\ request[c].tool \in {"write", "edit"}
    /\ File(c) \in Files
    /\ c \notin alone => promised[File(c)] = Unknown
    /\ c \in alone => Changing(File(c)) = {c}
    /\ c \in alone /\ pc[c] = "write" => files[File(c)] = <<>>
    /\ request[c].tool = "write" => pc[c] # "edit" /\ text[c] = request[c].content
    /\ request[c].tool = "edit" =>
           /\ pc[c] # "mkdir"
           /\ promised[File(c)] # Unknown => read[c] = promised[File(c)]
           /\ pc[c] # "edit" => text[c] = Edited(read[c], request[c])

FileInv ==
    /\ DOMAIN files = Files /\ DOMAIN promised = Files
    /\ DOMAIN pc = Calls /\ DOMAIN request = Calls
    /\ DOMAIN read = Calls /\ DOMAIN text = Calls
    /\ alone \subseteq {c \in Calls : pc[c] # "start"}
    /\ AloneInv
    /\ QuietFilesKeepPromises

\* "the response reports replacements actually made": an occurrence that an edit
\* of all occurrences reports as replaced is gone, when no call can write it anew.
EditsKept ==
    (\A r, q \in Requests : r.tool = "edit" /\ q.tool = "edit" =>
                                ToSet(r.find) \cap ToSet(q.replace) = {})
    => \A c \in Calls :
           report[c].kind = "replaced" /\ request[c].count = 0 /\ ~Writing(File(c))
           => Matches(files[File(c)], request[c].find, Every(files[File(c)])) = {}
===============================================================================
