--------------------------- MODULE FileToolsProofs ---------------------------
(***************************************************************************)
(* Calls on a file that do not overlap keep what they answer: the theorem  *)
(* behind QuietFilesKeepPromises of FileTools, for any number of calls,    *)
(* files, names of files, faults and restarts.                             *)
(***************************************************************************)
EXTENDS FileTools, TextRulesProofs

\* A request that is not refused is about a file.
LEMMA RequestPaths ==
    ASSUME NEW r \in Requests, FileOf[r.path] # Outside PROVE FileOf[r.path] \in Files
<1>1. r.path \in DOMAIN FileOf
    BY FileAssumption DEF ReadRequests, WriteRequests, EditRequests
<1> QED
    BY <1>1, FileAssumption

LEMMA FileInvInit == Init => FileInv
<1> SUFFICES ASSUME Init PROVE FileInv
    OBVIOUS
<1>1. InFlight = {}
    BY DEF Init, InFlight
<1>2. AloneInv
    BY <1>1 DEF AloneInv
<1>3. QuietFilesKeepPromises
    BY DEF Init, QuietFilesKeepPromises
<1>4. /\ DOMAIN files = Files /\ DOMAIN promised = Files
      /\ DOMAIN pc = Calls /\ DOMAIN request = Calls
      /\ DOMAIN read = Calls /\ DOMAIN text = Calls
      /\ alone = {}
    BY DEF Init
<1> QED
    BY <1>2, <1>3, <1>4 DEF FileInv

-------------------------------------------------------------------------------
(* A call that ends without having opened its file. *)

LEMMA EndsUnopened ==
    ASSUME FileInv, NEW c \in Calls, pc[c] # "write",
           pc' = [pc EXCEPT ![c] = "done"],
           \A d \in Calls \ {c} : request'[d] = request[d] /\ read'[d] = read[d] /\ text'[d] = text[d],
           DOMAIN request' = Calls, DOMAIN read' = Calls, DOMAIN text' = Calls,
           UNCHANGED <<files, promised, alone>>
    PROVE  FileInv'
<1>1. \A d \in InFlight' : d \in InFlight /\ d # c /\ pc'[d] = pc[d] /\ File(d)' = File(d)
    BY DEF InFlight, File, FileInv
<1>2. \A d \in InFlight' : Changing(File(d))' \subseteq Changing(File(d)) /\ d \in Changing(File(d))'
    BY <1>1 DEF Changing
<1>3. AloneInv'
    <2> SUFFICES ASSUME NEW d \in InFlight' PROVE AloneInv!(d)'
        BY DEF AloneInv
    <2> QED
        BY <1>1, <1>2 DEF AloneInv, FileInv, InFlight
<1>4. \A f : Writing(f)' <=> Writing(f)
    BY DEF Writing, File, FileInv
<1>5. QuietFilesKeepPromises'
    BY <1>4 DEF QuietFilesKeepPromises, FileInv
<1> QED
    BY <1>3, <1>5 DEF FileInv

-------------------------------------------------------------------------------
(* A call takes up a file. *)

LEMMA CallBegins ==
    ASSUME FileInv, NEW c \in Calls, pc[c] = "start",
           NEW r \in Requests, NEW p, p \in {"mkdir", "edit"},
           FileOf[r.path] \in Files,
           pc' = [pc EXCEPT ![c] = p],
           request' = [request EXCEPT ![c] = r],
           \/ /\ p = "mkdir" /\ r.tool = "write" /\ read' = read
              /\ text' = [text EXCEPT ![c] = r.content]
           \/ /\ p = "edit" /\ r.tool = "edit" /\ text' = text
              /\ read' = [read EXCEPT ![c] = files[FileOf[r.path]]],
           Begin(c, FileOf[r.path]), files' = files
    PROVE  FileInv'
<1> DEFINE f == FileOf[r.path]
<1>1. /\ InFlight' = InFlight \cup {c} /\ c \notin InFlight
      /\ File(c)' = f
      /\ \A d \in InFlight : File(d)' = File(d) /\ pc'[d] = pc[d] /\ d # c
    BY DEF InFlight, File, FileInv
<1>2. /\ Changing(f)' = Changing(f) \cup {c}
      /\ \A g : g # f => Changing(g)' = Changing(g)
    BY <1>1 DEF Changing
<1>3. \A g : Writing(g)' <=> Writing(g)
    BY DEF Writing, File, FileInv
<1>4. /\ alone' = IF Changing(f) = {} THEN alone \cup {c} ELSE alone \ Changing(f)
      /\ \A g \in Files : promised'[g] = IF g = f /\ Changing(f) # {} THEN Unknown ELSE promised[g]
      /\ DOMAIN promised' = Files
    BY DEF Begin, FileInv
<1>5. QuietFilesKeepPromises'
    BY <1>3, <1>4 DEF QuietFilesKeepPromises, FileInv
<1>6. AloneInv'
    <2> SUFFICES ASSUME NEW d \in InFlight' PROVE AloneInv!(d)'
        BY DEF AloneInv
    <2>1. CASE d # c
        <3>1. d \in InFlight /\ AloneInv!(d) /\ d \in Changing(File(d))
            BY <2>1, <1>1 DEF AloneInv, FileInv, Changing
        <3>2. /\ request'[d] = request[d] /\ read'[d] = read[d] /\ text'[d] = text[d]
              /\ File(d)' = File(d) /\ pc'[d] = pc[d]
            BY <2>1, <3>1, <1>1 DEF FileInv, InFlight
        <3>3. CASE File(d) = f
            <4>1. d \notin alone' /\ promised'[f] = Unknown
                BY <2>1, <3>1, <3>3, <1>4
            <4> QED
                BY <3>1, <3>2, <3>3, <4>1
        <3>4. CASE File(d) # f
            <4>1. /\ d \in alone' <=> d \in alone
                  /\ promised'[File(d)] = promised[File(d)]
                  /\ Changing(File(d))' = Changing(File(d))
                BY <2>1, <3>1, <3>2, <3>4, <1>2, <1>4 DEF Changing
            <4> QED
                BY <3>1, <3>2, <4>1
        <3> QED
            BY <3>3, <3>4
    <2>2. CASE d = c
        <3>1. request'[c] = r /\ pc'[c] = p
            BY DEF FileInv
        <3>2. r.tool = "edit" => p = "edit" /\ read'[c] = files[f]
            BY DEF FileInv
        <3>3. r.tool = "write" => p = "mkdir" /\ text'[c] = r.content
            BY DEF FileInv
        <3>4. Changing(f) = {} => ~Writing(f)
            BY DEF Writing, Changing, InFlight
        <3>5. promised'[f] # Unknown /\ r.tool = "edit" => read'[c] = promised'[f]
            BY <1>4, <3>2, <3>4 DEF QuietFilesKeepPromises, FileInv
        <3>6. /\ c \notin alone' => promised'[f] = Unknown
              /\ c \in alone' => Changing(f)' = {c}
            BY <1>2, <1>4 DEF FileInv
        <3>7. File(c)' \in Files /\ r.tool \in {"write", "edit"}
            BY <1>1
        <3> QED
            BY <1>1, <2>2, <3>1, <3>2, <3>3, <3>5, <3>6, <3>7
    <2> QED
        BY <2>1, <2>2
<1>7. /\ DOMAIN pc' = Calls /\ DOMAIN request' = Calls
      /\ DOMAIN read' = Calls /\ DOMAIN text' = Calls
      /\ alone' \subseteq {d \in Calls : pc'[d] # "start"}
    BY <1>4 DEF FileInv
<1> QED
    BY <1>4, <1>5, <1>6, <1>7 DEF FileInv

-------------------------------------------------------------------------------
(* A call goes on to its next step with the file as it is. *)

LEMMA CallMoves ==
    ASSUME FileInv, NEW c \in Calls,
           \/ pc[c] = "mkdir" /\ text' = text
           \/ pc[c] = "edit" /\ text' = [text EXCEPT ![c] = Edited(read[c], request[c])],
           pc' = [pc EXCEPT ![c] = "open"],
           UNCHANGED <<files, request, read, promised, alone>>
    PROVE  FileInv'
<1>1. /\ InFlight' = InFlight /\ c \in InFlight
      /\ \A d : File(d)' = File(d)
    BY DEF InFlight, File, FileInv
<1>2. \A g : Changing(g)' = Changing(g)
    BY <1>1 DEF Changing
<1>3. \A g : Writing(g)' <=> Writing(g)
    BY DEF Writing, File, FileInv
<1>4. QuietFilesKeepPromises'
    BY <1>3 DEF QuietFilesKeepPromises, FileInv
<1>5. AloneInv'
    <2> SUFFICES ASSUME NEW d \in InFlight' PROVE AloneInv!(d)'
        BY DEF AloneInv
    <2>1. AloneInv!(d) /\ d \in Calls
        BY <1>1 DEF AloneInv, FileInv, InFlight
    <2>2. CASE d # c
        BY <1>1, <1>2, <2>1, <2>2 DEF FileInv
    <2>3. CASE d = c
        BY <1>1, <1>2, <2>1, <2>3 DEF FileInv
    <2> QED
        BY <2>2, <2>3
<1> QED
    BY <1>4, <1>5 DEF FileInv

LEMMA FileOpened ==
    ASSUME FileInv, NEW c \in Calls, OpenFile(c) PROVE FileInv'
<1> USE DEF OpenFile
<1>1. /\ InFlight' = InFlight /\ c \in InFlight
      /\ \A d : File(d)' = File(d)
    BY DEF InFlight, File, FileInv
<1>2. \A g : Changing(g)' = Changing(g)
    BY <1>1 DEF Changing
<1>3. \A g : Writing(g)' <=> Writing(g) \/ g = File(c)
    BY DEF Writing, File, FileInv
<1>4. \A g \in Files : g # File(c) => files'[g] = files[g]
    BY DEF FileInv
<1>5. QuietFilesKeepPromises'
    BY <1>3, <1>4 DEF QuietFilesKeepPromises, FileInv
<1>6. AloneInv'
    <2> SUFFICES ASSUME NEW d \in InFlight' PROVE AloneInv!(d)'
        BY DEF AloneInv
    <2>1. AloneInv!(d) /\ d \in Calls /\ c \in Changing(File(c))
        BY <1>1 DEF AloneInv, FileInv, InFlight, Changing
    <2>2. files'[File(d)] = IF File(d) = File(c) THEN <<>> ELSE files[File(d)]
        BY <2>1 DEF FileInv
    <2>3. pc'[d] = IF d = c THEN "write" ELSE pc[d]
        BY <2>1 DEF FileInv
    <2> QED
        BY <1>1, <1>2, <2>1, <2>2, <2>3
<1> QED
    BY <1>5, <1>6 DEF FileInv

-------------------------------------------------------------------------------
(* A call that ends with its file written, or half written. *)

LEMMA FileLeft ==
    ASSUME FileInv, NEW c \in Calls, pc[c] = "write",
           pc' = [pc EXCEPT ![c] = "done"],
           NEW s, NEW q,
           files' = [files EXCEPT ![File(c)] = s],
           promised' = [promised EXCEPT ![File(c)] = q],
           q = Unknown \/ (c \in alone /\ s = q),
           UNCHANGED <<request, read, text, alone>>
    PROVE  FileInv'
<1>1. /\ c \in InFlight /\ File(c) \in Files /\ c \in Changing(File(c))
      /\ InFlight' = InFlight \ {c}
      /\ \A d : File(d)' = File(d)
    BY DEF InFlight, File, FileInv, AloneInv, Changing
<1>2. \A d \in InFlight' : Changing(File(d))' \subseteq Changing(File(d)) /\ d \in Changing(File(d))'
    BY <1>1 DEF Changing
<1>3. \A g \in Files : g # File(c) =>
          /\ Writing(g)' <=> Writing(g)
          /\ files'[g] = files[g] /\ promised'[g] = promised[g]
    BY DEF Writing, File, FileInv
<1>4. files'[File(c)] = s /\ promised'[File(c)] = q
    BY <1>1 DEF FileInv
<1>5. QuietFilesKeepPromises'
    BY <1>3, <1>4 DEF QuietFilesKeepPromises, FileInv
<1>6. AloneInv'
    <2> SUFFICES ASSUME NEW d \in InFlight' PROVE AloneInv!(d)'
        BY DEF AloneInv
    <2>1. AloneInv!(d) /\ d \in Calls /\ d # c /\ pc'[d] = pc[d] /\ d \in InFlight
        BY <1>1 DEF AloneInv, FileInv, InFlight
    <2>2. CASE File(d) # File(c)
        BY <1>1, <1>2, <1>3, <2>1, <2>2
    <2>3. CASE File(d) = File(c)
        <3>1. c \in Changing(File(d)) /\ d \in Changing(File(c))
            BY <1>1, <2>1, <2>3 DEF Changing
        <3>2. d \notin alone /\ c \notin alone
            BY <1>1, <2>1, <2>3, <3>1 DEF AloneInv, FileInv
        <3> QED
            BY <1>1, <1>2, <1>4, <2>1, <2>3, <3>2
    <2> QED
        BY <2>2, <2>3
<1> QED
    BY <1>5, <1>6 DEF FileInv

\* What a call that is alone on its file writes is what its answer promises.
LEMMA FileWritten ==
    ASSUME FileInv, NEW c \in Calls, WriteAll(c) PROVE FileInv'
<1> DEFINE s == Overlay(text[c], files[File(c)])
           q == IF c \in alone THEN Promise(File(c), request[c]) ELSE Unknown
<1>1. c \in InFlight /\ AloneInv!(c) /\ pc[c] = "write"
    BY DEF WriteAll, InFlight, FileInv, AloneInv
<1>2. q = Unknown \/ (c \in alone /\ s = q)
    <2>1. CASE c \notin alone
        BY <2>1
    <2>2. CASE c \in alone
        <3>1. s = text[c]
            BY <1>1, <2>2 DEF Overlay
        <3>2. CASE request[c].tool = "write"
            BY <1>1, <2>2, <3>1, <3>2 DEF Promise
        <3>3. CASE request[c].tool = "edit"
            BY <1>1, <2>2, <3>1, <3>3 DEF Promise
        <3> QED
            BY <1>1, <3>2, <3>3
    <2> QED
        BY <2>1, <2>2
<1>3. /\ files' = [files EXCEPT ![File(c)] = s]
      /\ promised' = [promised EXCEPT ![File(c)] = q]
      /\ pc' = [pc EXCEPT ![c] = "done"]
      /\ UNCHANGED <<request, read, text, alone>>
    BY <1>1 DEF WriteAll, Finish, FileInv
<1> HIDE DEF s, q
<1> QED
    BY <1>1, <1>2, <1>3, FileLeft

LEMMA FileTorn ==
    ASSUME FileInv, NEW c \in Calls, WriteFails(c) PROVE FileInv'
<1>1. PICK n \in 0..Len(text[c]) :
          files' = [files EXCEPT ![File(c)] = Overlay(SubSeq(text[c], 1, n), @)]
    BY DEF WriteFails
<1>2. /\ pc[c] = "write"
      /\ promised' = [promised EXCEPT ![File(c)] = Unknown]
      /\ pc' = [pc EXCEPT ![c] = "done"]
      /\ UNCHANGED <<request, read, text, alone>>
    BY DEF WriteFails, Finish
<1> DEFINE s == Overlay(SubSeq(text[c], 1, n), files[File(c)])
<1>3. files' = [files EXCEPT ![File(c)] = s]
    BY <1>1
<1> HIDE DEF s
<1> QED
    BY <1>2, <1>3, FileLeft

LEMMA ServerRestarts == FileInv /\ Restart => FileInv'
<1> SUFFICES ASSUME FileInv, Restart PROVE FileInv'
    OBVIOUS
<1>1. InFlight' = {} /\ \A c \in Calls : pc'[c] # "write" /\ (pc'[c] = "start" => pc[c] = "start")
    BY DEF Restart, InFlight, FileInv
<1>2. AloneInv'
    BY <1>1 DEF AloneInv
<1>3. QuietFilesKeepPromises'
    BY DEF Restart, QuietFilesKeepPromises, FileInv
<1>4. /\ DOMAIN files' = Files /\ DOMAIN promised' = Files
      /\ DOMAIN pc' = Calls /\ DOMAIN request' = Calls
      /\ DOMAIN read' = Calls /\ DOMAIN text' = Calls
      /\ alone' \subseteq {c \in Calls : pc'[c] # "start"}
    BY DEF Restart, FileInv
<1> QED
    BY <1>2, <1>3, <1>4 DEF FileInv

-------------------------------------------------------------------------------

LEMMA FileInvStep == FileInv /\ [Next]_vars => FileInv'
<1> SUFFICES ASSUME FileInv, [Next]_vars PROVE FileInv'
    OBVIOUS
<1>1. ASSUME NEW c \in Calls, Refused(c) PROVE FileInv'
    BY <1>1, EndsUnopened DEF Refused, Finish, FileInv
<1>2. ASSUME NEW c \in Calls, ReadFile(c) \/ ReadFails(c) PROVE FileInv'
    BY <1>2, EndsUnopened DEF ReadFile, ReadFails, Finish, FileInv
<1>3. ASSUME NEW c \in Calls, WriteFile(c) PROVE FileInv'
    <2>1. PICK r \in Requests :
              /\ r.tool = "write" /\ FileOf[r.path] # Outside
              /\ request' = [request EXCEPT ![c] = r]
              /\ text' = [text EXCEPT ![c] = r.content]
              /\ Begin(c, FileOf[r.path])
        BY <1>3 DEF WriteFile
    <2>2. FileOf[r.path] \in Files
        BY <2>1, RequestPaths
    <2> QED
        BY <1>3, <2>1, <2>2, CallBegins DEF WriteFile
<1>4. ASSUME NEW c \in Calls, EditRead(c) PROVE FileInv'
    <2>1. PICK r \in Requests :
              /\ r.tool = "edit" /\ FileOf[r.path] # Outside
              /\ request' = [request EXCEPT ![c] = r]
              /\ read' = [read EXCEPT ![c] = files[FileOf[r.path]]]
              /\ IF files[FileOf[r.path]] = Absent
                   THEN Finish(c, Says("error")) /\ UNCHANGED <<promised, alone>>
                   ELSE /\ pc' = [pc EXCEPT ![c] = "edit"]
                        /\ Begin(c, FileOf[r.path])
                        /\ UNCHANGED report
        BY <1>4 DEF EditRead
    <2>2. FileOf[r.path] \in Files
        BY <2>1, RequestPaths
    <2>3. CASE files[FileOf[r.path]] = Absent
        BY <1>4, <2>1, <2>3, EndsUnopened DEF EditRead, Finish, FileInv
    <2>4. CASE files[FileOf[r.path]] # Absent
        BY <1>4, <2>1, <2>2, <2>4, CallBegins DEF EditRead
    <2> QED
        BY <2>3, <2>4
<1>5. ASSUME NEW c \in Calls, CreateParent(c) \/ EditReplace(c) PROVE FileInv'
    BY <1>5, CallMoves DEF CreateParent, EditReplace
<1>6. ASSUME NEW c \in Calls, EditNotFound(c) \/ OpenFails(c) PROVE FileInv'
    BY <1>6, EndsUnopened DEF EditNotFound, OpenFails, Finish, FileInv
<1>7. ASSUME NEW c \in Calls, OpenFile(c) \/ WriteAll(c) \/ WriteFails(c) PROVE FileInv'
    BY <1>7, FileOpened, FileWritten, FileTorn
<1>8. CASE Restart
    BY <1>8, ServerRestarts
<1>9. CASE UNCHANGED vars
    <2>1. InFlight' = InFlight /\ \A d : File(d)' = File(d)
        BY <1>9 DEF vars, InFlight, File
    <2>2. \A g : (Changing(g)' = Changing(g)) /\ (Writing(g)' <=> Writing(g))
        BY <1>9, <2>1 DEF vars, Changing, Writing
    <2>3. AloneInv'
        BY <1>9, <2>1, <2>2 DEF vars, AloneInv, FileInv
    <2> QED
        BY <1>9, <2>2, <2>3 DEF vars, FileInv, QuietFilesKeepPromises
<1> QED
    BY <1>1, <1>2, <1>3, <1>4, <1>5, <1>6, <1>7, <1>8, <1>9 DEF Next, ToolStep

\* The inductive invariant holds of every behaviour.
THEOREM FileInvHolds == Spec => []FileInv
    BY FileInvInit, FileInvStep, PTL DEF Spec

\* Calls on a file that do not overlap keep what they answer, whatever fails
\* and however often the server is restarted: read_file, write_file and
\* edit_file need no lock of their own as long as their callers take turns.
THEOREM PromisesKept == Spec => []QuietFilesKeepPromises
<1>1. FileInv => QuietFilesKeepPromises
    BY DEF FileInv
<1> QED
    BY <1>1, FileInvHolds, PTL

-------------------------------------------------------------------------------
(* Types: what edit_file computes is a text, by the lemmas about TextRules. *)

Pcs == {"start", "mkdir", "edit", "open", "write", "done"}

LEMMA TextFacts ==
    /\ Absent \notin Text /\ Unknown \notin Text
    /\ \A r \in Requests : r.tool = "write" => r.content \in Text
    /\ \A r \in Requests : r.tool = "edit" => r.find \in Text /\ r.replace \in Text /\ r.count \in Nat
    /\ <<>> \in Text
<1>1. \A r \in Requests : r.tool = "write" => r.content \in Text
    BY FileAssumption DEF ReadRequests, WriteRequests, EditRequests
<1>2. \A r \in Requests : r.tool = "edit" => r.find \in Text /\ r.replace \in Text /\ r.count \in Nat
    BY FileAssumption DEF ReadRequests, WriteRequests, EditRequests
<1>3. <<>> \in Text
    BY DEF Text
<1> QED
    BY <1>1, <1>2, <1>3, FileAssumption

LEMMA EditTypes ==
    ASSUME NEW s \in Text, NEW r \in Requests, r.tool = "edit"
    PROVE  Edited(s, r) \in Text /\ Replaced(s, r) \in Nat
<1>1. r.replace \in Seq(STRING) /\ r.count \in Nat
    BY TextFacts DEF Text
<1>2. s \in Seq(STRING) /\ Len(s) \in Nat
    BY DEF Text
<1> QED
    BY <1>1, <1>2, EditedType, ReplacedType DEF Text

LEMMA OverlayType ==
    ASSUME NEW s \in Text, NEW t \in Text PROVE Overlay(s, t) \in Text
<1>1. s \in Seq(STRING) /\ t \in Seq(STRING)
    BY DEF Text
<1>2. SubSeq(t, Len(s) + 1, Len(t)) \in Seq(STRING)
    BY <1>1
<1>3. s \o SubSeq(t, Len(s) + 1, Len(t)) \in Seq(STRING)
    BY <1>1, <1>2, JoinedType
<1> QED
    BY <1>1, <1>3 DEF Overlay, Text

LEMMA InitTypes == Init => TypeOK
<1> SUFFICES ASSUME Init PROVE TypeOK
    OBVIOUS
<1>1. \A f \in Files : files[f] = Absent \/ files[f] \in Text
    BY FileAssumption DEF Init
<1>2. InFlight = {}
    BY DEF Init, InFlight
<1>3. report \in [Calls -> Report]
    BY DEF Init, Report, Says
<1>4. faults \in 0..Faults
    BY FileAssumption DEF Init
<1> QED
    BY <1>1, <1>2, <1>3, <1>4 DEF Init, TypeOK

\* A step of call c keeps the types if what it leaves of c and of the files has them.
LEMMA TypesKept ==
    ASSUME TypeOK, FileInv, NEW c \in Calls, NEW p \in Pcs,
           pc' = [pc EXCEPT ![c] = p],
           \A d \in Calls \ {c} : request'[d] = request[d] /\ read'[d] = read[d] /\ text'[d] = text[d],
           p \in {"mkdir", "edit", "open", "write"} /\ request'[c].tool = "edit" => read'[c] \in Text,
           p \in {"mkdir", "open", "write"} => text'[c] \in Text,
           p = "write" => files'[File(c)'] # Absent,
           \A f \in Files : files'[f] = files[f] \/ (files'[f] \in Text /\ f \in parents),
           parents \subseteq parents', parents' \subseteq Files,
           report' \in [Calls -> Report], faults' \in 0..Faults,
           \A f \in Files : promised'[f] \in Text \cup {Absent, Unknown},
           alone' \subseteq Calls
    PROVE  TypeOK'
<1>1. \A d \in Calls : pc'[d] = IF d = c THEN p ELSE pc[d]
    BY DEF TypeOK
<1>2. \A d \in Calls \ {c} : File(d)' = File(d)
    BY DEF File
<1>3. pc' \in [Calls -> Pcs]
    BY DEF TypeOK, Pcs
<1>4. \A f \in Files : /\ files'[f] = Absent \/ files'[f] \in Text
                       /\ files'[f] # Absent => f \in parents'
    BY DEF TypeOK
<1>5. \A d \in InFlight' : request'[d].tool = "edit" => read'[d] \in Text
    <2> SUFFICES ASSUME NEW d \in InFlight', request'[d].tool = "edit" PROVE read'[d] \in Text
        OBVIOUS
    <2>1. CASE d = c
        BY <1>1, <2>1 DEF InFlight
    <2>2. CASE d # c
        <3>1. d \in InFlight /\ d \in Calls
            BY <1>1, <2>2 DEF InFlight
        <3> QED
            BY <2>2, <3>1 DEF TypeOK
    <2> QED
        BY <2>1, <2>2
<1>6. \A d \in Calls : pc'[d] \in {"mkdir", "open", "write"} => text'[d] \in Text
    BY <1>1 DEF TypeOK
<1>7. \A d \in Calls : pc'[d] = "write" => files'[File(d)'] # Absent
    <2> SUFFICES ASSUME NEW d \in Calls, pc'[d] = "write" PROVE files'[File(d)'] # Absent
        OBVIOUS
    <2>1. CASE d = c
        BY <1>1, <2>1
    <2>2. CASE d # c
        <3>1. pc[d] = "write" /\ File(d)' = File(d) /\ d \in InFlight
            BY <1>1, <1>2, <2>2 DEF InFlight
        <3>2. File(d) \in Files /\ files[File(d)] # Absent
            BY <3>1 DEF TypeOK, FileInv, AloneInv
        <3> QED
            BY <3>1, <3>2, TextFacts
    <2> QED
        BY <2>1, <2>2
<1> QED
    BY <1>3, <1>4, <1>5, <1>6, <1>7 DEF TypeOK, Pcs

\* What the invariants say of a call that is on its way.
LEMMA InFlightFacts ==
    ASSUME TypeOK, FileInv, NEW c \in Calls, pc[c] \in {"mkdir", "edit", "open", "write"}
    PROVE  /\ c \in InFlight /\ File(c) \in Files /\ request[c] \in Requests
           /\ request[c].tool = "edit" => read[c] \in Text
           /\ request[c].tool = "write" \/ request[c].tool = "edit"
           /\ pc[c] # "edit" => text[c] \in Text
           /\ pc[c] = "edit" => request[c].tool = "edit"
BY DEF TypeOK, FileInv, AloneInv, InFlight

LEMMA Answers ==
    ASSUME TypeOK, NEW c \in Calls, NEW k, NEW n \in Nat,
           k \in {"none", "read", "written", "replaced", "error", "refused", "notfound", "lost"}
    PROVE  [report EXCEPT ![c] = [kind |-> k, count |-> n]] \in [Calls -> Report]
BY DEF TypeOK, Report

LEMMA EndTypes ==
    ASSUME TypeOK, FileInv, NEW c \in Calls,
           \/ Refused(c) \/ ReadFile(c) \/ ReadFails(c) \/ EditNotFound(c) \/ OpenFails(c)
    PROVE  TypeOK'
<1>1. /\ pc' = [pc EXCEPT ![c] = "done"]
      /\ \A d \in Calls \ {c} : request'[d] = request[d] /\ read'[d] = read[d] /\ text'[d] = text[d]
      /\ UNCHANGED <<files, parents, promised, alone>>
    BY DEF Refused, ReadFile, ReadFails, EditNotFound, OpenFails, Finish, FileInv
<1>2. report' \in [Calls -> Report]
    <2>1. CASE Refused(c)
        BY <2>1, Answers DEF Refused, Finish, Says
    <2>2. CASE ReadFile(c)
        <3>1. \/ report' = [report EXCEPT ![c] = [kind |-> "error", count |-> 0]]
              \/ report' = [report EXCEPT ![c] = [kind |-> "read", count |-> 0]]
            BY <2>2 DEF ReadFile, Finish, Says
        <3>2. /\ [report EXCEPT ![c] = [kind |-> "error", count |-> 0]] \in [Calls -> Report]
              /\ [report EXCEPT ![c] = [kind |-> "read", count |-> 0]] \in [Calls -> Report]
            BY Answers
        <3> QED
            BY <3>1, <3>2
    <2>3. CASE EditNotFound(c)
        BY <2>3, Answers DEF EditNotFound, Finish, Says
    <2>4. CASE OpenFails(c)
        BY <2>4, Answers DEF OpenFails, Finish, Says
    <2>5. CASE ReadFails(c)
        BY <2>5, Answers DEF ReadFails, Finish, Says
    <2> QED
        BY <2>1, <2>2, <2>3, <2>4, <2>5
<1>3. faults' \in 0..Faults
    BY FileAssumption DEF Refused, ReadFile, ReadFails, EditNotFound, OpenFails, TypeOK
<1>4. "done" \in Pcs /\ "done" \notin {"mkdir", "edit", "open", "write"}
    BY DEF Pcs
<1> QED
    BY <1>1, <1>2, <1>3, <1>4, TypesKept DEF TypeOK

\* The promises and the calls that are alone, as a call takes up a file.
LEMMA BeginTypes ==
    ASSUME TypeOK, FileInv, NEW c \in Calls, NEW f, Begin(c, f)
    PROVE  /\ \A g \in Files : promised'[g] \in Text \cup {Absent, Unknown}
           /\ alone' \subseteq Calls
BY DEF Begin, TypeOK, FileInv

LEMMA WriteTypes == 
    ASSUME TypeOK, FileInv, NEW c \in Calls, WriteFile(c) PROVE TypeOK'
<1>1. PICK r \in Requests :
          /\ r.tool = "write" /\ request' = [request EXCEPT ![c] = r]
          /\ text' = [text EXCEPT ![c] = r.content]
          /\ Begin(c, FileOf[r.path])
    BY DEF WriteFile
<1>2. /\ pc' = [pc EXCEPT ![c] = "mkdir"]
      /\ \A d \in Calls \ {c} : request'[d] = request[d] /\ read'[d] = read[d] /\ text'[d] = text[d]
      /\ UNCHANGED <<files, parents, report, faults>>
      /\ request'[c].tool # "edit" /\ text'[c] = r.content
    BY <1>1 DEF WriteFile, FileInv
<1>3. text'[c] \in Text
    BY <1>1, <1>2, TextFacts
<1>4. /\ \A g \in Files : promised'[g] \in Text \cup {Absent, Unknown}
      /\ alone' \subseteq Calls
    BY <1>1, BeginTypes
<1>5. "mkdir" \in Pcs
    BY DEF Pcs
<1> QED
    BY <1>2, <1>3, <1>4, <1>5, TypesKept DEF TypeOK

LEMMA CreateTypes ==
    ASSUME TypeOK, FileInv, NEW c \in Calls, CreateParent(c) PROVE TypeOK'
<1>1. pc[c] = "mkdir" /\ pc' = [pc EXCEPT ![c] = "open"]
    BY DEF CreateParent
<1>2. UNCHANGED <<files, request, read, text, report, faults, promised, alone>>
    BY DEF CreateParent
<1>3. File(c) \in Files /\ (request[c].tool = "edit" => read[c] \in Text) /\ text[c] \in Text
    BY <1>1, InFlightFacts
<1>4. parents \subseteq parents' /\ parents' \subseteq Files
    BY <1>3 DEF CreateParent, TypeOK
<1>5. "open" \in Pcs
    BY DEF Pcs
<1> QED
    BY <1>1, <1>2, <1>3, <1>4, <1>5, TypesKept DEF TypeOK

LEMMA EditReadTypes ==
    ASSUME TypeOK, FileInv, NEW c \in Calls, EditRead(c) PROVE TypeOK'
<1>1. PICK r \in Requests :
          /\ r.tool = "edit" /\ FileOf[r.path] # Outside
          /\ request' = [request EXCEPT ![c] = r]
          /\ read' = [read EXCEPT ![c] = files[FileOf[r.path]]]
          /\ IF files[FileOf[r.path]] = Absent
               THEN Finish(c, Says("error")) /\ UNCHANGED <<promised, alone>>
               ELSE /\ pc' = [pc EXCEPT ![c] = "edit"]
                    /\ Begin(c, FileOf[r.path])
                    /\ UNCHANGED report
    BY DEF EditRead
<1>2. UNCHANGED <<files, parents, text, faults>>
    BY DEF EditRead
<1>3. \A d \in Calls \ {c} : request'[d] = request[d] /\ read'[d] = read[d] /\ text'[d] = text[d]
    BY <1>1, <1>2 DEF FileInv
<1>4. "edit" \in Pcs /\ "done" \in Pcs
    BY DEF Pcs
<1>5. CASE files[FileOf[r.path]] = Absent
    <2>1. /\ pc' = [pc EXCEPT ![c] = "done"] /\ UNCHANGED <<promised, alone>>
          /\ report' = [report EXCEPT ![c] = Says("error")]
        BY <1>1, <1>5 DEF Finish
    <2>2. report' \in [Calls -> Report]
        BY <2>1, Answers DEF Says
    <2> QED
        BY <1>2, <1>3, <1>4, <2>1, <2>2, TypesKept DEF TypeOK
<1>6. CASE files[FileOf[r.path]] # Absent
    <2>1. pc' = [pc EXCEPT ![c] = "edit"] /\ Begin(c, FileOf[r.path]) /\ report' = report
        BY <1>1, <1>6
    <2>2. files[FileOf[r.path]] \in Text
        BY <1>1, <1>6, RequestPaths DEF TypeOK
    <2>3. read'[c] \in Text
        BY <1>1, <2>2 DEF FileInv
    <2>4. /\ \A g \in Files : promised'[g] \in Text \cup {Absent, Unknown}
          /\ alone' \subseteq Calls
        BY <2>1, BeginTypes
    <2> QED
        BY <1>2, <1>3, <1>4, <2>1, <2>3, <2>4, TypesKept DEF TypeOK
<1> QED
    BY <1>5, <1>6

LEMMA ReplaceTypes ==
    ASSUME TypeOK, FileInv, NEW c \in Calls, EditReplace(c) PROVE TypeOK'
<1>1. /\ pc[c] = "edit" /\ pc' = [pc EXCEPT ![c] = "open"]
      /\ text' = [text EXCEPT ![c] = Edited(read[c], request[c])]
      /\ UNCHANGED <<files, parents, request, read, report, faults, promised, alone>>
    BY DEF EditReplace
<1>2. request[c] \in Requests /\ request[c].tool = "edit" /\ read[c] \in Text
    BY <1>1, InFlightFacts
<1>3. text'[c] \in Text
    BY <1>1, <1>2, EditTypes DEF FileInv
<1>4. \A d \in Calls \ {c} : text'[d] = text[d]
    BY <1>1 DEF FileInv
<1>5. "open" \in Pcs
    BY DEF Pcs
<1> QED
    BY <1>1, <1>2, <1>3, <1>4, <1>5, TypesKept DEF TypeOK

LEMMA OpenTypes ==
    ASSUME TypeOK, FileInv, NEW c \in Calls, OpenFile(c) PROVE TypeOK'
<1>1. /\ pc[c] = "open" /\ File(c) \in parents /\ pc' = [pc EXCEPT ![c] = "write"]
      /\ files' = [files EXCEPT ![File(c)] = <<>>]
      /\ UNCHANGED <<parents, request, read, text, report, faults, promised, alone>>
    BY DEF OpenFile
<1>2. File(c) \in Files /\ (request[c].tool = "edit" => read[c] \in Text) /\ text[c] \in Text
    BY <1>1, InFlightFacts
<1>3. File(c)' = File(c)
    BY <1>1 DEF File
<1>4. \A f \in Files : files'[f] = files[f] \/ (files'[f] \in Text /\ f \in parents)
    BY <1>1, TextFacts DEF FileInv
<1>5. files'[File(c)] = <<>> /\ <<>> # Absent
    BY <1>1, <1>2, TextFacts DEF FileInv
<1>6. "write" \in Pcs
    BY DEF Pcs
<1> QED
    BY <1>1, <1>2, <1>3, <1>4, <1>5, <1>6, TypesKept DEF TypeOK

\* A call that ends with its file written, or half written.
LEMMA LeftTypes ==
    ASSUME TypeOK, FileInv, NEW c \in Calls, pc[c] = "write",
           NEW s \in Text, NEW q \in Text \cup {Unknown},
           pc' = [pc EXCEPT ![c] = "done"],
           files' = [files EXCEPT ![File(c)] = Overlay(s, files[File(c)])],
           promised' = [promised EXCEPT ![File(c)] = q],
           report' \in [Calls -> Report], faults' \in 0..Faults,
           UNCHANGED <<parents, request, read, text, alone>>
    PROVE  TypeOK'
<1>1. File(c) \in Files
    BY InFlightFacts
<1>2. files[File(c)] \in Text /\ File(c) \in parents
    BY <1>1 DEF TypeOK
<1>3. Overlay(s, files[File(c)]) \in Text
    BY <1>2, OverlayType
<1>4. \A f \in Files : files'[f] = files[f] \/ (files'[f] \in Text /\ f \in parents)
    BY <1>2, <1>3 DEF FileInv
<1>5. \A f \in Files : promised'[f] \in Text \cup {Absent, Unknown}
    BY DEF TypeOK, FileInv
<1>6. "done" \in Pcs /\ "done" \notin {"mkdir", "edit", "open", "write"}
    BY DEF Pcs
<1> QED
    BY <1>4, <1>5, <1>6, TypesKept DEF TypeOK

LEMMA WriteAllTypes ==
    ASSUME TypeOK, FileInv, NEW c \in Calls, WriteAll(c) PROVE TypeOK'
<1> DEFINE q == IF c \in alone THEN Promise(File(c), request[c]) ELSE Unknown
<1>1. /\ pc[c] = "write" /\ pc' = [pc EXCEPT ![c] = "done"]
      /\ report' = [report EXCEPT ![c] = Success(c)]
      /\ files' = [files EXCEPT ![File(c)] = Overlay(text[c], files[File(c)])]
      /\ promised' = [promised EXCEPT ![File(c)] = q]
      /\ UNCHANGED <<parents, request, read, text, faults, alone>>
    BY DEF WriteAll, Finish
<1>2. /\ c \in InFlight /\ request[c] \in Requests /\ text[c] \in Text
      /\ request[c].tool = "edit" => read[c] \in Text
      /\ request[c].tool = "write" \/ request[c].tool = "edit"
    BY <1>1, InFlightFacts
<1>3. q \in Text \cup {Unknown}
    <2>1. CASE request[c].tool = "write"
        BY <1>2, <2>1, TextFacts DEF Promise
    <2>2. CASE request[c].tool = "edit"
        <3>1. promised[File(c)] # Unknown /\ c \in alone => text[c] = Edited(promised[File(c)], request[c])
            BY <1>1, <1>2, <2>2 DEF FileInv, AloneInv
        <3> QED
            BY <1>2, <2>2, <3>1 DEF Promise
    <2> QED
        BY <1>2, <2>1, <2>2
<1>4. report' \in [Calls -> Report]
    <2>1. CASE request[c].tool = "write"
        BY <1>1, <2>1, Answers DEF Success, Says
    <2>2. CASE request[c].tool = "edit"
        <3>1. Replaced(read[c], request[c]) \in Nat
            BY <1>2, <2>2, EditTypes
        <3>2. report' = [report EXCEPT ![c] = [kind |-> "replaced", count |-> Replaced(read[c], request[c])]]
            BY <1>1, <2>2 DEF Success
        <3> QED
            BY <3>1, <3>2, Answers
    <2> QED
        BY <1>2, <2>1, <2>2
<1>5. faults' \in 0..Faults
    BY <1>1 DEF TypeOK
<1> HIDE DEF q
<1> QED
    BY <1>1, <1>2, <1>3, <1>4, <1>5, LeftTypes

LEMMA WriteFailsTypes ==
    ASSUME TypeOK, FileInv, NEW c \in Calls, WriteFails(c) PROVE TypeOK'
<1>1. PICK n \in 0..Len(text[c]) :
          files' = [files EXCEPT ![File(c)] = Overlay(SubSeq(text[c], 1, n), @)]
    BY DEF WriteFails
<1>2. /\ pc[c] = "write" /\ pc' = [pc EXCEPT ![c] = "done"]
      /\ report' = [report EXCEPT ![c] = Says("error")]
      /\ promised' = [promised EXCEPT ![File(c)] = Unknown]
      /\ UNCHANGED <<parents, request, read, text, alone>>
    BY DEF WriteFails, Finish
<1>3. SubSeq(text[c], 1, n) \in Text
    <2>1. text[c] \in Seq(STRING)
        BY <1>2, InFlightFacts DEF Text
    <2> QED
        BY <2>1 DEF Text
<1>4. report' \in [Calls -> Report]
    BY <1>2, Answers DEF Says
<1>5. faults' \in 0..Faults
    BY FileAssumption DEF WriteFails, TypeOK
<1> DEFINE s == SubSeq(text[c], 1, n)
<1>6. s \in Text /\ files' = [files EXCEPT ![File(c)] = Overlay(s, files[File(c)])]
    BY <1>1, <1>3
<1> HIDE DEF s
<1> QED
    BY <1>2, <1>4, <1>5, <1>6, LeftTypes

LEMMA RestartTypes == TypeOK /\ FileInv /\ Restart => TypeOK'
<1> SUFFICES ASSUME TypeOK, FileInv, Restart PROVE TypeOK'
    OBVIOUS
<1>1. InFlight' = {} /\ \A c \in Calls : pc'[c] \notin {"mkdir", "open", "write"}
    BY DEF Restart, InFlight, FileInv
<1>2. pc' \in [Calls -> {"start", "mkdir", "edit", "open", "write", "done"}]
    BY DEF Restart, TypeOK
<1>3. report' \in [Calls -> Report]
    BY DEF Restart, TypeOK, Report, Says
<1>4. faults' \in 0..Faults
    BY FileAssumption DEF Restart, TypeOK
<1>5. \A f \in Files : promised'[f] \in Text \cup {Absent, Unknown}
    BY DEF Restart, TypeOK
<1>6. UNCHANGED <<files, parents, alone>>
    BY DEF Restart
<1> QED
    BY <1>1, <1>2, <1>3, <1>4, <1>5, <1>6 DEF TypeOK

LEMMA TypesStep == TypeOK /\ FileInv /\ [Next]_vars => TypeOK'
<1> SUFFICES ASSUME TypeOK, FileInv, [Next]_vars PROVE TypeOK'
    OBVIOUS
<1>1. ASSUME NEW c \in Calls, ToolStep(c) PROVE TypeOK'
    BY <1>1, EndTypes, WriteTypes, CreateTypes, EditReadTypes, ReplaceTypes, OpenTypes,
       WriteAllTypes, WriteFailsTypes DEF ToolStep
<1>2. CASE Restart
    BY <1>2, RestartTypes
<1>3. CASE UNCHANGED vars
    <2>1. InFlight' = InFlight /\ \A d : File(d)' = File(d)
        BY <1>3 DEF vars, InFlight, File
    <2> QED
        BY <1>3, <2>1 DEF vars, TypeOK
<1> QED
    BY <1>1, <1>2, <1>3 DEF Next

\* Files hold texts below directories that exist, a call on its way has what it
\* will write, and what is reported is a number: read_file, write_file, edit_file.
THEOREM FileTypes == Spec => []TypeOK
    BY InitTypes, TypesStep, FileInvHolds, PTL DEF Spec
===============================================================================
