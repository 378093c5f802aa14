---------------------------- MODULE FileHandler ----------------------------
(***************************************************************************)
(* common/FileHandler.hpp, TraverseFile, with the visitor of FindAndReplace*)
(* for strings: the file is copied line by line to a temporary file, which *)
(* then takes its place.  The process may crash at any step and the caller *)
(* may call again; streams fail without telling.                           *)
(*                                                                         *)
(* A line is a sequence of characters, a file a sequence of lines (the     *)
(* newline that a last line may lack is left out).  std::endl hands every  *)
(* line to the file system, which is external.                             *)
(***************************************************************************)
EXTENDS Integers, Sequences, SequencesExt

CONSTANTS Files,     \* contents the file may have at first
          Froms, Tos,\* values of strFrom and strTo
          None,      \* the content of a file that does not exist
          MaxLine,   \* bound: the length of a line that memory can hold
          MaxCalls   \* bound: calls of FindAndReplace

ASSUME FileAssumption ==
    /\ None \notin Files /\ MaxLine \in Nat /\ MaxCalls \in Nat

VARIABLES
    orig, temp,         \* the two files
    pc,                 \* where the call is
    rest, out,          \* lines still to read; whether fileOut is good
    strLine, nIndex,    \* the line in hand, and how far it was searched
    strFrom, strTo,
    calls,
    cur,                \* history: what the file should hold
    failed              \* history: a stream or a function has failed

fvars == <<rest, out, strLine, nIndex>>
vars == <<orig, temp, pc, fvars, strFrom, strTo, calls, cur, failed>>

Init == /\ orig \in Files /\ temp = None
        /\ strFrom \in Froms /\ strTo \in Tos
        /\ pc = "idle" /\ rest = <<>> /\ out = FALSE
        /\ strLine = <<>> /\ nIndex = 0
        /\ calls = 0 /\ cur = orig /\ failed = FALSE

-----------------------------------------------------------------------------
(* SReplaceVisit.                                                          *)

npos == -1

\* std::string::find: the first occurrence of s in line from position n on
Find(line, s, n) ==
    LET at == {k \in n..(Len(line) - Len(s)) :
                  SubSeq(line, k + 1, k + Len(s)) = s}
    IN  IF at = {} THEN npos ELSE CHOOSE k \in at : \A l \in at : k <= l

Replaced(line, n) == SubSeq(line, 1, n) \o strTo
                     \o SubSeq(line, n + Len(strFrom) + 1, Len(line))

\* where the search goes on if it looks at the new text again
SearchAgain(n) == n

\* where it goes on if it skips as much as was taken out
SkipOld(n) == n + Len(strFrom)

SkipNew(n) == n + Len(strTo)

\* One turn of the loop, which also ends if the line outgrows the memory: a
\* search for nothing finds it everywhere.
VisitTurn ==
    LET n == Find(strLine, strFrom, nIndex)
    IN  /\ pc = "visit"
        /\ \/ /\ n # npos /\ Len(strLine) <= MaxLine
              /\ strLine' = Replaced(strLine, n) /\ nIndex' = SkipNew(n)
              /\ UNCHANGED <<pc, failed>>
           \/ /\ n # npos /\ Len(strLine) > MaxLine
              /\ pc' = "idle" /\ failed' = TRUE      \* bad_alloc
              /\ UNCHANGED <<strLine, nIndex>>
           \/ /\ n = npos
              /\ pc' = "write" /\ UNCHANGED <<strLine, nIndex, failed>>
        /\ UNCHANGED <<orig, temp, rest, out, strFrom, strTo, calls, cur>>

-----------------------------------------------------------------------------
(* TraverseFile.                                                           *)

Call == /\ pc = "idle" /\ calls < MaxCalls
        /\ calls' = calls + 1 /\ pc' = "open"
        /\ UNCHANGED <<orig, temp, fvars, strFrom, strTo, cur, failed>>

\* OpenIn that creates the temporary file before it looks at the original
OpenOutFirst ==
    /\ pc = "open"
    /\ temp' = <<>>
    /\ \/ pc' = "idle" /\ UNCHANGED rest
       \/ orig # None /\ pc' = "create" /\ rest' = orig
    /\ UNCHANGED <<orig, out, strLine, nIndex, strFrom, strTo, calls, cur,
                   failed>>

\* fileIn; a file that is not there, or that cannot be opened for reading and
\* writing, is an exception
OpenIn ==
    /\ pc = "open"
    /\ \/ pc' = "idle" /\ UNCHANGED rest
       \/ orig # None /\ pc' = "create" /\ rest' = orig
    /\ UNCHANGED <<orig, temp, out, strLine, nIndex, strFrom, strTo, calls,
                   cur, failed>>

\* fileOut: emptied or created, or not open, which nobody looks at
OpenOut ==
    /\ pc = "create" /\ pc' = "read"
    /\ \/ temp' = <<>> /\ out' = TRUE /\ UNCHANGED failed
       \/ out' = FALSE /\ failed' = TRUE /\ UNCHANGED temp
    /\ UNCHANGED <<orig, rest, strLine, nIndex, strFrom, strTo, calls, cur>>

\* getline; the loop also ends when reading fails
ReadLine ==
    /\ pc = "read"
    /\ \/ /\ rest # <<>>
          /\ strLine' = Head(rest) /\ nIndex' = 0 /\ rest' = Tail(rest)
          /\ pc' = "visit" /\ UNCHANGED failed
       \/ /\ pc' = "remove" /\ failed' = (failed \/ rest # <<>>)
          /\ UNCHANGED <<rest, strLine, nIndex>>
    /\ UNCHANGED <<orig, temp, out, strFrom, strTo, calls, cur>>

\* fileOut<<strLine<<endl; a stream that failed stays silent
WriteLine ==
    /\ pc = "write" /\ pc' = "read"
    /\ \/ out /\ temp' = Append(temp, strLine) /\ UNCHANGED <<out, failed>>
       \/ out' = FALSE /\ failed' = TRUE /\ UNCHANGED temp
    /\ UNCHANGED <<orig, rest, strLine, nIndex, strFrom, strTo, calls, cur>>

\* remove, which may throw
RemoveFile ==
    /\ pc = "remove"
    /\ \/ orig' = None /\ pc' = "rename" /\ UNCHANGED failed
       \/ pc' = "idle" /\ failed' = TRUE /\ UNCHANGED orig
    /\ UNCHANGED <<temp, fvars, strFrom, strTo, calls, cur>>

\* What FindAndReplace is for, without the loop: a line with the occurrences
\* replaced that one finds from the left and that do not overlap.
Reference(line) ==
    LET n == Len(line)
        f == Len(strFrom)
        occurs == {k \in 1..(n - f + 1) : SubSeq(line, k, k + f - 1) = strFrom}
        taken[k \in 1..n] ==
            k \in occurs /\ \A l \in 1..(k - 1) : k < l + f => ~taken[l]
        piece(k) == IF taken[k] THEN strTo
                    ELSE IF \E l \in 1..k : taken[l] /\ k < l + f THEN <<>>
                    ELSE <<line[k]>>
    IN  FlattenSeq([k \in 1..n |-> piece(k)])

ReferenceFile(lines) == [k \in 1..Len(lines) |-> Reference(lines[k])]

\* rename, which throws if there is nothing to rename, or for other reasons
RenameFile ==
    /\ pc = "rename" /\ pc' = "idle"
    /\ \/ /\ temp # None
          /\ orig' = temp /\ temp' = None
          /\ cur' = ReferenceFile(cur)
          /\ UNCHANGED failed
       \/ failed' = TRUE /\ UNCHANGED <<orig, temp, cur>>
    /\ UNCHANGED <<fvars, strFrom, strTo, calls>>

\* The process ends anywhere; a new one finds the two files.
Crash == /\ pc # "idle" /\ pc' = "idle"
         /\ rest' = <<>> /\ out' = FALSE /\ strLine' = <<>> /\ nIndex' = 0
         /\ UNCHANGED <<orig, temp, strFrom, strTo, calls, cur, failed>>

Step == \/ OpenIn \/ OpenOut \/ ReadLine \/ VisitTurn \/ WriteLine
        \/ RemoveFile \/ RenameFile

Next == Call \/ Step \/ Crash

\* A call goes on until it returns or throws.
Spec == Init /\ [][Next]_vars /\ WF_vars(Step)

-----------------------------------------------------------------------------
(* Properties.                                                             *)

\* Whatever step the process dies at, the contents are not lost: the file is
\* there, whole, as it was or as it should become, or it is not and the
\* temporary file holds what it should become, until a later call finds
\* nothing to open and leaves it alone.
Recoverable ==
    ~failed => \/ orig \in {cur, ReferenceFile(cur)}
               \/ orig = None /\ temp = ReferenceFile(cur)

\* A call that returns has replaced every occurrence, from left to right and
\* not in the text it put in, in every line and nothing else.
ReplacesAll ==
    [][(pc = "rename" /\ orig' # orig /\ ~failed)
          => orig' = ReferenceFile(cur)]_vars

\* Every call ends, even if the new text contains the old, unless it is to
\* replace nothing by nothing.  (Nothing by something ends without memory.)
CallEnds ==
    (pc # "idle" /\ (strFrom # <<>> \/ strTo # <<>>)) ~> pc = "idle"
=============================================================================
