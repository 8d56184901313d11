----------------------------- MODULE GISReader -----------------------------
(***************************************************************************)
(* The parser of grouped DIMACS files as it runs (dimacsparser-gis.h with  *)
(* the skipping functions of streambuffer.h): one look at the character in *)
(* hand after the other, with what it has written when a line turns out    *)
(* bad half-way.  It implements DimacsGIS, whose variables and whose       *)
(* HandOver it shares.                                                     *)
(*                                                                         *)
(* A symbol is one character, a keyword, or a number with its sign, which  *)
(* parseInt reads whole (module NumberReader); "high" is one it refuses.   *)
(* "other" is a letter or sign that means nothing to the parser, "nul" the *)
(* character 0; "eof" is the end, or a byte 255 (see NumberReader).        *)
(***************************************************************************)
EXTENDS DimacsGIS

CONSTANTS
    Numbers,       \* the numbers a file may hold
    MaxLits        \* bound: literals in a line

ASSUME NumbersAssumption ==
    Numbers \subseteq Int /\ 0 \in Numbers /\ MaxLits \in Nat \ {0} /\ MaxLines \in Nat \ {0}

\* DimacsGIS has the lines that can be written with these numbers.
LitLists == UNION { [1 .. n -> Numbers \ {0}] : n \in 0 .. MaxLits }

ASSUME LinesOfNumbers ==
    /\ \A n \in Numbers : [kind |-> "header", vars |-> n] \in Lines
    /\ \A k \in {"ind", "grp", "clause", "xor"}, ls \in LitLists :
           [kind |-> k, lits |-> ls] \in Lines
    /\ [kind |-> "other"] \in Lines

VARIABLES
    sym,           \* *in
    at,            \* the place in the code, see Places
    kind,          \* the letter the line begins with, if it means something
    word,          \* str, as far as parseString has read it
    lits,          \* the literals of the line so far (new_group)
    started        \* ghost: what the line found when it began

place == <<at, kind, word, lits, started>>
allVars == <<vars, sym, place>>

-----------------------------------------------------------------------------
(* Symbols *)

Num(n) == <<"num", n>>
Chr(c) == <<c, 0>>
Characters == {"space", "tab", "cr", "nl", "nul", "eof", "high", "other"}
Letters == {"p", "c", "x", "b"}
Keywords == {"cnf", "ind", "grp"}
Symbols == { Num(n) : n \in Numbers }
               \cup { Chr(c) : c \in Characters \cup Letters \cup Keywords }

Is(cs) == sym[1] \in cs
White == Is({"space", "tab", "cr"})

\* operator++ after n literals.  A number is read to its last digit: one that follows it
\* directly begins with a sign, and any number may.  The end stays the end.  A letter is
\* told from others where a line begins, a keyword where a word does.  The bounds: no more
\* literals, no more lines.
Advance(n) ==
    sym' \in { s \in Symbols :
                 /\ Is({"eof"}) => s = sym
                 /\ s[1] \in Letters => Is({"nl"}) \/ (at = "line" /\ White)
                 /\ s[1] \in Keywords => at = "gap" \/ (at = "line" /\ Is({"p", "c"}))
                 /\ n >= MaxLits /\ s[1] = "num" => s[2] = 0
                 /\ Is({"nl"}) /\ lineNum + 1 >= MaxLines => s = Chr("eof") }

Places == {"line", "gap", "word", "vars", "count", "lits", "afterLit", "afterZero", "eol",
           "skip", "ind", "grp"}

Now == <<nVars, assigned, headerFound, numHeaderVars, samplingVars, samplingFound,
         var2varGroup, varGroups>>

ReaderInit ==
    /\ Init
    /\ sym \in { s \in Symbols : s[1] \notin Keywords }
    /\ at = "line" /\ kind = "none" /\ word = "none" /\ lits = <<>> /\ started = <<>>

In(p) == pc = "reading" /\ at = p
GoOn(p) == at' = p /\ UNCHANGED <<kind, word, lits, started>>

-----------------------------------------------------------------------------
\* skipWhitespace, where it comes before a look at the character.
Skips == at \in {"line", "gap", "vars", "count", "lits", "afterZero", "ind", "grp"}

SkipWhite ==
    /\ pc = "reading" /\ Skips /\ White
    /\ Advance(Len(lits))
    /\ UNCHANGED <<vars, place>>

\* The switch of parse_DIMACS_main.  What is none of the letters begins a clause.
StartLine ==
    /\ In("line") /\ ~ White /\ ~ Is({"eof", "b"})
    /\ started' = Now
    /\ kind' = IF Is({"p", "c", "x"}) THEN sym[1] ELSE "none"
    /\ at' = CASE Is({"p", "c"}) -> "gap" [] Is({"nl"}) -> "skip" [] OTHER -> "lits"
    /\ IF kind' # "none" THEN Advance(0) ELSE UNCHANGED sym
    /\ UNCHANGED <<vars, word, lits>>

EndOfFile ==
    /\ In("line") /\ Is({"eof"})
    /\ HandOver
    /\ UNCHANGED <<sym, place>>

\* parseString: tabs within a word belong to it.
WordEnds == Is({"nl", "eof"}) \/ (at = "word" /\ Is({"space"}))
InWord == In("word") \/ (In("gap") /\ ~ White)

ReadWord ==
    /\ InWord /\ ~ WordEnds
    /\ word' = IF word = "none" /\ Is(Keywords) THEN sym[1] ELSE "other"
    /\ at' = "word"
    /\ Advance(0)
    /\ UNCHANGED <<vars, kind, lits, started>>

\* parse_header
HeaderWord ==
    /\ InWord /\ WordEnds /\ kind = "p" /\ word = "cnf" /\ ~ (headerFound /\ strict)
    /\ headerFound' = TRUE
    /\ GoOn("vars")
    /\ UNCHANGED <<strict, solver, numHeaderVars, sampling, groups, lineNum, library, pc, sym>>

HeaderVars ==
    /\ In("vars") /\ Is({"num"})
    /\ numHeaderVars' = sym[2]
    /\ Advance(0) /\ GoOn("count")
    /\ UNCHANGED <<strict, solver, headerFound, sampling, groups, lineNum, library, pc>>

\* The count of clauses is not used; both numbers are checked after both are read.
HeaderCount ==
    /\ In("count") /\ Is({"num"}) /\ numHeaderVars >= 0 /\ sym[2] >= 0
    /\ nVars' = Larger(nVars, numHeaderVars)
    /\ Advance(0) /\ GoOn("skip")
    /\ UNCHANGED <<strict, assigned, header, sampling, groups, lineNum, library, pc>>

\* parseComments
CommentWord ==
    /\ InWord /\ WordEnds /\ kind = "c"
    /\ samplingFound' = (samplingFound \/ word = "ind")
    /\ var2varGroup' = IF word = "grp" THEN StartedMap ELSE var2varGroup
    /\ varGroups' = IF word = "grp" THEN StartedGroups ELSE varGroups
    /\ GoOn(IF word \in {"ind", "grp"} THEN word ELSE "skip")
    /\ UNCHANGED <<strict, solver, header, samplingVars, lineNum, library, pc, sym>>

\* The literal in hand is kept, and the next one looked for at p.
Keep(p) ==
    /\ sym[1] = "num" /\ sym[2] # 0
    /\ lits' = Append(lits, sym[2])
    /\ Advance(Len(lits')) /\ at' = p
    /\ UNCHANGED <<kind, word, started>>

\* The 0 after the literals.
Zero(p) == sym = Num(0) /\ Advance(0) /\ GoOn(p)

\* readClause: check_var lets the solver grow at once.
ReadLit ==
    /\ In("lits") /\ Acceptable(VarOf(sym[2]))
    /\ Keep("afterLit")
    /\ nVars' = Larger(nVars, VarOf(sym[2]))
    /\ UNCHANGED <<strict, assigned, header, sampling, groups, lineNum, library, pc>>

\* A literal must be followed by a blank, which parseInt then skips.
AfterLit ==
    /\ In("afterLit") /\ Is({"space"})
    /\ GoOn("lits")
    /\ UNCHANGED <<vars, sym>>

\* Blanks may follow the 0 of a clause, not that of an XOR constraint.
ReadZero ==
    /\ In("lits") /\ Zero(IF kind = "x" THEN "eol" ELSE "afterZero")
    /\ UNCHANGED vars

LineEnds == Is({"nl", "eof", "nul"})
\* Mutated: the literals are not cleared.
LineDoneKeepsLits ==
    /\ LineEnds
    /\ IF Is({"nl"}) THEN Advance(0) ELSE UNCHANGED sym
    /\ lineNum' = lineNum + 1
    /\ at' = "line" /\ kind' = "none" /\ word' = "none" /\ started' = <<>> /\ UNCHANGED lits

\* A line is complete; the character 0 and the end are left to the main loop.
LineDone ==
    /\ LineEnds
    /\ IF Is({"nl"}) THEN Advance(0) ELSE UNCHANGED sym
    /\ lineNum' = lineNum + 1
    /\ at' = "line" /\ kind' = "none" /\ word' = "none" /\ lits' = <<>> /\ started' = <<>>

\* skipEOL, and the rest of parse_and_add_clause or parse_and_add_xor_clause.
AtEOL == In("eol") \/ (In("afterZero") /\ ~ White)

EndClause ==
    /\ AtEOL /\ LineDone
    /\ assigned' = assigned \cup SetBy([kind |-> IF kind = "x" THEN "xor" ELSE "clause",
                                        lits |-> lits])
    /\ UNCHANGED <<strict, nVars, header, sampling, groups, library, pc>>

SkipReturn ==
    /\ In("eol") /\ Is({"cr"})
    /\ Advance(0)
    /\ UNCHANGED <<vars, place>>

\* Mutated: skipLine does not look for the end of the file.
SkipLineMissesEnd ==
    /\ In("skip")
    /\ \/ ~ Is({"eof"}) /\ LineDone
       \/ (Is({"eof"}) \/ ~ LineEnds) /\ Advance(0) /\ UNCHANGED <<place, lineNum>>
    /\ UNCHANGED <<strict, solver, header, sampling, groups, library, pc>>

\* skipLine
SkipLine ==
    /\ In("skip")
    /\ \/ LineDone
       \/ ~ LineEnds /\ Advance(0) /\ UNCHANGED <<place, lineNum>>
    /\ UNCHANGED <<strict, solver, header, sampling, groups, library, pc>>

\* parseIndependentSet
ReadIndLit ==
    /\ In("ind") /\ Keep("ind")
    /\ samplingVars' = Append(samplingVars, VarOf(sym[2]))
    /\ UNCHANGED <<strict, solver, header, samplingFound, groups, lineNum, library, pc>>

IndZero ==
    /\ In("ind") /\ Zero("skip")
    /\ UNCHANGED vars

\* Mutated: new_group_idx counts the groups as if there were no dummy.
ReadGrpLitOneOff ==
    /\ In("grp") /\ VarOf(sym[2]) \in DOMAIN var2varGroup /\ Keep("grp")
    /\ var2varGroup' = [var2varGroup EXCEPT ![VarOf(sym[2])] = Len(varGroups) - 1]
    /\ UNCHANGED <<strict, solver, header, sampling, varGroups, lineNum, library, pc>>

\* The loop of parseVariableGroup: the map is written as the literals come, the group is
\* pushed at their end.
ReadGrpLit ==
    /\ In("grp") /\ VarOf(sym[2]) \in DOMAIN var2varGroup /\ Keep("grp")
    /\ var2varGroup' = [var2varGroup EXCEPT ![VarOf(sym[2])] = Len(varGroups)]
    /\ UNCHANGED <<strict, solver, header, sampling, varGroups, lineNum, library, pc>>

\* Mutated: a group of one variable is not pushed.
GrpZeroLosesShort ==
    /\ In("grp") /\ Zero("skip")
    /\ varGroups' = IF Len(lits) < 2 THEN varGroups
                    ELSE Append(varGroups, [k \in DOMAIN lits |-> VarOf(lits[k])])
    /\ UNCHANGED <<strict, solver, header, sampling, var2varGroup, lineNum, library, pc>>

GrpZero ==
    /\ In("grp") /\ Zero("skip")
    /\ varGroups' = Append(varGroups, [k \in DOMAIN lits |-> VarOf(lits[k])])
    /\ UNCHANGED <<strict, solver, header, sampling, var2varGroup, lineNum, library, pc>>

GrpLitOutside ==
    /\ In("grp") /\ Is({"num"}) /\ sym[2] # 0 /\ VarOf(sym[2]) \notin DOMAIN var2varGroup
    /\ pc' = "wild"
    /\ UNCHANGED <<strict, solver, header, sampling, groups, lineNum, library, sym, place>>

\* What the parser does not take: a function returns false, or the run ends at once.
NotTaken ==
    \/ at = "line" /\ Is({"b"})
    \/ InWord /\ WordEnds /\ kind = "p" /\ (word # "cnf" \/ (headerFound /\ strict))
    \/ at \in {"vars", "count", "lits", "ind", "grp"} /\ ~ White /\ ~ Is({"num"})
    \/ at = "count" /\ Is({"num"}) /\ (numHeaderVars < 0 \/ sym[2] < 0)
    \/ at = "lits" /\ Is({"num"}) /\ sym[2] # 0 /\ ~ Acceptable(VarOf(sym[2]))
    \/ at = "afterLit" /\ ~ Is({"space"})
    \/ AtEOL /\ ~ LineEnds /\ ~ (at = "eol" /\ Is({"cr"}))

RefuseFile ==
    /\ pc = "reading" /\ NotTaken
    /\ pc' = "refused"
    /\ UNCHANGED <<strict, solver, header, sampling, groups, lineNum, library, sym, place>>

ReaderStopped == Ended /\ UNCHANGED allVars

ReaderStep ==
    \/ SkipWhite \/ StartLine \/ EndOfFile \/ ReadWord \/ HeaderWord \/ HeaderVars
    \/ HeaderCount \/ CommentWord \/ ReadLit \/ AfterLit \/ ReadZero \/ EndClause
    \/ SkipReturn \/ SkipLine \/ ReadIndLit \/ IndZero \/ ReadGrpLit \/ GrpZero
    \/ GrpLitOutside \/ RefuseFile

ReaderNext == ReaderStep \/ ReaderStopped

\* A sequential program runs on.
ReaderSpec == ReaderInit /\ [][ReaderNext]_allVars /\ WF_allVars(ReaderStep)

-----------------------------------------------------------------------------
ReaderTypeOK ==
    /\ at = "line" => TypeOK
    /\ sym \in Symbols /\ at \in Places
    /\ kind \in {"none", "p", "c", "x"} /\ word \in {"none", "cnf", "ind", "grp", "other"}
    /\ lits \in Seq(Numbers \ {0}) /\ Len(lits) <= MaxLits
    /\ started = <<>> <=> at = "line"

\* Within a line nothing of it has happened yet.
Was == IF at = "line" THEN Now ELSE started

L == INSTANCE DimacsGIS WITH
         nVars <- Was[1], assigned <- Was[2], headerFound <- Was[3], numHeaderVars <- Was[4],
         samplingVars <- Was[5], samplingFound <- Was[6],
         var2varGroup <- Was[7], varGroups <- Was[8]

\* Read character by character, and written down as it comes, a file still means its
\* lines: each is taken as a whole, or the file is refused (or the map's bounds are left).
ReadsLines == L!Spec

\* The map and the groups agree after each line (see MapFollowsGroups).
LinesFollowGroups == L!MapFollowsGroups

\* No loop of the parser stays for ever at the file's end, or at a character 0, which the
\* skipping functions leave where it is: there the file is handed over or refused, or
\* parseString takes the 0 for a letter.
EndsReading == Is({"eof", "nul"}) ~> ~ Is({"eof", "nul"}) \/ Ended
=============================================================================
