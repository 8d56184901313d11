----------------------------- MODULE DimacsGIS -----------------------------
(***************************************************************************)
(* What a file of grouped DIMACS means (dimacsparser-gis.h), line by line, *)
(* and what readInAFile (main.cpp) hands to the library afterwards.  The   *)
(* file is any sequence of the lines of the constant Lines; module         *)
(* GISReader reads it character by character.                              *)
(*                                                                         *)
(* Variables are numbered as in the file, from 1.  main passes no debug    *)
(* file name, so that the comments c Solver::... mean nothing; ENABLE_BNN  *)
(* is not defined in any build file.                                       *)
(***************************************************************************)
EXTENDS Integers, Sequences, FiniteSets, SequencesExt

CONSTANTS
    Lines,         \* the lines a file may have, see LineType
    MaxLines,      \* bound: lines of a file
    MaxVar,        \* 2^28 in the code: variables above are refused
    Options,       \* the values of strict_header (main passes FALSE) and of --groupind
    NoVar          \* no variable (var_Undef), for RoundInput

LineType(l) ==
    \/ l.kind = "header" /\ l.vars \in Int
    \/ l.kind \in {"ind", "grp", "clause", "xor"} /\ l.lits \in Seq(Int \ {0})
    \/ l.kind = "other"

ASSUME LinesAssumption == \A l \in Lines : LineType(l)
ASSUME BoundsAssumption == MaxLines \in Nat /\ MaxVar \in Nat
ASSUME OptionsAssumption == Options \subseteq BOOLEAN \X BOOLEAN

VARIABLES
    strict,                     \* strict_header
    nVars, assigned,            \* the solver: its variables, and those set by unit clauses
    headerFound, numHeaderVars,
    samplingVars, samplingFound,
    var2varGroup,               \* a sequence: the map has an entry for each of its indices
    varGroups,                  \* with the dummy group: group g is varGroups[g + 1]
    lineNum,
    groupIndep, samplingSet,    \* the library
    pc

solver == <<nVars, assigned>>
header == <<headerFound, numHeaderVars>>
sampling == <<samplingVars, samplingFound>>
groups == <<var2varGroup, varGroups>>
library == <<groupIndep, samplingSet>>
vars == <<strict, solver, header, sampling, groups, lineNum, library, pc>>

VarOf(lit) == IF lit < 0 THEN -lit ELSE lit
VarsOf(lits) == { VarOf(lits[k]) : k \in DOMAIN lits }
Larger(a, b) == IF a >= b THEN a ELSE b

-----------------------------------------------------------------------------
Init ==
    /\ \E o \in Options : strict = o[1] /\ groupIndep = o[2]
    /\ nVars = 0 /\ assigned = {}
    /\ headerFound = FALSE /\ numHeaderVars = 0
    /\ samplingVars = <<>> /\ samplingFound = FALSE
    /\ var2varGroup = <<>> /\ varGroups = <<>>
    /\ lineNum = 0
    /\ samplingSet = <<>>
    /\ pc = "reading"

Take(kinds, l) ==
    /\ pc = "reading" /\ pc' = pc
    /\ lineNum < MaxLines /\ lineNum' = lineNum + 1
    /\ l.kind \in kinds

\* check_var
Acceptable(v) == v <= MaxVar /\ (strict => headerFound /\ v <= numHeaderVars)

\* parse_header.  A second header is taken too, unless strict_header is set.
ReadHeader(l) ==
    /\ Take({"header"}, l)
    /\ l.vars >= 0 /\ ~ (headerFound /\ strict)
    /\ headerFound' = TRUE /\ numHeaderVars' = l.vars
    /\ nVars' = Larger(nVars, l.vars)
    /\ UNCHANGED <<strict, assigned, sampling, groups, library>>

\* What the solver sets when it is given a line: a clause that is one literal, an XOR
\* constraint of which one variable does not cancel out.
SetBy(l) ==
    LET occurrences(v) == Cardinality({ k \in DOMAIN l.lits : VarOf(l.lits[k]) = v })
        kept == IF l.kind = "xor" THEN { v \in VarsOf(l.lits) : occurrences(v) % 2 = 1 }
                ELSE ToSet(l.lits)
    IN  IF Cardinality(kept) = 1 THEN { VarOf(x) : x \in kept } ELSE {}

\* Clauses and XOR constraints; the solver grows with the variables it sees.
ReadClause(l) ==
    /\ Take({"clause", "xor"}, l)
    /\ \A v \in VarsOf(l.lits) : Acceptable(v)
    /\ nVars' \in { n \in {nVars} \cup VarsOf(l.lits) :
                       \A m \in {nVars} \cup VarsOf(l.lits) : m <= n }
    /\ assigned' = assigned \cup SetBy(l)
    /\ UNCHANGED <<strict, header, sampling, groups, library>>

\* parseIndependentSet: no check, and several lines add up.
ReadInd(l) ==
    /\ Take({"ind"}, l)
    /\ samplingFound' = TRUE
    /\ samplingVars' = samplingVars \o [k \in DOMAIN l.lits |-> VarOf(l.lits[k])]
    /\ UNCHANGED <<strict, solver, header, groups, library>>

\* Mutated: the map is set up anew with every group.
StartedMapAnew == [k \in 1 .. numHeaderVars |-> 0]

\* The map gets the header's size with the first group that finds it empty (again and
\* again as long as the header's size is 0), and the list of groups a dummy.
StartedMap == IF var2varGroup = <<>> THEN [k \in 1 .. numHeaderVars |-> 0] ELSE var2varGroup
StartedGroups == IF var2varGroup = <<>> THEN Append(varGroups, <<>>) ELSE varGroups

\* parseVariableGroup
ReadGrp(l) ==
    /\ Take({"grp"}, l)
    /\ VarsOf(l.lits) \subseteq DOMAIN StartedMap
    /\ var2varGroup' = [v \in DOMAIN StartedMap |->
                           IF v \in VarsOf(l.lits) THEN Len(StartedGroups) ELSE StartedMap[v]]
    /\ varGroups' = Append(StartedGroups, [k \in DOMAIN l.lits |-> VarOf(l.lits[k])])
    /\ UNCHANGED <<strict, solver, header, sampling, library>>

\* parseVariableGroup writes to the map without a check of its bounds.
WriteOutside(l) ==
    /\ pc = "reading" /\ pc' = "wild"
    /\ lineNum < MaxLines /\ l.kind = "grp"
    /\ ~ VarsOf(l.lits) \subseteq DOMAIN StartedMap
    /\ UNCHANGED <<strict, solver, header, sampling, groups, lineNum, library>>

\* Other comments and empty lines.
ReadOther(l) ==
    /\ Take({"other"}, l)
    /\ UNCHANGED <<strict, solver, header, sampling, groups, library>>

\* parse_DIMACS returns false, and readInAFile exits: a line is none of the above.
Refuse ==
    /\ pc = "reading"
    /\ pc' = "refused"
    /\ UNCHANGED <<strict, solver, header, sampling, groups, lineNum, library>>

\* print_var_groups skips the dummy without looking, and reads an entry of the map for
\* each of the solver's variables.
PrintsOutside == varGroups = <<>> \/ Len(var2varGroup) < nVars

\* start_with_clean_sampling_set, once it knows the variables it leaves out.
AllBut(set, n) == SelectSeq([v \in 1 .. n |-> v], LAMBDA v : v \notin set)

\* The rest of readInAFile: without `c ind` lines the variables of interest are all those
\* that are not set, in ascending order (start_with_clean_sampling_set).  Once a unit
\* clause has set a variable, the solver's propagation may have set any others.  With
\* --verb 2 the groups are printed.
HandOver ==
    /\ pc = "reading"
    /\ \E more \in IF samplingFound \/ assigned = {} THEN {{}} ELSE SUBSET (1 .. nVars) :
           samplingSet' =
               IF samplingFound THEN samplingVars
               ELSE AllBut(assigned \cup more, nVars)
    /\ \E verbose \in BOOLEAN :
           pc' = IF verbose /\ groupIndep /\ PrintsOutside THEN "overread" ELSE "done"
    /\ UNCHANGED <<strict, solver, header, sampling, groups, lineNum, groupIndep>>

Ended == pc \in {"done", "refused", "wild", "overread"}
Stopped == Ended /\ UNCHANGED vars

Step ==
    \/ \E l \in Lines : ReadHeader(l) \/ ReadClause(l) \/ ReadInd(l) \/ ReadGrp(l)
                          \/ WriteOutside(l) \/ ReadOther(l)
    \/ Refuse
    \/ HandOver

Next == Step \/ Stopped

Spec == Init /\ [][Next]_vars

-----------------------------------------------------------------------------
\* The groups without the dummy.
Declared == IF varGroups = <<>> THEN <<>> ELSE Tail(varGroups)

\* What the library has been given, as the rounds see it (add_fixed_clauses gives an
\* indicator to what is in the sampling set; with --groupind 0 no group is passed on,
\* and the library's conf.group_indep keeps its default, TRUE).
Handed ==
    [models |-> {}, sampling |-> samplingSet,
     varGroups |-> IF groupIndep THEN Declared ELSE <<>>,
     groupOf |-> IF groupIndep THEN var2varGroup ELSE <<>>,
     indicated |-> ToSet(samplingSet), groupIndep |-> TRUE,
     mayTimeOut |-> TRUE]

R == INSTANCE RoundInput WITH
         Vars <- Nat \ {0}, Problems <- {}, prob <- Handed

GroupsInOrder ==
    /\ groupIndep /\ Declared # <<>>
    /\ \A g \in DOMAIN Declared : R!Distinct(Declared[g])
    /\ \A g, h \in DOMAIN Declared :
           g # h => ToSet(Declared[g]) \cap ToSet(Declared[h]) = {}
    /\ nVars = numHeaderVars /\ Len(var2varGroup) = numHeaderVars

IndInOrder ==
    /\ samplingFound
    /\ R!Distinct(samplingVars) /\ ToSet(samplingVars) \subseteq 1 .. nVars
    /\ \A g \in DOMAIN Declared : \/ ToSet(Declared[g]) \subseteq ToSet(samplingVars)
                                  \/ ToSet(Declared[g]) \cap ToSet(samplingVars) = {}

TypeOK ==
    /\ nVars \in Nat /\ (nVars <= MaxVar \/ headerFound) /\ assigned \subseteq 1 .. nVars
    /\ numHeaderVars \in Nat /\ lineNum \in 0 .. MaxLines
    /\ \A k \in DOMAIN var2varGroup : var2varGroup[k] \in 0 .. Len(Declared)
    /\ pc \in {"reading", "done", "refused", "wild", "overread"}

\* A file whose groups are disjoint and within the header's variables, and whose `c ind`
\* lines list each variable once and no group in part, gives the rounds what they are
\* written for, with each group as one unit, and can be printed, whatever the order of its
\* lines and whatever else it holds.
GoodFilesWork ==
    pc \in {"done", "overread"} /\ GroupsInOrder /\ IndInOrder =>
        /\ pc = "done" /\ R!ProblemType(Handed) /\ R!WellFormed
        /\ \A g \in DOMAIN Declared : \A v \in ToSet(Declared[g]) :
               R!UnitOf(v) = ToSet(Declared[g])

\* The map and the list of groups agree: a variable is mapped to the last group that
\* lists it, if any does (dimacsparser-gis.h 61-65).
MapFollowsGroups ==
    \A v \in DOMAIN var2varGroup :
        LET listing == { g \in DOMAIN Declared : v \in ToSet(Declared[g]) }
        IN  /\ var2varGroup[v] \in {0} \cup listing
            /\ \A g \in listing : g <= var2varGroup[v]

\* common.h 79-80: a variable that belongs to no group is mapped to 0, so that every
\* variable has an entry in the library's map.
EveryVariableMapped == pc = "done" => 1 .. nVars \subseteq DOMAIN Handed.groupOf

\* The assertions of backward.cpp 59 and 69, indic != var_Undef, for a file without
\* `c ind` lines: all groups are of interest, so their variables need indicators.
GroupsOfInterest ==
    pc = "done" /\ GroupsInOrder /\ ~ samplingFound =>
        R!Closure \subseteq ToSet(samplingSet)
=============================================================================
