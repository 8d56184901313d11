--------------------------- MODULE BackwardRound ---------------------------
(***************************************************************************)
(* Common::backward_round and fill_assumptions_backward (backward.cpp),    *)
(* with update_sampling_set and the group lookups of common.cpp: the round *)
(* that decides, group by group from the back of a vector, which groups    *)
(* the independent support needs.                                          *)
(*                                                                         *)
(* The vectors, their in-place compaction, the flags, the loop counters    *)
(* and the assertions are the code's.                                      *)
(* A failed assert() is pc = "abort"; an access outside a vector is        *)
(* pc = "wild": what the program does from there on is undefined.  Both    *)
(* are kept apart from "done".  The asserts are compiled in by default     *)
(* (CMakeLists.txt filters NDEBUG out).                                    *)
(***************************************************************************)
EXTENDS RoundInput

CONSTANT UpdatePeriod   \* 500 in the code: how often the working set is published

ASSUME UpdatePeriodAssumption == UpdatePeriod \in Nat \ {0}

VARIABLES
    samplingSet, otherSamplingSet,      \* *sampling_set and the buffer it is swapped with
    unknown, unknownSet, indep,         \* backward_round's vectors
    cursor, member,                     \* positions of the range-for loops
    testVar, ret, iter,                 \* test_var; last answer; iterations modulo UpdatePeriod
    assumptions, origAssSize,           \* what the solver is called with
    i, j, added,                        \* locals of fill_assumptions_backward
    pc

setVars  == <<samplingSet, otherSamplingSet>>
workVars == <<unknown, unknownSet, indep>>
loopVars == <<cursor, member>>
testVars == <<testVar, ret, iter>>
assVars  == <<assumptions, origAssSize>>
fillVars == <<i, j, added>>
data == <<prob, setVars, workVars, loopVars, testVars, assVars, fillVars>>
vars == <<data, pc>>

-----------------------------------------------------------------------------
\* The vectors of the function, before anything is in them.
Begin ==
    /\ samplingSet = prob.sampling /\ otherSamplingSet = <<>>
    /\ unknown = <<>> /\ unknownSet = {} /\ indep = <<>>
    /\ cursor = 1 /\ member = 1
    /\ testVar = NoVar /\ ret = "undef" /\ iter = 0
    /\ assumptions = <<>> /\ origAssSize = 0
    /\ i = 1 /\ j = 1 /\ added = {}
    /\ pc = "build"

Init == prob \in Problems /\ Begin

Fail(how) == pc' = how /\ UNCHANGED data

-----------------------------------------------------------------------------
(* Filling `unknown` from the sampling set *)

Building  == pc = "build" /\ cursor <= Len(samplingSet)
Candidate == samplingSet[cursor]

\* One turn of the loop over the candidate's group: a member not flagged yet is added.
PushGroupMember ==
    /\ Building /\ AsGroup(Candidate)
    /\ LET grp == Group(Candidate)
           v == grp[member]
       IN  /\ unknown' = IF v \in unknownSet THEN unknown ELSE Append(unknown, v)
           /\ unknownSet' = unknownSet \cup {v}
           /\ IF member < Len(grp)
              THEN member' = member + 1 /\ cursor' = cursor
              ELSE member' = 1 /\ cursor' = cursor + 1
    /\ UNCHANGED <<prob, setVars, indep, testVars, assVars, fillVars, pc>>

PushUngrouped ==
    /\ Building /\ ~ AsGroup(Candidate)
    /\ prob.groupIndep => Mapped(Candidate)
    /\ Candidate \notin unknownSet
    /\ unknown' = Append(unknown, Candidate)
    /\ unknownSet' = unknownSet \cup {Candidate}
    /\ cursor' = cursor + 1
    /\ UNCHANGED <<prob, setVars, indep, member, testVars, assVars, fillVars, pc>>

\* No entry in var2var_group, or an ungrouped candidate that is listed twice.
BuildFails ==
    /\ Building /\ ~ AsGroup(Candidate)
    /\ (prob.groupIndep /\ ~ Mapped(Candidate)) \/ Candidate \in unknownSet
    /\ Fail("abort")

\* Sorting is switched off for groups; otherwise the order is that of the incidence
\* counts of the clauses: any order, as far as the round is concerned.  Left out:
\* sort_unknown ends the program when conf.incidence_sort is none of the orders it knows
\* (common.h 338-341).
SortUnknown ==
    /\ pc = "build" /\ cursor > Len(samplingSet)
    /\ IF prob.groupIndep
       THEN unknown' = unknown
       ELSE \E p \in [1 .. Len(unknown) -> 1 .. Len(unknown)] :
                /\ Distinct(p) /\ Range(p) = DOMAIN p
                /\ unknown' = [k \in 1 .. Len(unknown) |-> unknown[p[k]]]
    /\ pc' = "select"
    /\ UNCHANGED <<prob, setVars, unknownSet, indep, loopVars, testVars, assVars,
                   fillVars>>

-----------------------------------------------------------------------------
(* Choosing what to test *)

Selecting == pc = "select" /\ unknown # <<>>
LastVar == unknown[Len(unknown)]

\* How many entries leave `unknown` with its last one: the rest of its group is
\* popped blindly, whatever is there.
\* Mutated: the popping loop starts at 0 instead of 1.
FirstTakenOneMore == Len(unknown) + 1 - (IF InGroup(LastVar) THEN 1 + Len(Group(LastVar)) ELSE 1)
FirstTaken == Len(unknown) + 1 - (IF InGroup(LastVar) THEN Len(Group(LastVar)) ELSE 1)
Taken == { unknown[k] : k \in FirstTaken .. Len(unknown) }

\* What the popping loop asserts of an entry: it is of the same group, and flagged.  Flags
\* are cleared as it goes, that of LastVar at the end.
Fits(k) ==
    /\ Mapped(unknown[k]) /\ prob.groupOf[unknown[k]] = prob.groupOf[LastVar]
    /\ unknown[k] \in unknownSet
    /\ \A l \in (k + 1) .. (Len(unknown) - 1) : unknown[l] # unknown[k]

\* All of them are there and fit, and none is LastVar again.
TakenAreGroup ==
    /\ FirstTaken >= 1
    /\ \A k \in FirstTaken .. (Len(unknown) - 1) : Fits(k) /\ unknown[k] # LastVar

\* Popping comes to an entry without a place in var2var_group.
PopsUnmapped ==
    \E k \in 1 .. (Len(unknown) - 1) :
        /\ k >= FirstTaken /\ ~ Mapped(unknown[k])
        /\ \A l \in (k + 1) .. (Len(unknown) - 1) : Fits(l)

\* An entry whose flag is cleared already is dropped without a test.
SelectTest ==
    /\ Selecting
    /\ IF LastVar \in unknownSet
       THEN /\ Mapped(LastVar) /\ TakenAreGroup
            /\ testVar' = LastVar
            /\ unknownSet' = unknownSet \ Taken
            /\ unknown' = SubSeq(unknown, 1, FirstTaken - 1)
            /\ pc' = "fillIndep"
       ELSE /\ unknown' = SubSeq(unknown, 1, Len(unknown) - 1)
            /\ UNCHANGED <<testVar, unknownSet, pc>>
    /\ UNCHANGED <<prob, setVars, indep, loopVars, ret, iter, assVars, fillVars>>

\* get_group_idx reads var2var_group without a check.
SelectFails ==
    /\ Selecting /\ LastVar \in unknownSet
    /\ \/ ~ Mapped(LastVar) /\ Fail("wild")
       \/ /\ Mapped(LastVar) /\ ~ TakenAreGroup
          /\ Fail(IF PopsUnmapped THEN "wild" ELSE "abort")

SelectNone ==
    /\ pc = "select" /\ unknown = <<>>
    /\ testVar' = NoVar
    /\ otherSamplingSet' = <<>> /\ cursor' = 1
    /\ pc' = "publish"
    /\ UNCHANGED <<prob, samplingSet, workVars, member, ret, iter, assVars, fillVars>>

-----------------------------------------------------------------------------
(* fill_assumptions_backward *)

\* Mutated: the assumptions of the test before are not cleared.
FillIndepKeepsOld ==
    /\ pc = "fillIndep"
    /\ Range(indep) \subseteq prob.indicated
    /\ assumptions' = assumptions \o SameLits(indep)
    /\ added' = {} /\ i' = 1 /\ j' = 1
    /\ pc' = "fill"
    /\ UNCHANGED <<prob, setVars, workVars, loopVars, testVars, origAssSize>>

FillIndep ==
    /\ pc = "fillIndep"
    /\ Range(indep) \subseteq prob.indicated
    /\ assumptions' = SameLits(indep)
    /\ added' = {} /\ i' = 1 /\ j' = 1
    /\ pc' = "fill"
    /\ UNCHANGED <<prob, setVars, workVars, loopVars, testVars, origAssSize>>

Filling == pc = "fill" /\ i <= Len(unknown)
Current == unknown[i]

\* Passed over; the entries that follow move down in the vector.
Skipped == Current \notin unknownSet \/ (AsGroup(Current) /\ Current \in added)

\* Members of the current group that cannot be written out: past the end of the
\* vector, without an indicator, or assumed already.
Unfit(grp) ==
    { k \in DOMAIN grp : \/ j + k - 1 > Len(unknown)
                         \/ grp[k] \notin prob.indicated
                         \/ grp[k] \in added
                         \/ \E l \in 1 .. (k - 1) : grp[l] = grp[k] }

\* Mutated: the loop counter does not move on with the group (no i++ per member).
FillGroupCountsOne ==
    LET grp == Group(Current)
        n == Len(grp)
    IN  /\ ~ Skipped /\ AsGroup(Current)
        /\ Current \in prob.indicated /\ Unfit(grp) = {}
        /\ unknown' = [k \in 1 .. Len(unknown) |->
                          IF k \in j .. (j + n - 1) THEN grp[k - j + 1] ELSE unknown[k]]
        /\ assumptions' = assumptions \o SameLits(grp)
        /\ added' = added \cup Range(grp)
        /\ i' = i + 1 /\ j' = j + n

\* Mutated: only the entry met is assumed equal, not its whole group.
FillGroupAssumesOne ==
    LET grp == Group(Current)
        n == Len(grp)
    IN  /\ ~ Skipped /\ AsGroup(Current)
        /\ Current \in prob.indicated /\ Unfit(grp) = {}
        /\ unknown' = [k \in 1 .. Len(unknown) |->
                          IF k \in j .. (j + n - 1) THEN grp[k - j + 1] ELSE unknown[k]]
        /\ assumptions' = Append(assumptions, Same(Current))
        /\ added' = added \cup Range(grp)
        /\ i' = i + n /\ j' = j + n

\* A group is written out whole at its first entry, and the loop counter moves on by
\* its size: the entries it passes over had better be the rest of the group.
FillGroup ==
    LET grp == Group(Current)
        n == Len(grp)
    IN  /\ ~ Skipped /\ AsGroup(Current)
        /\ Current \in prob.indicated /\ Unfit(grp) = {}
        /\ unknown' = [k \in 1 .. Len(unknown) |->
                          IF k \in j .. (j + n - 1) THEN grp[k - j + 1] ELSE unknown[k]]
        /\ assumptions' = assumptions \o SameLits(grp)
        /\ added' = added \cup Range(grp)
        /\ i' = i + n /\ j' = j + n

FillSingle ==
    /\ ~ Skipped /\ ~ AsGroup(Current)
    /\ prob.groupIndep => Mapped(Current)
    /\ Current \in prob.indicated
    /\ unknown' = [unknown EXCEPT ![j] = Current]
    /\ assumptions' = Append(assumptions, Same(Current))
    /\ i' = i + 1 /\ j' = j + 1
    /\ UNCHANGED added

FillNext ==
    /\ Filling
    /\ IF Skipped
       THEN i' = i + 1 /\ UNCHANGED <<unknown, assumptions, j, added>>
       ELSE FillGroup \/ FillSingle
    /\ UNCHANGED <<prob, setVars, unknownSet, indep, loopVars, testVars, origAssSize, pc>>

\* An independent variable, the current one or a member of its group has no
\* indicator; or a member is assumed twice or does not fit.
FillFails ==
    \/ /\ pc = "fillIndep"
       /\ ~ (Range(indep) \subseteq prob.indicated)
       /\ Fail("abort")
    \/ /\ Filling /\ ~ Skipped
       /\ \/ Current \notin prob.indicated
          \/ prob.groupIndep /\ ~ Mapped(Current)
       /\ Fail("abort")
    \/ /\ Filling /\ ~ Skipped
       /\ Current \in prob.indicated /\ AsGroup(Current)
       /\ \E k \in Unfit(Group(Current)) :
              /\ \A l \in Unfit(Group(Current)) : k <= l
              /\ Fail(IF j + k - 1 > Len(unknown) THEN "wild" ELSE "abort")

\* unknown.resize(j), and back in backward_round.
FillEnd ==
    /\ pc = "fill" /\ i > Len(unknown)
    /\ unknown' = SubSeq(unknown, 1, j - 1)
    /\ origAssSize' = Len(assumptions)
    /\ member' = 1
    /\ pc' = "solve"
    /\ UNCHANGED <<prob, setVars, unknownSet, indep, cursor, testVars, assumptions,
                   fillVars>>

-----------------------------------------------------------------------------
(* Testing and classifying *)

\* Mutated: the literals of a member stay when the next one is tried (no resize).
SolveMemberNoResize ==
    /\ pc = "solve"
    /\ LET grouped == InGroup(testVar)
           v == IF grouped THEN Group(testVar)[member] ELSE testVar
           called == Append(assumptions, Differ(v))
       IN  \E r \in Answers(called) :
               /\ ret' = r
               /\ assumptions' = called
               /\ IF grouped /\ r = "false" /\ member < Len(Group(testVar))
                  THEN member' = member + 1 /\ pc' = pc
                  ELSE member' = 1 /\ pc' = "classify"
    /\ UNCHANGED <<prob, setVars, workVars, cursor, testVar, iter, origAssSize, fillVars>>

\* Mutated: no break on "true", so the answer for the last member decides.
SolveMemberNoBreak ==
    /\ pc = "solve"
    /\ LET grouped == InGroup(testVar)
           v == IF grouped THEN Group(testVar)[member] ELSE testVar
           called == Append(assumptions, Differ(v))
       IN  \E r \in Answers(called) :
               /\ ret' = r
               /\ IF grouped
                  THEN assumptions' = SubSeq(called, 1, origAssSize)
                  ELSE assumptions' = called
               /\ IF grouped /\ member < Len(Group(testVar))
                  THEN member' = member + 1 /\ pc' = pc
                  ELSE member' = 1 /\ pc' = "classify"
    /\ UNCHANGED <<prob, setVars, workVars, cursor, testVar, iter, origAssSize, fillVars>>

\* One solver call.  The members of a group are tried one after the other, each without
\* the literals of the one before, until one is not known to be determined.
SolveMember ==
    /\ pc = "solve"
    /\ LET grouped == InGroup(testVar)
           v == IF grouped THEN Group(testVar)[member] ELSE testVar
           called == Append(assumptions, Differ(v))
       IN  \E r \in Answers(called) :
               /\ ret' = r
               /\ IF grouped /\ r = "false"
                  THEN assumptions' = SubSeq(called, 1, origAssSize)
                  ELSE assumptions' = called
               /\ IF grouped /\ r = "false" /\ member < Len(Group(testVar))
                  THEN member' = member + 1 /\ pc' = pc
                  ELSE member' = 1 /\ pc' = "classify"
    /\ UNCHANGED <<prob, setVars, workVars, cursor, testVar, iter, origAssSize, fillVars>>

\* What every classification does beside changing indep.
\* The working set is published every UpdatePeriod iterations.
EndIteration ==
    /\ iter' = (iter + 1) % UpdatePeriod
    /\ IF iter' = UpdatePeriod - 1
       THEN pc' = "publish" /\ otherSamplingSet' = <<>> /\ cursor' = 1
       ELSE pc' = "select" /\ UNCHANGED <<otherSamplingSet, cursor>>
    /\ UNCHANGED <<prob, samplingSet, unknown, unknownSet, member, testVar, ret,
                   assVars, fillVars>>

\* Mutated: a time-out counts as "not independent".
ClassifyDropsTimedOut ==
    /\ pc = "classify"
    /\ indep' = IF ret # "true" THEN indep
                ELSE IF InGroup(testVar) THEN indep \o Group(testVar)
                ELSE Append(indep, testVar)
    /\ EndIteration

\* Mutated: only the variable popped is kept, not its group.
ClassifyKeepsOne ==
    /\ pc = "classify"
    /\ indep' = IF ret = "false" THEN indep ELSE Append(indep, testVar)
    /\ EndIteration

\* Mutated: kept groups are put in front.
ClassifyPrepends ==
    /\ pc = "classify"
    /\ indep' = IF ret = "false" THEN indep
                ELSE IF InGroup(testVar) THEN Group(testVar) \o indep
                ELSE <<testVar>> \o indep
    /\ EndIteration

\* A time-out counts as "independent", and one member keeps its whole group.
\* (The assertion of line 247 looks at the flag SelectTest has just cleared.)
Classify ==
    /\ pc = "classify"
    /\ indep' = IF ret = "false" THEN indep
                ELSE IF InGroup(testVar) THEN indep \o Group(testVar)
                ELSE Append(indep, testVar)
    /\ EndIteration

-----------------------------------------------------------------------------
(* update_sampling_set: the flagged unknowns, then the independent ones *)

PublishUnknown ==
    /\ pc = "publish" /\ cursor <= Len(unknown)
    /\ otherSamplingSet' = IF unknown[cursor] \in unknownSet
                           THEN Append(otherSamplingSet, unknown[cursor])
                           ELSE otherSamplingSet
    /\ cursor' = cursor + 1
    /\ UNCHANGED <<prob, samplingSet, workVars, member, testVars, assVars, fillVars, pc>>

\* Mutated: no break out of the main loop when nothing is left to test.
PublishSwapGoesOn ==
    /\ pc = "publish" /\ cursor > Len(unknown)
    /\ samplingSet' = otherSamplingSet \o indep
    /\ otherSamplingSet' = samplingSet
    /\ pc' = "select"
    /\ UNCHANGED <<prob, workVars, loopVars, testVars, assVars, fillVars>>

PublishSwap ==
    /\ pc = "publish" /\ cursor > Len(unknown)
    /\ samplingSet' = otherSamplingSet \o indep
    /\ otherSamplingSet' = samplingSet
    /\ pc' = IF testVar = NoVar THEN "done" ELSE "select"
    /\ UNCHANGED <<prob, workVars, loopVars, testVars, assVars, fillVars>>

Ended == pc \in {"done", "abort", "wild"}

Stopped == Ended /\ UNCHANGED vars

Step ==
    \/ PushGroupMember \/ PushUngrouped \/ BuildFails \/ SortUnknown
    \/ SelectTest \/ SelectFails \/ SelectNone
    \/ FillIndep \/ FillNext \/ FillFails \/ FillEnd
    \/ SolveMember \/ Classify
    \/ PublishUnknown \/ PublishSwap

Next == Step \/ Stopped

\* A sequential program runs on; every solver call is bounded by backw_max_confl.
Spec == Init /\ [][Next]_vars /\ WF_vars(Step)

-----------------------------------------------------------------------------
Testing == pc \in {"fillIndep", "fill", "solve", "classify"}
Failed == pc \in {"abort", "wild"}

\* Types of all the round's data.
TypeOK ==
    /\ ProblemType(prob)
    /\ samplingSet \in Seq(Vars) /\ otherSamplingSet \in Seq(Vars)
    /\ unknown \in Seq(Vars) /\ indep \in Seq(Vars)
    /\ unknownSet \subseteq Vars /\ added \subseteq Vars
    /\ cursor \in Nat \ {0} /\ member \in Nat \ {0}
    /\ i \in Nat \ {0} /\ j \in Nat \ {0} /\ j <= i
    /\ testVar \in Vars \cup {NoVar}
    /\ assumptions \in Seq(Literals) /\ origAssSize \in Nat
    /\ pc \in {"solve", "classify"} => origAssSize <= Len(assumptions)
    /\ ret \in {"true", "false", "undef"}
    /\ iter \in 0 .. (UpdatePeriod - 1)
    /\ pc \in {"build", "select", "fillIndep", "fill", "solve", "classify",
               "publish", "done", "abort", "wild"}

\* On well-formed input no assertion of the round fails and no vector is accessed out
\* of its bounds (backward.cpp 41-71, 101-115, 180-183, 198; common.cpp 311).
NoFailure == WellFormed => ~ Failed

\* When the solver is called, exactly the variables decided to be independent and the
\* ones still unknown are assumed equal, nothing of the group under test is, and no
\* literal of an earlier member is left: the in-place regrouping of `unknown` in
\* fill_assumptions_backward loses, duplicates and reorders nothing.
AssumptionsAreRest ==
    GroupsFit /\ pc = "solve" =>
        /\ Assumed(assumptions, "same") = Range(indep) \cup Range(unknown)
        /\ Assumed(assumptions, "differ") = {}
        /\ UnitOf(testVar) \cap (Range(indep) \cup Range(unknown)) = {}

\* *sampling_set determines the variables of interest at all times: after the round,
\* and after each intermediate publication, wherever it falls between two tests.
PublishedSupports ==
    GroupsFit => Defines(prob.models, Range(samplingSet), Candidates)

\* The result is made of whole groups and lists no variable twice (the comments of
\* lines 172-177 and 254-257: a group moves as one).
ResultIsWhole ==
    GroupsFit /\ pc = "done" =>
        /\ Distinct(samplingSet)
        /\ \A v \in Range(samplingSet) : UnitOf(v) \subseteq Range(samplingSet)

\* Without time-outs no group of the result can be left out (README.md: "A minimal group
\* independent support (GIS) calculator").
ResultIsMinimal ==
    GroupsFit /\ ~ prob.mayTimeOut /\ pc = "done" =>
        \A v \in Range(samplingSet) :
            ~ Defines(prob.models, Range(samplingSet) \ UnitOf(v), UnitOf(v))

\* README.md: on the example "the output should contain a line that reads
\* `c ind 3 8 1 6 0`" (print_final_indep_set prints *sampling_set in order).
DocumentedResult ==
    pc = "done" /\ prob.sampling = <<1, 2, 3, 4, 5, 6, 7, 8, 9, 10>> =>
        samplingSet = <<3, 8, 1, 6>>

(***************************************************************************)
(* The inductive invariant behind the properties above.                    *)
(***************************************************************************)
\* The first n entries of s are whole groups, each in its own order, and ungrouped
\* variables: no group straddles the end, and none is interleaved with another.
WholeUpTo(s, n) ==
    \A k \in 1 .. n : InGroup(s[k]) =>
        \E o \in 0 .. (k - 1) :
            /\ k <= o + Len(Group(s[k])) /\ o + Len(Group(s[k])) <= n
            /\ \A p \in 1 .. Len(Group(s[k])) : s[o + p] = Group(s[k])[p]

Undropped == Range(indep) \cup Range(unknown)

\* The variables the round still has are of interest, each in one place, and flagged
\* iff unknown; groups are whole wherever they are.
PlacesInv ==
    /\ Undropped \subseteq Closure /\ (Testing => testVar \in Closure)
    /\ Distinct(unknown) /\ Distinct(indep) /\ Range(indep) \cap Range(unknown) = {}
    /\ Testing => UnitOf(testVar) \cap Undropped = {}
    /\ unknownSet = Range(unknown)
    /\ \A v \in Range(indep) : UnitOf(v) \subseteq Range(indep)
    /\ pc # "build" => WholeUpTo(unknown, Len(unknown))

\* While a group is being pushed, either it was all there already or its first members
\* are the last entries.
BuildInv ==
    /\ samplingSet = prob.sampling /\ indep = <<>>
    /\ cursor <= Len(samplingSet) + 1
    /\ \A k \in 1 .. (cursor - 1) : samplingSet[k] \in unknownSet
    /\ \A v \in unknownSet : ~ InGroup(v) => \E k \in 1 .. (cursor - 1) : samplingSet[k] = v
    /\ IF member = 1
       THEN WholeUpTo(unknown, Len(unknown))
       ELSE /\ cursor <= Len(samplingSet) /\ AsGroup(Candidate)
            /\ LET grp == Group(Candidate)
                   before == Len(unknown) - (member - 1)
               IN  \/ Range(grp) \subseteq unknownSet /\ WholeUpTo(unknown, Len(unknown))
                   \/ /\ before >= 0 /\ WholeUpTo(unknown, before)
                      /\ \A p \in 1 .. (member - 1) : unknown[before + p] = grp[p]
                      /\ \A p \in member .. Len(grp) : grp[p] \notin unknownSet

\* The assumptions are the indicators of indep and of the first n unknowns, in order.
Assuming(n) ==
    /\ Len(assumptions) = Len(indep) + n
    /\ \A k \in 1 .. Len(indep) : assumptions[k] = Same(indep[k])
    /\ \A k \in 1 .. n : assumptions[Len(indep) + k] = Same(unknown[k])

\* The compaction of `unknown` moves nothing: the two positions never part, and the
\* loop always stands at the first entry of a group.
FillInv ==
    /\ i = j /\ i <= Len(unknown) + 1
    /\ WholeUpTo(unknown, i - 1)
    /\ added \subseteq { unknown[k] : k \in 1 .. (i - 1) }
    /\ Assuming(i - 1)

SolveInv ==
    /\ Assuming(Len(unknown)) /\ origAssSize = Len(assumptions)
    /\ IF InGroup(testVar)
       THEN \A m \in 1 .. (member - 1) :
                ~ Separable(prob.models, Undropped, Group(testVar)[m])
       ELSE member = 1

ClassifyInv ==
    /\ ret = "false" => Defines(prob.models, Undropped, UnitOf(testVar))
    /\ ret = "true" => ~ Defines(prob.models, Undropped, UnitOf(testVar))
    /\ ret = "undef" => prob.mayTimeOut

PublishInv ==
    /\ cursor <= Len(unknown) + 1 /\ Len(otherSamplingSet) = cursor - 1
    /\ \A k \in 1 .. (cursor - 1) : otherSamplingSet[k] = unknown[k]
    /\ testVar = NoVar => unknown = <<>>

\* What is left, with the unit under test, determines the variables of interest and
\* all of their groups.
SupportInv ==
    Defines(prob.models,
            Undropped \cup (IF Testing THEN UnitOf(testVar) ELSE {}), Closure)

\* The invariant by which the properties above hold.  Every step preserves it that does
\* not fail; nothing is said of the vectors a failed round leaves behind.
RoundInv ==
    /\ PlacesInv
    /\ pc # "build" => SupportInv
    /\ pc = "build" => BuildInv
    /\ pc = "fill" => FillInv
    /\ pc = "solve" => SolveInv
    /\ pc = "classify" => ClassifyInv
    /\ pc = "publish" => PublishInv
    /\ pc = "done" => unknown = <<>> /\ samplingSet = indep
    /\ Defines(prob.models, Range(samplingSet), Candidates)

Inductive == GroupsFit /\ ~ Failed => RoundInv

(***************************************************************************)
(* The round implements GroupElimination: a unit is pending while it is in *)
(* the vector `unknown` or under test, and it is decided by Classify.  A   *)
(* round that fails does so in a test, and leaves everything undecided.    *)
(* Nothing is promised if the groups do not fit: there are no units then.  *)
(***************************************************************************)
PendingUnits ==
    { UnitOf(v) : v \in CASE pc = "build" -> Candidates
                        [] Testing \/ Failed -> Range(unknown) \cup {testVar}
                        [] OTHER -> Range(unknown) }
KeptUnits == { UnitOf(v) : v \in Range(indep) }

Abstract == INSTANCE GroupElimination WITH
                models <- prob.models, mayTimeOut <- prob.mayTimeOut,
                original <- IF GroupsFit THEN Candidates ELSE {},
                pending <- IF GroupsFit THEN PendingUnits ELSE {},
                kept <- IF GroupsFit THEN KeptUnits ELSE {}

\* Every step of the round is a step of Algorithm 1 or changes nothing in it, and every
\* unit of well-formed input is decided in the end.
ImplementsElimination ==
    Abstract!Safe /\ (WellFormed => Abstract!Progress)
=============================================================================
