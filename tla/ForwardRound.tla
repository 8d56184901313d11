---------------------------- MODULE ForwardRound ----------------------------
(***************************************************************************)
(* Common::forward_round, set_guess_forward_round and                      *)
(* fill_assumptions_forward (forward.cpp).  A window of the sampling set   *)
(* is guessed to be independent; the other variables are tested one by     *)
(* one, groups together, under the guess and the variables found           *)
(* independent so far.  What is determined by them is dropped.             *)
(*                                                                         *)
(* get_indep_set calls the round with group = conf.forward_group, offset 0 *)
(* and max_iters 5000000 (arjun.cpp 142), and ignores what it returns.     *)
(* With conf.assign_fwd_val the assumptions are added to the solver as     *)
(* unit clauses instead and the solver is replaced afterwards: the same    *)
(* formula is solved, so the model does not distinguish the two.           *)
(***************************************************************************)
EXTENDS RoundInput, SequencesExt

CONSTANTS
    ForwardGroup,  \* conf.forward_group, 10 in the code: the size of the window
    MaxIters       \* 5000000 in the code

ASSUME ForwardGroupAssumption == ForwardGroup \in Nat
ASSUME MaxItersAssumption == MaxIters \in Nat
ASSUME VarsAreIndices == Vars \subseteq Nat

VARIABLES
    samplingSet,
    unknown, unknownSet, guessSet, indep, tried, pick, testGroup,  \* the round's vectors
    seen,               \* Common::seen, shared by the phases: variables whose indicator is flagged
    testVar, iter, assumptions,
    cursor, todo,       \* positions of the loops
    pc

pickVars == <<tried, pick, testGroup, testVar, iter>>
loopVars == <<cursor, todo>>
data == <<prob, samplingSet, unknown, unknownSet, guessSet, indep, seen, assumptions,
          pickVars, loopVars>>
vars == <<data, pc>>

\* A variable with everything that is treated together with it, as it is iterated over.
Members(v) == IF AsGroup(v) THEN Group(v) ELSE <<v>>

\* The entries of s at the positions P, in order: the one vector that a loop over s fills
\* with what it does not pass over.
Entries(s, P) ==
    LET D == 1 .. Cardinality(P)
    IN  { [k \in D |-> s[p[k]]] :
            p \in { q \in [D -> P] : /\ Range(q) = P
                                    /\ \A k, l \in D : k < l => q[k] < q[l] } }

Fail(how) == pc' = how /\ UNCHANGED data

-----------------------------------------------------------------------------
\* What the round starts from, whatever its input.
Begin ==
    /\ samplingSet = prob.sampling
    /\ unknown = Reverse(prob.sampling)
    /\ unknownSet = Range(prob.sampling) /\ guessSet = {} /\ indep = <<>>
    /\ tried = {} /\ testGroup = <<>> /\ testVar = NoVar /\ iter = 0
    \* sorted by incidence: any order, as far as the round is concerned
    /\ pick \in Orders(unknown)
    /\ seen = {} /\ assumptions = <<>>
    /\ cursor = 1 /\ todo = {}
    /\ pc = "guess"

Init == prob \in Problems /\ Begin

-----------------------------------------------------------------------------
(* set_guess_forward_round and fill_assumptions_forward *)

InWindow == cursor <= ForwardGroup /\ cursor <= Len(unknown)
Current == unknown[cursor]

\* Mutated: only the entry met is guessed, not its whole group.
GuessNextTakesOne ==
    /\ pc = "guess" /\ InWindow
    /\ IF Current \in unknownSet /\ Current \notin seen
       THEN seen' = seen \cup {Current} /\ guessSet' = guessSet \cup {Current}
       ELSE UNCHANGED <<seen, guessSet>>
    /\ unknownSet' = unknownSet \ {Current}
    /\ cursor' = cursor + 1
    /\ UNCHANGED <<prob, samplingSet, unknown, indep, assumptions, pickVars, todo, pc>>

\* A window entry is guessed with its whole group, wherever the rest of the group is;
\* only the entries of the window themselves stop being unknown.
GuessNext ==
    /\ pc = "guess" /\ InWindow
    /\ LET grouped == Range(Members(Current))
       IN  IF Current \in unknownSet /\ Current \notin seen
           THEN /\ prob.groupIndep => Mapped(Current)
                /\ {Current} \cup grouped \subseteq prob.indicated
                /\ seen' = seen \cup grouped
                /\ guessSet' = guessSet \cup grouped
           ELSE UNCHANGED <<seen, guessSet>>
    /\ unknownSet' = unknownSet \ {Current}
    /\ cursor' = cursor + 1
    /\ UNCHANGED <<prob, samplingSet, unknown, indep, assumptions, pickVars, todo, pc>>

\* Flags are written at the indicator of the variable without a check that it has one.
GuessFails ==
    /\ pc = "guess" /\ InWindow
    /\ Current \in unknownSet /\ Current \notin seen
    /\ \/ /\ Current \in prob.indicated /\ prob.groupIndep /\ ~ Mapped(Current)
          /\ Fail("abort")
       \/ /\ Current \notin prob.indicated
          /\ Fail("wild")
       \/ /\ prob.groupIndep => Mapped(Current)
          /\ ~ (Range(Members(Current)) \subseteq prob.indicated)
          /\ Fail("wild")

GuessEnd ==
    /\ pc = "guess" /\ ~ InWindow
    /\ seen' = {}
    /\ cursor' = 1
    /\ pc' = "assume"
    /\ UNCHANGED <<prob, samplingSet, unknown, unknownSet, guessSet, indep, assumptions,
                   pickVars, todo>>

AssumeNext ==
    /\ pc = "assume" /\ InWindow
    /\ IF Current \in guessSet /\ Current \notin seen
       THEN /\ seen' = seen \cup Range(Members(Current))
            /\ assumptions' = assumptions \o SameLits(Members(Current))
       ELSE UNCHANGED <<seen, assumptions>>
    /\ cursor' = cursor + 1
    /\ UNCHANGED <<prob, samplingSet, unknown, unknownSet, guessSet, indep, pickVars,
                   todo, pc>>

\* Mutated: the flags set while filling the assumptions are not cleared.
AssumeEndKeepsFlags ==
    /\ pc = "assume" /\ ~ InWindow
    /\ pc' = "pick"
    /\ UNCHANGED <<prob, samplingSet, unknown, unknownSet, guessSet, indep, seen,
                   assumptions, pickVars, loopVars>>

\* The flags are cleared for the entries of `unknown`, not for what was flagged.  Each
\* entry has an indicator to be cleared: the sampling set is part of the one that
\* add_fixed_clauses made indicators for.
AssumeEnd ==
    /\ pc = "assume" /\ ~ InWindow
    /\ seen' = seen \ Range(unknown)
    /\ pc' = "pick"
    /\ UNCHANGED <<prob, samplingSet, unknown, unknownSet, guessSet, indep, assumptions,
                   pickVars, loopVars>>

-----------------------------------------------------------------------------
(* The main loop *)

Open(v) == v \notin tried /\ v \in unknownSet /\ v \notin guessSet
OpenPicks == { k \in DOMAIN pick : Open(pick[k]) }

\* Marking the group of the variable that is tested.
\* (The assertions are those of lines 323-337.)
Mark(v) ==
    /\ prob.groupIndep => Mapped(v)
    /\ ~ AsGroup(v) => v \in unknownSet
    /\ Range(Members(v)) \cap guessSet = {}
    /\ testVar' = v
    /\ unknownSet' = unknownSet \ Range(Members(v))
    /\ tried' = tried \cup Range(Members(v))

MarkFails(v) ==
    /\ \/ prob.groupIndep /\ ~ Mapped(v)
       \/ ~ AsGroup(v) /\ v \notin unknownSet
       \/ Range(Members(v)) \cap guessSet # {}
    /\ Fail("abort")

\* Mutated: the last iteration is not made.
OutOfItersEarly == iter + 1 >= MaxIters

OutOfIters == iter >= MaxIters
Picking == pc = "pick" /\ ~ OutOfIters

\* The rest of the group under test comes first.
PickMember ==
    /\ Picking /\ testGroup # <<>>
    /\ Mark(Last(testGroup))
    /\ testGroup' = Front(testGroup)
    /\ pc' = "solve"
    /\ UNCHANGED <<prob, samplingSet, unknown, guessSet, indep, seen, assumptions, pick,
                   iter, loopVars>>

\* Mutated: the rest of the group is not queued, though it is marked.
PickNewTestsOne ==
    /\ Picking /\ testGroup = <<>>
    /\ \E k \in OpenPicks :
           /\ \A l \in OpenPicks : l <= k
           /\ Mark(pick[k])
           /\ pick' = SubSeq(pick, 1, k)
           /\ testGroup' = <<>>
    /\ pc' = "solve"
    /\ UNCHANGED <<prob, samplingSet, unknown, guessSet, indep, seen, assumptions, iter,
                   loopVars>>

\* The rest of a group whose first member is picked.
Others(v) ==
    IF AsGroup(v) THEN Entries(Group(v), { k \in DOMAIN Group(v) : Group(v)[k] # v })
    ELSE {<<>>}

\* What is not open any more is popped on the way.
PickNew ==
    /\ Picking /\ testGroup = <<>>
    /\ \E k \in OpenPicks :
           /\ \A l \in OpenPicks : l <= k
           /\ Mark(pick[k])
           /\ pick' = SubSeq(pick, 1, k)
           /\ testGroup' \in Others(pick[k])
    /\ pc' = "solve"
    /\ UNCHANGED <<prob, samplingSet, unknown, guessSet, indep, seen, assumptions, iter,
                   loopVars>>

PickFails ==
    /\ Picking
    /\ \/ testGroup # <<>> /\ MarkFails(Last(testGroup))
       \/ /\ testGroup = <<>>
          /\ \E k \in OpenPicks : (\A l \in OpenPicks : l <= k) /\ MarkFails(pick[k])

PickNone ==
    /\ pc = "pick"
    /\ OutOfIters \/ (testGroup = <<>> /\ OpenPicks = {})
    /\ unknown' = <<>> /\ todo' = guessSet
    /\ pc' = "collectGuess"
    /\ UNCHANGED <<prob, samplingSet, unknownSet, guessSet, indep, seen, assumptions,
                   pickVars, cursor>>

\* Mutated: a time-out counts as "not independent".
SolveDropsTimedOut ==
    /\ pc = "solve"
    /\ \E r \in Answers(Append(assumptions, Differ(testVar))) :
           IF r # "true"
           THEN UNCHANGED <<indep, assumptions, testGroup>>
           ELSE /\ indep' = indep \o Members(testVar)
                /\ assumptions' = assumptions \o SameLits(Members(testVar))
                /\ testGroup' = <<>>
    /\ iter' = iter + 1
    /\ pc' = "pick"
    /\ UNCHANGED <<prob, samplingSet, unknown, unknownSet, guessSet, seen, tried, pick,
                   testVar, loopVars>>

\* Mutated: only the tested member of a kept group is assumed from then on.
SolveAssumesOne ==
    /\ pc = "solve"
    /\ \E r \in Answers(Append(assumptions, Differ(testVar))) :
           IF r = "false"
           THEN UNCHANGED <<indep, assumptions, testGroup>>
           ELSE /\ indep' = indep \o Members(testVar)
                /\ assumptions' = Append(assumptions, Same(testVar))
                /\ testGroup' = <<>>
    /\ iter' = iter + 1
    /\ pc' = "pick"
    /\ UNCHANGED <<prob, samplingSet, unknown, unknownSet, guessSet, seen, tried, pick,
                   testVar, loopVars>>

\* One solver call.  Until one member of a group turns out independent (or the call
\* times out) the other members are tried; then the whole group is kept, and is part of
\* the assumptions from here on.
Solve ==
    /\ pc = "solve"
    /\ \E r \in Answers(Append(assumptions, Differ(testVar))) :
           IF r = "false"
           THEN UNCHANGED <<indep, assumptions, testGroup>>
           ELSE /\ testVar \notin seen
                /\ Range(Members(testVar)) \subseteq prob.indicated
                /\ indep' = indep \o Members(testVar)
                /\ assumptions' = assumptions \o SameLits(Members(testVar))
                /\ testGroup' = <<>>
    /\ iter' = iter + 1
    /\ pc' = "pick"
    /\ UNCHANGED <<prob, samplingSet, unknown, unknownSet, guessSet, seen, tried, pick,
                   testVar, loopVars>>

\* Lines 396-398 assert that testVar has an indicator and that it is not flagged; the
\* indicators of the rest of its group are used unchecked.
SolveFails ==
    /\ pc = "solve"
    /\ \E r \in Answers(Append(assumptions, Differ(testVar))) : r # "false"
    /\ \/ (testVar \in seen \/ testVar \notin prob.indicated) /\ Fail("abort")
       \/ /\ testVar \notin seen /\ testVar \in prob.indicated
          /\ ~ (Range(Members(testVar)) \subseteq prob.indicated)
          /\ Fail("wild")

-----------------------------------------------------------------------------
(* The result *)

\* What a loop over s adds that flags what it adds: each unflagged entry, once.
Unflagged(s) ==
    Entries(s, { k \in DOMAIN s : s[k] \notin unknownSet /\ \A l \in 1 .. k - 1 : s[l] # s[k] })

Collect(new) ==
    /\ unknown' = unknown \o new
    /\ unknownSet' = unknownSet \cup Range(new)

\* The guessed variables in the order of their numbers.  A member of a guessed group is
\* collected unless it is flagged: flagged are the members that have been collected, and
\* those outside the window, whose flag was never cleared.
CollectGuess ==
    /\ pc = "collectGuess"
    /\ \E v \in todo :
           /\ \A w \in todo : v <= w
           /\ \E new \in IF AsGroup(v) THEN Unflagged(Group(v)) ELSE {<<v>>} : Collect(new)
           /\ todo' = todo \ {v}
    /\ UNCHANGED <<prob, samplingSet, guessSet, indep, seen, assumptions, pickVars,
                   cursor, pc>>

\* Mutated: the loop over the kept variables starts one too early.
CollectGuessEndFromZero ==
    /\ pc = "collectGuess" /\ todo = {}
    /\ cursor' = 0
    /\ pc' = "collectIndep"
    /\ UNCHANGED <<prob, samplingSet, unknown, unknownSet, guessSet, indep, seen,
                   assumptions, pickVars, todo>>

CollectGuessEnd ==
    /\ pc = "collectGuess" /\ todo = {}
    /\ cursor' = 1
    /\ pc' = "collectIndep"
    /\ UNCHANGED <<prob, samplingSet, unknown, unknownSet, guessSet, indep, seen,
                   assumptions, pickVars, todo>>

CollectIndep ==
    /\ pc = "collectIndep" /\ cursor <= Len(indep)
    /\ \E new \in IF indep[cursor] \in unknownSet THEN {<<>>}
                   ELSE Unflagged(Members(indep[cursor])) : Collect(new)
    /\ cursor' = cursor + 1
    /\ UNCHANGED <<prob, samplingSet, guessSet, indep, seen, assumptions, pickVars, todo,
                   pc>>

\* indep.clear() and update_sampling_set
Publish ==
    /\ pc = "collectIndep" /\ cursor > Len(indep)
    /\ indep' = <<>>
    /\ samplingSet' \in Entries(unknown, { k \in DOMAIN unknown : unknown[k] \in unknownSet })
    /\ pc' = "done"
    /\ UNCHANGED <<prob, unknown, unknownSet, guessSet, seen, assumptions, pickVars,
                   loopVars>>

Ended == pc \in {"done", "abort", "wild"}
Stopped == Ended /\ UNCHANGED vars

Step ==
    \/ GuessNext \/ GuessFails \/ GuessEnd \/ AssumeNext \/ AssumeEnd
    \/ PickMember \/ PickNew \/ PickFails \/ PickNone
    \/ Solve \/ SolveFails
    \/ CollectGuess \/ CollectGuessEnd \/ CollectIndep \/ Publish

Next == Step \/ Stopped

\* A sequential program runs on; every solver call is bounded by backw_max_confl.
Spec == Init /\ [][Next]_vars /\ WF_vars(Step)

-----------------------------------------------------------------------------
(* Properties *)

\* The window of the sampling set's last ForwardGroup entries cuts no group in two.
InitialWindow ==
    LET s == Reverse(prob.sampling)
    IN  { s[k] : k \in { l \in DOMAIN s : l <= ForwardGroup } }
NoStraddle ==
    \A v \in InitialWindow : UnitOf(v) \cap Candidates \subseteq InitialWindow

\* What the main loop has not tested when its iterations are used up is lost.  They are
\* enough when there are as many as variables that are not guessed.
EnoughIters == Cardinality(Closure \ guessSet) <= MaxIters

Looping == pc \in {"pick", "solve"}
UnderTest == IF pc = "solve" \/ testGroup # <<>> THEN Range(Members(testVar)) ELSE {}

TypeOK ==
    /\ ProblemType(prob)
    /\ samplingSet \in Seq(Vars) /\ unknown \in Seq(Vars) /\ indep \in Seq(Vars)
    /\ pick \in Seq(Vars) /\ testGroup \in Seq(Vars)
    /\ unknownSet \subseteq Vars /\ guessSet \subseteq Vars /\ tried \subseteq Vars
    /\ seen \subseteq Vars /\ todo \subseteq Vars
    /\ testVar \in Vars \cup {NoVar} /\ iter \in Nat /\ cursor \in Nat \ {0}
    /\ assumptions \in Seq(Literals)
    /\ pc \in {"guess", "assume", "pick", "solve", "collectGuess", "collectIndep",
               "done", "abort", "wild"}

\* On well-formed input the round fails nowhere: neither the unchecked uses of
\* indicators nor the assertions on the flags (lines 284-337, 396-398).
NoFailure == WellFormed => pc \notin {"abort", "wild"}

\* In the loop the solver is asked under the guess and the groups kept so far, whole,
\* and a tested variable is none of them.
AssumesGuessAndKept ==
    GroupsFit /\ Looping =>
        /\ Assumed(assumptions, "same") = guessSet \cup Range(indep)
        /\ pc = "solve" => testVar \notin guessSet \cup Range(indep)

\* Whatever has been tested and is neither kept nor under test is determined by what
\* will stay, and remains so while more is kept.
DroppedDetermined ==
    GroupsFit /\ Looping =>
        Defines(prob.models, guessSet \cup Range(indep),
                tried \ (UnderTest \cup Range(indep)))

\* The groups of the published variables determine the variables of interest: this is
\* why a backward round may follow, which puts back what is missing of a group.
GroupsSupport ==
    GroupsFit /\ EnoughIters /\ pc = "done" =>
        Defines(prob.models, UNION { UnitOf(v) : v \in Range(samplingSet) }, Candidates)

\* The round alone leaves an independent support when no group lies across the edge of
\* the window.
AlignedSupport ==
    GroupsFit /\ NoStraddle /\ EnoughIters /\ pc = "done" =>
        /\ Defines(prob.models, Range(samplingSet), Candidates)
        /\ \A v \in Range(samplingSet) : UnitOf(v) \subseteq Range(samplingSet)
        /\ Distinct(samplingSet)

\* README.md: "A minimal group independent support (GIS) calculator"; minimal or not,
\* what a round leaves should be an independent support.
ForwardSupport ==
    GroupsFit /\ EnoughIters /\ pc = "done" =>
        Defines(prob.models, Range(samplingSet), Candidates)

\* Each phase asserts that `seen` is clean when it starts (guess.cpp 77, forward.cpp 158,
\* backward.cpp 92), so each has to leave it so.  This one does when all groups are in
\* the sampling set.
LeavesSeenClean ==
    GroupsFit /\ Closure = Candidates /\ pc = "done" => seen = {}
=============================================================================
