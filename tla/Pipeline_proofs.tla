--------------------------- MODULE Pipeline_proofs ---------------------------
(***************************************************************************)
(* For every formula, sampling set, grouping and setting, and for whatever *)
(* the solver reports: the preprocessing leaves a support, and so does     *)
(* every phase of get_indep_set after it, as long as the groups are in     *)
(* order.  The rounds' own proofs are used through their step lemmas.      *)
(***************************************************************************)
EXTENDS Pipeline, Independence_proofs, FiniteSetTheorems, TLAPS

GP == INSTANCE GuessRound_proofs WITH pc <- gpc
FP == INSTANCE ForwardRound_proofs WITH pc <- fpc
BP == INSTANCE BackwardRound_proofs WITH pc <- bpc

M == prob.models

-----------------------------------------------------------------------------
(* The rounds' lemmas, in this module's names *)

\* Both sides mean the same by the input of a round.
LEMMA SameTypes ==
    \A p : /\ GP!ProblemType(p) <=> ProblemType(p)
           /\ FP!ProblemType(p) <=> ProblemType(p)
           /\ BP!ProblemType(p) <=> ProblemType(p)
BY DEF ProblemType, GP!ProblemType, FP!ProblemType, BP!ProblemType

\* The assumptions of the rounds' modules hold here.
LEMMA RoundAssumptions ==
    /\ NoVar \notin Vars /\ Vars \subseteq Nat
    /\ \A p \in Problems : GP!ProblemType(p)
    /\ \A p \in Problems : FP!ProblemType(p)
    /\ \A p \in Problems : BP!ProblemType(p)
    /\ GuessDiv \in Nat \ {0} /\ MinGuess \in Nat \ {0}
    /\ ForwardGroup \in Nat /\ MaxIters \in Nat /\ UpdatePeriod \in Nat \ {0}
BY SameTypes, NoVarAssumption, VarsAreIndices, ProblemsAssumption, RoundConstants

\* A step of the phase is a step of the round its proofs are about.
LEMMA GuessSteps == G!Step => GP!Step
<1> USE DEF G!setVars, GP!setVars, G!roundVars, GP!roundVars, G!workVars, GP!workVars
<1>1. G!SkipRound => GP!SkipRound
  BY DEF G!SkipRound, GP!SkipRound
<1>2. G!StartRound => GP!StartRound
  BY DEF G!StartRound, GP!StartRound, G!Orders, GP!Orders, G!Range, GP!Range, G!Bijection,
         GP!Bijection, G!Injection, GP!Injection, G!Surjection, GP!Surjection,
         G!IsInjective, GP!IsInjective
<1>3. G!RunEnds => GP!RunEnds
  BY DEF G!RunEnds, GP!RunEnds, G!data, GP!data
<1>4. G!Fill => GP!Fill
  BY DEF G!Fill, GP!Fill, G!Window, GP!Window
<1>5. G!RemoveImplied => GP!RemoveImplied
  BY DEF G!RemoveImplied, GP!RemoveImplied, G!Implied, GP!Implied, G!NextWindow, GP!NextWindow,
         G!Defines, GP!Defines, G!Agree, GP!Agree
<1>6. G!PublishUnknown => GP!PublishUnknown
  BY DEF G!PublishUnknown, GP!PublishUnknown
<1>7. G!PublishSwap => GP!PublishSwap
  BY DEF G!PublishSwap, GP!PublishSwap
<1> QED
  BY <1>1, <1>2, <1>3, <1>4, <1>5, <1>6, <1>7
  DEF G!Step, GP!Step

\* Likewise for the forward round.
LEMMA ForwardSteps == F!Step => FP!Step
<1>c. \A P : F!Cardinality(P) = FP!Cardinality(P)
  BY DEF F!Cardinality, FP!Cardinality
<1>e. \A s, P : F!Entries(s, P) = FP!Entries(s, P)
  BY <1>c DEF F!Entries, FP!Entries, F!Range, FP!Range
<1> USE DEF F!InWindow, FP!InWindow, F!Range, FP!Range, F!Members, FP!Members, F!Current, FP!Current,
            F!Mapped, FP!Mapped, F!pickVars, FP!pickVars, F!AsGroup, FP!AsGroup, F!Group,
            FP!Group, F!InGroup, FP!InGroup, F!Fail, FP!Fail, F!data, FP!data, F!loopVars,
            FP!loopVars, F!SameLits, FP!SameLits, F!Same, FP!Same, F!Picking, FP!Picking,
            F!OutOfIters, FP!OutOfIters,
            F!Mark, FP!Mark, F!Last, FP!Last, F!OpenPicks, FP!OpenPicks, F!Open, FP!Open,
            F!Answers, FP!Answers, F!Differ, FP!Differ, F!Satisfiable, FP!Satisfiable,
            F!Agree, FP!Agree, F!Assumed, FP!Assumed, F!Unflagged, FP!Unflagged, F!Collect,
            FP!Collect
<1>1. F!GuessNext => FP!GuessNext
  BY DEF F!GuessNext, FP!GuessNext
<1>2. F!GuessFails => FP!GuessFails
  BY DEF F!GuessFails, FP!GuessFails
<1>3. F!GuessEnd => FP!GuessEnd
  BY DEF F!GuessEnd, FP!GuessEnd
<1>4. F!AssumeNext => FP!AssumeNext
  BY DEF F!AssumeNext, FP!AssumeNext
<1>5. F!AssumeEnd => FP!AssumeEnd
  BY DEF F!AssumeEnd, FP!AssumeEnd
<1>6. F!PickMember => FP!PickMember
  BY DEF F!PickMember, FP!PickMember, F!Front, FP!Front
<1>7. F!PickNew => FP!PickNew
  BY <1>e DEF F!PickNew, FP!PickNew, F!Others, FP!Others
<1>8. F!PickFails => FP!PickFails
  BY DEF F!PickFails, FP!PickFails, F!MarkFails, FP!MarkFails
<1>9. F!PickNone => FP!PickNone
  BY DEF F!PickNone, FP!PickNone
<1>10. F!Solve => FP!Solve
  BY DEF F!Solve, FP!Solve
<1>11. F!SolveFails => FP!SolveFails
  BY DEF F!SolveFails, FP!SolveFails
<1>12. F!CollectGuess => FP!CollectGuess
  BY <1>e DEF F!CollectGuess, FP!CollectGuess
<1>13. F!CollectGuessEnd => FP!CollectGuessEnd
  BY DEF F!CollectGuessEnd, FP!CollectGuessEnd
<1>14. F!CollectIndep => FP!CollectIndep
  BY <1>e DEF F!CollectIndep, FP!CollectIndep
<1>15. F!Publish => FP!Publish
  BY <1>e DEF F!Publish, FP!Publish
<1> QED
  BY <1>1, <1>2, <1>3, <1>4, <1>5, <1>6, <1>7, <1>8, <1>9, <1>10, <1>11, <1>12, <1>13,
     <1>14, <1>15
  DEF F!Step, FP!Step

\* Likewise for the backward round.
LEMMA BackwardSteps == B!Step => BP!Step
<1> USE DEF B!Building, BP!Building, B!AsGroup, BP!AsGroup, B!Candidate, BP!Candidate, B!Group,
            BP!Group, B!setVars, BP!setVars, B!testVars, BP!testVars, B!assVars, BP!assVars,
            B!fillVars, BP!fillVars, B!InGroup, BP!InGroup, B!Mapped, BP!Mapped, B!Fail,
            BP!Fail, B!data, BP!data, B!workVars, BP!workVars, B!loopVars, BP!loopVars,
            B!Range, BP!Range, B!Selecting, BP!Selecting, B!LastVar, BP!LastVar,
            B!TakenAreGroup, BP!TakenAreGroup, B!Fits, BP!Fits, B!PopsUnmapped,
            BP!PopsUnmapped, B!Taken, BP!Taken, B!FirstTaken,
            BP!FirstTaken, B!SameLits, BP!SameLits, B!Same, BP!Same, B!Filling, BP!Filling,
            B!Skipped, BP!Skipped, B!Current, BP!Current, B!Unfit, BP!Unfit
<1>1. B!PushGroupMember => BP!PushGroupMember
  BY DEF B!PushGroupMember, BP!PushGroupMember
<1>2. B!PushUngrouped => BP!PushUngrouped
  BY DEF B!PushUngrouped, BP!PushUngrouped
<1>3. B!BuildFails => BP!BuildFails
  BY DEF B!BuildFails, BP!BuildFails
<1>4. B!SortUnknown => BP!SortUnknown
  BY DEF B!SortUnknown, BP!SortUnknown, B!Distinct, BP!Distinct
<1>5. B!SelectTest => BP!SelectTest
  BY DEF B!SelectTest, BP!SelectTest
<1>6. B!SelectFails => BP!SelectFails
  BY DEF B!SelectFails, BP!SelectFails
<1>7. B!SelectNone => BP!SelectNone
  BY DEF B!SelectNone, BP!SelectNone
<1>8. B!FillIndep => BP!FillIndep
  BY DEF B!FillIndep, BP!FillIndep
<1>9. B!FillNext => BP!FillNext
  BY DEF B!FillNext, BP!FillNext, B!FillGroup, BP!FillGroup, B!FillSingle, BP!FillSingle
<1>10. B!FillFails => BP!FillFails
  BY DEF B!FillFails, BP!FillFails
<1>11. B!FillEnd => BP!FillEnd
  BY DEF B!FillEnd, BP!FillEnd
<1>12. B!SolveMember => BP!SolveMember
  BY DEF B!SolveMember, BP!SolveMember, B!Differ, BP!Differ, B!Answers, BP!Answers, B!Satisfiable,
         BP!Satisfiable, B!Agree, BP!Agree, B!Assumed, BP!Assumed
<1>13. B!Classify => BP!Classify
  BY DEF B!Classify, BP!Classify, B!EndIteration, BP!EndIteration
<1>14. B!PublishUnknown => BP!PublishUnknown
  BY DEF B!PublishUnknown, BP!PublishUnknown
<1>15. B!PublishSwap => BP!PublishSwap
  BY DEF B!PublishSwap, BP!PublishSwap
<1> QED
  BY <1>1, <1>2, <1>3, <1>4, <1>5, <1>6, <1>7, <1>8, <1>9, <1>10, <1>11, <1>12, <1>13,
     <1>14, <1>15
  DEF B!Step, BP!Step

\* A reordering of a sequence is a sequence of the same elements.
LEMMA OrdersKeep ==
    ASSUME NEW s \in Seq(Vars), NEW t \in Orders(s)
    PROVE  /\ t \in Seq(Vars) /\ Range(t) = Range(s)
           /\ Distinct(s) => Distinct(t)
<1>1. Bijection(DOMAIN s, DOMAIN s) = GP!Bijection(DOMAIN s, DOMAIN s)
  BY DEF Bijection, Injection, Surjection, IsInjective, GP!Bijection, GP!Injection,
         GP!Surjection, GP!IsInjective
<1>2. t \in GP!Orders(s)  BY <1>1 DEF Orders, GP!Orders
<1>3. /\ t \in Seq(Vars) /\ GP!Range(t) = GP!Range(s)
      /\ GP!Distinct(s) => GP!Distinct(t)
  BY <1>2, RoundAssumptions, GP!OrdersKeep
<1> QED  BY <1>3 DEF Range, GP!Range, Distinct, GP!Distinct

-----------------------------------------------------------------------------
(* The preprocessing *)

PreTypes ==
    /\ ProblemType(prob)
    /\ samplingSet \in Seq(Vars)
    /\ eqLits \in Seq(EqualPairs)
    /\ known \subseteq SetVars
    /\ indicated \subseteq Vars
    /\ conf.simp \in BOOLEAN /\ okay \in BOOLEAN

RemovingEq == pc \in {"eqLoop", "probeEqLoop"}

\* What is flagged while pairs are looked at is a support already; the set it replaces
\* is one until then.
PreInv ==
    /\ Range(samplingSet) \subseteq Candidates
    /\ Defines(M, Range(samplingSet), Candidates)
    /\ RemovingEq => seen \subseteq Range(samplingSet) /\ Defines(M, seen, Candidates)
    /\ ~ RemovingEq => seen = {}
    /\ Distinct(prob.sampling) => Distinct(samplingSet) /\ pc # "abort"
    /\ ~ okay => Unsat
    /\ pc = "unsat" => ~ okay
    /\ pc = "done" => indicated = Range(samplingSet)
    /\ ~ conf.simp => samplingSet = prob.sampling /\ pc \in {"start", "double", "done"}

LEMMA RangeFacts ==
    ASSUME NEW s \in Seq(Vars)
    PROVE  Range(s) \subseteq Vars /\ IsFiniteSet(Range(s))
<1>1. Len(s) \in Nat /\ DOMAIN s = 1 .. Len(s) /\ s \in [1 .. Len(s) -> Range(s)]
  BY DEF Range
<1>2. s \in Surjection(1 .. Len(s), Range(s))  BY <1>1 DEF Surjection, Range
<1>3. IsFiniteSet(1 .. Len(s))  BY <1>1, FS_Interval
<1>4. IsFiniteSet(Range(s))  BY <1>2, <1>3, FS_Surjection
<1> QED  BY <1>4 DEF Range

\* What is flagged, in the order of the variables' numbers, is listed once.
LEMMA AscendingFacts ==
    ASSUME NEW flags \in SUBSET Vars, IsFiniteSet(flags), NEW s \in Ascending(flags)
    PROVE  s \in Seq(Vars) /\ Range(s) = flags /\ Distinct(s)
<1> DEFINE n == Cardinality(flags)
<1>1. n \in Nat  BY FS_CardinalityType
<1>2. /\ s \in [1 .. n -> flags] /\ Range(s) = flags
      /\ \A k, l \in DOMAIN s : k < l => s[k] < s[l]
  BY DEF Ascending
<1> HIDE DEF n
<1>3. s \in [1 .. n -> Vars]  BY <1>2
<1>4. s \in Seq(Vars)  BY <1>1, <1>3
<1>5. Distinct(s)
  <2> SUFFICES ASSUME NEW k \in 1 .. n, NEW l \in 1 .. n, s[k] = s[l] PROVE k = l
    BY <1>2 DEF Distinct
  <2>1. s[k] \in Nat  BY <1>3, VarsAreIndices
  <2>2. ~ (k < l) /\ ~ (l < k)  BY <1>2, <2>1
  <2> QED  BY <1>1, <2>2
<1> QED  BY <1>2, <1>4, <1>5

\* A variable that has an equal, or opposite, among the others can be left out.
LEMMA UnflagKeeps ==
    ASSUME NEW flags, NEW T, NEW p \in EqualPairs, Defines(M, flags, T)
    PROVE  Unflag(flags, p) \subseteq flags /\ Defines(M, Unflag(flags, p), T)
<1>1. CASE ~ (p[1] \in flags /\ p[2] \in flags)  BY <1>1 DEF Unflag
<1>2. CASE p[1] \in flags /\ p[2] \in flags
  <2> DEFINE C == flags \ {p[1]}
  <2>1. Unflag(flags, p) = C /\ C \cup {p[1]} = flags  BY <1>2 DEF Unflag
  <2>2. p[2] \in C  BY <1>2 DEF EqualPairs
  <2>3. Defines(M, C, {p[1]})
    <3> SUFFICES ASSUME NEW a \in M, NEW b \in M, Agree(a, b, C)
                 PROVE  p[1] \in a <=> p[1] \in b
      BY DEF Defines, Agree
    <3>1. p[2] \in a <=> p[2] \in b  BY <2>2 DEF Agree
    <3>2. \/ (p[1] \in a <=> p[2] \in a) /\ (p[1] \in b <=> p[2] \in b)
          \/ (p[1] \in a <=> p[2] \notin a) /\ (p[1] \in b <=> p[2] \notin b)
      BY DEF EqualPairs, M
    <3> QED  BY <3>1, <3>2
  <2>4. Defines(M, C \cup {p[1]}, T)  BY <2>1
  <2>5. Defines(M, C, T)  BY <2>3, <2>4, DropDetermined
  <2> QED  BY <2>1, <2>5
<1> QED  BY <1>1, <1>2

\* Variables with one value in all models can be left out.
LEMMA RemoveSetKeeps ==
    ASSUME NEW flags, NEW T, NEW K, K \subseteq SetVars, Defines(M, flags, T)
    PROVE  Defines(M, flags \ K, T)
<1>1. Defines(M, flags \ K, K)
  <2> SUFFICES ASSUME NEW a \in M, NEW b \in M, NEW v \in K PROVE v \in a <=> v \in b
    BY DEF Defines, Agree
  <2>1. Defines(M, {}, {v})  BY DEF SetVars, M
  <2> QED  BY <2>1 DEF Defines, Agree
<1>2. Defines(M, (flags \ K) \cup K, T)
  <2>1. flags \subseteq (flags \ K) \cup K  OBVIOUS
  <2> QED  BY <2>1, DefinesMono
<1> QED  BY <1>1, <1>2, DropDetermined

LEMMA PreInitTypes == PreInit => PreTypes /\ PreInv
<1> SUFFICES ASSUME PreInit PROVE PreTypes /\ PreInv  OBVIOUS
<1>1. ProblemType(prob) /\ conf.simp \in BOOLEAN
  BY ProblemsAssumption, ConfsAssumption DEF PreInit
<1>2. PreTypes
  <2>1. <<>> \in Seq(EqualPairs)  OBVIOUS
  <2>2. samplingSet \in Seq(Vars)  BY <1>1 DEF PreInit, ProblemType
  <2> QED  BY <1>1, <2>1, <2>2 DEF PreInit, PreTypes
<1>3. PreInv
  BY <1>1, DefinesRefl DEF PreInit, PreInv, RemovingEq, Candidates
<1> QED  BY <1>2, <1>3

\* The formula and what follows from it stay what they are.
LEMMA PreFixed ==
    ASSUME prob' = prob
    PROVE  /\ (ProblemType(prob)' <=> ProblemType(prob)) /\ M' = M /\ Candidates' = Candidates
           /\ SetVars' = SetVars /\ EqualPairs' = EqualPairs /\ (Unsat' <=> Unsat)
BY DEF ProblemType, M, Candidates, SetVars, EqualPairs, Unsat, Defines, Agree

\* A step that leaves the sampling set and the flags alone, and goes on to a place where
\* no pairs are looked at.
LEMMA PreKeeps ==
    ASSUME PreTypes, PreInv, UNCHANGED <<prob, conf, samplingSet, indicated, eqLits>>,
           ~ RemovingEq, ~ RemovingEq', seen' = {}, known' \subseteq SetVars,
           okay' \in BOOLEAN, ~ okay' => Unsat, pc' = "unsat" => ~ okay',
           pc' \notin {"abort", "done"}, ~ conf.simp => pc' \in {"start", "double"}
    PROVE  PreTypes' /\ PreInv'
<1>1. PreTypes'  BY PreFixed DEF PreTypes
<1>2. PreInv'  BY PreFixed DEF PreInv
<1> QED  BY <1>1, <1>2

\* A call of the solver finds out only what is true.
LEMMA SolverFacts ==
    ASSUME PreTypes, PreInv, NEW next, next # "unsat", SolverWorks(next)
    PROVE  /\ known' \subseteq SetVars /\ okay' \in BOOLEAN /\ (~ okay' => Unsat)
           /\ pc' \in {next, "unsat"} /\ (pc' = "unsat" => ~ okay')
BY DEF SolverWorks, PreTypes, PreInv

\* The flags are clean when the set is checked, so only a duplicate can fail the check.
LEMMA CheckKeeps ==
    ASSUME PreTypes, PreInv, NEW at, NEW next,
           <<at, next>> \in {<<"check", "presimplify">>, <<"checkAgain", "double">>},
           Check(at, next)
    PROVE  PreTypes' /\ PreInv'
<1>1. pc = at /\ pc \in {"check", "checkAgain"} /\ next \in {"presimplify", "double"}
  BY DEF Check
<1>2. seen = {} /\ conf.simp  BY <1>1 DEF PreInv, RemovingEq, PreTypes
<1>3. /\ pc' = (IF Distinct(samplingSet) THEN next ELSE "abort") /\ seen' = {}
      /\ UNCHANGED <<prob, conf, samplingSet, okay, known, indicated, eqLits>>
  BY <1>2 DEF Check
<1>4. PreTypes'  BY <1>3, PreFixed DEF PreTypes
<1>5. PreInv'
  <2>1. Distinct(samplingSet)' <=> Distinct(samplingSet)  BY <1>3
  <2> QED  BY <1>1, <1>2, <1>3, <2>1, PreFixed DEF PreInv, RemovingEq
<1> QED  BY <1>4, <1>5

\* A smaller set takes the place of the set, in the order of the variables' numbers.
LEMMA NarrowKeeps ==
    ASSUME PreTypes, PreInv, conf.simp, NEW flags, flags \subseteq Range(samplingSet),
           Defines(M, flags, Candidates), samplingSet' \in Ascending(flags), seen' = {},
           pc \notin {"unsat", "done", "abort"}, pc' \in {"zero", "probe", "probeEq", "checkAgain"},
           UNCHANGED <<prob, conf, okay, known, indicated, eqLits>>
    PROVE  PreTypes' /\ PreInv'
<1>1. flags \in SUBSET Vars /\ IsFiniteSet(flags)
  <2>1. Range(samplingSet) \subseteq Vars /\ IsFiniteSet(Range(samplingSet))
    BY RangeFacts DEF PreTypes
  <2> QED  BY <2>1, FS_Subset
<1>2. samplingSet' \in Seq(Vars) /\ Range(samplingSet') = flags /\ Distinct(samplingSet')
  BY <1>1, AscendingFacts
<1>3. PreTypes'  BY <1>2, PreFixed DEF PreTypes
<1>4. PreInv'  BY <1>2, PreFixed DEF PreInv, RemovingEq
<1> QED  BY <1>3, <1>4

LEMMA RemoveZeroKeeps ==
    ASSUME PreTypes, PreInv, NEW at, NEW next,
           <<at, next>> \in {<<"zero", "probe">>, <<"probeZero", "probeEq">>},
           RemoveZero(at, next)
    PROVE  PreTypes' /\ PreInv'
<1> DEFINE flags == Range(samplingSet) \ known
<1>1. /\ pc \in {"zero", "probeZero"} /\ pc' \in {"probe", "probeEq"}
      /\ samplingSet' \in Ascending(flags) /\ seen' = {}
      /\ UNCHANGED <<prob, conf, okay, known, indicated, eqLits>>
  BY DEF RemoveZero
<1>2. conf.simp  BY <1>1 DEF PreInv, PreTypes
<1>3. Defines(M, flags, Candidates)  BY RemoveSetKeeps DEF PreTypes, PreInv
<1> HIDE DEF flags
<1>4. flags \subseteq Range(samplingSet)  BY DEF flags
<1> QED  BY <1>1, <1>2, <1>3, <1>4, NarrowKeeps

LEMMA RemoveEqKeeps ==
    ASSUME PreTypes, PreInv, NEW at, NEW loop, NEW next,
           <<at, loop, next>> \in {<<"eq", "eqLoop", "zero">>,
                                   <<"probeEq", "probeEqLoop", "checkAgain">>},
           RemoveEq(at, loop, next)
    PROVE  PreTypes' /\ PreInv'
<1>0. /\ at \in {"eq", "probeEq"} /\ loop \in {"eqLoop", "probeEqLoop"}
      /\ next \in {"zero", "checkAgain"}
  OBVIOUS
<1>1. CASE FlagAll(at, loop)
  <2>1. /\ pc \in {"eq", "probeEq"} /\ pc' \in {"eqLoop", "probeEqLoop"}
        /\ seen' = seen \cup Range(samplingSet) /\ eqLits' \in Reports
        /\ UNCHANGED <<prob, conf, samplingSet, okay, known, indicated>>
    BY <1>0, <1>1 DEF FlagAll
  <2>2. seen = {} /\ conf.simp  BY <2>1 DEF PreInv, RemovingEq, PreTypes
  <2>3. eqLits' \in Seq(EqualPairs)
    <3>1. PICK n \in 0 .. MaxPairs : eqLits' \in [1 .. n -> EqualPairs]
      BY <2>1 DEF Reports
    <3>2. n \in Nat  BY MaxPairsAssumption
    <3> QED  BY <3>1, <3>2
  <2>4. PreTypes'  BY <2>1, <2>3, PreFixed DEF PreTypes
  <2>5. PreInv'  BY <2>1, <2>2, PreFixed DEF PreInv, RemovingEq
  <2> QED  BY <2>4, <2>5
<1>2. CASE UnflagEqual(loop)
  <2>1. /\ pc \in {"eqLoop", "probeEqLoop"} /\ eqLits # <<>> /\ pc' = pc
        /\ seen' = Unflag(seen, Head(eqLits)) /\ eqLits' = Tail(eqLits)
        /\ UNCHANGED <<prob, conf, samplingSet, okay, known, indicated>>
    BY <1>0, <1>2 DEF UnflagEqual
  <2>2. Head(eqLits) \in EqualPairs /\ Tail(eqLits) \in Seq(EqualPairs)
    BY <2>1 DEF PreTypes
  <2>3. seen' \subseteq seen /\ Defines(M, seen', Candidates)
    BY <2>1, <2>2, UnflagKeeps DEF PreInv, RemovingEq
  <2>4. PreTypes'  BY <2>1, <2>2, PreFixed DEF PreTypes
  <2>5. PreInv'  BY <2>1, <2>3, PreFixed DEF PreInv, RemovingEq
  <2> QED  BY <2>4, <2>5
<1>3. CASE KeepFlagged(loop, next)
  <2>1. /\ pc \in {"eqLoop", "probeEqLoop"} /\ pc' \in {"zero", "checkAgain"}
        /\ samplingSet' \in Ascending(seen) /\ seen' = {}
        /\ UNCHANGED <<prob, conf, okay, known, indicated, eqLits>>
    BY <1>0, <1>3 DEF KeepFlagged
  <2>2. conf.simp /\ seen \subseteq Range(samplingSet) /\ Defines(M, seen, Candidates)
    BY <2>1 DEF PreInv, RemovingEq, PreTypes
  <2> QED  BY <2>1, <2>2, NarrowKeeps
<1> QED  BY <1>1, <1>2, <1>3 DEF RemoveEq

LEMMA ProbeKeeps == ASSUME PreTypes, PreInv, Probe PROVE PreTypes' /\ PreInv'
<1>1. /\ pc = "probe" /\ conf.simp /\ seen = {}
      /\ UNCHANGED <<conf, prob, seen, indicated, eqLits>>
  BY DEF Probe, PreInv, RemovingEq, PreTypes
<1>2. /\ known' \subseteq SetVars /\ okay' \in BOOLEAN /\ (~ okay' => Unsat)
      /\ pc' \in {"probeZero", "checkAgain", "unsat"} /\ (pc' = "unsat" => ~ okay')
  <2>1. CASE conf.probe_based  BY <2>1, SolverFacts DEF Probe
  <2>2. CASE ~ conf.probe_based  BY <2>2 DEF Probe, PreTypes, PreInv
  <2> QED  BY <2>1, <2>2
<1>3. /\ samplingSet' \in Seq(Vars) /\ Range(samplingSet') = Range(samplingSet)
      /\ Distinct(samplingSet) => Distinct(samplingSet')
  BY OrdersKeep DEF Probe, PreTypes
<1>4. PreTypes'  BY <1>1, <1>2, <1>3, PreFixed DEF PreTypes
<1>5. PreInv'  BY <1>1, <1>2, <1>3, PreFixed DEF PreInv, RemovingEq
<1> QED  BY <1>4, <1>5

LEMMA DoubleKeeps == ASSUME PreTypes, PreInv, Double PROVE PreTypes' /\ PreInv'
<1>1. /\ pc = "double" /\ pc' \in {"done", "unsat"} /\ seen' = {}
      /\ indicated' \in {{}, Range(samplingSet)} /\ okay' \in BOOLEAN
      /\ UNCHANGED <<conf, prob, samplingSet, known, eqLits>>
  BY DEF Double, PreTypes
<1>2. /\ pc' = "done" => indicated' = Range(samplingSet)
      /\ pc' = "unsat" => ~ okay' /\ conf.simp
      /\ ~ okay' => Unsat
  BY DEF Double, PreInv
<1>3. indicated' \subseteq Vars  BY <1>1, RangeFacts DEF PreTypes
<1>4. PreTypes'  BY <1>1, <1>3, PreFixed DEF PreTypes
<1>5. PreInv'  BY <1>1, <1>2, PreFixed DEF PreInv, RemovingEq
<1> QED  BY <1>4, <1>5

LEMMA PreStepKeeps == PreTypes /\ PreInv /\ PreStep => PreTypes' /\ PreInv'
<1> SUFFICES ASSUME PreTypes, PreInv, PreStep PROVE PreTypes' /\ PreInv'  OBVIOUS
<1>1. CASE Start
  BY <1>1, PreKeeps DEF Start, PreTypes, PreInv, RemovingEq
<1>2. CASE Check("check", "presimplify") \/ Check("checkAgain", "double")
  BY <1>2, CheckKeeps
<1>3. CASE PreSimplify
  <2>1. /\ pc = "presimplify" /\ conf.simp
        /\ UNCHANGED <<conf, prob, samplingSet, seen, indicated, eqLits>>
    BY <1>3 DEF PreSimplify, PreInv, PreTypes
  <2>2. /\ known' \subseteq SetVars /\ okay' \in BOOLEAN /\ (~ okay' => Unsat)
        /\ pc' \in {"search", "unsat"} /\ (pc' = "unsat" => ~ okay')
    <3>1. CASE conf.pre_simplify  BY <1>3, <3>1, SolverFacts DEF PreSimplify
    <3>2. CASE ~ conf.pre_simplify  BY <1>3, <3>2 DEF PreSimplify, PreTypes, PreInv
    <3> QED  BY <3>1, <3>2
  <2> QED  BY <2>1, <2>2, PreKeeps DEF RemovingEq, PreInv
<1>4. CASE Search
  <2>1. /\ pc = "search" /\ conf.simp
        /\ UNCHANGED <<conf, prob, samplingSet, seen, indicated, eqLits>>
    BY <1>4 DEF Search, PreInv, PreTypes
  <2>2. /\ known' \subseteq SetVars /\ okay' \in BOOLEAN /\ (~ okay' => Unsat)
        /\ pc' \in {"eq", "unsat"} /\ (pc' = "unsat" => ~ okay')
    <3>1. CASE conf.backbone_simpl  BY <1>4, <3>1, SolverFacts DEF Search
    <3>2. CASE ~ conf.backbone_simpl  BY <1>4, <3>2 DEF Search, PreTypes, PreInv
    <3> QED  BY <3>1, <3>2
  <2> QED  BY <2>1, <2>2, PreKeeps DEF RemovingEq, PreInv
<1>5. CASE RemoveEq("eq", "eqLoop", "zero") \/ RemoveEq("probeEq", "probeEqLoop", "checkAgain")
  BY <1>5, RemoveEqKeeps
<1>6. CASE RemoveZero("zero", "probe") \/ RemoveZero("probeZero", "probeEq")
  BY <1>6, RemoveZeroKeeps
<1>7. CASE Probe  BY <1>7, ProbeKeeps
<1>8. CASE Double  BY <1>8, DoubleKeeps
<1> QED  BY <1>1, <1>2, <1>3, <1>4, <1>5, <1>6, <1>7, <1>8 DEF PreStep

LEMMA PreNextKeeps == PreTypes /\ PreInv /\ [PreNext]_preVars => PreTypes' /\ PreInv'
<1> SUFFICES ASSUME PreTypes, PreInv, UNCHANGED preVars PROVE PreTypes' /\ PreInv'
  BY PreStepKeeps DEF PreNext, PreStopped
<1>1. UNCHANGED <<prob, conf, samplingSet, seen, okay, known, indicated, eqLits, pc>>
  BY DEF preVars, preData
<1>2. PreTypes'  BY <1>1, PreFixed DEF PreTypes
<1>3. PreInv'  BY <1>1, PreFixed DEF PreInv, RemovingEq
<1> QED  BY <1>2, <1>3

LEMMA PreHolds == PreSpec => [](PreTypes /\ PreInv)
BY PreInitTypes, PreNextKeeps, PTL DEF PreSpec

\* Whatever the solver reports as set or equal, in whatever order (remove_zero and
\* remove_eq_literals), what stays in the sampling set determines what was in it.
THEOREM PreprocessingKeepsSupport == PreSpec => []PreprocessingSupports
<1>1. PreInv => PreprocessingSupports  BY DEF PreInv, PreprocessingSupports, M
<1> QED  BY <1>1, PreHolds, PTL

\* The assertion of check_no_duplicate_in_sampling_set can only fail on what the user
\* gave: no pass lists a variable twice, and none leaves a flag for the next one.
THEOREM PreprocessingListsOnce == PreSpec => []NoDuplicateArises
<1>1. PreInv => NoDuplicateArises  BY DEF PreInv, NoDuplicateArises
<1> QED  BY <1>1, PreHolds, PTL

-----------------------------------------------------------------------------
(* What the user gave *)

Units(S) == UNION { UnitOf(v) : v \in S }

\* The setting in which no phase fails: see PhasesFit.
Fits == ~ Grouped \/ (~ conf.simp /\ ~ (setting.guess /\ setting.forward))

\* The forward round has enough iterations: see ForwardTestsAll.
Bounded == IsFiniteSet(Vars) /\ Cardinality(Vars) <= MaxIters

\* S determines what the user asked for.
Support(S) == Defines(M, S, interest)

\* The phases change what is listed and what is indicated, and nothing else.
SameProblem ==
    /\ prob'.models = prob.models /\ prob'.varGroups = prob.varGroups
    /\ prob'.groupOf = prob.groupOf /\ prob'.groupIndep = prob.groupIndep
    /\ prob'.mayTimeOut = prob.mayTimeOut
    /\ asked' = asked /\ setting' = setting

LEMMA Fixed ==
    ASSUME SameProblem
    PROVE  /\ M' = M /\ interest' = interest /\ (InputInOrder' <=> InputInOrder)
           /\ (Grouped' <=> Grouped) /\ (Unsat' <=> Unsat)
           /\ \A v : UnitOf(v)' = UnitOf(v)
           /\ \A S : Units(S)' = Units(S) /\ (Support(S)' <=> Support(S))
           /\ (conf' = conf => (Fits' <=> Fits))
BY DEF SameProblem, M, interest, InputInOrder, Grouped, Unsat, UnitOf, Units, Support, InGroup,
       Mapped, Group, Fits

\* The groups of what was asked for lie in it, and cut it into parts.
LEMMA InterestFacts ==
    ASSUME InputInOrder, NEW S, S \subseteq interest
    PROVE  /\ S \subseteq Units(S) /\ Units(S) \subseteq interest
           /\ ~ Grouped => Units(S) = S
<1>1. ASSUME NEW v \in interest PROVE v \in UnitOf(v) /\ UnitOf(v) \subseteq interest
  BY DEF InputInOrder, UnitOf
<1>2. ASSUME ~ Grouped, NEW v \in interest PROVE UnitOf(v) = {v}
  BY <1>2 DEF Grouped, UnitOf
<1> QED  BY <1>1, <1>2 DEF Units

\* Where the phases fit, every variable that a round may use has an indicator.
LEMMA FitsIndicated ==
    ASSUME InputInOrder, Fits, NEW S, S \subseteq interest, ~ Grouped => S \subseteq indicated,
           ~ conf.simp => indicated = interest
    PROVE  Units(S) \subseteq indicated
BY InterestFacts DEF Fits

\* A part of what was asked for, each variable once: what a round is given.
Handable(s) ==
    /\ s \in Seq(Vars) /\ Distinct(s) /\ Range(s) \subseteq interest
    /\ Bounded => Support(Units(Range(s)))

LEMMA HandableFits ==
    InputInOrder /\ Handable(prob.sampling) =>
        GroupsFit /\ Closure = Units(Candidates) /\ Candidates \subseteq interest
<1> SUFFICES ASSUME InputInOrder, Handable(prob.sampling)
             PROVE  GroupsFit /\ Closure = Units(Candidates) /\ Candidates \subseteq interest
  OBVIOUS
<1>1. Candidates \subseteq interest  BY DEF Handable, Candidates
<1>2. GroupsFit  BY <1>1 DEF GroupsFit, InputInOrder, Handable, Distinct
<1> QED  BY <1>1, <1>2 DEF Closure, Units

\* The rounds mean the same by what they are given.
LEMMA SameGroups ==
    /\ GP!Candidates = Candidates
    /\ FP!Candidates = Candidates /\ FP!Closure = Closure
    /\ (FP!GroupsFit <=> GroupsFit) /\ (FP!WellFormed <=> WellFormed)
    /\ BP!Candidates = Candidates /\ BP!Closure = Closure
    /\ (BP!GroupsFit <=> GroupsFit) /\ (BP!WellFormed <=> WellFormed)
    /\ \A v : FP!UnitOf(v) = UnitOf(v) /\ BP!UnitOf(v) = UnitOf(v)
    /\ \A s : /\ GP!Range(s) = Range(s) /\ FP!Range(s) = Range(s) /\ BP!Range(s) = Range(s)
              /\ (GP!Distinct(s) <=> Distinct(s)) /\ (FP!Distinct(s) <=> Distinct(s))
              /\ (BP!Distinct(s) <=> Distinct(s))
    /\ \A S : FP!Units(S) = Units(S)
    /\ \A C, T : /\ GP!Defines(M, C, T) <=> Defines(M, C, T)
                 /\ FP!Defines(M, C, T) <=> Defines(M, C, T)
                 /\ BP!Defines(M, C, T) <=> Defines(M, C, T)
<1> USE DEF Range, GP!Range, FP!Range, BP!Range, Distinct, GP!Distinct, FP!Distinct,
            BP!Distinct
<1>1. /\ GP!Candidates = Candidates /\ FP!Candidates = Candidates /\ BP!Candidates = Candidates
  BY DEF Candidates, GP!Candidates, FP!Candidates, BP!Candidates
<1>2. \A v : FP!UnitOf(v) = UnitOf(v) /\ BP!UnitOf(v) = UnitOf(v)
  BY DEF UnitOf, FP!UnitOf, BP!UnitOf, InGroup, FP!InGroup, BP!InGroup, Mapped, FP!Mapped,
         BP!Mapped, Group, FP!Group, BP!Group
<1>3. /\ FP!Closure = Closure /\ BP!Closure = Closure /\ \A S : FP!Units(S) = Units(S)
  BY <1>1, <1>2 DEF Closure, FP!Closure, BP!Closure, Units, FP!Units
<1>4. (FP!GroupsFit <=> GroupsFit) /\ (BP!GroupsFit <=> GroupsFit)
  BY DEF GroupsFit, FP!GroupsFit, BP!GroupsFit, Candidates, FP!Candidates, BP!Candidates,
         InGroup, FP!InGroup, BP!InGroup, Mapped, FP!Mapped, BP!Mapped, Group, FP!Group,
         BP!Group
<1>5. (FP!WellFormed <=> WellFormed) /\ (BP!WellFormed <=> WellFormed)
  BY <1>3, <1>4 DEF WellFormed, FP!WellFormed, BP!WellFormed
<1>6. \A C, T : /\ GP!Defines(M, C, T) <=> Defines(M, C, T)
                /\ FP!Defines(M, C, T) <=> Defines(M, C, T)
                /\ BP!Defines(M, C, T) <=> Defines(M, C, T)
  BY DEF Defines, GP!Defines, FP!Defines, BP!Defines, Agree, GP!Agree, FP!Agree, BP!Agree
<1> QED  BY <1>1, <1>2, <1>3, <1>4, <1>5, <1>6

-----------------------------------------------------------------------------
(* The invariant *)

\* A set of whole groups that determines what was asked for and, without time-outs, can
\* spare none of them.
Good(s) ==
    /\ Range(s) \subseteq interest
    /\ Bounded => Support(Range(s))
    /\ \A v \in Range(s) : UnitOf(v) \subseteq Range(s)
    /\ ~ prob.mayTimeOut =>
           \A v \in Range(s) : ~ Defines(M, Range(s) \ UnitOf(v), UnitOf(v))

\* From the preprocessing on.
SolverInv ==
    /\ indicated \subseteq Vars
    /\ ~ okay => Unsat
    /\ pc \in {"done", "unsat"}
    /\ pc = "unsat" => ~ okay /\ phase \in {"finish", "returned"}
    /\ pc = "done" /\ ~ conf.simp => indicated = interest

\* What guess round and forward round are given: no group is needed yet, and every
\* variable has its indicator.
EarlyInv(s) ==
    /\ Handable(s) /\ Support(Range(s))
    /\ Range(s) \subseteq indicated /\ seen = {}

GuessingInv ==
    /\ EarlyInv(prob.sampling)
    /\ setting.guess /\ GP!TypeInv /\ GP!GuessInv

ForwardingInv ==
    /\ Handable(prob.sampling) /\ Support(Candidates)
    /\ Candidates \subseteq indicated /\ prob.indicated = indicated
    /\ ~ conf.simp /\ ~ setting.guess => Candidates = interest
    /\ setting.forward
    /\ FP!TypeInv /\ FP!Inductive /\ FP!NoFailure /\ FP!CountInv /\ ~ FP!Failed

BackwardInv ==
    /\ Handable(samplingSet)
    /\ Fits => seen = {} /\ Units(Range(samplingSet)) \subseteq indicated

BackwardingInv ==
    /\ Handable(prob.sampling) /\ prob.indicated = indicated
    /\ Fits => Closure \subseteq indicated
    /\ setting.backward
    /\ BP!TInv /\ BP!Inductive /\ BP!NoFailure /\ BP!ElimInv /\ ~ BP!Failed

PhaseInv ==
    /\ ProblemType(prob)
    /\ phase = "preprocess" =>
           PreTypes /\ PreInv /\ prob.sampling = asked /\ pc \notin {"done", "unsat", "abort"}
    /\ phase \notin {"preprocess", "abort"} => SolverInv
    /\ phase = "guess" =>
           /\ EarlyInv(samplingSet)
           /\ ~ conf.simp => Range(samplingSet) = interest
    /\ phase = "guessing" => GuessingInv
    /\ phase = "forward" =>
           /\ EarlyInv(samplingSet)
           /\ ~ conf.simp /\ ~ setting.guess => Range(samplingSet) = interest
    /\ phase = "forwarding" => ForwardingInv
    /\ phase = "backward" => BackwardInv
    /\ phase = "backwarding" => BackwardingInv
    /\ phase = "finish" /\ pc = "done" =>
           Handable(samplingSet) /\ (setting.backward => Good(samplingSet))
    /\ phase = "returned" /\ setting.backward =>
           IF okay THEN Good(samplingSet) ELSE samplingSet = <<>>
    /\ phase = "abort" => ~ Fits

PipeInv == InputInOrder => PhaseInv

-----------------------------------------------------------------------------
(* The rounds, from their first step to their last *)

LEMMA GuessBegins == ProblemType(prob) /\ GP!Begin => GP!TypeInv /\ GP!GuessInv
BY SameTypes, RoundAssumptions, GP!BeginTypes, GP!BeginInv

LEMMA GuessNextKeeps ==
    GP!TypeInv /\ GP!GuessInv /\ G!Step => GP!TypeInv' /\ GP!GuessInv' /\ prob' = prob
<1> SUFFICES ASSUME GP!TypeInv, GP!GuessInv, G!Step
             PROVE  GP!TypeInv' /\ GP!GuessInv' /\ prob' = prob
  OBVIOUS
<1>1. GP!Next  BY GuessSteps DEF GP!Next
<1> QED  BY <1>1, RoundAssumptions, GP!TypeStep, GP!InvStep, GP!InputFixed

LEMMA ForwardBegins ==
    ProblemType(prob) /\ GroupsFit /\ FP!Begin =>
        /\ FP!TypeInv /\ FP!Inductive /\ FP!NoFailure /\ FP!CountInv /\ ~ FP!Failed
<1> SUFFICES ASSUME ProblemType(prob), GroupsFit, FP!Begin
             PROVE  /\ FP!TypeInv /\ FP!Inductive /\ FP!NoFailure /\ FP!CountInv
                    /\ ~ FP!Failed
  OBVIOUS
<1>1. FP!ProblemType(prob) /\ FP!GroupsFit  BY SameTypes, SameGroups
<1>2. FP!TypeInv /\ FP!CountInv  BY <1>1, RoundAssumptions, FP!BeginTypes, FP!BeginCounts
<1>3. FP!RoundInv  BY <1>1, RoundAssumptions, FP!BeginInv
<1>4. ~ FP!Failed  BY DEF FP!Begin, FP!Failed
<1>5. FP!NoFailure  BY DEF FP!Begin, FP!NoFailure
<1> QED  BY <1>2, <1>3, <1>4, <1>5 DEF FP!Inductive

LEMMA ForwardNextKeeps ==
    ASSUME FP!TypeInv, FP!Inductive, FP!NoFailure, FP!CountInv, GroupsFit, F!Step
    PROVE  /\ FP!TypeInv' /\ FP!Inductive' /\ FP!NoFailure' /\ FP!CountInv'
           /\ prob' = prob
<1>1. FP!Next /\ FP!GroupsFit  BY ForwardSteps, SameGroups DEF FP!Next
<1> QED
  BY <1>1, RoundAssumptions, FP!TypeStep, FP!InvStep, FP!NoFailureStep, FP!CountStep,
     FP!InputFixed

LEMMA BackwardBegins ==
    ProblemType(prob) /\ GroupsFit /\ BP!Begin =>
        /\ BP!TInv /\ BP!Inductive /\ BP!NoFailure /\ BP!ElimInv /\ ~ BP!Failed
<1> SUFFICES ASSUME ProblemType(prob), GroupsFit, BP!Begin
             PROVE  /\ BP!TInv /\ BP!Inductive /\ BP!NoFailure /\ BP!ElimInv
                    /\ ~ BP!Failed
  OBVIOUS
<1>1. BP!ProblemType(prob) /\ BP!GroupsFit  BY SameTypes, SameGroups
<1>2. BP!TInv /\ BP!ElimInv  BY <1>1, RoundAssumptions, BP!BeginTypes, BP!BeginElim
<1>3. BP!RoundInv  BY <1>1, RoundAssumptions, BP!BeginRoundInv
<1>4. ~ BP!Failed  BY DEF BP!Begin, BP!Failed
<1> QED  BY <1>2, <1>3, <1>4 DEF BP!Inductive, BP!NoFailure

LEMMA BackwardNextKeeps ==
    ASSUME BP!TInv, BP!Inductive, BP!NoFailure, BP!ElimInv, B!Step
    PROVE  /\ BP!TInv' /\ BP!Inductive' /\ BP!NoFailure' /\ BP!ElimInv'
           /\ prob' = prob
<1>1. BP!Next  BY BackwardSteps DEF BP!Next
<1> QED
  BY <1>1, RoundAssumptions, BP!TInvStep, BP!InductiveStep, BP!NoFailureStep, BP!ElimStep,
     BP!InputFixed

-----------------------------------------------------------------------------
(* The phases, one after the other *)

LEMMA KeptFixed ==
    ASSUME SameProblem
    PROVE  \A s : /\ Handable(s)' <=> Handable(s)
                  /\ Good(s)' <=> Good(s)
                  /\ seen' = seen /\ indicated' = indicated => (EarlyInv(s)' <=> EarlyInv(s))
<1>1. \A s : Handable(s)' <=> Handable(s)
  BY Fixed DEF Handable, Bounded
<1>2. \A s : Good(s)' <=> Good(s)
  <2>1. prob'.mayTimeOut = prob.mayTimeOut  BY DEF SameProblem
  <2>2. \A C, T : Defines(M, C, T)' <=> Defines(M, C, T)  BY Fixed DEF Defines, Agree
  <2> QED  BY <2>1, <2>2, Fixed DEF Good, Bounded
<1>3. seen' = seen /\ indicated' = indicated => \A s : EarlyInv(s)' <=> EarlyInv(s)
  BY <1>1, Fixed DEF EarlyInv
<1> QED  BY <1>1, <1>2, <1>3


LEMMA InitPipe == Init => PipeInv
<1> SUFFICES ASSUME Init PROVE PhaseInv  BY DEF PipeInv
<1>1. PreTypes /\ PreInv  BY PreInitTypes DEF Init
<1>2. phase = "preprocess" /\ prob.sampling = asked /\ pc \notin {"done", "unsat", "abort"}
  BY DEF Init, PreInit
<1>3. ProblemType(prob)  BY <1>1 DEF PreTypes
<1> QED  BY <1>1, <1>2, <1>3 DEF PhaseInv

\* What the preprocessing hands on.
LEMMA PreprocessingDone ==
    InputInOrder /\ PreTypes /\ PreInv /\ prob.sampling = asked /\ pc = "done" =>
        /\ EarlyInv(samplingSet)
        /\ ~ conf.simp => Range(samplingSet) = interest
        /\ indicated = Range(samplingSet)
<1> SUFFICES ASSUME InputInOrder, PreTypes, PreInv, prob.sampling = asked, pc = "done"
             PROVE  /\ EarlyInv(samplingSet)
                    /\ ~ conf.simp => Range(samplingSet) = interest
                    /\ indicated = Range(samplingSet)
  OBVIOUS
<1>1. Candidates = interest  BY DEF Candidates, interest
<1>2. /\ samplingSet \in Seq(Vars) /\ Distinct(samplingSet) /\ seen = {}
      /\ Range(samplingSet) \subseteq interest /\ indicated = Range(samplingSet)
  BY <1>1 DEF PreTypes, PreInv, RemovingEq, InputInOrder
<1>3. Support(Range(samplingSet))  BY <1>1 DEF PreInv, Support
<1>4. Support(Units(Range(samplingSet)))
  <2>1. Range(samplingSet) \subseteq Units(Range(samplingSet))  BY <1>2, InterestFacts
  <2> QED  BY <2>1, <1>3, DefinesMono DEF Support
<1>5. ~ conf.simp => Range(samplingSet) = interest  BY DEF PreInv, interest
<1> QED  BY <1>2, <1>3, <1>4, <1>5 DEF EarlyInv, Handable

LEMMA PreprocessKeeps ==
    ASSUME InputInOrder, PhaseInv, Preprocess PROVE PhaseInv'
<1>1. /\ PreTypes /\ PreInv /\ prob.sampling = asked /\ PreStep
      /\ asked' = asked /\ setting' = setting
      /\ phase' = CASE pc' = "done" -> "guess"
                    [] pc' = "unsat" -> "finish"
                    [] pc' = "abort" -> "abort"
                    [] OTHER -> "preprocess"
  BY DEF PhaseInv, Preprocess, input
<1>2. PreTypes' /\ PreInv'  BY <1>1, PreStepKeeps
<1>3. prob' = prob /\ conf' = conf
  BY <1>1 DEF PreStep, Start, Check, PreSimplify, Search, RemoveEq, FlagAll, UnflagEqual,
              KeepFlagged, RemoveZero, Probe, Double
<1>4. SameProblem  BY <1>1, <1>3 DEF SameProblem
<1>5. InputInOrder' /\ prob'.sampling = asked'  BY <1>1, <1>3, <1>4, Fixed
<1>6. ProblemType(prob)'  BY <1>2 DEF PreTypes
<1>7. pc' # "abort"  BY <1>5, <1>2 DEF PreInv, InputInOrder
<1>8. CASE pc' = "done"
  <2>1. phase' = "guess"  BY <1>1, <1>8
  <2>2. /\ EarlyInv(samplingSet)'
        /\ ~ conf'.simp => Range(samplingSet)' = interest'
        /\ indicated' = Range(samplingSet)'
    <3>1. (InputInOrder /\ PreTypes /\ PreInv /\ prob.sampling = asked /\ pc = "done" =>
              /\ EarlyInv(samplingSet)
              /\ ~ conf.simp => Range(samplingSet) = interest
              /\ indicated = Range(samplingSet))'
      BY PreprocessingDone, PTL
    <3> QED  BY <1>2, <1>5, <1>8, <3>1
  <2>3. SolverInv'
    BY <1>2, <1>8, <2>2 DEF SolverInv, PreTypes, PreInv
  <2> QED  BY <1>6, <2>1, <2>2, <2>3 DEF PhaseInv
<1>9. CASE pc' = "unsat"
  <2>1. phase' = "finish"  BY <1>1, <1>9
  <2>2. SolverInv'  BY <1>2, <1>9, <2>1 DEF SolverInv, PreTypes, PreInv
  <2> QED  BY <1>6, <1>9, <2>1, <2>2 DEF PhaseInv
<1>10. CASE pc' \notin {"done", "unsat", "abort"}
  <2>1. phase' = "preprocess"  BY <1>1, <1>10
  <2> QED  BY <1>2, <1>5, <1>6, <1>10, <2>1 DEF PhaseInv
<1> QED  BY <1>7, <1>8, <1>9, <1>10

\* The rounds leave the solver's findings alone.
LEMMA SolverKept ==
    ASSUME SameProblem, SolverInv, UNCHANGED <<conf, okay, indicated, pc>>,
           phase \notin {"finish", "returned"}
    PROVE  SolverInv' /\ pc = "done" /\ pc' = "done"
BY Fixed DEF SolverInv

LEMMA SkipKeeps ==
    ASSUME InputInOrder, PhaseInv, NEW here, NEW next, Skip(here, next),
           <<here, next>> \in {<<"guess", "forward">>, <<"forward", "backward">>,
                               <<"backward", "finish">>}
    PROVE  PhaseInv'
<1>1. /\ phase = here /\ phase' = next /\ ~ setting[here]
      /\ UNCHANGED <<setting, asked, prob, samplingSet, seen, conf, okay, indicated, pc>>
  BY DEF Skip, input, solver, ofPreprocess
<1>2. SameProblem /\ ProblemType(prob)' /\ SolverInv
  BY <1>1, SameTypes DEF PhaseInv, SameProblem, ProblemType
<1>3. SolverInv' /\ pc = "done" /\ pc' = "done"  BY <1>1, <1>2, SolverKept
<1>4. CASE here = "guess" /\ next = "forward"
  <2>1. EarlyInv(samplingSet)  BY <1>1, <1>4 DEF PhaseInv
  <2>2. ~ conf.simp => Range(samplingSet) = interest  BY <1>1, <1>4 DEF PhaseInv
  <2>3. EarlyInv(samplingSet)'  BY <1>1, <1>2, <2>1, KeptFixed
  <2>4. ~ conf'.simp => Range(samplingSet)' = interest'
    BY <1>1, <1>2, <2>2, Fixed
  <2> QED  BY <1>1, <1>2, <1>3, <1>4, <2>3, <2>4 DEF PhaseInv
<1>5. CASE here = "forward" /\ next = "backward"
  <2>1. EarlyInv(samplingSet)  BY <1>1, <1>5 DEF PhaseInv
  <2>2. ASSUME Fits PROVE seen = {} /\ Units(Range(samplingSet)) \subseteq indicated
    <3>1. Range(samplingSet) \subseteq interest /\ Range(samplingSet) \subseteq indicated
      BY <2>1 DEF EarlyInv, Handable
    <3>2. ~ conf.simp => indicated = interest  BY <1>2, <1>3 DEF SolverInv
    <3>3. Units(Range(samplingSet)) \subseteq indicated
      BY <2>2, <3>1, <3>2, FitsIndicated
    <3> QED  BY <2>1, <3>3 DEF EarlyInv
  <2>3. Handable(samplingSet)  BY <2>1 DEF EarlyInv
  <2>4. BackwardInv  BY <2>2, <2>3 DEF BackwardInv
  <2>5. BackwardInv'  BY <1>1, <1>2, <2>4, KeptFixed, Fixed DEF BackwardInv
  <2> QED  BY <1>1, <1>2, <1>3, <1>5, <2>5 DEF PhaseInv
<1>6. CASE here = "backward" /\ next = "finish"
  <2>1. Handable(samplingSet)  BY <1>1, <1>6 DEF PhaseInv, BackwardInv
  <2>2. Handable(samplingSet)'  BY <1>1, <1>2, <2>1, KeptFixed
  <2>3. ~ setting'.backward  BY <1>1, <1>6
  <2> QED  BY <1>1, <1>2, <1>3, <1>6, <2>2, <2>3 DEF PhaseInv
<1> QED  BY <1>4, <1>5, <1>6

LEMMA NotCleanKeeps ==
    ASSUME InputInOrder, PhaseInv, NotClean PROVE PhaseInv'
<1>1. /\ phase \in {"guess", "forward", "backward"} /\ phase' = "abort" /\ seen # {}
      /\ UNCHANGED <<setting, asked, prob, conf>>
  BY DEF NotClean, input, solver
<1>2. SameProblem /\ ProblemType(prob)'
  BY <1>1 DEF PhaseInv, SameProblem, ProblemType
<1>3. phase = "backward"  BY <1>1 DEF PhaseInv, EarlyInv
<1>4. ~ Fits  BY <1>1, <1>3 DEF PhaseInv, BackwardInv
<1>5. ~ Fits'  BY <1>1, <1>2, <1>4, Fixed
<1> QED  BY <1>1, <1>2, <1>5 DEF PhaseInv

\* What a round is given is an input of a round.
LEMMA HandedFacts ==
    ASSUME ProblemType(prob), samplingSet \in Seq(Vars), indicated \subseteq Vars,
           prob' = Handed, input' = input
    PROVE  /\ ProblemType(prob)' /\ SameProblem
           /\ prob'.sampling = samplingSet /\ prob'.indicated = indicated
BY DEF Handed, ProblemType, SameProblem, input

LEMMA EnterGuessKeeps ==
    ASSUME InputInOrder, PhaseInv, EnterGuess PROVE PhaseInv'
<1>1. /\ phase = "guess" /\ phase' = "guessing" /\ setting.guess
      /\ prob' = Handed /\ input' = input
      /\ UNCHANGED <<setting, samplingSet, seen, conf, okay, indicated, pc>>
  BY DEF EnterGuess, input, solver, ofPreprocess
<1>2. EarlyInv(samplingSet) /\ ProblemType(prob) /\ SolverInv
  BY <1>1 DEF PhaseInv
<1>3. samplingSet \in Seq(Vars) /\ indicated \subseteq Vars
  BY <1>2 DEF EarlyInv, Handable, SolverInv
<1>4. /\ ProblemType(prob)' /\ SameProblem
      /\ prob'.sampling = samplingSet
  BY <1>1, <1>2, <1>3, HandedFacts
<1>5. SolverInv'  BY <1>1, <1>2, <1>4, SolverKept
<1>6. GP!Begin'
  <2>1. G!FirstGroup(samplingSet) = GP!FirstGroup(samplingSet)
    BY DEF G!FirstGroup, GP!FirstGroup
  <2> QED  BY <1>1, <1>4, <2>1 DEF EnterGuess, FreshLocals, NoUnknown, GP!Begin
<1>7. GP!TypeInv' /\ GP!GuessInv'
  <2>1. (ProblemType(prob) /\ GP!Begin => GP!TypeInv /\ GP!GuessInv)'
    BY GuessBegins, PTL
  <2> QED  BY <1>4, <1>6, <2>1
<1>8. EarlyInv(prob.sampling)'
  <2>1. EarlyInv(prob'.sampling)  BY <1>2, <1>4
  <2> QED  BY <1>1, <1>4, <2>1, KeptFixed, Fixed
<1>9. GuessingInv'  BY <1>1, <1>7, <1>8 DEF GuessingInv
<1> QED  BY <1>1, <1>4, <1>5, <1>9 DEF PhaseInv

LEMMA GuessKeeps ==
    ASSUME InputInOrder, PhaseInv, Guess PROVE PhaseInv'
<1>1. /\ phase = "guessing" /\ phase' = "guessing" /\ G!Step
      /\ UNCHANGED <<setting, asked, seen, conf, okay, indicated, pc>>
  BY DEF Guess, input, solver, ofPreprocess
<1>2. GuessingInv /\ ProblemType(prob) /\ SolverInv  BY <1>1 DEF PhaseInv
<1>3. GP!TypeInv' /\ GP!GuessInv' /\ prob' = prob
  BY <1>1, <1>2, GuessNextKeeps DEF GuessingInv
<1>4. SameProblem /\ ProblemType(prob)'
  BY <1>1, <1>2, <1>3 DEF SameProblem, ProblemType
<1>5. SolverInv'  BY <1>1, <1>2, <1>4, SolverKept
<1>6. GuessingInv'
  <2>1. EarlyInv(prob.sampling) /\ setting.guess
    BY <1>2 DEF GuessingInv
  <2>2. EarlyInv(prob.sampling)' /\ setting'.guess
    BY <1>1, <1>3, <1>4, <2>1, KeptFixed, Fixed
  <2> QED  BY <1>3, <2>2 DEF GuessingInv
<1> QED  BY <1>1, <1>4, <1>5, <1>6 DEF PhaseInv

\* A part of what was asked for that is a support, each variable once.
LEMMA SupportHandable ==
    ASSUME InputInOrder, NEW s \in Seq(Vars), Distinct(s), Range(s) \subseteq interest,
           Support(Range(s))
    PROVE  Handable(s)
<1>1. Range(s) \subseteq Units(Range(s))  BY InterestFacts
<1>2. Support(Units(Range(s)))  BY <1>1, DefinesMono DEF Support
<1> QED  BY <1>2 DEF Handable

LEMMA LeaveGuessKeeps ==
    ASSUME InputInOrder, PhaseInv, LeaveGuess PROVE PhaseInv'
<1>1. /\ phase = "guessing" /\ phase' = "forward"
      /\ UNCHANGED <<setting, asked, prob, samplingSet, seen, conf, okay, indicated, pc>>
  BY DEF LeaveGuess, input, solver, ofPreprocess
<1>2. GuessingInv /\ ProblemType(prob) /\ SolverInv  BY <1>1 DEF PhaseInv
<1>3. SameProblem /\ ProblemType(prob)'
  BY <1>1, <1>2 DEF SameProblem, ProblemType
<1>4. SolverInv'  BY <1>1, <1>2, <1>3, SolverKept
<1>5. EarlyInv(prob.sampling) /\ GP!TypeInv /\ GP!GuessInv  BY <1>2 DEF GuessingInv
<1>6. /\ samplingSet \in Seq(Vars) /\ Distinct(samplingSet)
      /\ Range(samplingSet) \subseteq Candidates
      /\ Defines(M, Range(samplingSet), Candidates)
  <2>1. Distinct(prob.sampling)  BY <1>5 DEF EarlyInv, Handable
  <2>2. samplingSet \in Seq(Vars)  BY <1>5 DEF GP!TypeInv
  <2>3. GP!Distinct(samplingSet)  BY <1>5, <2>1, SameGroups DEF GP!GuessInv, GP!OnceInv
  <2>4. GP!Range(samplingSet) \subseteq GP!Candidates  BY <1>5 DEF GP!GuessInv
  <2>5. GP!Defines(M, GP!Range(samplingSet), GP!Candidates)
    BY <1>5 DEF GP!GuessInv, M, GP!M
  <2> QED  BY <2>2, <2>3, <2>4, <2>5, SameGroups
<1>7. /\ Support(Candidates) /\ Candidates \subseteq interest
      /\ Candidates \subseteq indicated /\ seen = {}
  BY <1>5 DEF EarlyInv, Handable, Candidates
<1>8. Support(Range(samplingSet))  BY <1>6, <1>7, DefinesCut DEF Support
<1>9. Handable(samplingSet)  BY <1>6, <1>7, <1>8, SupportHandable
<1>10. EarlyInv(samplingSet)  BY <1>6, <1>7, <1>8, <1>9 DEF EarlyInv
<1>11. EarlyInv(samplingSet)'  BY <1>1, <1>3, <1>10, KeptFixed
<1>12. setting'.guess  BY <1>1, <1>2 DEF GuessingInv
<1> QED  BY <1>1, <1>3, <1>4, <1>11, <1>12 DEF PhaseInv

LEMMA EnterForwardKeeps ==
    ASSUME InputInOrder, PhaseInv, EnterForward PROVE PhaseInv'
<1>1. /\ phase = "forward" /\ phase' = "forwarding" /\ setting.forward
      /\ prob' = Handed /\ input' = input
      /\ UNCHANGED <<setting, samplingSet, seen, conf, okay, indicated, pc>>
  BY DEF EnterForward, input, solver, ofPreprocess
<1>2. EarlyInv(samplingSet) /\ ProblemType(prob) /\ SolverInv
  BY <1>1 DEF PhaseInv
<1>3. samplingSet \in Seq(Vars) /\ indicated \subseteq Vars
  BY <1>2 DEF EarlyInv, Handable, SolverInv
<1>4. /\ ProblemType(prob)' /\ SameProblem
      /\ prob'.sampling = samplingSet /\ prob'.indicated = indicated
  BY <1>1, <1>2, <1>3, HandedFacts
<1>5. SolverInv' /\ InputInOrder'  BY <1>1, <1>2, <1>4, SolverKept, Fixed
<1>6. FP!Begin'
  <2>1. F!Reverse(samplingSet) = FP!Reverse(samplingSet)
    BY DEF F!Reverse, FP!Reverse
  <2>2. Orders(unknown') = FP!Orders(unknown')
    BY DEF Orders, FP!Orders, Bijection, Injection, Surjection, IsInjective, FP!Bijection,
           FP!Injection, FP!Surjection, FP!IsInjective
  <2>3. Range(samplingSet) = FP!Range(samplingSet)  BY SameGroups
  <2>4. seen' = {}  BY DEF EnterForward
  <2> QED  BY <1>1, <1>4, <2>1, <2>2, <2>3, <2>4 DEF EnterForward, FreshLocals, FP!Begin
<1>7. Handable(prob.sampling)'
  <2>1. Handable(prob'.sampling)  BY <1>2, <1>4 DEF EarlyInv
  <2> QED  BY <1>4, <2>1, KeptFixed
<1>8. GroupsFit'
  <2>1. (InputInOrder /\ Handable(prob.sampling) =>
            GroupsFit /\ Closure = Units(Candidates) /\ Candidates \subseteq interest)'
    BY HandableFits, PTL
  <2> QED  BY <1>5, <1>7, <2>1
<1>9. FP!TypeInv' /\ FP!Inductive' /\ FP!NoFailure' /\ FP!CountInv' /\ ~ FP!Failed'
  <2>1. (ProblemType(prob) /\ GroupsFit /\ FP!Begin =>
            FP!TypeInv /\ FP!Inductive /\ FP!NoFailure /\ FP!CountInv /\ ~ FP!Failed)'
    BY ForwardBegins, PTL
  <2> QED  BY <1>4, <1>6, <1>8, <2>1
<1>10. /\ Candidates' = Range(samplingSet) /\ Support(Candidates)'
       /\ Candidates' \subseteq indicated' /\ prob'.indicated = indicated'
       /\ ~ conf'.simp /\ ~ setting'.guess => Candidates' = interest'
  <2>1. Candidates' = Range(samplingSet)  BY <1>4 DEF Candidates
  <2>2. Support(Range(samplingSet)) /\ Range(samplingSet) \subseteq indicated
    BY <1>2 DEF EarlyInv
  <2>3. ~ conf.simp /\ ~ setting.guess => Range(samplingSet) = interest
    BY <1>1 DEF PhaseInv
  <2>4. Support(Candidates')  BY <2>1, <2>2
  <2> QED  BY <1>1, <1>4, <2>1, <2>2, <2>3, <2>4, Fixed
<1>11. setting'.forward  BY <1>1
<1>12. ForwardingInv'  BY <1>7, <1>9, <1>10, <1>11 DEF ForwardingInv
<1> QED  BY <1>1, <1>4, <1>5, <1>12 DEF PhaseInv

LEMMA ForwardKeeps ==
    ASSUME InputInOrder, PhaseInv, Forward PROVE PhaseInv'
<1>1. /\ phase = "forwarding" /\ F!Step
      /\ phase' = (IF fpc' \in {"abort", "wild"} THEN "abort" ELSE phase)
      /\ UNCHANGED <<setting, asked, conf, okay, indicated, pc>>
  BY DEF Forward, input, solver, ofPreprocess
<1>2. ForwardingInv /\ ProblemType(prob) /\ SolverInv  BY <1>1 DEF PhaseInv
<1>3. GroupsFit /\ Closure = Units(Candidates) /\ Candidates \subseteq interest
  BY <1>2, HandableFits DEF ForwardingInv
<1>4. FP!TypeInv' /\ FP!Inductive' /\ FP!NoFailure' /\ FP!CountInv' /\ prob' = prob
  BY <1>1, <1>2, <1>3, ForwardNextKeeps DEF ForwardingInv
<1>5. SameProblem /\ ProblemType(prob)'
  BY <1>1, <1>2, <1>4 DEF SameProblem, ProblemType
<1>6. CASE fpc' \in {"abort", "wild"}
  <2>1. phase' = "abort"  BY <1>1, <1>6
  <2>2. ~ WellFormed
    <3>1. ~ FP!WellFormed'  BY <1>4, <1>6 DEF FP!NoFailure
    <3>2. FP!WellFormed' <=> FP!WellFormed  BY <1>4, RoundAssumptions, FP!ProbFixed
    <3> QED  BY <3>1, <3>2, SameGroups
  <2>3. ~ (Units(Candidates) \subseteq indicated)
    BY <1>2, <1>3, <2>2 DEF WellFormed, ForwardingInv
  <2>4. ~ conf.simp => indicated = interest
    BY <1>1, <1>2 DEF SolverInv
  <2>5. Candidates \subseteq indicated  BY <1>2 DEF ForwardingInv
  <2>6. ~ Fits  BY <1>3, <2>3, <2>4, <2>5, FitsIndicated
  <2>7. ~ Fits'  BY <1>1, <1>5, <2>6, Fixed
  <2> QED  BY <1>5, <2>1, <2>7 DEF PhaseInv
<1>7. CASE fpc' \notin {"abort", "wild"}
  <2>1. phase' = "forwarding"  BY <1>1, <1>7
  <2>2. SolverInv'  BY <1>1, <1>2, <1>5, SolverKept
  <2>3. ~ FP!Failed'  BY <1>7 DEF FP!Failed
  <2>4. /\ Handable(prob.sampling)' /\ Candidates' = Candidates
        /\ Support(Candidates)' /\ setting'.forward
        /\ Candidates' \subseteq indicated' /\ prob'.indicated = indicated'
        /\ ~ conf'.simp /\ ~ setting'.guess => Candidates' = interest'
    <3>1. Candidates' = Candidates  BY <1>4 DEF Candidates
    <3>2. Handable(prob.sampling)'  BY <1>2, <1>4, <1>5, KeptFixed DEF ForwardingInv
    <3>3. Support(Candidates')  BY <1>2, <3>1 DEF ForwardingInv
    <3>4. Support(Candidates)'  BY <1>5, <3>3, Fixed
    <3> QED  BY <1>1, <1>2, <1>4, <1>5, <3>1, <3>2, <3>4, Fixed DEF ForwardingInv
  <2>5. ForwardingInv'  BY <1>4, <2>3, <2>4 DEF ForwardingInv
  <2> QED  BY <1>5, <2>1, <2>2, <2>5 DEF PhaseInv
<1> QED  BY <1>6, <1>7

LEMMA LeaveForwardKeeps ==
    ASSUME InputInOrder, PhaseInv, LeaveForward PROVE PhaseInv'
<1>1. /\ phase = "forwarding" /\ phase' = "backward" /\ fpc = "done"
      /\ UNCHANGED <<setting, asked, prob, samplingSet, seen, conf, okay, indicated, pc>>
  BY DEF LeaveForward, input, solver, ofPreprocess
<1>2. ForwardingInv /\ ProblemType(prob) /\ SolverInv  BY <1>1 DEF PhaseInv
<1>3. SameProblem /\ ProblemType(prob)'
  BY <1>1, <1>2 DEF SameProblem, ProblemType
<1>4. SolverInv' /\ pc = "done"  BY <1>1, <1>2, <1>3, SolverKept
<1>5. GroupsFit /\ Closure = Units(Candidates) /\ Candidates \subseteq interest
  BY <1>2, HandableFits DEF ForwardingInv
<1>6. Closure \subseteq interest  BY <1>5, InterestFacts
<1>7. /\ FP!TypeInv /\ FP!RoundInv /\ FP!GroupsFit /\ FP!CountInv
  BY <1>2, <1>5, SameGroups DEF ForwardingInv, FP!Inductive
<1>8. /\ samplingSet \in Seq(Vars) /\ Distinct(samplingSet)
      /\ Range(samplingSet) \subseteq Closure
  <2>1. FP!DoneInv  BY <1>1, <1>7, RoundAssumptions, FP!DoneFacts
  <2>2. FP!Distinct(samplingSet) /\ FP!Range(samplingSet) \subseteq FP!Closure
    BY <2>1 DEF FP!DoneInv
  <2>3. samplingSet \in Seq(Vars)  BY <1>7 DEF FP!TypeInv, FP!TypeOK
  <2> QED  BY <2>2, <2>3, SameGroups
<1>9. ASSUME Bounded PROVE Support(Units(Range(samplingSet)))
  <2>1. FP!IsFiniteSet(Vars) /\ FP!Cardinality(Vars) <= MaxIters
    <3>1. FP!IsFiniteSet(Vars) <=> IsFiniteSet(Vars)  BY DEF FP!IsFiniteSet, IsFiniteSet
    <3>2. FP!Cardinality(Vars) = Cardinality(Vars)  BY DEF FP!Cardinality, Cardinality
    <3> QED  BY <1>9, <3>1, <3>2 DEF Bounded
  <2>2. ~ FP!GaveUp
    <3>1. FP!ProblemType(prob)  BY <1>2, SameTypes
    <3>2. FP!EnoughIters  BY <1>7, <2>1, <3>1, RoundAssumptions, FP!EnoughForVars
    <3> QED  BY <1>1, <1>7, <3>2 DEF FP!CountInv, FP!AllTested
  <2>3. FP!Defines(M, FP!Units(FP!Range(samplingSet)), FP!Candidates)
    BY <1>1, <1>7, <2>2, RoundAssumptions, FP!DoneSupport DEF M
  <2>4. Defines(M, Units(Range(samplingSet)), Candidates)  BY <2>3, SameGroups
  <2>5. Support(Candidates)  BY <1>2 DEF ForwardingInv
  <2> QED  BY <2>4, <2>5, DefinesCut DEF Support
<1>10. Handable(samplingSet)  BY <1>6, <1>8, <1>9 DEF Handable
<1>11. ASSUME Fits PROVE seen = {} /\ Units(Range(samplingSet)) \subseteq indicated
  <2>1. Closure = Candidates
    <3>1. CASE ~ Grouped  BY <1>5, <3>1, InterestFacts
    <3>2. CASE ~ conf.simp /\ ~ setting.guess
      <4>1. Candidates = interest  BY <1>2, <3>2 DEF ForwardingInv
      <4>2. Candidates \subseteq Closure  BY <1>5, InterestFacts
      <4> QED  BY <1>6, <4>1, <4>2
    <3> QED  BY <1>2, <1>11, <3>1, <3>2 DEF Fits, ForwardingInv
  <2>2. seen = {}
    <3>1. FP!Closure = FP!Candidates  BY <2>1, SameGroups
    <3> QED  BY <1>1, <1>7, <3>1, RoundAssumptions, FP!DoneClean
  <2>3. Range(samplingSet) \subseteq interest /\ Range(samplingSet) \subseteq indicated
    BY <1>2, <1>6, <1>8, <2>1 DEF ForwardingInv
  <2>4. ~ conf.simp => indicated = interest  BY <1>2, <1>4 DEF SolverInv
  <2> QED  BY <1>11, <2>2, <2>3, <2>4, FitsIndicated
<1>12. BackwardInv  BY <1>10, <1>11 DEF BackwardInv
<1>13. BackwardInv'  BY <1>1, <1>3, <1>12, KeptFixed, Fixed DEF BackwardInv
<1> QED  BY <1>1, <1>3, <1>4, <1>13 DEF PhaseInv

LEMMA EnterBackwardKeeps ==
    ASSUME InputInOrder, PhaseInv, EnterBackward PROVE PhaseInv'
<1>1. /\ phase = "backward" /\ phase' = "backwarding" /\ setting.backward
      /\ prob' = Handed /\ input' = input
      /\ UNCHANGED <<setting, samplingSet, seen, conf, okay, indicated, pc>>
  BY DEF EnterBackward, input, solver, ofPreprocess
<1>2. BackwardInv /\ ProblemType(prob) /\ SolverInv
  BY <1>1 DEF PhaseInv
<1>3. samplingSet \in Seq(Vars) /\ indicated \subseteq Vars
  BY <1>2 DEF BackwardInv, Handable, SolverInv
<1>4. /\ ProblemType(prob)' /\ SameProblem
      /\ prob'.sampling = samplingSet /\ prob'.indicated = indicated
  BY <1>1, <1>2, <1>3, HandedFacts
<1>5. SolverInv' /\ InputInOrder'  BY <1>1, <1>2, <1>4, SolverKept, Fixed
<1>6. BP!Begin'
  BY <1>1, <1>4 DEF EnterBackward, FreshLocals, NoUnknown, BP!Begin
<1>7. Handable(prob.sampling)'
  <2>1. Handable(prob'.sampling)  BY <1>2, <1>4 DEF BackwardInv
  <2> QED  BY <1>4, <2>1, KeptFixed
<1>8. GroupsFit' /\ Closure' = Units(Candidates)'
  <2>1. (InputInOrder /\ Handable(prob.sampling) =>
            GroupsFit /\ Closure = Units(Candidates) /\ Candidates \subseteq interest)'
    BY HandableFits, PTL
  <2> QED  BY <1>5, <1>7, <2>1
<1>9. BP!TInv' /\ BP!Inductive' /\ BP!NoFailure' /\ BP!ElimInv' /\ ~ BP!Failed'
  <2>1. (ProblemType(prob) /\ GroupsFit /\ BP!Begin =>
            BP!TInv /\ BP!Inductive /\ BP!NoFailure /\ BP!ElimInv /\ ~ BP!Failed)'
    BY BackwardBegins, PTL
  <2> QED  BY <1>4, <1>6, <1>8, <2>1
<1>10. Fits' => Closure' \subseteq indicated'
  <2>1. Candidates' = Range(samplingSet)  BY <1>4 DEF Candidates
  <2>2. Units(Candidates)' = Units(Range(samplingSet))
    <3>1. Units(Candidates') = Units(Range(samplingSet))  BY <2>1
    <3> QED  BY <1>4, <3>1, Fixed
  <2>3. Fits => Units(Range(samplingSet)) \subseteq indicated  BY <1>2 DEF BackwardInv
  <2>4. Fits' <=> Fits  BY <1>1, <1>4, Fixed
  <2> QED  BY <1>1, <1>8, <2>2, <2>3, <2>4
<1>11. setting'.backward /\ prob'.indicated = indicated'  BY <1>1, <1>4
<1>12. BackwardingInv'  BY <1>7, <1>9, <1>10, <1>11 DEF BackwardingInv
<1> QED  BY <1>1, <1>4, <1>5, <1>12 DEF PhaseInv

LEMMA BackwardKeeps ==
    ASSUME InputInOrder, PhaseInv, Backward PROVE PhaseInv'
<1>1. /\ phase = "backwarding" /\ B!Step
      /\ phase' = (IF bpc' \in {"abort", "wild"} THEN "abort" ELSE phase)
      /\ UNCHANGED <<setting, asked, conf, okay, indicated, pc>>
  BY DEF Backward, input, solver, ofPreprocess
<1>2. BackwardingInv /\ ProblemType(prob) /\ SolverInv  BY <1>1 DEF PhaseInv
<1>3. GroupsFit  BY <1>2, HandableFits DEF BackwardingInv
<1>4. BP!TInv' /\ BP!Inductive' /\ BP!NoFailure' /\ BP!ElimInv' /\ prob' = prob
  BY <1>1, <1>2, BackwardNextKeeps DEF BackwardingInv
<1>5. SameProblem /\ ProblemType(prob)'
  BY <1>1, <1>2, <1>4 DEF SameProblem, ProblemType
<1>6. CASE bpc' \in {"abort", "wild"}
  <2>1. phase' = "abort"  BY <1>1, <1>6
  <2>2. ~ WellFormed
    <3>1. BP!Failed'  BY <1>6 DEF BP!Failed
    <3>2. ~ BP!WellFormed'  BY <1>4, <3>1 DEF BP!NoFailure
    <3>3. BP!WellFormed' <=> BP!WellFormed  BY <1>4, RoundAssumptions, BP!ProbFixed
    <3> QED  BY <3>2, <3>3, SameGroups
  <2>3. ~ Fits  BY <1>2, <1>3, <2>2 DEF WellFormed, BackwardingInv
  <2>4. ~ Fits'  BY <1>1, <1>5, <2>3, Fixed
  <2> QED  BY <1>5, <2>1, <2>4 DEF PhaseInv
<1>7. CASE bpc' \notin {"abort", "wild"}
  <2>1. phase' = "backwarding"  BY <1>1, <1>7
  <2>2. SolverInv'  BY <1>1, <1>2, <1>5, SolverKept
  <2>3. ~ BP!Failed'  BY <1>7 DEF BP!Failed
  <2>4. Handable(prob.sampling)'
    BY <1>2, <1>4, <1>5, KeptFixed DEF BackwardingInv
  <2>5. Fits' => Closure' \subseteq indicated'
    <3>1. Closure' = Closure  BY <1>4 DEF Closure, Candidates, UnitOf, InGroup, Mapped, Group
    <3> QED  BY <1>1, <1>2, <1>5, <3>1, Fixed DEF BackwardingInv
  <2>6. setting'.backward /\ prob'.indicated = indicated'
    BY <1>1, <1>2, <1>4 DEF BackwardingInv
  <2>7. BackwardingInv'  BY <1>4, <2>3, <2>4, <2>5, <2>6 DEF BackwardingInv
  <2> QED  BY <1>5, <2>1, <2>2, <2>7 DEF PhaseInv
<1> QED  BY <1>6, <1>7

LEMMA LeaveBackwardKeeps ==
    ASSUME InputInOrder, PhaseInv, LeaveBackward PROVE PhaseInv'
<1>1. /\ phase = "backwarding" /\ phase' = "finish" /\ bpc = "done"
      /\ UNCHANGED <<setting, asked, prob, samplingSet, seen, conf, okay, indicated, pc>>
  BY DEF LeaveBackward, input, solver, ofPreprocess
<1>2. BackwardingInv /\ ProblemType(prob) /\ SolverInv  BY <1>1 DEF PhaseInv
<1>3. SameProblem /\ ProblemType(prob)'
  BY <1>1, <1>2 DEF SameProblem, ProblemType
<1>4. SolverInv' /\ pc = "done"  BY <1>1, <1>2, <1>3, SolverKept
<1>5. GroupsFit /\ Closure = Units(Candidates) /\ Candidates \subseteq interest
  BY <1>2, HandableFits DEF BackwardingInv
<1>6. Closure \subseteq interest  BY <1>5, InterestFacts
<1>7. BP!TInv /\ BP!Inductive /\ BP!ElimInv /\ BP!GroupsFit
  BY <1>2, <1>5, SameGroups DEF BackwardingInv
<1>8. /\ Range(samplingSet) \subseteq Closure /\ Distinct(samplingSet)
      /\ Defines(M, Range(samplingSet), Closure)
      /\ \A v \in Range(samplingSet) : UnitOf(v) \subseteq Range(samplingSet)
  <2>1. /\ BP!Range(samplingSet) \subseteq BP!Closure /\ BP!Distinct(samplingSet)
        /\ BP!Defines(M, BP!Range(samplingSet), BP!Closure)
        /\ \A v \in BP!Range(samplingSet) : BP!UnitOf(v) \subseteq BP!Range(samplingSet)
    BY <1>1, <1>7, RoundAssumptions, BP!DoneFacts DEF M
  <2> QED  BY <2>1, SameGroups
<1>9. samplingSet \in Seq(Vars)  BY <1>7 DEF BP!TInv, BP!TypeOK
<1>10. ASSUME Bounded PROVE Support(Range(samplingSet))
  <2>1. Support(Closure)  BY <1>2, <1>5, <1>10 DEF BackwardingInv, Handable, Candidates
  <2> QED  BY <1>8, <2>1, DefinesCut DEF Support
<1>11. ASSUME ~ prob.mayTimeOut, NEW v \in Range(samplingSet)
       PROVE  ~ Defines(M, Range(samplingSet) \ UnitOf(v), UnitOf(v))
  <2>1. BP!ResultIsMinimal
    BY <1>7, RoundAssumptions, BP!NeededIsMinimal DEF BP!ElimInv
  <2>2. \A w \in BP!Range(samplingSet) :
            ~ BP!Defines(M, BP!Range(samplingSet) \ BP!UnitOf(w), BP!UnitOf(w))
    BY <1>1, <1>7, <1>11, <2>1 DEF BP!ResultIsMinimal, M
  <2> QED  BY <2>2, SameGroups
<1>12. Good(samplingSet)  BY <1>6, <1>8, <1>10, <1>11 DEF Good
<1>13. Handable(samplingSet)
  <2>1. ASSUME Bounded PROVE Support(Units(Range(samplingSet)))
    <3>1. Range(samplingSet) \subseteq Units(Range(samplingSet))
      BY <1>6, <1>8, InterestFacts
    <3> QED  BY <1>10, <2>1, <3>1, DefinesMono DEF Support
  <2> QED  BY <1>6, <1>8, <1>9, <2>1 DEF Handable
<1>14. Good(samplingSet)' /\ Handable(samplingSet)'
  BY <1>1, <1>3, <1>12, <1>13, KeptFixed
<1> QED  BY <1>1, <1>3, <1>4, <1>14 DEF PhaseInv

LEMMA FinishKeeps ==
    ASSUME InputInOrder, PhaseInv, Finish PROVE PhaseInv'
<1>1. /\ phase = "finish" /\ phase' = "returned"
      /\ okay' \in (IF Unsat THEN {okay, FALSE} ELSE {okay})
      /\ samplingSet' = (IF okay' THEN samplingSet ELSE <<>>)
      /\ UNCHANGED <<setting, asked, prob, conf, indicated, pc>>
  BY DEF Finish, input, ofPreprocess
<1>2. ProblemType(prob) /\ SolverInv  BY <1>1 DEF PhaseInv
<1>3. SameProblem /\ ProblemType(prob)'
  BY <1>1, <1>2 DEF SameProblem, ProblemType
<1>4. SolverInv'  BY <1>1, <1>2, <1>3, Fixed DEF SolverInv
<1>5. ASSUME setting'.backward, okay' PROVE Good(samplingSet)'
  <2>1. okay /\ samplingSet' = samplingSet  BY <1>1, <1>5
  <2>2. pc = "done"  BY <1>2, <2>1 DEF SolverInv
  <2>3. Good(samplingSet)  BY <1>1, <1>5, <2>2 DEF PhaseInv
  <2> QED  BY <1>3, <2>1, <2>3, KeptFixed
<1>6. ~ okay' => samplingSet' = <<>>  BY <1>1
<1> QED  BY <1>1, <1>3, <1>4, <1>5, <1>6 DEF PhaseInv

\* Nothing changes.
LEMMA StutterKeeps ==
    ASSUME InputInOrder, PhaseInv, UNCHANGED vars PROVE PhaseInv'
<1>1. /\ UNCHANGED <<setting, asked, phase, prob, samplingSet, seen, conf, okay, known>>
      /\ UNCHANGED <<indicated, eqLits, pc, gpc, fpc, bpc, group, round, dontRemove, assumed>>
      /\ UNCHANGED <<guessSet, tried, pick, testGroup, todo, member, ret, origAssSize>>
      /\ UNCHANGED <<i, j, added, otherSamplingSet, unknown, unknownSet, indep, testVar>>
      /\ UNCHANGED <<iter, assumptions, cursor, definitelySatisfiable>>
  BY DEF vars, input, solver, ofPreprocess, ofGuess, ofForward, ofBackward, locals
<1>2. SameProblem /\ ProblemType(prob)'
  BY <1>1 DEF PhaseInv, SameProblem, ProblemType
<1>3. SolverInv => SolverInv'  BY <1>1, <1>2, Fixed DEF SolverInv
<1>4. PreTypes /\ PreInv => PreTypes' /\ PreInv'
  BY <1>1, PreNextKeeps DEF preVars, preData
<1>5. GuessingInv => GuessingInv'
  <2>1. UNCHANGED GP!vars
    BY <1>1 DEF GP!vars, GP!data, GP!setVars, GP!roundVars, GP!workVars
  <2>2. GP!TypeInv /\ GP!GuessInv => GP!TypeInv' /\ GP!GuessInv'
    BY <2>1, RoundAssumptions, GP!TypeStep, GP!InvStep
  <2> QED  BY <1>1, <1>2, <2>2, KeptFixed DEF GuessingInv
<1>6. ForwardingInv => ForwardingInv'
  <2>1. UNCHANGED FP!vars
    BY <1>1 DEF FP!vars, FP!data, FP!pickVars, FP!loopVars
  <2>2. ForwardingInv =>
            FP!TypeInv' /\ FP!Inductive' /\ FP!NoFailure' /\ FP!CountInv' /\ ~ FP!Failed'
    <3> SUFFICES ASSUME ForwardingInv
                 PROVE  /\ FP!TypeInv' /\ FP!Inductive' /\ FP!NoFailure' /\ FP!CountInv'
                        /\ ~ FP!Failed'
      OBVIOUS
    <3>1. FP!GroupsFit  BY HandableFits, SameGroups DEF ForwardingInv
    <3>2. FP!TypeInv /\ FP!Inductive /\ FP!NoFailure /\ FP!CountInv /\ ~ FP!Failed
      BY DEF ForwardingInv
    <3>3. ~ FP!Failed'  BY <1>1, <3>2 DEF FP!Failed
    <3> QED
      BY <2>1, <3>1, <3>2, <3>3, RoundAssumptions, FP!TypeStep, FP!InvStep,
         FP!NoFailureStep, FP!CountStep
  <2>3. Candidates' = Candidates  BY <1>1 DEF Candidates
  <2>4. Support(Candidates) => Support(Candidates)'
    <3>1. Support(Candidates) => Support(Candidates')  BY <2>3
    <3> QED  BY <1>2, <3>1, Fixed
  <2> QED  BY <1>1, <1>2, <2>2, <2>3, <2>4, KeptFixed, Fixed DEF ForwardingInv
<1>7. BackwardInv => BackwardInv'  BY <1>1, <1>2, KeptFixed, Fixed DEF BackwardInv
<1>8. BackwardingInv => BackwardingInv'
  <2>1. UNCHANGED BP!vars
    BY <1>1 DEF BP!vars, BP!data, BP!setVars, BP!workVars, BP!loopVars, BP!testVars,
                BP!assVars, BP!fillVars
  <2>2. BP!TInv /\ BP!Inductive /\ BP!NoFailure /\ BP!ElimInv =>
            BP!TInv' /\ BP!Inductive' /\ BP!NoFailure' /\ BP!ElimInv'
    BY <2>1, RoundAssumptions, BP!TInvStep, BP!InductiveStep, BP!NoFailureStep, BP!ElimStep
  <2>3. ~ BP!Failed => ~ BP!Failed'  BY <1>1 DEF BP!Failed
  <2>4. Closure' = Closure
    BY <1>1 DEF Closure, Candidates, UnitOf, InGroup, Mapped, Group
  <2> QED  BY <1>1, <1>2, <2>2, <2>3, <2>4, KeptFixed, Fixed DEF BackwardingInv
<1>9. /\ Handable(samplingSet) => Handable(samplingSet)'
      /\ Good(samplingSet) => Good(samplingSet)'
      /\ EarlyInv(samplingSet) => EarlyInv(samplingSet)'
      /\ interest' = interest /\ (Fits' <=> Fits)
  BY <1>1, <1>2, KeptFixed, Fixed
<1>10. CASE phase = "preprocess"
  BY <1>1, <1>2, <1>4, <1>10 DEF PhaseInv
<1>11. CASE phase = "guess" \/ phase = "forward"
  BY <1>1, <1>2, <1>3, <1>9, <1>11 DEF PhaseInv
<1>12. CASE phase \in {"guessing", "forwarding", "backward", "backwarding"}
  BY <1>1, <1>2, <1>3, <1>5, <1>6, <1>7, <1>8, <1>12 DEF PhaseInv
<1>13. CASE phase \notin {"preprocess", "guess", "forward", "guessing", "forwarding",
                          "backward", "backwarding"}
  BY <1>1, <1>2, <1>3, <1>9, <1>13 DEF PhaseInv
<1> QED  BY <1>10, <1>11, <1>12, <1>13

\* What was asked for, and the groups, stay what they are.
LEMMA NextSame == [Next]_vars => SameProblem
<1> SUFFICES ASSUME [Next]_vars PROVE SameProblem  OBVIOUS
<1> USE DEF SameProblem, input
<1>1. CASE Preprocess
  <2>1. prob' = prob
    BY <1>1 DEF Preprocess, PreStep, Start, Check, PreSimplify, Search, RemoveEq, FlagAll,
                UnflagEqual, KeepFlagged, RemoveZero, Probe, Double
  <2> QED  BY <1>1, <2>1 DEF Preprocess
<1>2. CASE NotClean \/ Finish \/ Stopped \/ UNCHANGED vars
  BY <1>2 DEF NotClean, Finish, Stopped, vars
<1>3. CASE \/ Skip("guess", "forward") \/ Skip("forward", "backward")
           \/ Skip("backward", "finish")
  BY <1>3 DEF Skip
<1>4. CASE EnterGuess \/ EnterForward \/ EnterBackward
  BY <1>4 DEF EnterGuess, EnterForward, EnterBackward, Handed
<1>5. CASE LeaveGuess \/ LeaveForward \/ LeaveBackward
  BY <1>5 DEF LeaveGuess, LeaveForward, LeaveBackward
<1>6. CASE Guess
  <2>1. GP!Next  BY <1>6, GuessSteps DEF Guess, GP!Next
  <2>2. prob' = prob  BY <2>1, RoundAssumptions, GP!InputFixed
  <2> QED  BY <1>6, <2>2 DEF Guess
<1>7. CASE Forward
  <2>1. FP!Next  BY <1>7, ForwardSteps DEF Forward, FP!Next
  <2>2. prob' = prob  BY <2>1, RoundAssumptions, FP!InputFixed
  <2> QED  BY <1>7, <2>2 DEF Forward
<1>8. CASE Backward
  <2>1. BP!Next  BY <1>8, BackwardSteps DEF Backward, BP!Next
  <2>2. prob' = prob  BY <2>1, RoundAssumptions, BP!InputFixed
  <2> QED  BY <1>8, <2>2 DEF Backward
<1> QED  BY <1>1, <1>2, <1>3, <1>4, <1>5, <1>6, <1>7, <1>8 DEF Next, Step

LEMMA PipeStep == PipeInv /\ [Next]_vars => PipeInv'
<1> SUFFICES ASSUME PipeInv, [Next]_vars, InputInOrder' PROVE PhaseInv'
  BY DEF PipeInv
<1>1. InputInOrder  BY NextSame, Fixed
<1>2. PhaseInv  BY <1>1 DEF PipeInv
<1>3. CASE Preprocess  BY <1>1, <1>2, <1>3, PreprocessKeeps
<1>4. CASE NotClean  BY <1>1, <1>2, <1>4, NotCleanKeeps
<1>5. CASE \/ Skip("guess", "forward") \/ Skip("forward", "backward")
           \/ Skip("backward", "finish")
  BY <1>1, <1>2, <1>5, SkipKeeps
<1>6. CASE EnterGuess  BY <1>1, <1>2, <1>6, EnterGuessKeeps
<1>7. CASE Guess  BY <1>1, <1>2, <1>7, GuessKeeps
<1>8. CASE LeaveGuess  BY <1>1, <1>2, <1>8, LeaveGuessKeeps
<1>9. CASE EnterForward  BY <1>1, <1>2, <1>9, EnterForwardKeeps
<1>10. CASE Forward  BY <1>1, <1>2, <1>10, ForwardKeeps
<1>11. CASE LeaveForward  BY <1>1, <1>2, <1>11, LeaveForwardKeeps
<1>12. CASE EnterBackward  BY <1>1, <1>2, <1>12, EnterBackwardKeeps
<1>13. CASE Backward  BY <1>1, <1>2, <1>13, BackwardKeeps
<1>14. CASE LeaveBackward  BY <1>1, <1>2, <1>14, LeaveBackwardKeeps
<1>15. CASE Finish  BY <1>1, <1>2, <1>15, FinishKeeps
<1>16. CASE Stopped \/ UNCHANGED vars  BY <1>1, <1>2, <1>16, StutterKeeps DEF Stopped
<1> QED
  BY <1>3, <1>4, <1>5, <1>6, <1>7, <1>8, <1>9, <1>10, <1>11, <1>12, <1>13, <1>14, <1>15,
     <1>16
  DEF Next, Step

LEMMA PipeHolds == Spec => []PipeInv
BY InitPipe, PipeStep, PTL DEF Spec

\* With no more variables than the iterations the forward round allows itself, what a phase
\* of get_indep_set (arjun.cpp 136-165) hands to the next one determines, with the groups
\* it lies in, what the user asked for.
THEOREM PipelineKeepsSupport ==
    ASSUME IsFiniteSet(Vars), Cardinality(Vars) <= MaxIters
    PROVE  Spec => []PhasesKeepSupport
<1>1. PipeInv => PhasesKeepSupport
  <2> SUFFICES ASSUME PhaseInv, InputInOrder, Between
               PROVE  Defines(M, Units(Range(samplingSet)), interest)
    BY DEF PipeInv, PhasesKeepSupport, Units, M
  <2>1. Bounded  BY DEF Bounded
  <2>2. CASE phase \in {"guess", "forward", "backward"}
    <3>1. Handable(samplingSet)  BY <2>2 DEF PhaseInv, EarlyInv, BackwardInv
    <3> QED  BY <2>1, <3>1 DEF Handable, Support
  <2>3. CASE phase = "finish" /\ pc = "done"
    <3>1. Handable(samplingSet)  BY <2>3 DEF PhaseInv
    <3> QED  BY <2>1, <3>1 DEF Handable, Support
  <2>4. CASE phase = "finish" /\ pc # "done"
    <3>1. SolverInv  BY <2>4 DEF PhaseInv
    <3>2. M = {}  BY <2>4, <3>1 DEF SolverInv, Unsat, M
    <3> QED  BY <3>2 DEF Defines
  <2> QED  BY <2>2, <2>3, <2>4 DEF Between
<1> QED  BY <1>1, PipeHolds, PTL

\* Under the same bound the default run returns a support of whole groups, and without
\* time-outs none of them can be spared (backward.cpp; README.md of the repository).
THEOREM PipelineResultIsMinimal ==
    ASSUME IsFiniteSet(Vars), Cardinality(Vars) <= MaxIters
    PROVE  Spec => []ResultIsMinimal
<1>1. PipeInv => ResultIsMinimal
  <2> SUFFICES ASSUME PhaseInv, InputInOrder, phase = "returned", setting.backward
               PROVE  /\ Range(samplingSet) \subseteq interest
                      /\ Defines(M, Range(samplingSet), interest)
                      /\ \A v \in Range(samplingSet) : UnitOf(v) \subseteq Range(samplingSet)
                      /\ ~ prob.mayTimeOut /\ pc = "done" => \A v \in Range(samplingSet) :
                             ~ Defines(M, Range(samplingSet) \ UnitOf(v), UnitOf(v))
    BY DEF PipeInv, ResultIsMinimal, M
  <2>1. Bounded  BY DEF Bounded
  <2>2. CASE okay
    <3>1. Good(samplingSet)  BY <2>2 DEF PhaseInv
    <3> QED  BY <2>1, <3>1 DEF Good, Support
  <2>3. CASE ~ okay
    <3>1. samplingSet = <<>>  BY <2>3 DEF PhaseInv
    <3>2. Range(samplingSet) = {}  BY <3>1 DEF Range
    <3>3. SolverInv  BY DEF PhaseInv
    <3>4. M = {}  BY <2>3, <3>3 DEF SolverInv, Unsat, M
    <3> QED  BY <3>2, <3>4 DEF Defines
  <2> QED  BY <2>2, <2>3
<1> QED  BY <1>1, PipeHolds, PTL

\* Where the phases are made for one another none of the rounds' assertions fails, whatever
\* a round before it has left: every flag is clean, every group has its indicators.
THEOREM PipelineFits == Spec => []PhasesFit
<1>1. PipeInv => PhasesFit  BY DEF PipeInv, PhaseInv, PhasesFit, Fits
<1> QED  BY <1>1, PipeHolds, PTL
=============================================================================
