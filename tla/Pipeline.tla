------------------------------ MODULE Pipeline ------------------------------
(***************************************************************************)
(* Arjun::get_indep_set (arjun.cpp): preprocessing, guess, forward and     *)
(* backward round, one after the other, each if it is switched on, on one  *)
(* Common object.  The phases are the modules of their own; they meet in   *)
(* *sampling_set, in the flags `seen`, in the variables that have an       *)
(* indicator, and in the solver.                                           *)
(*                                                                         *)
(* The vectors of a phase are locals of its function: each phase starts    *)
(* with its own.  empty_occs, which get_indep_set puts in front of the     *)
(* result, is filled nowhere in this code base.                            *)
(*                                                                         *)
(* pc is where the preprocessing is; gpc, fpc and bpc say where each of    *)
(* the rounds is.                                                          *)
(***************************************************************************)
EXTENDS Preprocessing

CONSTANTS
    GuessDiv, MinGuess,         \* of GuessRound
    ForwardGroup, MaxIters,     \* of ForwardRound
    UpdatePeriod,               \* of BackwardRound
    Settings                    \* which rounds are switched on, see SettingsAssumption

ASSUME SettingsAssumption ==
    Settings \subseteq [guess : BOOLEAN, forward : BOOLEAN, backward : BOOLEAN]
ASSUME RoundConstants ==
    /\ GuessDiv \in Nat \ {0} /\ MinGuess \in Nat \ {0}
    /\ ForwardGroup \in Nat /\ MaxIters \in Nat
    /\ UpdatePeriod \in Nat \ {0}

VARIABLES
    setting,                    \* conf.guess, conf.forward, conf.backward
    asked,                      \* what the user asked for: the first sampling set
    phase,
    group, round, dontRemove, assumed, gpc,
    guessSet, tried, pick, testGroup, todo, fpc,
    member, ret, origAssSize, i, j, added, bpc,
    otherSamplingSet, unknown, unknownSet, indep, testVar, iter, assumptions,
    cursor                      \* of several rounds

input == <<setting, asked>>
solver == <<conf, okay, known, definitelySatisfiable, indicated>>
ofPreprocess == <<eqLits, pc>>
ofGuess == <<group, round, dontRemove, assumed, gpc>>
ofForward == <<guessSet, tried, pick, testGroup, todo, fpc>>
ofBackward == <<member, ret, origAssSize, i, j, added, bpc>>
locals == <<otherSamplingSet, unknown, unknownSet, indep, testVar, iter, assumptions, cursor>>
vars == <<input, phase, prob, samplingSet, seen, solver, ofPreprocess, ofGuess, ofForward,
          ofBackward, locals>>

G == INSTANCE GuessRound WITH pc <- gpc
F == INSTANCE ForwardRound WITH pc <- fpc
B == INSTANCE BackwardRound WITH pc <- bpc

-----------------------------------------------------------------------------
Init ==
    /\ PreInit
    /\ setting \in Settings /\ asked = prob.sampling
    /\ group = 0 /\ round = 0 /\ dontRemove = {} /\ assumed = {} /\ gpc = "none"
    /\ guessSet = {} /\ tried = {} /\ pick = <<>> /\ testGroup = <<>> /\ todo = {}
    /\ fpc = "none"
    /\ member = 1 /\ ret = "undef" /\ origAssSize = 0
    /\ i = 1 /\ j = 1 /\ added = {} /\ bpc = "none"
    /\ otherSamplingSet = <<>> /\ unknown = <<>> /\ unknownSet = {} /\ indep = <<>>
    /\ testVar = NoVar /\ iter = 0 /\ assumptions = <<>> /\ cursor = 1
    /\ phase = "preprocess"

\* What a round starts from: the sampling set and the indicators as they are by then.
Handed ==
    [models |-> prob.models, sampling |-> samplingSet, varGroups |-> prob.varGroups,
     groupOf |-> prob.groupOf, indicated |-> indicated, groupIndep |-> prob.groupIndep,
     mayTimeOut |-> prob.mayTimeOut]

\* The locals that several rounds have, when one of them is left or entered.
FreshLocals ==
    /\ otherSamplingSet' = <<>> /\ indep' = <<>> /\ testVar' = NoVar /\ iter' = 0
    /\ assumptions' = <<>> /\ cursor' = 1

NoUnknown == unknown' = <<>> /\ unknownSet' = {}

Preprocess ==
    /\ phase = "preprocess"
    /\ PreStep
    /\ phase' = CASE pc' = "done" -> "guess"
               [] pc' = "unsat" -> "finish"
               [] pc' = "abort" -> "abort"
               [] OTHER -> phase
    /\ UNCHANGED <<input, ofGuess, ofForward, ofBackward, locals>>

Skip(here, next) ==
    /\ phase = here /\ ~ setting[here]
    /\ phase' = next
    /\ UNCHANGED <<input, prob, samplingSet, seen, solver, ofPreprocess, ofGuess, ofForward,
                   ofBackward, locals>>

\* Each round asserts that `seen` is clean (guess.cpp 77, forward.cpp 158, backward.cpp 92).
NotClean ==
    /\ phase \in {"guess", "forward", "backward"} /\ setting[phase]
    /\ seen # {}
    /\ phase' = "abort"
    /\ UNCHANGED <<input, prob, samplingSet, seen, solver, ofPreprocess, ofGuess, ofForward,
                   ofBackward, locals>>

EnterGuess ==
    /\ phase = "guess" /\ setting.guess /\ seen = {}
    /\ prob' = Handed
    /\ group' = G!FirstGroup(samplingSet) /\ round' = 1 /\ dontRemove' = {} /\ assumed' = {}
    /\ gpc' = "round"
    /\ FreshLocals /\ NoUnknown
    /\ phase' = "guessing"
    /\ UNCHANGED <<input, samplingSet, seen, solver, ofPreprocess, ofForward, ofBackward>>

Guess ==
    /\ phase = "guessing" /\ gpc # "done"
    /\ G!Step
    /\ UNCHANGED <<input, phase, seen, solver, ofPreprocess, ofForward, ofBackward, indep,
                   testVar, assumptions>>

LeaveGuess ==
    /\ phase = "guessing" /\ gpc = "done"
    /\ group' = 0 /\ round' = 0 /\ dontRemove' = {} /\ assumed' = {} /\ gpc' = "none"
    /\ FreshLocals /\ NoUnknown
    /\ phase' = "forward"
    /\ UNCHANGED <<input, prob, samplingSet, seen, solver, ofPreprocess, ofForward,
                   ofBackward>>

EnterForward ==
    /\ phase = "forward" /\ setting.forward /\ seen = {}
    /\ prob' = Handed
    /\ unknown' = F!Reverse(samplingSet) /\ unknownSet' = Range(samplingSet)
    /\ guessSet' = {} /\ tried' = {} /\ testGroup' = <<>> /\ todo' = {}
    /\ pick' \in Orders(unknown')
    /\ fpc' = "guess"
    /\ FreshLocals
    /\ phase' = "forwarding"
    /\ UNCHANGED <<input, samplingSet, seen, solver, ofPreprocess, ofGuess, ofBackward>>

Forward ==
    /\ phase = "forwarding" /\ fpc # "done"
    /\ F!Step
    /\ phase' = IF fpc' \in {"abort", "wild"} THEN "abort" ELSE phase
    /\ UNCHANGED <<input, solver, ofPreprocess, ofGuess, ofBackward, otherSamplingSet>>

LeaveForward ==
    /\ phase = "forwarding" /\ fpc = "done"
    /\ guessSet' = {} /\ tried' = {} /\ pick' = <<>> /\ testGroup' = <<>> /\ todo' = {}
    /\ fpc' = "none"
    /\ FreshLocals /\ NoUnknown
    /\ phase' = "backward"
    /\ UNCHANGED <<input, prob, samplingSet, seen, solver, ofPreprocess, ofGuess, ofBackward>>

EnterBackward ==
    /\ phase = "backward" /\ setting.backward /\ seen = {}
    /\ prob' = Handed
    /\ member' = 1 /\ ret' = "undef" /\ origAssSize' = 0
    /\ i' = 1 /\ j' = 1 /\ added' = {}
    /\ bpc' = "build"
    /\ FreshLocals /\ NoUnknown
    /\ phase' = "backwarding"
    /\ UNCHANGED <<input, samplingSet, seen, solver, ofPreprocess, ofGuess, ofForward>>

Backward ==
    /\ phase = "backwarding" /\ bpc # "done"
    /\ B!Step
    /\ phase' = IF bpc' \in {"abort", "wild"} THEN "abort" ELSE phase
    /\ UNCHANGED <<input, seen, solver, ofPreprocess, ofGuess, ofForward>>

LeaveBackward ==
    /\ phase = "backwarding" /\ bpc = "done"
    /\ member' = 1 /\ ret' = "undef" /\ origAssSize' = 0
    /\ i' = 1 /\ j' = 1 /\ added' = {} /\ bpc' = "none"
    /\ FreshLocals /\ NoUnknown
    /\ phase' = "finish"
    /\ UNCHANGED <<input, prob, samplingSet, seen, solver, ofPreprocess, ofGuess, ofForward>>

\* Mutated: the result is emptied whether or not the formula is satisfiable.
FinishUnchecked ==
    /\ phase = "finish"
    /\ okay' = okay
    /\ samplingSet' = <<>>
    /\ phase' = "returned"
    /\ UNCHANGED <<input, prob, seen, conf, known, definitelySatisfiable, indicated,
                   ofPreprocess, ofGuess, ofForward, ofBackward, locals>>

\* empty_out_indep_set_if_unsat: the solver may have found out while the rounds ran.
Finish ==
    /\ phase = "finish"
    /\ okay' \in IF Unsat THEN {okay, FALSE} ELSE {okay}
    /\ samplingSet' = IF okay' THEN samplingSet ELSE <<>>
    /\ phase' = "returned"
    /\ UNCHANGED <<input, prob, seen, conf, known, definitelySatisfiable, indicated,
                   ofPreprocess, ofGuess, ofForward, ofBackward, locals>>

Ended == phase \in {"returned", "abort"}
Stopped == Ended /\ UNCHANGED vars

Step ==
    \/ Preprocess \/ NotClean
    \/ Skip("guess", "forward")
    \/ EnterGuess \/ Guess \/ LeaveGuess
    \/ Skip("forward", "backward")
    \/ EnterForward \/ Forward \/ LeaveForward
    \/ Skip("backward", "finish")
    \/ EnterBackward \/ Backward \/ LeaveBackward
    \/ Finish

Next == Step \/ Stopped

\* A sequential program runs on; all the solver's calls are bounded.
Spec == Init /\ [][Next]_vars /\ WF_vars(Step)

-----------------------------------------------------------------------------
Between == phase \in {"guess", "forward", "backward", "finish"}

interest == Range(asked)

\* What the user gives: a set without duplicates, and well-formed groups that lie in it.
InputInOrder ==
    /\ Distinct(asked)
    /\ \A v \in interest :
           /\ Mapped(v)
           /\ InGroup(v) => /\ prob.groupIndep /\ Distinct(Group(v)) /\ v \in Range(Group(v))
                            /\ \A w \in Range(Group(v)) :
                                   w \in interest /\ prob.groupOf[w] = prob.groupOf[v]

Grouped == \E v \in interest : InGroup(v)

\* Between any two phases the groups of the sampling set determine what the user asked
\* for, whichever phases ran, though guess and preprocessing take single members out of
\* groups and the forward round may lose some: whatever follows can repair it.
PhasesKeepSupport ==
    InputInOrder /\ Between =>
        Defines(prob.models, UNION { UnitOf(v) : v \in Range(samplingSet) }, interest)

\* With the backward round (the default) the result is a support made of whole groups of
\* what the user asked for, and without time-outs no group of it can be left out.
ResultIsMinimal ==
    InputInOrder /\ phase = "returned" /\ setting.backward =>
        /\ Range(samplingSet) \subseteq interest
        /\ Defines(prob.models, Range(samplingSet), interest)
        /\ \A v \in Range(samplingSet) : UnitOf(v) \subseteq Range(samplingSet)
        /\ ~ prob.mayTimeOut /\ pc = "done" => \A v \in Range(samplingSet) :
               ~ Defines(prob.models, Range(samplingSet) \ UnitOf(v), UnitOf(v))

\* The phases fit together as main.cpp runs them (backward only), and in every
\* combination when there are no groups: no round's assertions fail.
PhasesFit ==
    /\ InputInOrder
    /\ ~ Grouped \/ (~ conf.simp /\ ~ (setting.guess /\ setting.forward))
    => phase # "abort"

\* get_indep_set returns, or fails an assertion.
Returns == <>Ended
=============================================================================
