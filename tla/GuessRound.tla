----------------------------- MODULE GuessRound -----------------------------
(***************************************************************************)
(* Common::run_guess, guess_round and its helpers (guess.cpp): three       *)
(* rounds, each of which assumes a growing window of the shuffled sampling *)
(* set equal in both copies and drops what the solver's propagation finds  *)
(* equal too.  Groups play no part here: members are dropped one by one.   *)
(*                                                                         *)
(* The offset of the window is always 0 and no variable is known to be     *)
(* independent yet (guess.cpp 246-254, 82).  CMS::simplify, which run_guess*)
(* calls first, changes the clauses and not what they mean.                *)
(***************************************************************************)
EXTENDS RoundInput

CONSTANTS
    GuessDiv,      \* guess_div, 10 in the code: windows per round
    MinGuess       \* 20 in the code: the least size of a window step

ASSUME GuessDivAssumption == GuessDiv \in Nat \ {0}
ASSUME MinGuessAssumption == MinGuess \in Nat \ {0}

VARIABLES
    samplingSet, otherSamplingSet,      \* *sampling_set and the buffer it is swapped with
    group,         \* guess_indep, computed once: by how much the window grows
    round,         \* 1: reversed incidence order; 2 and 3: shuffled
    iter,
    unknown, unknownSet, dontRemove,   \* the round's vectors
    assumed,       \* the variables whose indicators are assumed false
    cursor,        \* the position of update_sampling_set's loop
    pc

setVars == <<samplingSet, otherSamplingSet>>
workVars == <<unknown, unknownSet, dontRemove, assumed, iter>>
roundVars == <<workVars, cursor>>
data == <<prob, setVars, group, round, roundVars>>
vars == <<data, pc>>

FirstGroup(s) ==
    IF Len(s) \div GuessDiv >= MinGuess THEN Len(s) \div GuessDiv ELSE MinGuess

-----------------------------------------------------------------------------
\* What run_guess starts from, whatever its input.
Begin ==
    /\ samplingSet = prob.sampling /\ otherSamplingSet = <<>>
    /\ group = FirstGroup(prob.sampling)
    /\ round = 1 /\ iter = 0
    /\ unknown = <<>> /\ unknownSet = {} /\ dontRemove = {} /\ assumed = {}
    /\ cursor = 1
    /\ pc = "round"

Init == prob \in Problems /\ Begin

\* A sampling set smaller than one step of the window is left alone.
SkipRound ==
    /\ pc = "round" /\ round <= 3
    /\ 0 >= Len(samplingSet) \div group
    /\ round' = round + 1
    /\ UNCHANGED <<prob, setVars, group, roundVars, pc>>

\* Sorting by incidence and shuffling: any order.
StartRound ==
    /\ pc = "round" /\ round <= 3
    /\ 0 < Len(samplingSet) \div group
    /\ unknown' \in Orders(samplingSet)
    /\ unknownSet' = Range(samplingSet)
    /\ dontRemove' = {} /\ assumed' = {} /\ iter' = 0
    /\ pc' = "fill"
    /\ UNCHANGED <<prob, setVars, group, round, cursor>>

RunEnds ==
    /\ pc = "round" /\ round > 3
    /\ pc' = "done"
    /\ UNCHANGED data

Window == { unknown[k] : k \in { l \in DOMAIN unknown : l <= group * (iter + 1) } }

\* Mutated: what is assumed is not marked.
FillMarksNothing ==
    /\ pc = "fill"
    /\ assumed' = Window \cap unknownSet
    /\ dontRemove' = {}
    /\ pc' = "remove"
    /\ UNCHANGED <<prob, setVars, group, round, unknown, unknownSet, iter, cursor>>

\* fill_assumptions_guess: what is assumed is marked as not to be removed, for the rest
\* of the round.
Fill ==
    /\ pc = "fill"
    /\ assumed' = Window \cap unknownSet
    /\ dontRemove' = dontRemove \cup assumed'
    /\ pc' = "remove"
    /\ UNCHANGED <<prob, setVars, group, round, unknown, unknownSet, iter, cursor>>

\* SATSolver::implied_by: what propagating the assumptions sets.  It finds nothing that
\* does not follow, not all that follows, and nothing when the assumptions conflict.
Implied == { v \in prob.indicated : Defines(prob.models, assumed, {v}) }

\* The loop of guess_round over the windows.
NextWindow ==
    /\ iter' = iter + 1
    /\ pc' = IF iter' < GuessDiv THEN "fill" ELSE "publish"
    /\ UNCHANGED <<prob, setVars, group, round, unknown, assumed, cursor>>

\* Mutated: what is assumed itself may be dropped.
RemoveAssumedToo ==
    /\ pc = "remove"
    /\ \E found \in SUBSET Implied :
           /\ unknownSet' = unknownSet \ found
           /\ dontRemove' = dontRemove \cup (found \cap unknownSet)
    /\ NextWindow

\* guess_remove_and_update_ass.
RemoveImplied ==
    /\ pc = "remove"
    /\ \E found \in SUBSET Implied :
           LET dependent == (found \cap unknownSet) \ dontRemove
           IN  /\ unknownSet' = unknownSet \ dependent
               /\ dontRemove' = dontRemove \cup dependent
    /\ NextWindow

(* update_sampling_set: what is still flagged, in the order of the round.  The buffer that
   is swapped out is cleared before it is used again. *)

PublishUnknown ==
    /\ pc = "publish" /\ cursor <= Len(unknown)
    /\ otherSamplingSet' = IF unknown[cursor] \in unknownSet
                           THEN Append(otherSamplingSet, unknown[cursor])
                           ELSE otherSamplingSet
    /\ cursor' = cursor + 1
    /\ UNCHANGED <<prob, samplingSet, group, round, workVars, pc>>

PublishSwap ==
    /\ pc = "publish" /\ cursor > Len(unknown)
    /\ samplingSet' = otherSamplingSet /\ otherSamplingSet' = <<>>
    /\ cursor' = 1
    /\ round' = round + 1
    /\ pc' = "round"
    /\ UNCHANGED <<prob, group, workVars>>

Stopped == pc = "done" /\ UNCHANGED vars

Step == SkipRound \/ StartRound \/ RunEnds \/ Fill \/ RemoveImplied
        \/ PublishUnknown \/ PublishSwap
Next == Step \/ Stopped

\* A sequential program runs on; implied_by only propagates.
Spec == Init /\ [][Next]_vars /\ WF_vars(Step)

-----------------------------------------------------------------------------
InRound == pc \in {"fill", "remove", "publish"}

\* What has been dropped in a round is determined by the variables assumed last, though
\* it was dropped under earlier, smaller windows: windows only grow, and nothing that a
\* drop relied on is dropped later (guess.cpp 57, 198-202).
DroppedDetermined ==
    InRound /\ dontRemove # {} =>
        Defines(prob.models, assumed \cap unknownSet, Range(unknown) \ unknownSet)

\* The published set determines the variables of interest after each of the rounds, and
\* so does what is still flagged in the middle of one.
GuessSupports ==
    /\ Defines(prob.models, Range(samplingSet), Candidates)
    /\ InRound => Defines(prob.models, unknownSet, Candidates)
=============================================================================
