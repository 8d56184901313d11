--------------------------- MODULE Preprocessing ---------------------------
(***************************************************************************)
(* Common::preproc_and_duplicate (common.cpp) and Common::simplify with    *)
(* the functions it calls (simplify.cpp): with conf.simp, variables that   *)
(* the solver finds set, or equal to another one, leave the sampling set   *)
(* before the problem is doubled.                                          *)
(*                                                                         *)
(* The solver's own work is external: at any time it knows some of the     *)
(* variables that are set, and some of the equivalences, and may or may    *)
(* not have noticed that the formula is unsatisfiable.  How backbone_simpl *)
(* finds literals is module Backbone; here it is one more source of them.  *)
(***************************************************************************)
EXTENDS RoundInput, FiniteSets

CONSTANTS
    Confs,         \* settings of the fields of conf: see ConfType
    MaxPairs       \* bound: how many equivalences one call reports

ASSUME MaxPairsAssumption == MaxPairs \in Nat
ASSUME VarsAreIndices == Vars \subseteq Nat
ASSUME ConfsAssumption ==
    Confs \subseteq [simp : BOOLEAN, pre_simplify : BOOLEAN, backbone_simpl : BOOLEAN,
                     probe_based : BOOLEAN]

VARIABLES
    conf,
    samplingSet,
    seen,                   \* Common::seen
    okay,                   \* SATSolver::okay(): not found unsatisfiable
    known,                  \* the variables the solver has found set
    definitelySatisfiable,
    indicated,              \* the variables that have an indicator (var_to_indic)
    eqLits,                 \* remove_eq_literals: the pairs not looked at yet
    pc

preData == <<conf, prob, samplingSet, seen, okay, known, definitelySatisfiable, indicated,
             eqLits>>
preVars == <<preData, pc>>

-----------------------------------------------------------------------------
(* The solver *)

\* Variables with one value in all models, and pairs that are equal, or opposite, in all.
SetVars == { v \in Vars : Defines(prob.models, {}, {v}) }
EqualPairs ==
    { p \in Vars \X Vars : /\ p[1] # p[2]
                           /\ \/ \A a \in prob.models : p[1] \in a <=> p[2] \in a
                              \/ \A a \in prob.models : p[1] \in a <=> p[2] \notin a }
Unsat == prob.models = {}

\* get_all_binary_xors: some equivalences, each once, in some order.
Reports == { s \in UNION { [1 .. n -> EqualPairs] : n \in 0 .. MaxPairs } : Distinct(s) }

\* A call that may find more variables set, or that there is no model.
SolverWorks(next) ==
    \/ /\ known' \in { k \in SUBSET SetVars : known \subseteq k }
       /\ pc' = next /\ okay' = okay
    \/ /\ Unsat /\ okay' = FALSE
       /\ pc' = "unsat" /\ known' = known

-----------------------------------------------------------------------------
PreInit ==
    /\ prob \in Problems /\ conf \in Confs
    /\ samplingSet = prob.sampling
    /\ seen = {} /\ known = {} /\ indicated = {} /\ eqLits = <<>>
    /\ okay \in IF Unsat THEN BOOLEAN ELSE {TRUE}
    /\ definitelySatisfiable = FALSE
    /\ pc = "start"

Start ==
    /\ pc = "start"
    /\ seen' = {}
    /\ pc' = IF conf.simp THEN "check" ELSE "double"
    /\ UNCHANGED <<conf, prob, samplingSet, okay, known, definitelySatisfiable, indicated, eqLits>>

\* check_no_duplicate_in_sampling_set
Check(at, next) ==
    /\ pc = at
    /\ pc' = IF Distinct(samplingSet) /\ Range(samplingSet) \cap seen = {} THEN next
             ELSE "abort"
    /\ seen' = IF pc' = next THEN seen \ Range(samplingSet) ELSE seen
    /\ UNCHANGED <<conf, prob, samplingSet, okay, known, definitelySatisfiable, indicated, eqLits>>

PreSimplify ==
    /\ pc = "presimplify"
    /\ IF conf.pre_simplify
       THEN SolverWorks("search")
       ELSE pc' = "search" /\ UNCHANGED <<okay, known>>
    /\ UNCHANGED <<conf, prob, samplingSet, seen, definitelySatisfiable, indicated, eqLits>>

\* backbone_simpl, or a solve whose answer "unsatisfiable" is not looked at: whether the
\* solver is still okay after it is the solver's affair.
Search ==
    /\ pc = "search"
    /\ IF conf.backbone_simpl
       THEN /\ SolverWorks("eq")
            /\ UNCHANGED definitelySatisfiable
       ELSE /\ known' \in { k \in SUBSET SetVars : known \subseteq k }
            /\ okay' \in IF Unsat THEN {okay, FALSE} ELSE {okay}
            /\ definitelySatisfiable' \in IF Unsat THEN {FALSE} ELSE BOOLEAN
            /\ pc' = "eq"
    /\ UNCHANGED <<conf, prob, samplingSet, seen, indicated, eqLits>>

\* What is flagged, in the order of the variables' numbers.
Ascending(flags) ==
    { s \in [1 .. Cardinality(flags) -> flags] :
        Range(s) = flags /\ \A k, l \in DOMAIN s : k < l => s[k] < s[l] }

\* Mutated: the first of two equal variables goes, whether or not the second is there.
UnflagUnchecked(flags, p) == flags \ {p[1]}

\* The first of two equal variables goes, if both are (still) flagged.
Unflag(flags, p) == IF p[1] \in flags /\ p[2] \in flags THEN flags \ {p[1]} ELSE flags

(* remove_eq_literals: flag the set, look at the pairs, keep what is still flagged. *)

FlagAll(at, loop) ==
    /\ pc = at
    /\ seen' = seen \cup Range(samplingSet)
    /\ eqLits' \in Reports
    /\ pc' = loop
    /\ UNCHANGED <<conf, prob, samplingSet, okay, known, definitelySatisfiable, indicated>>

UnflagEqual(loop) ==
    /\ pc = loop /\ eqLits # <<>>
    /\ seen' = Unflag(seen, Head(eqLits))
    /\ eqLits' = Tail(eqLits)
    /\ UNCHANGED <<conf, prob, samplingSet, okay, known, definitelySatisfiable, indicated, pc>>

\* Mutated: the flags stay set.
KeepFlaggedKeepsFlags(loop, next) ==
    /\ pc = loop /\ eqLits = <<>>
    /\ samplingSet' \in Ascending(seen)
    /\ seen' = seen
    /\ pc' = next
    /\ UNCHANGED <<conf, prob, okay, known, definitelySatisfiable, indicated, eqLits>>

KeepFlagged(loop, next) ==
    /\ pc = loop /\ eqLits = <<>>
    /\ samplingSet' \in Ascending(seen)
    /\ seen' = {}
    /\ pc' = next
    /\ UNCHANGED <<conf, prob, okay, known, definitelySatisfiable, indicated, eqLits>>

RemoveEq(at, loop, next) == FlagAll(at, loop) \/ UnflagEqual(loop) \/ KeepFlagged(loop, next)

RemoveZero(at, next) ==
    /\ pc = at
    /\ samplingSet' \in Ascending(Range(samplingSet) \ known)
    /\ seen' = {}
    /\ pc' = next
    /\ UNCHANGED <<conf, prob, okay, known, definitelySatisfiable, indicated, eqLits>>

\* probe_all up to the removals: the set is sorted by incidence (any order), every
\* variable is probed, and the solver replaces equivalent variables.
Probe ==
    /\ pc = "probe"
    /\ IF conf.probe_based
       THEN /\ SolverWorks("probeZero")
            /\ samplingSet' \in Orders(samplingSet)
       ELSE pc' = "checkAgain" /\ UNCHANGED <<okay, known, samplingSet>>
    /\ UNCHANGED <<conf, prob, seen, definitelySatisfiable, indicated, eqLits>>

\* duplicate_problem, simplify_bve_only, add_fixed_clauses and run_gauss_jordan; the
\* solver simplifies again only with conf.simp.  `seen` gets its final size.
Double ==
    /\ pc = "double"
    /\ \/ pc' = "done" /\ indicated' = Range(samplingSet) /\ okay' = okay
       \/ /\ conf.simp /\ Unsat
          /\ pc' = "unsat" /\ okay' = FALSE /\ indicated' \in {{}, Range(samplingSet)}
       \/ Unsat /\ pc' = "done" /\ indicated' = Range(samplingSet) /\ okay' = FALSE
    /\ seen' = {}
    /\ UNCHANGED <<conf, prob, samplingSet, known, definitelySatisfiable, eqLits>>

PreEnded == pc \in {"done", "unsat", "abort"}
PreStopped == PreEnded /\ UNCHANGED preVars

PreStep ==
    \/ Start \/ Check("check", "presimplify")
    \/ PreSimplify \/ Search
    \/ RemoveEq("eq", "eqLoop", "zero") \/ RemoveZero("zero", "probe")
    \/ Probe
    \/ RemoveZero("probeZero", "probeEq") \/ RemoveEq("probeEq", "probeEqLoop", "checkAgain")
    \/ Check("checkAgain", "double")
    \/ Double

PreNext == PreStep \/ PreStopped

\* A sequential program runs on; the solver's calls are bounded by conflict limits.
PreSpec == PreInit /\ [][PreNext]_preVars /\ WF_preVars(PreStep)

-----------------------------------------------------------------------------
\* Whatever the solver reports, in chains and cycles of equivalences and in any order,
\* what stays in the sampling set determines what was in it; and nothing gets into it that
\* was not there, not even through flags an earlier pass has left set (all share `seen`).
PreprocessingSupports ==
    /\ Range(samplingSet) \subseteq Candidates
    /\ Defines(prob.models, Range(samplingSet), Candidates)

\* The rounds get a set without duplicates: the second check never fails, and the first
\* one fails only on input that lists a variable twice.
NoDuplicateArises ==
    Distinct(prob.sampling) => pc # "abort" /\ Distinct(samplingSet)
=============================================================================
