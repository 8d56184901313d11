----------------------------- MODULE RoundInput -----------------------------
(***************************************************************************)
(* What the rounds of gismo share: the input they work on, the group       *)
(* lookups of common.cpp, and the solver's view of the doubled problem.    *)
(* Vectors are 1-based sequences; a vector<char> or vector<bool> of flags  *)
(* is the set of flagged variables.                                        *)
(***************************************************************************)
EXTENDS Independence, Integers, Sequences, Functions

CONSTANTS
    Vars,          \* 0 .. orig_num_vars-1
    NoVar,         \* var_Undef
    Problems       \* the inputs of the round, see ProblemType

ASSUME NoVarAssumption == NoVar \notin Vars

(***************************************************************************)
(* The input of a round: the formula, *sampling_set, var_groups (without   *)
(* its empty zeroth group), var2var_group (its domain is the indices the   *)
(* vector has: empty when no group was declared), the variables that got   *)
(* an indicator in add_fixed_clauses, conf.group_indep, and whether        *)
(* backw_max_confl is so low that a call may end without an answer.        *)
(***************************************************************************)
ProblemType(p) ==
    /\ p.models \subseteq SUBSET Vars
    /\ p.sampling \in Seq(Vars)
    /\ p.varGroups \in Seq(Seq(Vars))
    /\ DOMAIN p.groupOf \subseteq Vars
    /\ p.groupOf \in [DOMAIN p.groupOf -> 0 .. Len(p.varGroups)]
    /\ \A v \in DOMAIN p.groupOf :
           p.groupOf[v] # 0 => Len(p.varGroups[p.groupOf[v]]) # 0
    /\ p.indicated \subseteq Vars
    /\ p.groupIndep \in BOOLEAN /\ p.mayTimeOut \in BOOLEAN

ASSUME ProblemsAssumption == \A p \in Problems : ProblemType(p)

VARIABLE prob      \* the input of the round

-----------------------------------------------------------------------------
(* Groups *)

\* in_variable_group's assertion: var2var_group has an entry for v.
Mapped(v) == v \in DOMAIN prob.groupOf

\* in_variable_group, once its assertion holds.
InGroup(v) == Mapped(v) /\ prob.groupOf[v] # 0

\* var_groups[get_group_idx(v)], for a grouped v.
Group(v) == prob.varGroups[prob.groupOf[v]]

\* The test before every group-wise treatment: conf.group_indep && in_variable_group(v).
AsGroup(v) == prob.groupIndep /\ InGroup(v)

Distinct(s) == \A k, l \in DOMAIN s : s[k] = s[l] => k = l

\* What sorting by incidence or shuffling makes of a vector: any order of its entries.
Orders(s) == { [k \in DOMAIN s |-> s[p[k]]] : p \in Bijection(DOMAIN s, DOMAIN s) }

(* Assumptions and the solver *)

\* "v is equal in both copies": v's indicator, negated.
Same(v) == <<"same", v>>

\* "v is true in the first copy and false in the second": a pair of literals.
Differ(v) == <<"differ", v>>

Literals == {"same", "differ"} \X Vars

SameLits(s) == [k \in DOMAIN s |-> Same(s[k])]

Assumed(ass, kind) == { v \in Vars : \E k \in DOMAIN ass : ass[k] = <<kind, v>> }

\* The doubled problem under assumptions.
Satisfiable(ass) ==
    \E a, b \in prob.models :
        /\ Agree(a, b, Assumed(ass, "same"))
        /\ Assumed(ass, "differ") \subseteq a \ b

Answers(ass) ==
    {IF Satisfiable(ass) THEN "true" ELSE "false"}
        \cup (IF prob.mayTimeOut THEN {"undef"} ELSE {})

-----------------------------------------------------------------------------
(***************************************************************************)
(* Inputs the rounds are written for: every candidate has an entry in      *)
(* var2var_group, groups are disjoint and list no variable twice, an       *)
(* ungrouped candidate is listed once, without conf.group_indep nothing is *)
(* grouped, and every variable of a candidate's group got an indicator.    *)
(* The parser does not ensure it; the rounds assert parts of it.           *)
(***************************************************************************)
UnitOf(v) == IF InGroup(v) THEN Range(Group(v)) ELSE {v}

Candidates == Range(prob.sampling)
Closure == UNION { UnitOf(v) : v \in Candidates }

GroupsFit ==
    /\ \A v \in Candidates : Mapped(v)
    /\ ~ prob.groupIndep => \A v \in Candidates : ~ InGroup(v)
    /\ \A k, l \in DOMAIN prob.sampling :
           prob.sampling[k] = prob.sampling[l] => k = l \/ InGroup(prob.sampling[k])
    /\ \A v \in Candidates : InGroup(v) =>
           /\ v \in Range(Group(v)) /\ Distinct(Group(v))
           /\ \A w \in Range(Group(v)) :
                  Mapped(w) /\ prob.groupOf[w] = prob.groupOf[v]

WellFormed == GroupsFit /\ Closure \subseteq prob.indicated
=============================================================================
