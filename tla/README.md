# Verification of gismo

gismo (`src/`, package `arjun-gis`) computes a *minimal group independent
support*: of the variables of interest of a CNF (`c ind`), split into groups
(`c grp`), it keeps groups until what is kept determines the value of every
variable of interest in every model. It is a sequential C++ program on top of the
SAT solver CryptoMiniSat. What makes it hard to get right is not concurrency but
state: vectors that are compacted in place while they are iterated, flags that
shadow them, groups that must move as a whole through phases that do not know about
groups, solver answers that may be time-outs, and assertions (kept in the default
build, `CMakeLists.txt` 75-86) that stop the program when one of those conventions
breaks.

## The system

| component | source (`src/src/`) | state | operations |
|---|---|---|---|
| configuration | `config.h`, setters in `arjun.cpp` 197-407, 640-679 | `conf` | one setter per field; only `--verb --seed --groupind --maxc` are reachable from `main` |
| command line | `main.cpp` | the `Arjun` object | `readInAFile`, `main`, printing |
| input parser | `dimacsparser-gis.h` | `var2var_group`, `var_groups`, `sampling_vars`, header counts | header, `c ind`, `c grp`, clauses, XOR and BNN lines |
| stream buffer | `streambuffer.h` | buffer, position | `parseInt`, `skipEOL`, `skipLine`, ... |
| doubled problem | `common.cpp` 94-197, 284-307 | `var_to_indic`, `indic_to_var`, the solver's clauses | `duplicate_problem`, `add_fixed_clauses`, `preproc_and_duplicate` |
| sampling set | `common.cpp` 33-76 | two buffers and the pointers to them | `update_sampling_set`, `start_with_clean_sampling_set` |
| group index | `common.cpp` 309-318 | `var2var_group`, `var_groups` | `in_variable_group`, `get_group_idx` |
| preprocessing | `simplify.cpp` | sampling set, `seen` | equivalent, set and probed literals, backbone, gate definitions |
| guess | `guess.cpp` | `unknown_set`, assumptions, window | `run_guess`, `guess_round` |
| forward round | `forward.cpp` | `unknown`, `indep`, `guess_set`, window | `forward_round` and helpers |
| backward round | `backward.cpp` | `unknown`, `unknown_set`, `indep`, assumptions | `backward_round`, `fill_assumptions_backward` |
| pipeline | `arjun.cpp` 132-165 | all of the above | `get_indep_set` |
| result CNF | `arjun.cpp` 409-638, `main.cpp` 272-303 | renumbering map | `get_simplified_cnf`, `fill_solver_no_empty`, ... |

Everything is called from one thread. `main` parses (parser -> `Arjun` setters ->
`Common`), calls `get_indep_set`, which runs the phases one after the other on the
shared `Common` object (`sampling_set`, `seen`, `var_to_indic`, the solver), and
prints the final sampling set. The phases communicate only through `*sampling_set`
and the solver.

## What is hard here, and what makes each part correct

* **Backward round.** `fill_assumptions_backward` compacts `unknown` in place while it
  iterates over it and pulls groups forward; the main loop pops a group from the back
  assuming it lies there as a whole; the literals of one test must be gone before the
  next; a time-out counts as "needed". Correct means: every call is made under exactly
  the rest of the variables, every published set is a support, the result is whole
  groups and - without time-outs - minimal.
* **Forward round.** Works on a window of the unknown variables that it guesses to be in
  the result, group members included wherever they are. Correct means: what is dropped
  is determined by the guessed and the kept; the flags in `seen` are clean afterwards.
* **Guess rounds.** Drop what unit propagation derives from an assumed window. Correct
  means: what is assumed is never dropped in the same round, so that the rest stays a
  support.
* **Preprocessing.** Drops variables equal to others, and set ones, one by one and
  without regard to groups. Correct means: one of each class of equals stays.
* **Backbone search.** Finds literals true in all models under a budget. Correct means: only
  implied units are added, and with an unlimited budget all are found.
* **Doubled problem.** Every question is asked about pairs of models through copies and
  indicators that are numbered by position. Correct means: the call the rounds make is
  satisfiable iff two models agree on the assumed variables and differ on the tested one.
* **Pipeline.** The phases meet in `*sampling_set`, `seen`, and the set of variables that
  got an indicator. Correct means: what one phase leaves is what the next needs.
* **Parser.** Lines in any order, no bounds checks on groups; a line is written into maps and
  vectors while it is read, and the functions that skip to its end differ in what they
  accept. Correct means: a file in order gives the rounds what they are written for, every
  line has the effect its kind has as a whole, and every file is read to an end.
* **Stream buffer.** Numbers across chunks, overflow. Correct means: what fits is read as
  written, and what does not fit cannot pass for a variable.
* **Result CNF.** Taken out of a solver that holds two copies, by variable numbers, and
  renumbered without the empty variables. Correct means: the count of its models, projected
  and multiplied as it says, is that of the input.

`PROJECT.json` lists these hazards at their lines with the properties that cover them.

## Modules

Vectors are sequences from 1, vectors of flags are sets of the flagged variables, and an
assignment is the set of variables it makes true. `pc` says which loop or
function a step is in; a failed `assert` is `pc = "abort"`, an access outside a vector
`pc = "wild"`. In `Pipeline`, `pc` is the preprocessing's and the rounds have `gpc`, `fpc`
and `bpc`.

| module | models | of it |
|---|---|---|
| `Independence` | definability over pairs of models | `Defines`, `Separable`; used by all others |
| `GroupElimination` | Algorithm 1 of the paper, which `backward.cpp` implements | `Drop(u)`, `Keep(u)` for a unit (group or ungrouped variable) |
| `RoundInput` | what the rounds share | input, `in_variable_group`, `get_group_idx`, assumptions, answers of a bounded call |
| `BackwardRound` | `backward.cpp`, `update_sampling_set` | `Push*` build `unknown`; `SelectTest` pops; `Fill*` fill the assumptions; `SolveMember` one call; `Classify`; `Publish*` |
| `ForwardRound` | `forward.cpp` | `Guess*` the window, `Assume*` the assumptions, `Pick*` the variable, `Solve`, `Collect*` the result |
| `GuessRound` | `guess.cpp` | `StartRound`, `Fill` one window, `RemoveImplied` what is implied, `Publish` |
| `Preprocessing` | `simplify.cpp` 33-86, 237-269, 523-588; `preproc_and_duplicate` | one action per stage, each by its switch; `remove_eq_literals` pair by pair |
| `Backbone` | `simplify.cpp` 102-221 | `Order`, `FirstModel`, `TestVar`, `SkipVar`, `Return` |
| `DoubledProblem` | `common.cpp` 94-197, 236-307 | clauses as sets of signed numbers: `Duplicate`, `Eliminate`, `AddIndicator`, `ProtectSampling` |
| `Pipeline` | `arjun.cpp` 132-165 | extends `Preprocessing`; instances of the rounds sharing its variables; `Enter`/`Leave` per round |
| `ResultCNF` | `arjun.cpp` 409-638, `elim_to_file` | extends `DoubledProblem`: `Replace` by the solver, `Export` of the first copy, `Fill`, `Finish`, `Return` |
| `DimacsGIS` | `dimacsparser-gis.h`, `readInAFile` | what a file means: one action per kind of line; `HandOver` |
| `GISReader` | `dimacsparser-gis.h`, `skip...` and `parseString` of `streambuffer.h` | how it is read: one action per look at a character, `at` the place in the code |
| `NumberReader` | `streambuffer.h` | `NextCharacter` with its refill, and `parseInt` digit by digit |

`SmallProblems` and the `MC...` modules hold the instances; the `..._proofs` modules the
theorems. `BackwardRound` implements `GroupElimination` (property
`ImplementsElimination`): a unit is pending while it is in `unknown` or under test, and
decided by `Classify`. `Pipeline` composes `Preprocessing`, `GuessRound`,
`ForwardRound` and `BackwardRound`; a round's input (`prob`) is there what `Handed` makes of
the sampling set and the indicators when the round is entered. `GISReader` implements `DimacsGIS` (property
`ReadsLines`): the end of a line is the line's action, all else stutters, with `started` -
what the line found - standing for the variables while a line is half-written.
`RoundInput` states what the rounds rely on: the groups are in order (`GroupsFit`) and, for
the assertions of the backward round, every member has its indicator (`WellFormed`).
`DimacsGIS` instantiates it on what it hands over: its property `GoodFilesWork` is the
assumption under which the theorems about `BackwardRound` hold. `ResultCNF` goes on where `DoubledProblem` ends.

## Runs

| run | shows |
|---|---|
| `backward_small` | the round implements the elimination, ends, asks what it should, publishes supports only, and is minimal without time-outs; on `example/example.gcnf` it finds the line README.md of the program documents |
| `forward_small` | the forward round keeps a support wherever groups lie on the sampling set and are followed by a backward round (`GroupsSupport`), or lie inside or outside the window (`AlignedSupport`) |
| `guess_small` | the guess rounds keep a support whatever part of the consequences propagation finds |
| `preprocessing_small` | every setting of the preprocessing keeps a support and makes no duplicates |
| `backbone_small` | only implied units are added; all are found within the budget |
| `result_small` | the calls on the doubled problem decide separability, and the CNF taken back out of it has as many models, projected and multiplied, as the input |
| `pipeline_small` | the phases in every combination; `PhasesFit` says which combinations fail no assertion |
| `reader_small` | the reader implements the lines, ends, keeps map and groups together, and files in order give well-formed input |
| `numbers_small` | numbers that fit are read as written, wrong ones cannot be variables |
| `forward_straddle` | (violation) a group across the window's edge is lost in part |
| `parser_map` | (violation) input without `c grp` lines has no map, and the program aborts |
| `parser_units` | (violation) a unit clause takes the indicator from a member of a group |

**Bounds.** Three variables give 256 formulas, all of which are taken where the state space
allows, or those with the empty model (negating a variable everywhere changes nothing); with four, formulas whose models are closed under symmetric difference, since in
these a variable is typically determined by a pair of others and by nothing less. A group
of two and a group of three, adjacent and apart, in order and out of it, in and across the
window, cover the ways the loops treat a group: first member, later member, last
member, the member after which another group begins. The window is two (`ForwardGroup`;
10 in the code), guess windows are one to three, a publication is due every second
test (`UpdatePeriod`; 500 in the code, `iter % mod` with `mod` = 1 in small inputs). The forward
round has two iterations (`MaxIters`; 5 million in the code): just enough for four variables,
not for the inputs of five, in which it ends before the last variable or in the middle of a
group.
Solver calls may time out at any time in the inputs with `mayTimeOut`. Files have up
to three lines of up to two literals, with any character where another is expected, and the
numbers 0 (the end of a line), -1 (in range, negated) and 2 (a variable, or the first beyond
a header of 1); the two runs that find violations use files of whole lines. The
result CNF has three variables: every formula over two of them, and formulas over three
with a free variable, two and three equal ones, and two equal ones of which one is in another
clause too. Numbers have five bits, in which the wrap that the test
misses needs two digits as it needs ten in 32 bits, and `HighestVar` is as far below the
width as 2^28 is.

**Fairness.** The program is sequential and every solver call is bounded by
`backw_max_confl` (or the budgets of the preprocessing), so that a step that can be taken
is taken: weak fairness of the whole step. No fairness among alternatives is assumed: which
answer comes, which variable is picked, stays open. The reader's steps are fair for the same
reason; `EndsReading` says that the characters at which the skipping functions stay, the
end and the byte 0, do not keep it.

## Proofs

`ResultCNF_proofs` proves what the models of the rounds rest on: for every number of
variables, CNF, list of BNN constraints and sampling set, repeated entries included, the
calls on the doubled formula decide separability (`CallsAreSeparation`), and nothing they
use may have been eliminated (`IndicatorsSurvive`). The invariant `Connecting` says what
the loop of `add_fixed_clauses` has added so far and whose indicator a variable has; that an
assignment of the whole consists of two models of the input (`SplitModel`, `JoinModels`)
follows from the meaning of a copied literal and of the four clauses of an indicator.

Then it follows the result to its end (`ResultKeepsCount`). `ReplInv`: a replaced variable
has the value of its literal in every model of the doubled formula, and the literal's
variable is not replaced itself, since a further replacement carries the earlier ones along
(`ReplaceKeeps`). What makes it right to tell the first copy's clauses by variable
numbers is `WithinCopy`: a variable of the first copy is never replaced by one of the second,
as the copies can be chosen apart, nor by an indicator, which is false if they are the same.
Hence the exported clauses have the input's models (`ExportIs`, from `ExportSound` and
`ExportAll`). `NewNumbers`: the variables that stay get different numbers without gaps up to
how many they are. `FilledIs` says what the new solver holds, equalities found after the
export included. Under `Empty` a touched clause belongs to a variable that has one empty
literal to follow, no other clause (`TouchedFollows`, `FollowsOne`) and is not to be kept
(`KeptFollowsNone`); so any values of the empty variables and any model of the result make a
model of the input (`JoinedIsModel`), and `Parts` is a bijection (`Counts`). `Empty`
is the caller's part, since the code leaves it to the caller which variables are empty. It is
needed as it stands: if the variable that is equal to an empty one may be in other clauses as
well, the result may count too much.

`ForwardRound_proofs` proves the seven invariants of `forward_small`, for every formula,
sampling set, grouping, window, order of picking and answer. `RoundInv` follows the round
through its loops. While the window is guessed and assumed (`WindowInv`), the flags are the
whole groups of the entries met so far, so a group met again is passed over rightly. In the
main loop (`SettledInv`, `LoopInv`) guess, tested and kept variables are three sets of whole
units, the guess apart from the rest; an entry of the heap that is still open has nothing of
its group tested (`OpenFacts`); the tested variables that are neither kept nor under test are
determined by guess and kept ones, and so is each member already tested of the unit under test.
The inductive step is `SolveDrops`: when the last member of a unit is found determined the
whole unit is, since the members tested before were determined by no more. While the result is
collected (`CollectInv`), a variable is flagged iff it is collected or neither guessed nor
tested: the flag that makes the loop miss members outside the window (`forward_straddle`).
A round that ends for want of iterations (`max_iters`, whose return value `get_indep_set`
ignores) loses what is left. The properties of the result therefore ask for as many iterations as
the window leaves variables (`EnoughIters`), and no more: each call is about a variable of its
own (`Counted`), so that with the last iteration all of them have been tested (`AllTested`,
`ForwardTestsAll`). Without the condition the properties fail.

`Independence_proofs` proves the algebra: `Defines` is reflexive, monotone, transitive
across a dropped unit (`DropDetermined`), and decided by the one-sided calls of the code
(`InseparableIffDefined`), which needs the symmetry of pairs of models.

`BackwardRound_proofs` proves, for all formulas, sampling sets, groups and periods:
`TypeCorrect` for every input; for every input whose groups are in order (`GroupsFit`)
that each call assumes exactly the rest (`SolvesUnderTheRest`), that every published set is
a support (`AlwaysSupports`) and that the result is whole groups (`WholeResult`); and, with
the indicators too (`WellFormed`), that no assertion fails (`NeverFails`). None of these is
inductive by itself. The invariant is `RoundInv`: the
vector `unknown` is always a sequence of whole groups (`WholeUpTo`), which is what
makes popping from the back and the assertions there right; while the assumptions are
filled the two positions `i` and `j` coincide, so that the compaction moves nothing
(`FillInv`); during the calls the assumptions are indicators of `indep` and `unknown` in
order (`SolveInv`); and the undropped variables with the unit under test determine the
variables of interest (`SupportInv`). Both conditions are on the input only; what
ensures them is the parser's file being in order (`GoodFilesWork`) and the phases before
leaving groups with indicators (`PipelineFits`, below).

The last part of the module proves that the round implements `GroupElimination`
(`RoundImplementsElimination`): under the mapping of `BackwardRound` - pending are the
units of the candidates, then of `unknown` and `testVar`, kept those of `indep` - `Classify`
is a `Drop` or a `Keep` and every other step a stutter, sorting because the unknowns' units
are the candidates', selection because exactly one unit leaves the vector (`SelectedUnit`).
The elimination's own invariants then hold of the mapped state: `SupportThroughout`, and
`KeptNeeded` by monotonicity (dropping later units only shrinks what is left beside a unit).
`MinimalResult` follows, since at the end the units partition the result.

`Backbone_proofs`: type correctness, `BackboneImplied` and `BackboneComplete`. Completeness
is not inductive; `BackboneInv` adds why skipping loses nothing: a variable that is not
enabled any more has a model with the other value (the solver's answers that disabled it
are witnesses), every variable is set or in the loop's order, and the loop's past is
decided. Assumed: the variables are finitely many.

`GuessRound_proofs`: for every formula, order, window and every part of the
consequences that propagation may find, what a round has dropped is determined by the
variables assumed last, and every published set is a support. `WindowInv` says why:
assumed variables are marked before anything is removed, so they are still there, lie in
the window and are assumed again in the next, larger one. `GuessListsOnce` is what the
rounds after it need: nothing new and nothing twice is published.

`Pipeline_proofs` proves first the two properties of the preprocessing, for whatever the
solver reports and in whatever order. Neither is inductive: while the pairs are looked at
(`RemovingEq`) the flags, not the sampling set, are what will be kept, so `PreInv` says that
the flagged variables determine the candidates by themselves - a pair takes one away whose
equal stays, and variables in a chain or cycle of pairs go one by one - and that no flag is
left between two passes.

Then the pipeline, for every setting. `PhaseInv` says what a phase is given and what it
leaves. From the preprocessing on, a solver that is not okay has an unsatisfiable formula
(`SolverInv`). Up to the forward round the sampling set is part of what the user asked for,
listed once, and determines the rest by itself (`EarlyInv`); the forward round may lose
members of groups, and after it the set does so only with the groups it lies in
(`Handable`). While a round runs, its own invariant
holds of its input; after the backward round the result is whole and minimal (`Good`). The
rounds' proof modules are instantiated (`GP`, `FP`, `BP`), and a phase's step is a step of
its module, so that their step lemmas are used here as they are. `PipelineKeepsSupport` and
`PipelineResultIsMinimal` assume finitely many variables and no more than `MaxIters`, which
are iterations enough for the forward round (`EnoughForVars`); `PipelineFits`, that no round's assertion fails in
the combinations made for one another, needs neither. All three are about input in order
(`InputInOrder`): a sampling set without duplicates, groups that lie in it.

`Reader_proofs` begins with the numbers: the five invariants of `numbers_small`, for every
file, chunk size and width. `StreamInv`: the chunk is the part of the file that ends after
`fetched` characters, and `handed` is the place in the file (`ChunkMeaning`,
`NextCharacterKeepsStream`). `NumberInv`: a number that still fits is in `val`; one that does not
leaves at least a ninth of 2^32 there, since the first overflow, at val * 10 + digit, loses
2^32 or more and goes unnoticed only if the rest is no less than `val`. `WidthAssumption` says
that this ninth is more than `HighestVar`, as 2^32 and 2^28 are.

Then it proves that the parser reads line by line, for every file, set of numbers
and bounds (`ReaderReadsLines`). `LineInv` says what the line in hand has written by each
place, as a function of what it found: the solver has grown to the largest of the literals so
far, all of which passed `check_var`; the map is the one found (or set up) with the new
group's number at the literals so far, and the group itself is pushed only at their end; a
header's flag is set before its numbers are known to be good. So the end of a line is the
line's action of `DimacsGIS` on the values found (`ClauseIsRead`, `HeaderIsRead`, `IndIsRead`,
`GrpIsRead`, `OtherIsRead`), and every step before it changes none of them (`WasUnchanged`).
`BoundInv` keeps the bounds of the model: a line begun has room among the lines, also when the
character 0 ends a line and is left in hand. The other three theorems rest on `Sound`,
which holds of the values between two lines: the map follows the groups
(`ReaderFollowsGroups`; `GroupSound` is the case of a further group, with a map and a dummy set
up again while the header's size is 0), the solver is within the limit (`ReaderTypes`), and in
a file in order the map is the inverse of the groups (`MapInverts`), from which the rounds'
assumptions follow (`ReaderGoodFilesWork`). Assumed of the constants: `Lines` has the lines
that can be written with `Numbers` (`LinesOfNumbers`), and there is room for a line and a
literal (`NumbersAssumption`).

Only model-checked: liveness, which is out of the prover's reach (`Returns`, `EndsReading`,
the progress in `ImplementsElimination`; its safety part is proved), and `DocumentedResult`,
which is about one particular input.

## What the models found

* A file without `c grp` lines, `--groupind 0`, and a clause beyond the header's variables
  end in the assertion of `in_variable_group` (`parser_map`).
* Without `c ind` lines, a unit clause on a member of a group ends in the assertion that its
  indicator is there (`parser_units`).
* With `set_forward` and without `set_backward` the result may be no support when a group
  lies across the window's edge (`forward_straddle`).
* `set_guess` with `set_forward` and a group, and `set_simp` with a group, can fail the
  assertions at `backward.cpp` 92 and 59: `PhasesFit` (`pipeline_small`) excludes exactly
  these combinations and fails without the exclusion.

## Not modelled

`remove_definable_by_gates` and `remove_definable_by_irreg_gates` (no caller), `assign_fwd_val`
(off, a heuristic second solver), option parsing, output, statistics, the random generator
(orders it determines are any order) and CryptoMiniSat itself: a call answers rightly or
not at all, propagation derives part of what follows, and what simplification reports
(units, equivalences) holds.

`sort_unknown` ends the program when `incidence_sort` is none of the orders it knows
(`common.h` 338-341); no property says anything of a program that has ended there.
`fill_assumptions_forward` clears the flags of the entries of `unknown` without asking whether
they have indicators (`forward.cpp` 136-139): there is no failing step for it, since the
sampling set is part of the one that `add_fixed_clauses` made indicators for.

The backbone search leaves polarity mode and verbosity changed when it returns early
(`simplify.cpp` 144): neither changes an answer, so no property is about it. BNN lines of a
file are compiled out; BNN constraints that a caller of the library adds are duplicated
(`DoubledProblem`), but `get_simplified_cnf` does not export them, and `ResultCNF` takes
input without them. `elim_to_file` needs `elimtofile`, which no option sets, and
`empty_occs`, which nothing fills: `ResultCNF` takes any empty variables a caller may name.
`parseDouble` and the in-memory reader `CH` are not called. Setters assign one field each;
those for probing and distillation steer how CryptoMiniSat simplifies, not what follows.

## Plan

Done: the modules above, in the order `Independence`, `GroupElimination`, `BackwardRound`
and its proofs, the other phases, `DoubledProblem`, `Pipeline`, `DimacsGIS`,
`NumberReader`, `ResultCNF`, `GISReader`, and the proofs of the guess rounds,
`DoubledProblem`, `ForwardRound`, `Preprocessing`, `Pipeline`, `GISReader` and `ResultCNF`.
