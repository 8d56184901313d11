-------------------------- MODULE GuessRound_proofs --------------------------
(***************************************************************************)
(* For every formula, sampling set, order, number and size of windows, and *)
(* whatever part of the consequences propagation finds: the guess rounds   *)
(* drop only what the assumed variables determine, and publish supports.   *)
(***************************************************************************)
EXTENDS GuessRound, Independence_proofs, SequenceTheorems, TLAPS

M == prob.models

\* The types of the rounds' data.
TypeInv ==
    /\ ProblemType(prob)
    /\ samplingSet \in Seq(Vars) /\ otherSamplingSet \in Seq(Vars) /\ unknown \in Seq(Vars)
    /\ unknownSet \subseteq Vars /\ dontRemove \subseteq Vars /\ assumed \subseteq Vars
    /\ group \in Nat \ {0} /\ round \in Nat /\ iter \in Nat /\ cursor \in Nat \ {0}
    /\ pc \in {"round", "fill", "remove", "publish", "done"}

\* Why a round may drop what it drops.  The assumed variables lie in the window, which
\* only grows, and are still there, since they are marked before anything is removed; so
\* the variables assumed next include them, and determine all that has been dropped.
WindowInv ==
    /\ Range(unknown) = Range(samplingSet)
    /\ unknownSet \subseteq Range(unknown)
    /\ assumed \subseteq dontRemove \cap unknownSet \cap Window
    /\ Defines(M, assumed, Range(unknown) \ unknownSet)

\* The unknowns before the position k.
Before(k) == { unknown[l] : l \in { n \in DOMAIN unknown : n < k } }

\* update_sampling_set has copied what is flagged before its position; in between, the
\* buffer is empty.
PublishInv ==
    /\ pc = "publish" => Range(otherSamplingSet) = Before(cursor) \cap unknownSet
    /\ pc # "publish" => cursor = 1 /\ otherSamplingSet = <<>>

\* No variable is listed twice that was not listed twice before.
OnceInv ==
    Distinct(prob.sampling) =>
        /\ Distinct(samplingSet) /\ Distinct(otherSamplingSet)
        /\ InRound => Distinct(unknown)

GuessInv ==
    /\ Defines(M, Range(samplingSet), Candidates)
    /\ Range(samplingSet) \subseteq Candidates
    /\ InRound => WindowInv
    /\ PublishInv
    /\ OnceInv

-----------------------------------------------------------------------------
\* A reordering of a sequence is a sequence of the same elements.
LEMMA OrdersKeep ==
    ASSUME NEW s \in Seq(Vars), NEW t \in Orders(s)
    PROVE  /\ t \in Seq(Vars) /\ Range(t) = Range(s)
           /\ Distinct(s) => Distinct(t)
<1>1. PICK p \in [DOMAIN s -> DOMAIN s] :
          /\ Range(p) = DOMAIN s /\ \A k, l \in DOMAIN s : p[k] = p[l] => k = l
          /\ t = [k \in DOMAIN s |-> s[p[k]]]
  <2>1. PICK p \in Bijection(DOMAIN s, DOMAIN s) : t = [k \in DOMAIN s |-> s[p[k]]]
    BY DEF Orders
  <2>2. p \in [DOMAIN s -> DOMAIN s] /\ \A l \in DOMAIN s : \E k \in DOMAIN s : p[k] = l
    BY DEF Bijection, Surjection
  <2>3. Range(p) = DOMAIN s  BY <2>2 DEF Range
  <2>4. \A k, l \in DOMAIN s : p[k] = p[l] => k = l
    BY DEF Bijection, Injection, IsInjective
  <2> QED  BY <2>1, <2>2, <2>3, <2>4
<1>2. DOMAIN s = 1 .. Len(s) /\ Len(s) \in Nat /\ s \in [1 .. Len(s) -> Vars]  OBVIOUS
<1>3. t \in [1 .. Len(s) -> Vars]  BY <1>1, <1>2
<1>4. t \in Seq(Vars)  BY <1>2, <1>3
<1>5. Range(t) \subseteq Range(s)  BY <1>1, <1>2 DEF Range
<1>6. ASSUME NEW v \in Range(s) PROVE v \in Range(t)
  <2>1. PICK l \in DOMAIN s : v = s[l]  BY <1>6 DEF Range
  <2>2. PICK k \in DOMAIN s : p[k] = l  BY <1>1, <2>1 DEF Range
  <2> QED  BY <1>1, <2>1, <2>2 DEF Range
<1>7. Distinct(s) => Distinct(t)  BY <1>1, <1>3 DEF Distinct
<1> QED  BY <1>4, <1>5, <1>6, <1>7

\* The first window step is at least one variable.
LEMMA FirstGroupType ==
    ASSUME NEW s \in Seq(Vars) PROVE FirstGroup(s) \in Nat \ {0}
<1>1. Len(s) \div GuessDiv \in Nat  BY GuessDivAssumption
<1> QED  BY <1>1, MinGuessAssumption DEF FirstGroup

LEMMA BeginTypes == ProblemType(prob) /\ Begin => TypeInv
<1> SUFFICES ASSUME ProblemType(prob), Begin PROVE TypeInv  OBVIOUS
<1>1. samplingSet \in Seq(Vars)  BY DEF Begin, ProblemType
<1>2. group \in Nat \ {0}  BY <1>1, FirstGroupType DEF Begin
<1>3. <<>> \in Seq(Vars)  OBVIOUS
<1> QED  BY <1>1, <1>2, <1>3 DEF Begin, TypeInv

LEMMA TypeStep == TypeInv /\ [Next]_vars => TypeInv'
<1> SUFFICES ASSUME TypeInv, [Next]_vars PROVE TypeInv'  OBVIOUS
<1> USE DEF TypeInv, ProblemType
<1>1. CASE SkipRound  BY <1>1 DEF SkipRound, setVars, roundVars, workVars
<1>2. CASE StartRound
  <2>1. unknown' \in Seq(Vars)  BY <1>2, OrdersKeep DEF StartRound
  <2>2. unknownSet' \subseteq Vars  BY <1>2 DEF StartRound, Range
  <2> QED  BY <1>2, <2>1, <2>2 DEF StartRound, setVars
<1>3. CASE RunEnds  BY <1>3 DEF RunEnds, data, setVars, roundVars, workVars
<1>4. CASE Fill  BY <1>4 DEF Fill, setVars
<1>5. CASE RemoveImplied
  <2>1. /\ unknownSet' \subseteq Vars /\ dontRemove' \subseteq Vars
    BY <1>5 DEF RemoveImplied
  <2>2. /\ iter' \in Nat /\ pc' \in {"fill", "publish"}
        /\ UNCHANGED <<prob, setVars, group, round, unknown, assumed, cursor>>
    BY <1>5 DEF RemoveImplied, NextWindow
  <2> QED  BY <2>1, <2>2 DEF setVars
<1>6. CASE PublishUnknown
  <2>1. unknown[cursor] \in Vars  BY <1>6 DEF PublishUnknown
  <2>2. otherSamplingSet' \in Seq(Vars)  BY <1>6, <2>1, AppendProperties DEF PublishUnknown
  <2> QED  BY <1>6, <2>2 DEF PublishUnknown, workVars
<1>7. CASE PublishSwap  BY <1>7 DEF PublishSwap, workVars
<1>8. CASE UNCHANGED vars  BY <1>8 DEF vars, data, setVars, roundVars, workVars
<1> QED  BY <1>1, <1>2, <1>3, <1>4, <1>5, <1>6, <1>7, <1>8 DEF Next, Step, Stopped

-----------------------------------------------------------------------------
\* In a round, what is flagged determines the variables of interest: it holds the
\* assumed variables, which determine the rest of the sampling set.
LEMMA FlaggedSupports ==
    ASSUME WindowInv, Defines(M, Range(samplingSet), Candidates)
    PROVE  Defines(M, unknownSet, Candidates)
<1>1. assumed \subseteq unknownSet /\ Range(unknown) = Range(samplingSet)  BY DEF WindowInv
<1>2. Defines(M, unknownSet, Range(unknown) \ unknownSet)
  BY <1>1, DefinesMono DEF WindowInv
<1>3. Defines(M, unknownSet, unknownSet \cup (Range(unknown) \ unknownSet))
  BY <1>2, DefinesRefl, DefinesUnion
<1>4. Defines(M, unknownSet, Range(samplingSet))  BY <1>1, <1>3, DefinesMono
<1> QED  BY <1>4, DefinesCut

\* The next window contains this one.
LEMMA WindowGrows ==
    ASSUME TypeInv, iter' = iter + 1, UNCHANGED <<unknown, group>>
    PROVE  Window \subseteq Window'
<1>1. group \in Nat /\ iter \in Nat  BY DEF TypeInv
<1>2. group * (iter' + 1) = group * (iter + 1) + group  BY <1>1
<1>3. group * (iter + 1) \in Nat  BY <1>1
<1>4. group * (iter + 1) <= group * (iter' + 1)  BY <1>1, <1>2, <1>3
<1>5. ASSUME NEW l \in DOMAIN unknown, l <= group * (iter + 1)
      PROVE  l <= group * (iter' + 1)
  <2>1. l \in Nat  BY DEF TypeInv
  <2> QED  BY <1>2, <1>3, <1>4, <1>5, <2>1, <1>1
<1> QED  BY <1>5 DEF Window

\* A window that starts assumes nothing yet, and nothing has been dropped.
LEMMA StartEstablishes ==
    ASSUME TypeInv, GuessInv, StartRound PROVE GuessInv'
<1>1. /\ Range(unknown') = Range(samplingSet)
  BY OrdersKeep DEF StartRound, TypeInv
<1>2. /\ unknownSet' = Range(samplingSet) /\ assumed' = {} /\ dontRemove' = {}
      /\ pc = "round" /\ pc' = "fill" /\ UNCHANGED <<prob, setVars, cursor>>
  BY DEF StartRound
<1>3. Defines(M', assumed', Range(unknown') \ unknownSet')
  BY <1>1, <1>2, DefinesRefl
<1>4. WindowInv'  BY <1>1, <1>2, <1>3 DEF WindowInv, setVars
<1>5. OnceInv'
  <2>1. Distinct(samplingSet) => Distinct(unknown)'  BY OrdersKeep DEF StartRound, TypeInv
  <2> QED  BY <1>2, <2>1 DEF setVars, GuessInv, OnceInv
<1> QED  BY <1>2, <1>4, <1>5 DEF setVars, GuessInv, PublishInv, Candidates, M

\* What is assumed next includes what was assumed before.
LEMMA FillKeeps ==
    ASSUME TypeInv, GuessInv, Fill PROVE GuessInv'
<1>1. /\ WindowInv
      /\ assumed' = Window \cap unknownSet /\ dontRemove' = dontRemove \cup assumed'
      /\ UNCHANGED <<prob, setVars, group, unknown, unknownSet, iter, cursor>>
      /\ pc = "fill" /\ pc' = "remove"
  BY DEF GuessInv, InRound, Fill
<1>2. Window' = Window  BY <1>1 DEF Window
<1>3. assumed \subseteq assumed'  BY <1>1 DEF WindowInv
<1>4. Defines(M', assumed', Range(unknown') \ unknownSet')
  BY <1>1, <1>3, DefinesMono DEF WindowInv, M
<1>5. WindowInv'  BY <1>1, <1>2, <1>4 DEF WindowInv, setVars
<1>6. OnceInv'  BY <1>1 DEF setVars, GuessInv, OnceInv, InRound
<1> QED  BY <1>1, <1>5, <1>6 DEF setVars, GuessInv, PublishInv, Candidates, M

\* What is removed follows from the assumed variables, and none of them is removed.
LEMMA RemoveKeeps ==
    ASSUME TypeInv, GuessInv, RemoveImplied PROVE GuessInv'
<1>1. WindowInv  BY DEF GuessInv, InRound, RemoveImplied
<1>2. PICK found \in SUBSET Implied :
          /\ unknownSet' = unknownSet \ ((found \cap unknownSet) \ dontRemove)
          /\ dontRemove' = dontRemove \cup ((found \cap unknownSet) \ dontRemove)
  BY DEF RemoveImplied
<1>3. /\ UNCHANGED <<prob, samplingSet, group, unknown, assumed, otherSamplingSet, cursor>>
      /\ iter' = iter + 1 /\ pc' \in {"fill", "publish"}
  BY DEF RemoveImplied, NextWindow, setVars
<1> DEFINE dropped == (found \cap unknownSet) \ dontRemove
<1>4. Defines(M, assumed, dropped)
  BY DEF Implied, Defines, Agree, M
<1>5. Defines(M, assumed, (Range(unknown) \ unknownSet) \cup dropped)
  BY <1>1, <1>4, DefinesUnion DEF WindowInv
<1>6. Range(unknown) \ unknownSet' \subseteq (Range(unknown) \ unknownSet) \cup dropped
  BY <1>2
<1>7. Defines(M, assumed, Range(unknown) \ unknownSet')  BY <1>5, <1>6, DefinesMono
<1>8. assumed \subseteq Window'  BY <1>1, <1>3, WindowGrows DEF WindowInv
<1>9. assumed \subseteq dontRemove' \cap unknownSet'  BY <1>1, <1>2 DEF WindowInv
<1>10. WindowInv'
  <2>1. unknownSet' \subseteq Range(unknown)  BY <1>1, <1>2 DEF WindowInv
  <2> QED  BY <1>1, <1>3, <1>7, <1>8, <1>9, <2>1 DEF WindowInv, M
<1>11. PublishInv'
  <2>1. cursor' = 1 /\ otherSamplingSet' = <<>>
    BY <1>3 DEF GuessInv, PublishInv, RemoveImplied
  <2>2. Range(otherSamplingSet') = {}  BY <2>1 DEF Range
  <2>3. Before(cursor)' = {}
    <3>1. \A l \in DOMAIN unknown' : l >= 1  BY <1>3 DEF TypeInv
    <3> QED  BY <2>1, <3>1 DEF Before
  <2> QED  BY <2>1, <2>2, <2>3 DEF PublishInv
<1>12. OnceInv'  BY <1>3 DEF GuessInv, OnceInv, InRound, RemoveImplied
<1> QED  BY <1>3, <1>10, <1>11, <1>12 DEF GuessInv, Candidates, M

\* One step of the copying.
LEMMA PublishUnknownKeeps ==
    ASSUME TypeInv, GuessInv, PublishUnknown PROVE GuessInv'
<1>1. /\ pc = "publish" /\ pc' = "publish" /\ cursor \in DOMAIN unknown
      /\ cursor' = cursor + 1
      /\ UNCHANGED <<prob, samplingSet, group, workVars>>
  BY DEF PublishUnknown, TypeInv
<1>2. Before(cursor)' = Before(cursor) \cup {unknown[cursor]}
  <2>1. \A l \in DOMAIN unknown : l < cursor + 1 <=> l < cursor \/ l = cursor
    BY DEF TypeInv
  <2> QED  BY <1>1, <2>1 DEF Before, workVars
<1>3. Range(Append(otherSamplingSet, unknown[cursor]))
          = Range(otherSamplingSet) \cup {unknown[cursor]}
  <2> DEFINE t == Append(otherSamplingSet, unknown[cursor])
             n == Len(otherSamplingSet)
  <2>1. unknown[cursor] \in Vars  BY <1>1 DEF TypeInv
  <2>2. n \in Nat /\ DOMAIN otherSamplingSet = 1 .. n  BY DEF TypeInv
  <2>3. /\ t \in Seq(Vars) /\ Len(t) = n + 1
        /\ \A k \in 1 .. n : t[k] = otherSamplingSet[k]
        /\ t[n + 1] = unknown[cursor]
    BY <2>1, AppendProperties DEF TypeInv
  <2> HIDE DEF t, n
  <2>4. DOMAIN t = (1 .. n) \cup {n + 1}  BY <2>2, <2>3
  <2>5. Range(t) = Range(otherSamplingSet) \cup {unknown[cursor]}
    BY <2>2, <2>3, <2>4 DEF Range
  <2> QED  BY <2>5 DEF t
<1>4. PublishInv'
  <2>1. CASE unknown[cursor] \in unknownSet
    BY <1>1, <1>2, <1>3, <2>1 DEF PublishUnknown, GuessInv, PublishInv, workVars
  <2>2. CASE unknown[cursor] \notin unknownSet
    BY <1>1, <1>2, <2>2 DEF PublishUnknown, GuessInv, PublishInv, workVars
  <2> QED  BY <2>1, <2>2
<1>5. WindowInv'  BY <1>1 DEF GuessInv, InRound, WindowInv, Window, workVars, M
<1>6. OnceInv'
  <2> SUFFICES ASSUME Distinct(prob.sampling), unknown[cursor] \in unknownSet
               PROVE  Distinct(Append(otherSamplingSet, unknown[cursor]))
    BY <1>1 DEF PublishUnknown, GuessInv, OnceInv, InRound, workVars
  <2> DEFINE n == Len(otherSamplingSet)
             t == Append(otherSamplingSet, unknown[cursor])
  <2>1. Distinct(otherSamplingSet) /\ Distinct(unknown)
    BY <1>1 DEF GuessInv, OnceInv, InRound
  <2>2. unknown[cursor] \notin Range(otherSamplingSet)
    <3>1. unknown[cursor] \notin Before(cursor)
      <4>1. \A l \in DOMAIN unknown : l < cursor => unknown[l] # unknown[cursor]
        BY <1>1, <2>1 DEF Distinct, TypeInv
      <4> QED  BY <4>1 DEF Before
    <3> QED  BY <1>1, <3>1 DEF GuessInv, PublishInv
  <2>3. unknown[cursor] \in Vars  BY <1>1 DEF TypeInv
  <2>4. n \in Nat /\ DOMAIN otherSamplingSet = 1 .. n  BY DEF TypeInv
  <2>5. /\ t \in Seq(Vars) /\ Len(t) = n + 1
        /\ \A k \in 1 .. n : t[k] = otherSamplingSet[k]
        /\ t[n + 1] = unknown[cursor]
    BY <2>3, AppendProperties DEF TypeInv
  <2> HIDE DEF t, n
  <2>6. DOMAIN t = (1 .. n) \cup {n + 1}  BY <2>4, <2>5
  <2>7. \A k \in 1 .. n : t[k] \in Range(otherSamplingSet)  BY <2>4, <2>5 DEF Range
  <2>8. Distinct(t)
    BY <2>1, <2>2, <2>4, <2>5, <2>6, <2>7 DEF Distinct
  <2> QED  BY <2>8 DEF t
<1> QED  BY <1>1, <1>4, <1>5, <1>6 DEF GuessInv, Candidates, M

\* What is published is what is flagged.
LEMMA PublishSwapKeeps ==
    ASSUME TypeInv, GuessInv, PublishSwap PROVE GuessInv'
<1>1. /\ pc = "publish" /\ pc' = "round" /\ cursor > Len(unknown)
      /\ samplingSet' = otherSamplingSet /\ otherSamplingSet' = <<>> /\ cursor' = 1
      /\ prob' = prob
  BY DEF PublishSwap
<1>2. WindowInv  BY <1>1 DEF GuessInv, InRound
<1>3. Before(cursor) = Range(unknown)
  <2>1. \A l \in DOMAIN unknown : l < cursor  BY <1>1 DEF TypeInv
  <2> QED  BY <2>1 DEF Before, Range
<1>4. Range(samplingSet') = unknownSet
  BY <1>1, <1>2, <1>3 DEF GuessInv, PublishInv, WindowInv
<1>5. Defines(M, unknownSet, Candidates)  BY <1>2, FlaggedSupports DEF GuessInv
<1>6. unknownSet \subseteq Candidates  BY <1>2 DEF WindowInv, GuessInv
<1>7. OnceInv'
  <2>1. Distinct(<<>>)  BY DEF Distinct
  <2> QED  BY <1>1, <2>1 DEF GuessInv, OnceInv, InRound
<1> QED  BY <1>1, <1>4, <1>5, <1>6, <1>7 DEF GuessInv, InRound, PublishInv, Candidates, M

LEMMA BeginInv == Begin => GuessInv
<1>1. Distinct(<<>>)  BY DEF Distinct
<1> QED
  BY <1>1, DefinesRefl DEF Begin, GuessInv, InRound, PublishInv, OnceInv, Candidates

LEMMA InvStep == TypeInv /\ GuessInv /\ [Next]_vars => GuessInv'
<1> SUFFICES ASSUME TypeInv, GuessInv, [Next]_vars PROVE GuessInv'  OBVIOUS
<1>1. CASE SkipRound
  BY <1>1 DEF SkipRound, setVars, roundVars, GuessInv, InRound, PublishInv, OnceInv,
         Candidates, M
<1>2. CASE StartRound  BY <1>2, StartEstablishes
<1>3. CASE RunEnds
  BY <1>3 DEF RunEnds, data, setVars, roundVars, GuessInv, InRound, PublishInv, OnceInv,
              Candidates, M
<1>4. CASE Fill  BY <1>4, FillKeeps
<1>5. CASE RemoveImplied  BY <1>5, RemoveKeeps
<1>6. CASE PublishUnknown  BY <1>6, PublishUnknownKeeps
<1>7. CASE PublishSwap  BY <1>7, PublishSwapKeeps
<1>8. CASE UNCHANGED vars
  BY <1>8 DEF vars, data, setVars, roundVars, workVars, GuessInv, InRound, WindowInv, Window,
              PublishInv, OnceInv, Before, Candidates, M
<1> QED  BY <1>1, <1>2, <1>3, <1>4, <1>5, <1>6, <1>7, <1>8 DEF Next, Step, Stopped

LEMMA InputFixed == [Next]_vars => prob' = prob
BY DEF Next, Step, Stopped, vars, data, SkipRound, StartRound, RunEnds, Fill, RemoveImplied,
       NextWindow, PublishUnknown, PublishSwap

LEMMA InvHolds == Spec => [](TypeInv /\ GuessInv)
<1>1. TypeInv /\ GuessInv /\ [Next]_vars => (TypeInv /\ GuessInv)'  BY TypeStep, InvStep
<1>2. Init => TypeInv /\ GuessInv  BY BeginTypes, BeginInv, ProblemsAssumption DEF Init
<1> QED  BY <1>1, <1>2, PTL DEF Spec

-----------------------------------------------------------------------------
\* Every variable of guess_round and run_guess keeps its type.
THEOREM GuessTypes == Spec => []TypeInv
<1> QED  BY InvHolds, PTL

\* What guess_remove_and_update_ass has dropped so far is determined by the variables
\* assumed last (guess.cpp 57, 198-202).
THEOREM GuessDropsDetermined == Spec => []DroppedDetermined
<1>1. GuessInv => DroppedDetermined
  <2> SUFFICES ASSUME GuessInv, InRound PROVE DroppedDetermined
    BY DEF DroppedDetermined
  <2>1. WindowInv  BY DEF GuessInv
  <2>2. assumed \cap unknownSet = assumed  BY <2>1 DEF WindowInv
  <2> QED  BY <2>1, <2>2 DEF WindowInv, DroppedDetermined, M
<1> QED  BY InvHolds, <1>1, PTL

\* run_guess keeps a support: the sampling set after each round, and what is flagged in
\* the middle of one, determines the variables of interest.
THEOREM GuessKeepsSupport == Spec => []GuessSupports
<1>1. GuessInv => GuessSupports
  BY FlaggedSupports DEF GuessInv, GuessSupports, M
<1> QED  BY InvHolds, <1>1, PTL

\* update_sampling_set publishes members of the set the phase was given, each as often as
\* it was listed there: the next phase is given no duplicate.
THEOREM GuessListsOnce ==
    Spec => [](/\ Range(samplingSet) \subseteq Candidates
               /\ Distinct(prob.sampling) => Distinct(samplingSet))
<1>1. GuessInv => /\ Range(samplingSet) \subseteq Candidates
                  /\ Distinct(prob.sampling) => Distinct(samplingSet)
  BY DEF GuessInv, OnceInv
<1> QED  BY InvHolds, <1>1, PTL
=============================================================================
