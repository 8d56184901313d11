------------------------ MODULE Independence_proofs ------------------------
(***************************************************************************)
(* The algebra of Defines that every round rests on.                       *)
(***************************************************************************)
EXTENDS Independence, TLAPS

\* More variables determine more, and fewer are easier to determine.
LEMMA DefinesMono ==
    ASSUME NEW M, NEW C, NEW D, NEW T, NEW U,
           C \subseteq D, U \subseteq T, Defines(M, C, T)
    PROVE  Defines(M, D, U)
<1> SUFFICES ASSUME NEW a \in M, NEW b \in M, Agree(a, b, D)
             PROVE  Agree(a, b, U)
    BY DEF Defines
<1>1. Agree(a, b, C)  BY DEF Agree
<1>2. Agree(a, b, T)  BY <1>1 DEF Defines
<1> QED  BY <1>2 DEF Agree

\* A set determines each of its subsets.
LEMMA DefinesRefl ==
    ASSUME NEW M, NEW C, NEW T, T \subseteq C
    PROVE  Defines(M, C, T)
BY DEF Defines, Agree

\* Definability composes: what is determined by determined variables is determined.
LEMMA DefinesCut ==
    ASSUME NEW M, NEW C, NEW D, NEW T, Defines(M, C, D), Defines(M, D, T)
    PROVE  Defines(M, C, T)
BY DEF Defines

\* What is determined separately is determined together.
LEMMA DefinesUnion ==
    ASSUME NEW M, NEW C, NEW T, NEW U, Defines(M, C, T), Defines(M, C, U)
    PROVE  Defines(M, C, T \cup U)
<1> SUFFICES ASSUME NEW a \in M, NEW b \in M, Agree(a, b, C)
             PROVE  Agree(a, b, T \cup U)
    BY DEF Defines
<1>1. Agree(a, b, T) /\ Agree(a, b, U)  BY DEF Defines
<1> QED  BY <1>1 DEF Agree

\* A set of variables that the rest of a support determines can be left out of it:
\* this is what a round does when every solver call on a group answers "false".
LEMMA DropDetermined ==
    ASSUME NEW M, NEW C, NEW T, NEW S, Defines(M, C \cup T, S), Defines(M, C, T)
    PROVE  Defines(M, C, S)
<1>1. Defines(M, C, C \cup T)  BY DefinesRefl, DefinesUnion
<1> QED  BY <1>1, DefinesCut

\* The solver is asked for v true in the first copy and false in the second only.
\* By symmetry of the two copies that one question decides definability, in both
\* directions: no answer "true" for any member of T iff C determines T.
LEMMA InseparableIffDefined ==
    ASSUME NEW M, NEW C, NEW T
    PROVE  (\A v \in T : ~ Separable(M, C, v)) <=> Defines(M, C, T)
<1>1. ASSUME \A v \in T : ~ Separable(M, C, v)
      PROVE  Defines(M, C, T)
  <2> SUFFICES ASSUME NEW a \in M, NEW b \in M, Agree(a, b, C)
               PROVE  Agree(a, b, T)
      BY DEF Defines
  <2>1. Agree(b, a, C)  BY DEF Agree
  <2>2. \A v \in T : v \in a <=> v \in b  BY <1>1, <2>1 DEF Separable
  <2> QED  BY <2>2 DEF Agree
<1>2. ASSUME Defines(M, C, T), NEW v \in T, Separable(M, C, v)
      PROVE  FALSE
  <2>1. PICK a \in M, b \in M : Agree(a, b, C) /\ v \in a /\ v \notin b
      BY <1>2 DEF Separable
  <2>2. Agree(a, b, T)  BY <1>2, <2>1 DEF Defines
  <2> QED  BY <2>1, <2>2, <1>2 DEF Agree
<1> QED  BY <1>1, <1>2

\* If a support still cannot do without U, no smaller support can: a group kept
\* early stays necessary after later groups have been dropped.
LEMMA StillNeeded ==
    ASSUME NEW M, NEW C, NEW D, NEW U,
           D \subseteq C, ~ Defines(M, C \ U, U)
    PROVE  ~ Defines(M, D \ U, U)
BY DefinesMono
=============================================================================
