------------------------- MODULE ForwardRound_proofs -------------------------
(***************************************************************************)
(* For every formula, sampling set, order, window size and answer of the   *)
(* solver: the forward round drops only what is determined by the guess    *)
(* and the groups it keeps, and on well-formed input it fails nowhere.     *)
(***************************************************************************)
EXTENDS ForwardRound, Independence_proofs, SequenceTheorems, FiniteSetTheorems, TLAPS

-----------------------------------------------------------------------------
(* Sequences *)

\* The entries of a sequence at some positions: what a loop collects.
LEMMA EntriesFacts ==
    ASSUME NEW s \in Seq(Vars), NEW P, P \subseteq DOMAIN s, NEW t \in Entries(s, P)
    PROVE  /\ t \in Seq(Vars)
           /\ Range(t) = { s[k] : k \in P }
           /\ (\A k, l \in P : s[k] = s[l] => k = l) => Distinct(t)
<1> DEFINE D == 1 .. Cardinality(P)
<1>1. PICK p \in [D -> P] :
          /\ Range(p) = P /\ \A k, l \in D : k < l => p[k] < p[l]
          /\ t = [k \in D |-> s[p[k]]]
  BY DEF Entries
<1>2. DOMAIN s = 1 .. Len(s) /\ Len(s) \in Nat /\ P \subseteq Nat /\ \A k \in P : s[k] \in Vars
  OBVIOUS
<1>3. Cardinality(P) \in Nat
  <2>1. IsFiniteSet(1 .. Len(s))  BY <1>2, FS_Interval
  <2>2. IsFiniteSet(P)  BY <1>2, <2>1, FS_Subset
  <2> QED  BY <2>2, FS_CardinalityType
<1>4. t \in [D -> Vars]  BY <1>1, <1>2
<1>5. t \in Seq(Vars)  BY <1>3, <1>4
<1>6. Range(t) = { s[k] : k \in P }
  <2>1. Range(t) \subseteq { s[k] : k \in P }  BY <1>1 DEF Range
  <2>2. ASSUME NEW l \in P PROVE s[l] \in Range(t)
    <3>1. PICK k \in D : p[k] = l  BY <1>1 DEF Range
    <3> QED  BY <1>1, <3>1 DEF Range
  <2> QED  BY <2>1, <2>2
<1>7. ASSUME \A k, l \in P : s[k] = s[l] => k = l  PROVE Distinct(t)
  <2> SUFFICES ASSUME NEW k \in D, NEW l \in D, t[k] = t[l] PROVE k = l
    BY <1>4 DEF Distinct
  <2>1. p[k] = p[l]  BY <1>1, <1>7
  <2>2. p[k] \in Nat  BY <1>2
  <2>3. ~ (k < l) /\ ~ (l < k)  BY <1>1, <2>1, <2>2
  <2> QED  BY <1>3, <2>3
<1> QED  BY <1>5, <1>6, <1>7

\* A loop that flags what it adds collects each unflagged entry once.
LEMMA UnflaggedFacts ==
    ASSUME NEW s \in Seq(Vars), NEW t \in Unflagged(s)
    PROVE  /\ t \in Seq(Vars) /\ Distinct(t)
           /\ Distinct(s) => Range(t) = Range(s) \ unknownSet
<1> DEFINE P == { k \in DOMAIN s : s[k] \notin unknownSet /\ \A l \in 1 .. k - 1 : s[l] # s[k] }
<1>1. t \in Entries(s, P) /\ P \subseteq DOMAIN s  BY DEF Unflagged
<1>2. t \in Seq(Vars) /\ Range(t) = { s[k] : k \in P }  BY <1>1, EntriesFacts
<1>3. DOMAIN s = 1 .. Len(s) /\ Len(s) \in Nat  OBVIOUS
<1>4. \A k, l \in P : s[k] = s[l] => k = l
  <2> SUFFICES ASSUME NEW k \in P, NEW l \in P, s[k] = s[l], k # l PROVE FALSE
    OBVIOUS
  <2>1. k \in Nat \ {0} /\ l \in Nat \ {0}  BY <1>3
  <2>2. k \in 1 .. l - 1 \/ l \in 1 .. k - 1  BY <2>1
  <2> QED  BY <2>2
<1>5. Distinct(t)  BY <1>1, <1>4, EntriesFacts
<1>6. ASSUME Distinct(s) PROVE Range(t) = Range(s) \ unknownSet
  <2>1. ASSUME NEW k \in DOMAIN s, NEW l \in 1 .. k - 1 PROVE s[l] # s[k]
    <3>1. l \in DOMAIN s /\ l # k  BY <1>3
    <3> QED  BY <1>6, <3>1 DEF Distinct
  <2>2. P = { k \in DOMAIN s : s[k] \notin unknownSet }  BY <2>1
  <2> QED  BY <1>2, <2>2 DEF Range
<1> QED  BY <1>2, <1>5, <1>6

\* A reordering of a sequence is a sequence of the same elements.
LEMMA OrdersKeep ==
    ASSUME NEW s \in Seq(Vars), NEW t \in Orders(s)
    PROVE  t \in Seq(Vars) /\ Range(t) = Range(s)
<1>1. PICK p \in [DOMAIN s -> DOMAIN s] :
          Range(p) = DOMAIN s /\ t = [k \in DOMAIN s |-> s[p[k]]]
  <2>1. PICK p \in Bijection(DOMAIN s, DOMAIN s) : t = [k \in DOMAIN s |-> s[p[k]]]
    BY DEF Orders
  <2>2. p \in [DOMAIN s -> DOMAIN s] /\ \A l \in DOMAIN s : \E k \in DOMAIN s : p[k] = l
    BY DEF Bijection, Surjection
  <2>3. Range(p) = DOMAIN s  BY <2>2 DEF Range
  <2> QED  BY <2>1, <2>2, <2>3
<1>2. DOMAIN s = 1 .. Len(s) /\ Len(s) \in Nat /\ s \in [1 .. Len(s) -> Vars]  OBVIOUS
<1>3. t \in [1 .. Len(s) -> Vars]  BY <1>1, <1>2
<1>4. t \in Seq(Vars)  BY <1>2, <1>3
<1>5. Range(t) \subseteq Range(s)  BY <1>1, <1>2 DEF Range
<1>6. ASSUME NEW v \in Range(s) PROVE v \in Range(t)
  <2>1. PICK l \in DOMAIN s : v = s[l]  BY <1>6 DEF Range
  <2>2. PICK k \in DOMAIN s : p[k] = l  BY <1>1, <2>1 DEF Range
  <2> QED  BY <1>1, <2>1, <2>2 DEF Range
<1> QED  BY <1>4, <1>5, <1>6

\* std::reverse
LEMMA ReverseFacts ==
    ASSUME NEW s \in Seq(Vars)
    PROVE  Reverse(s) \in Seq(Vars) /\ Range(Reverse(s)) = Range(s)
<1>1. Len(s) \in Nat /\ DOMAIN s = 1 .. Len(s)  OBVIOUS
<1>2. Reverse(s) = [k \in 1 .. Len(s) |-> s[(Len(s) - k) + 1]]  BY DEF Reverse
<1>3. \A k \in 1 .. Len(s) : (Len(s) - k) + 1 \in 1 .. Len(s)  BY <1>1
<1>4. Reverse(s) \in Seq(Vars)  BY <1>1, <1>2, <1>3
<1>5. Range(Reverse(s)) \subseteq Range(s)  BY <1>1, <1>2, <1>3 DEF Range
<1>6. ASSUME NEW k \in 1 .. Len(s) PROVE s[k] \in Range(Reverse(s))
  <2>1. (Len(s) - ((Len(s) - k) + 1)) + 1 = k  BY <1>1
  <2> QED  BY <1>2, <1>3, <2>1 DEF Range
<1> QED  BY <1>1, <1>4, <1>5, <1>6 DEF Range

\* The last entry of a vector and the rest.
LEMMA PopBack ==
    ASSUME NEW s \in Seq(Vars), s # <<>>
    PROVE  /\ Last(s) \in Vars /\ Front(s) \in Seq(Vars)
           /\ Range(s) = Range(Front(s)) \cup {Last(s)}
           /\ Len(s) > 0 /\ Len(Front(s)) = Len(s) - 1
<1>1. Len(s) \in Nat \ {0} /\ DOMAIN s = 1 .. Len(s)  OBVIOUS
<1>2. Last(s) = s[Len(s)] /\ Last(s) \in Vars  BY <1>1 DEF Last
<1>3. /\ Front(s) \in Seq(Vars) /\ Len(Front(s)) = Len(s) - 1
      /\ \A k \in 1 .. Len(s) - 1 : Front(s)[k] = s[k]
  <2>1. \A k \in 1 .. Len(s) - 1 : s[k] \in Vars  BY <1>1
  <2> QED  BY <1>1, <2>1, SubSeqProperties DEF Front
<1>4. DOMAIN s = (1 .. Len(s) - 1) \cup {Len(s)}  BY <1>1
<1>5. DOMAIN Front(s) = 1 .. Len(s) - 1  BY <1>1, <1>3
<1> QED  BY <1>2, <1>3, <1>4, <1>5 DEF Range

\* One element of a sequence, as a set.
LEMMA Single == ASSUME NEW v \in Vars PROVE <<v>> \in Seq(Vars) /\ Range(<<v>>) = {v}
BY DEF Range

\* Adding one group, or one variable, to a vector.
LEMMA ConcatRange ==
    ASSUME NEW s \in Seq(Vars), NEW t \in Seq(Vars)
    PROVE  s \o t \in Seq(Vars) /\ Range(s \o t) = Range(s) \cup Range(t)
BY ConcatProperties, RangeConcatenation

-----------------------------------------------------------------------------
(* Types *)

\* A grouped variable has a group of variables.
LEMMA GroupType ==
    ASSUME ProblemType(prob), NEW v, InGroup(v)
    PROVE  v \in Vars /\ Group(v) \in Seq(Vars)
<1>1. v \in DOMAIN prob.groupOf /\ prob.groupOf[v] # 0  BY DEF InGroup, Mapped
<1>2. prob.groupOf[v] \in 1 .. Len(prob.varGroups)  BY <1>1 DEF ProblemType
<1> QED  BY <1>1, <1>2 DEF ProblemType, Group

LEMMA MembersType ==
    ASSUME ProblemType(prob), NEW v \in Vars
    PROVE  Members(v) \in Seq(Vars) /\ Range(Members(v)) \subseteq Vars
<1>1. Members(v) \in Seq(Vars)
  <2>1. CASE AsGroup(v)  BY <2>1, GroupType DEF AsGroup, Members
  <2>2. CASE ~ AsGroup(v)  BY <2>2 DEF Members
  <2> QED  BY <2>1, <2>2
<1> QED  BY <1>1, RangeOfSeq

LEMMA LitTypes ==
    ASSUME NEW s \in Seq(Vars)
    PROVE  /\ SameLits(s) \in Seq(Literals)
           /\ Len(SameLits(s)) = Len(s)
           /\ \A k \in 1 .. Len(s) : SameLits(s)[k] = <<"same", s[k]>>
<1>1. SameLits(s) = [k \in 1 .. Len(s) |-> <<"same", s[k]>>]  BY DEF SameLits, Same
<1>2. \A k \in 1 .. Len(s) : <<"same", s[k]>> \in Literals  BY DEF Literals
<1> QED  BY <1>1, <1>2

\* The variable under test is one.
TypeInv == TypeOK /\ (pc = "solve" => testVar \in Vars)

LEMMA BeginTypes == ProblemType(prob) /\ Begin => TypeInv
<1> SUFFICES ASSUME ProblemType(prob), Begin PROVE TypeInv  OBVIOUS
<1>1. ProblemType(prob)  OBVIOUS
<1>2. prob.sampling \in Seq(Vars)  BY <1>1 DEF ProblemType
<1>3. unknown \in Seq(Vars) /\ pick \in Seq(Vars)
  BY <1>2, ReverseFacts, OrdersKeep DEF Begin
<1>4. Range(prob.sampling) \subseteq Vars  BY <1>2, RangeOfSeq
<1>5. <<>> \in Seq(Vars) /\ <<>> \in Seq(Literals)  OBVIOUS
<1> QED  BY <1>1, <1>2, <1>3, <1>4, <1>5 DEF Begin, TypeInv, TypeOK

LEMMA InitTypes == Init => TypeInv
BY BeginTypes, ProblemsAssumption DEF Init

LEMMA CurrentType ==
    ASSUME TypeOK, InWindow PROVE Current \in Vars /\ cursor \in DOMAIN unknown
BY DEF TypeOK, InWindow, Current

LEMMA OthersType ==
    ASSUME ProblemType(prob), NEW v \in Vars, NEW t \in Others(v)
    PROVE  /\ t \in Seq(Vars)
           /\ Range(t) = Range(Members(v)) \ {v}
           /\ t # <<>> => AsGroup(v)
<1>1. CASE AsGroup(v)
  <2> DEFINE P == { k \in DOMAIN Group(v) : Group(v)[k] # v }
  <2>1. Group(v) \in Seq(Vars) /\ Members(v) = Group(v)
    BY <1>1, GroupType DEF AsGroup, Members
  <2>2. t \in Entries(Group(v), P) /\ P \subseteq DOMAIN Group(v)  BY <1>1 DEF Others
  <2>3. t \in Seq(Vars) /\ Range(t) = { Group(v)[k] : k \in P }
    BY <2>1, <2>2, EntriesFacts
  <2>4. { Group(v)[k] : k \in P } = Range(Group(v)) \ {v}  BY DEF Range
  <2> QED  BY <1>1, <2>1, <2>3, <2>4
<1>2. CASE ~ AsGroup(v)
  <2>1. t = <<>> /\ Members(v) = <<v>>  BY <1>2 DEF Others, Members
  <2>2. Range(t) = {} /\ Range(<<v>>) = {v}  BY <2>1, Single DEF Range
  <2> QED  BY <2>1, <2>2
<1> QED  BY <1>1, <1>2

\* Collecting the members of a variable.
LEMMA CollectType ==
    ASSUME TypeOK, NEW new \in Seq(Vars), Collect(new)
    PROVE  /\ unknown' \in Seq(Vars) /\ unknownSet' \subseteq Vars
           /\ Range(unknown') = Range(unknown) \cup Range(new)
BY ConcatRange, RangeOfSeq DEF TypeOK, Collect

LEMMA TypeStep == TypeInv /\ [Next]_vars => TypeInv'
<1> SUFFICES ASSUME TypeInv, [Next]_vars PROVE TypeInv'  OBVIOUS
<1> USE DEF TypeInv, TypeOK
<1>0. ProblemType(prob)  OBVIOUS
<1>1. CASE GuessNext
  <2>1. Range(Members(Current)) \subseteq Vars
    BY <1>1, CurrentType, MembersType DEF GuessNext
  <2> QED  BY <1>1, <2>1 DEF GuessNext, pickVars
<1>2. CASE GuessFails  BY <1>2 DEF GuessFails, Fail, data, pickVars, loopVars
<1>3. CASE GuessEnd  BY <1>3 DEF GuessEnd, pickVars
<1>4. CASE AssumeNext
  <2>1. /\ Members(Current) \in Seq(Vars)
        /\ Range(Members(Current)) \subseteq Vars
    BY <1>4, CurrentType, MembersType DEF AssumeNext
  <2>2. assumptions \o SameLits(Members(Current)) \in Seq(Literals)
    BY <2>1, LitTypes, ConcatProperties
  <2>3. assumptions' \in Seq(Literals) /\ seen' \subseteq Vars
    BY <1>4, <2>1, <2>2 DEF AssumeNext
  <2>4. /\ cursor' = cursor + 1 /\ pc' = pc
        /\ UNCHANGED <<prob, samplingSet, unknown, unknownSet, guessSet, indep, pickVars, todo>>
    BY <1>4 DEF AssumeNext
  <2> QED  BY <1>4, <2>3, <2>4 DEF pickVars
<1>5. CASE AssumeEnd  BY <1>5 DEF AssumeEnd, pickVars, loopVars
<1>6. CASE PickMember
  <2>1. Last(testGroup) \in Vars /\ Front(testGroup) \in Seq(Vars)
    BY <1>6, PopBack DEF PickMember
  <2>2. Range(Members(Last(testGroup))) \subseteq Vars  BY <2>1, MembersType
  <2> QED  BY <1>6, <2>1, <2>2 DEF PickMember, Mark, loopVars
<1>7. CASE PickNew
  <2>1. PICK k \in OpenPicks : /\ Mark(pick[k]) /\ pick' = SubSeq(pick, 1, k)
                               /\ testGroup' \in Others(pick[k])
    BY <1>7 DEF PickNew
  <2>2. k \in 1 .. Len(pick) /\ pick[k] \in Vars  BY DEF OpenPicks
  <2>3. pick' \in Seq(Vars)
    <3>1. \A l \in 1 .. k : pick[l] \in Vars  BY <2>2
    <3> QED  BY <2>1, <2>2, <3>1, SubSeqProperties
  <2>4. testGroup' \in Seq(Vars)  BY <2>1, <2>2, OthersType
  <2>5. Range(Members(pick[k])) \subseteq Vars  BY <2>2, MembersType
  <2> QED  BY <1>7, <2>1, <2>2, <2>3, <2>4, <2>5 DEF PickNew, Mark, loopVars
<1>8. CASE PickFails
  BY <1>8 DEF PickFails, MarkFails, Fail, data, pickVars, loopVars
<1>9. CASE PickNone  BY <1>9 DEF PickNone, pickVars
<1>10. CASE Solve
  <2>1. Members(testVar) \in Seq(Vars)  BY <1>10, MembersType DEF Solve
  <2>2. indep \o Members(testVar) \in Seq(Vars)  BY <2>1, ConcatProperties
  <2>3. assumptions \o SameLits(Members(testVar)) \in Seq(Literals)
    BY <2>1, LitTypes, ConcatProperties
  <2>4. \/ UNCHANGED <<indep, assumptions, testGroup>>
        \/ /\ indep' = indep \o Members(testVar)
           /\ assumptions' = assumptions \o SameLits(Members(testVar))
           /\ testGroup' = <<>>
    BY <1>10 DEF Solve
  <2>5. indep' \in Seq(Vars) /\ assumptions' \in Seq(Literals) /\ testGroup' \in Seq(Vars)
    <3> HIDE DEF TypeOK, TypeInv
    <3>1. indep \in Seq(Vars) /\ assumptions \in Seq(Literals) /\ testGroup \in Seq(Vars)
      BY DEF TypeInv, TypeOK
    <3>2. CASE UNCHANGED <<indep, assumptions, testGroup>>  BY <3>1, <3>2
    <3>3. CASE /\ indep' = indep \o Members(testVar)
               /\ assumptions' = assumptions \o SameLits(Members(testVar))
               /\ testGroup' = <<>>
      BY <2>2, <2>3, <3>3
    <3> QED  BY <2>4, <3>2, <3>3
  <2>6. /\ iter' = iter + 1 /\ pc' = "pick"
        /\ UNCHANGED <<prob, samplingSet, unknown, unknownSet, guessSet, seen, tried, pick,
                       testVar, loopVars>>
    BY <1>10 DEF Solve
  <2> QED  BY <2>5, <2>6 DEF loopVars
<1>11. CASE SolveFails
  BY <1>11 DEF SolveFails, Fail, data, pickVars, loopVars
<1>12. CASE CollectGuess
  <2>1. PICK v \in todo : /\ todo' = todo \ {v}
            /\ \E new \in IF AsGroup(v) THEN Unflagged(Group(v)) ELSE {<<v>>} : Collect(new)
    BY <1>12 DEF CollectGuess
  <2>2. PICK new \in IF AsGroup(v) THEN Unflagged(Group(v)) ELSE {<<v>>} : Collect(new)
    BY <2>1
  <2>3. new \in Seq(Vars)
    <3>1. CASE AsGroup(v)  BY <2>2, <3>1, GroupType, UnflaggedFacts DEF AsGroup
    <3>2. CASE ~ AsGroup(v)  BY <2>2, <3>2, Single
    <3> QED  BY <3>1, <3>2
  <2>4. unknown' \in Seq(Vars) /\ unknownSet' \subseteq Vars  BY <2>2, <2>3, CollectType
  <2> QED  BY <1>12, <2>1, <2>4 DEF CollectGuess, pickVars
<1>13. CASE CollectGuessEnd  BY <1>13 DEF CollectGuessEnd, pickVars
<1>14. CASE CollectIndep
  <2>1. PICK new \in IF indep[cursor] \in unknownSet THEN {<<>>}
                     ELSE Unflagged(Members(indep[cursor])) : Collect(new)
    BY <1>14 DEF CollectIndep
  <2>2. indep[cursor] \in Vars  BY <1>14 DEF CollectIndep
  <2>3. new \in Seq(Vars)
    <3>1. CASE indep[cursor] \in unknownSet  BY <2>1, <3>1
    <3>2. CASE indep[cursor] \notin unknownSet
      <4>1. Members(indep[cursor]) \in Seq(Vars)  BY <2>2, MembersType
      <4>2. new \in Unflagged(Members(indep[cursor]))  BY <2>1, <3>2
      <4> QED  BY <4>1, <4>2, UnflaggedFacts
    <3> QED  BY <3>1, <3>2
  <2>4. unknown' \in Seq(Vars) /\ unknownSet' \subseteq Vars  BY <2>1, <2>3, CollectType
  <2> QED  BY <1>14, <2>4 DEF CollectIndep, pickVars
<1>15. CASE Publish
  <2>1. samplingSet' \in Seq(Vars)
    <3>1. { k \in DOMAIN unknown : unknown[k] \in unknownSet } \subseteq DOMAIN unknown
      OBVIOUS
    <3> QED  BY <1>15, <3>1, EntriesFacts DEF Publish
  <2> QED  BY <1>15, <2>1 DEF Publish, pickVars, loopVars
<1>16. CASE UNCHANGED vars  BY <1>16 DEF vars, data, pickVars, loopVars
<1> QED
  BY <1>1, <1>2, <1>3, <1>4, <1>5, <1>6, <1>7, <1>8, <1>9, <1>10, <1>11, <1>12, <1>13,
     <1>14, <1>15, <1>16 DEF Next, Step, Stopped

-----------------------------------------------------------------------------
(* Groups *)

\* Well-formed groups split the variables of interest, with what is grouped with them,
\* into units.
LEMMA ClosureFacts ==
    ASSUME ProblemType(prob), GroupsFit, NEW v \in Closure
    PROVE  /\ v \in Vars /\ Mapped(v)
           /\ AsGroup(v) <=> InGroup(v)
           /\ v \in UnitOf(v) /\ UnitOf(v) \subseteq Closure
           /\ \A w \in UnitOf(v) : UnitOf(w) = UnitOf(v)
<1> PICK c \in Candidates : v \in UnitOf(c)  BY DEF Closure
<1>1. UnitOf(c) \subseteq Closure  BY DEF Closure
<1>2. v \in Vars
  <2>1. c \in Vars  BY RangeOfSeq DEF ProblemType, Candidates
  <2>2. InGroup(c) => Group(c) \in Seq(Vars)  BY GroupType
  <2>3. InGroup(c) => Range(Group(c)) \subseteq Vars  BY <2>2, RangeOfSeq
  <2> QED  BY <2>1, <2>3 DEF UnitOf
<1>3. CASE ~ InGroup(c)
  <2>1. v = c  BY <1>3 DEF UnitOf
  <2> QED  BY <1>1, <1>2, <1>3, <2>1 DEF UnitOf, GroupsFit, AsGroup
<1>4. CASE InGroup(c)
  <2>1. UnitOf(c) = Range(Group(c))  BY <1>4 DEF UnitOf
  <2>2. \A w \in UnitOf(c) : Mapped(w) /\ InGroup(w) /\ Group(w) = Group(c)
    BY <1>4, <2>1 DEF GroupsFit, InGroup, Group
  <2>3. \A w \in UnitOf(c) : UnitOf(w) = UnitOf(c)  BY <2>1, <2>2 DEF UnitOf
  <2>4. prob.groupIndep  BY <1>4 DEF GroupsFit
  <2> QED  BY <1>1, <1>2, <2>2, <2>3, <2>4 DEF AsGroup
<1> QED  BY <1>3, <1>4

\* A unit as it is iterated over.
LEMMA MembersFacts ==
    ASSUME ProblemType(prob), GroupsFit, NEW v \in Closure
    PROVE  /\ Members(v) \in Seq(Vars) /\ Distinct(Members(v))
           /\ Range(Members(v)) = UnitOf(v)
           /\ \A w \in UnitOf(v) : AsGroup(w) <=> AsGroup(v)
<1>1. Members(v) \in Seq(Vars)  BY ClosureFacts, MembersType
<1>3. CASE InGroup(v)
  <2>1. AsGroup(v) /\ Members(v) = Group(v)  BY <1>3, ClosureFacts DEF Members
  <2>2. PICK c \in Candidates : v \in UnitOf(c)  BY DEF Closure
  <2>3. Distinct(Group(v)) /\ \A w \in UnitOf(v) : AsGroup(w)
    <3>1. CASE InGroup(c)
      <4>1. v \in Range(Group(c)) /\ Distinct(Group(c))  BY <2>2, <3>1 DEF UnitOf, GroupsFit
      <4>2. \A w \in Range(Group(c)) : Mapped(w) /\ prob.groupOf[w] = prob.groupOf[c]
        BY <3>1 DEF GroupsFit
      <4>3. Group(v) = Group(c)  BY <4>1, <4>2 DEF Group
      <4>4. UnitOf(v) = Range(Group(c))  BY <1>3, <4>3 DEF UnitOf
      <4>5. \A w \in UnitOf(v) : InGroup(w)  BY <3>1, <4>2, <4>4 DEF InGroup
      <4> QED  BY <2>1, <4>1, <4>3, <4>5 DEF AsGroup
    <3>2. CASE ~ InGroup(c)  BY <1>3, <2>2, <3>2 DEF UnitOf
    <3> QED  BY <3>1, <3>2
  <2> QED  BY <1>1, <1>3, <2>1, <2>3 DEF UnitOf
<1>4. CASE ~ InGroup(v)
  <2>1. Members(v) = <<v>> /\ UnitOf(v) = {v}
    BY <1>4, ClosureFacts DEF Members, UnitOf
  <2>2. Range(<<v>>) = {v}  BY ClosureFacts, Single
  <2>3. Distinct(<<v>>)  BY DEF Distinct
  <2> QED  BY <1>1, <2>1, <2>2, <2>3
<1> QED  BY <1>3, <1>4

\* What is treated together with the variables of S.
Units(S) == UNION { UnitOf(v) : v \in S }
Whole(S) == \A v \in S : UnitOf(v) \subseteq S

LEMMA CandidatesInClosure == ASSUME GroupsFit PROVE Candidates \subseteq Closure
<1>1. \A v \in Candidates : v \in UnitOf(v)  BY DEF GroupsFit, UnitOf
<1> QED  BY <1>1 DEF Closure

\* The units of a set: whole, and around the set.
LEMMA UnitsFacts ==
    ASSUME ProblemType(prob), GroupsFit, NEW S, S \subseteq Closure
    PROVE  /\ S \subseteq Units(S) /\ Units(S) \subseteq Closure /\ Whole(Units(S))
           /\ Whole(S) => Units(S) = S
           /\ \A v \in Closure : v \in Units(S) => UnitOf(v) \subseteq Units(S)
           /\ \A v \in Closure : v \notin Units(S) => UnitOf(v) \cap Units(S) = {}
           /\ \A v \in Closure : Units(S \cup {v}) = Units(S) \cup UnitOf(v)
<1>1. \A v \in S : v \in UnitOf(v) /\ UnitOf(v) \subseteq Closure  BY ClosureFacts
<1>2. S \subseteq Units(S) /\ Units(S) \subseteq Closure  BY <1>1 DEF Units
<1>3. ASSUME NEW v \in Units(S) PROVE UnitOf(v) \subseteq Units(S)
  <2>1. PICK w \in S : v \in UnitOf(w)  BY DEF Units
  <2>2. UnitOf(v) = UnitOf(w)  BY <2>1, ClosureFacts
  <2> QED  BY <2>2 DEF Units
<1>4. ASSUME Whole(S) PROVE Units(S) = S  BY <1>2, <1>4 DEF Units, Whole
<1>5. ASSUME NEW v \in Closure, v \notin Units(S) PROVE UnitOf(v) \cap Units(S) = {}
  <2> SUFFICES ASSUME NEW w \in UnitOf(v), w \in Units(S) PROVE FALSE  OBVIOUS
  <2>1. UnitOf(w) = UnitOf(v) /\ v \in UnitOf(v)  BY ClosureFacts
  <2> QED  BY <1>3, <1>5, <2>1
<1>6. \A v \in Closure : Units(S \cup {v}) = Units(S) \cup UnitOf(v)  BY DEF Units
<1> QED  BY <1>2, <1>3, <1>4, <1>5, <1>6 DEF Whole

\* Two whole sets stay apart when a unit is added to one that is not in the other.
LEMMA WholeApart ==
    ASSUME ProblemType(prob), GroupsFit, NEW S, Whole(S), S \subseteq Closure,
           NEW v \in Closure, v \notin S
    PROVE  UnitOf(v) \cap S = {} /\ Whole(S \cup UnitOf(v))
<1>1. Units(S) = S  BY UnitsFacts
<1>2. UnitOf(v) \cap S = {}  BY <1>1, UnitsFacts
<1>3. \A w \in UnitOf(v) : UnitOf(w) = UnitOf(v)  BY ClosureFacts
<1> QED  BY <1>2, <1>3 DEF Whole

-----------------------------------------------------------------------------
(* The solver *)

\* The indicators of a vector of variables, added to the assumptions.
LEMMA AssumedMore ==
    ASSUME NEW ass \in Seq(Literals), NEW s \in Seq(Vars)
    PROVE  /\ Assumed(ass \o SameLits(s), "same") = Assumed(ass, "same") \cup Range(s)
           /\ Assumed(ass \o SameLits(s), "differ") = Assumed(ass, "differ")
<1> DEFINE t == SameLits(s)
           all == ass \o t
           m == Len(ass)
           n == Len(s)
<1>1. /\ m \in Nat /\ n \in Nat /\ DOMAIN ass = 1 .. m /\ DOMAIN s = 1 .. n
      /\ t \in Seq(Literals) /\ Len(t) = n /\ \A k \in 1 .. n : t[k] = <<"same", s[k]>>
      /\ \A k \in 1 .. n : s[k] \in Vars
  BY LitTypes
<1> HIDE DEF t
<1>2. /\ DOMAIN all = 1 .. (m + n)
      /\ \A k \in 1 .. m : all[k] = ass[k]
      /\ \A k \in 1 .. n : all[m + k] = <<"same", s[k]>>
  <2>0. t \in Seq(Literals)  BY <1>1
  <2>1. all \in Seq(Literals) /\ Len(all) = m + n
    <3>1. ass \o t \in Seq(Literals) /\ Len(ass \o t) = Len(ass) + Len(t)
      BY <2>0, ConcatProperties
    <3> QED  BY <1>1, <3>1
  <2>2. \A k \in 1 .. m + n : all[k] = IF k <= m THEN ass[k] ELSE t[k - m]
    BY <1>1, ConcatProperties
  <2>3. \A k \in 1 .. m : k \in 1 .. m + n /\ k <= m  BY <1>1
  <2>4. \A k \in 1 .. n : m + k \in 1 .. m + n /\ ~ (m + k <= m) /\ (m + k) - m = k  BY <1>1
  <2>5. DOMAIN all = 1 .. (m + n)  BY <2>1
  <2>6. \A k \in 1 .. m : all[k] = ass[k]  BY <2>2, <2>3
  <2>7. \A k \in 1 .. n : all[m + k] = <<"same", s[k]>>  BY <1>1, <2>2, <2>4
  <2> QED  BY <2>5, <2>6, <2>7
<1> HIDE DEF all, m, n
<1>3. \A k \in 1 .. (m + n) : k \in 1 .. m \/ \E l \in 1 .. n : k = m + l
  <2> TAKE k \in 1 .. (m + n)
  <2>1. k <= m \/ k - m \in 1 .. n  BY <1>1
  <2>2. k = m + (k - m)  BY <1>1
  <2> QED  BY <1>1, <2>1, <2>2
<1>4. /\ \A k \in 1 .. m : k \in 1 .. (m + n)
      /\ \A k \in 1 .. n : m + k \in 1 .. (m + n)
  BY <1>1
<1>5. \A v, w : <<"same", v>> = <<"same", w>> <=> v = w  OBVIOUS
<1>6. \A v, w : <<"same", v>> # <<"differ", w>>  OBVIOUS
<1>7. ASSUME NEW v \in Vars
      PROVE  (\E k \in DOMAIN all : all[k] = <<"same", v>>)
                 <=> (\E k \in DOMAIN ass : ass[k] = <<"same", v>>) \/ v \in Range(s)
  <2>1. ASSUME NEW k \in 1 .. (m + n), all[k] = <<"same", v>>
        PROVE (\E l \in 1 .. m : ass[l] = <<"same", v>>) \/ \E l \in 1 .. n : s[l] = v
    BY <1>2, <1>3, <1>5, <2>1
  <2>2. ASSUME NEW l \in 1 .. m, ass[l] = <<"same", v>>
        PROVE \E k \in 1 .. (m + n) : all[k] = <<"same", v>>
    BY <1>2, <1>4, <2>2
  <2>3. ASSUME NEW l \in 1 .. n, s[l] = v
        PROVE \E k \in 1 .. (m + n) : all[k] = <<"same", v>>
    BY <1>2, <1>4, <2>3
  <2>4. v \in Range(s) <=> \E l \in 1 .. n : s[l] = v  BY <1>1 DEF Range
  <2> QED  BY <1>1, <1>2, <2>1, <2>2, <2>3, <2>4
<1>8. ASSUME NEW v \in Vars
      PROVE  (\E k \in DOMAIN all : all[k] = <<"differ", v>>)
                 <=> \E k \in DOMAIN ass : ass[k] = <<"differ", v>>
  <2>1. ASSUME NEW k \in 1 .. (m + n), all[k] = <<"differ", v>>
        PROVE \E l \in 1 .. m : ass[l] = <<"differ", v>>
    BY <1>2, <1>3, <1>6, <2>1
  <2>2. ASSUME NEW l \in 1 .. m, ass[l] = <<"differ", v>>
        PROVE \E k \in 1 .. (m + n) : all[k] = <<"differ", v>>
    BY <1>2, <1>4, <2>2
  <2> QED  BY <1>1, <1>2, <2>1, <2>2
<1>9. Range(s) \subseteq Vars  BY RangeOfSeq
<1>10. Assumed(all, "same") = Assumed(ass, "same") \cup Range(s)
  BY <1>7, <1>9 DEF Assumed
<1>11. Assumed(all, "differ") = Assumed(ass, "differ")  BY <1>8 DEF Assumed
<1> QED  BY <1>10, <1>11 DEF all, t

\* The assumptions of one call: what is assumed equal, and the variable under test.
LEMMA AssumedTest ==
    ASSUME NEW ass \in Seq(Literals), NEW v \in Vars
    PROVE  /\ Assumed(Append(ass, Differ(v)), "same") = Assumed(ass, "same")
           /\ Assumed(Append(ass, Differ(v)), "differ") = Assumed(ass, "differ") \cup {v}
<1> DEFINE all == Append(ass, Differ(v))
           m == Len(ass)
<1>1. m \in Nat /\ DOMAIN ass = 1 .. m  OBVIOUS
<1>2. Differ(v) \in Literals /\ Differ(v) = <<"differ", v>>  BY DEF Differ, Literals
<1>3. /\ DOMAIN all = 1 .. (m + 1)
      /\ \A k \in 1 .. m : all[k] = ass[k]
      /\ all[m + 1] = <<"differ", v>>
  BY <1>2, AppendProperties
<1> HIDE DEF all, m
<1>4. \A k : k \in 1 .. (m + 1) <=> k \in 1 .. m \/ k = m + 1  BY <1>1
<1>5. \A w : <<"same", w>> # <<"differ", v>>  OBVIOUS
<1>6. \A w : <<"differ", w>> = <<"differ", v>> <=> w = v  OBVIOUS
<1>7. Assumed(all, "same") = Assumed(ass, "same")
  BY <1>1, <1>3, <1>4, <1>5 DEF Assumed
<1>8. Assumed(all, "differ") = Assumed(ass, "differ") \cup {v}
  BY <1>1, <1>3, <1>4, <1>6 DEF Assumed
<1> QED  BY <1>7, <1>8 DEF all

\* "Unsatisfiable": no two models that agree on what is assumed tell the variable apart.
LEMMA AnsweredFalse ==
    ASSUME NEW ass \in Seq(Literals), NEW v \in Vars, Assumed(ass, "differ") = {},
           "false" \in Answers(Append(ass, Differ(v)))
    PROVE  ~ Separable(prob.models, Assumed(ass, "same"), v)
<1>1. ~ Satisfiable(Append(ass, Differ(v)))
  <2> SUFFICES ASSUME Satisfiable(Append(ass, Differ(v))) PROVE FALSE  OBVIOUS
  <2>1. Answers(Append(ass, Differ(v))) \subseteq {"true", "undef"}  BY DEF Answers
  <2> QED  BY <2>1
<1>2. /\ Assumed(Append(ass, Differ(v)), "same") = Assumed(ass, "same")
      /\ Assumed(Append(ass, Differ(v)), "differ") = {v}
  BY AssumedTest
<1> QED  BY <1>1, <1>2 DEF Satisfiable, Separable

-----------------------------------------------------------------------------
(* The inductive invariant *)

M == prob.models

\* The unknowns before the position c.
Before(c) == { unknown[l] : l \in { n \in DOMAIN unknown : n < c } }

\* The groups that have come up so far are flagged, and still nothing has been tested.
WindowInv ==
    /\ unknown = Reverse(prob.sampling) /\ Range(pick) = Candidates
    /\ indep = <<>> /\ tried = {} /\ testGroup = <<>>
    /\ cursor <= ForwardGroup + 1
    /\ seen = Units(Before(cursor))
    /\ Assumed(assumptions, "differ") = {}

GuessInv ==
    /\ WindowInv
    /\ guessSet = seen /\ unknownSet = Candidates \ Before(cursor)
    /\ Assumed(assumptions, "same") = {}

AssumeInv ==
    /\ WindowInv
    /\ guessSet = Units(InitialWindow) /\ unknownSet = Candidates \ InitialWindow
    /\ Assumed(assumptions, "same") = seen

\* From the main loop on, the guess and what has been tested are whole groups, apart from
\* each other.
Settled == pc \in {"pick", "solve", "collectGuess", "collectIndep", "done"}
SettledInv ==
    /\ guessSet = Units(InitialWindow)
    /\ seen = guessSet \ Candidates
    /\ tried \subseteq Closure /\ Whole(tried) /\ tried \cap guessSet = {}
    /\ Range(indep) \subseteq tried /\ Whole(Range(indep))

\* The variables of interest that are neither guessed nor tested.
Untried == Candidates \ (InitialWindow \cup tried)

Kept == guessSet \cup Range(indep)

\* The members of the group under test that are still to be tested.
Testing == pc = "solve" \/ testGroup # <<>>
Remaining == Range(testGroup) \cup (IF pc = "solve" THEN {testVar} ELSE {})

LoopInv ==
    /\ unknownSet = Untried
    /\ Range(pick) \subseteq Candidates
    /\ \A v \in Candidates : Open(v) => v \in Range(pick)
    /\ Assumed(assumptions, "same") = Kept /\ Assumed(assumptions, "differ") = {}
    /\ testGroup # <<>> => AsGroup(testVar)
    /\ Testing => testVar \in tried
    /\ Remaining \subseteq UnderTest
    /\ UnderTest \cap Range(indep) = {}
    /\ \A v \in UnderTest \ Remaining : ~ Separable(M, Kept, v)
    /\ Defines(M, Kept, tried \ (UnderTest \cup Range(indep)))

\* The main loop ended with a variable of interest neither guessed nor tested, or in the
\* middle of a group.
GaveUp == testGroup # <<>> \/ ~ (Candidates \subseteq guessSet \cup tried)

\* What is collected so far: of the guess what is not flagged from the start, and the
\* kept groups.
CollectInv ==
    /\ ~ GaveUp => Defines(M, Kept, Candidates)
    /\ unknownSet = Untried \cup Range(unknown)
    /\ Distinct(unknown)
    /\ pc = "collectGuess" =>
           todo \subseteq guessSet /\ Range(unknown) = Units(guessSet \ todo) \ Untried
    /\ pc = "collectIndep" =>
           Range(unknown) = (guessSet \ Untried)
                                \cup Units({ indep[l] : l \in { n \in DOMAIN indep : n < cursor } })

DoneInv ==
    /\ Distinct(samplingSet)
    /\ Range(samplingSet) \subseteq Closure
    /\ guessSet \ Untried \subseteq Range(samplingSet)
    /\ Whole(Range(samplingSet) \ guessSet)
    /\ ~ GaveUp => Defines(M, guessSet \cup Range(samplingSet), Candidates)

Failed == pc \in {"abort", "wild"}

RoundInv ==
    /\ pc \notin {"abort", "wild"}
    /\ pc = "guess" => GuessInv
    /\ pc = "assume" => AssumeInv
    /\ Settled => SettledInv
    /\ Looping => LoopInv
    /\ pc \in {"collectGuess", "collectIndep"} => CollectInv
    /\ pc = "done" => DoneInv

\* What a step preserves: the groups fit or not, and a failed assertion ends the round.
Inductive == GroupsFit /\ ~ Failed => RoundInv

\* The input's groups and window do not change.
LEMMA ProbFixed ==
    ASSUME prob' = prob
    PROVE  /\ (GroupsFit' <=> GroupsFit) /\ (WellFormed' <=> WellFormed) /\ Candidates' = Candidates /\ Closure' = Closure
           /\ InitialWindow' = InitialWindow /\ M' = M
           /\ \A v : UnitOf(v)' = UnitOf(v) /\ (AsGroup(v)' <=> AsGroup(v))
                     /\ Members(v)' = Members(v)
           /\ \A S : Units(S)' = Units(S) /\ (Whole(S)' <=> Whole(S))
BY DEF GroupsFit, WellFormed, Candidates, Closure, InitialWindow, M, UnitOf, AsGroup, Members, Units,
       Whole, InGroup, Mapped, Group

\* The window as the guess leaves it.
LEMMA WindowFacts ==
    ASSUME ProblemType(prob), GroupsFit
    PROVE  /\ InitialWindow \subseteq Candidates /\ InitialWindow \subseteq Closure
           /\ InitialWindow \subseteq Units(InitialWindow)
           /\ Units(InitialWindow) \subseteq Closure /\ Whole(Units(InitialWindow))
<1>1. prob.sampling \in Seq(Vars)  BY DEF ProblemType
<1>2. InitialWindow \subseteq Range(Reverse(prob.sampling))  BY DEF InitialWindow, Range
<1>3. InitialWindow \subseteq Candidates  BY <1>1, <1>2, ReverseFacts DEF Candidates
<1> QED  BY <1>3, CandidatesInClosure, UnitsFacts

\* Where the loops over the window are.
LEMMA WindowLoop ==
    ASSUME TypeInv, GroupsFit, WindowInv
    PROVE  /\ Range(unknown) = Candidates /\ Before(cursor) \subseteq Candidates
           /\ Candidates \subseteq Closure
           /\ InWindow =>
                  /\ Current \in Candidates
                  /\ Before(cursor + 1) = Before(cursor) \cup {Current}
                  /\ cursor + 1 <= ForwardGroup + 1
           /\ ~ InWindow => Before(cursor) = InitialWindow
<1>1. prob.sampling \in Seq(Vars)  BY DEF TypeInv, TypeOK, ProblemType
<1>2. Range(unknown) = Candidates  BY <1>1, ReverseFacts DEF WindowInv, Candidates
<1>3. unknown \in Seq(Vars) /\ cursor \in Nat \ {0}  BY DEF TypeInv, TypeOK
<1>4. DOMAIN unknown = 1 .. Len(unknown) /\ Len(unknown) \in Nat  BY <1>3
<1>5. Before(cursor) \subseteq Candidates  BY <1>2 DEF Before, Range
<1>6. ASSUME InWindow
      PROVE  /\ Current \in Candidates
             /\ Before(cursor + 1) = Before(cursor) \cup {Current}
             /\ cursor + 1 <= ForwardGroup + 1
  <2>1. cursor \in DOMAIN unknown /\ cursor <= ForwardGroup  BY <1>3, <1>4, <1>6 DEF InWindow
  <2>2. \A n \in DOMAIN unknown : n < cursor + 1 <=> n < cursor \/ n = cursor  BY <1>3, <1>4
  <2>3. Before(cursor + 1) = Before(cursor) \cup {Current}
    BY <2>1, <2>2 DEF Before, Current
  <2> QED  BY <1>2, <1>3, <2>1, <2>3, ForwardGroupAssumption DEF Current, Range
<1>7. ASSUME ~ InWindow PROVE Before(cursor) = InitialWindow
  <2>1. \A n \in DOMAIN unknown : n < cursor <=> n <= ForwardGroup
    BY <1>3, <1>4, <1>7, ForwardGroupAssumption DEF InWindow, WindowInv
  <2> QED  BY <2>1 DEF Before, InitialWindow, WindowInv
<1> QED  BY <1>2, <1>5, <1>6, <1>7, CandidatesInClosure

LEMMA BeforeFirst == ASSUME TypeOK PROVE Before(1) = {} /\ Units({}) = {}
<1>1. unknown \in Seq(Vars)  BY DEF TypeOK
<1>2. \A n \in DOMAIN unknown : ~ (n < 1)  BY <1>1
<1> QED  BY <1>2 DEF Before, Units

LEMMA BeginInv == ASSUME ProblemType(prob), Begin, GroupsFit PROVE RoundInv
<1>1. TypeInv  BY BeginTypes
<1>2. Range(pick) = Candidates
  <2>1. prob.sampling \in Seq(Vars)  BY <1>1 DEF TypeInv, TypeOK, ProblemType
  <2> QED  BY <2>1, ReverseFacts, OrdersKeep DEF Begin, Candidates
<1>3. Before(1) = {} /\ Units({}) = {}  BY <1>1, BeforeFirst DEF TypeInv
<1>4. Assumed(<<>>, "same") = {} /\ Assumed(<<>>, "differ") = {}  BY DEF Assumed
<1>5. WindowInv
  <2>1. 1 <= ForwardGroup + 1  BY ForwardGroupAssumption
  <2>2. seen = Units(Before(cursor))  BY <1>3 DEF Begin
  <2> QED  BY <1>2, <1>4, <2>1, <2>2 DEF Begin, WindowInv
<1>6. GuessInv  BY <1>3, <1>4, <1>5 DEF Begin, GuessInv, Candidates
<1> QED  BY <1>6 DEF Begin, RoundInv, Settled, Looping

\* The flags guard against meeting a group twice: with or without them the whole group
\* of an entry is flagged after it.
LEMMA GuessKeeps ==
    ASSUME TypeInv, GroupsFit, GuessInv, GuessNext PROVE RoundInv'
<1> DEFINE grouped == Range(Members(Current))
<1>1. InWindow /\ WindowInv /\ ProblemType(prob)
  BY DEF GuessNext, GuessInv, TypeInv, TypeOK
<1>2. /\ Current \in Candidates /\ Before(cursor) \subseteq Candidates
      /\ Candidates \subseteq Closure
      /\ Before(cursor + 1) = Before(cursor) \cup {Current}
      /\ cursor + 1 <= ForwardGroup + 1
  BY <1>1, WindowLoop
<1>3. grouped = UnitOf(Current)  BY <1>1, <1>2, MembersFacts
<1>4. Units(Before(cursor + 1)) = Units(Before(cursor)) \cup grouped
  BY <1>1, <1>2, <1>3, UnitsFacts
<1>6. seen' = Units(Before(cursor + 1)) /\ guessSet' = seen'
  <2>1. CASE Current \in unknownSet /\ Current \notin seen
    BY <1>4, <2>1 DEF GuessNext, GuessInv, WindowInv
  <2>2. CASE ~ (Current \in unknownSet /\ Current \notin seen)
    <3>1. Current \in Units(Before(cursor))
      <4>1. CASE Current \in seen  BY <4>1 DEF GuessInv, WindowInv
      <4>2. CASE Current \notin unknownSet
        <5>1. Current \in Before(cursor)  BY <1>2, <4>2 DEF GuessInv
        <5> QED  BY <1>1, <1>2, <5>1, UnitsFacts
      <4> QED  BY <2>2, <4>1, <4>2
    <3>2. Before(cursor) \subseteq Closure /\ Current \in Closure  BY <1>2
    <3>3. UnitOf(Current) \subseteq Units(Before(cursor))  BY <1>1, <3>1, <3>2, UnitsFacts
    <3> QED  BY <1>3, <1>4, <2>2, <3>3 DEF GuessNext, GuessInv, WindowInv
  <2> QED  BY <2>1, <2>2
<1>7. /\ unknownSet' = unknownSet \ {Current} /\ cursor' = cursor + 1 /\ pc' = "guess"
      /\ UNCHANGED <<prob, unknown, indep, assumptions, tried, pick, testGroup>>
  BY DEF GuessNext, pickVars
<1>8. Before(cursor)' = Before(cursor + 1)  BY <1>7 DEF Before
<1>9. WindowInv'
  BY <1>1, <1>2, <1>6, <1>7, <1>8, ProbFixed DEF WindowInv
<1>10. GuessInv'
  BY <1>2, <1>6, <1>7, <1>8, <1>9, ProbFixed DEF GuessInv
<1> QED  BY <1>7, <1>10 DEF RoundInv, Settled, Looping

LEMMA GuessFailsNot ==
    ASSUME TypeInv, WellFormed, GuessInv, GuessFails PROVE FALSE
<1>1. Current \in Candidates /\ Current \in Closure /\ ProblemType(prob)
  BY WindowLoop DEF GuessFails, GuessInv, TypeInv, TypeOK, WellFormed
<1>2. Current \in prob.indicated /\ Mapped(Current)  BY <1>1, ClosureFacts DEF WellFormed
<1>3. Range(Members(Current)) \subseteq prob.indicated
  BY <1>1, ClosureFacts, MembersFacts DEF WellFormed
<1> QED  BY <1>2, <1>3 DEF GuessFails

LEMMA GuessEndKeeps ==
    ASSUME TypeInv, GroupsFit, GuessInv, GuessEnd PROVE RoundInv'
<1>1. Before(cursor) = InitialWindow /\ WindowInv
  BY WindowLoop DEF GuessEnd, GuessInv
<1>2. guessSet = Units(InitialWindow) /\ unknownSet = Candidates \ InitialWindow
  BY <1>1 DEF GuessInv, WindowInv
<1>3. /\ seen' = {} /\ cursor' = 1 /\ pc' = "assume"
      /\ UNCHANGED <<prob, unknown, unknownSet, guessSet, indep, assumptions, tried, pick, testGroup>>
  BY DEF GuessEnd, pickVars
<1>4. Units(Before(cursor))' = {}
  <2>1. Before(1) = {} /\ Units({}) = {}  BY BeforeFirst DEF TypeInv
  <2>2. Before(cursor)' = {}  BY <1>3, <2>1 DEF Before
  <2>3. Units(Before(cursor))' = Units({})'  BY <2>2
  <2> QED  BY <1>3, <2>1, <2>3, ProbFixed
<1>5. WindowInv'
  BY <1>1, <1>3, <1>4, ProbFixed, ForwardGroupAssumption DEF WindowInv
<1>6. AssumeInv'
  BY <1>2, <1>3, <1>5, ProbFixed DEF GuessInv, AssumeInv
<1> QED  BY <1>3, <1>6 DEF RoundInv, Settled, Looping

LEMMA AssumeKeeps ==
    ASSUME TypeInv, GroupsFit, AssumeInv, AssumeNext PROVE RoundInv'
<1> DEFINE grouped == Range(Members(Current))
<1>1. InWindow /\ WindowInv /\ ProblemType(prob)
  BY DEF AssumeNext, AssumeInv, TypeInv, TypeOK
<1>2. /\ Current \in Candidates /\ Before(cursor) \subseteq Candidates
      /\ Candidates \subseteq Closure
      /\ Before(cursor + 1) = Before(cursor) \cup {Current}
      /\ cursor + 1 <= ForwardGroup + 1
  BY <1>1, WindowLoop
<1>3. grouped = UnitOf(Current) /\ Members(Current) \in Seq(Vars)
  BY <1>1, <1>2, MembersFacts
<1>4. Units(Before(cursor + 1)) = Units(Before(cursor)) \cup grouped
  BY <1>1, <1>2, <1>3, UnitsFacts
<1>5. Current \in guessSet
  <2>1. Current \in InitialWindow
    BY <1>1 DEF InWindow, Current, InitialWindow, WindowInv, TypeInv, TypeOK
  <2> QED  BY <1>1, <2>1, WindowFacts DEF AssumeInv
<1>6. /\ seen' = Units(Before(cursor + 1))
      /\ Assumed(assumptions', "same") = seen' /\ Assumed(assumptions', "differ") = {}
  <2>1. /\ Assumed(assumptions, "same") = Units(Before(cursor))
        /\ seen = Units(Before(cursor)) /\ Assumed(assumptions, "differ") = {}
        /\ assumptions \in Seq(Literals)
    BY DEF AssumeInv, WindowInv, TypeInv, TypeOK
  <2>2. CASE Current \notin seen
    <3>1. seen' = seen \cup grouped /\ assumptions' = assumptions \o SameLits(Members(Current))
      BY <1>5, <2>2 DEF AssumeNext
    <3>2. /\ Assumed(assumptions', "same") = Assumed(assumptions, "same") \cup grouped
          /\ Assumed(assumptions', "differ") = Assumed(assumptions, "differ")
      BY <1>3, <2>1, <3>1, AssumedMore
    <3> QED  BY <1>4, <2>1, <3>1, <3>2
  <2>3. CASE Current \in seen
    <3>1. seen' = seen /\ assumptions' = assumptions  BY <2>3 DEF AssumeNext
    <3>2. Before(cursor) \subseteq Closure /\ Current \in Closure  BY <1>2
    <3>3. UnitOf(Current) \subseteq Units(Before(cursor))
      BY <1>1, <2>1, <2>3, <3>2, UnitsFacts
    <3> QED  BY <1>3, <1>4, <2>1, <3>1, <3>3
  <2> QED  BY <2>2, <2>3
<1>7. /\ cursor' = cursor + 1 /\ pc' = "assume"
      /\ UNCHANGED <<prob, unknown, unknownSet, guessSet, indep, tried, pick, testGroup>>
  BY DEF AssumeNext, pickVars
<1>8. Before(cursor)' = Before(cursor + 1)  BY <1>7 DEF Before
<1>9. Assumed(assumptions, "same")' = Assumed(assumptions', "same")
      /\ Assumed(assumptions, "differ")' = Assumed(assumptions', "differ")
  BY DEF Assumed
<1>10. WindowInv'
  BY <1>1, <1>2, <1>6, <1>7, <1>8, <1>9, ProbFixed DEF WindowInv
<1>11. AssumeInv'
  BY <1>6, <1>7, <1>9, <1>10, ProbFixed DEF AssumeInv
<1> QED  BY <1>7, <1>11 DEF RoundInv, Settled, Looping

\* The main loop starts: the flags of the window's entries are cleared, nothing has been
\* tested.
LEMMA AssumeEndKeeps ==
    ASSUME TypeInv, GroupsFit, AssumeInv, AssumeEnd PROVE RoundInv'
<1>1. /\ WindowInv /\ ProblemType(prob) /\ Before(cursor) = InitialWindow
      /\ Range(unknown) = Candidates
  BY WindowLoop DEF AssumeEnd, AssumeInv, TypeInv, TypeOK
<1>2. /\ guessSet = Units(InitialWindow) /\ unknownSet = Candidates \ InitialWindow
      /\ Assumed(assumptions, "same") = guessSet /\ Assumed(assumptions, "differ") = {}
      /\ seen = guessSet /\ tried = {} /\ indep = <<>> /\ testGroup = <<>>
      /\ Range(pick) = Candidates
  BY <1>1 DEF AssumeInv, WindowInv
<1>3. /\ seen' = guessSet \ Candidates /\ pc' = "pick"
      /\ UNCHANGED <<prob, unknown, unknownSet, guessSet, indep, assumptions, tried, pick,
                     testGroup, testVar, cursor>>
  BY <1>1, <1>2 DEF AssumeEnd, pickVars, loopVars
<1>4. Range(indep') = {} /\ tried' = {}  BY <1>2, <1>3 DEF Range
<1>5. SettledInv'
  BY <1>2, <1>3, <1>4, ProbFixed DEF SettledInv, Whole
<1>6. UnderTest' = {} /\ Remaining' = {} /\ Untried' = unknownSet /\ Kept' = guessSet
  BY <1>2, <1>3, <1>4, ProbFixed DEF UnderTest, Remaining, Untried, Kept, Range
<1>7. LoopInv'
  <2>1. Defines(M, Kept, tried \ (UnderTest \cup Range(indep)))'
    BY <1>4, <1>6, DefinesRefl
  <2>2. \A v \in Candidates' : Open(v)' => v \in Range(pick)'
    BY <1>2, <1>3, ProbFixed
  <2>3. /\ Range(pick)' \subseteq Candidates' /\ unknownSet' = Untried'
        /\ testGroup' = <<>>
        /\ Assumed(assumptions, "same")' = Kept' /\ Assumed(assumptions, "differ")' = {}
    BY <1>2, <1>3, <1>6, ProbFixed DEF Assumed
  <2>4. ~ Testing'  BY <1>3, <2>3 DEF Testing
  <2> QED  BY <1>4, <1>6, <2>1, <2>2, <2>3, <2>4 DEF LoopInv
<1> QED  BY <1>3, <1>5, <1>7 DEF RoundInv, Settled, Looping

\* What is under test is one tested unit, or nothing.
LEMMA TestFacts ==
    ASSUME TypeInv, GroupsFit, SettledInv, LoopInv
    PROVE  /\ ProblemType(prob)
           /\ Testing => /\ testVar \in tried /\ testVar \in Closure
                         /\ UnderTest = UnitOf(testVar)
           /\ UnderTest \subseteq tried
           /\ ~ Testing => UnderTest = {} /\ Remaining = {}
<1>1. ProblemType(prob)  BY DEF TypeInv, TypeOK
<1>2. ASSUME Testing
      PROVE  testVar \in tried /\ testVar \in Closure /\ UnderTest = UnitOf(testVar)
  <2>1. testVar \in tried /\ testVar \in Closure  BY <1>2 DEF LoopInv, SettledInv
  <2>2. UnderTest = Range(Members(testVar))  BY <1>2 DEF Testing, UnderTest
  <2> QED  BY <1>1, <2>1, <2>2, MembersFacts
<1>3. ASSUME ~ Testing PROVE UnderTest = {} /\ Remaining = {}
  BY <1>3 DEF Testing, UnderTest, Remaining, Range
<1>4. UnderTest \subseteq tried
  BY <1>2, <1>3 DEF SettledInv, Whole
<1> QED  BY <1>1, <1>2, <1>3, <1>4

\* The rest of a group is marked already; another of its members comes under test.
LEMMA PickMemberKeeps ==
    ASSUME TypeInv, GroupsFit, SettledInv, LoopInv, PickMember PROVE RoundInv'
<1> DEFINE w == Last(testGroup)
<1>1. /\ pc = "pick" /\ testGroup # <<>> /\ testGroup \in Seq(Vars) /\ Testing
  BY DEF PickMember, Picking, TypeInv, TypeOK, Testing
<1>2. /\ ProblemType(prob) /\ testVar \in tried /\ testVar \in Closure
      /\ UnderTest = UnitOf(testVar) /\ UnderTest \subseteq tried
  BY <1>1, TestFacts
<1>3. Range(testGroup) = Range(Front(testGroup)) \cup {w}  BY <1>1, PopBack
<1>4. Remaining = Range(testGroup)  BY <1>1 DEF Remaining
<1>5. w \in UnitOf(testVar)  BY <1>2, <1>3, <1>4 DEF LoopInv
<1>6. w \in tried /\ w \in Closure /\ UnitOf(w) = UnitOf(testVar) /\ AsGroup(w)
  <2>1. AsGroup(testVar)  BY <1>1 DEF LoopInv
  <2> QED  BY <1>2, <1>5, <2>1, ClosureFacts, MembersFacts DEF SettledInv
<1>7. Range(Members(w)) = UnitOf(w) /\ UnitOf(w) \subseteq tried
  BY <1>2, <1>6, MembersFacts DEF SettledInv, Whole
<1>8. /\ testVar' = w /\ testGroup' = Front(testGroup) /\ pc' = "solve"
      /\ tried' = tried /\ unknownSet' = unknownSet
      /\ UNCHANGED <<prob, unknown, guessSet, indep, seen, assumptions, pick, iter, loopVars>>
  <2>1. unknownSet \cap tried = {}  BY DEF LoopInv, Untried
  <2>2. /\ tried' = tried \cup Range(Members(w))
        /\ unknownSet' = unknownSet \ Range(Members(w))
    BY DEF PickMember, Mark
  <2>3. tried' = tried /\ unknownSet' = unknownSet  BY <1>7, <2>1, <2>2
  <2> QED  BY <2>3 DEF PickMember, Mark
<1> HIDE DEF w
<1>9. UnderTest' = UnderTest
  <2>1. Members(testVar)' = Members(w)  BY <1>8, ProbFixed
  <2>2. UnderTest' = Range(Members(testVar)')  BY <1>8 DEF UnderTest
  <2> QED  BY <1>2, <1>6, <1>7, <2>1, <2>2
<1>10. Remaining' = Remaining  BY <1>3, <1>4, <1>8 DEF Remaining
<1>11. Kept' = Kept /\ Untried' = Untried
  BY <1>8, ProbFixed DEF Kept, Untried
<1>12. SettledInv'
  BY <1>8, ProbFixed DEF SettledInv
<1>13. LoopInv'
  <2>1. \A v \in Candidates' : Open(v)' => v \in Range(pick)'
    BY <1>8, ProbFixed DEF LoopInv, Open
  <2>2. /\ unknownSet' = Untried' /\ Range(pick)' \subseteq Candidates'
        /\ Assumed(assumptions, "same")' = Kept' /\ Assumed(assumptions, "differ")' = {}
    BY <1>8, <1>11, ProbFixed DEF LoopInv, Assumed
  <2>3. /\ AsGroup(testVar)' /\ testVar' \in tried'
    BY <1>6, <1>8, ProbFixed
  <2>4. /\ Remaining' \subseteq UnderTest' /\ UnderTest' \cap Range(indep)' = {}
        /\ \A v \in UnderTest' \ Remaining' : ~ Separable(M', Kept', v)
        /\ Defines(M', Kept', tried' \ (UnderTest' \cup Range(indep)'))
    BY <1>8, <1>9, <1>10, <1>11, ProbFixed DEF LoopInv
  <2> QED  BY <2>1, <2>2, <2>3, <2>4 DEF LoopInv
<1> QED  BY <1>8, <1>12, <1>13 DEF RoundInv, Settled, Looping

\* What is open lies in a unit of which nothing has been tested or guessed.
LEMMA OpenFacts ==
    ASSUME TypeInv, GroupsFit, SettledInv, LoopInv, NEW k \in OpenPicks
    PROVE  /\ ProblemType(prob) /\ pick[k] \in Candidates /\ pick[k] \in Closure
           /\ k \in 1 .. Len(pick) /\ pick[k] \notin tried
           /\ Range(Members(pick[k])) = UnitOf(pick[k]) /\ pick[k] \in UnitOf(pick[k])
           /\ UnitOf(pick[k]) \cap tried = {} /\ UnitOf(pick[k]) \cap guessSet = {}
           /\ Whole(tried \cup UnitOf(pick[k]))
<1>1. /\ ProblemType(prob) /\ k \in DOMAIN pick /\ Open(pick[k]) /\ pick \in Seq(Vars)
  BY DEF OpenPicks, TypeInv, TypeOK
<1>2. pick[k] \in Candidates /\ pick[k] \notin tried /\ pick[k] \notin guessSet
  BY <1>1 DEF LoopInv, Range, Open
<1>3. pick[k] \in Closure  BY <1>2, CandidatesInClosure
<1>4. guessSet \subseteq Closure /\ Whole(guessSet)  BY <1>1, WindowFacts DEF SettledInv
<1>5. UnitOf(pick[k]) \cap guessSet = {}  BY <1>1, <1>2, <1>3, <1>4, WholeApart
<1>6. UnitOf(pick[k]) \cap tried = {} /\ Whole(tried \cup UnitOf(pick[k]))
  BY <1>1, <1>2, <1>3, WholeApart DEF SettledInv
<1> QED  BY <1>1, <1>2, <1>3, <1>5, <1>6, MembersFacts, ClosureFacts

\* A new unit comes under test, all of it, and is marked as a whole.
LEMMA PickNewKeeps ==
    ASSUME TypeInv, GroupsFit, SettledInv, LoopInv, PickNew PROVE RoundInv'
<1>1. PICK k \in OpenPicks :
          /\ \A l \in OpenPicks : l <= k
          /\ Mark(pick[k])
          /\ pick' = SubSeq(pick, 1, k)
          /\ testGroup' \in Others(pick[k])
  BY DEF PickNew
<1> DEFINE w == pick[k]
           unit == UnitOf(w)
<1>2. /\ ProblemType(prob) /\ w \in Candidates /\ w \in Closure /\ k \in 1 .. Len(pick)
      /\ Range(Members(w)) = unit /\ w \in unit
      /\ unit \cap tried = {} /\ unit \cap guessSet = {} /\ Whole(tried \cup unit)
      /\ w \in Vars /\ unit \subseteq Closure
  BY OpenFacts, ClosureFacts
<1>3. /\ testVar' = w /\ tried' = tried \cup unit /\ unknownSet' = unknownSet \ unit
      /\ pc' = "solve" /\ pc = "pick" /\ testGroup = <<>>
      /\ UNCHANGED <<prob, unknown, guessSet, indep, seen, assumptions, iter, loopVars>>
  BY <1>1, <1>2 DEF PickNew, Picking, Mark
<1>4. Range(testGroup') = unit \ {w} /\ (testGroup' # <<>> => AsGroup(w))
  BY <1>1, <1>2, OthersType
<1>5. pick \in Seq(Vars) /\ Len(pick) \in Nat /\ DOMAIN pick = 1 .. Len(pick)
  BY DEF TypeInv, TypeOK
<1>6. pick' \in Seq(Vars) /\ Range(pick') = { pick[l] : l \in 1 .. k }
  <2>1. \A l \in 1 .. k : pick[l] \in Vars  BY <1>2, <1>5
  <2>2. /\ pick' \in Seq(Vars) /\ Len(pick') = k
        /\ \A l \in 1 .. k : pick'[l] = pick[l]
    <3>1. pick' = SubSeq(pick, 1, k) /\ k \in 1 .. Len(pick)  BY <1>1, <1>5 DEF OpenPicks
    <3> QED  BY <1>5, <2>1, <3>1
  <2>3. DOMAIN pick' = 1 .. k  BY <2>2
  <2> QED  BY <2>2, <2>3 DEF Range
<1>7. UnderTest = {} /\ Remaining = {}
  BY <1>3, TestFacts DEF Testing
<1> HIDE DEF w, unit
<1>8. UnderTest' = unit
  <2>1. Members(testVar)' = Members(w)  BY <1>3, ProbFixed
  <2>2. UnderTest' = Range(Members(testVar)')  BY <1>3 DEF UnderTest
  <2> QED  BY <1>2, <2>1, <2>2
<1>9. Remaining' = unit  BY <1>2, <1>3, <1>4 DEF Remaining
<1>10. Kept' = Kept /\ Untried' = Untried \ unit
  <2>1. Kept' = Kept  BY <1>3 DEF Kept
  <2>2. Untried' = Candidates \ (InitialWindow \cup tried')
    BY <1>3, ProbFixed DEF Untried
  <2> QED  BY <1>3, <2>1, <2>2 DEF Untried
<1>11. SettledInv'
  <2>1. guessSet' = Units(InitialWindow)' /\ seen' = guessSet' \ Candidates'
        /\ Whole(Range(indep))'
    BY <1>3, ProbFixed DEF SettledInv
  <2>2. /\ tried' \subseteq Closure' /\ tried' \cap guessSet' = {} /\ Range(indep)' \subseteq tried'
    BY <1>2, <1>3, ProbFixed DEF SettledInv
  <2>3. Whole(tried)'  BY <1>2, <1>3, ProbFixed DEF Whole
  <2> QED  BY <2>1, <2>2, <2>3 DEF SettledInv
<1>12. LoopInv'
  <2>1. ASSUME NEW v \in Candidates', Open(v)' PROVE v \in Range(pick)'
    <3>1. v \in Candidates /\ v \notin tried /\ v \notin unit /\ v \in unknownSet /\ v \notin guessSet
      BY <1>3, <2>1, ProbFixed DEF Open
    <3>2. v \in Range(pick) /\ Open(v)  BY <3>1 DEF LoopInv, Open
    <3>3. PICK l \in DOMAIN pick : pick[l] = v  BY <3>2 DEF Range
    <3>4. l \in OpenPicks  BY <3>2, <3>3 DEF OpenPicks
    <3>5. l \in 1 .. k  BY <1>1, <1>2, <1>5, <3>3, <3>4
    <3> QED  BY <1>6, <3>3, <3>5
  <2>2. Range(pick)' \subseteq Candidates'
    <3>1. \A l \in 1 .. k : pick[l] \in Range(pick)  BY <1>2, <1>5 DEF Range
    <3> QED  BY <1>3, <1>6, <3>1, ProbFixed DEF LoopInv
  <2>3. unknownSet' = Untried'  BY <1>3, <1>10 DEF LoopInv
  <2>4. Assumed(assumptions, "same")' = Kept' /\ Assumed(assumptions, "differ")' = {}
    BY <1>3, <1>10, ProbFixed DEF LoopInv, Assumed
  <2>5. testVar' \in tried' /\ (testGroup' # <<>> => AsGroup(testVar)')
    BY <1>2, <1>3, <1>4, ProbFixed
  <2>6. UnderTest' \cap Range(indep)' = {}
    BY <1>2, <1>3, <1>8 DEF SettledInv
  <2>7. Defines(M', Kept', tried' \ (UnderTest' \cup Range(indep)'))
    <3>1. Defines(M, Kept, tried \ Range(indep))  BY <1>7 DEF LoopInv
    <3>2. (tried \cup unit) \ (unit \cup Range(indep)) \subseteq tried \ Range(indep)  OBVIOUS
    <3>3. Defines(M, Kept, (tried \cup unit) \ (unit \cup Range(indep)))
      BY <3>1, <3>2, DefinesMono
    <3> QED  BY <1>3, <1>8, <1>10, <3>3, ProbFixed
  <2> QED  BY <1>8, <1>9, <2>1, <2>2, <2>3, <2>4, <2>5, <2>6, <2>7 DEF LoopInv
<1> QED  BY <1>3, <1>11, <1>12 DEF RoundInv, Settled, Looping

\* None of the assertions at a pick fails.
LEMMA PickFailsNot ==
    ASSUME TypeInv, GroupsFit, SettledInv, LoopInv, PickFails PROVE FALSE
<1>1. CASE testGroup # <<>> /\ MarkFails(Last(testGroup))
  <2> DEFINE w == Last(testGroup)
  <2>1. Testing /\ testGroup \in Seq(Vars)  BY <1>1 DEF Testing, TypeInv, TypeOK
  <2>2. /\ ProblemType(prob) /\ testVar \in Closure /\ UnderTest = UnitOf(testVar)
        /\ UnderTest \subseteq tried
    BY <2>1, TestFacts
  <2>3. w \in UnitOf(testVar)
    BY <1>1, <2>1, <2>2, PopBack DEF LoopInv, Remaining
  <2>4. w \in tried /\ w \in Closure /\ AsGroup(w) /\ Mapped(w)
    <3>1. AsGroup(testVar)  BY <1>1 DEF LoopInv
    <3>2. w \in tried /\ w \in Closure  BY <2>2, <2>3 DEF SettledInv
    <3> QED  BY <2>2, <2>3, <3>1, <3>2, ClosureFacts, MembersFacts
  <2>5. Range(Members(w)) \cap guessSet = {}
    BY <2>2, <2>4, MembersFacts DEF SettledInv, Whole
  <2> QED  BY <1>1, <2>4, <2>5 DEF MarkFails
<1>2. CASE \E k \in OpenPicks : (\A l \in OpenPicks : l <= k) /\ MarkFails(pick[k])
  <2>1. PICK k \in OpenPicks : MarkFails(pick[k])  BY <1>2
  <2>2. /\ pick[k] \in Candidates
        /\ Range(Members(pick[k])) \cap guessSet = {}
    BY OpenFacts
  <2>3. Mapped(pick[k])  BY <2>2 DEF GroupsFit
  <2>4. pick[k] \in unknownSet  BY DEF OpenPicks, Open
  <2> QED  BY <2>1, <2>2, <2>3, <2>4 DEF MarkFails
<1> QED  BY <1>1, <1>2 DEF PickFails

\* The main loop ends with every variable of interest guessed or tested, unless it gave up.
LEMMA PickNoneKeeps ==
    ASSUME TypeInv, GroupsFit, SettledInv, LoopInv, PickNone PROVE RoundInv'
<1>1. /\ unknown' = <<>> /\ todo' = guessSet /\ pc' = "collectGuess" /\ pc = "pick"
      /\ UNCHANGED <<prob, unknownSet, guessSet, indep, seen, tried, testGroup>>
  BY DEF PickNone, pickVars
<1>2. ProblemType(prob)  BY TestFacts
<1>3. Kept' = Kept /\ Untried' = Untried  BY <1>1, ProbFixed DEF Kept, Untried
<1>4. SettledInv'  BY <1>1, ProbFixed DEF SettledInv
<1>5. ASSUME ~ GaveUp' PROVE Defines(M, Kept, Candidates)
  <2>1. testGroup = <<>> /\ Candidates \subseteq guessSet \cup tried
    BY <1>1, <1>5, ProbFixed DEF GaveUp
  <2>2. UnderTest = {}  BY <1>1, <2>1, TestFacts DEF Testing
  <2>3. Defines(M, Kept, tried \ Range(indep))  BY <2>2 DEF LoopInv
  <2>4. Defines(M, Kept, Kept)  BY DefinesRefl
  <2>5. Defines(M, Kept, Kept \cup (tried \ Range(indep)))  BY <2>3, <2>4, DefinesUnion
  <2>6. Candidates \subseteq Kept \cup (tried \ Range(indep))  BY <2>1 DEF Kept
  <2> QED  BY <2>5, <2>6, DefinesMono
<1>6. Range(unknown') = {} /\ Distinct(unknown')  BY <1>1 DEF Range, Distinct
<1>7. CollectInv'
  <2>1. ~ GaveUp' => Defines(M', Kept', Candidates')  BY <1>1, <1>3, <1>5, ProbFixed
  <2>2. unknownSet' = Untried' \cup Range(unknown)'  BY <1>1, <1>3, <1>6 DEF LoopInv
  <2>3. Distinct(unknown)'  BY <1>6 DEF Distinct
  <2>4. todo' \subseteq guessSet' /\ Range(unknown)' = Units(guessSet \ todo)' \ Untried'
    BY <1>1, <1>6 DEF Units
  <2> QED  BY <1>1, <2>1, <2>2, <2>3, <2>4 DEF CollectInv
<1> QED  BY <1>1, <1>4, <1>7 DEF RoundInv, Settled, Looping

\* The variable under test is of a unit that is neither guessed nor kept.
LEMMA SolveFacts ==
    ASSUME TypeInv, GroupsFit, SettledInv, LoopInv, pc = "solve"
    PROVE  /\ ProblemType(prob) /\ testVar \in tried /\ testVar \in Closure /\ testVar \in Vars
           /\ testVar \in UnderTest /\ UnderTest = UnitOf(testVar)
           /\ Members(testVar) \in Seq(Vars) /\ Range(Members(testVar)) = UnderTest
           /\ testVar \notin Kept /\ UnderTest \subseteq Closure
           /\ testVar \notin seen
<1>1. /\ ProblemType(prob) /\ testVar \in tried /\ testVar \in Closure
      /\ UnderTest = UnitOf(testVar)
  BY TestFacts DEF Testing
<1>2. testVar \in UnderTest /\ testVar \in Vars  BY <1>1, ClosureFacts
<1>3. testVar \notin Kept  BY <1>1, <1>2 DEF SettledInv, LoopInv, Kept
<1> QED  BY <1>1, <1>2, <1>3, ClosureFacts, MembersFacts DEF SettledInv

\* The variable is determined by what stays: it is dropped, with its unit if it was the
\* last of it.
LEMMA SolveDrops ==
    ASSUME TypeInv, GroupsFit, SettledInv, LoopInv, pc = "solve", pc' = "pick",
           "false" \in Answers(Append(assumptions, Differ(testVar))),
           UNCHANGED <<prob, unknown, unknownSet, guessSet, seen, tried, pick, testVar,
                       cursor, todo, indep, assumptions, testGroup>>
    PROVE  RoundInv'
<1>1. testVar \in UnderTest /\ ProblemType(prob)  BY SolveFacts
<1>2. ~ Separable(M, Kept, testVar)
  <2>1. /\ assumptions \in Seq(Literals) /\ testVar \in Vars
        /\ Assumed(assumptions, "same") = Kept /\ Assumed(assumptions, "differ") = {}
    BY SolveFacts DEF LoopInv, TypeInv, TypeOK
  <2>2. ~ Separable(prob.models, Assumed(assumptions, "same"), testVar)
    BY <2>1, AnsweredFalse
  <2> QED  BY <2>1, <2>2 DEF M
<1>3. Kept' = Kept /\ Untried' = Untried /\ M' = M
  BY ProbFixed DEF Kept, Untried
<1>4. SettledInv'  BY ProbFixed DEF SettledInv
<1>5. Remaining = Range(testGroup) \cup {testVar}  BY DEF Remaining
<1>6. Remaining' = Range(testGroup)  BY DEF Remaining
<1>7. \A v \in UnderTest \ Range(testGroup) : ~ Separable(M, Kept, v)
  BY <1>2, <1>5 DEF LoopInv
<1>8. /\ unknownSet' = Untried' /\ Range(pick)' \subseteq Candidates'
      /\ Assumed(assumptions, "same")' = Kept' /\ Assumed(assumptions, "differ")' = {}
      /\ \A v \in Candidates' : Open(v)' => v \in Range(pick)'
      /\ testGroup' # <<>> => AsGroup(testVar)'
      /\ testVar' \in tried'
  <2>1. unknownSet' = Untried' /\ Range(pick)' \subseteq Candidates'
    BY <1>3, ProbFixed DEF LoopInv
  <2>2. Assumed(assumptions, "same")' = Kept' /\ Assumed(assumptions, "differ")' = {}
    BY <1>3 DEF LoopInv, Assumed
  <2>3. \A v \in Candidates' : Open(v)' => v \in Range(pick)'
    BY ProbFixed DEF LoopInv, Open
  <2>4. testGroup' # <<>> => AsGroup(testVar)'  BY ProbFixed DEF LoopInv
  <2>5. testVar' \in tried'  BY SolveFacts
  <2> QED  BY <2>1, <2>2, <2>3, <2>4, <2>5
<1>9. CASE testGroup = <<>>
  <2>1. Range(testGroup) = {}  BY <1>9 DEF Range
  <2>2. UnderTest' = {} /\ Remaining' = {}  BY <1>6, <1>9, <2>1 DEF UnderTest
  <2>3. Defines(M, Kept, UnderTest)  BY <1>7, <2>1, InseparableIffDefined
  <2>4. Defines(M, Kept, UnderTest \cup (tried \ (UnderTest \cup Range(indep))))
    BY <2>3, DefinesUnion DEF LoopInv
  <2>5. Defines(M, Kept, tried \ Range(indep))
    <3>1. tried \ Range(indep) \subseteq UnderTest \cup (tried \ (UnderTest \cup Range(indep)))
      OBVIOUS
    <3> QED  BY <2>4, <3>1, DefinesMono
  <2>6. Defines(M, Kept, tried \ (UnderTest \cup Range(indep)))'
    BY <1>3, <2>2, <2>5
  <2>7. LoopInv'  BY <1>8, <2>2, <2>6 DEF LoopInv
  <2> QED  BY <1>4, <2>7 DEF RoundInv, Settled, Looping
<1>10. CASE testGroup # <<>>
  <2>1. UnderTest' = UnderTest
    <3>1. Members(testVar)' = Members(testVar)  BY ProbFixed
    <3> QED  BY <1>10, <3>1 DEF UnderTest
  <2>2. /\ Remaining' \subseteq UnderTest' /\ UnderTest' \cap Range(indep)' = {}
        /\ Defines(M, Kept, tried \ (UnderTest \cup Range(indep)))'
    BY <1>3, <1>5, <1>6, <2>1 DEF LoopInv
  <2>3. \A v \in UnderTest' \ Remaining' : ~ Separable(M', Kept', v)
    BY <1>3, <1>6, <1>7, <2>1
  <2>4. LoopInv'  BY <1>8, <2>2, <2>3 DEF LoopInv
  <2> QED  BY <1>4, <2>4 DEF RoundInv, Settled, Looping
<1> QED  BY <1>9, <1>10

\* The whole unit is kept, and assumed from here on.
LEMMA SolveKeepsUnit ==
    ASSUME TypeInv, GroupsFit, SettledInv, LoopInv, pc = "solve", pc' = "pick",
           indep' = indep \o Members(testVar),
           assumptions' = assumptions \o SameLits(Members(testVar)),
           testGroup' = <<>>,
           UNCHANGED <<prob, unknown, unknownSet, guessSet, seen, tried, pick, testVar,
                       cursor, todo>>
    PROVE  RoundInv'
<1>1. /\ ProblemType(prob) /\ testVar \in tried /\ testVar \in Closure
      /\ Members(testVar) \in Seq(Vars) /\ Range(Members(testVar)) = UnderTest
      /\ UnderTest = UnitOf(testVar) /\ testVar \in UnderTest /\ UnderTest \subseteq tried
      /\ testVar \notin Range(indep)
  BY SolveFacts, TestFacts DEF Kept
<1>2. /\ indep \in Seq(Vars) /\ assumptions \in Seq(Literals)
  BY DEF TypeInv, TypeOK
<1>3. Range(indep') = Range(indep) \cup UnderTest  BY <1>1, <1>2, ConcatRange
<1>4. Kept' = Kept \cup UnderTest /\ Untried' = Untried /\ M' = M
  BY <1>3, ProbFixed DEF Kept, Untried
<1>5. Assumed(assumptions, "same")' = Kept' /\ Assumed(assumptions, "differ")' = {}
  <2>1. /\ Assumed(assumptions \o SameLits(Members(testVar)), "same")
              = Assumed(assumptions, "same") \cup UnderTest
        /\ Assumed(assumptions \o SameLits(Members(testVar)), "differ")
              = Assumed(assumptions, "differ")
    BY <1>1, <1>2, AssumedMore
  <2>2. Assumed(assumptions', "same") = Kept' /\ Assumed(assumptions', "differ") = {}
    BY <1>4, <2>1 DEF LoopInv
  <2> QED  BY <2>2 DEF Assumed
<1>6. SettledInv'
  <2>1. Range(indep) \subseteq Closure /\ Whole(Range(indep))  BY DEF SettledInv
  <2>2. Whole(Range(indep) \cup UnderTest)  BY <1>1, <2>1, WholeApart
  <2>3. Range(indep)' = Range(indep) \cup UnderTest  BY <1>3 DEF Range
  <2>4. Whole(Range(indep))'  BY <2>2, <2>3, ProbFixed DEF Whole
  <2>5. Range(indep)' \subseteq tried'  BY <1>1, <2>3 DEF SettledInv
  <2>6. /\ guessSet' = Units(InitialWindow)' /\ seen' = guessSet' \ Candidates'
        /\ tried' \subseteq Closure' /\ Whole(tried)' /\ tried' \cap guessSet' = {}
    BY ProbFixed DEF SettledInv
  <2> QED  BY <2>4, <2>5, <2>6 DEF SettledInv
<1>7. UnderTest' = {} /\ Remaining' = {}  BY DEF UnderTest, Remaining, Range
<1>8. Defines(M, Kept, tried \ (UnderTest \cup Range(indep)))'
  <2>1. Defines(M, Kept \cup UnderTest, tried \ (UnderTest \cup Range(indep)))
    BY DefinesMono DEF LoopInv
  <2>2. tried \ (UnderTest \cup Range(indep)) = tried' \ (UnderTest' \cup Range(indep'))
    BY <1>3, <1>7
  <2> QED  BY <1>4, <2>1, <2>2
<1>9. \A v \in Candidates' : Open(v)' => v \in Range(pick)'
  BY ProbFixed DEF LoopInv, Open
<1>10. unknownSet' = Untried' /\ Range(pick)' \subseteq Candidates' /\ testVar' \in tried'
  BY <1>1, <1>4, ProbFixed DEF LoopInv
<1>11. LoopInv'  BY <1>5, <1>7, <1>8, <1>9, <1>10 DEF LoopInv
<1> QED  BY <1>6, <1>11 DEF RoundInv, Settled, Looping

LEMMA SolveKeeps ==
    ASSUME TypeInv, GroupsFit, SettledInv, LoopInv, Solve PROVE RoundInv'
<1>1. /\ pc = "solve" /\ pc' = "pick"
      /\ UNCHANGED <<prob, unknown, unknownSet, guessSet, seen, tried, pick, testVar,
                     cursor, todo>>
  BY DEF Solve, loopVars
<1>2. CASE /\ "false" \in Answers(Append(assumptions, Differ(testVar)))
           /\ UNCHANGED <<indep, assumptions, testGroup>>
  BY <1>1, <1>2, SolveDrops
<1>3. CASE /\ indep' = indep \o Members(testVar)
           /\ assumptions' = assumptions \o SameLits(Members(testVar))
           /\ testGroup' = <<>>
  BY <1>1, <1>3, SolveKeepsUnit
<1> QED  BY <1>2, <1>3 DEF Solve

LEMMA SolveFailsNot ==
    ASSUME TypeInv, WellFormed, SettledInv, LoopInv, SolveFails PROVE FALSE
<1>1. testVar \in prob.indicated /\ Range(Members(testVar)) \subseteq prob.indicated
  BY SolveFacts DEF SolveFails, WellFormed
<1> QED  BY <1>1, SolveFacts DEF SolveFails, WellFormed

-----------------------------------------------------------------------------
(* The result *)

\* Collecting what is not in the vector yet leaves it without duplicates.
LEMMA DistinctConcat ==
    ASSUME NEW s \in Seq(Vars), NEW t \in Seq(Vars), Distinct(s), Distinct(t),
           Range(s) \cap Range(t) = {}
    PROVE  Distinct(s \o t)
<1> DEFINE all == s \o t
           m == Len(s)
           n == Len(t)
<1>1. m \in Nat /\ n \in Nat /\ DOMAIN s = 1 .. m /\ DOMAIN t = 1 .. n  OBVIOUS
<1>2. /\ s \o t \in Seq(Vars) /\ Len(s \o t) = Len(s) + Len(t)
      /\ \A k \in 1 .. Len(s) + Len(t) :
             (s \o t)[k] = IF k <= Len(s) THEN s[k] ELSE t[k - Len(s)]
  BY ConcatProperties
<1>3. DOMAIN all = 1 .. m + n  BY <1>2
<1>4. \A k \in 1 .. m + n : (k \in 1 .. m /\ all[k] = s[k])
                                \/ (k - m \in 1 .. n /\ all[k] = t[k - m])
  <2> TAKE k \in 1 .. m + n
  <2>1. CASE k <= m  BY <1>1, <1>2, <2>1
  <2>2. CASE ~ (k <= m)
    <3>1. k - m \in 1 .. n  BY <1>1, <2>2
    <3> QED  BY <1>2, <2>2, <3>1
  <2> QED  BY <2>1, <2>2
<1> HIDE DEF all, m, n
<1>5. SUFFICES ASSUME NEW k \in 1 .. m + n, NEW l \in 1 .. m + n, all[k] = all[l]
               PROVE k = l
  BY <1>3 DEF Distinct, all
<1>6. \A i \in 1 .. m, j \in 1 .. n : s[i] # t[j]  BY <1>1 DEF Range
<1>7. CASE (k \in 1 .. m /\ all[k] = s[k]) /\ (l \in 1 .. m /\ all[l] = s[l])
  BY <1>1, <1>5, <1>7 DEF Distinct
<1>8. CASE (k - m \in 1 .. n /\ all[k] = t[k - m]) /\ (l - m \in 1 .. n /\ all[l] = t[l - m])
  <2>1. k - m = l - m  BY <1>1, <1>5, <1>8 DEF Distinct
  <2> QED  BY <1>1, <2>1
<1>9. CASE (k \in 1 .. m /\ all[k] = s[k]) /\ (l - m \in 1 .. n /\ all[l] = t[l - m])
  BY <1>5, <1>6, <1>9
<1>10. CASE (k - m \in 1 .. n /\ all[k] = t[k - m]) /\ (l \in 1 .. m /\ all[l] = s[l])
  BY <1>5, <1>6, <1>10
<1> QED  BY <1>4, <1>7, <1>8, <1>9, <1>10

\* A vector and its flags, after collecting something new.
LEMMA CollectFacts ==
    ASSUME TypeInv, Distinct(unknown), NEW new \in Seq(Vars), Distinct(new), Collect(new),
           Range(new) \cap Range(unknown) = {}, unknownSet = Untried \cup Range(unknown)
    PROVE  /\ Distinct(unknown') /\ Range(unknown') = Range(unknown) \cup Range(new)
           /\ unknownSet' = Untried \cup Range(unknown')
<1>1. unknown \in Seq(Vars) /\ unknown' = unknown \o new  BY DEF TypeInv, TypeOK, Collect
<1>2. Range(unknown') = Range(unknown) \cup Range(new)  BY <1>1, ConcatRange
<1>3. Distinct(unknown \o new)  BY <1>1, DistinctConcat
<1> QED  BY <1>1, <1>2, <1>3 DEF Collect

\* A guessed variable brings the members of its group that are not collected yet, but not
\* those outside the window.
LEMMA CollectGuessKeeps ==
    ASSUME TypeInv, GroupsFit, SettledInv, CollectInv, CollectGuess PROVE RoundInv'
<1>1. PICK v \in todo :
          /\ todo' = todo \ {v}
          /\ \E new \in IF AsGroup(v) THEN Unflagged(Group(v)) ELSE {<<v>>} : Collect(new)
  BY DEF CollectGuess
<1>2. PICK new \in IF AsGroup(v) THEN Unflagged(Group(v)) ELSE {<<v>>} : Collect(new)
  BY <1>1
<1>3. /\ pc = "collectGuess" /\ pc' = "collectGuess"
      /\ UNCHANGED <<prob, guessSet, indep, seen, tried, testGroup>>
  BY DEF CollectGuess, pickVars
<1>4. /\ ProblemType(prob) /\ todo \subseteq guessSet /\ guessSet = Units(InitialWindow)
      /\ guessSet \subseteq Closure /\ Distinct(unknown)
      /\ unknownSet = Untried \cup Range(unknown)
      /\ Range(unknown) = Units(guessSet \ todo) \ Untried
  BY <1>3, WindowFacts DEF TypeInv, TypeOK, SettledInv, CollectInv
<1>5. v \in Closure /\ v \in guessSet /\ v \in Vars /\ v \in UnitOf(v)
  BY <1>4, ClosureFacts
<1>6. /\ new \in Seq(Vars) /\ Distinct(new) /\ Range(new) \cap Range(unknown) = {}
      /\ Range(unknown) \cup Range(new) = (Units(guessSet \ todo) \cup UnitOf(v)) \ Untried
  <2>1. CASE AsGroup(v)
    <3>1. Members(v) = Group(v) /\ new \in Unflagged(Group(v))
      BY <1>2, <2>1 DEF Members
    <3>2. Group(v) \in Seq(Vars) /\ Distinct(Group(v)) /\ Range(Group(v)) = UnitOf(v)
      BY <1>4, <1>5, <3>1, MembersFacts
    <3>3. new \in Seq(Vars) /\ Distinct(new) /\ Range(new) = UnitOf(v) \ unknownSet
      BY <3>1, <3>2, UnflaggedFacts
    <3> QED  BY <1>4, <3>3
  <2>2. CASE ~ AsGroup(v)
    <3>1. new = <<v>>  BY <1>2, <2>2
    <3>2. new \in Seq(Vars) /\ Range(new) = {v} /\ Distinct(new)
      BY <1>5, <3>1, Single DEF Distinct
    <3>3. UnitOf(v) = {v}  BY <1>4, <1>5, <2>2, ClosureFacts DEF UnitOf
    <3>4. v \in InitialWindow
      <4>1. PICK c \in InitialWindow : v \in UnitOf(c)  BY <1>4, <1>5 DEF Units
      <4>2. c \in UnitOf(c) /\ UnitOf(c) = UnitOf(v)
        BY <1>4, <4>1, WindowFacts, ClosureFacts
      <4> QED  BY <3>3, <4>2
    <3>5. v \notin Units(guessSet \ todo)
      <4> SUFFICES ASSUME NEW w \in guessSet \ todo, v \in UnitOf(w) PROVE FALSE
        BY DEF Units
      <4>1. w \in UnitOf(w) /\ UnitOf(w) = UnitOf(v)  BY <1>4, ClosureFacts
      <4> QED  BY <3>3, <4>1
    <3>6. v \notin Untried  BY <3>4 DEF Untried
    <3> QED  BY <1>4, <3>2, <3>3, <3>5, <3>6
  <2> QED  BY <2>1, <2>2
<1>7. /\ Distinct(unknown') /\ Range(unknown') = Range(unknown) \cup Range(new)
      /\ unknownSet' = Untried \cup Range(unknown')
  BY <1>2, <1>4, <1>6, CollectFacts
<1>8. Units(guessSet \ todo') = Units(guessSet \ todo) \cup UnitOf(v)
  <2>1. guessSet \ todo' = (guessSet \ todo) \cup {v}  BY <1>1, <1>5
  <2>2. guessSet \ todo \subseteq Closure  BY <1>4
  <2>3. Units((guessSet \ todo) \cup {v}) = Units(guessSet \ todo) \cup UnitOf(v)
    BY <1>4, <1>5, <2>2, UnitsFacts
  <2> QED  BY <2>1, <2>3
<1>9. Kept' = Kept /\ Untried' = Untried /\ (GaveUp' <=> GaveUp)
  BY <1>3, ProbFixed DEF Kept, Untried, GaveUp
<1>10. SettledInv'  BY <1>3, ProbFixed DEF SettledInv
<1>11. CollectInv'
  <2>1. ~ GaveUp' => Defines(M', Kept', Candidates')
    BY <1>3, <1>9, ProbFixed DEF CollectInv
  <2>2. unknownSet' = Untried' \cup Range(unknown)' /\ Distinct(unknown)'
    BY <1>7, <1>9 DEF Distinct, Range
  <2>3. todo' \subseteq guessSet'  BY <1>1, <1>3, <1>4
  <2>4. Units(guessSet \ todo)' = Units(guessSet \ todo')
    BY <1>3, ProbFixed DEF Units
  <2>5. Range(unknown)' = Units(guessSet \ todo)' \ Untried'
    BY <1>6, <1>7, <1>8, <1>9, <2>4 DEF Range
  <2> QED  BY <1>3, <2>1, <2>2, <2>3, <2>5 DEF CollectInv
<1> QED  BY <1>3, <1>10, <1>11 DEF RoundInv, Settled, Looping

LEMMA CollectGuessEndKeeps ==
    ASSUME TypeInv, GroupsFit, SettledInv, CollectInv, CollectGuessEnd PROVE RoundInv'
<1> DEFINE done(c) == { indep[l] : l \in { n \in DOMAIN indep : n < c } }
<1>1. /\ pc = "collectGuess" /\ pc' = "collectIndep" /\ todo = {} /\ cursor' = 1
      /\ UNCHANGED <<prob, unknown, unknownSet, guessSet, indep, seen, tried, testGroup>>
  BY DEF CollectGuessEnd, pickVars
<1>2. Range(unknown) = guessSet \ Untried
  <2>1. ProblemType(prob) /\ guessSet \subseteq Closure /\ Whole(guessSet)
    BY WindowFacts DEF TypeInv, TypeOK, SettledInv
  <2>2. Units(guessSet) = guessSet  BY <2>1, UnitsFacts
  <2>3. guessSet \ todo = guessSet  BY <1>1
  <2> QED  BY <1>1, <2>2, <2>3 DEF CollectInv
<1>3. Units(done(cursor)') = {}
  <2>1. indep \in Seq(Vars)  BY DEF TypeInv, TypeOK
  <2>2. \A n \in DOMAIN indep : ~ (n < 1)  BY <2>1
  <2>3. done(cursor)' = {}  BY <1>1, <2>2
  <2> QED  BY <2>3 DEF Units
<1>4. Kept' = Kept /\ Untried' = Untried /\ (GaveUp' <=> GaveUp)
  BY <1>1, ProbFixed DEF Kept, Untried, GaveUp
<1>5. SettledInv'  BY <1>1, ProbFixed DEF SettledInv
<1>6. CollectInv'
  <2>1. ~ GaveUp' => Defines(M', Kept', Candidates')
    BY <1>1, <1>4, ProbFixed DEF CollectInv
  <2>2. unknownSet' = Untried' \cup Range(unknown)' /\ Distinct(unknown)'
    BY <1>1, <1>4 DEF CollectInv, Distinct, Range
  <2>3. Units(done(cursor))' = Units(done(cursor)')
    BY <1>1, ProbFixed
  <2>4. Range(unknown)' = (guessSet' \ Untried') \cup Units(done(cursor))'
    BY <1>1, <1>2, <1>3, <1>4, <2>3
  <2> QED  BY <1>1, <2>1, <2>2, <2>4 DEF CollectInv
<1> QED  BY <1>1, <1>5, <1>6 DEF RoundInv, Settled, Looping

\* A kept variable is flagged exactly when its group has been collected.
LEMMA CollectIndepKeeps ==
    ASSUME TypeInv, GroupsFit, SettledInv, CollectInv, CollectIndep PROVE RoundInv'
<1> DEFINE done(c) == { indep[l] : l \in { n \in DOMAIN indep : n < c } }
           v == indep[cursor]
<1>1. PICK new \in IF v \in unknownSet THEN {<<>>} ELSE Unflagged(Members(v)) : Collect(new)
  BY DEF CollectIndep
<1>2. /\ pc = "collectIndep" /\ pc' = "collectIndep" /\ cursor <= Len(indep)
      /\ cursor' = cursor + 1
      /\ UNCHANGED <<prob, guessSet, indep, seen, tried, testGroup>>
  BY DEF CollectIndep, pickVars
<1>3. /\ indep \in Seq(Vars) /\ cursor \in Nat \ {0} /\ ProblemType(prob)
      /\ cursor \in DOMAIN indep
  BY <1>2 DEF TypeInv, TypeOK
<1>4. done(cursor + 1) = done(cursor) \cup {v} /\ done(cursor) \subseteq Range(indep)
  <2>1. \A n \in DOMAIN indep : n < cursor + 1 <=> n < cursor \/ n = cursor  BY <1>3
  <2> QED  BY <1>3, <2>1 DEF Range
<1>5. v \in Range(indep) /\ v \in tried /\ v \in Closure /\ UnitOf(v) \subseteq tried
      /\ Range(indep) \subseteq Closure /\ v \notin guessSet /\ v \notin Untried
  BY <1>3 DEF SettledInv, Whole, Untried, Range
<1> HIDE DEF done, v
<1>6. /\ Distinct(unknown) /\ unknownSet = Untried \cup Range(unknown)
      /\ Range(unknown) = (guessSet \ Untried) \cup Units(done(cursor))
  BY <1>2 DEF CollectInv, done
<1>7. done(cursor) \subseteq Closure  BY <1>4, <1>5
<1>8. Units(done(cursor + 1)) = Units(done(cursor)) \cup UnitOf(v)
  BY <1>3, <1>4, <1>5, <1>7, UnitsFacts
<1>9. /\ new \in Seq(Vars) /\ Distinct(new) /\ Range(new) \cap Range(unknown) = {}
      /\ Range(unknown) \cup Range(new) = Range(unknown) \cup UnitOf(v)
  <2>1. CASE v \in unknownSet
    <3>1. new = <<>>  BY <1>1, <2>1
    <3>2. new \in Seq(Vars) /\ Range(new) = {} /\ Distinct(new)
      BY <3>1 DEF Range, Distinct
    <3>3. v \in Units(done(cursor))  BY <1>5, <1>6, <2>1
    <3>4. UnitOf(v) \subseteq Units(done(cursor))  BY <1>3, <1>5, <1>7, <3>3, UnitsFacts
    <3> QED  BY <1>6, <3>2, <3>4
  <2>2. CASE v \notin unknownSet
    <3>1. new \in Unflagged(Members(v))  BY <1>1, <2>2
    <3>2. /\ Members(v) \in Seq(Vars) /\ Distinct(Members(v))
          /\ Range(Members(v)) = UnitOf(v)
      BY <1>3, <1>5, MembersFacts
    <3>3. new \in Seq(Vars) /\ Distinct(new) /\ Range(new) = UnitOf(v) \ unknownSet
      BY <3>1, <3>2, UnflaggedFacts
    <3>4. UnitOf(v) \cap Untried = {}  BY <1>5 DEF Untried
    <3> QED  BY <1>6, <3>3, <3>4
  <2> QED  BY <2>1, <2>2
<1>10. /\ Distinct(unknown') /\ Range(unknown') = Range(unknown) \cup Range(new)
       /\ unknownSet' = Untried \cup Range(unknown')
  BY <1>1, <1>6, <1>9, CollectFacts
<1>11. Kept' = Kept /\ Untried' = Untried /\ (GaveUp' <=> GaveUp)
  BY <1>2, ProbFixed DEF Kept, Untried, GaveUp
<1>12. SettledInv'  BY <1>2, ProbFixed DEF SettledInv
<1>13. CollectInv'
  <2>1. ~ GaveUp' => Defines(M', Kept', Candidates')
    BY <1>2, <1>11, ProbFixed DEF CollectInv
  <2>2. unknownSet' = Untried' \cup Range(unknown)' /\ Distinct(unknown)'
    BY <1>10, <1>11 DEF Distinct, Range
  <2>3. done(cursor)' = done(cursor + 1)  BY <1>2 DEF done
  <2>4. Units(done(cursor))' = Units(done(cursor + 1))  BY <1>2, <2>3, ProbFixed
  <2>5. Range(unknown)' = (guessSet' \ Untried') \cup Units(done(cursor))'
    BY <1>2, <1>6, <1>8, <1>9, <1>10, <1>11, <2>4
  <2> QED  BY <1>2, <2>1, <2>2, <2>5 DEF CollectInv, done
<1> QED  BY <1>2, <1>12, <1>13 DEF RoundInv, Settled, Looping

\* Every collected variable is flagged: all of them are published.
LEMMA PublishKeeps ==
    ASSUME TypeInv, GroupsFit, SettledInv, CollectInv, Publish PROVE RoundInv'
<1> DEFINE P == { k \in DOMAIN unknown : unknown[k] \in unknownSet }
<1>1. /\ pc = "collectIndep" /\ pc' = "done" /\ cursor > Len(indep) /\ indep' = <<>>
      /\ samplingSet' \in Entries(unknown, P)
      /\ UNCHANGED <<prob, guessSet, seen, tried, testGroup>>
  BY DEF Publish, pickVars
<1>2. /\ ProblemType(prob) /\ unknown \in Seq(Vars) /\ indep \in Seq(Vars)
      /\ guessSet \subseteq Closure
  BY WindowFacts DEF TypeInv, TypeOK, SettledInv
<1>3. { indep[l] : l \in { n \in DOMAIN indep : n < cursor } } = Range(indep)
  <2>1. \A n \in DOMAIN indep : n < cursor  BY <1>1, <1>2 DEF TypeInv, TypeOK
  <2> QED  BY <2>1 DEF Range
<1>4. Units(Range(indep)) = Range(indep)
  <2>1. Range(indep) \subseteq Closure /\ Whole(Range(indep))  BY DEF SettledInv
  <2> QED  BY <1>2, <2>1, UnitsFacts
<1>5. Range(unknown) = (guessSet \ Untried) \cup Range(indep) /\ Distinct(unknown)
      /\ unknownSet = Untried \cup Range(unknown)
  BY <1>1, <1>3, <1>4 DEF CollectInv
<1>6. P = DOMAIN unknown  BY <1>5 DEF Range
<1>7. Range(samplingSet') = Range(unknown) /\ Distinct(samplingSet')
  <2>1. \A k, l \in P : unknown[k] = unknown[l] => k = l  BY <1>5 DEF Distinct
  <2>2. Range(samplingSet') = { unknown[k] : k \in P } /\ Distinct(samplingSet')
    BY <1>1, <1>2, <2>1, EntriesFacts
  <2> QED  BY <1>6, <2>2 DEF Range
<1>8. Untried' = Untried /\ Range(indep') = {} /\ (GaveUp' <=> GaveUp)
  BY <1>1, ProbFixed DEF Untried, Range, GaveUp
<1>9. SettledInv'
  <2>1. /\ guessSet' = Units(InitialWindow)' /\ seen' = guessSet' \ Candidates'
        /\ tried' \subseteq Closure' /\ Whole(tried)' /\ tried' \cap guessSet' = {}
    BY <1>1, ProbFixed DEF SettledInv
  <2>2. Range(indep)' = {}  BY <1>8 DEF Range
  <2>3. Range(indep)' \subseteq tried' /\ Whole(Range(indep))'  BY <2>2 DEF Whole
  <2> QED  BY <2>1, <2>3 DEF SettledInv
<1>10. Range(samplingSet') \ guessSet = Range(indep)
  BY <1>5, <1>7 DEF SettledInv
<1>11. DoneInv'
  <2>1. Distinct(samplingSet)'  BY <1>7 DEF Distinct
  <2>2. Range(samplingSet)' \subseteq Closure'
    BY <1>1, <1>2, <1>5, <1>7, ProbFixed DEF SettledInv
  <2>3. guessSet' \ Untried' \subseteq Range(samplingSet)'  BY <1>1, <1>5, <1>7, <1>8
  <2>4. Whole(Range(samplingSet) \ guessSet)'
    <3>1. Range(samplingSet)' \ guessSet' = Range(indep)  BY <1>1, <1>10
    <3>2. Whole(Range(indep))  BY DEF SettledInv
    <3>3. \A v \in Range(indep) : UnitOf(v)' \subseteq Range(indep)
      BY <1>1, <3>2, ProbFixed DEF Whole
    <3> QED  BY <3>1, <3>3 DEF Whole
  <2>5. ASSUME ~ GaveUp' PROVE Defines(M', guessSet' \cup Range(samplingSet)', Candidates')
    <3>1. Defines(M, Kept, Candidates)  BY <1>1, <1>8, <2>5 DEF CollectInv
    <3>2. Kept \subseteq guessSet \cup Range(samplingSet')  BY <1>5, <1>7 DEF Kept
    <3>3. Defines(M, guessSet \cup Range(samplingSet'), Candidates)
      BY <3>1, <3>2, DefinesMono
    <3> QED  BY <1>1, <3>3, ProbFixed
  <2> QED  BY <2>1, <2>2, <2>3, <2>4, <2>5 DEF DoneInv
<1> QED  BY <1>1, <1>9, <1>11 DEF RoundInv, Settled, Looping

-----------------------------------------------------------------------------
(* The theorems *)

LEMMA Stutter == ASSUME RoundInv, UNCHANGED vars PROVE RoundInv'
<1>1. /\ prob' = prob /\ samplingSet' = samplingSet /\ unknown' = unknown
      /\ unknownSet' = unknownSet /\ guessSet' = guessSet /\ indep' = indep /\ seen' = seen
      /\ assumptions' = assumptions /\ tried' = tried /\ pick' = pick
      /\ testGroup' = testGroup /\ testVar' = testVar /\ iter' = iter /\ cursor' = cursor
      /\ todo' = todo /\ pc' = pc
  BY DEF vars, data, pickVars, loopVars
<1>2. /\ Untried' = Untried /\ Kept' = Kept /\ (GaveUp' <=> GaveUp) /\ Before(cursor)' = Before(cursor)
      /\ Remaining' = Remaining /\ (Testing' <=> Testing)
      /\ \A v : Open(v)' <=> Open(v)
  BY <1>1, ProbFixed DEF Untried, Kept, GaveUp, Before, Remaining, Testing, Open
<1>3. UnderTest' = UnderTest
  <2>1. Members(testVar)' = Members(testVar)  BY <1>1, ProbFixed
  <2> QED  BY <1>1, <2>1 DEF UnderTest
<1>4. Units(Before(cursor))' = Units(Before(cursor))  BY <1>1, <1>2, ProbFixed
<1>5. WindowInv' <=> WindowInv  BY <1>1, <1>4, ProbFixed DEF WindowInv, Assumed
<1>6. GuessInv' <=> GuessInv  BY <1>1, <1>2, <1>5, ProbFixed DEF GuessInv, Assumed
<1>7. AssumeInv' <=> AssumeInv  BY <1>1, <1>5, ProbFixed DEF AssumeInv, Assumed
<1>8. SettledInv' <=> SettledInv  BY <1>1, ProbFixed DEF SettledInv
<1>9. LoopInv' <=> LoopInv
  <2>1. AsGroup(testVar)' <=> AsGroup(testVar)  BY <1>1, ProbFixed
  <2>2. Assumed(assumptions, "same")' = Assumed(assumptions, "same")
        /\ Assumed(assumptions, "differ")' = Assumed(assumptions, "differ")
    BY <1>1 DEF Assumed
  <2> QED  BY <1>1, <1>2, <1>3, <2>1, <2>2, ProbFixed DEF LoopInv
<1>10. CollectInv' <=> CollectInv
  <2> DEFINE before == { indep[l] : l \in { n \in DOMAIN indep : n < cursor } }
  <2>1. Units(before)' = Units(before) /\ Units(guessSet \ todo)' = Units(guessSet \ todo)
    BY <1>1, ProbFixed
  <2>2. Distinct(unknown)' <=> Distinct(unknown)  BY <1>1
  <2> QED  BY <1>1, <1>2, <2>1, <2>2, ProbFixed DEF CollectInv
<1>11. DoneInv' <=> DoneInv
  <2>1. Distinct(samplingSet)' <=> Distinct(samplingSet)  BY <1>1
  <2> QED  BY <1>1, <1>2, <2>1, ProbFixed DEF DoneInv
<1> QED  BY <1>1, <1>6, <1>7, <1>8, <1>9, <1>10, <1>11 DEF RoundInv, Settled, Looping

LEMMA InputFixed == ASSUME [Next]_vars PROVE prob' = prob
BY DEF Next, Step, Stopped, vars, data, Fail, GuessNext, GuessFails, GuessEnd, AssumeNext,
       AssumeEnd, PickMember, PickNew, PickFails, MarkFails, PickNone, Solve, SolveFails,
       CollectGuess, CollectGuessEnd, CollectIndep, Publish

\* A round that has failed does not go on.
LEMMA FailedStays == ASSUME [Next]_vars, Failed PROVE pc' = pc /\ UNCHANGED vars
BY DEF Failed, Next, Step, Stopped, vars, Fail, GuessNext, GuessFails, GuessEnd, AssumeNext,
       AssumeEnd, PickMember, PickNew, PickFails, PickNone, Picking, Solve, SolveFails,
       CollectGuess, CollectGuessEnd, CollectIndep, Publish

LEMMA InvStep ==
    TypeInv /\ Inductive /\ [Next]_vars => Inductive'
<1> SUFFICES ASSUME TypeInv, Inductive, [Next]_vars, GroupsFit', ~ Failed'
             PROVE  RoundInv'
  BY DEF Inductive
<1>1. prob' = prob  BY InputFixed
<1>2. GroupsFit /\ RoundInv
  <2>1. ~ Failed  BY FailedStays DEF Failed
  <2> QED  BY <1>1, <2>1, ProbFixed DEF Inductive
<1>3. CASE GuessNext \/ GuessEnd
  <2>1. GuessInv  BY <1>2, <1>3 DEF RoundInv, GuessNext, GuessEnd
  <2> QED  BY <1>2, <1>3, <2>1, GuessKeeps, GuessEndKeeps
<1>4. CASE AssumeNext \/ AssumeEnd
  <2>1. AssumeInv  BY <1>2, <1>4 DEF RoundInv, AssumeNext, AssumeEnd
  <2> QED  BY <1>2, <1>4, <2>1, AssumeKeeps, AssumeEndKeeps
<1>5. CASE PickMember \/ PickNew \/ PickNone
  <2>1. SettledInv /\ LoopInv
    BY <1>2, <1>5
    DEF RoundInv, Settled, Looping, Picking, PickMember, PickNew, PickNone
  <2> QED
    BY <1>2, <1>5, <2>1, PickMemberKeeps, PickNewKeeps, PickNoneKeeps
<1>6. CASE Solve
  <2>1. SettledInv /\ LoopInv
    BY <1>2, <1>6 DEF RoundInv, Settled, Looping, Solve
  <2> QED  BY <1>2, <1>6, <2>1, SolveKeeps
<1>7. CASE CollectGuess \/ CollectGuessEnd \/ CollectIndep \/ Publish
  <2>1. SettledInv /\ CollectInv
    BY <1>2, <1>7
    DEF RoundInv, Settled, CollectGuess, CollectGuessEnd, CollectIndep, Publish
  <2> QED
    BY <1>2, <1>7, <2>1, CollectGuessKeeps, CollectGuessEndKeeps, CollectIndepKeeps,
       PublishKeeps
<1>8. CASE UNCHANGED vars  BY <1>2, <1>8, Stutter
<1>9. CASE GuessFails \/ PickFails \/ SolveFails
  BY <1>9 DEF GuessFails, PickFails, MarkFails, SolveFails, Fail, Failed
<1> QED  BY <1>3, <1>4, <1>5, <1>6, <1>7, <1>8, <1>9 DEF Next, Step, Stopped

\* Where every variable that a step may use has an indicator, none of them fails.
LEMMA NoFailureStep == TypeInv /\ Inductive /\ NoFailure /\ [Next]_vars => NoFailure'
<1> SUFFICES ASSUME TypeInv, Inductive, NoFailure, [Next]_vars, WellFormed'
             PROVE  pc' \notin {"abort", "wild"}
  BY DEF NoFailure
<1>1. prob' = prob  BY InputFixed
<1>2. WellFormed /\ GroupsFit /\ RoundInv
  BY <1>1, ProbFixed DEF Inductive, NoFailure, Failed, WellFormed
<1>3. CASE GuessFails
  BY <1>2, <1>3, GuessFailsNot DEF GuessFails, RoundInv
<1>4. CASE PickFails
  <2>1. SettledInv /\ LoopInv  BY <1>2, <1>4 DEF RoundInv, Settled, Looping, Picking, PickFails
  <2> QED  BY <1>2, <1>4, <2>1, PickFailsNot
<1>5. CASE SolveFails
  <2>1. SettledInv /\ LoopInv  BY <1>2, <1>5 DEF RoundInv, Settled, Looping, SolveFails
  <2> QED  BY <1>2, <1>5, <2>1, SolveFailsNot
<1>6. CASE GuessNext \/ GuessEnd \/ AssumeNext \/ AssumeEnd \/ UNCHANGED vars
  BY <1>2, <1>6 DEF RoundInv, GuessNext, GuessEnd, AssumeNext, AssumeEnd, vars
<1>7. CASE PickMember \/ PickNew \/ PickNone \/ Solve
  BY <1>7 DEF PickMember, PickNew, PickNone, Solve
<1>8. CASE CollectGuess \/ CollectGuessEnd \/ CollectIndep \/ Publish
  BY <1>2, <1>8 DEF RoundInv, CollectGuess, CollectGuessEnd, CollectIndep, Publish
<1> QED  BY <1>3, <1>4, <1>5, <1>6, <1>7, <1>8 DEF Next, Step, Stopped

LEMMA InvHolds == Spec => [](TypeInv /\ Inductive)
<1>1. Init => TypeInv /\ Inductive
  BY InitTypes, BeginInv, ProblemsAssumption DEF Init, Inductive
<1>2. TypeInv /\ Inductive /\ [Next]_vars => (TypeInv /\ Inductive)'
  BY TypeStep, InvStep
<1> QED  BY <1>1, <1>2, PTL DEF Spec

\* Every vector holds variables and every position is one of a vector, whatever the input:
\* common.h's declarations of the round's data, kept by forward.cpp.
THEOREM ForwardTypes == Spec => []TypeOK
<1>1. TypeInv => TypeOK  BY DEF TypeInv
<1> QED  BY <1>1, InvHolds, PTL

\* On well-formed input the round reaches neither of its assertions (forward.cpp 284-337,
\* 396-398) with a condition that fails, nor an indicator that was never set.
THEOREM ForwardNeverFails == Spec => []NoFailure
<1>1. Init => NoFailure  BY DEF Init, Begin, NoFailure
<1>2. TypeInv /\ Inductive /\ NoFailure /\ [Next]_vars => NoFailure'  BY NoFailureStep
<1> QED  BY <1>1, <1>2, InvHolds, PTL DEF Spec

\* Every call of the solver is made under the guess and all the groups kept so far, whole,
\* and asks about a variable that is in neither.
THEOREM ForwardAssumes == Spec => []AssumesGuessAndKept
<1>1. TypeInv /\ Inductive => AssumesGuessAndKept
  <2> SUFFICES ASSUME TypeInv, RoundInv, GroupsFit, Looping
               PROVE  /\ Assumed(assumptions, "same") = guessSet \cup Range(indep)
                      /\ pc = "solve" => testVar \notin guessSet \cup Range(indep)
    BY DEF Inductive, Failed, Looping, AssumesGuessAndKept
  <2>1. SettledInv /\ LoopInv  BY DEF RoundInv, Settled, Looping
  <2>2. Assumed(assumptions, "same") = Kept  BY <2>1 DEF LoopInv
  <2>3. pc = "solve" => testVar \notin Kept  BY <2>1, SolveFacts
  <2> QED  BY <2>2, <2>3 DEF Kept
<1> QED  BY <1>1, InvHolds, PTL

\* While the main loop runs, everything it has tested and not kept is determined by the
\* guess and what it has kept, whatever the answers and time-outs of the solver were.
THEOREM ForwardDropsDetermined == Spec => []DroppedDetermined
<1>1. TypeInv /\ Inductive => DroppedDetermined
  BY DEF Inductive, Failed, RoundInv, Looping, LoopInv, DroppedDetermined, M, Kept
<1> QED  BY <1>1, InvHolds, PTL

\* What the end of the round says of its result.
LEMMA DoneFacts ==
    ASSUME TypeInv, GroupsFit, RoundInv, pc = "done"
    PROVE  /\ ProblemType(prob) /\ SettledInv /\ DoneInv
           /\ guessSet \subseteq Closure /\ Whole(guessSet)
           /\ guessSet \subseteq Units(Range(samplingSet))
           /\ Range(samplingSet) \subseteq Units(Range(samplingSet))
<1>1. ProblemType(prob) /\ SettledInv /\ DoneInv
  BY DEF TypeInv, TypeOK, RoundInv, Settled
<1>2. guessSet \subseteq Closure /\ Whole(guessSet) /\ InitialWindow \subseteq guessSet
  BY <1>1, WindowFacts DEF SettledInv
<1>3. InitialWindow \subseteq Range(samplingSet)
  BY <1>1, <1>2 DEF DoneInv, Untried
<1>4. guessSet \subseteq Units(Range(samplingSet))  BY <1>1, <1>3 DEF SettledInv, Units
<1>5. Range(samplingSet) \subseteq Units(Range(samplingSet))
  BY <1>1, UnitsFacts DEF DoneInv
<1> QED  BY <1>1, <1>2, <1>4, <1>5

\* The published variables, with the rest of their groups.
LEMMA DoneSupport ==
    ASSUME TypeInv, GroupsFit, RoundInv, ~ GaveUp, pc = "done"
    PROVE  Defines(prob.models, Units(Range(samplingSet)), Candidates)
<1>1. Defines(M, guessSet \cup Range(samplingSet), Candidates)
  BY DoneFacts DEF DoneInv
<1>2. guessSet \cup Range(samplingSet) \subseteq Units(Range(samplingSet))
  BY DoneFacts
<1> QED  BY <1>1, <1>2, DefinesMono DEF M

\* The flags that were set outside the sampling set are all that is left of them.
LEMMA DoneClean ==
    ASSUME TypeInv, GroupsFit, RoundInv, Closure = Candidates, pc = "done"
    PROVE  seen = {}
BY DoneFacts DEF SettledInv

\* The flags that the phases share are clean at the end when the sampling set holds its
\* groups whole: the assertion the next phase starts with (backward.cpp 92).
THEOREM ForwardLeavesSeenClean == Spec => []LeavesSeenClean
<1>1. TypeInv /\ Inductive => LeavesSeenClean
  BY DoneClean DEF Inductive, Failed, LeavesSeenClean
<1> QED  BY <1>1, InvHolds, PTL

-----------------------------------------------------------------------------
(* The limit of iterations *)

\* A vector without duplicates is as long as it has elements.
LEMMA DistinctLength ==
    ASSUME NEW s \in Seq(Vars), Distinct(s)
    PROVE  IsFiniteSet(Range(s)) /\ Cardinality(Range(s)) = Len(s)
<1>1. Len(s) \in Nat /\ DOMAIN s = 1 .. Len(s) /\ s \in [1 .. Len(s) -> Range(s)]
  BY DEF Range
<1>2. IsFiniteSet(1 .. Len(s)) /\ Cardinality(1 .. Len(s)) = Len(s)
  BY <1>1, FS_Interval
<1>3. s \in Bijection(1 .. Len(s), Range(s))
  BY <1>1 DEF Distinct, Range, Bijection, Injection, Surjection, IsInjective
<1> QED  BY <1>2, <1>3, FS_Bijection DEF ExistsBijection

\* Every iteration tests a variable of its own.
Tests ==
    iter + (IF pc \in {"pick", "solve"} THEN Len(testGroup) ELSE 0)
         + (IF pc = "solve" THEN 1 ELSE 0)

Counted == IsFiniteSet(tried) /\ Tests <= Cardinality(tried)

\* With enough iterations nothing is left untested.
AllTested == pc \in {"collectGuess", "collectIndep", "done"} /\ EnoughIters => ~ GaveUp

CountInv == Counted /\ AllTested

LEMMA TestsType ==
    ASSUME iter \in Nat, Len(testGroup) \in Nat PROVE Tests \in Nat /\ iter <= Tests
<1>1. CASE pc = "pick"  BY <1>1 DEF Tests
<1>2. CASE pc = "solve"  BY <1>2 DEF Tests
<1>3. CASE pc \notin {"pick", "solve"}  BY <1>3 DEF Tests
<1> QED  BY <1>1, <1>2, <1>3

LEMMA PickNewCounts ==
    ASSUME TypeInv, GroupsFit, SettledInv, LoopInv, Counted, PickNew PROVE Counted'
<1>1. PICK k \in OpenPicks : Mark(pick[k]) /\ testGroup' \in Others(pick[k])
  BY DEF PickNew
<1> DEFINE w == pick[k]
           unit == UnitOf(w)
<1>2. /\ ProblemType(prob) /\ w \in Closure /\ w \in Vars /\ w \in unit
      /\ Members(w) \in Seq(Vars) /\ Distinct(Members(w)) /\ Range(Members(w)) = unit
      /\ unit \cap tried = {}
  BY OpenFacts, ClosureFacts, MembersFacts
<1>3. /\ tried' = tried \cup unit /\ pc' = "solve" /\ pc = "pick" /\ testGroup = <<>>
      /\ iter' = iter /\ iter \in Nat
  BY <1>1, <1>2 DEF PickNew, Picking, Mark, TypeInv, TypeOK
<1>4. IsFiniteSet(unit) /\ Cardinality(unit) \in Nat
  BY <1>2, DistinctLength, FS_CardinalityType
<1>5. testGroup' \in Seq(Vars) /\ Range(testGroup') = unit \ {w} /\ Distinct(testGroup')
  <2>1. testGroup' \in Seq(Vars) /\ Range(testGroup') = unit \ {w}
    BY <1>1, <1>2, OthersType
  <2>2. CASE AsGroup(w)
    <3> DEFINE P == { l \in DOMAIN Group(w) : Group(w)[l] # w }
    <3>1. testGroup' \in Entries(Group(w), P) /\ P \subseteq DOMAIN Group(w)
      BY <1>1, <2>2 DEF Others
    <3>2. Group(w) \in Seq(Vars) /\ Distinct(Group(w))  BY <1>2, <2>2 DEF Members
    <3>3. \A l, m \in P : Group(w)[l] = Group(w)[m] => l = m  BY <3>2 DEF Distinct
    <3> QED  BY <2>1, <3>1, <3>2, <3>3, EntriesFacts
  <2>3. CASE ~ AsGroup(w)
    <3>1. testGroup' = <<>>  BY <1>1, <2>3 DEF Others
    <3>2. Distinct(<<>>)  BY DEF Distinct
    <3> QED  BY <2>1, <3>1, <3>2
  <2> QED  BY <2>2, <2>3
<1> HIDE DEF w, unit
<1>6. Len(testGroup') = Cardinality(unit) - 1
  <2>1. Cardinality(unit \ {w}) = Cardinality(unit) - 1
    BY <1>2, <1>4, FS_RemoveElement
  <2> QED  BY <1>5, <2>1, DistinctLength
<1>7. IsFiniteSet(tried') /\ Cardinality(tried') = Cardinality(tried) + Cardinality(unit)
  <2>1. IsFiniteSet(tried) /\ Cardinality(tried) \in Nat  BY FS_CardinalityType DEF Counted
  <2>2. tried \cap unit = {}  BY <1>2
  <2>3. Cardinality(tried \cap unit) = 0  BY <2>2, FS_EmptySet
  <2>4. /\ IsFiniteSet(tried \cup unit)
        /\ Cardinality(tried \cup unit)
               = Cardinality(tried) + Cardinality(unit) - Cardinality(tried \cap unit)
    BY <1>4, <2>1, FS_Union
  <2> QED  BY <1>3, <1>4, <2>1, <2>3, <2>4
<1>8. iter <= Cardinality(tried) /\ Cardinality(tried) \in Nat
  <2>1. Len(testGroup) = 0  BY <1>3
  <2> QED  BY <1>3, <2>1, FS_CardinalityType DEF Counted, Tests
<1>9. Tests' = iter + Len(testGroup') + 1  BY <1>3 DEF Tests
<1> QED  BY <1>3, <1>4, <1>6, <1>7, <1>8, <1>9 DEF Counted

LEMMA CountedStep ==
    TypeInv /\ GroupsFit /\ Inductive /\ Counted /\ [Next]_vars => Counted'
<1> SUFFICES ASSUME TypeInv, GroupsFit, Inductive, Counted, [Next]_vars PROVE Counted'
  OBVIOUS
<1>0. ~ Failed => RoundInv  BY DEF Inductive
<1>1. /\ iter \in Nat /\ testGroup \in Seq(Vars) /\ Len(testGroup) \in Nat
      /\ Cardinality(tried) \in Nat /\ IsFiniteSet(tried) /\ Tests <= Cardinality(tried)
  BY FS_CardinalityType DEF TypeInv, TypeOK, Counted
<1>2. ASSUME tried' = tried, Tests' <= Tests, Tests' \in Nat, Tests \in Nat PROVE Counted'
  BY <1>1, <1>2 DEF Counted
<1>3. Tests \in Nat /\ iter <= Tests  BY <1>1, TestsType
<1>4. CASE UNCHANGED <<tried, iter>> /\ pc' \notin {"pick", "solve"}
  <2>1. Tests' = iter  BY <1>1, <1>4 DEF Tests
  <2> QED  BY <1>1, <1>2, <1>3, <1>4, <2>1
<1>5. CASE UNCHANGED <<tried, iter, testGroup, pc>>
  <2>1. Tests' = Tests  BY <1>5 DEF Tests
  <2> QED  BY <1>2, <1>3, <1>5, <2>1
<1>6. CASE AssumeEnd
  <2>1. testGroup = <<>>
    BY <1>0, <1>6 DEF AssumeEnd, Failed, RoundInv, AssumeInv, WindowInv
  <2>2. Len(testGroup) = 0 /\ pc' = "pick" /\ UNCHANGED <<tried, iter, testGroup>>
    BY <1>6, <2>1 DEF AssumeEnd, pickVars
  <2>3. Tests' = iter  BY <1>1, <2>2 DEF Tests
  <2> QED  BY <1>1, <1>2, <1>3, <2>2, <2>3
<1>7. CASE PickMember
  <2>1. SettledInv /\ LoopInv
    BY <1>0, <1>7 DEF PickMember, Picking, Failed, RoundInv, Settled, Looping
  <2>2. tried' = tried
    <3>1. /\ ProblemType(prob) /\ testVar \in Closure /\ UnderTest = UnitOf(testVar)
          /\ UnderTest \subseteq tried
      BY <1>7, <2>1, TestFacts DEF PickMember, Testing
    <3>2. Last(testGroup) \in UnitOf(testVar)
      BY <1>1, <1>7, <2>1, <3>1, PopBack DEF PickMember, LoopInv, Remaining
    <3>3. Range(Members(Last(testGroup))) \subseteq tried
      <4>1. Last(testGroup) \in Closure /\ Last(testGroup) \in tried
        BY <2>1, <3>1, <3>2 DEF SettledInv
      <4> QED  BY <2>1, <3>1, <4>1, MembersFacts DEF SettledInv, Whole
    <3> QED  BY <1>7, <3>3 DEF PickMember, Mark
  <2>3. /\ pc = "pick" /\ pc' = "solve" /\ iter' = iter /\ Len(testGroup') = Len(testGroup) - 1
        /\ Len(testGroup) > 0
    <3>1. Len(testGroup) > 0 /\ Len(Front(testGroup)) = Len(testGroup) - 1
      BY <1>1, <1>7, PopBack DEF PickMember
    <3> QED  BY <1>7, <3>1 DEF PickMember, Picking
  <2>4. Tests' = Tests  BY <1>1, <2>3 DEF Tests
  <2> QED  BY <1>2, <1>3, <2>2, <2>4
<1>8. CASE PickNew
  <2>1. SettledInv /\ LoopInv
    BY <1>0, <1>8 DEF PickNew, Picking, Failed, RoundInv, Settled, Looping
  <2> QED  BY <1>8, <2>1, PickNewCounts
<1>9. CASE Solve
  <2>1. /\ pc = "solve" /\ pc' = "pick" /\ iter' = iter + 1 /\ tried' = tried
        /\ testGroup' = testGroup \/ testGroup' = <<>>
    BY <1>9 DEF Solve
  <2>2. Len(testGroup') \in Nat /\ Len(testGroup') <= Len(testGroup)  BY <1>1, <2>1
  <2>3. Tests' = iter + 1 + Len(testGroup') /\ Tests = iter + Len(testGroup) + 1
    BY <1>1, <2>1, <2>2 DEF Tests
  <2> QED  BY <1>1, <1>2, <1>3, <2>1, <2>2, <2>3
<1>10. CASE GuessNext \/ AssumeNext \/ CollectGuess \/ CollectIndep \/ UNCHANGED vars
  BY <1>5, <1>10
  DEF GuessNext, AssumeNext, CollectGuess, CollectIndep, vars, data, pickVars
<1>11. CASE GuessFails \/ GuessEnd \/ PickFails \/ PickNone \/ SolveFails
            \/ CollectGuessEnd \/ Publish
  BY <1>4, <1>11
  DEF GuessFails, GuessEnd, PickFails, MarkFails, PickNone, SolveFails, CollectGuessEnd,
      Publish, Fail, data, pickVars
<1> QED
  BY <1>6, <1>7, <1>8, <1>9, <1>10, <1>11 DEF Next, Step, Stopped

LEMMA ClosureFinite ==
    ASSUME ProblemType(prob), GroupsFit PROVE IsFiniteSet(Closure)
<1> DEFINE s == prob.sampling
           units == { UnitOf(v) : v \in Candidates }
           f == [k \in 1 .. Len(s) |-> UnitOf(s[k])]
<1>1. Len(s) \in Nat /\ DOMAIN s = 1 .. Len(s)  BY DEF ProblemType
<1>2. f \in Surjection(1 .. Len(s), units)
  BY <1>1 DEF Surjection, Candidates, Range
<1>3. IsFiniteSet(units)
  <2>1. IsFiniteSet(1 .. Len(s))  BY <1>1, FS_Interval
  <2> HIDE DEF f, units
  <2> QED  BY <1>2, <2>1, FS_Surjection
<1>4. ASSUME NEW T \in units PROVE IsFiniteSet(T)
  <2>1. PICK v \in Candidates : T = UnitOf(v)  OBVIOUS
  <2>2. v \in Closure  BY CandidatesInClosure
  <2> QED  BY <2>1, <2>2, MembersFacts, DistinctLength
<1>5. Closure = UNION units  BY DEF Closure
<1> QED  BY <1>3, <1>4, <1>5, FS_UNION

\* When the iterations are used up, all that was not guessed has been tested, if they
\* were enough.
LEMMA PickNoneTests ==
    ASSUME TypeInv, GroupsFit, SettledInv, LoopInv, Counted, PickNone, EnoughIters
    PROVE  testGroup = <<>> /\ Candidates \subseteq guessSet \cup tried
<1>1. /\ pc = "pick" /\ ProblemType(prob) /\ Candidates \subseteq Closure
      /\ InitialWindow \subseteq guessSet
  BY WindowFacts, CandidatesInClosure DEF PickNone, TypeInv, TypeOK, SettledInv
<1>2. CASE testGroup = <<>> /\ OpenPicks = {}
  <2>1. ASSUME NEW v \in Candidates, v \notin guessSet, v \notin tried PROVE FALSE
    <3>1. v \notin InitialWindow  BY <1>1, <2>1
    <3>2. Open(v)  BY <2>1, <3>1 DEF LoopInv, Untried, Open
    <3>3. v \in Range(pick)  BY <3>2 DEF LoopInv
    <3>4. PICK l \in DOMAIN pick : pick[l] = v  BY <3>3 DEF Range
    <3>5. l \in OpenPicks  BY <3>2, <3>4 DEF OpenPicks
    <3> QED  BY <1>2, <3>5
  <2> QED  BY <1>2, <2>1
<1>3. CASE OutOfIters
  <2> DEFINE rest == Closure \ guessSet
  <2>1. IsFiniteSet(rest)  BY <1>1, ClosureFinite, FS_Subset
  <2>2. tried \subseteq rest  BY DEF SettledInv
  <2>3. /\ Cardinality(tried) <= Cardinality(rest)
        /\ Cardinality(rest) = Cardinality(tried) => rest = tried
    BY <2>1, <2>2, FS_Subset
  <2>4. Cardinality(rest) \in Nat /\ Cardinality(tried) \in Nat
    BY <2>1, FS_CardinalityType DEF Counted
  <2>5. testGroup \in Seq(Vars) /\ Len(testGroup) \in Nat /\ iter \in Nat
    BY DEF TypeInv, TypeOK
  <2>6. iter + Len(testGroup) <= Cardinality(tried)  BY <1>1, <2>5 DEF Counted, Tests
  <2>7. Cardinality(rest) <= MaxIters /\ MaxIters <= iter
    BY <1>3, <2>5, MaxItersAssumption DEF EnoughIters, OutOfIters
  <2> HIDE DEF rest
  <2>8. Len(testGroup) = 0 /\ Cardinality(rest) = Cardinality(tried)
    BY <2>3, <2>4, <2>5, <2>6, <2>7, MaxItersAssumption
  <2>9. rest = tried  BY <2>3, <2>8
  <2>10. testGroup = <<>>  BY <2>5, <2>8
  <2> QED  BY <1>1, <2>9, <2>10 DEF rest
<1> QED  BY <1>2, <1>3 DEF PickNone

LEMMA AllTestedStep ==
    ASSUME TypeInv, GroupsFit, Inductive, CountInv, [Next]_vars PROVE AllTested'
<1> SUFFICES ASSUME pc' \in {"collectGuess", "collectIndep", "done"}, EnoughIters'
             PROVE  ~ GaveUp'
  BY DEF AllTested
<1>1. Candidates' = Candidates /\ Closure' = Closure  BY InputFixed, ProbFixed
<1>2. CASE PickNone
  <2>1. SettledInv /\ LoopInv
    BY <1>2 DEF Inductive, PickNone, Failed, RoundInv, Settled, Looping
  <2>2. guessSet' = guessSet /\ testGroup' = testGroup /\ tried' = tried
    BY <1>2 DEF PickNone, pickVars
  <2>3. EnoughIters  BY <1>1, <2>2 DEF EnoughIters
  <2>4. testGroup = <<>> /\ Candidates \subseteq guessSet \cup tried
    BY <1>2, <2>1, <2>3, PickNoneTests DEF CountInv
  <2> QED  BY <1>1, <2>2, <2>4 DEF GaveUp
<1>3. CASE CollectGuess \/ CollectGuessEnd \/ CollectIndep \/ Publish \/ UNCHANGED vars
  <2>1. /\ UNCHANGED <<guessSet, testGroup, tried>>
        /\ pc \in {"collectGuess", "collectIndep", "done"}
    BY <1>3
    DEF CollectGuess, CollectGuessEnd, CollectIndep, Publish, vars, data, pickVars
  <2>2. EnoughIters  BY <1>1, <2>1 DEF EnoughIters
  <2>3. ~ GaveUp  BY <2>1, <2>2 DEF CountInv, AllTested
  <2> QED  BY <1>1, <2>1, <2>3 DEF GaveUp
<1>4. CASE GuessNext \/ GuessFails \/ GuessEnd \/ AssumeNext \/ AssumeEnd \/ PickMember
           \/ PickNew \/ PickFails \/ Solve \/ SolveFails
  BY <1>4
  DEF GuessNext, GuessFails, GuessEnd, AssumeNext, AssumeEnd, PickMember, PickNew, PickFails,
      MarkFails, Solve, SolveFails, Fail
<1> QED  BY <1>2, <1>3, <1>4 DEF Next, Step, Stopped

LEMMA CountStep ==
    TypeInv /\ GroupsFit /\ Inductive /\ CountInv /\ [Next]_vars => CountInv'
BY CountedStep, AllTestedStep DEF CountInv

LEMMA BeginCounts == Begin => CountInv
<1> SUFFICES ASSUME Begin PROVE CountInv  OBVIOUS
<1>1. Counted  BY FS_EmptySet DEF Begin, Counted, Tests
<1>2. AllTested  BY DEF Begin, AllTested
<1> QED  BY <1>1, <1>2 DEF CountInv

\* There are enough iterations when there are as many as variables.
LEMMA EnoughForVars ==
    ASSUME ProblemType(prob), GroupsFit, IsFiniteSet(Vars), Cardinality(Vars) <= MaxIters
    PROVE  EnoughIters
<1> DEFINE rest == Closure \ guessSet
<1>1. rest \subseteq Vars  BY ClosureFacts
<1>2. /\ IsFiniteSet(rest) /\ Cardinality(rest) <= Cardinality(Vars)
      /\ Cardinality(rest) \in Nat /\ Cardinality(Vars) \in Nat
  BY <1>1, FS_Subset, FS_CardinalityType
<1> HIDE DEF rest
<1>3. Cardinality(rest) <= MaxIters  BY <1>2, MaxItersAssumption
<1> QED  BY <1>3 DEF EnoughIters, rest

LEMMA CountHolds == Spec => [](GroupsFit => CountInv)
<1>1. Init => CountInv  BY BeginCounts DEF Init
<1>2. TypeInv /\ Inductive /\ (GroupsFit => CountInv) /\ [Next]_vars
          => (GroupsFit => CountInv)'
  <2> SUFFICES ASSUME TypeInv, Inductive, GroupsFit => CountInv, [Next]_vars
               PROVE  (GroupsFit => CountInv)'
    OBVIOUS
  <2>1. prob' = prob  BY InputFixed
  <2> QED  BY <2>1, CountStep, ProbFixed
<1> QED  BY <1>1, <1>2, InvHolds, PTL DEF Spec

\* The limit on iterations (max_iters, 5000000 in arjun.cpp 142) cuts nothing off as long
\* as it is not less than the number of variables that the window leaves to be tested:
\* each call of the solver is about a variable that no earlier call was about.
THEOREM ForwardTestsAll ==
    Spec => [](GroupsFit /\ EnoughIters /\ pc = "done"
                   => Candidates \subseteq guessSet \cup tried)
<1>1. (GroupsFit => CountInv)
          => (GroupsFit /\ EnoughIters /\ pc = "done"
                  => Candidates \subseteq guessSet \cup tried)
  BY DEF CountInv, AllTested, GaveUp
<1> QED  BY <1>1, CountHolds, PTL

\* The variables the round publishes, with the rest of their groups, determine the
\* variables of interest: the support survives the round even where a group lies across
\* the edge of the window (set_guess_forward_round).
THEOREM ForwardGroupsSupport == Spec => []GroupsSupport
<1>1. TypeInv /\ Inductive /\ (GroupsFit => CountInv) => GroupsSupport
  BY DoneSupport DEF Inductive, Failed, CountInv, AllTested, GroupsSupport, Units
<1> QED  BY <1>1, InvHolds, CountHolds, PTL

\* When no group lies across the edge of the window the round leaves an independent
\* support by itself, of whole groups, each variable once.
THEOREM ForwardAlignedSupport == Spec => []AlignedSupport
<1>1. TypeInv /\ Inductive /\ (GroupsFit => CountInv) => AlignedSupport
  <2> SUFFICES ASSUME TypeInv, RoundInv, GroupsFit, NoStraddle, ~ GaveUp, pc = "done"
               PROVE  /\ Defines(prob.models, Range(samplingSet), Candidates)
                      /\ Whole(Range(samplingSet)) /\ Distinct(samplingSet)
    BY DEF Inductive, Failed, CountInv, AllTested, AlignedSupport, Whole
  <2>1. guessSet \cap Untried = {}
    <3> SUFFICES ASSUME NEW v \in guessSet, v \in Untried PROVE FALSE  OBVIOUS
    <3>1. PICK c \in InitialWindow : v \in UnitOf(c)  BY DoneFacts DEF SettledInv, Units
    <3>2. v \in InitialWindow  BY <3>1 DEF NoStraddle, Untried
    <3> QED  BY <3>2 DEF Untried
  <2>2. guessSet \subseteq Range(samplingSet)  BY <2>1, DoneFacts DEF DoneInv
  <2>3. Defines(M, Range(samplingSet), Candidates)
    <3>1. Defines(M, guessSet \cup Range(samplingSet), Candidates)
      BY DoneFacts DEF DoneInv
    <3>2. guessSet \cup Range(samplingSet) = Range(samplingSet)  BY <2>2
    <3> QED  BY <3>1, <3>2
  <2>4. Whole(Range(samplingSet))
    <3>1. Whole(guessSet) /\ Whole(Range(samplingSet) \ guessSet)
      BY DoneFacts DEF DoneInv
    <3> QED  BY <2>2, <3>1 DEF Whole
  <2> QED  BY <2>3, <2>4, DoneFacts DEF DoneInv, M
<1> QED  BY <1>1, InvHolds, CountHolds, PTL
=============================================================================
