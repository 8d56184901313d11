----------------------- MODULE BackwardRound_proofs -----------------------
(***************************************************************************)
(* Proofs about BackwardRound, for every set of inputs of type ProblemType *)
(* (well-formed or not, as each theorem says), every period and with or    *)
(* without time-outs.                                                      *)
(***************************************************************************)
EXTENDS BackwardRound, Independence_proofs, SequenceTheorems

-----------------------------------------------------------------------------
(* Types *)

\* A grouped variable has a non-empty group of variables.
LEMMA GroupType ==
    ASSUME ProblemType(prob), NEW v, InGroup(v)
    PROVE  /\ v \in Vars
           /\ Group(v) \in Seq(Vars)
           /\ Len(Group(v)) \in Nat \ {0}
           /\ \A k \in 1 .. Len(Group(v)) : Group(v)[k] \in Vars
           /\ Range(Group(v)) \subseteq Vars
<1>1. ProblemType(prob)  OBVIOUS
<1>2. v \in DOMAIN prob.groupOf /\ prob.groupOf[v] # 0  BY DEF InGroup, Mapped
<1>3. prob.groupOf[v] \in 1 .. Len(prob.varGroups)  BY <1>1, <1>2 DEF ProblemType
<1>4. Group(v) \in Seq(Vars)  BY <1>1, <1>3 DEF ProblemType, Group
<1>5. Len(Group(v)) # 0  BY <1>1, <1>2 DEF ProblemType, Group
<1>6. v \in Vars  BY <1>1, <1>2 DEF ProblemType
<1> QED  BY <1>4, <1>5, <1>6 DEF Range

\* The positions the range-for loops dereference exist.
PositionsOK ==
    /\ pc = "build" /\ cursor <= Len(samplingSet) =>
           IF AsGroup(Candidate) THEN member <= Len(Group(Candidate)) ELSE member = 1
    /\ pc = "solve" /\ InGroup(testVar) => member <= Len(Group(testVar))
    /\ Testing => testVar \in Vars
    /\ pc = "fill" => j <= Len(unknown) + 1

TInv == TypeOK /\ PositionsOK

LEMMA BeginTypes == ProblemType(prob) /\ Begin => TInv
<1> SUFFICES ASSUME ProblemType(prob), Begin  PROVE TInv
    OBVIOUS
<1>1. ProblemType(prob)  OBVIOUS
<1>2. TypeOK
    BY <1>1, UpdatePeriodAssumption DEF Begin, TypeOK, ProblemType
<1>3. PositionsOK
  <2>1. AsGroup(Candidate) => Len(Group(Candidate)) \in Nat \ {0}
      BY <1>1, GroupType DEF AsGroup
  <2> QED  BY <2>1 DEF Begin, PositionsOK, Testing
<1> QED  BY <1>2, <1>3 DEF TInv

LEMMA InitTInv == Init => TInv
BY BeginTypes, ProblemsAssumption DEF Init

LEMMA FunctionIsSeq ==
    ASSUME NEW S, NEW n \in Nat, NEW f \in [1 .. n -> S]
    PROVE  f \in Seq(S) /\ Len(f) = n
<1>1. f \in Seq(S)  BY SeqDef
<1>2. DOMAIN f = 1 .. n /\ DOMAIN f = 1 .. Len(f) /\ Len(f) \in Nat
    BY <1>1, LenProperties
<1> QED  BY <1>1, <1>2

LEMMA LitTypes ==
    ASSUME NEW s \in Seq(Vars)
    PROVE  /\ SameLits(s) \in Seq(Literals)
           /\ Len(SameLits(s)) = Len(s)
           /\ \A k \in 1 .. Len(s) : SameLits(s)[k] = Same(s[k])
<1>1. SameLits(s) = [k \in 1 .. Len(s) |-> Same(s[k])]  BY DEF SameLits
<1>2. \A k \in 1 .. Len(s) : Same(s[k]) \in Literals  BY DEF Same, Literals
<1> QED  BY <1>1, <1>2

\* The group loops advance within the group, and start the next one at its first member.
LEMMA TPushGroupMember == TInv /\ PushGroupMember => TInv'
<1> SUFFICES ASSUME TInv, PushGroupMember  PROVE TInv'
    OBVIOUS
<1> USE DEF TInv, TypeOK, setVars, testVars, assVars, fillVars
<1> DEFINE grp == Group(Candidate)
<1>1. /\ grp \in Seq(Vars) /\ Len(grp) \in Nat \ {0}
      /\ \A k \in 1 .. Len(grp) : grp[k] \in Vars
    BY GroupType DEF PushGroupMember, AsGroup
<1>2. member \in 1 .. Len(grp)
    BY <1>1 DEF PushGroupMember, Building, PositionsOK
<1>3. grp[member] \in Vars  BY <1>1, <1>2
<1>4. unknown' \in Seq(Vars) /\ unknownSet' \subseteq Vars
    BY <1>3 DEF PushGroupMember
<1>5. cursor' \in Nat \ {0} /\ member' \in Nat \ {0}
    BY <1>2 DEF PushGroupMember
<1>6. TypeOK'
    BY <1>4, <1>5 DEF PushGroupMember
<1>7. PositionsOK'
  <2>1. CASE member < Len(grp)
    <3>1. cursor' = cursor /\ member' = member + 1 /\ Candidate' = Candidate
        BY <2>1 DEF PushGroupMember, Candidate
    <3>2. Group(Candidate)' = grp /\ AsGroup(Candidate)'
        BY <3>1 DEF PushGroupMember, Group, AsGroup, InGroup, Mapped
    <3> QED  BY <3>1, <3>2, <2>1, <1>1, <1>2 DEF PushGroupMember, Building, PositionsOK, Testing
  <2>2. CASE ~ (member < Len(grp))
    <3>1. member' = 1  BY <2>2 DEF PushGroupMember
    <3>2. AsGroup(Candidate)' => Len(Group(Candidate)') \in Nat \ {0}
      <4>1. prob' = prob  BY DEF PushGroupMember
      <4>2. InGroup(Candidate') => Len(Group(Candidate')) \in Nat \ {0}
          BY GroupType
      <4> QED  BY <4>1, <4>2 DEF AsGroup, InGroup, Mapped, Group
    <3> QED  BY <3>1, <3>2 DEF PushGroupMember, Building, PositionsOK, Testing
  <2> QED  BY <2>1, <2>2
<1> QED  BY <1>6, <1>7

LEMMA TPushUngrouped == TInv /\ PushUngrouped => TInv'
<1> SUFFICES ASSUME TInv, PushUngrouped  PROVE TInv'
    OBVIOUS
<1> USE DEF TInv, TypeOK, setVars, testVars, assVars, fillVars
<1>1. cursor \in 1 .. Len(samplingSet)  BY DEF PushUngrouped, Building
<1>2. Candidate \in Vars  BY <1>1 DEF Candidate
<1>3. TypeOK'  BY <1>2 DEF PushUngrouped
<1>4. member' = 1  BY DEF PushUngrouped, Building, PositionsOK
<1>5. AsGroup(Candidate)' => Len(Group(Candidate)') \in Nat \ {0}
  <2>1. prob' = prob  BY DEF PushUngrouped
  <2>2. InGroup(Candidate') => Len(Group(Candidate')) \in Nat \ {0}
      BY GroupType
  <2> QED  BY <2>1, <2>2 DEF AsGroup, InGroup, Mapped, Group
<1>6. PositionsOK'  BY <1>4, <1>5 DEF PushUngrouped, Building, PositionsOK, Testing
<1> QED  BY <1>3, <1>6

\* A failed assertion or a wild access leaves the data as they are.
LEMMA TFail == ASSUME TInv, NEW how \in {"abort", "wild"}, Fail(how)  PROVE TInv'
BY DEF TInv, TypeOK, PositionsOK, Testing, Fail, data, setVars, workVars, loopVars,
       testVars, assVars, fillVars

LEMMA TSortUnknown == TInv /\ SortUnknown => TInv'
<1> SUFFICES ASSUME TInv, SortUnknown  PROVE TInv'
    OBVIOUS
<1> USE DEF TInv, TypeOK, setVars, loopVars, testVars, assVars, fillVars
<1>1. unknown' \in Seq(Vars)
  <2>1. CASE prob.groupIndep  BY <2>1 DEF SortUnknown
  <2>2. CASE ~ prob.groupIndep
    <3>1. PICK p \in [1 .. Len(unknown) -> 1 .. Len(unknown)] :
              unknown' = [k \in 1 .. Len(unknown) |-> unknown[p[k]]]
        BY <2>2 DEF SortUnknown
    <3>2. ASSUME NEW k \in 1 .. Len(unknown)  PROVE unknown[p[k]] \in Vars
      <4>1. p[k] \in 1 .. Len(unknown)  OBVIOUS
      <4> QED  BY <4>1, ElementOfSeq
    <3> QED  BY <3>1, <3>2
  <2> QED  BY <2>1, <2>2
<1> QED  BY <1>1 DEF SortUnknown, PositionsOK, Testing

LEMMA TSelectTest == TInv /\ SelectTest => TInv'
<1> SUFFICES ASSUME TInv, SelectTest  PROVE TInv'
    OBVIOUS
<1> USE DEF TInv, TypeOK, setVars, loopVars, assVars, fillVars
<1>1. Len(unknown) \in Nat \ {0} /\ LastVar \in Vars
    BY DEF SelectTest, Selecting, LastVar
<1>2. CASE LastVar \in unknownSet
  <2>1. FirstTaken \in Int /\ FirstTaken >= 1 /\ FirstTaken <= Len(unknown)
      BY <1>1, <1>2, GroupType DEF SelectTest, TakenAreGroup, FirstTaken
  <2>2. SubSeq(unknown, 1, FirstTaken - 1) \in Seq(Vars)
      BY <2>1, SubSeqProperties
  <2> QED  BY <1>1, <1>2, <2>2 DEF SelectTest, Selecting, PositionsOK, Testing
<1>3. CASE LastVar \notin unknownSet
  <2>1. SubSeq(unknown, 1, Len(unknown) - 1) \in Seq(Vars)
      BY <1>1, SubSeqProperties
  <2> QED  BY <1>3, <2>1 DEF SelectTest, Selecting, PositionsOK, Testing
<1> QED  BY <1>2, <1>3

LEMMA TSelectNone == TInv /\ SelectNone => TInv'
BY DEF TInv, TypeOK, SelectNone, PositionsOK, Testing, workVars, assVars, fillVars

LEMMA TFillIndep == TInv /\ FillIndep => TInv'
<1> SUFFICES ASSUME TInv, FillIndep  PROVE TInv'
    OBVIOUS
<1> USE DEF TInv, TypeOK, setVars, workVars, loopVars, testVars
<1>1. assumptions' \in Seq(Literals)  BY LitTypes DEF FillIndep
<1>2. Len(unknown) \in Nat  OBVIOUS
<1> QED  BY <1>1, <1>2 DEF FillIndep, PositionsOK, Testing

\* Nothing of a group that is written out is unfit, so it lies within the vector.
LEMMA GroupFits ==
    ASSUME TInv, Filling, FillGroup
    PROVE  LET grp == Group(Current)
           IN  /\ grp \in Seq(Vars) /\ Len(grp) \in Nat \ {0}
               /\ \A k \in 1 .. Len(grp) :
                      /\ grp[k] \in Vars
                      /\ j + k - 1 <= Len(unknown)
                      /\ grp[k] \in prob.indicated
                      /\ grp[k] \notin added
<1> DEFINE grp == Group(Current)
<1>1. /\ grp \in Seq(Vars) /\ Len(grp) \in Nat \ {0}
      /\ \A k \in 1 .. Len(grp) : grp[k] \in Vars
    BY GroupType DEF FillGroup, AsGroup, TInv, TypeOK
<1>2. Unfit(grp) = {}  BY DEF FillGroup
<1>3. \A k \in 1 .. Len(grp) :
         j + k - 1 <= Len(unknown) /\ grp[k] \in prob.indicated /\ grp[k] \notin added
  <2> TAKE k \in 1 .. Len(grp)
  <2>1. k \in DOMAIN grp /\ k \notin Unfit(grp)  BY <1>1, <1>2
  <2>2. ~ (j + k - 1 > Len(unknown)) /\ grp[k] \in prob.indicated /\ grp[k] \notin added
      BY <2>1 DEF Unfit
  <2> QED  BY <2>2, <1>1 DEF TInv, TypeOK
<1> QED  BY <1>1, <1>3

LEMMA TFillNext == TInv /\ FillNext => TInv'
<1> SUFFICES ASSUME TInv, FillNext  PROVE TInv'
    OBVIOUS
<1> USE DEF TInv, TypeOK, setVars, loopVars, testVars
<1>0. i \in 1 .. Len(unknown) /\ Current \in Vars  BY DEF FillNext, Filling, Current
<1>1. CASE Skipped
    BY <1>0, <1>1 DEF FillNext, Filling, PositionsOK, Testing
<1>2. CASE ~ Skipped /\ FillGroup
  <2> DEFINE grp == Group(Current)
             n == Len(grp)
  <2>1. /\ grp \in Seq(Vars) /\ n \in Nat \ {0}
        /\ \A k \in 1 .. n : grp[k] \in Vars /\ j + k - 1 <= Len(unknown)
      BY <1>2, GroupFits DEF FillNext
  <2>2. \A k \in 1 .. Len(unknown) :
           (IF k \in j .. (j + n - 1) THEN grp[k - j + 1] ELSE unknown[k]) \in Vars
    <3> TAKE k \in 1 .. Len(unknown)
    <3>1. CASE k \in j .. (j + n - 1)
      <4>1. k - j + 1 \in 1 .. n  BY <2>1, <3>1
      <4> QED  BY <4>1, <2>1, <3>1
    <3>2. CASE k \notin j .. (j + n - 1)
      <4>1. unknown[k] \in Vars  BY ElementOfSeq
      <4> QED  BY <4>1, <3>2
    <3> QED  BY <3>1, <3>2
  <2>3. unknown' = [k \in 1 .. Len(unknown) |->
                       IF k \in j .. (j + n - 1) THEN grp[k - j + 1] ELSE unknown[k]]
      BY <1>2 DEF FillGroup
  <2>4. unknown' \in Seq(Vars) /\ Len(unknown') = Len(unknown)
    <3>1. unknown' \in [1 .. Len(unknown) -> Vars]  BY <2>2, <2>3
    <3>2. Len(unknown) \in Nat  OBVIOUS
    <3> QED  BY <3>1, <3>2, FunctionIsSeq
  <2>5. assumptions' \in Seq(Literals)
      BY <1>2, <2>1, LitTypes, ConcatProperties DEF FillGroup
  <2>6. /\ added' \subseteq Vars
        /\ i' \in Nat \ {0} /\ j' \in Nat \ {0} /\ j' <= i'
      BY <1>2, <2>1 DEF FillGroup, Range
  <2>7. j' <= Len(unknown) + 1
    <3>1. n \in 1 .. n  BY <2>1
    <3>2. j + n - 1 <= Len(unknown)  BY <2>1, <3>1
    <3> QED  BY <1>2, <2>1, <3>2 DEF FillGroup
  <2> QED  BY <2>7, <1>2, <2>4, <2>5, <2>6 DEF FillNext, Filling, PositionsOK, Testing
<1>3. CASE ~ Skipped /\ FillSingle
  <2>1. Same(Current) \in Literals  BY <1>0 DEF Same, Literals
  <2>2. j \in 1 .. Len(unknown)  BY <1>0
  <2>3. unknown' \in Seq(Vars) /\ Len(unknown') = Len(unknown)
      BY <1>0, <1>3, <2>2, ExceptSeq DEF FillSingle
  <2>4. assumptions' \in Seq(Literals)  BY <1>3, <2>1, AppendProperties DEF FillSingle
  <2> QED  BY <1>3, <2>3, <2>4 DEF FillNext, FillSingle, Filling, PositionsOK, Testing
<1> QED  BY <1>1, <1>2, <1>3 DEF FillNext

LEMMA TFillEnd == TInv /\ FillEnd => TInv'
<1> SUFFICES ASSUME TInv, FillEnd  PROVE TInv'
    OBVIOUS
<1> USE DEF TInv, TypeOK, setVars, testVars, fillVars
<1>1. unknown' \in Seq(Vars)
  <2>1. j - 1 \in 0 .. Len(unknown)  BY DEF FillEnd, PositionsOK
  <2>2. \A k \in 1 .. (j - 1) : unknown[k] \in Vars  BY <2>1
  <2>3. SubSeq(unknown, 1, j - 1) \in Seq(Vars)
      BY <2>1, <2>2, SubSeqProperties
  <2> QED  BY <2>3 DEF FillEnd
<1>2. Len(assumptions) \in Nat  OBVIOUS
<1>3. InGroup(testVar)' => Len(Group(testVar)') \in Nat \ {0}
  <2>1. prob' = prob /\ testVar' = testVar  BY DEF FillEnd
  <2>2. InGroup(testVar) => Len(Group(testVar)) \in Nat \ {0}  BY GroupType
  <2> QED  BY <2>1, <2>2 DEF InGroup, Mapped, Group
<1> QED  BY <1>1, <1>2, <1>3 DEF FillEnd, PositionsOK, Testing

LEMMA TSolveMember == TInv /\ SolveMember => TInv'
<1> SUFFICES ASSUME TInv, SolveMember  PROVE TInv'
    OBVIOUS
<1> USE DEF TInv, TypeOK, setVars, workVars, fillVars
<1> DEFINE grouped == InGroup(testVar)
           v == IF grouped THEN Group(testVar)[member] ELSE testVar
           called == Append(assumptions, Differ(v))
<1>1. v \in Vars
  <2>1. CASE grouped
    <3>1. member \in 1 .. Len(Group(testVar))
        BY <2>1, GroupType DEF SolveMember, PositionsOK
    <3> QED  BY <2>1, <3>1, GroupType
  <2>2. CASE ~ grouped
      BY <2>2 DEF SolveMember, PositionsOK, Testing
  <2> QED  BY <2>1, <2>2
<1>2. /\ called \in Seq(Literals)
      /\ Len(called) = Len(assumptions) + 1
      /\ \A k \in 1 .. Len(called) : called[k] \in Literals
  <2>1. Differ(v) \in Literals  BY <1>1 DEF Differ, Literals
  <2> HIDE DEF v
  <2>2. called \in Seq(Literals) /\ Len(called) = Len(assumptions) + 1
      BY <2>1, AppendProperties
  <2> QED  BY <2>2, ElementOfSeq
<1>3. origAssSize \in 0 .. Len(assumptions)  BY DEF SolveMember
<1>4. /\ SubSeq(called, 1, origAssSize) \in Seq(Literals)
      /\ Len(SubSeq(called, 1, origAssSize)) = origAssSize
  <2> HIDE DEF called
  <2>1. \A k \in 1 .. origAssSize : called[k] \in Literals  BY <1>2, <1>3
  <2>2. 1 \in Int /\ origAssSize \in Int  BY <1>3
  <2>3. SubSeq(called, 1, origAssSize) \in Seq(Literals)
      BY <2>1, <2>2, SubSeqProperties
  <2>4. Len(SubSeq(called, 1, origAssSize)) =
            IF 1 <= origAssSize THEN origAssSize - 1 + 1 ELSE 0
      BY <2>1, <2>2, SubSeqProperties
  <2> QED  BY <2>3, <2>4, <1>3
<1>5. assumptions' \in {called, SubSeq(called, 1, origAssSize)}
    BY DEF SolveMember
<1>6. ret' \in {"true", "false", "undef"}
    BY DEF SolveMember, Answers
<1>7. /\ assumptions' \in Seq(Literals)
      /\ origAssSize' <= Len(assumptions')
  <2>1. origAssSize' = origAssSize  BY DEF SolveMember
  <2> HIDE DEF called
  <2>2. CASE assumptions' = called  BY <2>1, <2>2, <1>2, <1>3
  <2>3. CASE assumptions' = SubSeq(called, 1, origAssSize)
      BY <2>1, <2>3, <1>3, <1>4
  <2> QED  BY <2>2, <2>3, <1>5
<1>8. /\ \/ member' = 1 /\ pc' = "classify"
         \/ member' = member + 1 /\ pc' = "solve"
      /\ pc' = "solve" => grouped /\ member < Len(Group(testVar))
    BY DEF SolveMember
<1>9. pc = "solve" /\ testVar \in Vars  BY DEF SolveMember, PositionsOK, Testing
<1>10. TypeOK'
    BY <1>6, <1>7, <1>8 DEF SolveMember
<1>11. PositionsOK'
  <2>1. Group(testVar)' = Group(testVar) /\ testVar' = testVar
      BY DEF SolveMember, Group
  <2>2. pc' = "solve" => member' <= Len(Group(testVar)')
      BY <1>8, <2>1, GroupType
  <2> QED  BY <1>8, <1>9, <2>1, <2>2 DEF PositionsOK, Testing
<1> QED  BY <1>10, <1>11

LEMMA TClassify == TInv /\ Classify => TInv'
<1> SUFFICES ASSUME TInv, Classify  PROVE TInv'
    OBVIOUS
<1> USE DEF TInv, TypeOK, assVars, fillVars
<1>1. testVar \in Vars  BY DEF Classify, PositionsOK, Testing
<1>2. indep' \in Seq(Vars)
  <2>1. CASE ret = "false"  BY <2>1 DEF Classify
  <2>2. CASE ret # "false" /\ InGroup(testVar)
      BY <2>2, GroupType, ConcatProperties DEF Classify
  <2>3. CASE ret # "false" /\ ~ InGroup(testVar)
      BY <1>1, <2>3, AppendProperties DEF Classify
  <2> QED  BY <2>1, <2>2, <2>3
<1>3. iter' \in 0 .. (UpdatePeriod - 1)
    BY UpdatePeriodAssumption DEF Classify, EndIteration
<1>4. /\ pc' \in {"publish", "select"}
      /\ otherSamplingSet' \in Seq(Vars) /\ cursor' \in Nat \ {0}
  <2>1. \/ pc' = "publish" /\ otherSamplingSet' = <<>> /\ cursor' = 1
        \/ /\ pc' = "select" /\ otherSamplingSet' = otherSamplingSet
           /\ cursor' = cursor
      BY DEF Classify, EndIteration
  <2>2. <<>> \in Seq(Vars)  BY EmptySeq
  <2>3. CASE pc' = "publish" /\ otherSamplingSet' = <<>> /\ cursor' = 1
      BY ONLY <2>2, <2>3
  <2>4. CASE pc' = "select" /\ otherSamplingSet' = otherSamplingSet /\ cursor' = cursor
      BY <2>4
  <2> QED  BY <2>1, <2>3, <2>4
<1> QED  BY <1>2, <1>3, <1>4 DEF Classify, EndIteration, PositionsOK, Testing

LEMMA TPublishUnknown == TInv /\ PublishUnknown => TInv'
<1> SUFFICES ASSUME TInv, PublishUnknown  PROVE TInv'
    OBVIOUS
<1> USE DEF TInv, TypeOK, workVars, testVars, assVars, fillVars
<1>1. unknown[cursor] \in Vars  BY DEF PublishUnknown
<1>2. otherSamplingSet' \in Seq(Vars)  BY <1>1, AppendProperties DEF PublishUnknown
<1> QED  BY <1>2 DEF PublishUnknown, PositionsOK, Testing

LEMMA TPublishSwap == TInv /\ PublishSwap => TInv'
<1> SUFFICES ASSUME TInv, PublishSwap  PROVE TInv'
    OBVIOUS
<1> USE DEF TInv, TypeOK, workVars, loopVars, testVars, assVars, fillVars
<1>1. samplingSet' \in Seq(Vars)  BY ConcatProperties DEF PublishSwap
<1> QED  BY <1>1 DEF PublishSwap, PositionsOK, Testing

LEMMA TStutter == TInv /\ UNCHANGED vars => TInv'
BY DEF TInv, TypeOK, PositionsOK, Testing, AsGroup, InGroup, Mapped, Group, Candidate,
       vars, data, setVars, workVars, loopVars, testVars, assVars, fillVars

\* The failing steps only set pc.
LEMMA FailingSteps ==
    BuildFails \/ SelectFails \/ FillFails =>
        \E how \in {"abort", "wild"} : Fail(how)
<1>1. BuildFails => Fail("abort")  BY DEF BuildFails
<1>2. SelectFails => Fail("abort") \/ Fail("wild")  BY DEF SelectFails
<1>3. FillFails => Fail("abort") \/ Fail("wild")  BY DEF FillFails
<1> QED  BY <1>1, <1>2, <1>3

LEMMA TInvStep == TInv /\ [Next]_vars => TInv'
<1> SUFFICES ASSUME TInv, [Next]_vars  PROVE TInv'
    OBVIOUS
<1>1. CASE PushGroupMember  BY <1>1, TPushGroupMember
<1>2. CASE PushUngrouped  BY <1>2, TPushUngrouped
<1>3. CASE BuildFails \/ SelectFails \/ FillFails  BY <1>3, FailingSteps, TFail
<1>4. CASE SortUnknown  BY <1>4, TSortUnknown
<1>5. CASE SelectTest  BY <1>5, TSelectTest
<1>6. CASE SelectNone  BY <1>6, TSelectNone
<1>7. CASE FillIndep  BY <1>7, TFillIndep
<1>8. CASE FillNext  BY <1>8, TFillNext
<1>9. CASE FillEnd  BY <1>9, TFillEnd
<1>10. CASE SolveMember  BY <1>10, TSolveMember
<1>11. CASE Classify  BY <1>11, TClassify
<1>12. CASE PublishUnknown  BY <1>12, TPublishUnknown
<1>13. CASE PublishSwap  BY <1>13, TPublishSwap
<1>14. CASE UNCHANGED vars  BY <1>14, TStutter
<1> QED
  BY <1>1, <1>2, <1>3, <1>4, <1>5, <1>6, <1>7, <1>8, <1>9, <1>10, <1>11, <1>12,
     <1>13, <1>14 DEF Next, Step, Stopped

\* The round's data keep their types, on any input.
THEOREM TypeCorrect == Spec => []TypeOK
<1>1. TInv => TypeOK  BY DEF TInv
<1> QED  BY InitTInv, TInvStep, <1>1, PTL DEF Spec

-----------------------------------------------------------------------------
(* Groups that fit *)

\* Groups of variables of interest are closed under membership.
LEMMA ClosureFacts ==
    ASSUME TInv, GroupsFit, NEW v \in Closure
    PROVE  /\ v \in Vars /\ Mapped(v)
           /\ AsGroup(v) <=> InGroup(v)
           /\ v \in UnitOf(v) /\ UnitOf(v) \subseteq Closure
           /\ \A w \in UnitOf(v) : UnitOf(w) = UnitOf(v)
<1> PICK c \in Candidates : v \in UnitOf(c)  BY DEF Closure
<1>1. UnitOf(c) \subseteq Closure  BY DEF Closure
<1>2. v \in Vars
  <2>1. ProblemType(prob)  BY DEF TInv, TypeOK
  <2>2. c \in Vars  BY <2>1 DEF ProblemType, Candidates, Range
  <2> QED  BY <2>1, <2>2, GroupType DEF UnitOf
<1>3. CASE ~ InGroup(c)
  <2>1. v = c  BY <1>3 DEF UnitOf
  <2> QED  BY <1>1, <1>2, <1>3, <2>1 DEF UnitOf, GroupsFit, AsGroup
<1>4. CASE InGroup(c)
  <2>1. UnitOf(c) = Range(Group(c))  BY <1>4 DEF UnitOf
  <2>2. \A w \in UnitOf(c) : Mapped(w) /\ InGroup(w) /\ Group(w) = Group(c)
      BY <1>4, <2>1 DEF GroupsFit, InGroup, Group
  <2>3. \A w \in UnitOf(c) : UnitOf(w) = UnitOf(c)
      BY <2>1, <2>2 DEF UnitOf
  <2>4. prob.groupIndep  BY <1>4 DEF GroupsFit
  <2> QED  BY <1>1, <1>2, <2>2, <2>3, <2>4 DEF AsGroup
<1> QED  BY <1>3, <1>4

\* A group of interest, as the sequence the loops walk over.
LEMMA ClosureGroups ==
    ASSUME TInv, GroupsFit, NEW v \in Closure, InGroup(v)
    PROVE  /\ Group(v) \in Seq(Vars) /\ Len(Group(v)) \in Nat \ {0}
           /\ UnitOf(v) = Range(Group(v))
           /\ \A k, l \in 1 .. Len(Group(v)) : Group(v)[k] = Group(v)[l] => k = l
           /\ \E k \in 1 .. Len(Group(v)) : v = Group(v)[k]
           /\ \A k \in 1 .. Len(Group(v)) :
                  /\ Group(v)[k] \in UnitOf(v) /\ Group(v)[k] \in Closure
                  /\ InGroup(Group(v)[k]) /\ Group(Group(v)[k]) = Group(v)
                  /\ prob.groupOf[Group(v)[k]] = prob.groupOf[v]
<1>1. Group(v) \in Seq(Vars) /\ Len(Group(v)) \in Nat \ {0}
    BY GroupType DEF TInv, TypeOK
<1>2. DOMAIN Group(v) = 1 .. Len(Group(v))  BY <1>1
<1>3. UnitOf(v) = Range(Group(v))  BY DEF UnitOf
<1> PICK c \in Candidates : v \in UnitOf(c)  BY DEF Closure
<1>4. InGroup(c) /\ prob.groupOf[v] = prob.groupOf[c]
    BY DEF UnitOf, GroupsFit
<1>5. Group(v) = Group(c)  BY <1>4 DEF Group
<1>6. Distinct(Group(v))  BY <1>4, <1>5 DEF GroupsFit
<1>7. \A k \in 1 .. Len(Group(v)) :
         /\ Group(v)[k] \in Range(Group(c))
         /\ Mapped(Group(v)[k]) /\ prob.groupOf[Group(v)[k]] = prob.groupOf[c]
  <2> TAKE k \in 1 .. Len(Group(v))
  <2>1. Group(v)[k] \in Range(Group(c))  BY <1>2, <1>5 DEF Range
  <2> QED  BY <2>1, <1>4 DEF GroupsFit
<1>8. \A k \in 1 .. Len(Group(v)) :
         /\ Group(v)[k] \in UnitOf(v) /\ Group(v)[k] \in Closure
         /\ InGroup(Group(v)[k]) /\ Group(Group(v)[k]) = Group(v)
         /\ prob.groupOf[Group(v)[k]] = prob.groupOf[v]
  <2>1. UnitOf(v) \subseteq Closure  BY ClosureFacts
  <2> QED  BY <2>1, <1>3, <1>4, <1>5, <1>7 DEF InGroup, Group
<1>9. \E k \in 1 .. Len(Group(v)) : v = Group(v)[k]
  <2>1. v \in Range(Group(v))  BY <1>3, ClosureFacts
  <2> QED  BY <2>1, <1>2 DEF Range
<1> QED  BY <1>1, <1>2, <1>3, <1>6, <1>8, <1>9 DEF Distinct

\* A sequence of whole groups contains the unit of each of its variables.
LEMMA WholeClosed ==
    ASSUME TInv, GroupsFit, NEW s \in Seq(Vars), Range(s) \subseteq Closure,
           WholeUpTo(s, Len(s)), NEW v \in Range(s)
    PROVE  UnitOf(v) \subseteq Range(s)
<1>1. PICK k \in 1 .. Len(s) : v = s[k]  BY DEF Range
<1>2. CASE ~ InGroup(v)  BY <1>2 DEF UnitOf
<1>3. CASE InGroup(v)
  <2> DEFINE n == Len(Group(v))
  <2>1. PICK o \in 0 .. (k - 1) :
            /\ o + n <= Len(s)
            /\ \A p \in 1 .. n : s[o + p] = Group(v)[p]
      BY <1>1, <1>3 DEF WholeUpTo
  <2>2. v \in Closure  OBVIOUS
  <2>3. n \in Nat /\ UnitOf(v) = Range(Group(v)) /\ Group(v) \in Seq(Vars)
      BY <1>3, <2>2, ClosureGroups
  <2>4. \A p \in 1 .. n : Group(v)[p] \in Range(s)
    <3> TAKE p \in 1 .. n
    <3>1. o + p \in 1 .. Len(s)  BY <2>1, <2>3
    <3> QED  BY <2>1, <3>1 DEF Range
  <2> QED  BY <2>3, <2>4 DEF Range
<1> QED  BY <1>2, <1>3

\* Whole prefixes depend on the prefix only.
LEMMA WholePrefix ==
    ASSUME NEW s, NEW t, NEW n \in Nat, WholeUpTo(s, n),
           \A k \in 1 .. n : t[k] = s[k], TInv
    PROVE  WholeUpTo(t, n)
<1> SUFFICES ASSUME NEW k \in 1 .. n, InGroup(t[k])
             PROVE  \E o \in 0 .. (k - 1) :
                        /\ k <= o + Len(Group(t[k])) /\ o + Len(Group(t[k])) <= n
                        /\ \A p \in 1 .. Len(Group(t[k])) : t[o + p] = Group(t[k])[p]
    BY DEF WholeUpTo
<1>1. t[k] = s[k]  OBVIOUS
<1>2. PICK o \in 0 .. (k - 1) :
          /\ k <= o + Len(Group(s[k])) /\ o + Len(Group(s[k])) <= n
          /\ \A p \in 1 .. Len(Group(s[k])) : s[o + p] = Group(s[k])[p]
    BY <1>1 DEF WholeUpTo
<1>3. Len(Group(s[k])) \in Nat  BY <1>1, GroupType DEF TInv, TypeOK
<1>4. \A p \in 1 .. Len(Group(s[k])) : t[o + p] = Group(s[k])[p]
  <2> TAKE p \in 1 .. Len(Group(s[k]))
  <2>1. o + p \in 1 .. n  BY <1>2, <1>3
  <2> QED  BY <1>2, <2>1
<1> QED  BY <1>1, <1>2, <1>4

\* Appending a whole group, or an ungrouped variable, keeps a prefix whole.
LEMMA WholeAppendGroup ==
    ASSUME TInv, GroupsFit, NEW x \in Closure, InGroup(x),
           NEW s, NEW n \in Nat, WholeUpTo(s, n),
           \A p \in 1 .. Len(Group(x)) : s[n + p] = Group(x)[p]
    PROVE  WholeUpTo(s, n + Len(Group(x)))
<1> DEFINE g == Group(x)
           m == Len(g)
<1>1. /\ m \in Nat \ {0}
      /\ \A p \in 1 .. m : Group(g[p]) = g
    BY ClosureGroups
<1> SUFFICES ASSUME NEW k \in 1 .. (n + m), InGroup(s[k])
             PROVE  \E o \in 0 .. (k - 1) :
                        /\ k <= o + Len(Group(s[k])) /\ o + Len(Group(s[k])) <= n + m
                        /\ \A p \in 1 .. Len(Group(s[k])) : s[o + p] = Group(s[k])[p]
    BY DEF WholeUpTo
<1>2. CASE k <= n
  <2>1. k \in 1 .. n  BY <1>2
  <2>2. Len(Group(s[k])) \in Nat  BY GroupType DEF TInv, TypeOK
  <2>3. PICK o \in 0 .. (k - 1) :
            /\ k <= o + Len(Group(s[k])) /\ o + Len(Group(s[k])) <= n
            /\ \A p \in 1 .. Len(Group(s[k])) : s[o + p] = Group(s[k])[p]
      BY <2>1 DEF WholeUpTo
  <2>4. o + Len(Group(s[k])) <= n + m  BY <2>2, <2>3, <1>1
  <2> QED  BY <2>3, <2>4
<1>3. CASE ~ (k <= n)
  <2>1. (k - n) \in 1 .. m /\ n + (k - n) = k  BY <1>1, <1>3
  <2>2. s[k] = g[k - n]  BY <2>1
  <2>3. Group(s[k]) = g  BY <1>1, <2>1, <2>2
  <2>4. n \in 0 .. (k - 1)  BY <1>3
  <2>5. k <= n + m  BY <1>1
  <2> QED  BY <1>1, <2>3, <2>4, <2>5
<1> QED  BY <1>2, <1>3

LEMMA WholeAppendSingle ==
    ASSUME TInv, NEW s, NEW n \in Nat, WholeUpTo(s, n), ~ InGroup(s[n + 1])
    PROVE  WholeUpTo(s, n + 1)
<1> SUFFICES ASSUME NEW k \in 1 .. (n + 1), InGroup(s[k])
             PROVE  \E o \in 0 .. (k - 1) :
                        /\ k <= o + Len(Group(s[k])) /\ o + Len(Group(s[k])) <= n + 1
                        /\ \A p \in 1 .. Len(Group(s[k])) : s[o + p] = Group(s[k])[p]
    BY DEF WholeUpTo
<1>1. k \in 1 .. n  OBVIOUS
<1>2. Len(Group(s[k])) \in Nat  BY GroupType DEF TInv, TypeOK
<1>3. PICK o \in 0 .. (k - 1) :
          /\ k <= o + Len(Group(s[k])) /\ o + Len(Group(s[k])) <= n
          /\ \A p \in 1 .. Len(Group(s[k])) : s[o + p] = Group(s[k])[p]
    BY <1>1 DEF WholeUpTo
<1>4. o + Len(Group(s[k])) <= n + 1  BY <1>2, <1>3
<1> QED  BY <1>3, <1>4

\* In a duplicate-free sequence of whole groups, a group met first at position n + 1,
\* when the first n entries are whole, starts there.
LEMMA GroupStartsHere ==
    ASSUME TInv, GroupsFit, NEW s \in Seq(Vars), Range(s) \subseteq Closure,
           Distinct(s), WholeUpTo(s, Len(s)),
           NEW n \in 0 .. (Len(s) - 1), WholeUpTo(s, n), InGroup(s[n + 1])
    PROVE  /\ n + Len(Group(s[n + 1])) <= Len(s)
           /\ \A p \in 1 .. Len(Group(s[n + 1])) : s[n + p] = Group(s[n + 1])[p]
<1> DEFINE x == s[n + 1]
           g == Group(x)
           m == Len(g)
<1>1. n + 1 \in 1 .. Len(s)  OBVIOUS
<1>2. x \in Closure  BY <1>1 DEF Range
<1>3. /\ m \in Nat \ {0}
      /\ \A p \in 1 .. m : InGroup(g[p]) /\ Group(g[p]) = g
    BY <1>2, ClosureGroups
<1>4. PICK o \in 0 .. n :
          /\ n + 1 <= o + m /\ o + m <= Len(s)
          /\ \A p \in 1 .. m : s[o + p] = g[p]
  <2>1. (n + 1) - 1 = n  OBVIOUS
  <2> QED  BY <1>1, <2>1 DEF WholeUpTo
<1>5. o = n
  <2> SUFFICES ASSUME o < n  PROVE FALSE
      BY <1>4
  <2>1. n \in 1 .. n /\ n - o \in 1 .. m /\ o + (n - o) = n  BY <1>3, <1>4
  <2>2. s[n] = g[n - o]  BY <1>4, <2>1
  <2>3. InGroup(s[n]) /\ Group(s[n]) = g  BY <1>3, <2>1, <2>2
  <2> HIDE DEF g, m
  <2>4. PICK q \in 0 .. (n - 1) :
            /\ q + m <= n
            /\ \A p \in 1 .. m : s[q + p] = g[p]
    <3>1. \E q \in 0 .. (n - 1) :
              /\ n <= q + Len(Group(s[n])) /\ q + Len(Group(s[n])) <= n
              /\ \A p \in 1 .. Len(Group(s[n])) : s[q + p] = Group(s[n])[p]
        BY <2>1, <2>3 DEF WholeUpTo
    <3>2. Len(Group(s[n])) = m  BY <2>3 DEF m
    <3> QED  BY <3>1, <3>2, <2>3
  <2> DEFINE r == n + 1 - o
  <2>5. r \in 1 .. m /\ o + r = n + 1 /\ r >= 1  BY <1>3, <1>4
  <2> HIDE DEF r
  <2>6. s[q + r] = s[n + 1]  BY <1>4, <2>4, <2>5
  <2>7. q + r \in 1 .. n  BY <1>3, <2>4, <2>5
  <2>8. q + r \in DOMAIN s /\ n + 1 \in DOMAIN s /\ q + r # n + 1
      BY <1>1, <2>7
  <2> QED  BY <2>6, <2>8 DEF Distinct
<1> QED  BY <1>4, <1>5

\* What SelectTest pops is the unit of the last entry, and what it leaves is whole.
LEMMA LastUnit ==
    ASSUME TInv, GroupsFit, NEW s \in Seq(Vars), Range(s) \subseteq Closure,
           Distinct(s), WholeUpTo(s, Len(s)), s # <<>>
    PROVE  LET x == s[Len(s)]
               m == IF InGroup(x) THEN Len(Group(x)) ELSE 1
               q == Len(s) - m
           IN  /\ q \in 0 .. (Len(s) - 1)
               /\ { s[k] : k \in (q + 1) .. Len(s) } = UnitOf(x)
               /\ WholeUpTo(s, q)
<1> DEFINE x == s[Len(s)]
           m == IF InGroup(x) THEN Len(Group(x)) ELSE 1
           q == Len(s) - m
<1>1. Len(s) \in Nat \ {0} /\ Len(s) \in 1 .. Len(s)  BY EmptySeq
<1>2. x \in Closure  BY <1>1 DEF Range
<1>3. /\ m \in Nat \ {0} /\ q \in 0 .. (Len(s) - 1)
      /\ InGroup(x) => \A p \in 1 .. m : s[q + p] = Group(x)[p]
  <2>1. CASE ~ InGroup(x)  BY <1>1, <2>1
  <2>2. CASE InGroup(x)
    <3>1. m \in Nat \ {0}  BY <1>2, <2>2, ClosureGroups
    <3>2. PICK o \in 0 .. (Len(s) - 1) :
              /\ Len(s) <= o + m /\ o + m <= Len(s)
              /\ \A p \in 1 .. m : s[o + p] = Group(x)[p]
        BY <1>1, <2>2 DEF WholeUpTo
    <3>3. o = q  BY <1>1, <3>1, <3>2
    <3> QED  BY <3>1, <3>2, <3>3
  <2> QED  BY <2>1, <2>2
<1> HIDE DEF m, q
<1>4. { s[k] : k \in (q + 1) .. Len(s) } = UnitOf(x)
  <2>1. CASE ~ InGroup(x)
    <3>1. (q + 1) .. Len(s) = {Len(s)}  BY <1>1, <2>1 DEF q, m
    <3> QED  BY <2>1, <3>1 DEF UnitOf
  <2>2. CASE InGroup(x)
    <3>1. /\ UnitOf(x) = Range(Group(x)) /\ DOMAIN Group(x) = 1 .. m
        BY <1>2, <2>2, ClosureGroups DEF m
    <3>2. \A k \in (q + 1) .. Len(s) : s[k] \in UnitOf(x)
      <4> TAKE k \in (q + 1) .. Len(s)
      <4>1. k - q \in 1 .. m /\ q + (k - q) = k  BY <1>1, <1>3 DEF q
      <4>2. s[k] = Group(x)[k - q]  BY <1>3, <2>2, <4>1
      <4> QED  BY <3>1, <4>1, <4>2 DEF Range
    <3>3. \A v \in UnitOf(x) : \E k \in (q + 1) .. Len(s) : v = s[k]
      <4> TAKE v \in UnitOf(x)
      <4>1. PICK p \in 1 .. m : v = Group(x)[p]  BY <3>1 DEF Range
      <4>2. q + p \in (q + 1) .. Len(s)  BY <1>1, <1>3, <4>1 DEF q
      <4> QED  BY <1>3, <2>2, <4>1, <4>2
    <3> QED  BY <3>2, <3>3
  <2> QED  BY <2>1, <2>2
<1>5. WholeUpTo(s, q)
  <2> SUFFICES ASSUME NEW k \in 1 .. q, InGroup(s[k])
               PROVE  \E o \in 0 .. (k - 1) :
                          /\ k <= o + Len(Group(s[k])) /\ o + Len(Group(s[k])) <= q
                          /\ \A p \in 1 .. Len(Group(s[k])) : s[o + p] = Group(s[k])[p]
      BY DEF WholeUpTo
  <2> DEFINE g == Group(s[k])
  <2>1. k \in 1 .. Len(s) /\ s[k] \in Closure  BY <1>1, <1>3 DEF Range
  <2>2. Len(g) \in Nat \ {0}  BY <2>1, ClosureGroups
  <2>3. PICK o \in 0 .. (k - 1) :
            /\ k <= o + Len(g) /\ o + Len(g) <= Len(s)
            /\ \A p \in 1 .. Len(g) : s[o + p] = g[p]
      BY <2>1 DEF WholeUpTo
  <2>4. o + Len(g) <= q
    <3> HIDE DEF g
    <3> SUFFICES ASSUME o + Len(g) > q  PROVE FALSE
        BY <1>3, <2>2, <2>3
    <3> DEFINE r == q + 1 - o
    <3>1. r \in 1 .. Len(g) /\ o + r = q + 1
      <4>1. k \in 1 .. q /\ o \in 0 .. (k - 1) /\ Len(g) \in Nat /\ q \in Nat
          BY <1>1, <1>3, <2>2
      <4> QED  BY <4>1
    <3> HIDE DEF r
    <3>2. s[q + 1] = g[r]  BY <2>3, <3>1
    <3>3. g[r] \in UnitOf(s[k])  BY <2>1, <3>1, ClosureGroups DEF g
    <3>4. s[q + 1] \in UnitOf(x)
      <4>1. q + 1 \in (q + 1) .. Len(s)  BY <1>1, <1>3
      <4> QED  BY <1>4, <4>1
    <3>5. UnitOf(s[k]) = UnitOf(x)
        BY <1>2, <2>1, <3>2, <3>3, <3>4, ClosureFacts
    <3>6. s[k] \in UnitOf(x)  BY <2>1, <3>5, ClosureFacts
    <3>7. PICK l \in (q + 1) .. Len(s) : s[k] = s[l]  BY <1>4, <3>6
    <3>8. l \in 1 .. Len(s) /\ k # l  BY <1>1, <1>3, <3>7
    <3> QED  BY <2>1, <3>7, <3>8 DEF Distinct
  <2> QED  BY <2>3, <2>4
<1> QED  BY <1>3, <1>4, <1>5 DEF q, m

-----------------------------------------------------------------------------
(* The invariant, step by step *)

\* The input of the round never changes, nor does what is defined from it.
LEMMA ProbFixed ==
    ASSUME prob' = prob
    PROVE  /\ Closure' = Closure /\ Candidates' = Candidates
           /\ GroupsFit' <=> GroupsFit
           /\ WellFormed' <=> WellFormed
           /\ \A v : /\ InGroup(v)' <=> InGroup(v)
                     /\ Group(v)' = Group(v) /\ UnitOf(v)' = UnitOf(v)
           /\ \A s, n : WholeUpTo(s, n)' <=> WholeUpTo(s, n)
<1> USE DEF Closure, Candidates, InGroup, Mapped, Group, UnitOf
<1>1. GroupsFit' <=> GroupsFit  BY DEF GroupsFit
<1> QED  BY <1>1 DEF WellFormed, WholeUpTo

LEMMA CandidatesInClosure == GroupsFit => Candidates \subseteq Closure
BY DEF GroupsFit, Closure, UnitOf

LEMMA BeginRoundInv == ProblemType(prob) /\ Begin /\ GroupsFit => RoundInv
<1> SUFFICES ASSUME ProblemType(prob), Begin, GroupsFit  PROVE RoundInv
    OBVIOUS
<1>1. Range(unknown) = {} /\ Range(indep) = {}  BY DEF Begin, Range
<1>2. Len(unknown) = 0 /\ DOMAIN unknown = {} /\ DOMAIN indep = {}  BY DEF Begin
<1>3. PlacesInv
    BY <1>1, <1>2 DEF Begin, PlacesInv, Undropped, Distinct, Testing
<1>4. BuildInv
  <2>1. Len(samplingSet) \in Nat
      BY DEF Begin, ProblemType
  <2>2. WholeUpTo(unknown, Len(unknown))  BY <1>2 DEF WholeUpTo
  <2> QED  BY <2>1, <2>2 DEF Begin, BuildInv
<1>5. Defines(prob.models, Range(samplingSet), Candidates)
    BY DefinesRefl DEF Begin, Candidates
<1> QED  BY <1>3, <1>4, <1>5 DEF Begin, RoundInv

\* In the group loop, either the whole group is in `unknown` already, or exactly the
\* members before the current one are, at its end.
LEMMA GroupLoopState ==
    ASSUME TInv, GroupsFit, RoundInv, PushGroupMember
    PROVE  LET grp == Group(Candidate)
               before == Len(unknown) - (member - 1)
           IN  /\ Candidate \in Closure /\ InGroup(Candidate)
               /\ member \in 1 .. Len(grp)
               /\ \/ Range(grp) \subseteq unknownSet /\ WholeUpTo(unknown, Len(unknown))
                  \/ /\ before >= 0 /\ WholeUpTo(unknown, before)
                     /\ \A p \in 1 .. (member - 1) : unknown[before + p] = grp[p]
                     /\ \A p \in member .. Len(grp) : grp[p] \notin unknownSet
<1> DEFINE grp == Group(Candidate)
           before == Len(unknown) - (member - 1)
<1>1. BuildInv /\ PlacesInv /\ unknown \in Seq(Vars)
    BY DEF RoundInv, PushGroupMember, Building, TInv, TypeOK
<1>2. Candidate \in Closure /\ InGroup(Candidate)
  <2>1. cursor \in 1 .. Len(samplingSet)
      BY DEF PushGroupMember, Building, TInv, TypeOK
  <2>2. Candidate \in Candidates
      BY <1>1, <2>1 DEF BuildInv, Candidate, Candidates, Range, TInv, TypeOK
  <2> QED  BY <2>2, CandidatesInClosure DEF PushGroupMember, AsGroup
<1>3. member \in 1 .. Len(grp)
    BY <1>2, GroupType DEF PushGroupMember, Building, TInv, TypeOK, PositionsOK
<1>4. CASE member # 1
    BY <1>1, <1>2, <1>3, <1>4 DEF BuildInv
<1>5. CASE member = 1
  <2>1. WholeUpTo(unknown, Len(unknown))  BY <1>1, <1>5 DEF BuildInv
  <2>2. CASE \E p \in 1 .. Len(grp) : grp[p] \in unknownSet
    <3>1. PICK p \in 1 .. Len(grp) : grp[p] \in Range(unknown)
        BY <1>1, <2>2 DEF PlacesInv
    <3>2. UnitOf(grp[p]) = Range(grp)
      <4>1. UnitOf(Candidate) = Range(grp) /\ grp[p] \in UnitOf(Candidate)
          BY <1>2, ClosureGroups
      <4> QED  BY <1>2, <4>1, ClosureFacts
    <3>3. Range(unknown) \subseteq Closure  BY <1>1 DEF PlacesInv, Undropped
    <3>4. Range(grp) \subseteq unknownSet
        BY <1>1, <2>1, <3>1, <3>2, <3>3, WholeClosed DEF PlacesInv
    <3> QED  BY <1>2, <1>3, <2>1, <3>4
  <2>3. CASE \A p \in 1 .. Len(grp) : grp[p] \notin unknownSet
    <3>1. before = Len(unknown) /\ before >= 0 /\ 1 .. (member - 1) = {}
        BY <1>1, <1>5
    <3> QED  BY <1>2, <1>3, <1>5, <2>1, <2>3, <3>1
  <2> QED  BY <2>2, <2>3
<1> QED  BY <1>4, <1>5

LEMMA RPushGroupMember ==
    ASSUME TInv, GroupsFit, RoundInv, PushGroupMember
    PROVE  RoundInv'
<1> DEFINE grp == Group(Candidate)
           v == grp[member]
           before == Len(unknown) - (member - 1)
<1>1. /\ BuildInv /\ PlacesInv /\ pc = "build" /\ pc' = pc /\ prob' = prob
      /\ samplingSet' = samplingSet /\ indep' = indep
    BY DEF RoundInv, PushGroupMember, Building, setVars
<1>2. /\ unknown \in Seq(Vars) /\ cursor \in 1 .. Len(samplingSet)
      /\ Len(samplingSet) \in Nat /\ Len(unknown) \in Nat /\ member \in Nat
    BY DEF TInv, TypeOK, PushGroupMember, Building
<1>3. /\ Candidate \in Closure /\ InGroup(Candidate) /\ member \in 1 .. Len(grp)
    BY GroupLoopState
<1>4. /\ Len(grp) \in Nat /\ v \in Closure /\ v \in Vars /\ InGroup(v)
      /\ DOMAIN grp = 1 .. Len(grp)
      /\ \A k, l \in 1 .. Len(grp) : grp[k] = grp[l] => k = l
      /\ Candidate \in Range(grp)
  <2>1. /\ grp \in Seq(Vars) /\ Candidate \in UnitOf(Candidate)
        /\ UnitOf(Candidate) = Range(grp)
      BY <1>3, ClosureGroups, ClosureFacts
  <2> QED  BY <1>3, <2>1, ClosureGroups, ClosureFacts
<1>5. IF member < Len(grp)
      THEN member' = member + 1 /\ cursor' = cursor
      ELSE member' = 1 /\ cursor' = cursor + 1
    BY DEF PushGroupMember
<1>6. /\ unknown' = IF v \in unknownSet THEN unknown ELSE Append(unknown, v)
      /\ unknownSet' = unknownSet \cup {v}
    BY DEF PushGroupMember
<1> HIDE DEF grp, v, before
<1>7. CASE Range(grp) \subseteq unknownSet /\ WholeUpTo(unknown, Len(unknown))
  <2>1. v \in unknownSet /\ Candidate \in unknownSet
      BY <1>3, <1>4, <1>7 DEF Range, v
  <2>2. unknown' = unknown /\ unknownSet' = unknownSet  BY <1>6, <2>1
  <2>3. PlacesInv'
      BY <1>1, <2>2, ProbFixed DEF PlacesInv, Undropped, Testing
  <2>4. BuildInv'
    <3>1. WholeUpTo(unknown, Len(unknown))'  BY <1>1, <1>7, <2>2, ProbFixed
    <3>2. CASE member < Len(grp)
      <4>1. member' # 1 /\ cursor' = cursor /\ Candidate' = Candidate
          BY <1>1, <1>3, <1>5, <3>2 DEF Candidate
      <4>2. AsGroup(Candidate)' /\ Group(Candidate)' = grp
        <5>1. AsGroup(Candidate)  BY DEF PushGroupMember
        <5> QED  BY <1>1, <4>1, <5>1, ProbFixed DEF grp, AsGroup
      <4>3. \A w \in unknownSet' : ~ InGroup(w)' =>
               \E k \in 1 .. (cursor' - 1) : samplingSet'[k] = w
          BY <1>1, <2>2, <4>1, ProbFixed DEF BuildInv
      <4>4. \A k \in 1 .. (cursor' - 1) : samplingSet'[k] \in unknownSet'
          BY <1>1, <2>2, <4>1 DEF BuildInv
      <4> QED  BY <1>1, <1>2, <1>7, <2>2, <3>1, <4>1, <4>2, <4>3, <4>4, ProbFixed DEF BuildInv
    <3>3. CASE ~ (member < Len(grp))
      <4>1. member' = 1 /\ cursor' = cursor + 1  BY <1>5, <3>3
      <4>2. \A k \in 1 .. (cursor' - 1) : samplingSet'[k] \in unknownSet'
          BY <1>1, <1>2, <2>1, <2>2, <4>1 DEF BuildInv, Candidate
      <4>3. \A w \in unknownSet' : ~ InGroup(w)' =>
               \E k \in 1 .. (cursor' - 1) : samplingSet'[k] = w
          BY <1>1, <1>2, <2>2, <4>1, ProbFixed DEF BuildInv
      <4> QED  BY <1>1, <1>2, <3>1, <4>1, <4>2, <4>3, ProbFixed DEF BuildInv
    <3> QED  BY <3>2, <3>3
  <2> QED  BY <1>1, <2>3, <2>4, ProbFixed DEF RoundInv
<1>8. CASE /\ before >= 0 /\ WholeUpTo(unknown, before)
           /\ \A p \in 1 .. (member - 1) : unknown[before + p] = grp[p]
           /\ \A p \in member .. Len(grp) : grp[p] \notin unknownSet
  <2>1. v \notin unknownSet  BY <1>3, <1>4, <1>8 DEF v
  <2>2. /\ unknown' \in Seq(Vars) /\ Len(unknown') = Len(unknown) + 1
        /\ \A k \in 1 .. Len(unknown) : unknown'[k] = unknown[k]
        /\ unknown'[Len(unknown) + 1] = v
      BY <1>2, <1>4, <1>6, <2>1, AppendProperties
  <2>3. Range(unknown') = Range(unknown) \cup {v}
      BY <1>2, <2>2 DEF Range
  <2>4. Distinct(unknown')
    <3>1. v \notin Range(unknown)  BY <1>1, <2>1 DEF PlacesInv
    <3>2. \A k \in 1 .. Len(unknown) : unknown[k] # v  BY <1>2, <3>1 DEF Range
    <3>3. \A k, l \in 1 .. Len(unknown) : unknown[k] = unknown[l] => k = l
        BY <1>1, <1>2 DEF PlacesInv, Distinct
    <3> QED  BY <1>2, <2>2, <3>2, <3>3 DEF Distinct
  <2>5. PlacesInv'
    <3>1. Range(indep) = {}  BY <1>1 DEF BuildInv, Range
    <3> QED  BY <1>1, <1>4, <1>6, <2>3, <2>4, <3>1, ProbFixed DEF PlacesInv, Undropped, Testing
  <2>6. before \in Nat /\ before + member = Len(unknown) + 1
      BY <1>2, <1>3, <1>4, <1>8 DEF before
  <2>7. WholeUpTo(unknown', before)
    <3>1. \A k \in 1 .. before : unknown'[k] = unknown[k]
        BY <1>2, <1>3, <1>4, <2>2, <2>6
    <3> QED  BY <1>8, <2>6, <3>1, WholePrefix
  <2>8. \A p \in 1 .. member : unknown'[before + p] = grp[p]
    <3> TAKE p \in 1 .. member
    <3>1. CASE p = member  BY <2>2, <2>6, <3>1 DEF v
    <3>2. CASE p # member
      <4>1. p \in 1 .. (member - 1) /\ before + p \in 1 .. Len(unknown)
          BY <1>2, <1>3, <1>4, <2>6, <3>2
      <4> QED  BY <1>8, <2>2, <4>1
    <3> QED  BY <3>1, <3>2
  <2>9. BuildInv'
    <3>1. CASE member < Len(grp)
      <4>1. /\ member' = member + 1 /\ member' # 1
            /\ cursor' = cursor /\ Candidate' = Candidate
          BY <1>1, <1>3, <1>5, <3>1 DEF Candidate
      <4>2. AsGroup(Candidate)' /\ Group(Candidate)' = grp
        <5>1. AsGroup(Candidate)  BY DEF PushGroupMember
        <5> QED  BY <1>1, <4>1, <5>1, ProbFixed DEF grp, AsGroup
      <4>3. \A w \in unknownSet' : ~ InGroup(w)' =>
               \E k \in 1 .. (cursor' - 1) : samplingSet'[k] = w
          BY <1>1, <1>4, <1>6, <4>1, ProbFixed DEF BuildInv
      <4>4. \A k \in 1 .. (cursor' - 1) : samplingSet'[k] \in unknownSet'
          BY <1>1, <1>6, <4>1 DEF BuildInv
      <4>5. Len(unknown') - (member' - 1) = before
          BY <1>2, <1>3, <1>4, <2>2, <2>6, <4>1
      <4>6. \A p \in 1 .. (member' - 1) : unknown'[before + p] = grp[p]
          BY <1>3, <1>4, <2>8, <4>1
      <4>7. \A p \in member' .. Len(grp) : grp[p] \notin unknownSet'
        <5> TAKE p \in member' .. Len(grp)
        <5>1. p \in member .. Len(grp) /\ p # member /\ p \in 1 .. Len(grp)
            BY <1>3, <1>4, <4>1
        <5>2. grp[p] # v  BY <1>3, <1>4, <5>1 DEF v
        <5> QED  BY <1>6, <1>8, <5>1, <5>2
      <4>8. PICK b \in Nat : b = before
          BY <2>6
      <4>9. /\ Len(unknown') - (member' - 1) = b /\ WholeUpTo(unknown', b)
            /\ \A p \in 1 .. (member' - 1) : unknown'[b + p] = grp[p]
          BY <2>7, <4>5, <4>6, <4>8
      <4>10. WholeUpTo(unknown, Len(unknown) - (member - 1))'
          BY <1>1, <4>9, ProbFixed
      <4>11. LET g == Group(Candidate)'
                 before_2 == Len(unknown') - (member' - 1)
             IN  /\ before_2 >= 0 /\ WholeUpTo(unknown, Len(unknown) - (member - 1))'
                 /\ \A p \in 1 .. (member' - 1) : unknown'[before_2 + p] = g[p]
                 /\ \A p \in member' .. Len(g) : g[p] \notin unknownSet'
          BY <4>2, <4>7, <4>9, <4>10
      <4>12. cursor' <= Len(samplingSet') + 1 /\ cursor' <= Len(samplingSet')
          BY <1>1, <1>2, <4>1
      <4>13. samplingSet' = prob.sampling' /\ indep' = <<>>
          BY <1>1 DEF BuildInv
      <4> QED
        BY <4>1, <4>2, <4>3, <4>4, <4>11, <4>12, <4>13 DEF BuildInv
    <3>2. CASE ~ (member < Len(grp))
      <4>1. member' = 1 /\ cursor' = cursor + 1 /\ member = Len(grp)
        <5>1. member \in Nat /\ Len(grp) \in Nat /\ member <= Len(grp)
            BY <1>2, <1>3, <1>4
        <5>2. member = Len(grp)  BY <3>2, <5>1
        <5> QED  BY <1>5, <3>2, <5>2
      <4>2. Range(grp) \subseteq unknownSet'
        <5>1. \A p \in 1 .. Len(grp) : grp[p] \in Range(unknown')
          <6> TAKE p \in 1 .. Len(grp)
          <6>1. before + p \in 1 .. Len(unknown')  BY <1>2, <1>4, <2>2, <2>6, <4>1
          <6> QED  BY <2>2, <2>8, <4>1, <6>1 DEF Range
        <5> QED  BY <1>4, <2>5, <5>1 DEF Range, PlacesInv
      <4>3. \A k \in 1 .. (cursor' - 1) : samplingSet'[k] \in unknownSet'
        <5>1. samplingSet[cursor] \in unknownSet'  BY <1>4, <4>2 DEF Candidate
        <5> QED  BY <1>1, <1>2, <1>6, <4>1, <5>1 DEF BuildInv
      <4>4. \A w \in unknownSet' : ~ InGroup(w)' =>
               \E k \in 1 .. (cursor' - 1) : samplingSet'[k] = w
          BY <1>1, <1>2, <1>4, <1>6, <4>1, ProbFixed DEF BuildInv
      <4>5. WholeUpTo(unknown', before + Len(grp))
          BY <1>3, <2>6, <2>7, <2>8, <4>1, WholeAppendGroup DEF grp
      <4>6. before + Len(grp) = Len(unknown')  BY <2>2, <2>6, <4>1
      <4> QED  BY <1>1, <1>2, <4>1, <4>3, <4>4, <4>5, <4>6, ProbFixed DEF BuildInv
    <3> QED  BY <3>1, <3>2
  <2> QED  BY <1>1, <2>5, <2>9, ProbFixed DEF RoundInv
<1> QED  BY <1>7, <1>8, GroupLoopState DEF grp, before

\* The candidate of a step that is not part of a group loop.
LEMMA UngroupedCandidate ==
    ASSUME TInv, GroupsFit, RoundInv, Building, ~ AsGroup(Candidate)
    PROVE  /\ Candidate \in Closure /\ ~ InGroup(Candidate) /\ Mapped(Candidate)
           /\ Candidate \in Vars /\ member = 1 /\ Candidate \notin unknownSet
           /\ cursor \in 1 .. Len(samplingSet)
<1>1. BuildInv /\ pc = "build"  BY DEF RoundInv, Building
<1>2. cursor \in 1 .. Len(samplingSet) /\ samplingSet = prob.sampling
    BY <1>1 DEF Building, BuildInv, TInv, TypeOK
<1>3. Candidate \in Candidates
    BY <1>2 DEF Candidate, Candidates, Range, TInv, TypeOK
<1>4. Candidate \in Closure /\ Mapped(Candidate)
    BY <1>3, CandidatesInClosure DEF GroupsFit
<1>5. ~ InGroup(Candidate) /\ Candidate \in Vars
    BY <1>4, ClosureFacts
<1>6. member = 1  BY <1>1 DEF BuildInv
<1>7. Candidate \notin unknownSet
  <2> SUFFICES ASSUME Candidate \in unknownSet  PROVE FALSE
      OBVIOUS
  <2>1. PICK k \in 1 .. (cursor - 1) : samplingSet[k] = Candidate
      BY <1>1, <1>5 DEF BuildInv
  <2>2. k \in DOMAIN prob.sampling /\ cursor \in DOMAIN prob.sampling /\ k # cursor
      BY <1>2, <2>1 DEF TInv, TypeOK
  <2>3. prob.sampling[k] = prob.sampling[cursor] /\ ~ InGroup(prob.sampling[k])
      BY <1>2, <1>5, <2>1 DEF Candidate
  <2> QED  BY <2>2, <2>3 DEF GroupsFit
<1> QED  BY <1>2, <1>4, <1>5, <1>6, <1>7

LEMMA NoBuildFails ==
    ASSUME TInv, GroupsFit, RoundInv  PROVE ~ BuildFails
BY UngroupedCandidate DEF BuildFails

LEMMA RPushUngrouped ==
    ASSUME TInv, GroupsFit, RoundInv, PushUngrouped
    PROVE  RoundInv'
<1> DEFINE v == Candidate
<1>1. /\ BuildInv /\ PlacesInv /\ pc = "build" /\ pc' = pc /\ prob' = prob
      /\ samplingSet' = samplingSet /\ indep' = indep /\ member' = member
      /\ cursor' = cursor + 1
      /\ unknown' = Append(unknown, v) /\ unknownSet' = unknownSet \cup {v}
    BY DEF RoundInv, PushUngrouped, Building, setVars
<1>2. /\ v \in Closure /\ ~ InGroup(v) /\ v \in Vars /\ member = 1
      /\ v \notin unknownSet /\ cursor \in 1 .. Len(samplingSet)
      /\ Len(samplingSet) \in Nat
    BY UngroupedCandidate DEF PushUngrouped, TInv, TypeOK
<1>3. v = samplingSet[cursor]  BY DEF Candidate
<1> HIDE DEF v
<1>4. /\ unknown \in Seq(Vars) /\ Len(unknown) \in Nat
      /\ unknown' \in Seq(Vars) /\ Len(unknown') = Len(unknown) + 1
      /\ \A k \in 1 .. Len(unknown) : unknown'[k] = unknown[k]
      /\ unknown'[Len(unknown) + 1] = v
  <2>1. unknown \in Seq(Vars) /\ Len(unknown) \in Nat  BY DEF TInv, TypeOK
  <2> QED  BY <1>1, <1>2, <2>1, AppendProperties
<1>5. Range(unknown') = Range(unknown) \cup {v}  BY <1>4 DEF Range
<1>6. Distinct(unknown')
  <2>1. v \notin Range(unknown)  BY <1>1, <1>2 DEF PlacesInv
  <2>2. \A k \in 1 .. Len(unknown) : unknown[k] # v  BY <1>4, <2>1 DEF Range
  <2>3. \A k, l \in 1 .. Len(unknown) : unknown[k] = unknown[l] => k = l
      BY <1>1, <1>4 DEF PlacesInv, Distinct
  <2> QED  BY <1>4, <2>2, <2>3 DEF Distinct
<1>7. PlacesInv'
  <2>1. Range(indep) = {}  BY <1>1 DEF BuildInv, Range
  <2> QED  BY <1>1, <1>2, <1>5, <1>6, <2>1, ProbFixed DEF PlacesInv, Undropped, Testing
<1>8. BuildInv'
  <2>1. WholeUpTo(unknown', Len(unknown) + 1)
    <3>1. WholeUpTo(unknown, Len(unknown))  BY <1>1, <1>2 DEF BuildInv
    <3>2. WholeUpTo(unknown', Len(unknown))  BY <1>4, <3>1, WholePrefix
    <3> QED  BY <1>2, <1>4, <3>2, WholeAppendSingle
  <2>2. WholeUpTo(unknown, Len(unknown))'  BY <1>1, <1>4, <2>1, ProbFixed
  <2>3. \A w \in unknownSet' : ~ InGroup(w)' =>
           \E k \in 1 .. (cursor' - 1) : samplingSet'[k] = w
      BY <1>1, <1>2, <1>3, ProbFixed DEF BuildInv
  <2>4. \A k \in 1 .. (cursor' - 1) : samplingSet'[k] \in unknownSet'
      BY <1>1, <1>2, <1>3 DEF BuildInv
  <2>5. /\ samplingSet' = prob.sampling' /\ indep' = <<>>
        /\ cursor' <= Len(samplingSet') + 1
      BY <1>1, <1>2 DEF BuildInv
  <2>6. member' = 1  BY <1>1, <1>2
  <2> QED  BY <2>2, <2>3, <2>4, <2>5, <2>6 DEF BuildInv
<1> QED  BY <1>1, <1>7, <1>8, ProbFixed DEF RoundInv

LEMMA RSortUnknown ==
    ASSUME TInv, GroupsFit, RoundInv, SortUnknown
    PROVE  RoundInv'
<1>1. /\ BuildInv /\ PlacesInv /\ pc = "build" /\ pc' = "select" /\ prob' = prob
      /\ samplingSet' = samplingSet /\ indep' = indep /\ unknownSet' = unknownSet
      /\ cursor = Len(samplingSet) + 1 /\ Len(samplingSet) \in Nat
      /\ unknown \in Seq(Vars) /\ Len(unknown) \in Nat
    BY DEF RoundInv, SortUnknown, BuildInv, TInv, TypeOK, setVars
<1>2. WholeUpTo(unknown, Len(unknown)) /\ Range(unknown) = unknownSet
  <2>1. member = 1  BY <1>1 DEF BuildInv
  <2> QED  BY <1>1, <2>1 DEF BuildInv, PlacesInv
<1>3. Candidates \subseteq Range(unknown)
  <2>1. \A k \in 1 .. Len(samplingSet) : samplingSet[k] \in unknownSet
      BY <1>1 DEF BuildInv
  <2>2. Candidates = Range(samplingSet)  BY <1>1 DEF BuildInv, Candidates
  <2>3. samplingSet \in Seq(Vars)  BY DEF TInv, TypeOK
  <2> QED  BY <1>2, <2>1, <2>2, <2>3 DEF Range
<1>4. /\ Range(unknown') = Range(unknown) /\ Distinct(unknown')
      /\ WholeUpTo(unknown', Len(unknown'))
  <2>1. CASE prob.groupIndep
      BY <1>1, <1>2, <2>1 DEF SortUnknown, PlacesInv
  <2>2. CASE ~ prob.groupIndep
    <3> DEFINE n == Len(unknown)
    <3>1. PICK p \in [1 .. n -> 1 .. n] :
             /\ Distinct(p) /\ Range(p) = DOMAIN p
             /\ unknown' = [k \in 1 .. n |-> unknown[p[k]]]
        BY <2>2 DEF SortUnknown
    <3>2. DOMAIN unknown = 1 .. n /\ DOMAIN unknown' = 1 .. n /\ DOMAIN p = 1 .. n
        BY <1>1, <3>1
    <3>3. Range(unknown') = Range(unknown)
      <4>1. \A k \in 1 .. n : \E l \in 1 .. n : p[l] = k
          BY <3>1, <3>2 DEF Range
      <4> QED  BY <3>1, <3>2, <4>1 DEF Range
    <3>4. Distinct(unknown')
      <4> SUFFICES ASSUME NEW k \in 1 .. n, NEW l \in 1 .. n, unknown'[k] = unknown'[l]
                   PROVE  k = l
          BY <3>2 DEF Distinct
      <4>1. p[k] \in 1 .. n /\ p[l] \in 1 .. n /\ unknown[p[k]] = unknown[p[l]]
          BY <3>1
      <4>2. p[k] = p[l]  BY <1>1, <3>2, <4>1 DEF Distinct, PlacesInv
      <4> QED  BY <3>1, <3>2, <4>2 DEF Distinct
    <3>5. \A k \in 1 .. n : ~ InGroup(unknown'[k])
      <4> TAKE k \in 1 .. n
      <4>1. unknown'[k] \in Closure
          BY <1>1, <3>2, <3>3 DEF Range, PlacesInv, Undropped
      <4> QED  BY <2>2, <4>1, ClosureFacts DEF AsGroup
    <3>6. unknown' \in Seq(Vars) /\ Len(unknown') = n
      <4>1. \A k \in 1 .. n : unknown[p[k]] \in Vars
          BY <1>1, <3>1, <3>2, ElementOfSeq
      <4>2. unknown' \in [1 .. n -> Vars]  BY <3>1, <4>1
      <4> QED  BY <1>1, <4>2, FunctionIsSeq
    <3> QED  BY <3>3, <3>4, <3>5, <3>6 DEF WholeUpTo
  <2> QED  BY <2>1, <2>2
<1>5. PlacesInv'
  <2>1. WholeUpTo(unknown, Len(unknown))'  BY <1>1, <1>4, ProbFixed
  <2> QED  BY <1>1, <1>2, <1>4, <2>1, ProbFixed DEF PlacesInv, Undropped, Testing
<1>6. SupportInv'
  <2>1. Closure' \subseteq Undropped'
    <3>1. \A c \in Candidates : UnitOf(c) \subseteq Range(unknown)
        BY <1>1, <1>2, <1>3, WholeClosed DEF PlacesInv, Undropped
    <3>2. Closure \subseteq Range(unknown)  BY <3>1 DEF Closure
    <3> QED  BY <1>1, <1>4, <3>2, ProbFixed DEF Undropped
  <2> QED  BY <1>1, <2>1, DefinesRefl DEF SupportInv, Testing
<1> QED  BY <1>1, <1>5, <1>6, ProbFixed DEF RoundInv

\* Selection: what is popped with the last unknown is its unit.
LEMMA SelectedUnit ==
    ASSUME TInv, GroupsFit, RoundInv, Selecting
    PROVE  /\ LastVar \in Closure /\ LastVar \in unknownSet /\ Mapped(LastVar)
           /\ FirstTaken \in 1 .. Len(unknown) /\ Len(unknown) \in Nat
           /\ Taken = UnitOf(LastVar)
           /\ WholeUpTo(unknown, FirstTaken - 1)
           /\ TakenAreGroup
<1>1. /\ PlacesInv /\ unknown \in Seq(Vars) /\ unknown # <<>>
      /\ WholeUpTo(unknown, Len(unknown)) /\ Range(unknown) \subseteq Closure
      /\ Distinct(unknown) /\ unknownSet = Range(unknown)
    BY DEF Selecting, RoundInv, PlacesInv, Undropped, TInv, TypeOK
<1>2. Len(unknown) \in 1 .. Len(unknown) /\ Len(unknown) \in Nat  BY <1>1, EmptySeq
<1>3. LastVar \in Range(unknown)  BY <1>1, <1>2 DEF LastVar, Range
<1> DEFINE m == IF InGroup(LastVar) THEN Len(Group(LastVar)) ELSE 1
           q == Len(unknown) - m
<1>4. /\ q \in 0 .. (Len(unknown) - 1)
      /\ { unknown[k] : k \in (q + 1) .. Len(unknown) } = UnitOf(LastVar)
      /\ WholeUpTo(unknown, q)
    BY <1>1, LastUnit DEF LastVar
<1>5. m \in Nat
    BY <1>1, <1>3, ClosureGroups
<1>6. FirstTaken = Len(unknown) + 1 - m  BY DEF FirstTaken
<1> HIDE DEF m
<1>7. FirstTaken = q + 1 /\ FirstTaken - 1 = q  BY <1>2, <1>5, <1>6
<1> HIDE DEF q
<1>8. FirstTaken \in 1 .. Len(unknown)  BY <1>2, <1>4, <1>7
<1>9. Taken = UnitOf(LastVar)  BY <1>4, <1>7 DEF Taken
<1>10. Mapped(LastVar)  BY <1>1, <1>3, ClosureFacts
<1>11. TakenAreGroup
  <2>1. Taken \subseteq unknownSet  BY <1>1, <1>2, <1>8 DEF Taken, Range
  <2>2. \A v \in Taken : Mapped(v) /\ prob.groupOf[v] = prob.groupOf[LastVar]
    <3> TAKE v \in Taken
    <3>1. v \in Closure  BY <1>1, <2>1
    <3>2. CASE ~ InGroup(LastVar)  BY <1>9, <1>10, <3>2 DEF UnitOf
    <3>3. CASE InGroup(LastVar)
      <4>1. PICK k \in 1 .. Len(Group(LastVar)) : v = Group(LastVar)[k]
          BY <1>1, <1>3, <1>9, <3>3, ClosureGroups DEF Range
      <4> QED  BY <1>1, <1>3, <3>1, <3>3, <4>1, ClosureGroups, ClosureFacts
    <3> QED  BY <3>2, <3>3
  <2>3. ASSUME NEW k \in FirstTaken .. (Len(unknown) - 1)
        PROVE  Fits(k) /\ unknown[k] # LastVar
    <3>1. k \in 1 .. Len(unknown) /\ k # Len(unknown)  BY <1>2, <1>8
    <3>2. unknown[k] \in Taken  BY <1>2, <1>8 DEF Taken
    <3>3. \A l \in (k + 1) .. (Len(unknown) - 1) : unknown[l] # unknown[k]
      BY <1>1, <1>2, <3>1 DEF Distinct
    <3>4. unknown[k] # LastVar  BY <1>1, <1>2, <3>1 DEF Distinct, LastVar
    <3> QED  BY <2>1, <2>2, <3>2, <3>3, <3>4 DEF Fits
  <2> QED  BY <1>8, <2>3 DEF TakenAreGroup
<1> QED  BY <1>1, <1>2, <1>3, <1>4, <1>7, <1>8, <1>9, <1>10, <1>11

LEMMA NoSelectFails ==
    ASSUME TInv, GroupsFit, RoundInv  PROVE ~ SelectFails
BY SelectedUnit DEF SelectFails

LEMMA RSelectTest ==
    ASSUME TInv, GroupsFit, RoundInv, SelectTest
    PROVE  RoundInv'
<1>1. /\ PlacesInv /\ SupportInv /\ pc = "select" /\ Selecting /\ prob' = prob
      /\ Defines(prob.models, Range(samplingSet), Candidates)
      /\ samplingSet' = samplingSet /\ indep' = indep
      /\ unknown \in Seq(Vars) /\ Len(unknown) \in Nat
    BY DEF RoundInv, SelectTest, Selecting, TInv, TypeOK, setVars
<1> DEFINE q == FirstTaken - 1
           x == LastVar
<1>2. /\ x \in Closure /\ x \in unknownSet
      /\ FirstTaken \in 1 .. Len(unknown) /\ Taken = UnitOf(x)
      /\ WholeUpTo(unknown, q)
    BY <1>1, SelectedUnit
<1>3. /\ testVar' = x /\ pc' = "fillIndep" /\ unknownSet' = unknownSet \ Taken
      /\ unknown' = SubSeq(unknown, 1, q)
    BY <1>2 DEF SelectTest
<1>4. q \in 0 .. (Len(unknown) - 1) /\ q + 1 = FirstTaken  BY <1>1, <1>2
<1>5. Taken = { unknown[k] : k \in (q + 1) .. Len(unknown) }
    BY <1>4 DEF Taken
<1> HIDE DEF q, x
<1>6. /\ unknown' \in Seq(Vars) /\ Len(unknown') = q
      /\ \A k \in 1 .. q : unknown'[k] = unknown[k]
    BY <1>1, <1>3, <1>4, SubSeqProperties
<1>7. Range(unknown') = Range(unknown) \ Taken
  <2>1. \A k \in 1 .. q, l \in (q + 1) .. Len(unknown) : unknown[k] # unknown[l]
      BY <1>1, <1>4 DEF PlacesInv, Distinct
  <2>2. \A k \in 1 .. Len(unknown) : k \in 1 .. q \/ k \in (q + 1) .. Len(unknown)
      BY <1>1, <1>4
  <2>3. \A k \in 1 .. q : k \in 1 .. Len(unknown)  BY <1>1, <1>4
  <2>4. DOMAIN unknown = 1 .. Len(unknown) /\ DOMAIN unknown' = 1 .. q
      BY <1>1, <1>6
  <2>5. ASSUME NEW v \in Range(unknown')  PROVE v \in Range(unknown) /\ v \notin Taken
      BY <1>5, <1>6, <2>1, <2>3, <2>4, <2>5 DEF Range
  <2>6. ASSUME NEW v \in Range(unknown), v \notin Taken  PROVE v \in Range(unknown')
      BY <1>5, <1>6, <2>2, <2>4, <2>6 DEF Range
  <2> QED  BY <2>5, <2>6
<1>8. Taken \subseteq Range(unknown)
    BY <1>1, <1>4, <1>5 DEF Range
<1>9. PlacesInv'
  <2>1. Distinct(unknown')
      BY <1>1, <1>4, <1>6 DEF PlacesInv, Distinct
  <2>2. WholeUpTo(unknown', q)  BY <1>2, <1>4, <1>6, WholePrefix DEF q
  <2>3. WholeUpTo(unknown, Len(unknown))'  BY <1>1, <1>6, <2>2, ProbFixed
  <2>4. UnitOf(testVar)' = Taken  BY <1>1, <1>2, <1>3, ProbFixed
  <2>5. Taken \cap Undropped' = {}
      BY <1>1, <1>7, <1>8 DEF PlacesInv, Undropped
  <2>6. Undropped' \subseteq Closure'
      BY <1>1, <1>7, ProbFixed DEF PlacesInv, Undropped
  <2>7. testVar' \in Closure'  BY <1>1, <1>2, <1>3, ProbFixed
  <2>8. unknownSet' = Range(unknown')  BY <1>1, <1>3, <1>7 DEF PlacesInv
  <2>9. Range(indep') \cap Range(unknown') = {} /\ Distinct(indep')
      BY <1>1, <1>7 DEF PlacesInv
  <2>10. \A v \in Range(indep') : UnitOf(v)' \subseteq Range(indep')
      BY <1>1, ProbFixed DEF PlacesInv
  <2> QED
    BY <2>1, <2>3, <2>4, <2>5, <2>6, <2>7, <2>8, <2>9, <2>10 DEF PlacesInv
<1>10. SupportInv'
  <2>1. UnitOf(testVar)' = Taken  BY <1>1, <1>2, <1>3, ProbFixed
  <2>2. Undropped' \cup Taken = Undropped
      BY <1>1, <1>7, <1>8 DEF Undropped
  <2>3. Defines(prob.models, Undropped, Closure)
      BY <1>1 DEF SupportInv, Testing
  <2> QED  BY <1>1, <1>3, <2>1, <2>2, <2>3, ProbFixed DEF SupportInv, Testing
<1> QED  BY <1>1, <1>3, <1>9, <1>10, ProbFixed DEF RoundInv

LEMMA RSelectNone ==
    ASSUME TInv, GroupsFit, RoundInv, SelectNone
    PROVE  RoundInv'
<1>1. /\ PlacesInv /\ SupportInv /\ pc = "select" /\ pc' = "publish" /\ prob' = prob
      /\ Defines(prob.models, Range(samplingSet), Candidates)
      /\ samplingSet' = samplingSet /\ indep' = indep /\ unknown' = unknown
      /\ unknownSet' = unknownSet /\ unknown = <<>>
      /\ otherSamplingSet' = <<>> /\ cursor' = 1
    BY DEF RoundInv, SelectNone, workVars
<1>2. PlacesInv'
    BY <1>1, ProbFixed DEF PlacesInv, Undropped, Testing
<1>3. SupportInv'
    BY <1>1, ProbFixed DEF SupportInv, Undropped, Testing
<1>4. PublishInv'
  <2>1. Len(unknown') = 0  BY <1>1
  <2> QED  BY <1>1, <2>1 DEF PublishInv
<1> QED  BY <1>1, <1>2, <1>3, <1>4, ProbFixed DEF RoundInv

\* fill_assumptions_backward: every entry met is the first of its unit.
LEMMA FillState ==
    ASSUME TInv, GroupsFit, RoundInv, Filling
    PROVE  /\ i = j /\ i \in 1 .. Len(unknown) /\ Len(unknown) \in Nat
           /\ Current \in Closure /\ Current \in Vars /\ ~ Skipped
           /\ Mapped(Current)
           /\ AsGroup(Current) <=> InGroup(Current)
           /\ InGroup(Current) =>
                 /\ (i - 1) + Len(Group(Current)) <= Len(unknown)
                 /\ \A p \in 1 .. Len(Group(Current)) :
                        unknown[(i - 1) + p] = Group(Current)[p]
                 /\ UnitOf(Current) \subseteq prob.indicated
                        => Unfit(Group(Current)) = {}
<1>1. /\ PlacesInv /\ FillInv /\ pc = "fill"
      /\ unknown \in Seq(Vars) /\ Len(unknown) \in Nat
      /\ i \in 1 .. Len(unknown) /\ i = j
      /\ Distinct(unknown) /\ unknownSet = Range(unknown)
      /\ Range(unknown) \subseteq Closure
      /\ WholeUpTo(unknown, Len(unknown)) /\ WholeUpTo(unknown, i - 1)
      /\ added \subseteq { unknown[k] : k \in 1 .. (i - 1) }
    BY DEF Filling, RoundInv, FillInv, PlacesInv, Undropped, TInv, TypeOK
<1>2. Current \in Range(unknown)  BY <1>1 DEF Current, Range
<1>3. /\ Current \in Closure /\ Current \in Vars
      /\ Mapped(Current) /\ (AsGroup(Current) <=> InGroup(Current))
    BY <1>1, <1>2, ClosureFacts
<1>4. \A k \in i .. Len(unknown) : unknown[k] \notin added
    BY <1>1 DEF Distinct
<1>5. ~ Skipped  BY <1>1, <1>2, <1>4 DEF Skipped, Current
<1>6. ASSUME InGroup(Current)
      PROVE  /\ (i - 1) + Len(Group(Current)) <= Len(unknown)
             /\ \A p \in 1 .. Len(Group(Current)) :
                    unknown[(i - 1) + p] = Group(Current)[p]
             /\ UnitOf(Current) \subseteq prob.indicated => Unfit(Group(Current)) = {}
  <2> DEFINE g == Group(Current)
             n == i - 1
  <2>1. n \in 0 .. (Len(unknown) - 1) /\ n + 1 = i  BY <1>1
  <2>2. Current = unknown[n + 1]  BY <2>1 DEF Current
  <2> HIDE DEF n
  <2>3. /\ n + Len(g) <= Len(unknown)
        /\ \A p \in 1 .. Len(g) : unknown[n + p] = g[p]
      BY <1>1, <1>6, <2>1, <2>2, GroupStartsHere DEF n
  <2>4. /\ Len(g) \in Nat \ {0} /\ DOMAIN g = 1 .. Len(g)
        /\ \A k \in 1 .. Len(g) : g[k] \in UnitOf(Current)
        /\ \A k, l \in 1 .. Len(g) : g[k] = g[l] => k = l
      BY <1>3, <1>6, ClosureGroups
  <2> HIDE DEF g
  <2>5. ASSUME UnitOf(Current) \subseteq prob.indicated, NEW k \in DOMAIN g
        PROVE  k \notin Unfit(g)
    <3>1. k \in 1 .. Len(g)  BY <2>4
    <3>2. j + k - 1 <= Len(unknown) /\ n + k \in i .. Len(unknown)
        BY <1>1, <2>1, <2>3, <2>4, <3>1
    <3>3. g[k] \notin added  BY <1>4, <2>3, <3>1, <3>2
    <3>4. g[k] \in prob.indicated  BY <2>4, <2>5, <3>1
    <3>5. \A l \in 1 .. (k - 1) : g[l] # g[k]  BY <2>4, <3>1
    <3>6. ~ (j + k - 1 > Len(unknown))
      <4>1. j + k - 1 \in Int /\ Len(unknown) \in Int  BY <1>1, <2>4, <3>1
      <4> QED  BY <3>2, <4>1
    <3> QED  BY <3>3, <3>4, <3>5, <3>6 DEF Unfit
  <2>6. Unfit(g) \subseteq DOMAIN g  BY DEF Unfit
  <2> QED  BY <2>3, <2>5, <2>6 DEF g, n
<1> QED  BY <1>1, <1>3, <1>5, <1>6

LEMMA NoFillFails ==
    ASSUME TInv, WellFormed, RoundInv  PROVE ~ FillFails
<1>0. GroupsFit /\ Closure \subseteq prob.indicated  BY DEF WellFormed
<1>1. pc = "fillIndep" => Range(indep) \subseteq prob.indicated
    BY <1>0 DEF RoundInv, PlacesInv, Undropped
<1>2. Filling =>
         /\ ~ Skipped /\ Current \in prob.indicated
         /\ AsGroup(Current) => Unfit(Group(Current)) = {}
    BY <1>0, FillState, ClosureFacts
<1>3. Filling /\ ~ Skipped /\ prob.groupIndep => Mapped(Current)  BY <1>0, FillState
<1> QED  BY <1>1, <1>2, <1>3 DEF FillFails

LEMMA RFillIndep ==
    ASSUME TInv, GroupsFit, RoundInv, FillIndep
    PROVE  RoundInv'
<1>1. /\ PlacesInv /\ SupportInv /\ pc = "fillIndep" /\ pc' = "fill" /\ prob' = prob
      /\ Defines(prob.models, Range(samplingSet), Candidates)
      /\ samplingSet' = samplingSet /\ indep' = indep /\ unknown' = unknown
      /\ unknownSet' = unknownSet /\ testVar' = testVar
      /\ assumptions' = SameLits(indep) /\ added' = {} /\ i' = 1 /\ j' = 1
      /\ indep \in Seq(Vars) /\ Len(unknown) \in Nat /\ Len(indep) \in Nat
    BY DEF RoundInv, FillIndep, workVars, setVars, testVars, TInv, TypeOK
<1>2. PlacesInv'
    BY <1>1, ProbFixed DEF PlacesInv, Undropped, Testing
<1>3. SupportInv'
    BY <1>1, ProbFixed DEF SupportInv, Undropped, Testing
<1>4. FillInv'
  <2>1. WholeUpTo(unknown, 0)  BY DEF WholeUpTo
  <2>2. i' - 1 = 0  BY <1>1
  <2>3. WholeUpTo(unknown, i - 1)'  BY <1>1, <2>1, <2>2, ProbFixed
  <2>4. Assuming(i - 1)'
    <3>1. /\ Len(assumptions') = Len(indep)
          /\ \A k \in 1 .. Len(indep) : assumptions'[k] = Same(indep[k])
        BY <1>1, LitTypes
    <3> QED  BY <1>1, <2>2, <3>1 DEF Assuming, Same
  <2> QED  BY <1>1, <2>3, <2>4 DEF FillInv
<1> QED  BY <1>1, <1>2, <1>3, <1>4, ProbFixed DEF RoundInv

LEMMA RFillNext ==
    ASSUME TInv, GroupsFit, RoundInv, FillNext
    PROVE  RoundInv'
<1> DEFINE g == Group(Current)
           n == IF InGroup(Current) THEN Len(g) ELSE 1
<1>1. /\ PlacesInv /\ SupportInv /\ FillInv /\ pc = "fill" /\ pc' = pc /\ prob' = prob
      /\ Defines(prob.models, Range(samplingSet), Candidates)
      /\ samplingSet' = samplingSet /\ indep' = indep
      /\ unknownSet' = unknownSet /\ testVar' = testVar
      /\ unknown \in Seq(Vars) /\ Len(unknown) \in Nat /\ indep \in Seq(Vars)
      /\ Len(indep) \in Nat /\ assumptions \in Seq(Literals)
    BY DEF RoundInv, FillNext, Filling, setVars, testVars, TInv, TypeOK
<1>2. /\ i = j /\ i \in 1 .. Len(unknown)
      /\ Current \in Closure /\ Current \in Vars /\ ~ Skipped
      /\ AsGroup(Current) <=> InGroup(Current)
      /\ InGroup(Current) =>
            /\ (i - 1) + Len(g) <= Len(unknown)
            /\ \A p \in 1 .. Len(g) : unknown[(i - 1) + p] = g[p]
    BY FillState DEF FillNext
<1>3. FillGroup \/ FillSingle  BY <1>2 DEF FillNext
<1>4. InGroup(Current) =>
         /\ g \in Seq(Vars) /\ Len(g) \in Nat \ {0} /\ DOMAIN g = 1 .. Len(g)
    BY <1>2, ClosureGroups
<1>5. DOMAIN unknown = 1 .. Len(unknown) /\ unknown \in [1 .. Len(unknown) -> Vars]
    BY <1>1
<1>6. /\ unknown' = unknown /\ n \in Nat \ {0} /\ i' = i + n /\ j' = i + n
      /\ (i - 1) + n <= Len(unknown)
      /\ WholeUpTo(unknown, (i - 1) + n)
      /\ added' \subseteq added \cup { unknown[k] : k \in i .. ((i - 1) + n) }
      /\ Len(assumptions') = Len(assumptions) + n
      /\ \A k \in 1 .. Len(assumptions) : assumptions'[k] = assumptions[k]
      /\ \A p \in 1 .. n : assumptions'[Len(assumptions) + p] = Same(unknown[(i - 1) + p])
  <2>1. CASE InGroup(Current)
    <3>1. /\ unknown' = [k \in 1 .. Len(unknown) |->
                            IF k \in j .. (j + n - 1) THEN g[k - j + 1] ELSE unknown[k]]
          /\ assumptions' = assumptions \o SameLits(g)
          /\ added' = added \cup Range(g)
          /\ i' = i + n /\ j' = j + n
        BY <1>2, <1>3, <2>1 DEF FillGroup, FillSingle
    <3>2. n = Len(g) /\ n \in Nat \ {0} /\ g \in Seq(Vars)  BY <1>4, <2>1
    <3>3. /\ (i - 1) + n <= Len(unknown)
          /\ \A p \in 1 .. n : unknown[(i - 1) + p] = g[p]
        BY <1>2, <2>1, <3>2
    <3>4. WholeUpTo(unknown, (i - 1) + n)
      <4>1. i - 1 \in Nat  BY <1>2
      <4>2. WholeUpTo(unknown, i - 1)  BY <1>1 DEF FillInv
      <4> QED  BY <1>2, <2>1, <3>2, <3>3, <4>1, <4>2, WholeAppendGroup
    <3> HIDE DEF g, n
    <3>5. unknown' = unknown
      <4>1. \A k \in 1 .. Len(unknown) : k \in j .. (j + n - 1) => g[k - j + 1] = unknown[k]
        <5> TAKE k \in 1 .. Len(unknown)
        <5> HAVE k \in j .. (j + n - 1)
        <5>1. k - j + 1 \in 1 .. n /\ (i - 1) + (k - j + 1) = k
            BY <1>1, <1>2, <3>2
        <5> QED  BY <3>3, <5>1
      <4> QED  BY <1>5, <3>1, <4>1
    <3>6. added' \subseteq added \cup { unknown[k] : k \in i .. ((i - 1) + n) }
      <4>1. \A p \in 1 .. n : (i - 1) + p \in i .. ((i - 1) + n)  BY <1>2, <3>2
      <4>2. Range(g) \subseteq { unknown[k] : k \in i .. ((i - 1) + n) }
          BY <3>2, <3>3, <4>1 DEF Range
      <4> QED  BY <3>1, <4>2
    <3>7. /\ SameLits(g) \in Seq(Literals) /\ Len(SameLits(g)) = n
          /\ \A p \in 1 .. n : SameLits(g)[p] = Same(unknown[(i - 1) + p])
        BY <3>2, <3>3, LitTypes
    <3>8. /\ Len(assumptions') = Len(assumptions) + n
          /\ \A k \in 1 .. Len(assumptions) : assumptions'[k] = assumptions[k]
          /\ \A p \in 1 .. n : assumptions'[Len(assumptions) + p] = SameLits(g)[p]
      <4> DEFINE t == SameLits(g)
                 m == Len(assumptions)
      <4>1. m \in Nat /\ n \in Nat  BY <1>1, <3>2
      <4>2. /\ Len(assumptions') = m + n
            /\ \A k \in 1 .. (m + n) :
                   assumptions'[k] = IF k <= m THEN assumptions[k] ELSE t[k - m]
        <5>1. t \in Seq(Literals) /\ Len(t) = n  BY <3>7
        <5>2. assumptions' = assumptions \o t  BY <3>1
        <5> HIDE DEF t
        <5> QED  BY <1>1, <5>1, <5>2, ConcatProperties
      <4> HIDE DEF t, m
      <4>3. \A k \in 1 .. m : assumptions'[k] = assumptions[k]  BY <4>1, <4>2
      <4>4. \A q \in 1 .. n : assumptions'[m + q] = t[q]
        <5> TAKE q \in 1 .. n
        <5>1. m + q \in 1 .. (m + n) /\ ~ (m + q <= m) /\ (m + q) - m = q  BY <4>1
        <5> QED  BY <4>2, <5>1
      <4> QED  BY <4>2, <4>3, <4>4 DEF m, t
    <3> QED  BY <1>2, <3>1, <3>2, <3>3, <3>4, <3>5, <3>6, <3>7, <3>8
  <2>2. CASE ~ InGroup(Current)
    <3>1. /\ unknown' = [unknown EXCEPT ![j] = Current]
          /\ assumptions' = Append(assumptions, Same(Current))
          /\ added' = added
          /\ i' = i + 1 /\ j' = j + 1
        BY <1>2, <1>3, <2>2 DEF FillGroup, FillSingle
    <3>2. n = 1 /\ (i - 1) + n = i /\ (i - 1) + 1 = i  BY <1>2, <2>2
    <3>3. unknown' = unknown  BY <1>2, <1>5, <3>1 DEF Current
    <3>4. WholeUpTo(unknown, (i - 1) + 1)
      <4>1. i - 1 \in Nat  BY <1>2
      <4>2. WholeUpTo(unknown, i - 1)  BY <1>1 DEF FillInv
      <4>3. ~ InGroup(unknown[(i - 1) + 1])  BY <2>2, <3>2 DEF Current
      <4> QED  BY <4>1, <4>2, <4>3, WholeAppendSingle
    <3>5. Same(Current) \in Literals  BY <1>2 DEF Same, Literals
    <3>6. /\ Len(assumptions') = Len(assumptions) + 1
          /\ \A k \in 1 .. Len(assumptions) : assumptions'[k] = assumptions[k]
          /\ assumptions'[Len(assumptions) + 1] = Same(unknown[i])
        BY <1>1, <3>1, <3>5, AppendProperties DEF Current
    <3> QED  BY <1>2, <3>1, <3>2, <3>3, <3>4, <3>6
  <2> QED  BY <2>1, <2>2
<1> HIDE DEF g, n
<1>7. PlacesInv'
    BY <1>1, <1>6, ProbFixed DEF PlacesInv, Undropped, Testing
<1>8. SupportInv'
    BY <1>1, <1>6, ProbFixed DEF SupportInv, Undropped, Testing
<1>9. FillInv'
  <2>1. i' - 1 = (i - 1) + n /\ i' <= Len(unknown) + 1  BY <1>1, <1>2, <1>6
  <2>2. WholeUpTo(unknown, i - 1)'  BY <1>1, <1>6, <2>1, ProbFixed
  <2>3. added' \subseteq { unknown[k] : k \in 1 .. ((i - 1) + n) }
    <3>1. added \subseteq { unknown[k] : k \in 1 .. (i - 1) }  BY <1>1 DEF FillInv
    <3>2. /\ \A k \in 1 .. (i - 1) : k \in 1 .. ((i - 1) + n)
          /\ \A k \in i .. ((i - 1) + n) : k \in 1 .. ((i - 1) + n)
        BY <1>2, <1>6
    <3> QED  BY <1>6, <3>1, <3>2
  <2>4. Assuming(i - 1)'
    <3>1. /\ Len(assumptions) = Len(indep) + (i - 1)
          /\ \A k \in 1 .. Len(indep) : assumptions[k] = Same(indep[k])
          /\ \A k \in 1 .. (i - 1) : assumptions[Len(indep) + k] = Same(unknown[k])
        BY <1>1 DEF FillInv, Assuming
    <3>2. Len(assumptions') = Len(indep) + ((i - 1) + n)
        BY <1>1, <1>2, <1>6, <3>1
    <3>3. \A k \in 1 .. Len(indep) : assumptions'[k] = Same(indep[k])
        BY <1>1, <1>2, <1>6, <3>1
    <3>4. \A k \in 1 .. ((i - 1) + n) : assumptions'[Len(indep) + k] = Same(unknown[k])
      <4> TAKE k \in 1 .. ((i - 1) + n)
      <4>1. CASE k <= i - 1
        <5>1. k \in 1 .. (i - 1) /\ Len(indep) + k \in 1 .. Len(assumptions)
            BY <1>1, <1>2, <1>6, <3>1, <4>1
        <5> QED  BY <1>6, <3>1, <5>1
      <4>2. CASE ~ (k <= i - 1)
        <5> DEFINE p == k - (i - 1)
        <5>1. p \in 1 .. n /\ (i - 1) + p = k /\ Len(assumptions) + p = Len(indep) + k
            BY <1>1, <1>2, <1>6, <3>1, <4>2
        <5> HIDE DEF p
        <5> QED  BY <1>6, <5>1
      <4> QED  BY <4>1, <4>2
    <3> QED  BY <1>1, <1>6, <2>1, <3>2, <3>3, <3>4 DEF Assuming, Same
  <2> QED  BY <1>6, <2>1, <2>2, <2>3, <2>4 DEF FillInv
<1> QED  BY <1>1, <1>7, <1>8, <1>9, ProbFixed DEF RoundInv

LEMMA RFillEnd ==
    ASSUME TInv, GroupsFit, RoundInv, FillEnd
    PROVE  RoundInv'
<1>1. /\ PlacesInv /\ SupportInv /\ FillInv /\ pc = "fill" /\ pc' = "solve"
      /\ prob' = prob /\ samplingSet' = samplingSet /\ indep' = indep
      /\ Defines(prob.models, Range(samplingSet), Candidates)
      /\ unknownSet' = unknownSet /\ testVar' = testVar /\ member' = 1
      /\ assumptions' = assumptions /\ origAssSize' = Len(assumptions)
      /\ unknown' = SubSeq(unknown, 1, j - 1)
      /\ unknown \in Seq(Vars) /\ Len(unknown) \in Nat
      /\ i = Len(unknown) + 1 /\ j = i
  <2>1. /\ pc = "fill" /\ FillInv /\ i \in Nat /\ Len(unknown) \in Nat
        /\ i > Len(unknown) /\ unknown \in Seq(Vars)
      BY DEF RoundInv, FillEnd, TInv, TypeOK
  <2>2. i = Len(unknown) + 1 /\ j = i  BY <2>1 DEF FillInv
  <2> QED  BY <2>1, <2>2 DEF RoundInv, FillEnd, setVars, testVars
<1>2. unknown' = unknown
  <2>1. j - 1 = Len(unknown)  BY <1>1
  <2>2. /\ unknown' \in Seq(Vars) /\ Len(unknown') = Len(unknown)
        /\ \A k \in 1 .. Len(unknown) : unknown'[k] = unknown[k]
      BY <1>1, <2>1, SubSeqProperties
  <2> QED  BY <1>1, <2>2, SeqEqual
<1>3. PlacesInv'
    BY <1>1, <1>2, ProbFixed DEF PlacesInv, Undropped, Testing
<1>4. SupportInv'
    BY <1>1, <1>2, ProbFixed DEF SupportInv, Undropped, Testing
<1>5. SolveInv'
  <2>1. i - 1 = Len(unknown)  BY <1>1
  <2>2. Assuming(Len(unknown))  BY <1>1, <2>1 DEF FillInv
  <2>3. Assuming(Len(unknown))'  BY <1>1, <1>2, <2>2 DEF Assuming, Same
  <2> QED  BY <1>1, <2>3 DEF SolveInv
<1> QED  BY <1>1, <1>3, <1>4, <1>5, ProbFixed DEF RoundInv

\* After filling, exactly what is decided to stay and what is unknown is assumed equal.
LEMMA AssumedSets ==
    ASSUME TInv, Assuming(Len(unknown))
    PROVE  /\ Assumed(assumptions, "same") = Undropped
           /\ Assumed(assumptions, "differ") = {}
<1> DEFINE m == Len(indep)
           n == Len(unknown)
<1>1. /\ m \in Nat /\ n \in Nat /\ DOMAIN assumptions = 1 .. (m + n)
      /\ DOMAIN indep = 1 .. m /\ DOMAIN unknown = 1 .. n
      /\ Range(indep) \subseteq Vars /\ Range(unknown) \subseteq Vars
  <2>1. /\ assumptions \in Seq(Literals) /\ indep \in Seq(Vars) /\ unknown \in Seq(Vars)
      BY DEF TInv, TypeOK
  <2> QED  BY <2>1 DEF Assuming, Range
<1>2. /\ \A k \in 1 .. m : assumptions[k] = <<"same", indep[k]>>
      /\ \A k \in 1 .. n : assumptions[m + k] = <<"same", unknown[k]>>
    BY DEF Assuming, Same
<1> HIDE DEF m, n
<1>3. \A k \in 1 .. (m + n) : \E v \in Undropped : assumptions[k] = <<"same", v>>
  <2> TAKE k \in 1 .. (m + n)
  <2>1. CASE k <= m
    <3>1. k \in 1 .. m  BY <1>1, <2>1
    <3> QED  BY <1>1, <1>2, <3>1 DEF Undropped, Range
  <2>2. CASE ~ (k <= m)
    <3>1. k - m \in 1 .. n /\ m + (k - m) = k  BY <1>1, <2>2
    <3>2. assumptions[k] = <<"same", unknown[k - m]>>  BY <1>2, <3>1
    <3> QED  BY <1>1, <3>1, <3>2 DEF Undropped, Range
  <2> QED  BY <2>1, <2>2
<1>4. \A v \in Undropped : \E k \in 1 .. (m + n) : assumptions[k] = <<"same", v>>
  <2> TAKE v \in Undropped
  <2>1. CASE v \in Range(indep)
    <3>1. PICK k \in 1 .. m : v = indep[k]  BY <1>1, <2>1 DEF Range
    <3>2. k \in 1 .. (m + n)  BY <1>1
    <3> QED  BY <1>2, <3>1, <3>2
  <2>2. CASE v \in Range(unknown)
    <3>1. PICK k \in 1 .. n : v = unknown[k]  BY <1>1, <2>2 DEF Range
    <3>2. m + k \in 1 .. (m + n)  BY <1>1
    <3> QED  BY <1>2, <3>1, <3>2
  <2> QED  BY <2>1, <2>2 DEF Undropped
<1>5. Undropped \subseteq Vars  BY <1>1 DEF Undropped
<1>6. \A v, w : <<"same", v>> = <<"same", w>> => v = w  OBVIOUS
<1>7. \A v, w : <<"same", v>> # <<"differ", w>>  OBVIOUS
<1>8. Assumed(assumptions, "same") \subseteq Undropped
    BY <1>1, <1>3, <1>6 DEF Assumed
<1>9. Undropped \subseteq Assumed(assumptions, "same")
    BY <1>1, <1>4, <1>5 DEF Assumed
<1>10. Assumed(assumptions, "differ") = {}
    BY <1>1, <1>3, <1>7 DEF Assumed
<1> QED  BY <1>8, <1>9, <1>10

LEMMA RSolveMember ==
    ASSUME TInv, GroupsFit, RoundInv, SolveMember
    PROVE  RoundInv'
<1> DEFINE grouped == InGroup(testVar)
           v == IF grouped THEN Group(testVar)[member] ELSE testVar
           called == Append(assumptions, Differ(v))
<1>1. /\ PlacesInv /\ SupportInv /\ SolveInv /\ pc = "solve" /\ prob' = prob
      /\ Defines(prob.models, Range(samplingSet), Candidates)
      /\ samplingSet' = samplingSet /\ indep' = indep /\ unknown' = unknown
      /\ unknownSet' = unknownSet /\ testVar' = testVar /\ origAssSize' = origAssSize
      /\ assumptions \in Seq(Literals) /\ Len(assumptions) \in Nat /\ member \in Nat
    BY DEF RoundInv, SolveMember, workVars, setVars, TInv, TypeOK
<1>2. testVar \in Closure  BY <1>1 DEF PlacesInv, Testing
<1>3. grouped =>
         /\ member \in 1 .. Len(Group(testVar)) /\ Len(Group(testVar)) \in Nat
         /\ Group(testVar) \in Seq(Vars)
         /\ UnitOf(testVar) = Range(Group(testVar))
  <2> SUFFICES ASSUME grouped  PROVE
         /\ member \in 1 .. Len(Group(testVar)) /\ Len(Group(testVar)) \in Nat
         /\ Group(testVar) \in Seq(Vars)
         /\ UnitOf(testVar) = Range(Group(testVar))
      OBVIOUS
  <2>1. /\ Len(Group(testVar)) \in Nat /\ Group(testVar) \in Seq(Vars)
        /\ UnitOf(testVar) = Range(Group(testVar))
      BY <1>2, ClosureGroups
  <2>2. member <= Len(Group(testVar)) /\ member \in Nat \ {0}
      BY <1>1 DEF TInv, TypeOK, PositionsOK
  <2> QED  BY <2>1, <2>2
<1>4. v \in UnitOf(testVar) /\ v \in Vars
  <2>1. v \in UnitOf(testVar)
    <3>1. CASE grouped  BY <1>3, <3>1 DEF Range
    <3>2. CASE ~ grouped  BY <3>2 DEF UnitOf
    <3> QED  BY <3>1, <3>2
  <2> QED  BY <1>2, <2>1, ClosureFacts
<1>5. /\ ret' \in Answers(called)
      /\ assumptions' = IF grouped /\ ret' = "false"
                        THEN SubSeq(called, 1, origAssSize) ELSE called
      /\ IF grouped /\ ret' = "false" /\ member < Len(Group(testVar))
         THEN member' = member + 1 /\ pc' = pc
         ELSE member' = 1 /\ pc' = "classify"
    BY DEF SolveMember
<1>6. /\ called \in Seq(Literals) /\ Len(called) = Len(assumptions) + 1
      /\ \A k \in 1 .. Len(assumptions) : called[k] = assumptions[k]
      /\ called[Len(assumptions) + 1] = <<"differ", v>>
  <2>1. Differ(v) \in Literals  BY <1>4 DEF Differ, Literals
  <2> QED  BY <1>1, <2>1, AppendProperties DEF Differ
<1>7. Satisfiable(called) <=> Separable(prob.models, Undropped, v)
  <2>1. /\ Assumed(assumptions, "same") = Undropped
        /\ Assumed(assumptions, "differ") = {}
      BY <1>1, AssumedSets DEF SolveInv
  <2> HIDE DEF called, v
  <2>2. /\ DOMAIN called = 1 .. (Len(assumptions) + 1)
        /\ DOMAIN assumptions = 1 .. Len(assumptions)
      BY <1>1, <1>6
  <2>3. \A k \in 1 .. (Len(assumptions) + 1) :
            k \in 1 .. Len(assumptions) \/ k = Len(assumptions) + 1
      BY <1>1
  <2>4. \A k \in 1 .. Len(assumptions) : k \in 1 .. (Len(assumptions) + 1)
      BY <1>1
  <2>5. Len(assumptions) + 1 \in 1 .. (Len(assumptions) + 1)  BY <1>1
  <2>6. Assumed(called, "same") = Assumed(assumptions, "same")
    <3>1. \A w : <<"same", w>> # <<"differ", v>>  OBVIOUS
    <3> QED  BY <1>6, <2>2, <2>3, <2>4, <3>1 DEF Assumed
  <2>7. Assumed(called, "differ") = {v}
    <3>1. v \in Assumed(called, "differ")  BY <1>4, <1>6, <2>2, <2>5 DEF Assumed
    <3>2. ASSUME NEW w \in Assumed(called, "differ")  PROVE w = v
      <4>1. PICK k \in 1 .. (Len(assumptions) + 1) : called[k] = <<"differ", w>>
          BY <2>2 DEF Assumed
      <4>2. w \in Vars  BY DEF Assumed
      <4>3. CASE k \in 1 .. Len(assumptions)
        <5>1. assumptions[k] = <<"differ", w>>  BY <1>6, <4>1, <4>3
        <5>2. w \in Assumed(assumptions, "differ")  BY <2>2, <4>2, <4>3, <5>1 DEF Assumed
        <5> QED  BY <2>1, <5>2
      <4>4. CASE k = Len(assumptions) + 1
        <5>1. <<"differ", w>> = <<"differ", v>>  BY <1>6, <4>1, <4>4
        <5> QED  BY <5>1
      <4> QED  BY <2>3, <4>3, <4>4
    <3> QED  BY <3>1, <3>2
  <2> QED  BY <2>1, <2>6, <2>7 DEF Satisfiable, Separable
<1>8. /\ ret' = "false" => ~ Separable(prob.models, Undropped, v)
      /\ ret' = "true" => Separable(prob.models, Undropped, v)
      /\ ret' = "undef" => prob.mayTimeOut
    BY <1>5, <1>7 DEF Answers
<1>9. pc' \in {"solve", "classify"}  BY <1>1, <1>5
<1> HIDE DEF called
<1>10. PlacesInv'
    BY <1>1, <1>9, ProbFixed DEF PlacesInv, Undropped, Testing
<1>11. SupportInv'
    BY <1>1, <1>9, ProbFixed DEF SupportInv, Undropped, Testing
<1>12. ASSUME ret' = "false", grouped
       PROVE  \A m \in 1 .. member : ~ Separable(prob.models, Undropped, Group(testVar)[m])
  <2> TAKE m \in 1 .. member
  <2>1. CASE m = member  BY <1>8, <1>12, <2>1
  <2>2. CASE m # member
    <3>1. m \in 1 .. (member - 1)  BY <1>1, <2>2
    <3> QED  BY <1>1, <1>12, <3>1 DEF SolveInv
  <2> QED  BY <2>1, <2>2
<1>13. CASE grouped /\ ret' = "false" /\ member < Len(Group(testVar))
  <2>1. pc' = "solve" /\ member' = member + 1 /\ member' - 1 = member
      BY <1>1, <1>5, <1>13
  <2>2. assumptions' = assumptions
    <3>1. origAssSize = Len(assumptions)  BY <1>1 DEF SolveInv
    <3>2. assumptions' = SubSeq(called, 1, Len(assumptions))  BY <1>5, <1>13, <3>1
    <3>3. \A k \in 1 .. Len(assumptions) : called[k] \in Literals
        BY <1>1, <1>6, ElementOfSeq
    <3>4. /\ assumptions' \in Seq(Literals) /\ Len(assumptions') = Len(assumptions)
          /\ \A k \in 1 .. Len(assumptions) : assumptions'[k] = called[k]
        BY <1>1, <3>2, <3>3, SubSeqProperties
    <3> QED  BY <1>1, <1>6, <3>4, SeqEqual
  <2>3. Assuming(Len(unknown))'
      BY <1>1, <2>2 DEF SolveInv, Assuming, Same
  <2>4. (InGroup(testVar) /\ Group(testVar) = Group(testVar))'
      BY <1>1, <1>13, ProbFixed
  <2>5. \A m \in 1 .. (member' - 1) :
            ~ Separable(prob.models, Undropped, Group(testVar)[m])
      BY <1>12, <1>13, <2>1
  <2>6. Undropped' = Undropped /\ prob.models' = prob.models
        /\ Group(testVar)' = Group(testVar)
      BY <1>1, ProbFixed DEF Undropped
  <2>7. SolveInv'
      BY <1>1, <2>2, <2>3, <2>4, <2>5, <2>6 DEF SolveInv, Separable
  <2> QED  BY <1>1, <1>10, <1>11, <2>1, <2>7, ProbFixed DEF RoundInv
<1>14. CASE ~ (grouped /\ ret' = "false" /\ member < Len(Group(testVar)))
  <2>1. pc' = "classify"  BY <1>5, <1>14
  <2>2. ret' = "true" => ~ Defines(prob.models, Undropped, UnitOf(testVar))
      BY <1>4, <1>8, InseparableIffDefined
  <2>3. ASSUME ret' = "false"
        PROVE  Defines(prob.models, Undropped, UnitOf(testVar))
    <3>1. \A w \in UnitOf(testVar) : ~ Separable(prob.models, Undropped, w)
      <4>1. CASE grouped
        <5>1. member = Len(Group(testVar))
          <6>1. ~ (member < Len(Group(testVar)))  BY <1>14, <2>3, <4>1
          <6> QED  BY <1>1, <1>3, <4>1, <6>1
        <5>2. \A m \in 1 .. Len(Group(testVar)) :
                  ~ Separable(prob.models, Undropped, Group(testVar)[m])
            BY <1>12, <2>3, <4>1, <5>1
        <5> QED  BY <1>3, <4>1, <5>2 DEF Range
      <4>2. CASE ~ grouped
        <5>1. v = testVar /\ UnitOf(testVar) = {testVar}  BY <4>2 DEF UnitOf
        <5> QED  BY <1>8, <2>3, <5>1
      <4> QED  BY <4>1, <4>2
    <3> QED  BY <3>1, InseparableIffDefined
  <2>4. /\ UnitOf(testVar)' = UnitOf(testVar) /\ Undropped' = Undropped
      BY <1>1, ProbFixed DEF Undropped
  <2>5. ClassifyInv'
      BY <1>1, <1>8, <2>2, <2>3, <2>4 DEF ClassifyInv
  <2> QED  BY <1>1, <1>10, <1>11, <2>1, <2>5, ProbFixed DEF RoundInv
<1> QED  BY <1>13, <1>14

\* A unit found to be determined is dropped, and otherwise kept whole.
LEMMA DroppedOrKept ==
    ASSUME TInv, GroupsFit, RoundInv, Classify
    PROVE  \/ Range(indep') = Range(indep) /\ Distinct(indep') /\ ret = "false"
           \/ /\ Range(indep') = Range(indep) \cup UnitOf(testVar) /\ Distinct(indep')
              /\ ret # "false"
<1> DEFINE U == UnitOf(testVar)
<1>1. PlacesInv /\ pc = "classify" /\ testVar \in Closure /\ indep \in Seq(Vars)
    BY DEF RoundInv, Classify, PlacesInv, Testing, TInv, TypeOK
<1>2. testVar \in Vars /\ U \cap Range(indep) = {}
    BY <1>1, ClosureFacts DEF PlacesInv, Testing, Undropped
<1> QED
  <2>1. CASE ret = "false"
      BY <1>1, <2>1 DEF Classify, PlacesInv
  <2>2. CASE ret # "false" /\ InGroup(testVar)
    <3> DEFINE g == Group(testVar)
               m == Len(indep)
               n == Len(g)
    <3>1. /\ g \in Seq(Vars) /\ U = Range(g) /\ n \in Nat /\ m \in Nat
          /\ \A k, l \in 1 .. n : g[k] = g[l] => k = l
        BY <1>1, <2>2, ClosureGroups
    <3>2. indep' = indep \o g  BY <2>2 DEF Classify
    <3>3. DOMAIN indep = 1 .. m /\ DOMAIN g = 1 .. n  BY <1>1, <3>1
    <3> HIDE DEF g, U
    <3>4. /\ indep' \in Seq(Vars) /\ Len(indep') = m + n
          /\ \A k \in 1 .. (m + n) : indep'[k] = IF k <= m THEN indep[k] ELSE g[k - m]
        BY <1>1, <3>1, <3>2, ConcatProperties
    <3>5. DOMAIN indep' = 1 .. (m + n)  BY <3>1, <3>4
    <3> HIDE DEF m, n
    <3>6. \A k \in 1 .. (m + n) :
              \/ k \in 1 .. m /\ indep'[k] = indep[k]
              \/ k \notin 1 .. m /\ k - m \in 1 .. n /\ indep'[k] = g[k - m]
        BY <3>1, <3>4
    <3>7. \A k \in 1 .. m : k \in 1 .. (m + n) /\ indep'[k] = indep[k]
        BY <3>1, <3>4
    <3>8. \A k \in 1 .. n : m + k \in 1 .. (m + n) /\ indep'[m + k] = g[k]
      <4> TAKE k \in 1 .. n
      <4>1. m + k \in 1 .. (m + n) /\ ~ (m + k <= m) /\ (m + k) - m = k  BY <3>1
      <4> QED  BY <3>4, <4>1
    <3>9. Range(indep') = Range(indep) \cup U
      <4>1. Range(indep') \subseteq Range(indep) \cup U
        <5>1. \A k \in 1 .. m : indep[k] \in Range(indep)  BY <3>3 DEF Range
        <5>2. \A k \in 1 .. n : g[k] \in U  BY <3>1, <3>3 DEF Range
        <5>3. \A k \in 1 .. (m + n) : indep'[k] \in Range(indep) \cup U
            BY <3>6, <5>1, <5>2
        <5> QED  BY <3>5, <5>3 DEF Range
      <4>2. Range(indep) \subseteq Range(indep')  BY <3>3, <3>5, <3>7 DEF Range
      <4>3. U \subseteq Range(indep')  BY <3>1, <3>3, <3>5, <3>8 DEF Range
      <4> QED  BY <4>1, <4>2, <4>3
    <3>10. Distinct(indep')
      <4> SUFFICES ASSUME NEW k \in 1 .. (m + n), NEW l \in 1 .. (m + n),
                          indep'[k] = indep'[l]
                   PROVE  k = l
          BY <3>5 DEF Distinct
      <4>1. \A p \in 1 .. m, q \in 1 .. n : indep[p] # g[q]
        <5>1. \A p \in 1 .. m : indep[p] \in Range(indep)  BY <3>3 DEF Range
        <5>2. \A q \in 1 .. n : g[q] \in U  BY <3>1, <3>3 DEF Range
        <5> QED  BY <1>2, <5>1, <5>2
      <4>2. CASE k \in 1 .. m /\ l \in 1 .. m
          BY <1>1, <3>3, <3>6, <4>2 DEF PlacesInv, Distinct
      <4>3. CASE k \notin 1 .. m /\ l \notin 1 .. m
        <5>1. k - m \in 1 .. n /\ l - m \in 1 .. n /\ g[k - m] = g[l - m]
            BY <3>6, <4>3
        <5>2. k - m = l - m  BY <3>1, <5>1
        <5> QED  BY <3>1, <5>2
      <4>4. CASE k \in 1 .. m /\ l \notin 1 .. m  BY <3>6, <4>1, <4>4
      <4>5. CASE k \notin 1 .. m /\ l \in 1 .. m  BY <3>6, <4>1, <4>5
      <4> QED  BY <4>2, <4>3, <4>4, <4>5
    <3> QED  BY <2>2, <3>9, <3>10 DEF U
  <2>3. CASE ret # "false" /\ ~ InGroup(testVar)
    <3> DEFINE m == Len(indep)
    <3>1. indep' = Append(indep, testVar) /\ U = {testVar} /\ m \in Nat
        BY <1>1, <2>3 DEF Classify, UnitOf
    <3> HIDE DEF U
    <3>2. /\ indep' \in Seq(Vars) /\ Len(indep') = m + 1
          /\ \A k \in 1 .. m : indep'[k] = indep[k]
          /\ indep'[m + 1] = testVar
        BY <1>1, <1>2, <3>1, AppendProperties
    <3>3. DOMAIN indep = 1 .. m /\ DOMAIN indep' = 1 .. (m + 1)  BY <1>1, <3>1, <3>2
    <3>4. \A k \in 1 .. m : indep[k] # testVar  BY <1>2, <3>1, <3>3 DEF Range
    <3>5. \A k \in 1 .. (m + 1) : k \in 1 .. m \/ k = m + 1  BY <3>1
    <3>6. m + 1 \in 1 .. (m + 1) /\ \A k \in 1 .. m : k \in 1 .. (m + 1)  BY <3>1
    <3> HIDE DEF m
    <3>7. Range(indep') = Range(indep) \cup U
        BY <3>1, <3>2, <3>3, <3>5, <3>6 DEF Range
    <3>8. Distinct(indep')
        BY <1>1, <3>2, <3>3, <3>4, <3>5 DEF Distinct, PlacesInv
    <3> QED  BY <2>3, <3>7, <3>8 DEF U
  <2> QED  BY <2>1, <2>2, <2>3 DEF U

LEMMA RClassify ==
    ASSUME TInv, GroupsFit, RoundInv, Classify
    PROVE  RoundInv'
<1> DEFINE U == UnitOf(testVar)
<1>1. /\ PlacesInv /\ SupportInv /\ ClassifyInv /\ pc = "classify" /\ prob' = prob
      /\ Defines(prob.models, Range(samplingSet), Candidates)
      /\ samplingSet' = samplingSet /\ unknown' = unknown
      /\ unknownSet' = unknownSet /\ testVar' = testVar
      /\ testVar \in Closure /\ indep \in Seq(Vars) /\ Len(unknown) \in Nat
    BY DEF RoundInv, Classify, EndIteration, PlacesInv, Testing, TInv, TypeOK
<1>2. \/ pc' = "publish" /\ otherSamplingSet' = <<>> /\ cursor' = 1
      \/ pc' = "select"
    BY DEF Classify, EndIteration
<1>3. /\ U \subseteq Closure /\ testVar \in Vars /\ testVar # NoVar
      /\ \A w \in U : UnitOf(w) = U
      /\ U \cap Range(indep) = {} /\ U \cap Range(unknown) = {}
  <2>1. testVar \in Vars  BY <1>1, ClosureFacts
  <2> QED  BY <1>1, <2>1, ClosureFacts, NoVarAssumption DEF PlacesInv, Testing, Undropped
<1>4. Defines(prob.models, Undropped \cup U, Closure)
    BY <1>1 DEF SupportInv, Testing
<1>5. \/ Range(indep') = Range(indep) /\ Distinct(indep') /\ ret = "false"
      \/ Range(indep') = Range(indep) \cup U /\ Distinct(indep')
    BY DroppedOrKept
<1> HIDE DEF U
<1>6. Undropped' \subseteq Undropped \cup U
    BY <1>1, <1>5 DEF Undropped
<1>7. PlacesInv'
  <2>1. Undropped' \subseteq Closure'
      BY <1>1, <1>3, <1>6, ProbFixed DEF PlacesInv
  <2>2. Range(indep') \cap Range(unknown') = {}
      BY <1>1, <1>3, <1>5 DEF PlacesInv
  <2>3. \A w \in Range(indep') : UnitOf(w)' \subseteq Range(indep')
      BY <1>1, <1>3, <1>5, ProbFixed DEF PlacesInv
  <2>4. WholeUpTo(unknown, Len(unknown))'  BY <1>1, ProbFixed DEF PlacesInv
  <2>5. unknownSet' = Range(unknown') /\ Distinct(unknown')  BY <1>1 DEF PlacesInv
  <2> QED  BY <1>2, <1>5, <2>1, <2>2, <2>3, <2>4, <2>5 DEF PlacesInv, Testing
<1>8. SupportInv'
  <2>1. Defines(prob.models, Undropped', Closure)
    <3>1. CASE Range(indep') = Range(indep) /\ ret = "false"
      <4>1. Undropped' = Undropped  BY <1>1, <3>1 DEF Undropped
      <4>2. Defines(prob.models, Undropped, U)  BY <1>1, <3>1 DEF ClassifyInv, U
      <4> QED  BY <1>4, <4>1, <4>2, DropDetermined
    <3>2. CASE Range(indep') = Range(indep) \cup U
      <4>1. Undropped' = Undropped \cup U  BY <1>1, <3>2 DEF Undropped
      <4> QED  BY <1>4, <4>1
    <3> QED  BY <1>5, <3>1, <3>2
  <2> QED  BY <1>1, <1>2, <2>1, ProbFixed DEF SupportInv, Testing
<1>9. pc' = "publish" => PublishInv'
  <2> SUFFICES ASSUME pc' = "publish"  PROVE PublishInv'
      OBVIOUS
  <2>1. Len(otherSamplingSet') = 0 /\ cursor' = 1  BY <1>2
  <2> QED  BY <1>1, <1>3, <2>1 DEF PublishInv
<1> QED  BY <1>1, <1>2, <1>7, <1>8, <1>9, ProbFixed DEF RoundInv

LEMMA RPublishUnknown ==
    ASSUME TInv, GroupsFit, RoundInv, PublishUnknown
    PROVE  RoundInv'
<1>1. /\ PlacesInv /\ SupportInv /\ PublishInv /\ pc = "publish" /\ pc' = pc
      /\ Defines(prob.models, Range(samplingSet), Candidates)
      /\ prob' = prob /\ samplingSet' = samplingSet /\ indep' = indep
      /\ unknown' = unknown /\ unknownSet' = unknownSet /\ testVar' = testVar
      /\ cursor' = cursor + 1 /\ cursor \in 1 .. Len(unknown)
      /\ unknown \in Seq(Vars) /\ otherSamplingSet \in Seq(Vars)
      /\ Len(unknown) \in Nat /\ Len(otherSamplingSet) = cursor - 1
    BY DEF RoundInv, PublishUnknown, PublishInv, workVars, testVars, TInv, TypeOK
<1>2. otherSamplingSet' = Append(otherSamplingSet, unknown[cursor])
  <2>1. unknown[cursor] \in unknownSet  BY <1>1 DEF PlacesInv, Range
  <2> QED  BY <2>1 DEF PublishUnknown
<1>3. /\ Len(otherSamplingSet') = cursor
      /\ \A k \in 1 .. (cursor - 1) : otherSamplingSet'[k] = otherSamplingSet[k]
      /\ otherSamplingSet'[cursor] = unknown[cursor]
  <2>1. unknown[cursor] \in Vars  BY <1>1, ElementOfSeq
  <2>2. /\ Len(otherSamplingSet') = (cursor - 1) + 1
        /\ \A k \in 1 .. (cursor - 1) : otherSamplingSet'[k] = otherSamplingSet[k]
        /\ otherSamplingSet'[(cursor - 1) + 1] = unknown[cursor]
      BY <1>1, <1>2, <2>1, AppendProperties
  <2>3. (cursor - 1) + 1 = cursor  BY <1>1
  <2> QED  BY <2>2, <2>3
<1>4. \A k \in 1 .. cursor : otherSamplingSet'[k] = unknown[k]
  <2> TAKE k \in 1 .. cursor
  <2>1. CASE k = cursor  BY <1>3, <2>1
  <2>2. CASE k # cursor
    <3>1. k \in 1 .. (cursor - 1)  BY <1>1, <2>2
    <3> QED  BY <1>1, <1>3, <3>1 DEF PublishInv
  <2> QED  BY <2>1, <2>2
<1>5. PlacesInv'
    BY <1>1, ProbFixed DEF PlacesInv, Undropped, Testing
<1>6. SupportInv'
    BY <1>1, ProbFixed DEF SupportInv, Undropped, Testing
<1>7. PublishInv'
  <2>1. cursor' - 1 = cursor /\ cursor' <= Len(unknown') + 1  BY <1>1
  <2>2. testVar' = NoVar => unknown' = <<>>  BY <1>1 DEF PublishInv
  <2> QED  BY <1>1, <1>3, <1>4, <2>1, <2>2 DEF PublishInv
<1> QED  BY <1>1, <1>5, <1>6, <1>7, ProbFixed DEF RoundInv

LEMMA RPublishSwap ==
    ASSUME TInv, GroupsFit, RoundInv, PublishSwap
    PROVE  RoundInv'
<1>1. /\ PlacesInv /\ SupportInv /\ PublishInv /\ pc = "publish"
      /\ prob' = prob /\ indep' = indep
      /\ unknown' = unknown /\ unknownSet' = unknownSet /\ testVar' = testVar
      /\ samplingSet' = otherSamplingSet \o indep
      /\ pc' = IF testVar = NoVar THEN "done" ELSE "select"
      /\ unknown \in Seq(Vars) /\ otherSamplingSet \in Seq(Vars) /\ indep \in Seq(Vars)
      /\ Len(unknown) \in Nat /\ cursor \in Nat
    BY DEF RoundInv, PublishSwap, workVars, testVars, TInv, TypeOK
<1>2. otherSamplingSet = unknown
  <2>1. cursor - 1 = Len(unknown)
    <3>1. cursor > Len(unknown) /\ cursor <= Len(unknown) + 1
        BY <1>1 DEF PublishSwap, PublishInv
    <3> QED  BY <1>1, <3>1
  <2>2. /\ Len(otherSamplingSet) = Len(unknown)
        /\ \A k \in 1 .. Len(unknown) : otherSamplingSet[k] = unknown[k]
      BY <1>1, <2>1 DEF PublishInv
  <2> QED  BY <1>1, <2>2, SeqEqual
<1>3. Range(samplingSet') = Undropped
  <2> DEFINE m == Len(unknown)
             n == Len(indep)
  <2>1. /\ m \in Nat /\ n \in Nat /\ samplingSet' \in Seq(Vars)
        /\ Len(samplingSet') = m + n
        /\ \A k \in 1 .. (m + n) :
               samplingSet'[k] = IF k <= m THEN unknown[k] ELSE indep[k - m]
      BY <1>1, <1>2, ConcatProperties
  <2>2. /\ DOMAIN samplingSet' = 1 .. (m + n)
        /\ DOMAIN unknown = 1 .. m /\ DOMAIN indep = 1 .. n
      BY <1>1, <2>1
  <2> HIDE DEF m, n
  <2>3. \A k \in 1 .. (m + n) :
            \/ k \in 1 .. m /\ samplingSet'[k] = unknown[k]
            \/ k - m \in 1 .. n /\ samplingSet'[k] = indep[k - m]
      BY <2>1
  <2>4. \A k \in 1 .. m : k \in 1 .. (m + n) /\ samplingSet'[k] = unknown[k]
      BY <2>1
  <2>5. \A k \in 1 .. n : m + k \in 1 .. (m + n) /\ samplingSet'[m + k] = indep[k]
    <3> TAKE k \in 1 .. n
    <3>1. m + k \in 1 .. (m + n) /\ ~ (m + k <= m) /\ (m + k) - m = k  BY <2>1
    <3> QED  BY <2>1, <3>1
  <2>6. Range(samplingSet') \subseteq Undropped
      BY <2>2, <2>3 DEF Range, Undropped
  <2>7. Range(unknown) \subseteq Range(samplingSet')  BY <2>2, <2>4 DEF Range
  <2>8. Range(indep) \subseteq Range(samplingSet')  BY <2>2, <2>5 DEF Range
  <2> QED  BY <2>6, <2>7, <2>8 DEF Undropped
<1>4. Defines(prob.models, Undropped, Candidates)
    BY <1>1, CandidatesInClosure, DefinesMono DEF SupportInv, Testing
<1>5. PlacesInv'
    BY <1>1, ProbFixed DEF PlacesInv, Undropped, Testing
<1>6. SupportInv'
    BY <1>1, ProbFixed DEF SupportInv, Undropped, Testing
<1>7. pc' = "done" => unknown' = <<>> /\ samplingSet' = indep'
  <2> SUFFICES ASSUME pc' = "done"  PROVE unknown' = <<>> /\ samplingSet' = indep'
      OBVIOUS
  <2>1. unknown = <<>>  BY <1>1 DEF PublishInv
  <2> QED  BY <1>1, <1>2, <2>1, ConcatEmptySeq
<1> QED  BY <1>1, <1>3, <1>4, <1>5, <1>6, <1>7, ProbFixed DEF RoundInv

LEMMA RStutter ==
    ASSUME TInv, GroupsFit, RoundInv, UNCHANGED vars
    PROVE  RoundInv'
<1>1. /\ prob' = prob /\ samplingSet' = samplingSet /\ unknown' = unknown
      /\ otherSamplingSet' = otherSamplingSet
      /\ unknownSet' = unknownSet /\ indep' = indep /\ cursor' = cursor
      /\ member' = member /\ testVar' = testVar /\ ret' = ret
      /\ assumptions' = assumptions /\ origAssSize' = origAssSize
      /\ i' = i /\ j' = j /\ added' = added /\ pc' = pc
    BY DEF vars, data, setVars, workVars, loopVars, testVars, assVars, fillVars
<1>2. PlacesInv'  BY <1>1, ProbFixed DEF RoundInv, PlacesInv, Undropped, Testing
<1>3. pc' # "build" => SupportInv'
    BY <1>1, ProbFixed DEF RoundInv, SupportInv, Undropped, Testing
<1>4. pc' = "build" => BuildInv'
  <2>1. /\ WholeUpTo(unknown, Len(unknown))' <=> WholeUpTo(unknown, Len(unknown))
        /\ WholeUpTo(unknown, Len(unknown) - (member - 1))'
               <=> WholeUpTo(unknown, Len(unknown) - (member - 1))
      BY <1>1, ProbFixed
  <2>2. /\ Candidate' = Candidate /\ (AsGroup(Candidate)' <=> AsGroup(Candidate))
        /\ Group(Candidate)' = Group(Candidate)
      BY <1>1 DEF Candidate, AsGroup, InGroup, Mapped, Group
  <2>3. pc = "build" => BuildInv  BY DEF RoundInv
  <2> QED  BY <1>1, <2>1, <2>2, <2>3, ProbFixed DEF BuildInv
<1>5. pc' = "fill" => FillInv'
  <2>1. WholeUpTo(unknown, i - 1)' <=> WholeUpTo(unknown, i - 1)
      BY <1>1, ProbFixed
  <2> QED  BY <1>1, <2>1 DEF RoundInv, FillInv, Assuming, Same
<1>6. pc' = "solve" => SolveInv'
  <2>1. /\ (InGroup(testVar)' <=> InGroup(testVar)) /\ Undropped' = Undropped
        /\ Group(testVar)' = Group(testVar) /\ prob.models' = prob.models
      BY <1>1, ProbFixed DEF Undropped
  <2>2. Assuming(Len(unknown))' <=> Assuming(Len(unknown))
      BY <1>1 DEF Assuming, Same
  <2>3. pc = "solve" => SolveInv  BY DEF RoundInv
  <2> QED  BY <1>1, <2>1, <2>2, <2>3 DEF SolveInv, Separable
<1>7. pc' = "classify" => ClassifyInv'
    BY <1>1, ProbFixed DEF RoundInv, ClassifyInv, Undropped
<1>8. pc' = "publish" => PublishInv'  BY <1>1 DEF RoundInv, PublishInv
<1> QED
    BY <1>1, <1>2, <1>3, <1>4, <1>5, <1>6, <1>7, <1>8, ProbFixed DEF RoundInv

\* No step changes the input, and a failed round takes no step.
LEMMA InputFixed == [Next]_vars => prob' = prob /\ (Failed => UNCHANGED vars)
<1> SUFFICES ASSUME [Next]_vars  PROVE prob' = prob /\ (Failed => UNCHANGED vars)
    OBVIOUS
<1> USE DEF Failed
<1>1. CASE PushGroupMember \/ PushUngrouped \/ BuildFails \/ SortUnknown
    BY <1>1 DEF PushGroupMember, PushUngrouped, BuildFails, SortUnknown, Building, Fail, data
<1>2. CASE SelectTest \/ SelectFails \/ SelectNone
    BY <1>2 DEF SelectTest, SelectFails, SelectNone, Selecting, Fail, data
<1>3. CASE FillIndep \/ FillNext \/ FillFails \/ FillEnd
    BY <1>3 DEF FillIndep, FillNext, FillFails, FillEnd, Filling, Fail, data
<1>4. CASE SolveMember \/ Classify \/ PublishUnknown \/ PublishSwap
    BY <1>4 DEF SolveMember, Classify, EndIteration, PublishUnknown, PublishSwap
<1>5. CASE UNCHANGED vars  BY <1>5 DEF vars, data
<1> QED  BY <1>1, <1>2, <1>3, <1>4, <1>5 DEF Next, Step, Stopped

LEMMA InductiveStep == TInv /\ Inductive /\ [Next]_vars => Inductive'
<1> SUFFICES ASSUME TInv, Inductive, [Next]_vars, GroupsFit', ~ Failed'  PROVE RoundInv'
    BY DEF Inductive
<1>1. GroupsFit  BY InputFixed, ProbFixed
<1>2. RoundInv
  <2>1. Failed => pc' = pc  BY InputFixed DEF vars
  <2>2. ~ Failed  BY <2>1 DEF Failed
  <2> QED  BY <1>1, <2>2 DEF Inductive
<1>3. CASE PushGroupMember  BY <1>1, <1>2, <1>3, RPushGroupMember
<1>4. CASE PushUngrouped  BY <1>1, <1>2, <1>4, RPushUngrouped
<1>5. CASE BuildFails \/ SelectFails \/ FillFails
    BY <1>5, FailingSteps DEF Fail, Failed
<1>6. CASE SortUnknown  BY <1>1, <1>2, <1>6, RSortUnknown
<1>7. CASE SelectTest  BY <1>1, <1>2, <1>7, RSelectTest
<1>8. CASE SelectNone  BY <1>1, <1>2, <1>8, RSelectNone
<1>9. CASE FillIndep  BY <1>1, <1>2, <1>9, RFillIndep
<1>10. CASE FillNext  BY <1>1, <1>2, <1>10, RFillNext
<1>11. CASE FillEnd  BY <1>1, <1>2, <1>11, RFillEnd
<1>12. CASE SolveMember  BY <1>1, <1>2, <1>12, RSolveMember
<1>13. CASE Classify  BY <1>1, <1>2, <1>13, RClassify
<1>14. CASE PublishUnknown  BY <1>1, <1>2, <1>14, RPublishUnknown
<1>15. CASE PublishSwap  BY <1>1, <1>2, <1>15, RPublishSwap
<1>16. CASE UNCHANGED vars  BY <1>1, <1>2, <1>16, RStutter
<1> QED
  BY <1>3, <1>4, <1>5, <1>6, <1>7, <1>8, <1>9, <1>10, <1>11, <1>12, <1>13, <1>14,
     <1>15, <1>16 DEF Next, Step, Stopped

-----------------------------------------------------------------------------
(* What the round guarantees *)

\* If the groups fit, every state of the round satisfies the inductive invariant.
THEOREM InductiveCorrect == Spec => []Inductive
<1>1. Init => Inductive  BY BeginRoundInv, ProblemsAssumption DEF Init, Inductive
<1> QED  BY InitTInv, TInvStep, <1>1, InductiveStep, PTL DEF Spec

\* If every variable of a candidate's group has an indicator too, no step fails.
LEMMA NoFailureStep == TInv /\ Inductive /\ NoFailure /\ [Next]_vars => NoFailure'
<1> SUFFICES ASSUME TInv, Inductive, NoFailure, [Next]_vars, WellFormed', Failed'
             PROVE  FALSE
    BY DEF NoFailure
<1>1. WellFormed /\ GroupsFit  BY InputFixed, ProbFixed DEF WellFormed
<1>2. ~ Failed /\ RoundInv  BY <1>1 DEF NoFailure, Inductive
<1>3. ~ BuildFails /\ ~ SelectFails /\ ~ FillFails
    BY <1>1, <1>2, NoBuildFails, NoSelectFails, NoFillFails
<1> USE DEF Failed
<1>4. CASE PushGroupMember \/ PushUngrouped \/ SortUnknown
    BY <1>2, <1>4 DEF PushGroupMember, PushUngrouped, SortUnknown
<1>5. CASE SelectTest \/ SelectNone
    BY <1>2, <1>5 DEF SelectTest, SelectNone
<1>6. CASE FillIndep \/ FillNext \/ FillEnd
    BY <1>2, <1>6 DEF FillIndep, FillNext, FillEnd
<1>7. CASE SolveMember  BY <1>2, <1>7 DEF SolveMember
<1>8. CASE Classify \/ PublishUnknown \/ PublishSwap
    BY <1>2, <1>8 DEF Classify, EndIteration, PublishUnknown, PublishSwap
<1>9. CASE UNCHANGED vars  BY <1>2, <1>9 DEF vars
<1> QED  BY <1>3, <1>4, <1>5, <1>6, <1>7, <1>8, <1>9 DEF Next, Step, Stopped

\* On well-formed input no assertion fails and no vector is left: neither the group
\* popped blindly from the back of `unknown` (backward.cpp 97-115) nor the in-place
\* regrouping of fill_assumptions_backward can go wrong.
THEOREM NeverFails == Spec => []NoFailure
<1>1. Init => NoFailure  BY DEF Init, Begin, NoFailure, Failed
<1>2. Spec => []TInv  BY InitTInv, TInvStep, PTL DEF Spec
<1> QED  BY <1>1, <1>2, InductiveCorrect, NoFailureStep, PTL DEF Spec

\* Every solver call is made under the assumptions Algorithm 1 asks for.
THEOREM SolvesUnderTheRest == Spec => []AssumptionsAreRest
<1>1. TInv /\ Inductive => AssumptionsAreRest
  <2> SUFFICES ASSUME TInv, Inductive, GroupsFit, pc = "solve"
               PROVE  /\ Assumed(assumptions, "same") = Undropped
                      /\ Assumed(assumptions, "differ") = {}
                      /\ UnitOf(testVar) \cap Undropped = {}
      BY DEF AssumptionsAreRest, Undropped
  <2>1. SolveInv /\ PlacesInv  BY DEF Inductive, RoundInv, Failed
  <2> QED  BY <2>1, AssumedSets DEF SolveInv, PlacesInv, Testing
<1>2. Spec => []TInv  BY InitTInv, TInvStep, PTL DEF Spec
<1> QED  BY <1>1, <1>2, InductiveCorrect, PTL

\* *sampling_set determines the variables of interest at all times, even when the round
\* fails: then nothing has been published since it did.
LEMMA SupportsStep == TInv /\ Inductive /\ PublishedSupports /\ [Next]_vars => PublishedSupports'
<1> SUFFICES ASSUME TInv, Inductive, PublishedSupports, [Next]_vars, GroupsFit'
             PROVE  Defines(prob.models, Range(samplingSet), Candidates)'
    BY DEF PublishedSupports
<1>1. /\ Candidates' = Candidates /\ prob' = prob
      /\ Defines(prob.models, Range(samplingSet), Candidates)
    BY InputFixed, ProbFixed DEF PublishedSupports
<1>2. CASE ~ Failed'
  <2>1. Inductive'  BY InductiveStep
  <2> QED  BY <1>2, <2>1 DEF Inductive, RoundInv
<1>3. CASE samplingSet' = samplingSet  BY <1>1, <1>3
<1>4. CASE PublishSwap  BY <1>2, <1>4 DEF PublishSwap, Failed
<1>5. ~ PublishSwap => samplingSet' = samplingSet
    BY DEF Next, Step, Stopped, PushGroupMember, PushUngrouped, BuildFails, SortUnknown,
           SelectTest, SelectFails, SelectNone, FillIndep, FillNext, FillFails, FillEnd,
           SolveMember, Classify, EndIteration, PublishUnknown, Fail, vars, data, setVars
<1> QED  BY <1>3, <1>4, <1>5

THEOREM AlwaysSupports == Spec => []PublishedSupports
<1>1. Init => PublishedSupports
    BY DefinesRefl DEF Init, Begin, PublishedSupports, Candidates
<1>2. Spec => []TInv  BY InitTInv, TInvStep, PTL DEF Spec
<1> QED  BY <1>1, <1>2, InductiveCorrect, SupportsStep, PTL DEF Spec

\* The result consists of whole groups and lists nothing twice.
THEOREM WholeResult == Spec => []ResultIsWhole
<1>1. Inductive => ResultIsWhole
    BY DEF Inductive, RoundInv, ResultIsWhole, PlacesInv, Failed
<1> QED  BY <1>1, InductiveCorrect, PTL

-----------------------------------------------------------------------------
(***************************************************************************)
(* The round implements GroupElimination, for every input, order, answer   *)
(* of the solver and period: each of its steps drops one unit, keeps one   *)
(* unit, or changes nothing there.  What GroupElimination guarantees       *)
(* thereby holds of the round: its result is minimal.                      *)
(***************************************************************************)
UnitsOf(S) == { UnitOf(v) : v \in S }

-----------------------------------------------------------------------------
(* Units *)

\* A unit is pending or kept iff one of its members is where the round has it.
LEMMA UnitsApart ==
    ASSUME TInv, GroupsFit, NEW x \in Closure, NEW S, S \subseteq Closure,
           UnitOf(x) \cap S = {}
    PROVE  UnitOf(x) \notin UnitsOf(S)
<1>1. ASSUME NEW v \in S, UnitOf(v) = UnitOf(x)  PROVE FALSE
  <2>1. v \in UnitOf(v)  BY ClosureFacts
  <2> QED  BY <1>1, <2>1
<1> QED  BY <1>1 DEF UnitsOf

\* Sets that contain whole units are made of them.
LEMMA UnitsCover ==
    ASSUME TInv, GroupsFit, NEW S, S \subseteq Closure,
           \A v \in S : UnitOf(v) \subseteq S
    PROVE  UNION UnitsOf(S) = S
<1>1. \A v \in S : v \in UnitOf(v)  BY ClosureFacts
<1> QED  BY <1>1 DEF UnitsOf

\* Taking one unit out of a set of variables takes one unit out of its units.
LEMMA UnitsSplit ==
    ASSUME TInv, GroupsFit, NEW x \in Closure, NEW S
    PROVE  UnitsOf(S \cup UnitOf(x)) = UnitsOf(S) \cup {UnitOf(x)}
<1>1. x \in UnitOf(x) /\ \A w \in UnitOf(x) : UnitOf(w) = UnitOf(x)  BY ClosureFacts
<1> QED  BY <1>1 DEF UnitsOf

\* What the round still has consists of whole units.
LEMMA UndroppedWhole ==
    ASSUME TInv, GroupsFit, RoundInv, pc # "build"
    PROVE  /\ Undropped \subseteq Closure
           /\ UNION UnitsOf(Undropped) = Undropped
<1>1. /\ PlacesInv /\ unknown \in Seq(Vars) /\ WholeUpTo(unknown, Len(unknown))
      /\ Range(unknown) \subseteq Closure
    BY DEF RoundInv, PlacesInv, Undropped, TInv, TypeOK
<1>2. \A v \in Range(unknown) : UnitOf(v) \subseteq Range(unknown)  BY <1>1, WholeClosed
<1>3. \A v \in Undropped : UnitOf(v) \subseteq Undropped
    BY <1>1, <1>2 DEF PlacesInv, Undropped
<1>4. Undropped \subseteq Closure  BY <1>1 DEF PlacesInv
<1> QED  BY <1>3, <1>4, UnitsCover

\* The mapping, phase by phase.
LEMMA MappedUnits ==
    /\ pc = "build" => PendingUnits = UnitsOf(Candidates)
    /\ Testing \/ Failed => PendingUnits = UnitsOf(Range(unknown) \cup {testVar})
    /\ pc # "build" /\ ~ Testing /\ ~ Failed => PendingUnits = UnitsOf(Range(unknown))
    /\ KeptUnits = UnitsOf(Range(indep))
BY DEF PendingUnits, KeptUnits, UnitsOf, Testing, Failed

-----------------------------------------------------------------------------
(* Initial states *)

LEMMA InitIsElimination == TInv /\ Init => Abstract!Init
<1> SUFFICES ASSUME TInv, Init  PROVE Abstract!Init
    OBVIOUS
<1>1. ProblemType(prob)  BY DEF TInv, TypeOK
<1>2. prob.mayTimeOut \in BOOLEAN /\ prob.models \in SUBSET (SUBSET Vars)
    BY <1>1 DEF ProblemType
<1>3. CASE ~ GroupsFit
    BY <1>2, <1>3 DEF Abstract!Init
<1>4. CASE GroupsFit
  <2>1. PendingUnits = UnitsOf(Candidates)  BY MappedUnits DEF Init, Begin
  <2>2. Range(indep) = {}  BY DEF Init, Begin, Range
  <2>3. KeptUnits = {}  BY <2>2 DEF KeptUnits
  <2>4. Candidates \subseteq Closure  BY <1>4, CandidatesInClosure
  <2>5. \A v \in Closure : v \in Vars /\ UnitOf(v) \subseteq Closure /\ v \in UnitOf(v)
                           /\ \A w \in UnitOf(v) : UnitOf(w) = UnitOf(v)
      BY <1>4, ClosureFacts
  <2>6. PendingUnits \in SUBSET (SUBSET Vars)  BY <2>1, <2>4, <2>5 DEF UnitsOf
  <2>7. \A u, w \in PendingUnits : u # w => u \cap w = {}
      BY <2>1, <2>4, <2>5 DEF UnitsOf
  <2>8. Candidates \in SUBSET (UNION PendingUnits)  BY <2>1, <2>4, <2>5 DEF UnitsOf
  <2> QED  BY <1>2, <1>4, <2>3, <2>6, <2>7, <2>8 DEF Abstract!Init
<1> QED  BY <1>3, <1>4

-----------------------------------------------------------------------------
(* Steps *)

\* The steps before the first selection: the candidates stay pending.
LEMMA BuildSteps ==
    ASSUME TInv, GroupsFit, RoundInv, PushGroupMember \/ PushUngrouped
    PROVE  PendingUnits' = PendingUnits /\ KeptUnits' = KeptUnits
<1>1. pc = "build" /\ pc' = "build" /\ prob' = prob /\ indep' = indep
    BY DEF PushGroupMember, PushUngrouped, Building
<1>2. PendingUnits = UnitsOf(Candidates) /\ PendingUnits' = UnitsOf(Candidates)'
    BY <1>1, MappedUnits DEF PendingUnits, UnitsOf, Testing, Failed
<1>3. UnitsOf(Candidates)' = UnitsOf(Candidates)  BY <1>1, ProbFixed DEF UnitsOf
<1> QED  BY <1>1, <1>2, <1>3, ProbFixed DEF KeptUnits

\* Units are a function of the input.
LEMMA UnitsFixed ==
    ASSUME prob' = prob, NEW S  PROVE { UnitOf(v)' : v \in S } = UnitsOf(S)
BY ProbFixed DEF UnitsOf

\* Sorting ends the build phase: the candidates' units are those of the unknowns.
LEMMA SortStep ==
    ASSUME TInv, GroupsFit, RoundInv, RoundInv', SortUnknown
    PROVE  PendingUnits' = PendingUnits /\ KeptUnits' = KeptUnits
<1>1. /\ pc = "build" /\ pc' = "select" /\ prob' = prob /\ indep' = indep
      /\ unknownSet' = unknownSet /\ cursor > Len(samplingSet)
    BY DEF SortUnknown
<1>2. BuildInv /\ PlacesInv /\ PlacesInv'  BY <1>1 DEF RoundInv
<1>3. Range(unknown') = unknownSet /\ Range(unknown) = unknownSet
    BY <1>1, <1>2 DEF PlacesInv
<1>4. unknownSet \subseteq Closure  BY <1>2, <1>3 DEF PlacesInv, Undropped
<1>5. Candidates \subseteq unknownSet
  <2>1. samplingSet \in Seq(Vars) /\ cursor \in Nat  BY DEF TInv, TypeOK
  <2>2. DOMAIN samplingSet \subseteq 1 .. (cursor - 1)  BY <1>1, <2>1
  <2> QED  BY <1>2, <2>2 DEF BuildInv, Candidates, Range
<1>6. UnitsOf(unknownSet) = UnitsOf(Candidates)
  <2>1. ASSUME NEW v \in unknownSet  PROVE \E c \in Candidates : UnitOf(v) = UnitOf(c)
    <3>1. PICK c \in Candidates : v \in UnitOf(c)  BY <1>4 DEF Closure
    <3>2. c \in Closure  BY CandidatesInClosure
    <3> QED  BY <3>1, <3>2, ClosureFacts
  <2> QED  BY <1>5, <2>1 DEF UnitsOf
<1>7. PendingUnits = UnitsOf(Candidates)  BY <1>1, MappedUnits
<1>8. PendingUnits' = UnitsOf(unknownSet)
  <2>1. PendingUnits' = { UnitOf(v)' : v \in Range(unknown') }
      BY <1>1 DEF PendingUnits, Testing, Failed
  <2> QED  BY <1>1, <1>3, <2>1, UnitsFixed
<1> QED  BY <1>1, <1>6, <1>7, <1>8, ProbFixed DEF KeptUnits

\* Selection moves a unit from the vector to the test: it stays pending.
LEMMA SelectStep ==
    ASSUME TInv, GroupsFit, RoundInv, RoundInv', SelectTest
    PROVE  PendingUnits' = PendingUnits /\ KeptUnits' = KeptUnits
<1>1. /\ Selecting /\ pc = "select" /\ prob' = prob /\ indep' = indep
      /\ PlacesInv /\ PlacesInv'
    BY DEF SelectTest, Selecting, setVars, RoundInv
<1>2. LastVar \in Closure /\ LastVar \in unknownSet /\ Taken = UnitOf(LastVar)
    BY <1>1, SelectedUnit
<1>3. testVar' = LastVar /\ pc' = "fillIndep" /\ unknownSet' = unknownSet \ Taken
    BY <1>2 DEF SelectTest
<1>4. Range(unknown) = unknownSet /\ Range(unknown') = unknownSet \ UnitOf(LastVar)
    BY <1>1, <1>2, <1>3 DEF PlacesInv
<1>5. LastVar \in UnitOf(LastVar) /\ \A w \in UnitOf(LastVar) : UnitOf(w) = UnitOf(LastVar)
    BY <1>2, ClosureFacts
<1>6. PendingUnits = UnitsOf(unknownSet)  BY <1>1, <1>4, MappedUnits DEF Testing, Failed
<1>7. PendingUnits' = UnitsOf((unknownSet \ UnitOf(LastVar)) \cup {LastVar})
  <2>1. PendingUnits' = { UnitOf(v)' : v \in Range(unknown') \cup {testVar'} }
      BY <1>3 DEF PendingUnits, Testing, Failed
  <2> QED  BY <1>1, <1>3, <1>4, <2>1, UnitsFixed
<1>8. PendingUnits' = PendingUnits  BY <1>2, <1>5, <1>6, <1>7 DEF UnitsOf
<1> QED  BY <1>1, <1>8, ProbFixed DEF KeptUnits

\* Neither filling the assumptions nor the solver's calls decide anything.
LEMMA TestSteps ==
    ASSUME TInv, GroupsFit, RoundInv, RoundInv',
           FillIndep \/ FillNext \/ FillEnd \/ SolveMember
    PROVE  PendingUnits' = PendingUnits /\ KeptUnits' = KeptUnits
<1>1. /\ Testing /\ Testing' /\ prob' = prob /\ indep' = indep
      /\ unknownSet' = unknownSet /\ testVar' = testVar
    BY DEF FillIndep, FillNext, Filling, FillEnd, SolveMember, Testing, setVars, workVars,
           testVars
<1>2. PlacesInv /\ PlacesInv'  BY DEF RoundInv
<1>3. Range(unknown') = Range(unknown)  BY <1>1, <1>2 DEF PlacesInv
<1>4. PendingUnits = UnitsOf(Range(unknown) \cup {testVar})  BY <1>1, MappedUnits
<1>5. PendingUnits' = { UnitOf(v)' : v \in Range(unknown') \cup {testVar'} }
    BY <1>1 DEF PendingUnits, Testing, Failed
<1>6. PendingUnits' = PendingUnits  BY <1>1, <1>3, <1>4, <1>5, UnitsFixed
<1> QED  BY <1>1, <1>6, ProbFixed DEF KeptUnits

\* Publishing changes nothing the tests look at.
LEMMA PublishSteps ==
    ASSUME GroupsFit, SelectNone \/ PublishUnknown \/ PublishSwap
    PROVE  PendingUnits' = PendingUnits /\ KeptUnits' = KeptUnits
<1>1. /\ pc \in {"select", "publish"} /\ pc' \in {"select", "publish", "done"}
      /\ prob' = prob /\ indep' = indep /\ unknown' = unknown
    BY DEF SelectNone, PublishUnknown, PublishSwap, workVars
<1>2. PendingUnits = UnitsOf(Range(unknown))  BY <1>1, MappedUnits DEF Testing, Failed
<1>3. PendingUnits' = { UnitOf(v)' : v \in Range(unknown') }
    BY <1>1 DEF PendingUnits, Testing, Failed
<1>4. PendingUnits' = PendingUnits  BY <1>1, <1>2, <1>3, UnitsFixed
<1> QED  BY <1>1, <1>4, ProbFixed DEF KeptUnits

\* Both sides mean the same by "determines".
LEMMA SameDefines ==
    ASSUME NEW M, NEW C, NEW T  PROVE Abstract!Defines(M, C, T) <=> Defines(M, C, T)
BY DEF Abstract!Defines, Abstract!Agree, Defines, Agree

\* Classification decides the unit under test, as Algorithm 1 does: it is dropped only
\* if the rest determines it, and kept only if it does not or a call gave up.
LEMMA ClassifyStep ==
    ASSUME TInv, GroupsFit, RoundInv, RoundInv', Classify
    PROVE  Abstract!Next
<1> DEFINE U == UnitOf(testVar)
           P == UnitsOf(Range(unknown))
           K == UnitsOf(Range(indep))
<1>1. /\ PlacesInv /\ ClassifyInv /\ pc = "classify" /\ Testing /\ prob' = prob
      /\ unknown' = unknown /\ testVar \in Closure
    BY DEF RoundInv, Classify, EndIteration, PlacesInv, Testing
<1>2. pc' \in {"publish", "select"}  BY DEF Classify, EndIteration
<1>3. GroupsFit'  BY <1>1, ProbFixed
<1>4. U \cap Undropped = {} /\ Undropped \subseteq Closure  BY <1>1 DEF PlacesInv
<1>5. PendingUnits = P \cup {U} /\ KeptUnits = K
    BY <1>1, MappedUnits DEF UnitsOf
<1>6. U \notin P /\ U \notin K
  <2>1. U \cap Range(unknown) = {} /\ Range(unknown) \subseteq Closure
        /\ U \cap Range(indep) = {} /\ Range(indep) \subseteq Closure
      BY <1>4 DEF Undropped
  <2> QED  BY <1>1, <2>1, UnitsApart
<1>7. PendingUnits' = P
  <2>1. PendingUnits' = { UnitOf(v)' : v \in Range(unknown') }
      BY <1>2 DEF PendingUnits, Testing, Failed
  <2> QED  BY <1>1, <2>1, UnitsFixed
<1>8. UNION ((K \cup (P \cup {U})) \ {U}) = Undropped
  <2>1. UnitsOf(Undropped) = K \cup P  BY DEF UnitsOf, Undropped
  <2>2. (K \cup (P \cup {U})) \ {U} = K \cup P  BY <1>6
  <2> QED  BY <1>1, <2>1, <2>2, UndroppedWhole
<1>9. KeptUnits' = UnitsOf(Range(indep'))
  <2>1. KeptUnits' = { UnitOf(v)' : v \in Range(indep') }  BY DEF KeptUnits
  <2> QED  BY <1>1, <2>1, UnitsFixed
<1>10. PendingUnits' = PendingUnits \ {U}  BY <1>5, <1>6, <1>7
<1> HIDE DEF U, P, K
<1>11. Abstract!Rest(U) = Undropped
    BY <1>5, <1>8 DEF Abstract!Rest
<1>12. /\ (IF GroupsFit THEN PendingUnits ELSE {})'
                = (IF GroupsFit THEN PendingUnits ELSE {}) \ {U}
       /\ (IF GroupsFit THEN KeptUnits ELSE {})' = KeptUnits'
       /\ (IF GroupsFit THEN KeptUnits ELSE {}) = KeptUnits
       /\ (IF GroupsFit THEN Candidates ELSE {})' = (IF GroupsFit THEN Candidates ELSE {})
       /\ prob.models' = prob.models /\ prob.mayTimeOut' = prob.mayTimeOut
       /\ U \in (IF GroupsFit THEN PendingUnits ELSE {})
    BY <1>1, <1>3, <1>5, <1>10, ProbFixed
<1>13. CASE Range(indep') = Range(indep) /\ ret = "false"
  <2>1. KeptUnits' = KeptUnits  BY <1>5, <1>9, <1>13 DEF K
  <2>2. Defines(prob.models, Undropped, U)  BY <1>1, <1>13 DEF ClassifyInv, U
  <2>3. Abstract!Drop(U)
      BY <1>11, <1>12, <2>1, <2>2, SameDefines
         DEF Abstract!Drop
  <2> QED  BY <1>12, <2>3 DEF Abstract!Next
<1>14. CASE Range(indep') = Range(indep) \cup U /\ ret # "false"
  <2>1. KeptUnits' = KeptUnits \cup {U}  BY <1>1, <1>5, <1>9, <1>14, UnitsSplit DEF U, K
  <2>2. prob.mayTimeOut \/ ~ Defines(prob.models, Undropped, U)
    <3>1. ret \in {"true", "undef"}  BY <1>14 DEF TInv, TypeOK
    <3> QED  BY <1>1, <3>1 DEF ClassifyInv, U
  <2>3. Abstract!Keep(U)
      BY <1>11, <1>12, <2>1, <2>2, SameDefines
         DEF Abstract!Keep
  <2> QED  BY <1>12, <2>3 DEF Abstract!Next
<1> QED  BY <1>13, <1>14, DroppedOrKept DEF U

\* A step that leaves the units alone leaves the elimination alone.
LEMMA SameUnitsStutter ==
    ASSUME prob' = prob,
           GroupsFit => PendingUnits' = PendingUnits /\ KeptUnits' = KeptUnits
    PROVE  UNCHANGED Abstract!vars
<1>1. /\ (GroupsFit' <=> GroupsFit) /\ Candidates' = Candidates
      /\ prob.models' = prob.models /\ prob.mayTimeOut' = prob.mayTimeOut
    BY ProbFixed
<1>2. /\ (IF GroupsFit THEN PendingUnits ELSE {})' = (IF GroupsFit THEN PendingUnits ELSE {})
      /\ (IF GroupsFit THEN KeptUnits ELSE {})' = (IF GroupsFit THEN KeptUnits ELSE {})
      /\ (IF GroupsFit THEN Candidates ELSE {})' = (IF GroupsFit THEN Candidates ELSE {})
    BY <1>1
<1> QED  BY <1>1, <1>2 DEF Abstract!vars

\* A step that fails does so in a test, and everything stays as pending as it was.
LEMMA FailingIsStutter ==
    ASSUME TInv, GroupsFit, RoundInv, BuildFails \/ SelectFails \/ FillFails
    PROVE  PendingUnits' = PendingUnits /\ KeptUnits' = KeptUnits
<1>1. FillFails  BY NoBuildFails, NoSelectFails
<1>2. Testing /\ Failed'  BY <1>1 DEF FillFails, Filling, Fail, Testing, Failed
<1>3. prob' = prob /\ unknown' = unknown /\ testVar' = testVar /\ indep' = indep
    BY <1>1 DEF FillFails, Fail, data, workVars, testVars
<1>4. PendingUnits' = { UnitOf(v)' : v \in Range(unknown') \cup {testVar'} }
    BY <1>2 DEF PendingUnits, Testing, Failed
<1>5. PendingUnits = UnitsOf(Range(unknown) \cup {testVar})  BY <1>2, MappedUnits
<1> QED  BY <1>3, <1>4, <1>5, UnitsFixed, ProbFixed DEF KeptUnits

LEMMA StepIsElimination ==
    TInv /\ Inductive /\ Inductive' /\ [Next]_vars => [Abstract!Next]_(Abstract!vars)
<1> SUFFICES ASSUME TInv, Inductive, Inductive', [Next]_vars
             PROVE  Abstract!Next \/ UNCHANGED Abstract!vars
    OBVIOUS
<1>1. prob' = prob  BY InputFixed
<1>2. CASE ~ GroupsFit  BY <1>1, <1>2, SameUnitsStutter
<1>3. CASE GroupsFit
  <2>0. PendingUnits' = PendingUnits /\ KeptUnits' = KeptUnits
            => UNCHANGED Abstract!vars
      BY <1>1, SameUnitsStutter
  <2>1. CASE Failed \/ UNCHANGED vars
    <3>1. pc' = pc /\ unknown' = unknown /\ testVar' = testVar /\ indep' = indep
        BY <2>1, InputFixed DEF vars, data, workVars, testVars
    <3>2. Candidates' = Candidates /\ \A v : UnitOf(v)' = UnitOf(v)
        BY <1>1, ProbFixed
    <3>3. PendingUnits' = PendingUnits /\ KeptUnits' = KeptUnits
        BY <3>1, <3>2 DEF PendingUnits, KeptUnits, Testing, Failed
    <3> QED  BY <2>0, <3>3
  <2>2. CASE ~ Failed /\ Failed'
    <3>1. RoundInv  BY <1>3, <2>2 DEF Inductive
    <3>2. BuildFails \/ SelectFails \/ FillFails
        BY <2>2 DEF Next, Step, Stopped, PushGroupMember, PushUngrouped, SortUnknown,
               SelectTest, SelectNone, FillIndep, FillNext, FillEnd, SolveMember, Classify,
               EndIteration, PublishUnknown, PublishSwap, vars, Failed
    <3> QED  BY <1>3, <2>0, <3>1, <3>2, FailingIsStutter
  <2>3. CASE ~ Failed /\ ~ Failed' /\ Step
    <3>1. RoundInv /\ RoundInv'  BY <1>1, <1>3, <2>3, ProbFixed DEF Inductive
    <3>2. ~ BuildFails /\ ~ SelectFails /\ ~ FillFails
        BY <2>3, FailingSteps DEF Fail, Failed
    <3>3. CASE PushGroupMember \/ PushUngrouped  BY <1>3, <2>0, <3>1, <3>3, BuildSteps
    <3>4. CASE SortUnknown  BY <1>3, <2>0, <3>1, <3>4, SortStep
    <3>5. CASE SelectTest  BY <1>3, <2>0, <3>1, <3>5, SelectStep
    <3>6. CASE FillIndep \/ FillNext \/ FillEnd \/ SolveMember
        BY <1>3, <2>0, <3>1, <3>6, TestSteps
    <3>7. CASE SelectNone \/ PublishUnknown \/ PublishSwap
        BY <1>3, <2>0, <3>7, PublishSteps
    <3>8. CASE Classify  BY <1>3, <3>1, <3>8, ClassifyStep
    <3> QED  BY <2>3, <3>2, <3>3, <3>4, <3>5, <3>6, <3>7, <3>8 DEF Step
  <2> QED  BY <2>1, <2>2, <2>3 DEF Next, Stopped
<1> QED  BY <1>2, <1>3

-----------------------------------------------------------------------------
(* Algorithm 1, as the round runs it *)

pending == IF GroupsFit THEN PendingUnits ELSE {}
kept == IF GroupsFit THEN KeptUnits ELSE {}
original == IF GroupsFit THEN Candidates ELSE {}

\* The steps of Algorithm 1, in these names.
LEMMA AbstractSteps ==
    ASSUME [Abstract!Next]_(Abstract!vars)
    PROVE  /\ prob.models' = prob.models /\ prob.mayTimeOut' = prob.mayTimeOut
           /\ original' = original
           /\ \/ pending' = pending /\ kept' = kept
              \/ \E u \in pending :
                     /\ pending' = pending \ {u}
                     /\ \/ kept' = kept /\ Defines(prob.models, Abstract!Rest(u), u)
                        \/ /\ kept' = kept \cup {u}
                           /\ prob.mayTimeOut \/ ~ Defines(prob.models, Abstract!Rest(u), u)
<1> USE DEF pending, kept, original
<1>1. CASE UNCHANGED Abstract!vars  BY <1>1 DEF Abstract!vars
<1>2. ASSUME NEW u \in pending, Abstract!Drop(u)
      PROVE  /\ prob.models' = prob.models /\ prob.mayTimeOut' = prob.mayTimeOut
             /\ original' = original
             /\ pending' = pending \ {u} /\ kept' = kept
             /\ Defines(prob.models, Abstract!Rest(u), u)
    BY <1>2, SameDefines DEF Abstract!Drop
<1>3. ASSUME NEW u \in pending, Abstract!Keep(u)
      PROVE  /\ prob.models' = prob.models /\ prob.mayTimeOut' = prob.mayTimeOut
             /\ original' = original
             /\ pending' = pending \ {u} /\ kept' = kept \cup {u}
             /\ prob.mayTimeOut \/ ~ Defines(prob.models, Abstract!Rest(u), u)
    BY <1>3, SameDefines DEF Abstract!Keep
<1>4. Abstract!Next => \E u \in pending : Abstract!Drop(u) \/ Abstract!Keep(u)
    BY DEF Abstract!Next
<1> HIDE DEF pending, kept, original
<1> QED  BY <1>1, <1>2, <1>3, <1>4

\* A unit is never both pending and kept.
UnitsInv == pending \cap kept = {}

LEMMA UnitsStep == UnitsInv /\ [Abstract!Next]_(Abstract!vars) => UnitsInv'
BY AbstractSteps DEF UnitsInv

\* What is left beside a unit, and the support.
LEMMA AbstractSets ==
    /\ \A u : Abstract!Rest(u) = UNION ((kept \cup pending) \ {u})
    /\ \A u : Abstract!Rest(u)' = UNION ((kept' \cup pending') \ {u})
    /\ Abstract!Support = UNION (kept \cup pending)
    /\ Abstract!Support' = UNION (kept' \cup pending')
BY DEF Abstract!Rest, Abstract!Support, pending, kept

\* The support determines the variables of interest: what dropping a unit leaves is what
\* the drop was justified by.
LEMMA SupportsKept ==
    UnitsInv /\ Abstract!Supports /\ [Abstract!Next]_(Abstract!vars) => Abstract!Supports'
<1> SUFFICES ASSUME UnitsInv, Abstract!Supports, [Abstract!Next]_(Abstract!vars)
             PROVE  Abstract!Supports'
    OBVIOUS
<1> DEFINE S == UNION (kept \cup pending)
<1>1. Abstract!Supports <=> Defines(prob.models, S, original)
    BY SameDefines, AbstractSets DEF Abstract!Supports, original
<1>2. Abstract!Supports' <=> Defines(prob.models', UNION (kept' \cup pending'), original')
    BY AbstractSets DEF Abstract!Supports, original, Abstract!Defines, Abstract!Agree,
           Defines, Agree
<1>3. prob.models' = prob.models /\ original' = original  BY AbstractSteps
<1>4. CASE kept' \cup pending' = kept \cup pending  BY <1>1, <1>2, <1>3, <1>4
<1>5. ASSUME NEW u \in pending, pending' = pending \ {u}, kept' = kept,
             Defines(prob.models, Abstract!Rest(u), u)
      PROVE  Abstract!Supports'
  <2>1. UNION (kept' \cup pending') = Abstract!Rest(u) /\ S = Abstract!Rest(u) \cup u
      BY <1>5, AbstractSets DEF UnitsInv
  <2>2. Defines(prob.models, Abstract!Rest(u) \cup u, original)  BY <1>1, <2>1
  <2>3. Defines(prob.models, Abstract!Rest(u), original)  BY <1>5, <2>2, DropDetermined
  <2> QED  BY <1>2, <1>3, <2>1, <2>3
<1> QED  BY <1>4, <1>5, AbstractSteps

\* Without time-outs no kept unit can ever be left out of the support: what is left
\* beside it only shrinks.
LEMMA NeededKept ==
    UnitsInv /\ Abstract!KeptNeeded /\ [Abstract!Next]_(Abstract!vars)
        => Abstract!KeptNeeded'
<1> SUFFICES ASSUME UnitsInv, Abstract!KeptNeeded, [Abstract!Next]_(Abstract!vars)
             PROVE  Abstract!KeptNeeded'
    OBVIOUS
<1> DEFINE R(w) == UNION ((kept \cup pending) \ {w})
           Later(w) == UNION ((kept' \cup pending') \ {w})
<1>1. Abstract!KeptNeeded <=>
         (~ prob.mayTimeOut => \A w \in kept : ~ Defines(prob.models, R(w), w))
    BY SameDefines, AbstractSets DEF Abstract!KeptNeeded, kept
<1>2. Abstract!KeptNeeded' <=>
         (~ prob.mayTimeOut' => \A w \in kept' : ~ Defines(prob.models', Later(w), w))
    BY AbstractSets DEF Abstract!KeptNeeded, kept, Abstract!Defines, Abstract!Agree,
           Defines, Agree
<1>3. prob.models' = prob.models /\ prob.mayTimeOut' = prob.mayTimeOut  BY AbstractSteps
<1>4. kept' \cup pending' \subseteq kept \cup pending  BY AbstractSteps
<1>5. ASSUME NEW w, ~ Defines(prob.models, R(w), w)
      PROVE  ~ Defines(prob.models', Later(w), w)
  <2>1. Later(w) \subseteq R(w)  BY <1>4
  <2> QED  BY <1>3, <1>5, <2>1, DefinesMono
<1>6. CASE kept' = kept  BY <1>1, <1>2, <1>3, <1>5, <1>6
<1>7. ASSUME NEW u \in pending, kept' = kept \cup {u},
             prob.mayTimeOut \/ ~ Defines(prob.models, Abstract!Rest(u), u)
      PROVE  Abstract!KeptNeeded'
  <2>1. Abstract!Rest(u) = R(u)  BY AbstractSets
  <2> QED  BY <1>1, <1>2, <1>3, <1>5, <1>7, <2>1
<1> QED  BY <1>6, <1>7, AbstractSteps

-----------------------------------------------------------------------------
(* The refinement, and what it brings *)

\* Every behaviour of the round is one of Algorithm 1, its progress aside.
THEOREM RoundImplementsElimination == Spec => Abstract!Safe
<1>1. Spec => [](TInv /\ Inductive)
    BY InitTInv, TInvStep, InductiveCorrect, PTL DEF Spec
<1>2. TInv /\ Inductive /\ (TInv /\ Inductive)' /\ [Next]_vars
          => [Abstract!Next]_(Abstract!vars)
    BY StepIsElimination
<1>3. Spec => [][Abstract!Next]_(Abstract!vars)
    BY <1>1, <1>2, PTL DEF Spec
<1>4. Init => Abstract!Init  BY InitTInv, InitIsElimination
<1> QED  BY <1>3, <1>4, PTL DEF Spec, Abstract!Safe

\* In the end the kept units are the units of the result, and nothing is pending.
LEMMA NeededIsMinimal == TInv /\ Inductive /\ Abstract!KeptNeeded => ResultIsMinimal
<1> SUFFICES ASSUME TInv, Inductive, Abstract!KeptNeeded, GroupsFit,
                    ~ prob.mayTimeOut, pc = "done", NEW v \in Range(samplingSet)
             PROVE  ~ Defines(prob.models, Range(samplingSet) \ UnitOf(v), UnitOf(v))
    BY DEF ResultIsMinimal
<1> DEFINE K == UnitsOf(Range(indep))
           U == UnitOf(v)
<1>1. RoundInv /\ PlacesInv /\ unknown = <<>> /\ samplingSet = indep
    BY DEF Inductive, RoundInv, Failed
<1>2. Range(unknown) = {} /\ Undropped = Range(indep)
    BY <1>1 DEF Undropped, Range
<1>3. PendingUnits = {} /\ KeptUnits = K
    BY <1>2, MappedUnits DEF Testing, Failed, UnitsOf
<1>4. U \in K  BY <1>1 DEF UnitsOf
<1>5. Abstract!Rest(U) = UNION (K \ {U})  BY <1>3 DEF Abstract!Rest
<1>6. UNION (K \ {U}) = Range(indep) \ U
  <2>1. UNION K = Range(indep) /\ Range(indep) \subseteq Closure
      BY <1>1, <1>2, UndroppedWhole
  <2>2. ASSUME NEW w \in Range(indep), UnitOf(w) # U  PROVE UnitOf(w) \cap U = {}
    <3>1. w \in Closure /\ v \in Closure  BY <1>1, <2>1
    <3> QED  BY <2>2, <3>1, ClosureFacts
  <2>3. \A w \in Range(indep) : w \in UnitOf(w)  BY <2>1, ClosureFacts
  <2> QED  BY <2>1, <2>2, <2>3 DEF UnitsOf
<1>7. ~ Abstract!Defines(prob.models, Abstract!Rest(U), U)
    BY <1>3, <1>4 DEF Abstract!KeptNeeded
<1> QED  BY <1>1, <1>5, <1>6, <1>7, SameDefines

\* The support of Algorithm 1 determines the variables of interest in every state.
THEOREM SupportThroughout == Spec => []Abstract!Supports
<1>1. Abstract!Init => UnitsInv /\ Abstract!Supports
  <2> SUFFICES ASSUME Abstract!Init  PROVE UnitsInv /\ Abstract!Supports
      OBVIOUS
  <2>1. kept = {} /\ original \subseteq UNION pending
      BY DEF Abstract!Init, pending, kept, original
  <2>2. Defines(prob.models, UNION (kept \cup pending), original)
      BY <2>1, DefinesRefl
  <2> QED  BY <2>1, <2>2, SameDefines, AbstractSets DEF UnitsInv, Abstract!Supports, original
<1> QED  BY <1>1, RoundImplementsElimination, UnitsStep, SupportsKept, PTL DEF Abstract!Safe

\* What carries Algorithm 1's argument through the round.
ElimInv == UnitsInv /\ Abstract!KeptNeeded

LEMMA BeginElim == Begin => ElimInv
<1> SUFFICES ASSUME Begin PROVE ElimInv  OBVIOUS
<1>1. kept = {}  BY DEF Begin, kept, KeptUnits, Range
<1> QED  BY <1>1 DEF ElimInv, UnitsInv, kept, Abstract!KeptNeeded

LEMMA ElimStep ==
    TInv /\ Inductive /\ Inductive' /\ ElimInv /\ [Next]_vars => ElimInv'
BY StepIsElimination, UnitsStep, NeededKept DEF ElimInv

\* What the end of the round says of its result.
LEMMA DoneFacts ==
    ASSUME Inductive, GroupsFit, pc = "done"
    PROVE  /\ Range(samplingSet) \subseteq Closure /\ Distinct(samplingSet)
           /\ Defines(prob.models, Range(samplingSet), Closure)
           /\ \A v \in Range(samplingSet) : UnitOf(v) \subseteq Range(samplingSet)
<1>1. RoundInv /\ PlacesInv /\ SupportInv /\ unknown = <<>> /\ samplingSet = indep
  BY DEF Inductive, RoundInv, Failed
<1>2. Undropped = Range(samplingSet)  BY <1>1 DEF Undropped, Range
<1>3. Defines(prob.models, Range(samplingSet), Closure)
  <2>1. ~ Testing  BY DEF Testing
  <2>2. Undropped \cup (IF Testing THEN UnitOf(testVar) ELSE {}) = Range(samplingSet)
    BY <1>2, <2>1
  <2> QED  BY <1>1, <2>2 DEF SupportInv
<1> QED  BY <1>1, <1>2, <1>3 DEF PlacesInv

\* Without time-outs no group, and no variable in no group, can be left out of the result
\* (README.md: "A minimal group independent support"); the argument is Algorithm 1's.
THEOREM MinimalResult == Spec => []ResultIsMinimal
<1>1. Init => ElimInv  BY BeginElim DEF Init
<1>2. Spec => [](TInv /\ Inductive)
    BY InitTInv, TInvStep, InductiveCorrect, PTL DEF Spec
<1>3. Spec => []ElimInv
    BY <1>1, <1>2, ElimStep, PTL DEF Spec
<1>4. TInv /\ Inductive /\ ElimInv => ResultIsMinimal
    BY NeededIsMinimal DEF ElimInv
<1> QED  BY <1>2, <1>3, <1>4, PTL
=============================================================================
