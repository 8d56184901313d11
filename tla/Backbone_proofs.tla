-------------------------- MODULE Backbone_proofs --------------------------
(***************************************************************************)
(* For every formula, every order of the variables, every answer of the    *)
(* solver and every budget: backbone_simpl adds only literals that follow, *)
(* and a run that is not cut off adds all of them.                         *)
(***************************************************************************)
EXTENDS Backbone, FiniteSetTheorems, TLAPS

\* The loop's order is a sequence of variables, one for each that is not set.
LEMMA OrderType ==
    ASSUME NEW free \in SUBSET Vars, NEW s \in [1 .. Cardinality(free) -> free]
    PROVE  s \in Seq(Vars) /\ Len(s) \in Nat
<1>1. Cardinality(free) \in Nat
  BY BackboneAssumption, FS_Subset, FS_CardinalityType
<1> QED  BY <1>1

\* The literal of the model for a variable is a literal.
LEMMA LitType == ASSUME NEW v \in Vars PROVE LitOf(v) \in Vars \X BOOLEAN
<1>1. \A b \in BOOLEAN : <<v, b>> \in Vars \X BOOLEAN  OBVIOUS
<1>2. (v \in model) \in BOOLEAN  OBVIOUS
<1> QED  BY <1>1, <1>2 DEF LitOf

\* A literal whose negation the solver cannot satisfy holds in every model.
LEMMA NoModelImplies ==
    ASSUME TypeOK, NEW v \in Vars, NEW b \in BOOLEAN, Found({Negation(<<v, b>>)}) = {}
    PROVE  <<v, b>> \in BackboneOf(models)
<1> DEFINE l == <<v, b>>
<1>1. ASSUME NEW a \in models PROVE Holds(l, a)
  <2>1. a \notin Found({Negation(l)})  OBVIOUS
  <2>2. ~ Holds(Negation(l), a)  BY <2>1 DEF Found
  <2>3. Negation(l)[1] = v /\ Negation(l)[2] = ~ b /\ l[1] = v /\ l[2] = b  BY DEF Negation
  <2> QED  BY <2>2, <2>3 DEF Holds
<1> QED  BY <1>1 DEF BackboneOf

\* Types are preserved by every step.
LEMMA TypeStep == TypeOK /\ BackboneInv /\ [Next]_vars => TypeOK'
<1> SUFFICES ASSUME TypeOK, BackboneInv, [Next]_vars PROVE TypeOK'
  OBVIOUS
<1> USE DEF TypeOK
<1>1. CASE Order
  <2> DEFINE free == Vars \ { l[1] : l \in units }
  <2>1. varOrder' \in [1 .. Cardinality(free) -> free]  BY <1>1 DEF Order
  <2>2. varOrder' \in Seq(Vars) /\ Len(varOrder') \in Nat  BY <2>1, OrderType
  <2>3. at' = 1  BY <1>1 DEF Order, BackboneInv
  <2>4. returned' \in BOOLEAN /\ pc' \in {"returned", "first"}  BY <1>1 DEF Order
  <2> QED  BY <1>1, <2>2, <2>3, <2>4 DEF Order
<1>2. CASE FirstModel
  <2>1. confl' \in Int /\ uncounted' \in Nat  BY <1>2, BackboneAssumption DEF FirstModel
  <2>2. model' \subseteq Vars /\ modelEnabled' \subseteq Vars /\ pc' \in {"end", "loop"}
    BY <1>2, BackboneAssumption DEF FirstModel, Found
  <2> QED  BY <1>2, <2>1, <2>2 DEF FirstModel
<1>3. CASE FirstUnsat  BY <1>3 DEF FirstUnsat
<1>4. CASE SkipVar  BY <1>4 DEF SkipVar, Looping
<1>5. CASE TestVar
  <2>1. confl' \in Int /\ uncounted' \in Nat  BY <1>5, BackboneAssumption DEF TestVar
  <2>2. varOrder[at] \in Vars /\ at' \in Nat \ {0} /\ at' <= Len(varOrder) + 1
    BY <1>5 DEF TestVar, Looping
  <2>3. units' \subseteq Vars \X BOOLEAN
    <3>1. Lit \in Vars \X BOOLEAN  BY <2>2, LitType DEF Lit
    <3>2. units' = units \/ units' = units \cup {Lit}  BY <1>5 DEF TestVar
    <3> QED  BY <3>1, <3>2
  <2>4. modelEnabled' \subseteq Vars /\ pc' \in {"end", "loop"}  BY <1>5 DEF TestVar, Looping
  <2> QED  BY <1>5, <2>1, <2>2, <2>3, <2>4 DEF TestVar
<1>6. CASE Finish  BY <1>6 DEF Finish
<1>7. CASE Return  BY <1>7 DEF Return
<1>8. CASE UNCHANGED vars  BY <1>8 DEF vars
<1> QED  BY <1>1, <1>2, <1>3, <1>4, <1>5, <1>6, <1>7, <1>8 DEF Next, Step, Stopped

LEMMA InitInv == Init => TypeOK /\ BackboneInv
<1> SUFFICES ASSUME Init PROVE TypeOK /\ BackboneInv
  OBVIOUS
<1>1. TypeOK
  <2>1. varOrder \in Seq(Vars) /\ Len(varOrder) = 0 /\ at = 1  BY DEF Init
  <2>2. units \subseteq Vars \X BOOLEAN  BY DEF Init, BackboneOf
  <2>3. confl \in Int /\ uncounted \in Nat  BY BackboneAssumption DEF Init
  <2>4. finished \in BOOLEAN /\ returned \in BOOLEAN /\ pc = "order"  BY DEF Init
  <2>5. models \in Formulas /\ model \subseteq Vars /\ modelEnabled \subseteq Vars  BY DEF Init
  <2> QED  BY <2>1, <2>2, <2>3, <2>4, <2>5 DEF TypeOK
<1> QED  BY <1>1 DEF Init, BackboneInv, UnitsAreImplied, FindsAll

\* Testing one variable: a model found is a witness for each variable it disables, the
\* variable under test among them; without a model the literal is added.
LEMMA TestVarKeepsLoopInv ==
    ASSUME TypeOK, BackboneInv, TestVar
    PROVE  units' \subseteq BackboneOf(models) /\ (pc' = "loop" => LoopInv')
<1> DEFINE v == varOrder[at]
<1>1. v \in Vars /\ at \in 1 .. Len(varOrder) /\ at' = at + 1 /\ pc = "loop"
  BY DEF TypeOK, TestVar, Looping
<1>2. LoopInv /\ units \subseteq BackboneOf(models)
  BY <1>1 DEF BackboneInv, UnitsAreImplied
<1>3. models' = models /\ varOrder' = varOrder /\ model' = model  BY DEF TestVar
<1>4. \A w : NotBackbone(w)' <=> NotBackbone(w)  BY <1>3 DEF NotBackbone
<1>5. units \subseteq units'  BY DEF TestVar
<1>6. ASSUME NEW k \in 1 .. (at - 1)
      PROVE  LitOf(varOrder[k])' \in units' \/ NotBackbone(varOrder[k])'
  BY <1>2, <1>3, <1>4, <1>5, <1>6 DEF LoopInv, LitOf, NotBackbone
<1>7. CASE \E a \in Found({Negation(Lit)}) :
               /\ modelEnabled' = { w \in modelEnabled : w \in a <=> w \in model }
               /\ units' = units
  <2>1. PICK a \in Found({Negation(Lit)}) :
               /\ modelEnabled' = { w \in modelEnabled : w \in a <=> w \in model }
               /\ units' = units
    BY <1>7
  <2>2. a \in models /\ Holds(Negation(Lit), a)  BY <2>1 DEF Found
  <2>3. Negation(Lit)[1] = v /\ Negation(Lit)[2] = ~ (v \in model)
    BY DEF Negation, Lit, LitOf
  <2>4. (v \in a) # (v \in model)  BY <2>2, <2>3 DEF Holds
  <2>5. NotBackbone(v)  BY <2>2, <2>4 DEF NotBackbone
  <2>6. \A w \in Vars \ modelEnabled' : NotBackbone(w)
    BY <1>2, <2>1, <2>2 DEF LoopInv, NotBackbone
  <2>7. \A k \in 1 .. (at' - 1) : LitOf(varOrder[k])' \in units' \/ NotBackbone(varOrder[k])'
    <3> TAKE k \in 1 .. (at' - 1)
    <3>1. k \in 1 .. (at - 1) \/ k = at  BY <1>1
    <3> QED  BY <3>1, <1>3, <1>4, <1>6, <2>5
  <2>8. \A w \in Vars \ modelEnabled' : NotBackbone(w)'  BY <1>4, <2>6
  <2>9. model' \in models'  BY <1>2, <1>3 DEF LoopInv
  <2>10. LoopInv'  BY <2>7, <2>8, <2>9 DEF LoopInv
  <2> QED  BY <1>2, <2>1, <2>10
<1>8. CASE /\ Found({Negation(Lit)}) = {}
           /\ units' = units \cup {Lit} /\ modelEnabled' = modelEnabled
  <2>0. Lit = <<v, v \in model>> /\ (v \in model) \in BOOLEAN  BY DEF Lit, LitOf
  <2>1. Lit \in BackboneOf(models)
    <3>1. Found({Negation(<<v, v \in model>>)}) = {}  BY <1>8, <2>0
    <3> QED  BY <1>1, <2>0, <3>1, NoModelImplies
  <2>2. \A k \in 1 .. (at' - 1) : LitOf(varOrder[k])' \in units' \/ NotBackbone(varOrder[k])'
    <3> TAKE k \in 1 .. (at' - 1)
    <3>1. k \in 1 .. (at - 1) \/ k = at  BY <1>1
    <3> QED  BY <3>1, <1>3, <1>6, <1>8 DEF Lit, LitOf
  <2> QED  BY <1>2, <1>3, <1>4, <1>8, <2>1, <2>2 DEF LoopInv
<1>9. CASE units' = units /\ pc' = "end"  BY <1>2, <1>9
<1> QED
  <2>1. \/ \E a \in Found({Negation(Lit)}) :
               /\ modelEnabled' = { w \in modelEnabled : w \in a <=> w \in model }
               /\ units' = units
        \/ /\ Found({Negation(Lit)}) = {}
           /\ units' = units \cup {Lit} /\ modelEnabled' = modelEnabled
        \/ units' = units /\ pc' = "end"
    BY DEF TestVar
  <2> QED  BY <2>1, <1>7, <1>8, <1>9

\* At the end of the loop a literal that holds in every model is there.
LEMMA LoopEnds ==
    ASSUME TypeOK, BackboneInv, Finish
    PROVE  units = BackboneOf(models)
<1>1. LoopInv /\ units \subseteq BackboneOf(models)
  BY DEF Finish, BackboneInv, UnitsAreImplied
<1>2. ASSUME NEW l \in BackboneOf(models) PROVE l \in units
  <2>1. l \in Vars \X BOOLEAN /\ \A a \in models : Holds(l, a)  BY DEF BackboneOf
  <2>2. model \in models  BY <1>1 DEF LoopInv
  <2>3. l = LitOf(l[1]) /\ ~ NotBackbone(l[1])
    <3>1. (l[1] \in model) = l[2]  BY <2>1, <2>2 DEF Holds
    <3>2. \A a \in models : (l[1] \in a) = l[2]  BY <2>1 DEF Holds
    <3> QED  BY <2>1, <3>1, <3>2 DEF LitOf, NotBackbone
  <2>4. CASE \E m \in units : m[1] = l[1]
    <3>1. PICK m \in units : m[1] = l[1]  BY <2>4
    <3>2. m \in Vars \X BOOLEAN /\ Holds(m, model)  BY <1>1, <2>2 DEF BackboneOf
    <3>3. m = LitOf(m[1])  BY <3>2 DEF Holds, LitOf
    <3> QED  BY <2>3, <3>1, <3>3
  <2>5. CASE l[1] \in Range(varOrder)
    <3>1. PICK k \in DOMAIN varOrder : varOrder[k] = l[1]  BY <2>5 DEF Range
    <3>2. k \in 1 .. (at - 1)  BY <3>1 DEF TypeOK, Finish
    <3> QED  BY <1>1, <2>3, <3>1, <3>2 DEF LoopInv
  <2> QED  BY <2>1, <2>4, <2>5 DEF BackboneInv, Finish
<1> QED  BY <1>1, <1>2

LEMMA InvStep == TypeOK /\ BackboneInv /\ [Next]_vars => BackboneInv'
<1> SUFFICES ASSUME TypeOK, BackboneInv, [Next]_vars PROVE BackboneInv'
  OBVIOUS
<1>1. CASE Order
  <2> DEFINE free == Vars \ { l[1] : l \in units }
  <2>1. Range(varOrder') = free  BY <1>1 DEF Order
  <2>2. \A v \in Vars : (\E l \in units' : l[1] = v) \/ v \in Range(varOrder')
    BY <1>1, <2>1 DEF Order
  <2>3. pc = "order" /\ at' = at /\ units' = units /\ models' = models /\ finished' = finished
        /\ pc' \in {"first", "returned"}
    BY <1>1 DEF Order
  <2> QED  BY <2>2, <2>3 DEF BackboneInv, UnitsAreImplied, FindsAll
<1>2. CASE FirstModel
  <2>1. /\ pc = "first" /\ models' = models /\ units' = units /\ varOrder' = varOrder
        /\ at' = at /\ at = 1 /\ finished' = finished /\ pc' \in {"end", "loop"}
    BY <1>2 DEF FirstModel, BackboneInv
  <2>2. pc' = "loop" => model' \in models /\ modelEnabled' = Vars
    BY <1>2 DEF FirstModel, Found
  <2>3. pc' = "loop" => LoopInv'  BY <2>1, <2>2 DEF LoopInv
  <2> QED  BY <2>1, <2>3 DEF BackboneInv, UnitsAreImplied, FindsAll
<1>3. CASE FirstUnsat  BY <1>3 DEF FirstUnsat, BackboneInv, UnitsAreImplied, FindsAll
<1>4. CASE SkipVar
  <2>1. /\ pc = "loop" /\ at \in 1 .. Len(varOrder) /\ varOrder[at] \in Vars \ modelEnabled
        /\ at' = at + 1
    BY <1>4 DEF SkipVar, Looping, TypeOK
  <2>2. NotBackbone(varOrder[at]) /\ LoopInv  BY <2>1 DEF BackboneInv, LoopInv
  <2>3. \A w : NotBackbone(w)' <=> NotBackbone(w)  BY <1>4 DEF SkipVar, NotBackbone
  <2>4. \A k \in 1 .. (at' - 1) : LitOf(varOrder[k])' \in units' \/ NotBackbone(varOrder[k])'
    <3> TAKE k \in 1 .. (at' - 1)
    <3>1. k \in 1 .. (at - 1) \/ k = at  BY <2>1
    <3> QED  BY <3>1, <1>4, <2>2, <2>3 DEF SkipVar, LoopInv, LitOf
  <2>5. LoopInv'  BY <1>4, <2>2, <2>3, <2>4 DEF SkipVar, LoopInv
  <2> QED  BY <1>4, <2>1, <2>5 DEF SkipVar, BackboneInv, UnitsAreImplied, FindsAll
<1>5. CASE TestVar
  <2>1. units' \subseteq BackboneOf(models) /\ (pc' = "loop" => LoopInv')
    BY <1>5, TestVarKeepsLoopInv
  <2>2. /\ pc = "loop" /\ pc' \in {"loop", "end"} /\ units \subseteq units'
        /\ UNCHANGED <<models, varOrder, finished>>
    BY <1>5 DEF TestVar, Looping
  <2> QED  BY <2>1, <2>2 DEF BackboneInv, UnitsAreImplied, FindsAll
<1>6. CASE Finish
  <2>1. units = BackboneOf(models)  BY <1>6, LoopEnds
  <2> QED  BY <1>6, <2>1 DEF Finish, BackboneInv, UnitsAreImplied, FindsAll
<1>7. CASE Return  BY <1>7 DEF Return, BackboneInv, UnitsAreImplied, FindsAll
<1>8. CASE UNCHANGED vars
  BY <1>8 DEF vars, BackboneInv, UnitsAreImplied, FindsAll, LoopInv, NotBackbone, LitOf
<1> QED  BY <1>1, <1>2, <1>3, <1>4, <1>5, <1>6, <1>7, <1>8 DEF Next, Step, Stopped

LEMMA InvHolds == Spec => [](TypeOK /\ BackboneInv)
<1>1. TypeOK /\ BackboneInv /\ [Next]_vars => (TypeOK /\ BackboneInv)'
  BY TypeStep, InvStep
<1> QED  BY InitInv, <1>1, PTL DEF Spec

\* Every variable keeps its type (the vectors, flags and counters of backbone_simpl).
THEOREM BackboneTypes == Spec => []TypeOK
<1> QED  BY InvHolds, PTL

\* The literals backbone_simpl adds as unit clauses follow from the formula, whenever
\* the loop is cut off.
THEOREM BackboneImplied == Spec => []UnitsAreImplied
<1>1. BackboneInv => UnitsAreImplied  BY DEF BackboneInv
<1> QED  BY InvHolds, <1>1, PTL

\* A search that reaches the end of its loop has added every literal that follows.
THEOREM BackboneComplete == Spec => []FindsAll
<1>1. BackboneInv => FindsAll  BY DEF BackboneInv
<1> QED  BY InvHolds, <1>1, PTL
=============================================================================
